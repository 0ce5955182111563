------------------------------ MODULE ArchiveRules ------------------------------
(***************************************************************************)
(* extract_artifact of manager/hahapent/downloads.py: every member of an   *)
(* archive is judged before the first one is written.  What the rules are  *)
(* for is the writing: it must neither fail nor merge two members, also on *)
(* a file system that does not tell upper from lower case.                 *)
(***************************************************************************)
EXTENDS Naturals, Sequences, SequencesExt

CONSTANTS
  Names,            \* paths of members: sequences of components
  Fold,             \* [component -> component]: casefold
  Package,          \* <<"custom_components", domain>>
  Unsafe,           \* components that no member may have: "..", "", __pycache__, ...
  Manifest, Initial,    \* manifest.json and __init__.py
  FileSizes, MaxTotal,  \* sizes of a file, MAX_EXTRACT_BYTES
  MaxFiles          \* 2000: MAX_FILES

ASSUME ArchiveAssumption ==
  /\ Names \subseteq Seq(DOMAIN Fold) \ {<<>>} /\ Package \in Seq(DOMAIN Fold)
  /\ FileSizes \subseteq Nat /\ MaxTotal \in Nat /\ MaxFiles \in Nat

VARIABLES
  members,          \* those read so far: [name, directory]
  aliases,          \* how each path and parent was spelled
  seen,             \* folded paths of the members
  files, directories,   \* folded, below the package
  extracted,        \* [path, directory] to write, in their order
  size,             \* of the files so far
  archive           \* "reading", "accepted" or why it was refused
archiveVars == <<members, aliases, seen, files, directories, extracted, size, archive>>

ArchiveInit ==
  /\ members = <<>> /\ aliases = {} /\ seen = {} /\ files = {} /\ directories = {}
  /\ extracted = <<>> /\ size = 0 /\ archive = "reading"

-----------------------------------------------------------------------------
Folded(path) == [i \in DOMAIN path |-> Fold[path[i]]]
Parents(path) == {SubSeq(path, 1, n) : n \in 1..(Len(path) - 1)}
FoldedParents(path) == {Folded(p) : p \in Parents(path)}
Below(name) == SubSeq(name, Len(Package) + 1, Len(name))

\* Faulty Misspelled: without casefold, a path was never spelled otherwise.
SpelledAsIs(name) == \E part \in Parents(name) \cup {name} : part # part

\* A path or parent that was spelled otherwise before.
Misspelled(name) ==
  \E part \in Parents(name) \cup {name}, other \in aliases :
    Folded(part) = Folded(other) /\ part # other

\* A file where a directory must be, or the other way round.
Conflict(path, directory) ==
  \/ FoldedParents(path) \cap files # {}
  \/ ~directory /\ Folded(path) \in directories

\* The package's own folders are allowed and not written.
IsScaffold(name, directory) == directory /\ IsPrefix(name, Package)

\* What speaks against a member; the code names the first.
Objections(name, directory, bytes) ==
  {why \in {"archive_limit", "unsafe_archive", "duplicate_archive_path",
            "archive_domain_mismatch", "archive_path_conflict"} :
     \/ why = "archive_limit" /\ Len(members) = MaxFiles
     \/ why = "unsafe_archive" /\ ToSet(name) \cap Unsafe # {}
     \/ why = "duplicate_archive_path" /\ (Misspelled(name) \/ Folded(name) \in seen)
     \/ /\ ~IsScaffold(name, directory)
        /\ \/ why = "archive_domain_mismatch" /\ ~IsStrictPrefix(Package, name)
           \/ why = "archive_path_conflict" /\ Conflict(Below(name), directory)
           \/ why = "archive_limit" /\ size + bytes > MaxTotal}

Refuse ==
  \E name \in Names, directory \in BOOLEAN, bytes \in FileSizes :
    /\ archive = "reading"
    /\ archive' \in Objections(name, directory, bytes)
    /\ UNCHANGED <<members, aliases, seen, files, directories, extracted, size>>

\* One turn of the loop over archive.infolist().
Admit ==
  \E name \in Names, directory \in BOOLEAN, bytes \in FileSizes :
    /\ archive = "reading" /\ Objections(name, directory, bytes) = {}
    /\ members' = Append(members, [name |-> name, directory |-> directory])
    /\ aliases' = aliases \cup Parents(name) \cup {name}
    /\ seen' = seen \cup {Folded(name)}
    /\ IF IsScaffold(name, directory) THEN UNCHANGED <<files, directories, extracted, size>>
       ELSE LET path == Below(name)
            IN  /\ directories' = directories \cup FoldedParents(path)
                                  \cup {p \in {Folded(path)} : directory}
                /\ files' = files \cup {p \in {Folded(path)} : ~directory}
                /\ extracted' = Append(extracted, [path |-> path, directory |-> directory])
                /\ size' = size + bytes
    /\ UNCHANGED archive

\* All members read: the two files every integration has, and a manifest that
\* names the module and its version and wants no packages.
Judge ==
  \E manifestFits \in BOOLEAN :
    /\ archive = "reading"
    /\ LET written == {m.path : m \in {e \in ToSet(extracted) : ~e.directory}}
       IN  archive' = CASE ~({<<Manifest>>, <<Initial>>} \subseteq written) -> "missing_manifest"
                        [] {<<Manifest>>, <<Initial>>} \subseteq written ->
                             IF manifestFits THEN "accepted" ELSE "manifest_identity_mismatch"
    /\ UNCHANGED <<members, aliases, seen, files, directories, extracted, size>>

ArchiveNext == Refuse \/ Admit \/ Judge

ArchiveSpec == ArchiveInit /\ [][ArchiveNext]_archiveVars

-----------------------------------------------------------------------------
(* The writing, on a file system that folds names or tells them apart. *)

\* What is there after the first n members: folders and files, and whether a
\* member failed: open("xb") or mkdir found something in the way.
Known(path, folds) == IF folds THEN Folded(path) ELSE path
Above(path, folds) == {Known(p, folds) : p \in Parents(path)}
Folders(folds, n) ==
  (UNION {Above(extracted[i].path, folds) : i \in 1..n})
  \cup {Known(extracted[i].path, folds) : i \in {k \in 1..n : extracted[k].directory}}
Written(folds, n) ==
  {Known(extracted[i].path, folds) : i \in {k \in 1..n : ~extracted[k].directory}}
Fails(folds, n) ==
  LET path == extracted[n].path
  IN  \/ Above(path, folds) \cap Written(folds, n - 1) # {}
      \/ Known(path, folds) \in Written(folds, n - 1)
      \/ ~extracted[n].directory /\ Known(path, folds) \in Folders(folds, n - 1)

\* An accepted archive is written without a failure that extract_artifact would
\* not expect (downloads.py:353-362), and the same on both kinds of file system:
\* every member becomes a file or folder of its own inside the package's folder,
\* and no two files or folders differ in case only.
AcceptedExtracts ==
  archive = "accepted" =>
    /\ \A n \in DOMAIN extracted : ~Fails(FALSE, n) /\ ~Fails(TRUE, n)
    /\ LET there == Written(FALSE, Len(extracted)) \cup Folders(FALSE, Len(extracted))
       IN  \A p, q \in there : Folded(p) = Folded(q) => p = q
    /\ \A i \in DOMAIN members :
         \/ IsPrefix(members[i].name, Package)
         \/ \E k \in DOMAIN extracted : members[i].name = Package \o extracted[k].path
    /\ size <= MaxTotal /\ Len(members) <= MaxFiles
=============================================================================
