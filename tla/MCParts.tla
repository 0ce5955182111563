-------------------------------- MODULE MCParts --------------------------------
(***************************************************************************)
(* Six parts of the repository that share no state, in one run: the first *)
(* step chooses nothing, `part' says from the beginning which one moves.   *)
(***************************************************************************)
EXTENDS FrameDecoder, CommandAudit, Downloads, ArchiveRules, CatalogRules, HAValidation

VARIABLE part
partsVars == <<part, decoderVars, auditVars, downloadVars, archiveVars, catalogVars, haVars>>

Init ==
  /\ part \in {"decoder", "audit", "download", "archive", "catalog", "ha"}
  /\ DecoderInit /\ AuditInit /\ DownloadInit /\ ArchiveInit /\ CatalogInit /\ HAInit
  /\ part # "ha" => agent = "resume"     \* one idle worker is enough

Next ==
  /\ UNCHANGED part
  /\ \/ /\ part = "decoder" /\ DecoderNext
        /\ UNCHANGED <<auditVars, downloadVars, archiveVars, catalogVars, haVars>>
     \/ /\ part = "audit" /\ AuditNext
        /\ UNCHANGED <<decoderVars, downloadVars, archiveVars, catalogVars, haVars>>
     \/ /\ part = "download" /\ DownloadNext
        /\ UNCHANGED <<decoderVars, auditVars, archiveVars, catalogVars, haVars>>
     \/ /\ part = "archive" /\ ArchiveNext
        /\ UNCHANGED <<decoderVars, auditVars, downloadVars, catalogVars, haVars>>
     \/ /\ part = "catalog" /\ CatalogNext
        /\ UNCHANGED <<decoderVars, auditVars, downloadVars, archiveVars, haVars>>
     \/ /\ part = "ha" /\ HANext
        /\ UNCHANGED <<decoderVars, auditVars, downloadVars, archiveVars, catalogVars>>

\* FrameDecoder: a core frame is three bytes, an extended one four or five.
MCPayload == [b \in Bytes |-> IF b = "t" THEN 1 ELSE 0]
MCHeader == <<"h", "c">>
MCTrailer == <<"t">>

\* CommandAudit: two queries and a command; the sequence numbers wrap.
Both(command) == <<Unit(command, 1), Unit(command, 2)>>
MCStream == Both(System) \o Both(Channels) \o Both(Write)
MCIsns == <<30, 12>>

\* ArchiveRules: folders, aliases, files under files and the two files needed.
MCPackage == <<"cc", "dom">>
MCNames ==
  {<<"cc">>, MCPackage, <<"CC", "dom", "m">>, <<"..", "m">>}
  \cup {MCPackage \o path : path \in {<<"m">>, <<"i">>, <<"a">>, <<"A">>, <<"a", "b">>,
                                      <<"A", "b">>}}
MCFold ==
  [c \in {"cc", "CC", "dom", "other", "m", "i", "a", "A", "b", ".."} |->
     CASE c = "CC" -> "cc" [] c = "A" -> "a" [] c \notin {"CC", "A"} -> c]

\* CatalogRules: two versions of one module, wrong domains, circles of two and
\* three, a missing version, a module wanted twice, another source.
Needs(source, id, version) == [source |-> source, id |-> id, version |-> version]
MCEntries ==
  {[id |-> kind[1], version |-> kind[2], domain |-> kind[3], dependencies |-> needs] :
     kind \in {<<"m1", 1, "d1">>, <<"m1", 2, "d1">>, <<"m2", 1, "d2">>,
                <<"m3", 1, "d3">>, <<"m1", 1, "d2">>},
     needs \in {<<>>, <<Needs("s", "m1", 1)>>, <<Needs("s", "m2", 1)>>,
                <<Needs("s", "m3", 1)>>, <<Needs("s", "m1", 2), Needs("s", "m2", 1)>>,
                <<Needs("t", "m1", 1), Needs("t", "m1", 2)>>}}

\* HAValidation: two lit actions, and one that switches the lamp off.
MCPlans == {<<"first", "second">>, <<"first", "zero">>}
================================================================================
