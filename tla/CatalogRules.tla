------------------------------- MODULE CatalogRules -------------------------------
(***************************************************************************)
(* validate_catalog of manager/hahapent/catalog.py: entries are taken one  *)
(* by one, then their dependencies, then Kahn's algorithm takes away, in   *)
(* whatever order, what nothing left depends on.  The engine relies on an  *)
(* accepted catalog: it installs dependencies without looking for cycles   *)
(* in them and finds modules by their domain.                              *)
(***************************************************************************)
EXTENDS Naturals, Sequences, FiniteSets, SequencesExt

CONSTANTS
  Source,           \* source["id"] of the catalog
  Entries,          \* modules: [id, version, domain, dependencies], and each of
                    \* their dependencies: [source, id, version]
  MaxEntries        \* bound: entries of a catalog

ASSUME CatalogAssumption ==
  /\ MaxEntries \in Nat
  /\ \A entry \in Entries : entry.dependencies \in Seq(ToSet(entry.dependencies))

VARIABLES
  entries,          \* catalog["modules"], as far as read
  byIdentity,       \* identity -> entry
  ids, domains,     \* id -> domain and domain -> id
  errors,
  graph, incoming,  \* identity -> its targets, and how many point to it
  ready, visited,   \* Kahn's algorithm
  catalog          \* "reading", "sorting", "valid" or "invalid"
catalogVars == <<entries, byIdentity, ids, domains, errors, graph, incoming, ready,
                 visited, catalog>>

None == [x \in {} |-> x]
CatalogInit ==
  /\ entries = <<>> /\ byIdentity = None /\ ids = None /\ domains = None /\ errors = {}
  /\ graph = None /\ incoming = None /\ ready = <<>> /\ visited = 0 /\ catalog = "reading"

Identity(entry) == <<entry.id, entry.version>>
With(function, key, value) ==
  [k \in DOMAIN function \cup {key} |-> IF k = key THEN value ELSE function[k]]

\* The first loop, for one module.
TakeEntry ==
  \E entry \in Entries :
    LET clash == \/ Identity(entry) \in DOMAIN byIdentity
                 \/ entry.id \in DOMAIN ids /\ ids[entry.id] # entry.domain
        taken == entry.domain \in DOMAIN domains /\ domains[entry.domain] # entry.id
    IN  /\ catalog = "reading" /\ Len(entries) < MaxEntries
        /\ entries' = Append(entries, entry)
        /\ errors' = errors \cup {e \in {"duplicate module identity"} : clash}
                            \cup {e \in {"duplicate integration domain"} : taken}
        /\ ids' = With(ids, entry.id, entry.domain)
        /\ domains' = With(domains, entry.domain, entry.id)
        /\ byIdentity' = With(byIdentity, Identity(entry), entry)
        /\ UNCHANGED <<graph, incoming, ready, visited, catalog>>

\* The dependencies of an entry on entries of the same catalog.
Local(entry) == {d \in ToSet(entry.dependencies) : d.source = Source}
Targets(entry) == {<<d.id, d.version>> : d \in Local(entry)}
DependencyErrors(entry) ==
  {e \in {"duplicate dependency identity", "module cannot depend on itself",
          "local dependency is absent or of another version"} :
     \/ /\ e = "duplicate dependency identity"
        /\ \E i, j \in DOMAIN entry.dependencies :
             /\ i < j
             /\ entry.dependencies[i].source = entry.dependencies[j].source
             /\ entry.dependencies[i].id = entry.dependencies[j].id
     \/ /\ e = "module cannot depend on itself"
        /\ \E d \in Local(entry) : d.id = entry.id
     \/ /\ e = "local dependency is absent or of another version"
        /\ ~(Targets(entry) \subseteq DOMAIN byIdentity)}

\* The second loop, and the count of what points to an entry.
Link ==
  LET targets == [i \in DOMAIN byIdentity |-> Targets(byIdentity[i]) \cap DOMAIN byIdentity]
      counts == [i \in DOMAIN byIdentity |-> Cardinality({k \in DOMAIN targets : i \in targets[k]})]
  IN  /\ catalog = "reading" /\ catalog' = "sorting"
      /\ errors' = errors \cup UNION {DependencyErrors(byIdentity[i]) : i \in DOMAIN byIdentity}
      /\ graph' = targets /\ incoming' = counts
      /\ ready' = SetToSeq({i \in DOMAIN counts : counts[i] = 0})
      /\ UNCHANGED <<entries, byIdentity, ids, domains, visited>>

\* Faulty Less: an entry is free with one that points to it left.
LessTooSoon(counts, targets) == [i \in DOMAIN counts |-> IF i \in targets THEN 0 ELSE counts[i]]

Less(counts, targets) ==
  [i \in DOMAIN counts |-> IF i \in targets THEN counts[i] - 1 ELSE counts[i]]

\* ready.pop()
Visit ==
  /\ catalog = "sorting" /\ ready # <<>>
  /\ LET targets == graph[Last(ready)]
     IN  /\ incoming' = Less(incoming, targets)
         /\ ready' = Front(ready) \o SetToSeq({t \in targets : incoming'[t] = 0})
  /\ visited' = visited + 1
  /\ UNCHANGED <<entries, byIdentity, ids, domains, errors, graph, catalog>>

Conclude ==
  /\ catalog = "sorting" /\ ready = <<>>
  /\ errors' = errors \cup {e \in {"local dependency cycle"} : visited # Cardinality(DOMAIN graph)}
  /\ catalog' = IF errors' = {} THEN "valid" ELSE "invalid"
  /\ UNCHANGED <<entries, byIdentity, ids, domains, graph, incoming, ready, visited>>

CatalogNext == TakeEntry \/ Link \/ Visit \/ Conclude

CatalogSpec == CatalogInit /\ [][CatalogNext]_catalogVars

-----------------------------------------------------------------------------
(* What a good catalog is, without reading it in an order. *)

Listed == {Identity(entries[i]) : i \in DOMAIN entries}
\* No set of entries each of which needs another of the set.
Acyclic ==
  \A circle \in (SUBSET (1..Len(entries))) \ {{}} :
    \E i \in circle : \A k \in circle : Identity(entries[k]) \notin Targets(entries[i])

GoodCatalog ==
  /\ \A i, k \in DOMAIN entries :
       /\ Identity(entries[i]) = Identity(entries[k]) => i = k
       /\ entries[i].id = entries[k].id <=> entries[i].domain = entries[k].domain
  /\ \A i \in DOMAIN entries :
       LET needs == entries[i].dependencies
       IN  /\ Targets(entries[i]) \subseteq Listed
           /\ \A d \in Local(entries[i]) : d.id # entries[i].id
           /\ \A j, k \in DOMAIN needs :
                <<needs[j].source, needs[j].id>> = <<needs[k].source, needs[k].id>> => j = k
  /\ Acyclic

\* A catalog is accepted exactly when, as a whole, its modules and domains
\* correspond, every dependency on itself names one of its entries, each module
\* once, and the entries can be installed in some order (catalog.py:173-245);
\* the sort never counts below zero or visits an entry twice.
CatalogIsOrdered ==
  /\ catalog = "valid" => GoodCatalog
  /\ catalog = "invalid" => ~GoodCatalog
  /\ visited <= Cardinality(DOMAIN graph) /\ Cardinality(ToSet(ready)) = Len(ready)
=============================================================================
