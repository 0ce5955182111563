------------------------------ MODULE MCManagerEngine ------------------------------
(* Instances of ManagerEngine: a library and an application that pins one of its    *)
(* versions, and a release of another origin that claims the domain of the library. *)
EXTENDS ManagerEngine

\* One domain, two releases of one origin.
SoloDomains == {"lamp"}
SoloReleases == {"lamp1", "lamp2"}
SoloDomainOf == [lamp1 |-> "lamp", lamp2 |-> "lamp"]
SoloOriginOf == [lamp1 |-> "own/lamp", lamp2 |-> "own/lamp"]
SoloVersionOf == [lamp1 |-> 1, lamp2 |-> 2]
SoloNeeds == [lamp1 |-> {}, lamp2 |-> {}]

\* A library, an application that needs version 1 of it, and a rival library.
PairDomains == {"lib", "app"}
PairReleases == {"lib1", "lib2", "app1", "rival"}
PairDomainOf == [lib1 |-> "lib", lib2 |-> "lib", rival |-> "lib", app1 |-> "app"]
PairOriginOf == [lib1 |-> "own/lib", lib2 |-> "own/lib", rival |-> "other/lib",
                 app1 |-> "own/app"]
PairVersionOf == [lib1 |-> 1, lib2 |-> 2, rival |-> 1, app1 |-> 1]
PairNeeds == [lib1 |-> {}, lib2 |-> {}, rival |-> {}, app1 |-> {<<"own/lib", 1>>}]
=============================================================================
