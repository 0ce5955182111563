------------------------------ MODULE ModuleLifecycle ------------------------------
(***************************************************************************)
(* What the Manager promises about installed integrations, without files,  *)
(* journals or crashes: every domain has at most one installed release and *)
(* at most one retained one; a change is atomic, concerns one domain, puts *)
(* the replaced release aside, and leaves every installed release with its *)
(* dependencies.  ManagerEngine implements it, with the write of           *)
(* registry.json as the moment of the change.                              *)
(***************************************************************************)
CONSTANTS Domains, Releases, DomainOf, OriginOf, VersionOf, Needs, None

VARIABLES installed, retained

IdentityOf(release) == <<OriginOf[release], VersionOf[release]>>

\* Every installed release finds each of its dependencies installed.
Closed(code) ==
  \A d \in Domains : code[d] # None =>
    \A need \in Needs[code[d]] :
      \E e \in Domains : code[e] # None /\ IdentityOf(code[e]) = need

Init == installed = [d \in Domains |-> None] /\ retained = [d \in Domains |-> None]

Replace(d, release) ==
  /\ installed' = [installed EXCEPT ![d] = release]
  /\ retained' = [retained EXCEPT ![d] = installed[d]]
  /\ Closed(installed')

\* Install or update: an update keeps the origin and changes the version.
Install(release) ==
  LET d == DomainOf[release]
  IN /\ installed[d] # None =>
          /\ OriginOf[installed[d]] = OriginOf[release]
          /\ VersionOf[installed[d]] # VersionOf[release]
     /\ Replace(d, release)

\* Roll back, or restore removed code: the two releases change places.
Rollback(d) == retained[d] # None /\ Replace(d, retained[d])

Remove(d) == installed[d] # None /\ Replace(d, None)

Next ==
  \/ \E release \in Releases : Install(release)
  \/ \E d \in Domains : Rollback(d) \/ Remove(d)

Spec == Init /\ [][Next]_<<installed, retained>>
=============================================================================
