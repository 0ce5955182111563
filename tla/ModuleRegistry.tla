------------------------------ MODULE ModuleRegistry ------------------------------
(***************************************************************************)
(* What the HAHAPent Manager keeps in registry.json: for every Home        *)
(* Assistant domain the release that is installed, the release that can be *)
(* rolled back to, and the release kept after an uninstall.  This module   *)
(* is the pure part: which releases exist, how they depend on each other,  *)
(* and what a change of one domain does to the registry.                   *)
(*                                                                         *)
(* A release stands for one artifact of a catalog: a domain, an origin     *)
(* (source id and repository together with the module id), a version, and  *)
(* the exact origin/version pairs it depends on.                           *)
(***************************************************************************)
EXTENDS Naturals

CONSTANTS
  Domains,    \* integration domains: directories of custom_components
  Releases,   \* every release any catalog ever offers
  DomainOf,   \* release -> module["integration_domain"]
  OriginOf,   \* release -> source id, repository and module id
  VersionOf,  \* release -> module["version"]
  Needs,      \* release -> set of <<origin, version>>: module["dependencies"]
  None        \* the missing value

\* A retained copy of prior code: the backup directory and the release in it.
Saved == [backup : Nat, release : Releases]

\* An installed record; files, installed_at and extensions follow the release.
Entry == [release : Releases, previous : Saved \union {None}]

Registry == [installed : [Domains -> Entry \union {None}],
             removed   : [Domains -> Saved \union {None}]]

ASSUME ReleasesAssumption ==
  /\ DomainOf \in [Releases -> Domains]
  /\ DOMAIN OriginOf = Releases
  /\ DOMAIN VersionOf = Releases
  /\ DOMAIN Needs = Releases

ASSUME NoneAssumption == None \notin Releases /\ None \notin Saved /\ None \notin Entry

EmptyRegistry == [installed |-> [d \in Domains |-> None],
                  removed   |-> [d \in Domains |-> None]]

IsInstalled(reg, d) == reg.installed[d] # None

\* What the registry says rollback(domain) restores.
SavedFor(reg, d) ==
  IF IsInstalled(reg, d) THEN reg.installed[d].previous ELSE reg.removed[d]

\* Every record of retained code of a registry.
SavedRecords(reg) ==
  {reg.removed[d] : d \in Domains} \union
  {reg.installed[d].previous : d \in {e \in Domains : IsInstalled(reg, e)}}

Provides(reg, d, need) ==
  /\ IsInstalled(reg, d)
  /\ <<OriginOf[reg.installed[d].release], VersionOf[reg.installed[d].release]>> = need

\* The one domain that may satisfy a dependency: two providers are as bad as none.
UniqueProvider(reg, d, need) ==
  /\ Provides(reg, d, need)
  /\ \A e \in Domains : Provides(reg, e, need) => e = d

\* _check_dependencies, first loop: each exact dependency installed, not in the
\* domain being replaced.
DependenciesInstalled(reg, release, replacing) ==
  \A need \in Needs[release] :
    \E d \in Domains \ {replacing} : UniqueProvider(reg, d, need)

\* Faulty NoPinnedDependent: the second loop of _check_dependencies is missing.
AnyDependent(reg, release, replacing) == TRUE

\* _check_dependencies, second loop: nobody else pins the version being replaced.
NoPinnedDependent(reg, release, replacing) ==
  IsInstalled(reg, replacing) =>
    \A d \in Domains \ {replacing} :
      IsInstalled(reg, d) =>
        \A need \in Needs[reg.installed[d].release] :
          need[1] = OriginOf[reg.installed[replacing].release]
            => need[2] = VersionOf[release]

\* remove(): any dependent of the module, whatever version it needs, blocks it.
NoDependent(reg, domain) ==
  \A d \in Domains :
    IsInstalled(reg, d) =>
      \A need \in Needs[reg.installed[d].release] :
        need[1] # OriginOf[reg.installed[domain].release]

CanInstall(reg, release) ==
  LET d == DomainOf[release]
      current == reg.installed[d]
  IN /\ IsInstalled(reg, d) =>
          /\ OriginOf[current.release] = OriginOf[release]
          /\ VersionOf[current.release] # VersionOf[release]
     /\ DependenciesInstalled(reg, release, d)
     /\ NoPinnedDependent(reg, release, d)

CanRollback(reg, d) ==
  /\ SavedFor(reg, d) # None
  /\ DependenciesInstalled(reg, SavedFor(reg, d).release, d)
  /\ NoPinnedDependent(reg, SavedFor(reg, d).release, d)

CanRemove(reg, d) == IsInstalled(reg, d) /\ NoDependent(reg, d)

\* The record of the code a change puts aside, backed up under transaction id.
Retained(reg, d, id) ==
  IF IsInstalled(reg, d)
    THEN [backup |-> id, release |-> reg.installed[d].release]
    ELSE None

AfterInstall(reg, d, release, id) ==
  [installed |-> [reg.installed EXCEPT ![d] =
                    [release |-> release, previous |-> Retained(reg, d, id)]],
   removed   |-> [reg.removed EXCEPT ![d] = None]]

\* Faulty AfterRemove: the removed code is backed up but not recorded.
AfterRemoveForgotten(reg, d, id) ==
  [installed |-> [reg.installed EXCEPT ![d] = None],
   removed   |-> [reg.removed EXCEPT ![d] = None]]

AfterRemove(reg, d, id) ==
  [installed |-> [reg.installed EXCEPT ![d] = None],
   removed   |-> [reg.removed EXCEPT ![d] = Retained(reg, d, id)]]

-----------------------------------------------------------------------------
(* What makes a registry good, whatever happened to the files.              *)

\* Each record is about the domain it is filed under (_validate_registry).
WellFiled(reg) ==
  \A d \in Domains :
    /\ IsInstalled(reg, d) => DomainOf[reg.installed[d].release] = d
    /\ SavedFor(reg, d) # None => DomainOf[SavedFor(reg, d).release] = d

\* A rollback never brings in another origin than the one it replaces.
OneOrigin(reg) ==
  \A d \in Domains :
    IsInstalled(reg, d) /\ reg.installed[d].previous # None =>
      OriginOf[reg.installed[d].previous.release] = OriginOf[reg.installed[d].release]

\* Every exact dependency of every installed release is installed.
DependencyClosed(reg) ==
  \A d \in Domains :
    IsInstalled(reg, d) =>
      \A need \in Needs[reg.installed[d].release] :
        \E e \in Domains : Provides(reg, e, need)

GoodRegistry(reg) == WellFiled(reg) /\ OneOrigin(reg) /\ DependencyClosed(reg)
=============================================================================
