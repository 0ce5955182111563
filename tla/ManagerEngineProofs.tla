---------------------------- MODULE ManagerEngineProofs ----------------------------
(* Theorems about ManagerEngine, for any set of domains and releases and any number *)
(* of transactions, crashes and errors: the registry and the lifecycle it shows,    *)
(* then the directories it moves and deletes.                                       *)
EXTENDS ManagerEngine, TLAPS

-------------------------------------------------------------------------------------
(* What one change does to a registry: it stays well typed and good, for any set   *)
(* of domains, releases and dependencies.                                          *)

\* Retained code has the type of a saved record.
LEMMA RetainedType ==
  ASSUME NEW reg \in Registry, NEW d \in Domains, NEW id \in Nat
  PROVE  Retained(reg, d, id) \in Saved \union {None}
  BY DEF Retained, Saved, Registry, Entry, IsInstalled

\* There is retained code exactly where code was installed.
LEMMA RetainedNone ==
  ASSUME NEW reg \in Registry, NEW d \in Domains, NEW id \in Nat
  PROVE  Retained(reg, d, id) # None <=> IsInstalled(reg, d)
<1>1. CASE IsInstalled(reg, d)
  <2>1. [backup |-> id, release |-> reg.installed[d].release] \in Saved
    BY <1>1 DEF Saved, Registry, Entry, IsInstalled
  <2>2. QED
    BY <1>1, <2>1, NoneAssumption DEF Retained
<1>2. CASE ~IsInstalled(reg, d)
  BY <1>2 DEF Retained
<1>3. QED
  BY <1>1, <1>2

\* The two changes of a registry produce registries.
LEMMA InstallType ==
  ASSUME NEW reg \in Registry, NEW d \in Domains, NEW id \in Nat, NEW release \in Releases
  PROVE  AfterInstall(reg, d, release, id) \in Registry
<1>1. [release |-> release, previous |-> Retained(reg, d, id)] \in Entry
  BY RetainedType DEF Entry
<1>2. QED
  BY <1>1 DEF AfterInstall, Registry

LEMMA RemoveType ==
  ASSUME NEW reg \in Registry, NEW d \in Domains, NEW id \in Nat
  PROVE  AfterRemove(reg, d, id) \in Registry
  BY RetainedType DEF AfterRemove, Registry

\* What a registry offers to roll back to is a saved record.
LEMMA SavedForType ==
  ASSUME NEW reg \in Registry, NEW d \in Domains
  PROVE  /\ SavedFor(reg, d) \in Saved \union {None}
         /\ SavedFor(reg, d) # None => SavedFor(reg, d).release \in Releases
  BY DEF SavedFor, Saved, Registry, Entry, IsInstalled

\* A domain with a record is installed; every other domain keeps its record.
LEMMA InstallEffect ==
  ASSUME NEW reg \in Registry, NEW d \in Domains, NEW id \in Nat, NEW release \in Releases
  PROVE  LET new == AfterInstall(reg, d, release, id)
         IN /\ IsInstalled(new, d) /\ new.installed[d].release = release
            /\ new.installed[d].previous = Retained(reg, d, id)
            /\ new.removed[d] = None
            /\ \A e \in Domains \ {d} :
                 new.installed[e] = reg.installed[e] /\ new.removed[e] = reg.removed[e]
<1>1. [release |-> release, previous |-> Retained(reg, d, id)] \in Entry
  BY RetainedType DEF Entry
<1>2. [release |-> release, previous |-> Retained(reg, d, id)] # None
  BY <1>1, NoneAssumption
<1>3. QED
  BY <1>2 DEF AfterInstall, IsInstalled, Registry

LEMMA RemoveEffect ==
  ASSUME NEW reg \in Registry, NEW d \in Domains, NEW id \in Nat
  PROVE  LET new == AfterRemove(reg, d, id)
         IN /\ ~IsInstalled(new, d)
            /\ new.removed[d] = Retained(reg, d, id)
            /\ \A e \in Domains \ {d} :
                 new.installed[e] = reg.installed[e] /\ new.removed[e] = reg.removed[e]
  BY DEF AfterRemove, IsInstalled, Registry

\* Replacing the code of a domain by a release of the same origin keeps every
\* dependency satisfied, when the release finds its own dependencies elsewhere and
\* nobody pins the version that goes.
LEMMA ReplaceClosed ==
  ASSUME NEW reg \in Registry, NEW d \in Domains, NEW id \in Nat, NEW release \in Releases,
         DependencyClosed(reg),
         DependenciesInstalled(reg, release, d),
         NoPinnedDependent(reg, release, d),
         IsInstalled(reg, d) => OriginOf[reg.installed[d].release] = OriginOf[release]
  PROVE  DependencyClosed(AfterInstall(reg, d, release, id))
<1> DEFINE new == AfterInstall(reg, d, release, id)
<1>1. IsInstalled(new, d) /\ new.installed[d].release = release
  BY InstallEffect
<1>2. \A e \in Domains \ {d} : new.installed[e] = reg.installed[e]
  BY InstallEffect
<1> SUFFICES ASSUME NEW x \in Domains, IsInstalled(new, x),
                    NEW need \in Needs[new.installed[x].release]
             PROVE  \E e \in Domains : Provides(new, e, need)
  BY DEF DependencyClosed
<1> HIDE DEF new
<1>3. CASE x = d
  <2>1. PICK e \in Domains \ {d} : Provides(reg, e, need)
    BY <1>1, <1>3 DEF DependenciesInstalled, UniqueProvider
  <2>2. Provides(new, e, need)
    BY <1>2, <2>1 DEF Provides, IsInstalled
  <2>3. QED
    BY <2>2
<1>4. CASE x # d
  <2>1. IsInstalled(reg, x) /\ need \in Needs[reg.installed[x].release]
    BY <1>2, <1>4 DEF IsInstalled
  <2>2. PICK e \in Domains : Provides(reg, e, need)
    BY <2>1 DEF DependencyClosed
  <2>3. CASE e # d
    <3>1. Provides(new, e, need)
      BY <1>2, <2>2, <2>3 DEF Provides, IsInstalled
    <3>2. QED
      BY <3>1
  <2>4. CASE e = d
    <3>1. /\ IsInstalled(reg, d)
          /\ need = <<OriginOf[reg.installed[d].release], VersionOf[reg.installed[d].release]>>
      BY <2>2, <2>4 DEF Provides
    <3>2. need[2] = VersionOf[release]
      BY <1>4, <2>1, <3>1 DEF NoPinnedDependent
    <3>3. need = <<OriginOf[release], VersionOf[release]>>
      BY <3>1, <3>2
    <3>4. Provides(new, d, need)
      BY <1>1, <3>3 DEF Provides
    <3>5. QED
      BY <3>4
  <2>5. QED
    BY <2>3, <2>4
<1>5. QED
  BY <1>3, <1>4

\* A registry that differs from a well-filed one in one domain, where it holds a
\* release of that domain and retains the code it replaces, is well filed.
LEMMA WellFiledChange ==
  ASSUME NEW reg, NEW new, NEW d \in Domains, NEW id, WellFiled(reg),
         IsInstalled(new, d) => DomainOf[new.installed[d].release] = d,
         SavedFor(new, d) = Retained(reg, d, id),
         \A e \in Domains \ {d} :
           new.installed[e] = reg.installed[e] /\ new.removed[e] = reg.removed[e]
  PROVE  WellFiled(new)
<1> SUFFICES ASSUME NEW x \in Domains
             PROVE  /\ IsInstalled(new, x) => DomainOf[new.installed[x].release] = x
                    /\ SavedFor(new, x) # None => DomainOf[SavedFor(new, x).release] = x
  BY DEF WellFiled
<1>1. CASE x = d
  BY <1>1 DEF WellFiled, Retained
<1>2. CASE x # d
  <2>1. (IsInstalled(new, x) <=> IsInstalled(reg, x)) /\ SavedFor(new, x) = SavedFor(reg, x)
    BY <1>2 DEF IsInstalled, SavedFor
  <2>2. new.installed[x] = reg.installed[x]
    BY <1>2
  <2>3. QED
    BY <2>1, <2>2 DEF WellFiled
<1>3. QED
  BY <1>1, <1>2

\* An admitted install keeps the registry good.
LEMMA InstallKeepsGood ==
  ASSUME NEW reg \in Registry, NEW id \in Nat, NEW release \in Releases,
         GoodRegistry(reg), CanInstall(reg, release)
  PROVE  GoodRegistry(AfterInstall(reg, DomainOf[release], release, id))
<1> DEFINE d == DomainOf[release]
           new == AfterInstall(reg, d, release, id)
<1>1. d \in Domains
  BY ReleasesAssumption
<1>2. /\ IsInstalled(new, d) /\ new.installed[d].release = release
      /\ new.installed[d].previous = Retained(reg, d, id)
      /\ \A e \in Domains \ {d} :
           new.installed[e] = reg.installed[e] /\ new.removed[e] = reg.removed[e]
  BY <1>1, InstallEffect
<1>3. DependencyClosed(new)
  BY <1>1, ReplaceClosed DEF GoodRegistry, CanInstall
<1>4. OneOrigin(new)
  BY <1>1, <1>2 DEF GoodRegistry, OneOrigin, CanInstall, Retained, IsInstalled
<1>5. WellFiled(new)
  <2>1. SavedFor(new, d) = Retained(reg, d, id)
    BY <1>2 DEF SavedFor
  <2>2. QED
    BY <1>1, <1>2, <2>1, WellFiledChange DEF GoodRegistry
<1>6. QED
  BY <1>3, <1>4, <1>5 DEF GoodRegistry

\* An admitted rollback keeps the registry good.
LEMMA RollbackKeepsGood ==
  ASSUME NEW reg \in Registry, NEW id \in Nat, NEW d \in Domains,
         GoodRegistry(reg), CanRollback(reg, d)
  PROVE  GoodRegistry(AfterInstall(reg, d, SavedFor(reg, d).release, id))
<1> DEFINE release == SavedFor(reg, d).release
           new == AfterInstall(reg, d, release, id)
<1>1. release \in Releases /\ SavedFor(reg, d) # None
  BY SavedForType DEF CanRollback
<1>2. DomainOf[release] = d
  BY <1>1 DEF GoodRegistry, WellFiled
<1>3. IsInstalled(reg, d) => OriginOf[reg.installed[d].release] = OriginOf[release]
  BY <1>1 DEF GoodRegistry, OneOrigin, SavedFor
<1>4. /\ IsInstalled(new, d) /\ new.installed[d].release = release
      /\ new.installed[d].previous = Retained(reg, d, id)
      /\ \A e \in Domains \ {d} :
           new.installed[e] = reg.installed[e] /\ new.removed[e] = reg.removed[e]
  BY <1>1, InstallEffect
<1> HIDE DEF release
<1>5. DependencyClosed(new)
  <2>1. DependenciesInstalled(reg, release, d) /\ NoPinnedDependent(reg, release, d)
    BY DEF CanRollback, release
  <2>2. QED
    BY <1>1, <1>3, <2>1, ReplaceClosed DEF GoodRegistry
<1>6. OneOrigin(new)
  BY <1>3, <1>4 DEF GoodRegistry, OneOrigin, Retained, IsInstalled
<1>7. WellFiled(new)
  <2>1. SavedFor(new, d) = Retained(reg, d, id)
    BY <1>4 DEF SavedFor
  <2>2. QED
    BY <1>2, <1>4, <2>1, WellFiledChange DEF GoodRegistry
<1>8. QED
  BY <1>5, <1>6, <1>7 DEF GoodRegistry, release

\* An admitted removal keeps the registry good.
LEMMA RemoveKeepsGood ==
  ASSUME NEW reg \in Registry, NEW id \in Nat, NEW d \in Domains,
         GoodRegistry(reg), CanRemove(reg, d)
  PROVE  GoodRegistry(AfterRemove(reg, d, id))
<1> DEFINE new == AfterRemove(reg, d, id)
<1>1. /\ ~IsInstalled(new, d)
      /\ new.removed[d] = Retained(reg, d, id)
      /\ \A e \in Domains \ {d} :
           new.installed[e] = reg.installed[e] /\ new.removed[e] = reg.removed[e]
  BY RemoveEffect
<1> HIDE DEF new
<1>2. DependencyClosed(new)
  <2> SUFFICES ASSUME NEW x \in Domains, IsInstalled(new, x),
                      NEW need \in Needs[new.installed[x].release]
               PROVE  \E e \in Domains : Provides(new, e, need)
    BY DEF DependencyClosed
  <2>1. x # d /\ IsInstalled(reg, x) /\ need \in Needs[reg.installed[x].release]
    BY <1>1 DEF IsInstalled
  <2>2. PICK e \in Domains : Provides(reg, e, need)
    BY <2>1 DEF GoodRegistry, DependencyClosed
  <2>3. need[1] # OriginOf[reg.installed[d].release]
    BY <2>1 DEF CanRemove, NoDependent
  <2>4. e # d
    BY <2>2, <2>3 DEF Provides
  <2>5. Provides(new, e, need)
    BY <1>1, <2>2, <2>4 DEF Provides, IsInstalled
  <2>6. QED
    BY <2>5
<1>3. OneOrigin(new)
  BY <1>1 DEF GoodRegistry, OneOrigin, IsInstalled
<1>4. WellFiled(new)
  <2>1. SavedFor(new, d) = Retained(reg, d, id)
    BY <1>1 DEF SavedFor
  <2>2. QED
    BY <1>1, <2>1, WellFiledChange DEF GoodRegistry
<1>5. QED
  BY <1>2, <1>3, <1>4 DEF GoodRegistry, new

\* A change adds one retained record, that of the code it replaces.
LEMMA InstallRecords ==
  ASSUME NEW reg \in Registry, NEW d \in Domains, NEW id \in Nat, NEW release \in Releases
  PROVE  SavedRecords(AfterInstall(reg, d, release, id))
           \subseteq SavedRecords(reg) \union {Retained(reg, d, id), None}
<1> DEFINE new == AfterInstall(reg, d, release, id)
<1>1. /\ new.installed[d].previous = Retained(reg, d, id)
      /\ new.removed[d] = None
      /\ \A e \in Domains \ {d} :
           new.installed[e] = reg.installed[e] /\ new.removed[e] = reg.removed[e]
  BY InstallEffect
<1> HIDE DEF new
<1>2. SavedRecords(new) \subseteq SavedRecords(reg) \union {Retained(reg, d, id), None}
  BY <1>1 DEF SavedRecords, IsInstalled
<1>3. QED
  BY <1>2 DEF new

LEMMA RemoveRecords ==
  ASSUME NEW reg \in Registry, NEW d \in Domains, NEW id \in Nat
  PROVE  SavedRecords(AfterRemove(reg, d, id))
           \subseteq SavedRecords(reg) \union {Retained(reg, d, id), None}
<1> DEFINE new == AfterRemove(reg, d, id)
<1>1. /\ ~IsInstalled(new, d)
      /\ new.removed[d] = Retained(reg, d, id)
      /\ \A e \in Domains \ {d} :
           new.installed[e] = reg.installed[e] /\ new.removed[e] = reg.removed[e]
  BY RemoveEffect
<1> HIDE DEF new
<1>2. SavedRecords(new) \subseteq SavedRecords(reg) \union {Retained(reg, d, id), None}
  BY <1>1 DEF SavedRecords, IsInstalled
<1>3. QED
  BY <1>2 DEF new

-------------------------------------------------------------------------------------
(* The transactions. *)

AfterJournal == {"stage", "backup", "plan"} \union SwapSteps

\* Who called the code at pc, and with which arguments.
Control ==
  /\ pc \in {"off", "idle", "admit"} => ctx = "none"
  /\ pc \in StageSteps \union SwapSteps => ctx = "change"
  /\ pc \in RecoverSteps => ctx \in {"start", "op", "undo"}
  /\ pc \in FinishSteps => ctx \in {"start", "op", "undo", "change"}
  /\ pc = "admit" \/ ctx = "op" =>
       op \in Requests /\ (op.action = "install" => op.domain = DomainOf[op.release])
  /\ ctx = "change" => op \in Work
  /\ pc \in AfterJournal \union {"finish", "drop_hold", "drop_stage", "unlink",
                                 "drop_target", "move_back"} => journal # None
  /\ pc = "prepare" => nextId <= MaxTransactions
  /\ pc = "stage" => op.action # "remove"
  /\ journal # None => journal.id < nextId

TypeInv == TypeOK /\ Control

USE DEF StageSteps, SwapSteps, FinishSteps, RecoverSteps

LEMMA TypeInit == Init => TypeInv
<1>1. EmptyRegistry \in Registry
  BY DEF EmptyRegistry, Registry
<1>2. QED
  BY <1>1, BoundsAssumption
     DEF Init, TypeInv, TypeOK, Control, Tree, AfterJournal, Places

LEMMA UndoPlaces == UndoStep \in {"move_back", "drop_target", "drop_stage", "stuck"}
  BY DEF UndoStep

LEMMA TypeStep == TypeInv /\ [Next]_vars => TypeInv'
<1> SUFFICES ASSUME TypeInv, [Next]_vars PROVE TypeInv'
  OBVIOUS
<1> USE BoundsAssumption DEF TypeInv, TypeOK, Control, AfterJournal, Places, Tree,
        disk, process, world, Goto, Raise, Return, Delete
<1>1. CASE Start
  BY <1>1 DEF Start
<1>2. CASE Request
  BY <1>2 DEF Request
<1>3. CASE Admit
  <2>1. op \in Requests /\ (op.action = "install" => op.domain = DomainOf[op.release])
    BY <1>3 DEF Admit
  <2>2. op' \in Work
    <3>1. CASE op.action = "install"
      BY <1>3, <2>1, <3>1 DEF Admit, Requests, Work
    <3>2. CASE op.action = "rollback"
      <4>1. SavedFor(registry, op.domain).release \in Releases
        BY <1>3, <2>1, <3>2, SavedForType DEF Admit, Allowed, CanRollback, Requests
      <4>2. op' = [action |-> "rollback", domain |-> op.domain,
                   release |-> SavedFor(registry, op.domain).release]
        BY <1>3, <2>1, <3>2 DEF Admit, Requests
      <4>3. QED
        BY <2>1, <4>1, <4>2 DEF Requests, Work
    <3>3. CASE op.action = "remove"
      BY <1>3, <2>1, <3>3 DEF Admit, Requests, Work
    <3>4. QED
      BY <2>1, <3>1, <3>2, <3>3 DEF Requests
  <2>3. QED
    BY <1>3, <2>2 DEF Admit
<1>4. CASE Refuse
  BY <1>4 DEF Refuse
<1>5. CASE Prepare
  <2>1. op \in Work /\ op.domain \in Domains /\ nextId \in Nat /\ nextId <= MaxTransactions
    BY <1>5 DEF Prepare, Work
  <2>2. journal' \in Transaction /\ journal' # None /\ journal'.id = nextId
    BY <1>5, <2>1, NoTransactionAssumption DEF Prepare, Transaction
  <2>3. /\ nextId' \in 1..(MaxTransactions + 1)
        /\ journal'.id < nextId'
    BY <1>5, <2>1, <2>2 DEF Prepare
  <2>4. pc' \in {"backup", "stage"} /\ (pc' = "stage" => op'.action # "remove")
    BY <1>5 DEF Prepare
  <2>5. QED
    BY <1>5, <2>1, <2>2, <2>3, <2>4 DEF Prepare
<1>6. CASE OpenStage
  BY <1>6 DEF OpenStage
<1>7. CASE FillStage
  <2>1. op.release \in Releases
    BY <1>7 DEF FillStage, Work
  <2>2. QED
    BY <1>7, <2>1 DEF FillStage
<1>8. CASE RejectArtifact
  BY <1>8 DEF RejectArtifact
<1>9. CASE Backup
  <2>1. op.domain \in Domains
    BY <1>9 DEF Backup, Work
  <2>2. Current # None => Current.release \in Releases
    BY <2>1 DEF Current, Registry, Entry
  <2>3. backups' \in [1..MaxTransactions -> Tree]
    BY <1>9, <2>2 DEF Backup
  <2>4. QED
    BY <1>9, <2>3 DEF Backup
<1>10. CASE Plan
  <2>1. op \in Work /\ journal \in Transaction
    BY <1>10 DEF Plan
  <2>2. Planned(journal.id) \in Registry
    <3>1. journal.id \in Nat /\ op.domain \in Domains
      BY <2>1 DEF Work, Transaction
    <3>2. op.action # "remove" => op.release \in Releases
      BY <2>1 DEF Work
    <3>3. CASE op.action = "remove"
      <4>1. AfterRemove(registry, op.domain, journal.id) \in Registry
        BY <3>1, RemoveType
      <4>2. QED
        BY <3>3, <4>1 DEF Planned
    <3>4. CASE op.action # "remove"
      BY <3>1, <3>2, <3>4, InstallType DEF Planned
    <3>5. QED
      BY <3>3, <3>4
  <2>3. journal' \in Transaction /\ journal'.id = journal.id
    BY <1>10, <2>1, <2>2 DEF Plan, Transaction
  <2>4. journal' # None
    BY <2>3, NoTransactionAssumption
  <2>5. QED
    BY <1>10, <2>3, <2>4 DEF Plan
<1>11. CASE Recheck
  BY <1>11 DEF Recheck
<1>12. CASE MoveOld
  <2>1. op \in Work /\ op.domain \in Domains
    BY <1>12 DEF MoveOld, Work
  <2>2. target' \in [Domains -> Tree] /\ hold' \in Tree
    BY <1>12, <2>1 DEF MoveOld
  <2>3. QED
    BY <1>12, <2>2 DEF MoveOld
<1>13. CASE MoveNew
  BY <1>13 DEF MoveNew
<1>14. CASE Commit
  <2>1. journal.after \in Registry
    BY <1>14 DEF Commit, Transaction
  <2>2. QED
    BY <1>14, <2>1 DEF Commit
<1>15. CASE Finish
  BY <1>15 DEF Finish
<1>16. CASE DropHold
  BY <1>16 DEF DropHold
<1>17. CASE DropStage
  BY <1>17 DEF DropStage
<1>18. CASE Unlink
  BY <1>18 DEF Unlink
<1>19. CASE Synced
  BY <1>19 DEF Synced
<1>20. CASE Recover
  <2>1. CASE journal = None
    BY <1>20, <2>1 DEF Recover
  <2>2. CASE journal # None
    BY <1>20, <2>2, UndoPlaces DEF Recover
  <2>3. QED
    BY <2>1, <2>2
<1>21. CASE DropTarget
  <2>1. PICK tree \in {Partial, Absent} :
          /\ Delete(target[journal.domain], tree,
                    IF hold = Absent THEN "drop_stage" ELSE "move_back")
          /\ target' = [target EXCEPT ![journal.domain] = tree]
    BY <1>21 DEF DropTarget
  <2>2. target' \in [Domains -> Tree]
    BY <2>1
  <2>3. QED
    BY <1>21, <2>1, <2>2 DEF DropTarget
<1>22. CASE MoveBack
  BY <1>22 DEF MoveBack
<1>23. CASE Crash
  BY <1>23 DEF Crash
<1>24. CASE Fault
  BY <1>24 DEF Fault
<1>25. CASE EarlyFault
  BY <1>25 DEF EarlyFault
<1>26. CASE UserWrites
  BY <1>26 DEF UserWrites
<1>27. CASE ConfigEntryChanges
  BY <1>27 DEF ConfigEntryChanges
<1>28. CASE UNCHANGED vars
  BY <1>28 DEF vars
<1>29. QED
  BY <1>1, <1>2, <1>3, <1>4, <1>5, <1>6, <1>7, <1>8, <1>9, <1>10, <1>11, <1>12, <1>13, <1>14, <1>15, <1>16, <1>17, <1>18, <1>19, <1>20, <1>21, <1>22, <1>23, <1>24, <1>25, <1>26, <1>27, <1>28 DEF Next, Change, Recovery, World

-----------------------------------------------------------------------------
(* The registry, and the registry a recovery may finish, stay good.           *)

\* What Admit checked still holds of the registry at every later step.
AllowedWork ==
  /\ Allowed
  /\ op.action = "install" => op.domain = DomainOf[op.release]
  /\ op.action = "rollback" => op.release = SavedFor(registry, op.domain).release

GoodInv ==
  /\ RegistryStaysGood
  /\ pc \in StageSteps \union SwapSteps => AllowedWork
  /\ pc \in SwapSteps => journal.after = Planned(journal.id)

LEMMA GoodInit == Init => GoodInv
  BY DEF Init, GoodInv, RegistryStaysGood, GoodRegistry, WellFiled, OneOrigin,
         DependencyClosed, EmptyRegistry, IsInstalled, SavedFor

\* The registry an admitted operation plans is good.
LEMMA PlannedGood ==
  ASSUME TypeOK, op \in Work, AllowedWork, GoodRegistry(registry), NEW id \in Nat
  PROVE  GoodRegistry(Planned(id))
<1>1. registry \in Registry /\ op.domain \in Domains
  BY DEF TypeOK, Work
<1>2. CASE op.action = "install"
  <2>1. op.release \in Releases
    BY <1>2 DEF Work
  <2>2. GoodRegistry(AfterInstall(registry, op.domain, op.release, id))
    BY <1>1, <1>2, <2>1, InstallKeepsGood DEF AllowedWork, Allowed
  <2>3. QED
    BY <1>2, <2>2 DEF Planned
<1>3. CASE op.action = "rollback"
  <2>1. GoodRegistry(AfterInstall(registry, op.domain, op.release, id))
    BY <1>1, <1>3, RollbackKeepsGood DEF AllowedWork, Allowed
  <2>2. QED
    BY <1>3, <2>1 DEF Planned
<1>4. CASE op.action = "remove"
  <2>1. GoodRegistry(AfterRemove(registry, op.domain, id))
    BY <1>1, <1>4, RemoveKeepsGood DEF AllowedWork, Allowed
  <2>2. QED
    BY <1>4, <2>1 DEF Planned
<1>5. QED
  BY <1>2, <1>3, <1>4 DEF Work

LEMMA GoodStep == TypeInv /\ GoodInv /\ [Next]_vars => GoodInv'
<1> SUFFICES ASSUME TypeInv, GoodInv, [Next]_vars PROVE GoodInv'
  OBVIOUS
<1> USE DEF TypeInv, Control, AfterJournal, GoodInv, RegistryStaysGood,
            AllowedWork, Allowed, Planned,
            disk, process, world, Goto, Raise, Return, Delete
<1>1. CASE Start
  BY <1>1 DEF Start
<1>2. CASE Request
  BY <1>2 DEF Request
<1>3. CASE Admit
  BY <1>3 DEF Admit
<1>4. CASE Refuse
  BY <1>4 DEF Refuse
<1>5. CASE Prepare
  BY <1>5 DEF Prepare
<1>6. CASE OpenStage
  BY <1>6 DEF OpenStage
<1>7. CASE FillStage
  BY <1>7 DEF FillStage
<1>8. CASE RejectArtifact
  BY <1>8 DEF RejectArtifact
<1>9. CASE Backup
  BY <1>9 DEF Backup
<1>10. CASE Plan
  <2>1. op \in Work /\ journal \in Transaction /\ journal.id \in Nat
    BY <1>10 DEF Plan, TypeOK, Transaction
  <2>2. journal' = [journal EXCEPT !.after = Planned(journal.id)]
    BY <1>10 DEF Plan
  <2>3. AllowedWork
    BY <1>10 DEF Plan
  <2>4. GoodRegistry(Planned(journal.id))
    BY <2>1, <2>3, PlannedGood
  <2>5. journal'.after = Planned(journal.id) /\ journal'.id = journal.id
    BY <2>1, <2>2 DEF Transaction
  <2>6. GoodRegistry(journal'.after)
    BY <2>4, <2>5
  <2>7. QED
    BY <1>10, <2>5, <2>6 DEF Plan
<1>11. CASE Recheck
  BY <1>11 DEF Recheck
<1>12. CASE MoveOld
  BY <1>12 DEF MoveOld
<1>13. CASE MoveNew
  BY <1>13 DEF MoveNew
<1>14. CASE Commit
  BY <1>14 DEF Commit
<1>15. CASE Finish
  BY <1>15 DEF Finish
<1>16. CASE DropHold
  BY <1>16 DEF DropHold
<1>17. CASE DropStage
  BY <1>17 DEF DropStage
<1>18. CASE Unlink
  BY <1>18 DEF Unlink
<1>19. CASE Synced
  BY <1>19 DEF Synced
<1>20. CASE Recover
  BY <1>20, UndoPlaces DEF Recover
<1>21. CASE DropTarget
  BY <1>21 DEF DropTarget
<1>22. CASE MoveBack
  BY <1>22 DEF MoveBack
<1>23. CASE Crash
  BY <1>23 DEF Crash
<1>24. CASE Fault
  BY <1>24 DEF Fault
<1>25. CASE EarlyFault
  BY <1>25 DEF EarlyFault
<1>26. CASE UserWrites
  BY <1>26 DEF UserWrites
<1>27. CASE ConfigEntryChanges
  BY <1>27 DEF ConfigEntryChanges
<1>28. CASE UNCHANGED vars
  BY <1>28 DEF vars
<1>29. QED
  BY <1>1, <1>2, <1>3, <1>4, <1>5, <1>6, <1>7, <1>8, <1>9, <1>10, <1>11, <1>12, <1>13, <1>14, <1>15, <1>16, <1>17, <1>18, <1>19, <1>20, <1>21, <1>22, <1>23, <1>24, <1>25, <1>26, <1>27, <1>28 DEF Next, Change, Recovery, World

-----------------------------------------------------------------------------
(* Every rollback the registry offers has its complete backup.                *)

\* While code is being copied the new backup is one no record names yet; once it is
\* copied it holds the code about to be replaced.
BackupInv ==
  /\ BackupsIntact
  /\ journal # None => journal.id \in 1..(nextId - 1)
  /\ pc \in {"stage", "backup", "plan"} =>
       /\ journal.after = registry
       /\ \A saved \in SavedRecords(registry) \ {None} : saved.backup < journal.id
  /\ pc = "plan" /\ Current # None => backups[journal.id] = Current.release

LEMMA BackupInit == Init => BackupInv
<1> SUFFICES ASSUME Init PROVE BackupInv
  OBVIOUS
<1>1. SavedRecords(registry) \subseteq {None}
  BY DEF Init, EmptyRegistry, SavedRecords, IsInstalled
<1>2. QED
  BY <1>1 DEF Init, BackupInv, BackupsIntact, Backed

\* The planned registry is backed, because the replaced code has just been copied.
LEMMA PlannedBacked ==
  ASSUME TypeOK, op \in Work, BackupInv, journal # None, pc = "plan"
  PROVE  Backed(Planned(journal.id))
<1>1. /\ registry \in Registry /\ op.domain \in Domains /\ journal.id \in Nat
      /\ op.action # "remove" => op.release \in Releases
  BY DEF TypeOK, Work, Transaction
<1>2. SavedRecords(Planned(journal.id))
        \subseteq SavedRecords(registry) \union {Retained(registry, op.domain, journal.id), None}
  BY <1>1, InstallRecords, RemoveRecords DEF Planned
<1>3. Backed(registry)
  BY DEF BackupInv, BackupsIntact
<1> SUFFICES ASSUME NEW saved \in SavedRecords(Planned(journal.id)) \ {None}
             PROVE  saved.backup \in 1..(nextId - 1) /\ backups[saved.backup] = saved.release
  BY DEF Backed
<1>4. CASE saved \in SavedRecords(registry)
  BY <1>3, <1>4 DEF Backed
<1>5. CASE saved = Retained(registry, op.domain, journal.id)
  BY <1>5 DEF Retained, BackupInv, Current, IsInstalled
<1>6. QED
  BY <1>2, <1>4, <1>5

LEMMA BackupStep == TypeInv /\ GoodInv /\ BackupInv /\ [Next]_vars => BackupInv'
<1> SUFFICES ASSUME TypeInv, BackupInv, [Next]_vars PROVE BackupInv'
  OBVIOUS
<1> USE DEF TypeInv, Control, AfterJournal, BackupInv, BackupsIntact, Backed, Current,
            disk, process, world, Goto, Raise, Return, Delete
<1>1. CASE Start
  BY <1>1 DEF Start
<1>2. CASE Request
  BY <1>2 DEF Request
<1>3. CASE Admit
  BY <1>3 DEF Admit
<1>4. CASE Refuse
  BY <1>4 DEF Refuse
<1>5. CASE Prepare
  <2>1. nextId \in Nat /\ nextId >= 1
    BY DEF TypeOK
  <2>2. \A saved \in SavedRecords(registry) \ {None} :
          /\ saved.backup \in 1..(nextId - 1) /\ saved.backup \in 1..(nextId' - 1)
          /\ saved.backup < nextId
          /\ backups'[saved.backup] = saved.release
    BY <1>5, <2>1 DEF Prepare
  <2>3. /\ journal'.id = nextId /\ journal'.after = registry /\ registry' = registry
        /\ journal'.id \in 1..(nextId' - 1)
        /\ pc' # "plan"
    BY <1>5, <2>1 DEF Prepare
  <2>4. QED
    BY <2>2, <2>3
<1>6. CASE OpenStage
  BY <1>6 DEF OpenStage
<1>7. CASE FillStage
  BY <1>7 DEF FillStage
<1>8. CASE RejectArtifact
  BY <1>8 DEF RejectArtifact
<1>9. CASE Backup
  <2>1. /\ pc = "backup" /\ journal # None /\ journal.after = registry
        /\ UNCHANGED <<registry, journal, nextId>>
    BY <1>9 DEF Backup
  <2>2. nextId \in Nat /\ nextId <= MaxTransactions + 1 /\ journal.id \in 1..MaxTransactions
    <3>1. nextId \in 1..(MaxTransactions + 1) /\ journal.id \in 1..(nextId - 1)
      BY <2>1 DEF TypeOK
    <3>2. QED
      BY <3>1, BoundsAssumption
  <2>3. \A id \in 1..MaxTransactions : id # journal.id => backups'[id] = backups[id]
    BY <1>9 DEF Backup, TypeOK
  <2>4. \A saved \in SavedRecords(registry) \ {None} :
          /\ saved.backup < journal.id /\ saved.backup \in 1..(nextId - 1)
          /\ backups'[saved.backup] = saved.release
    <3> SUFFICES ASSUME NEW saved \in SavedRecords(registry) \ {None}
                 PROVE  /\ saved.backup < journal.id /\ saved.backup \in 1..(nextId - 1)
                        /\ backups'[saved.backup] = saved.release
      OBVIOUS
    <3>1. saved.backup < journal.id /\ saved.backup \in 1..(nextId - 1)
      BY <2>1
    <3>2. saved.backup \in 1..MaxTransactions /\ saved.backup # journal.id
      BY <2>2, <3>1, BoundsAssumption
    <3>3. backups[saved.backup] = saved.release
      BY <2>1
    <3>4. QED
      BY <2>3, <3>1, <3>2, <3>3
  <2>5. pc' = "plan" /\ Current' # None => backups'[journal.id] = Current'.release
    BY <1>9, <2>2 DEF Backup, TypeOK
  <2>6. QED
    BY <2>1, <2>4, <2>5
<1>10. CASE Plan
  <2>1. op \in Work /\ journal \in Transaction
    BY <1>10 DEF Plan, TypeOK
  <2>2. Backed(Planned(journal.id))
    <3> HIDE DEF BackupInv, Backed
    <3> QED
      BY <1>10, <2>1, PlannedBacked DEF Plan
  <2>3. journal'.after = Planned(journal.id) /\ journal'.id = journal.id
    BY <1>10, <2>1 DEF Plan, Transaction
  <2>4. QED
    BY <1>10, <2>2, <2>3 DEF Plan
<1>11. CASE Recheck
  BY <1>11 DEF Recheck
<1>12. CASE MoveOld
  BY <1>12 DEF MoveOld
<1>13. CASE MoveNew
  BY <1>13 DEF MoveNew
<1>14. CASE Commit
  BY <1>14 DEF Commit
<1>15. CASE Finish
  BY <1>15 DEF Finish
<1>16. CASE DropHold
  BY <1>16 DEF DropHold
<1>17. CASE DropStage
  BY <1>17 DEF DropStage
<1>18. CASE Unlink
  BY <1>18 DEF Unlink
<1>19. CASE Synced
  BY <1>19 DEF Synced
<1>20. CASE Recover
  BY <1>20, UndoPlaces DEF Recover
<1>21. CASE DropTarget
  BY <1>21 DEF DropTarget
<1>22. CASE MoveBack
  BY <1>22 DEF MoveBack
<1>23. CASE Crash
  BY <1>23 DEF Crash
<1>24. CASE Fault
  BY <1>24 DEF Fault
<1>25. CASE EarlyFault
  BY <1>25 DEF EarlyFault
<1>26. CASE UserWrites
  BY <1>26 DEF UserWrites
<1>27. CASE ConfigEntryChanges
  BY <1>27 DEF ConfigEntryChanges
<1>28. CASE UNCHANGED vars
  BY <1>28 DEF vars
<1>29. QED
  BY <1>1, <1>2, <1>3, <1>4, <1>5, <1>6, <1>7, <1>8, <1>9, <1>10, <1>11, <1>12, <1>13, <1>14, <1>15, <1>16, <1>17, <1>18, <1>19, <1>20, <1>21, <1>22, <1>23, <1>24, <1>25, <1>26, <1>27, <1>28 DEF Next, Change, Recovery, World

-----------------------------------------------------------------------------
(* Theorems.                                                                   *)

IInv == TypeInv /\ GoodInv /\ BackupInv

LEMMA Invariance == Spec => []IInv
<1>1. Init => IInv
  BY TypeInit, GoodInit, BackupInit DEF IInv
<1>2. IInv /\ [Next]_vars => IInv'
  BY TypeStep, GoodStep, BackupStep DEF IInv
<1>3. QED
  BY <1>1, <1>2, PTL DEF Spec

\* Every state of the engine is well typed: in particular the journal, the registry
\* and the operation are what the next start or step of engine.py can read.
THEOREM TypeCorrect == Spec => []TypeOK
<1>1. IInv => TypeOK
  BY DEF IInv, TypeInv
<1>2. QED
  BY <1>1, Invariance, PTL

\* At every moment, crashes and errors included, the registry and the one a recovery
\* may finish are filed under their domains, keep one origin per domain and are
\* closed under exact dependencies, though install, rollback and remove check them
\* long before they commit.
THEOREM RegistryAlwaysGood == Spec => []RegistryStaysGood
<1>1. IInv => RegistryStaysGood
  BY DEF IInv, GoodInv
<1>2. QED
  BY <1>1, Invariance, PTL

\* Every rollback the registry offers has its complete backup, whenever the process
\* was killed and whichever write failed.
THEOREM BackupsAlwaysIntact == Spec => []BackupsIntact
<1>1. IInv => BackupsIntact
  BY DEF IInv, BackupInv
<1>2. QED
  BY <1>1, Invariance, PTL

-----------------------------------------------------------------------------
(* The engine implements the atomic lifecycle.                                 *)

\* A registry closed under dependencies shows a closed set of releases.
LEMMA ShownClosedNext ==
  ASSUME registry' \in Registry, DependencyClosed(registry')
  PROVE  Lifecycle!Closed(InstalledReleases')
<1>1. \A d \in Domains :
        InstalledReleases'[d] = IF IsInstalled(registry', d)
                                 THEN registry'.installed[d].release ELSE None
  BY DEF InstalledReleases
<1>2. \A d \in Domains : IsInstalled(registry', d) => registry'.installed[d].release # None
  BY NoneAssumption DEF Registry, Entry, IsInstalled
<1> SUFFICES ASSUME NEW d \in Domains, InstalledReleases'[d] # None,
                    NEW need \in Needs[InstalledReleases'[d]]
             PROVE  \E e \in Domains : /\ InstalledReleases'[e] # None
                                       /\ Lifecycle!IdentityOf(InstalledReleases'[e]) = need
  BY DEF Lifecycle!Closed
<1>3. IsInstalled(registry', d) /\ need \in Needs[registry'.installed[d].release]
  BY <1>1
<1>4. PICK e \in Domains : Provides(registry', e, need)
  BY <1>3 DEF DependencyClosed
<1>5. /\ InstalledReleases'[e] = registry'.installed[e].release
      /\ registry'.installed[e].release # None
  BY <1>1, <1>2, <1>4 DEF Provides
<1>6. QED
  BY <1>4, <1>5 DEF Provides, Lifecycle!IdentityOf

LEMMA ShowsInit == Init => Lifecycle!Init
  BY DEF Init, Lifecycle!Init, InstalledReleases, RetainedReleases, EmptyRegistry,
         IsInstalled, SavedFor

\* What the registry shows of one domain after a change, and that it shows the same
\* of every other domain.
LEMMA ShownInstall ==
  ASSUME registry \in Registry, NEW d \in Domains, NEW id \in Nat, NEW release \in Releases,
         registry' = AfterInstall(registry, d, release, id)
  PROVE  /\ InstalledReleases' = [InstalledReleases EXCEPT ![d] = release]
         /\ RetainedReleases' = [RetainedReleases EXCEPT ![d] = InstalledReleases[d]]
<1>1. /\ IsInstalled(registry', d) /\ registry'.installed[d].release = release
      /\ registry'.installed[d].previous = Retained(registry, d, id)
      /\ \A e \in Domains \ {d} : /\ registry'.installed[e] = registry.installed[e]
                                  /\ registry'.removed[e] = registry.removed[e]
  BY InstallEffect
<1>2. SavedFor(registry', d) = Retained(registry, d, id)
  BY <1>1 DEF SavedFor
<1>3. Retained(registry, d, id) # None <=> IsInstalled(registry, d)
  BY RetainedNone
<1>4. \A e \in Domains \ {d} : SavedFor(registry', e) = SavedFor(registry, e)
  BY <1>1 DEF SavedFor, IsInstalled
<1>5. \A e \in Domains :
        InstalledReleases'[e] = IF e = d THEN release ELSE InstalledReleases[e]
  BY <1>1 DEF InstalledReleases, IsInstalled
<1>6. SavedFor(registry', d) # None => SavedFor(registry', d).release = InstalledReleases[d]
  BY <1>2, <1>3 DEF InstalledReleases, Retained
<1>7. SavedFor(registry', d) = None => InstalledReleases[d] = None
  BY <1>2, <1>3 DEF InstalledReleases
<1>8. \A e \in Domains :
        RetainedReleases'[e] = IF e = d THEN InstalledReleases[d] ELSE RetainedReleases[e]
  BY <1>4, <1>6, <1>7 DEF RetainedReleases
<1>9. QED
  BY <1>5, <1>8 DEF InstalledReleases, RetainedReleases

LEMMA ShownRemove ==
  ASSUME registry \in Registry, NEW d \in Domains, NEW id \in Nat,
         registry' = AfterRemove(registry, d, id)
  PROVE  /\ InstalledReleases' = [InstalledReleases EXCEPT ![d] = None]
         /\ RetainedReleases' = [RetainedReleases EXCEPT ![d] = InstalledReleases[d]]
<1>1. /\ ~IsInstalled(registry', d)
      /\ registry'.removed[d] = Retained(registry, d, id)
      /\ \A e \in Domains \ {d} : /\ registry'.installed[e] = registry.installed[e]
                                  /\ registry'.removed[e] = registry.removed[e]
  BY RemoveEffect
<1>2. SavedFor(registry', d) = Retained(registry, d, id)
  BY <1>1 DEF SavedFor
<1>3. Retained(registry, d, id) # None <=> IsInstalled(registry, d)
  BY RetainedNone
<1>4. \A e \in Domains \ {d} : SavedFor(registry', e) = SavedFor(registry, e)
  BY <1>1 DEF SavedFor, IsInstalled
<1>5. \A e \in Domains :
        InstalledReleases'[e] = IF e = d THEN None ELSE InstalledReleases[e]
  BY <1>1 DEF InstalledReleases, IsInstalled
<1>6. SavedFor(registry', d) # None => SavedFor(registry', d).release = InstalledReleases[d]
  BY <1>2, <1>3 DEF InstalledReleases, Retained
<1>7. SavedFor(registry', d) = None => InstalledReleases[d] = None
  BY <1>2, <1>3 DEF InstalledReleases
<1>8. \A e \in Domains :
        RetainedReleases'[e] = IF e = d THEN InstalledReleases[d] ELSE RetainedReleases[e]
  BY <1>4, <1>6, <1>7 DEF RetainedReleases
<1>9. QED
  BY <1>5, <1>8 DEF InstalledReleases, RetainedReleases

\* The write of registry.json is the change of the lifecycle.
LEMMA CommitShows == IInv /\ IInv' /\ Commit => Lifecycle!Next
<1> SUFFICES ASSUME IInv, IInv', Commit PROVE Lifecycle!Next
  OBVIOUS
<1> DEFINE d == op.domain
<1>1. /\ registry \in Registry /\ registry' \in Registry /\ op \in Work
      /\ journal.id \in Nat /\ d \in Domains
      /\ registry' = Planned(journal.id) /\ AllowedWork
  BY DEF IInv, TypeInv, TypeOK, Control, GoodInv, Commit, AfterJournal, Work, Transaction
<1>2. Lifecycle!Closed(InstalledReleases')
  <2>1. DependencyClosed(registry')
    BY DEF IInv, GoodInv, RegistryStaysGood, GoodRegistry
  <2>2. QED
    BY <1>1, <2>1, ShownClosedNext
<1>3. CASE op.action = "remove"
  <2>1. IsInstalled(registry, d) /\ registry' = AfterRemove(registry, d, journal.id)
    BY <1>1, <1>3 DEF AllowedWork, Allowed, CanRemove, Planned
  <2>2. InstalledReleases[d] # None
    BY <1>1, <2>1, NoneAssumption DEF InstalledReleases, Registry, Entry, IsInstalled
  <2>3. Lifecycle!Replace(d, None)
    BY <1>1, <1>2, <2>1, ShownRemove DEF Lifecycle!Replace
  <2>4. QED
    BY <1>1, <2>2, <2>3 DEF Lifecycle!Next, Lifecycle!Remove
<1>4. CASE op.action # "remove"
  <2>1. op.release \in Releases /\ op.action \in {"install", "rollback"}
    BY <1>1, <1>4 DEF Work
  <2>2. registry' = AfterInstall(registry, d, op.release, journal.id)
    BY <1>1, <1>4 DEF Planned
  <2>3. Lifecycle!Replace(d, op.release)
    BY <1>1, <1>2, <2>1, <2>2, ShownInstall DEF Lifecycle!Replace
  <2>4. CASE op.action = "install"
    <3>1. CanInstall(registry, op.release) /\ d = DomainOf[op.release]
      BY <1>1, <2>4 DEF AllowedWork, Allowed
    <3>2. InstalledReleases[d] # None =>
            /\ OriginOf[InstalledReleases[d]] = OriginOf[op.release]
            /\ VersionOf[InstalledReleases[d]] # VersionOf[op.release]
      BY <1>1, <3>1 DEF CanInstall, InstalledReleases
    <3>3. Lifecycle!Install(op.release)
      BY <2>3, <3>1, <3>2 DEF Lifecycle!Install
    <3>4. QED
      BY <2>1, <3>3 DEF Lifecycle!Next
  <2>5. CASE op.action = "rollback"
    <3>1. SavedFor(registry, d) # None /\ op.release = SavedFor(registry, d).release
      BY <1>1, <2>5 DEF AllowedWork, Allowed, CanRollback
    <3>2. RetainedReleases[d] = op.release /\ op.release # None
      BY <1>1, <2>1, <3>1, NoneAssumption DEF RetainedReleases
    <3>3. Lifecycle!Rollback(d)
      BY <2>3, <3>2 DEF Lifecycle!Rollback
    <3>4. QED
      BY <1>1, <3>3 DEF Lifecycle!Next
  <2>6. QED
    BY <2>1, <2>4, <2>5
<1>5. QED
  BY <1>3, <1>4

\* Every other step leaves the registry, and what it shows, as they are.
LEMMA StepShows ==
  IInv /\ IInv' /\ [Next]_vars =>
    [Lifecycle!Next]_<<InstalledReleases, RetainedReleases>>
<1> SUFFICES ASSUME IInv, IInv', [Next]_vars
             PROVE  [Lifecycle!Next]_<<InstalledReleases, RetainedReleases>>
  OBVIOUS
<1>1. CASE Commit
  BY <1>1, CommitShows
<1>2. CASE registry' = registry
  BY <1>2 DEF InstalledReleases, RetainedReleases
<1>3. Commit \/ registry' = registry
  BY DEF Next, Change, Recovery, World, vars, disk, process, world,
         Start, Request, Admit, Refuse, Prepare, OpenStage, FillStage, RejectArtifact,
         Backup, Plan, Recheck, MoveOld, MoveNew, Finish, DropHold, DropStage, Unlink,
         Synced, Recover, DropTarget, MoveBack, Crash, Fault, EarlyFault, UserWrites,
         ConfigEntryChanges
<1>4. QED
  BY <1>1, <1>2, <1>3

\* The engine, with its journal, swaps, crashes and recoveries, is the atomic
\* lifecycle: the registry moves by whole installs, rollbacks and removals.
THEOREM EngineImplementsLifecycle == Spec => ImplementsLifecycle
<1>1. IInv /\ IInv' /\ [Next]_vars =>
        [Lifecycle!Next]_<<InstalledReleases, RetainedReleases>>
  BY StepShows
<1>2. QED
  BY <1>1, ShowsInit, Invariance, PTL DEF Spec, Lifecycle!Spec, ImplementsLifecycle

-----------------------------------------------------------------------------
(* The directories the engine moves and deletes. *)

\* The directory of the open transaction, and what should be in it before and after.
Here == target[journal.domain]
Old == CodeOf(journal.before, journal.domain)
New == CodeOf(journal.after, journal.domain)

\* What the running operation makes of its directory.
Wanted == IF op.action = "remove" THEN Absent ELSE op.release

BeforeSwap == {"stage", "backup", "plan", "recheck", "move_old"}

-----------------------------------------------------------------------------
(* What each place of a handler relies on, whatever people wrote meanwhile.   *)

\* The running operation and its journal are about the same directory.
SameWork ==
  /\ pc \in {"admit", "prepare", "synced"} => journal = None
  /\ pc \in AfterJournal => journal.domain = op.domain /\ journal.before = registry
  /\ pc \in SwapSteps => New = Wanted /\ journal.after # journal.before
  /\ pc = "move_new" => op.action # "remove"
  /\ ctx = "change" /\ pc \in FinishSteps => CodeOf(registry, op.domain) = Wanted

\* The stage and the hold directory belong to the open transaction, and the code that
\* deletes or overwrites a directory has seen that it is not foreign.
OwnDirectories ==
  /\ journal = None => stage = Absent /\ hold = Absent
  /\ pc \in BeforeSwap => hold = Absent
  /\ pc \in (BeforeSwap \ {"stage"}) \union {"move_new"} => stage = Wanted
  /\ pc \in {"finish", "drop_hold"} =>
       registry = journal.after /\ journal.after # journal.before
  /\ pc = "drop_hold" => hold \in {Old, Partial, Absent}
  /\ pc \in {"drop_stage", "unlink"} => hold = Absent
  /\ pc = "unlink" => stage = Absent
  /\ pc \in {"drop_target", "move_back"} => registry = journal.before /\ hold = Old
  /\ pc = "drop_target" => Here \in {New, Partial}

\* A directory without an open transaction is as recorded, unless a person wrote to it.
OthersRecorded ==
  \A d \in Domains \ touched :
    journal = None \/ journal.domain # d => TargetAsRecorded(d)

\* The directory of the open transaction and its hold directory: the old code in one
\* of them until the commit, the new code in place from then on.
Undone ==
  /\ registry = journal.before
  /\ \/ Here = Old /\ hold = Absent
     \/ Here = Absent /\ hold = Old
     \/ Here = New /\ hold = Old /\ journal.after # journal.before
     \/ Here = Partial /\ hold = Old /\ TornDeletes

Done ==
  /\ registry = journal.after /\ journal.after # journal.before
  /\ Here = New
  /\ \/ hold \in {Old, Absent}
     \/ hold = Partial /\ TornDeletes

OpenDirectory ==
  journal # None /\ journal.domain \notin touched =>
    /\ Undone \/ Done
    /\ pc \in BeforeSwap => Here = Old
    /\ pc = "move_new" => Here = Absent /\ hold = Old
    /\ pc = "commit" => Here = New /\ hold = Old
    /\ pc \in {"drop_stage", "unlink"} => Here = CodeOf(registry, journal.domain)

\* A removal past its last look at Home Assistant found no configuration entry.
EntriesInv ==
  ConfigEntries # "any_time" /\ pc \in {"move_old", "commit"} /\ op.action = "remove"
    => op.domain \notin configured

DirInv == SameWork /\ OwnDirectories /\ OthersRecorded /\ OpenDirectory

-----------------------------------------------------------------------------
(* What the operations plan.                                                  *)

\* The planned registry changes what it shows of one domain, to what was asked for.
LEMMA PlannedShows ==
  ASSUME registry \in Registry, op \in Work, NEW id \in Nat
  PROVE  /\ CodeOf(Planned(id), op.domain) = Wanted
         /\ \A d \in Domains \ {op.domain} : CodeOf(Planned(id), d) = CodeOf(registry, d)
<1>1. op.domain \in Domains /\ (op.action # "remove" => op.release \in Releases)
  BY DEF Work
<1>2. CASE op.action = "remove"
  BY <1>1, <1>2, RemoveEffect DEF Planned, Wanted, CodeOf, IsInstalled
<1>3. CASE op.action # "remove"
  BY <1>1, <1>3, InstallEffect DEF Planned, Wanted, CodeOf, IsInstalled
<1>4. QED
  BY <1>2, <1>3

\* The planned registry is another one: it installs, removes, or names a new backup.
LEMMA PlannedIsNew ==
  ASSUME registry \in Registry, op \in Work, AllowedWork, NEW id \in Nat,
         \A saved \in SavedRecords(registry) \ {None} : saved.backup < id
  PROVE  Planned(id) # registry
<1>1. op.domain \in Domains /\ (op.action # "remove" => op.release \in Releases)
  BY DEF Work
<1>2. CASE op.action = "remove"
  BY <1>1, <1>2, RemoveEffect DEF Planned, AllowedWork, Allowed, CanRemove
<1>3. CASE op.action # "remove" /\ ~IsInstalled(registry, op.domain)
  BY <1>1, <1>3, InstallEffect DEF Planned
<1>4. CASE op.action # "remove" /\ IsInstalled(registry, op.domain)
  <2>1. Planned(id).installed[op.domain].previous = Retained(registry, op.domain, id)
    BY <1>1, <1>4, InstallEffect DEF Planned
  <2>2. Retained(registry, op.domain, id) # None /\ Retained(registry, op.domain, id).backup = id
    BY <1>1, <1>4, RetainedNone DEF Retained
  <2>3. registry.installed[op.domain].previous \in SavedRecords(registry)
    BY <1>1, <1>4 DEF SavedRecords
  <2>4. SUFFICES ASSUME Planned(id) = registry PROVE FALSE
    OBVIOUS
  <2>5. id < id
    BY <2>1, <2>2, <2>3, <2>4
  <2>6. QED
    BY <2>5
<1>5. QED
  BY <1>2, <1>3, <1>4

\* The registry an operation found claims the directory it found, until the commit.
LEMMA WorkDomain ==
  ASSUME TypeInv, SameWork, pc \in AfterJournal
  PROVE  /\ op \in Work /\ op.domain \in Domains /\ ctx = "change"
         /\ journal \in Transaction /\ journal.domain = op.domain
         /\ journal.id \in Nat /\ registry \in Registry
<1>1. journal # None /\ op \in Work /\ ctx = "change"
  BY DEF TypeInv, Control, AfterJournal
<1>2. QED
  BY <1>1 DEF TypeInv, TypeOK, SameWork, Work, Transaction

\* The journal that names the planned registry.
LEMMA PlanJournal ==
  ASSUME TypeInv, SameWork, Plan
  PROVE  /\ journal # None /\ journal' # None
         /\ journal'.domain = journal.domain /\ journal'.before = journal.before
         /\ journal'.after = Planned(journal.id)
<1>1. /\ pc = "plan" /\ journal \in Transaction /\ op \in Work /\ journal.id \in Nat
      /\ registry \in Registry
  BY WorkDomain DEF Plan, AfterJournal
<1>2. Planned(journal.id) \in Registry
  BY <1>1, InstallType, RemoveType DEF Planned, Work
<1>3. journal' \in Transaction
  BY <1>1, <1>2 DEF Plan, Transaction
<1>4. journal # None /\ journal' # None
  BY <1>1, <1>3, NoTransactionAssumption
<1>5. QED
  BY <1>1, <1>4 DEF Plan, Transaction

-----------------------------------------------------------------------------
LEMMA DirInit == Init => DirInv
  BY DEF Init, DirInv, SameWork, OwnDirectories, OthersRecorded, OpenDirectory,
         TargetAsRecorded, CodeOf, EmptyRegistry, IsInstalled, AfterJournal, BeforeSwap

LEMMA SameWorkStep ==
  TypeInv /\ GoodInv /\ BackupInv /\ SameWork /\ [Next]_vars => SameWork'
<1> SUFFICES ASSUME TypeInv, GoodInv, BackupInv, SameWork, [Next]_vars PROVE SameWork'
  OBVIOUS
<1> USE DEF TypeInv, Control, AfterJournal, SameWork, New, Wanted,
            disk, process, world, Goto, Raise, Return, Delete
<1>1. CASE Start
  BY <1>1 DEF Start
<1>2. CASE Request
  BY <1>2 DEF Request
<1>3. CASE Admit
  BY <1>3 DEF Admit
<1>4. CASE Refuse
  BY <1>4 DEF Refuse
<1>5. CASE Prepare
  <2>1. /\ journal'.domain = op.domain /\ journal'.before = registry
        /\ pc' \in {"stage", "backup"} /\ UNCHANGED <<op, ctx, registry>>
    BY <1>5 DEF Prepare
  <2>2. QED
    BY <2>1
<1>6. CASE OpenStage
  BY <1>6 DEF OpenStage
<1>7. CASE FillStage
  BY <1>7 DEF FillStage
<1>8. CASE RejectArtifact
  BY <1>8 DEF RejectArtifact
<1>9. CASE Backup
  BY <1>9 DEF Backup
<1>10. CASE Plan
  <2>1. /\ op \in Work /\ journal.id \in Nat /\ registry \in Registry
        /\ journal.domain = op.domain
    BY <1>10, WorkDomain DEF Plan
  <2>2. CodeOf(Planned(journal.id), op.domain) = Wanted
    BY <2>1, PlannedShows
  <2>3. Planned(journal.id) # registry
    BY <1>10, <2>1, PlannedIsNew DEF Plan, GoodInv, BackupInv
  <2>4. QED
    BY <1>10, <2>1, <2>2, <2>3, PlanJournal DEF Plan
<1>11. CASE Recheck
  <2>1. op.action = "remove" => Current # None
    BY <1>11 DEF Recheck, GoodInv, AllowedWork, Allowed, CanRemove, Current, IsInstalled
  <2>2. QED
    BY <1>11, <2>1 DEF Recheck
<1>12. CASE MoveOld
  BY <1>12 DEF MoveOld
<1>13. CASE MoveNew
  BY <1>13 DEF MoveNew
<1>14. CASE Commit
  BY <1>14 DEF Commit
<1>15. CASE Finish
  BY <1>15 DEF Finish
<1>16. CASE DropHold
  BY <1>16 DEF DropHold
<1>17. CASE DropStage
  BY <1>17 DEF DropStage
<1>18. CASE Unlink
  BY <1>18 DEF Unlink
<1>19. CASE Synced
  BY <1>19 DEF Synced
<1>20. CASE Recover
  BY <1>20, UndoPlaces DEF Recover
<1>21. CASE DropTarget
  BY <1>21 DEF DropTarget
<1>22. CASE MoveBack
  BY <1>22 DEF MoveBack
<1>23. CASE Crash
  BY <1>23 DEF Crash
<1>24. CASE Fault
  BY <1>24 DEF Fault
<1>25. CASE EarlyFault
  BY <1>25 DEF EarlyFault
<1>26. CASE UserWrites
  BY <1>26 DEF UserWrites
<1>27. CASE ConfigEntryChanges
  BY <1>27 DEF ConfigEntryChanges
<1>28. CASE UNCHANGED vars
  BY <1>28 DEF vars
<1>29. QED
  BY <1>1, <1>2, <1>3, <1>4, <1>5, <1>6, <1>7, <1>8, <1>9, <1>10, <1>11, <1>12, <1>13, <1>14, <1>15, <1>16, <1>17, <1>18, <1>19, <1>20, <1>21, <1>22, <1>23, <1>24, <1>25, <1>26, <1>27, <1>28
     DEF Next, Change, Recovery, World

LEMMA OwnDirectoriesStep ==
  TypeInv /\ GoodInv /\ SameWork /\ OwnDirectories /\ [Next]_vars => OwnDirectories'
<1> SUFFICES ASSUME TypeInv, GoodInv, SameWork, OwnDirectories, [Next]_vars
             PROVE  OwnDirectories'
  OBVIOUS
<1> USE DEF TypeInv, Control, AfterJournal, BeforeSwap, OwnDirectories, Here, Old, New, Wanted,
            disk, process, world, Goto, Raise, Return, Delete
<1>1. CASE Start
  BY <1>1 DEF Start
<1>2. CASE Request
  BY <1>2 DEF Request
<1>3. CASE Admit
  BY <1>3 DEF Admit
<1>4. CASE Refuse
  BY <1>4 DEF Refuse
<1>5. CASE Prepare
  <2>1. /\ stage' = Absent /\ hold' = Absent /\ op' = op
        /\ pc' = IF op.action = "remove" THEN "backup" ELSE "stage"
    BY <1>5 DEF Prepare, SameWork
  <2>2. QED
    BY <2>1
<1>6. CASE OpenStage
  BY <1>6 DEF OpenStage
<1>7. CASE FillStage
  BY <1>7 DEF FillStage
<1>8. CASE RejectArtifact
  BY <1>8 DEF RejectArtifact
<1>9. CASE Backup
  BY <1>9 DEF Backup
<1>10. CASE Plan
  <2>1. hold' = Absent /\ stage' = Wanted /\ Wanted' = Wanted /\ pc' = "recheck"
    BY <1>10 DEF Plan
  <2>2. QED
    BY <1>10, <2>1, PlanJournal
<1>11. CASE Recheck
  BY <1>11 DEF Recheck
<1>12. CASE MoveOld
  BY <1>12 DEF MoveOld
<1>13. CASE MoveNew
  BY <1>13 DEF MoveNew
<1>14. CASE Commit
  BY <1>14 DEF Commit, SameWork
<1>15. CASE Finish
  BY <1>15 DEF Finish
<1>16. CASE DropHold
  BY <1>16 DEF DropHold
<1>17. CASE DropStage
  BY <1>17 DEF DropStage
<1>18. CASE Unlink
  BY <1>18 DEF Unlink
<1>19. CASE Synced
  BY <1>19 DEF Synced
<1>20. CASE Recover
  <2>1. CASE journal = None
    BY <1>20, <2>1 DEF Recover
  <2>2. CASE journal # None /\ Committed
    <3>1. pc' = "finish" /\ registry' = registry /\ journal' = journal
      BY <1>20, <2>2 DEF Recover
    <3>2. QED
      BY <2>2, <3>1 DEF Committed
  <2>3. CASE journal # None /\ ~Committed /\ UndoStep # "stuck"
    <3>1. pc' = UndoStep /\ UNCHANGED <<disk, op, ctx>>
      BY <1>20, <2>3 DEF Recover
    <3>2. /\ registry = journal.before
          /\ UndoStep = "move_back" => hold = Old
          /\ UndoStep = "drop_target" => hold = Old /\ Here = New
          /\ UndoStep = "drop_stage" => hold = Absent
      BY <2>3 DEF UndoStep
    <3>3. QED
      BY <2>3, <3>1, <3>2, UndoPlaces
  <2>4. CASE journal # None /\ ~Committed /\ UndoStep = "stuck"
    BY <1>20, <2>4 DEF Recover
  <2>5. QED
    BY <2>1, <2>2, <2>3, <2>4
<1>21. CASE DropTarget
  BY <1>21 DEF DropTarget
<1>22. CASE MoveBack
  BY <1>22 DEF MoveBack
<1>23. CASE Crash
  BY <1>23 DEF Crash
<1>24. CASE Fault
  BY <1>24 DEF Fault
<1>25. CASE EarlyFault
  BY <1>25 DEF EarlyFault
<1>26. CASE UserWrites
  BY <1>26 DEF UserWrites
<1>27. CASE ConfigEntryChanges
  BY <1>27 DEF ConfigEntryChanges
<1>28. CASE UNCHANGED vars
  BY <1>28 DEF vars
<1>29. QED
  BY <1>1, <1>2, <1>3, <1>4, <1>5, <1>6, <1>7, <1>8, <1>9, <1>10, <1>11, <1>12, <1>13, <1>14, <1>15, <1>16, <1>17, <1>18, <1>19, <1>20, <1>21, <1>22, <1>23, <1>24, <1>25, <1>26, <1>27, <1>28
     DEF Next, Change, Recovery, World

LEMMA OthersRecordedStep ==
  /\ TypeInv /\ GoodInv /\ SameWork /\ OwnDirectories /\ OpenDirectory /\ OthersRecorded
  /\ [Next]_vars
  => OthersRecorded'
<1> SUFFICES ASSUME TypeInv, GoodInv, SameWork, OwnDirectories, OpenDirectory, OthersRecorded,
                    [Next]_vars
             PROVE  OthersRecorded'
  OBVIOUS
<1> USE DEF TypeInv, Control, AfterJournal, OthersRecorded, TargetAsRecorded,
            disk, process, world, Goto, Raise, Return, Delete
<1>1. CASE Start
  BY <1>1 DEF Start
<1>2. CASE Request
  BY <1>2 DEF Request
<1>3. CASE Admit
  BY <1>3 DEF Admit
<1>4. CASE Refuse
  BY <1>4 DEF Refuse
<1>5. CASE Prepare
  <2>1. journal = None /\ UNCHANGED <<registry, target, touched>>
    BY <1>5 DEF Prepare, SameWork
  <2>2. QED
    BY <2>1
<1>6. CASE OpenStage
  BY <1>6 DEF OpenStage
<1>7. CASE FillStage
  BY <1>7 DEF FillStage
<1>8. CASE RejectArtifact
  BY <1>8 DEF RejectArtifact
<1>9. CASE Backup
  BY <1>9 DEF Backup
<1>10. CASE Plan
  BY <1>10, PlanJournal DEF Plan
<1>11. CASE Recheck
  BY <1>11 DEF Recheck
<1>12. CASE MoveOld
  <2>1. journal # None /\ journal.domain = op.domain
    BY <1>12 DEF MoveOld, SameWork
  <2>2. /\ \A d \in Domains \ {op.domain} : target'[d] = target[d]
        /\ UNCHANGED <<registry, journal, touched>>
    BY <1>12 DEF MoveOld, TypeOK
  <2>3. QED
    BY <2>1, <2>2
<1>13. CASE MoveNew
  <2>1. journal # None /\ journal.domain = op.domain
    BY <1>13 DEF MoveNew, SameWork
  <2>2. /\ \A d \in Domains \ {op.domain} : target'[d] = target[d]
        /\ UNCHANGED <<registry, journal, touched>>
    BY <1>13 DEF MoveNew, TypeOK
  <2>3. QED
    BY <2>1, <2>2
<1>14. CASE Commit
  <2>1. /\ op \in Work /\ registry \in Registry /\ journal.id \in Nat /\ journal # None
        /\ journal.domain = op.domain
    BY <1>14, WorkDomain DEF Commit
  <2>2. registry' = Planned(journal.id) /\ UNCHANGED <<target, journal, touched>>
    BY <1>14 DEF Commit, GoodInv
  <2>3. \A d \in Domains \ {op.domain} : CodeOf(registry', d) = CodeOf(registry, d)
    BY <2>1, <2>2, PlannedShows
  <2>4. QED
    BY <2>1, <2>2, <2>3
<1>15. CASE Finish
  BY <1>15 DEF Finish
<1>16. CASE DropHold
  BY <1>16 DEF DropHold
<1>17. CASE DropStage
  BY <1>17 DEF DropStage
<1>18. CASE Unlink
  <2>1. /\ journal # None /\ UNCHANGED <<registry, target, touched>>
    BY <1>18 DEF Unlink
  <2>2. journal.domain \notin touched => TargetAsRecorded(journal.domain)
    BY <1>18, <2>1 DEF Unlink, OpenDirectory, Here
  <2>3. QED
    BY <2>1, <2>2
<1>19. CASE Synced
  BY <1>19 DEF Synced
<1>20. CASE Recover
  BY <1>20 DEF Recover
<1>21. CASE DropTarget
  BY <1>21 DEF DropTarget
<1>22. CASE MoveBack
  <2>1. /\ journal # None /\ \A d \in Domains \ {journal.domain} : target'[d] = target[d]
        /\ UNCHANGED <<registry, journal, touched>>
    BY <1>22 DEF MoveBack, TypeOK
  <2>2. QED
    BY <1>22, <2>1 DEF MoveBack
<1>23. CASE Crash
  BY <1>23 DEF Crash
<1>24. CASE Fault
  BY <1>24 DEF Fault
<1>25. CASE EarlyFault
  BY <1>25 DEF EarlyFault
<1>26. CASE UserWrites
  BY <1>26 DEF UserWrites
<1>27. CASE ConfigEntryChanges
  BY <1>27 DEF ConfigEntryChanges
<1>28. CASE UNCHANGED vars
  BY <1>28 DEF vars
<1>29. QED
  BY <1>1, <1>2, <1>3, <1>4, <1>5, <1>6, <1>7, <1>8, <1>9, <1>10, <1>11, <1>12, <1>13, <1>14, <1>15, <1>16, <1>17, <1>18, <1>19, <1>20, <1>21, <1>22, <1>23, <1>24, <1>25, <1>26, <1>27, <1>28
     DEF Next, Change, Recovery, World

LEMMA OpenDirectoryStep ==
  /\ TypeInv /\ GoodInv /\ SameWork /\ OwnDirectories /\ OpenDirectory /\ OthersRecorded
  /\ [Next]_vars
  => OpenDirectory'
<1> SUFFICES ASSUME TypeInv, GoodInv, SameWork, OwnDirectories, OpenDirectory, OthersRecorded,
                    [Next]_vars
             PROVE  OpenDirectory'
  OBVIOUS
<1> USE DEF TypeInv, Control, AfterJournal, BeforeSwap, OpenDirectory, Undone, Done,
            Here, Old, New, disk, process, world, Goto, Raise, Return, Delete
<1>1. CASE Start
  BY <1>1 DEF Start
<1>2. CASE Request
  BY <1>2 DEF Request
<1>3. CASE Admit
  BY <1>3 DEF Admit
<1>4. CASE Refuse
  BY <1>4 DEF Refuse
<1>5. CASE Prepare
  <2>1. /\ op.domain \in Domains /\ UNCHANGED <<registry, target, touched>>
        /\ journal' = [id |-> nextId, domain |-> op.domain,
                       before |-> registry, after |-> registry]
        /\ hold' = Absent /\ pc' \in {"stage", "backup"}
    BY <1>5 DEF Prepare, SameWork, OwnDirectories, Work
  <2>2. op.domain \notin touched => TargetAsRecorded(op.domain)
    BY <1>5, <2>1 DEF Prepare, SameWork, OthersRecorded
  <2>3. /\ Old' = CodeOf(registry, op.domain) /\ Here' = target[op.domain]
        /\ journal'.before = registry' /\ journal'.domain = op.domain
    BY <2>1
  <2>4. op.domain \notin touched => Here' = Old'
    BY <2>2, <2>3 DEF TargetAsRecorded
  <2>5. QED
    BY <2>1, <2>3, <2>4
<1>6. CASE OpenStage
  BY <1>6 DEF OpenStage
<1>7. CASE FillStage
  BY <1>7 DEF FillStage
<1>8. CASE RejectArtifact
  BY <1>8 DEF RejectArtifact
<1>9. CASE Backup
  BY <1>9 DEF Backup
<1>10. CASE Plan
  <2>1. /\ hold = Absent /\ registry = journal.before
        /\ journal.domain \notin touched => Here = Old
        /\ UNCHANGED <<registry, target, touched, hold>> /\ pc' = "recheck"
    BY <1>10 DEF Plan, SameWork, OwnDirectories
  <2>2. Here' = Here /\ Old' = Old
    BY <1>10, <2>1, PlanJournal
  <2>3. QED
    BY <1>10, <2>1, <2>2, PlanJournal
<1>11. CASE Recheck
  <2>1. /\ hold = Absent /\ registry = journal.before /\ op.domain = journal.domain
        /\ journal # None /\ UNCHANGED <<disk, touched>>
    BY <1>11 DEF Recheck, SameWork, OwnDirectories
  <2>2. journal.domain \notin touched => Here = Old
    BY <1>11, <2>1 DEF Recheck
  <2>3. pc' = "move_new" => Old = Absent
    BY <1>11, <2>1 DEF Recheck, CodeOf, Current, IsInstalled
  <2>4. pc' \in {"move_old", "move_new", "recover"}
    BY <1>11 DEF Recheck
  <2>5. QED
    BY <2>1, <2>2, <2>3, <2>4
<1>12. CASE MoveOld
  <2>1. /\ hold = Absent /\ registry = journal.before /\ op.domain = journal.domain
        /\ journal # None /\ UNCHANGED <<registry, journal, touched>>
        /\ op.domain \in Domains /\ New = Wanted
    BY <1>12, WorkDomain DEF MoveOld, SameWork, OwnDirectories
  <2>2. journal.domain \notin touched => Here = Old
    BY <1>12, <2>1 DEF MoveOld
  <2>3. CASE target[op.domain] = Absent
    <3>1. pc' = "recover" /\ UNCHANGED <<target, hold>>
      BY <1>12, <2>3 DEF MoveOld
    <3>2. QED
      BY <2>1, <2>2, <3>1
  <2>4. CASE target[op.domain] # Absent
    <3>1. /\ hold' = Here /\ Here' = Absent
          /\ pc' = IF op.action = "remove" THEN "commit" ELSE "move_new"
      BY <1>12, <2>1, <2>4 DEF MoveOld, TypeOK
    <3>2. op.action = "remove" => New = Absent
      BY <2>1 DEF Wanted
    <3>3. QED
      BY <2>1, <2>2, <3>1, <3>2
  <2>5. QED
    BY <2>3, <2>4
<1>13. CASE MoveNew
  <2>1. /\ registry = journal.before /\ op.domain = journal.domain
        /\ journal # None /\ UNCHANGED <<registry, journal, touched, hold>>
        /\ op.domain \in Domains /\ New = Wanted /\ stage = Wanted
        /\ journal.after # journal.before
    BY <1>13, WorkDomain DEF MoveNew, SameWork, OwnDirectories
  <2>2. journal.domain \notin touched => Here = Absent /\ hold = Old
    BY <1>13, <2>1 DEF MoveNew
  <2>3. CASE target[op.domain] # Absent
    <3>1. pc' = "recover" /\ target' = target
      BY <1>13, <2>3 DEF MoveNew
    <3>2. QED
      BY <2>1, <2>2, <3>1
  <2>4. CASE target[op.domain] = Absent
    <3>1. Here' = New /\ pc' = "commit"
      BY <1>13, <2>1, <2>4 DEF MoveNew, TypeOK
    <3>2. QED
      BY <2>1, <2>2, <3>1
  <2>5. QED
    BY <2>3, <2>4
<1>14. CASE Commit
  BY <1>14 DEF Commit
<1>15. CASE Finish
  <2>1. /\ registry = journal.after /\ UNCHANGED <<disk, touched>>
        /\ pc' = "drop_stage" => Here = New
        /\ pc' \in {"drop_hold", "drop_stage", "recover", "off", "idle"}
    BY <1>15 DEF Finish, OwnDirectories
  <2>2. QED
    BY <1>15, <2>1 DEF Finish
<1>16. CASE DropHold
  <2>1. /\ registry = journal.after /\ journal.after # journal.before
        /\ UNCHANGED <<registry, journal, target, touched>>
        /\ \/ hold' = Partial /\ TornDeletes /\ pc' = "drop_hold"
           \/ hold' = Absent /\ pc' = "drop_stage"
    BY <1>16 DEF DropHold, OwnDirectories
  <2>2. journal # None /\ journal.domain \notin touched => Here = New
    BY <1>16, <2>1
  <2>3. QED
    BY <2>1, <2>2
<1>17. CASE DropStage
  BY <1>17 DEF DropStage
<1>18. CASE Unlink
  BY <1>18 DEF Unlink
<1>19. CASE Synced
  BY <1>19 DEF Synced
<1>20. CASE Recover
  <2>1. CASE journal = None
    BY <1>20, <2>1 DEF Recover
  <2>2. CASE journal # None /\ Committed
    <3>1. pc' = "finish" /\ UNCHANGED <<disk, touched>>
      BY <1>20, <2>2 DEF Recover
    <3>2. QED
      BY <1>20, <2>2, <3>1 DEF Recover
  <2>3. CASE journal # None /\ ~Committed
    <3>1. UNCHANGED <<disk, touched>> /\ pc' \in {UndoStep, "off", "idle", "recover"}
      BY <1>20, <2>3 DEF Recover
    <3>2. UndoStep = "drop_stage" => registry = journal.before /\ Here = Old
      BY DEF UndoStep
    <3>3. UndoStep \in {"move_back", "drop_target", "drop_stage", "stuck"}
      BY UndoPlaces
    <3>4. QED
      BY <1>20, <2>3, <3>1, <3>2, <3>3 DEF Recover
  <2>4. QED
    BY <2>1, <2>2, <2>3
<1>21. CASE DropTarget
  <2>1. PICK tree \in {Partial, Absent} :
          /\ Delete(Here, tree, IF hold = Absent THEN "drop_stage" ELSE "move_back")
          /\ target' = [target EXCEPT ![journal.domain] = tree]
    BY <1>21 DEF DropTarget
  <2>2. /\ registry = journal.before /\ hold = Old /\ journal # None
        /\ journal.domain \in Domains
        /\ UNCHANGED <<registry, journal, hold, touched>>
    BY <1>21 DEF DropTarget, OwnDirectories, TypeOK, Transaction
  <2>3. Here' = tree
    BY <2>1, <2>2 DEF TypeOK
  <2>4. \/ tree = Partial /\ TornDeletes /\ pc' = "drop_target"
        \/ tree = Absent /\ pc' = IF hold = Absent THEN "drop_stage" ELSE "move_back"
    BY <1>21, <2>1 DEF DropTarget
  <2>5. QED
    BY <2>2, <2>3, <2>4
<1>22. CASE MoveBack
  <2>1. /\ registry = journal.before /\ hold = Old /\ journal # None
        /\ journal.domain \in Domains
        /\ UNCHANGED <<registry, journal, touched>>
    BY <1>22 DEF MoveBack, OwnDirectories, TypeOK, Transaction
  <2>2. CASE Here # Absent
    BY <1>22, <2>1, <2>2 DEF MoveBack
  <2>3. CASE Here = Absent
    <3>1. Here' = Old /\ hold' = Absent /\ pc' = "drop_stage"
      BY <1>22, <2>1, <2>3 DEF MoveBack, TypeOK
    <3>2. QED
      BY <2>1, <3>1
  <2>4. QED
    BY <2>2, <2>3
<1>23. CASE Crash
  BY <1>23 DEF Crash
<1>24. CASE Fault
  BY <1>24 DEF Fault
<1>25. CASE EarlyFault
  BY <1>25 DEF EarlyFault
<1>26. CASE UserWrites
  BY <1>26 DEF UserWrites
<1>27. CASE ConfigEntryChanges
  BY <1>27 DEF ConfigEntryChanges
<1>28. CASE UNCHANGED vars
  BY <1>28 DEF vars
<1>29. QED
  BY <1>1, <1>2, <1>3, <1>4, <1>5, <1>6, <1>7, <1>8, <1>9, <1>10, <1>11, <1>12, <1>13, <1>14, <1>15, <1>16, <1>17, <1>18, <1>19, <1>20, <1>21, <1>22, <1>23, <1>24, <1>25, <1>26, <1>27, <1>28
     DEF Next, Change, Recovery, World

LEMMA EntriesStep ==
  TypeInv /\ SameWork /\ EntriesInv /\ [Next]_vars => EntriesInv'
<1> SUFFICES ASSUME TypeInv, SameWork, EntriesInv, [Next]_vars
             PROVE  EntriesInv'
  OBVIOUS
<1> USE DEF EntriesInv, SameWork, AfterJournal, disk, process, world, Goto, Raise, Return, Delete
<1>1. CASE Start
  BY <1>1 DEF Start
<1>2. CASE Request
  BY <1>2 DEF Request
<1>3. CASE Admit
  BY <1>3 DEF Admit
<1>4. CASE Refuse
  BY <1>4 DEF Refuse
<1>5. CASE Prepare
  BY <1>5 DEF Prepare
<1>6. CASE OpenStage
  BY <1>6 DEF OpenStage
<1>7. CASE FillStage
  BY <1>7 DEF FillStage
<1>8. CASE RejectArtifact
  BY <1>8 DEF RejectArtifact
<1>9. CASE Backup
  BY <1>9 DEF Backup
<1>10. CASE Plan
  BY <1>10 DEF Plan
<1>11. CASE Recheck
  BY <1>11 DEF Recheck
<1>12. CASE MoveOld
  BY <1>12 DEF MoveOld
<1>13. CASE MoveNew
  BY <1>13 DEF MoveNew
<1>14. CASE Commit
  BY <1>14 DEF Commit
<1>15. CASE Finish
  BY <1>15 DEF Finish
<1>16. CASE DropHold
  BY <1>16 DEF DropHold
<1>17. CASE DropStage
  BY <1>17 DEF DropStage
<1>18. CASE Unlink
  BY <1>18 DEF Unlink
<1>19. CASE Synced
  BY <1>19 DEF Synced
<1>20. CASE Recover
  BY <1>20, UndoPlaces DEF Recover
<1>21. CASE DropTarget
  BY <1>21 DEF DropTarget
<1>22. CASE MoveBack
  BY <1>22 DEF MoveBack
<1>23. CASE Crash
  BY <1>23 DEF Crash
<1>24. CASE Fault
  BY <1>24 DEF Fault
<1>25. CASE EarlyFault
  BY <1>25 DEF EarlyFault
<1>26. CASE UserWrites
  BY <1>26 DEF UserWrites
<1>27. CASE ConfigEntryChanges
  BY <1>27 DEF ConfigEntryChanges
<1>28. CASE UNCHANGED vars
  BY <1>28 DEF vars
<1>29. QED
  BY <1>1, <1>2, <1>3, <1>4, <1>5, <1>6, <1>7, <1>8, <1>9, <1>10, <1>11, <1>12, <1>13, <1>14, <1>15, <1>16, <1>17, <1>18, <1>19, <1>20, <1>21, <1>22, <1>23, <1>24, <1>25, <1>26, <1>27, <1>28
     DEF Next, Change, Recovery, World

-----------------------------------------------------------------------------
FullInv == IInv /\ DirInv /\ EntriesInv

LEMMA FullInvariance == Spec => []FullInv
<1>1. Init => DirInv /\ EntriesInv
  BY DirInit DEF Init, EntriesInv
<1>2. IInv /\ DirInv /\ [Next]_vars => DirInv'
  BY SameWorkStep, OwnDirectoriesStep, OthersRecordedStep, OpenDirectoryStep
     DEF IInv, DirInv
<1>3. IInv /\ DirInv /\ EntriesInv /\ [Next]_vars => EntriesInv'
  BY EntriesStep DEF IInv, DirInv
<1>4. QED
  BY <1>1, <1>2, <1>3, Invariance, PTL DEF Spec, FullInv

\* Whatever was killed or failed: every directory nobody else wrote to is exactly what
\* the registry records; in that of an open transaction the code the registry calls
\* installed is complete, in its place or in the hold directory; and no transaction,
\* no stage or hold directory.
THEOREM FilesAlwaysMatch == Spec => []FilesMatchRegistry
<1>1. FullInv => FilesMatchRegistry
  <2> SUFFICES ASSUME FullInv PROVE FilesMatchRegistry
    OBVIOUS
  <2>1. journal = None => stage = Absent /\ hold = Absent
    BY DEF FullInv, DirInv, OwnDirectories
  <2>2. \A d \in Domains \ touched : journal = None \/ journal.domain # d => TargetAsRecorded(d)
    BY DEF FullInv, DirInv, OthersRecorded
  <2>3. ASSUME journal # None, journal.domain \in Domains \ touched,
               IsInstalled(registry, journal.domain)
        PROVE  \/ TargetAsRecorded(journal.domain)
               \/ hold = CodeOf(registry, journal.domain)
    BY <2>3 DEF FullInv, DirInv, OpenDirectory, Undone, Done, Here, Old, New, TargetAsRecorded
  <2>4. QED
    BY <2>1, <2>2, <2>3 DEF FilesMatchRegistry
<1>2. QED
  BY <1>1, FullInvariance, PTL

\* The Manager deletes no code it did not verify as its own: foreign code stays where
\* it is, or is carried between its place and the hold directory.
THEOREM ForeignCodeIsKept == Spec => ForeignCodeKept
<1> DEFINE Kept == /\ \A d \in Domains : target[d] = Foreign =>
                        target'[d] = Foreign \/ hold' = Foreign
                   /\ hold = Foreign => hold' = Foreign
<1>1. FullInv /\ [Next]_vars => [UserWrites \/ Kept]_vars
  <2> SUFFICES ASSUME FullInv, Next, ~UserWrites PROVE Kept
    OBVIOUS
  <2> USE DEF FullInv, DirInv, IInv, TypeInv
  <2>1. CASE UNCHANGED <<target, hold>>
    BY <2>1
  <2>2. CASE MoveOld
    <3>1. hold = Absent
      BY <2>2 DEF MoveOld, OwnDirectories, BeforeSwap
    <3>2. QED
      BY <2>2, <3>1, TreesAssumption DEF MoveOld, TypeOK
  <2>3. CASE MoveNew
    BY <2>3, TreesAssumption DEF MoveNew, TypeOK
  <2>4. CASE DropHold
    <3>1. hold \in Releases \union {Partial, Absent} /\ target' = target
      <4>1. journal \in Transaction /\ hold \in {Old, Partial, Absent}
        BY <2>4 DEF DropHold, OwnDirectories, TypeOK, Control
      <4>2. Old \in Releases \union {Absent}
        BY <4>1 DEF Old, CodeOf, IsInstalled, Transaction, Registry, Entry
      <4>3. QED
        BY <2>4, <4>1, <4>2 DEF DropHold
    <3>2. QED
      BY <3>1, TreesAssumption
  <2>5. CASE DropTarget
    <3>1. journal \in Transaction /\ Here \in {New, Partial} /\ hold' = hold
      BY <2>5 DEF DropTarget, OwnDirectories, TypeOK, Control
    <3>2. New \in Releases \union {Absent}
      BY <3>1 DEF New, CodeOf, IsInstalled, Transaction, Registry, Entry
    <3>3. Here # Foreign
      BY <3>1, <3>2, TreesAssumption
    <3>4. \A d \in Domains \ {journal.domain} : target'[d] = target[d]
      BY <2>5 DEF DropTarget, TypeOK
    <3>5. QED
      BY <3>1, <3>3, <3>4 DEF Here
  <2>6. CASE MoveBack
    <3>1. journal \in Transaction /\ hold = Old
      BY <2>6 DEF MoveBack, OwnDirectories, TypeOK, Control
    <3>2. hold # Foreign
      BY <3>1, TreesAssumption DEF Old, CodeOf, IsInstalled, Transaction, Registry, Entry
    <3>3. \A d \in Domains : target'[d] = target[d] \/ target[d] = Absent
      BY <2>6 DEF MoveBack, TypeOK
    <3>4. QED
      BY <3>2, <3>3, TreesAssumption
  <2>7. QED
    BY <2>1, <2>2, <2>3, <2>4, <2>5, <2>6
       DEF Next, Change, Recovery, World, disk, Start, Request, Admit, Refuse, Prepare,
           OpenStage, FillStage, RejectArtifact, Backup, Plan, Recheck, Commit, Finish,
           DropStage, Unlink, Synced, Recover, Crash, Fault, EarlyFault, ConfigEntryChanges
<1>2. QED
  BY <1>1, FullInvariance, PTL DEF Spec, ForeignCodeKept

\* An operation that reports success has committed what was asked for, left the code
\* in place and cleaned up, whatever failed or was undone before it.
THEOREM SuccessIsAlwaysComplete == Spec => SuccessIsComplete
<1> DEFINE Complete ==
      /\ journal' = None /\ hold' = Absent /\ stage' = Absent
      /\ CodeOf(registry', op.domain) = (IF op.action = "remove" THEN Absent ELSE op.release)
      /\ op.domain \notin touched => target'[op.domain] = CodeOf(registry', op.domain)
<1>1. FullInv /\ [Next]_vars =>
        [operation' = "succeeded" /\ operation # "succeeded" => Complete]_vars
  <2> SUFFICES ASSUME FullInv, Next, operation' = "succeeded", operation # "succeeded"
               PROVE  Complete
    OBVIOUS
  <2> USE DEF FullInv, DirInv, IInv, TypeInv, Control
  <2>1. Synced /\ ctx = "change"
    BY DEF Next, Change, Recovery, World, disk, process, world, Goto, Raise, Return, Delete,
           Start, Request, Admit, Refuse, Prepare, OpenStage, FillStage, RejectArtifact,
           Backup, Plan, Recheck, MoveOld, MoveNew, Commit, Finish, DropHold, DropStage,
           Unlink, Synced, Recover, DropTarget, MoveBack, Crash, Fault, EarlyFault,
           UserWrites, ConfigEntryChanges
  <2>2. /\ journal = None /\ hold = Absent /\ stage = Absent /\ UNCHANGED disk
        /\ CodeOf(registry, op.domain) = Wanted /\ op \in Work
    BY <2>1 DEF Synced, SameWork, OwnDirectories
  <2>3. op.domain \in Domains
    BY <2>2 DEF Work
  <2>4. op.domain \notin touched => target[op.domain] = CodeOf(registry, op.domain)
    BY <2>2, <2>3 DEF OthersRecorded, TargetAsRecorded
  <2>5. QED
    BY <2>2, <2>4 DEF disk, Wanted
<1>2. QED
  BY <1>1, FullInvariance, PTL DEF Spec, SuccessIsComplete

\* While Home Assistant creates no configuration entry between the last look of a
\* removal and its commit, a removal never takes the code of an entry away.
THEOREM NeverRemovesUsedCode ==
  ASSUME ConfigEntries # "any_time" PROVE Spec => NeverRemovesConfigured
<1>1. FullInv /\ [Next]_vars =>
        [\A d \in Domains :
           IsInstalled(registry, d) /\ registry'.installed[d] = None => d \notin configured]_vars
  <2> SUFFICES ASSUME FullInv, Next, NEW d \in Domains, IsInstalled(registry, d),
                      registry'.installed[d] = None
               PROVE  d \notin configured
    OBVIOUS
  <2> USE DEF FullInv, DirInv, IInv, TypeInv
  <2>1. registry' # registry
    BY DEF IsInstalled
  <2>2. Commit
    BY <2>1 DEF Next, Change, Recovery, World, disk,
           Start, Request, Admit, Refuse, Prepare, OpenStage, FillStage, RejectArtifact,
           Backup, Plan, Recheck, MoveOld, MoveNew, Finish, DropHold, DropStage,
           Unlink, Synced, Recover, DropTarget, MoveBack, Crash, Fault, EarlyFault,
           UserWrites, ConfigEntryChanges
  <2>3. /\ op \in Work /\ op.domain \in Domains /\ registry \in Registry /\ journal.id \in Nat
        /\ registry' = Planned(journal.id)
    BY <2>2, WorkDomain DEF Commit, AfterJournal, GoodInv
  <2>4. CASE op.action = "remove"
    <3>1. op.domain \notin configured
      BY <2>2, <2>4 DEF Commit, EntriesInv
    <3>2. d = op.domain
      BY <2>3, <2>4, RemoveEffect DEF Planned, IsInstalled
    <3>3. QED
      BY <3>1, <3>2
  <2>5. CASE op.action # "remove"
    <3>1. op.release \in Releases
      BY <2>3, <2>5 DEF Work
    <3>2. registry' = AfterInstall(registry, op.domain, op.release, journal.id)
      BY <2>3, <2>5 DEF Planned
    <3>3. IsInstalled(registry', d)
      BY <2>3, <3>1, <3>2, InstallEffect DEF IsInstalled
    <3>4. QED
      BY <3>3 DEF IsInstalled
  <2>6. QED
    BY <2>4, <2>5
<1>2. QED
  BY <1>1, FullInvariance, PTL DEF Spec, NeverRemovesConfigured

\* Where a deletion is never interrupted half way, recovery keeps what
\* docs/catalog.md:181 promises: no interrupted transaction is stuck.  So the torn
\* deletion that the run engine_torn_delete shows is the only way to be.
THEOREM OnlyTornDeletesStick ==
  ASSUME ~TornDeletes PROVE Spec => []InterruptedRecovers
<1>1. FullInv => InterruptedRecovers
  <2> SUFFICES ASSUME FullInv, journal # None, touched = {}
               PROVE  IF Committed
                        THEN hold \in {Absent, CodeOf(journal.before, journal.domain)}
                        ELSE UndoStep # "stuck"
    BY DEF InterruptedRecovers
  <2> USE DEF FullInv, DirInv, OpenDirectory, Old, New, Here
  <2>1. Undone \/ Done
    OBVIOUS
  <2>2. CASE Done
    BY <2>2 DEF Done, Committed
  <2>3. CASE Undone
    BY <2>3 DEF Undone, Committed, UndoStep
  <2>4. QED
    BY <2>1, <2>2, <2>3
<1>2. QED
  BY <1>1, FullInvariance, PTL
=============================================================================
