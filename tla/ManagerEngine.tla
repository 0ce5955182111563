------------------------------- MODULE ManagerEngine -------------------------------
(***************************************************************************)
(* The transactional core of the HAHAPent Manager (manager/hahapent/       *)
(* engine.py): install, rollback and remove, the journal they write, the   *)
(* directories they swap, and the recovery that runs before every          *)
(* operation and at every start.                                           *)
(*                                                                         *)
(* A directory is abstracted to what verify_tree can tell: it is absent,   *)
(* it holds exactly the files of a release, it holds a part of them        *)
(* (extraction, copy or shutil.rmtree stopped half way), or it is foreign: *)
(* anything else a person or another tool put there.                       *)
(*                                                                         *)
(* The Manager runs one handler at a time (_serialized); pc is the place   *)
(* in it between two effects on the disk, and ctx says who called          *)
(* _recover or _finish.  A crash may fall at every such place.             *)
(***************************************************************************)
EXTENDS ModuleRegistry

CONSTANTS
  Absent, Partial, Foreign,   \* the directories that hold no whole release
  \* Bounds and environment of an instance:
  MaxTransactions,  \* transactions the engine starts (uuid4 values it draws)
  MaxCrashes,       \* times the process is killed
  MaxFaults,        \* OSErrors: full disk, failed fsync, failed rename
  TornDeletes,      \* a crash or an error may stop shutil.rmtree half way
  Users,            \* people may write in custom_components themselves
  ConfigEntries     \* "never", "until_recheck" or "any_time": when Home
                    \* Assistant configuration entries come and go

ASSUME TreesAssumption ==
  /\ Absent \notin Releases /\ Partial \notin Releases /\ Foreign \notin Releases
  /\ Absent # Partial /\ Absent # Foreign /\ Partial # Foreign
  /\ None \notin {Absent, Partial, Foreign}

ASSUME BoundsAssumption ==
  /\ MaxTransactions \in Nat /\ MaxCrashes \in Nat /\ MaxFaults \in Nat
  /\ TornDeletes \in BOOLEAN /\ Users \in BOOLEAN
  /\ ConfigEntries \in {"never", "until_recheck", "any_time"}

VARIABLES
  \* On disk:
  registry,    \* registry.json
  journal,     \* transaction.json, or None
  target,      \* custom_components/<domain>
  stage, hold, \* .hahapent-stage-<id>, .hahapent-hold-<id> of the transaction
  backups,     \* /data/backups/<id>
  nextId,      \* the next fresh transaction id
  \* In the process:
  pc, ctx,     \* the place in the handler; the caller of the recovery code
  op,          \* arguments of the running operation
  operation,   \* Manager.operation["state"]
  recovery,    \* Manager.recovery["state"]
  \* Around it:
  configured,  \* domains with a Home Assistant configuration entry
  touched,     \* history: domains whose directory a person has written to
  crashes, faults

disk == <<registry, journal, target, stage, hold, backups, nextId>>
process == <<pc, ctx, op, operation, recovery>>
world == <<configured, touched, crashes, faults>>
vars == <<disk, process, world>>

Tree == Releases \union {Absent, Partial, Foreign}

Requests ==
  [action : {"install"}, domain : Domains, release : Releases] \union
  [action : {"rollback", "remove"}, domain : Domains, release : {None}]

\* An admitted operation: the release is known, except for a removal.
Work == [action : {"install", "rollback"}, domain : Domains, release : Releases]
          \union [action : {"remove"}, domain : Domains, release : {None}]

\* Registry as the transaction found it and as it will leave it.  While the
\* journal is "prepared" the two are equal.
Transaction == [id : Nat, domain : Domains, before : Registry, after : Registry]

ASSUME NoTransactionAssumption == 
  None \notin Transaction /\ None \notin Requests /\ None \notin Work

Current == registry.installed[op.domain]

\* The directory content a registry claims for a domain.
CodeOf(reg, d) == IF IsInstalled(reg, d) THEN reg.installed[d].release ELSE Absent

StageSteps == {"prepare", "stage", "backup", "plan"}
SwapSteps == {"recheck", "move_old", "move_new", "commit"}
FinishSteps == {"finish", "drop_hold", "drop_stage", "unlink", "synced"}
RecoverSteps == {"recover", "drop_target", "move_back"}

Places ==
  {"off", "idle", "admit"} \union StageSteps \union SwapSteps \union FinishSteps
    \union RecoverSteps

Init ==
  /\ registry = EmptyRegistry
  /\ journal = None
  /\ target = [d \in Domains |-> Absent]
  /\ stage = Absent /\ hold = Absent
  /\ backups = [i \in 1..MaxTransactions |-> Absent]
  /\ nextId = 1
  /\ pc = "off" /\ ctx = "none" /\ op = None
  /\ operation = "idle" /\ recovery = "clean"
  /\ configured = {} /\ touched = {}
  /\ crashes = 0 /\ faults = 0

-----------------------------------------------------------------------------
(* How a handler goes on, and how it fails.                                 *)

Goto(place) == pc' = place /\ UNCHANGED <<ctx, op, operation, recovery>>

\* A ManagerError or OSError leaves the running code: _change catches it and
\* recovers; a failing recovery stops the start, refuses the operation, or, when
\* _change called it, is reported as "required".
Raise ==
  /\ pc' = CASE ctx = "change" -> "recover"
             [] ctx = "start"  -> "off"
             [] OTHER          -> "idle"
  /\ ctx' = IF ctx = "change" THEN "undo" ELSE "none"
  /\ op' = IF ctx = "change" THEN op ELSE None
  /\ operation' = IF ctx = "undo" THEN "failed" ELSE operation
  /\ recovery' = IF ctx = "undo" THEN "required" ELSE recovery

\* Recovery is over, or found nothing to do: its caller goes on.
Return ==
  /\ pc' = IF ctx = "op" THEN "admit" ELSE "idle"
  /\ ctx' = "none"
  /\ op' = IF ctx = "op" THEN op ELSE None
  /\ operation' = CASE ctx = "change" -> "succeeded"
                    [] ctx = "undo"   -> "failed"
                    [] OTHER          -> operation

\* shutil.rmtree: the tree is gone in one step, or passes through a partial one.
Delete(tree, tree_next, next) ==
  \/ /\ TornDeletes /\ tree # Partial
     /\ tree_next = Partial
     /\ UNCHANGED process
  \/ /\ ~TornDeletes \/ tree = Partial
     /\ tree_next = Absent
     /\ Goto(next)

-----------------------------------------------------------------------------
(* Starting an operation.                                                   *)

\* Manager.__init__: load the state, recover, then serve.
Start ==
  /\ pc = "off"
  /\ pc' = "recover" /\ ctx' = "start"
  /\ UNCHANGED <<disk, op, operation, recovery, world>>

\* A handler is entered; every one of them recovers first.
Request ==
  /\ pc = "idle"
  /\ \E request \in Requests :
       /\ request.action = "install" => request.domain = DomainOf[request.release]
       /\ op' = request
  /\ pc' = "recover" /\ ctx' = "op"
  /\ UNCHANGED <<disk, operation, recovery, world>>

\* _check_target: owned code is as recorded, or there is nothing at all.
TargetAsRecorded(d) == target[d] = CodeOf(registry, d)

\* _check_dependencies also verifies the tree of the dependencies it found.
DependencyTreesVerified(release, replacing) ==
  \A need \in Needs[release] :
    \A d \in Domains \ {replacing} :
      Provides(registry, d, need) => TargetAsRecorded(d)

\* What install, rollback and remove ask of the registry.
Allowed ==
  /\ op.action = "install" => CanInstall(registry, op.release)
  /\ op.action = "rollback" => CanRollback(registry, op.domain)
  /\ op.action = "remove" => CanRemove(registry, op.domain)

\* What they ask of the directories, the backup and Home Assistant.
Verified ==
  /\ TargetAsRecorded(op.domain)
  /\ op.action = "install" => DependencyTreesVerified(op.release, op.domain)
  /\ op.action = "rollback" =>
       LET saved == SavedFor(registry, op.domain)
       IN /\ DependencyTreesVerified(saved.release, op.domain)
          /\ backups[saved.backup] = saved.release
  /\ op.action = "remove" => op.domain \notin configured

\* All the checks of install, rollback or remove pass and _change begins.
Admit ==
  /\ pc = "admit"
  /\ nextId <= MaxTransactions
  /\ Allowed /\ Verified
  /\ op' = IF op.action = "rollback"
             THEN [op EXCEPT !.release = SavedFor(registry, op.domain).release]
             ELSE op
  /\ pc' = "prepare" /\ ctx' = "change"
  /\ operation' = "running"
  /\ UNCHANGED <<disk, recovery, world>>

\* Any check fails, or a catalog, Home Assistant or the download is not available.
Refuse ==
  /\ pc = "admit"
  /\ pc' = "idle" /\ op' = None
  /\ operation' \in IF op.action = "install" THEN {operation, "failed"} ELSE {operation}
  /\ UNCHANGED <<disk, ctx, recovery, world>>

-----------------------------------------------------------------------------
(* _change, in the order of its effects.                                    *)

\* The journal is written before anything else exists on the disk.
Prepare ==
  /\ pc = "prepare"
  /\ journal' = [id |-> nextId, domain |-> op.domain,
                 before |-> registry, after |-> registry]
  /\ nextId' = nextId + 1
  /\ Goto(IF op.action = "remove" THEN "backup" ELSE "stage")
  /\ UNCHANGED <<registry, target, stage, hold, backups, world>>

\* The stage directory is created and being filled.
OpenStage ==
  /\ pc = "stage" /\ stage = Absent
  /\ stage' = Partial
  /\ UNCHANGED <<registry, journal, target, hold, backups, nextId, process, world>>

\* extract_artifact, or copy_owned from the backup; then hash_tree and sync_tree.
FillStage ==
  /\ pc = "stage" /\ stage = Partial
  /\ op.action = "rollback" => backups[SavedFor(registry, op.domain).backup] = op.release
  /\ stage' = op.release
  /\ Goto("backup")
  /\ UNCHANGED <<registry, journal, target, hold, backups, nextId, world>>

\* The archive is not what its catalog promised, the backup is damaged, or the
\* manifest names a native dependency nobody declared.
RejectArtifact ==
  /\ pc = "stage" /\ stage = Partial
  /\ Raise
  /\ UNCHANGED <<disk, world>>

\* Faulty Backup: the copy is not completed before the transaction goes on.
BackupUnfinished ==
  /\ pc = "backup"
  /\ IF Current = None
       THEN UNCHANGED backups
       ELSE backups' = [backups EXCEPT ![journal.id] = Partial]
  /\ Goto("plan")
  /\ UNCHANGED <<registry, journal, target, stage, hold, nextId, world>>

\* copy_owned of the current code into backups/<transaction id>.
Backup ==
  /\ pc = "backup"
  /\ \/ /\ Current = None
        /\ Goto("plan")
        /\ UNCHANGED backups
     \/ /\ Current # None /\ ~TargetAsRecorded(op.domain)
        /\ Raise
        /\ UNCHANGED backups
     \/ /\ Current # None /\ TargetAsRecorded(op.domain)
        /\ backups[journal.id] = Absent
        /\ backups' = [backups EXCEPT ![journal.id] = Partial]
        /\ UNCHANGED process
     \/ /\ Current # None /\ TargetAsRecorded(op.domain)
        /\ backups[journal.id] = Partial
        /\ backups' = [backups EXCEPT ![journal.id] = Current.release]
        /\ Goto("plan")
  /\ UNCHANGED <<registry, journal, target, stage, hold, nextId, world>>

\* The registry this operation is about to commit.
Planned(id) ==
  IF op.action = "remove"
    THEN AfterRemove(registry, op.domain, id)
    ELSE AfterInstall(registry, op.domain, op.release, id)

\* Journal "staged": the registry the transaction will commit is recorded.
Plan ==
  /\ pc = "plan"
  /\ journal' = [journal EXCEPT !.after = Planned(journal.id)]
  /\ Goto("recheck")
  /\ UNCHANGED <<registry, target, stage, hold, backups, nextId, world>>

\* Faulty Recheck: the configuration entries are not asked for again.
RecheckTargetOnly ==
  /\ pc = "recheck"
  /\ IF TargetAsRecorded(op.domain)
       THEN Goto(IF Current # None THEN "move_old" ELSE "move_new")
       ELSE Raise
  /\ UNCHANGED <<disk, world>>

\* The last look before the swap: target, and for a removal the config entries.
Recheck ==
  /\ pc = "recheck"
  /\ IF /\ TargetAsRecorded(op.domain)
        /\ op.action = "remove" => op.domain \notin configured
       THEN Goto(IF Current # None THEN "move_old" ELSE "move_new")
       ELSE Raise
  /\ UNCHANGED <<disk, world>>

\* os.replace(target, hold); it fails when somebody took the target away.
MoveOld ==
  /\ pc = "move_old"
  /\ IF target[op.domain] = Absent
       THEN Raise /\ UNCHANGED <<target, hold>>
       ELSE /\ hold' = target[op.domain]
            /\ target' = [target EXCEPT ![op.domain] = Absent]
            /\ Goto(IF op.action = "remove" THEN "commit" ELSE "move_new")
  /\ UNCHANGED <<registry, journal, stage, backups, nextId, world>>

\* os.replace(stage, target); it fails on a directory that is not empty.
MoveNew ==
  /\ pc = "move_new"
  /\ IF target[op.domain] # Absent
       THEN Raise /\ UNCHANGED <<target, stage>>
       ELSE /\ target' = [target EXCEPT ![op.domain] = stage]
            /\ stage' = Absent
            /\ Goto("commit")
  /\ UNCHANGED <<registry, journal, hold, backups, nextId, world>>

\* atomic_json(registry_path, after): the commit point.
Commit ==
  /\ pc = "commit"
  /\ registry' = journal.after
  /\ Goto("finish")
  /\ UNCHANGED <<journal, target, stage, hold, backups, nextId, world>>

-----------------------------------------------------------------------------
(* _finish: verify what was committed, drop the old code, stage and journal. *)

\* Faulty Finish: a committed transaction forgets the hold directory.
FinishWithoutHold ==
  /\ pc = "finish"
  /\ IF target[journal.domain] = CodeOf(journal.after, journal.domain)
       THEN Goto("drop_stage")
       ELSE Raise
  /\ UNCHANGED <<disk, world>>

\* Faulty Finish: what is in the hold directory is deleted unverified.
FinishUnverifiedHold ==
  /\ pc = "finish"
  /\ IF target[journal.domain] = CodeOf(journal.after, journal.domain)
       THEN Goto(IF hold = Absent THEN "drop_stage" ELSE "drop_hold")
       ELSE Raise
  /\ UNCHANGED <<disk, world>>

Finish ==
  /\ pc = "finish"
  /\ IF /\ target[journal.domain] = CodeOf(journal.after, journal.domain)
        /\ hold \in {Absent, CodeOf(journal.before, journal.domain)}
       THEN Goto(IF hold = Absent THEN "drop_stage" ELSE "drop_hold")
       ELSE Raise
  /\ UNCHANGED <<disk, world>>

DropHold ==
  /\ pc = "drop_hold"
  /\ Delete(hold, hold', "drop_stage")
  /\ UNCHANGED <<registry, journal, target, stage, backups, nextId, world>>

\* Faulty DropStage: the stage must be the complete release to be deleted.
DropStageWhole ==
  /\ pc = "drop_stage"
  /\ \/ /\ stage = Absent
        /\ Goto("unlink")
        /\ UNCHANGED stage
     \/ stage \in Releases /\ Delete(stage, stage', "unlink")
     \/ stage = Partial /\ Raise /\ UNCHANGED stage
  /\ UNCHANGED <<registry, journal, target, hold, backups, nextId, world>>

\* _remove_stage hashes the stage anew, so a partial one is no obstacle.
DropStage ==
  /\ pc = "drop_stage"
  /\ \/ /\ stage = Absent
        /\ Goto("unlink")
        /\ UNCHANGED stage
     \/ stage # Absent /\ Delete(stage, stage', "unlink")
  /\ UNCHANGED <<registry, journal, target, hold, backups, nextId, world>>

Unlink ==
  /\ pc = "unlink"
  /\ journal' = None
  /\ Goto("synced")
  /\ UNCHANGED <<registry, target, stage, hold, backups, nextId, world>>

\* fsync_dir(data) succeeded: the transaction is over.
Synced ==
  /\ pc = "synced"
  /\ Return
  /\ recovery' = IF ctx = "change" THEN recovery ELSE "recovered"
  /\ UNCHANGED <<disk, world>>

-----------------------------------------------------------------------------
(* _recover.                                                                *)

Committed == registry = journal.after /\ journal.after # journal.before

\* What the code finds in place of an uncommitted change, and what it does next.
UndoStep ==
  LET d == journal.domain
      old == CodeOf(journal.before, d)
      new == CodeOf(journal.after, d)
      mayDropTarget == journal.after # journal.before /\ new # Absent /\ target[d] = new
  IN IF registry # journal.before
       THEN "stuck"
       ELSE CASE hold # Absent /\ hold = old /\ target[d] = Absent -> "move_back"
              [] hold # Absent /\ hold = old /\ mayDropTarget -> "drop_target"
              [] hold = Absent /\ target[d] = old -> "drop_stage"
              [] hold = Absent /\ old = Absent /\ mayDropTarget -> "drop_target"
              [] OTHER -> "stuck"

Recover ==
  /\ pc = "recover"
  /\ \/ /\ journal = None
        /\ Return
        /\ UNCHANGED recovery
     \/ /\ journal # None /\ Committed
        /\ Goto("finish")
     \/ /\ journal # None /\ ~Committed
        /\ IF UndoStep = "stuck" THEN Raise ELSE Goto(UndoStep)
  /\ UNCHANGED <<disk, world>>

\* Faulty DropTarget: the old code stays in the hold directory.
DropTargetOnly ==
  /\ pc = "drop_target"
  /\ \E tree \in {Partial, Absent} :
       /\ Delete(target[journal.domain], tree, "drop_stage")
       /\ target' = [target EXCEPT ![journal.domain] = tree]
  /\ UNCHANGED <<registry, journal, stage, hold, backups, nextId, world>>

\* remove_owned(target, after.files): the uncommitted new code goes.
DropTarget ==
  /\ pc = "drop_target"
  /\ \E tree \in {Partial, Absent} :
       /\ Delete(target[journal.domain], tree,
                 IF hold = Absent THEN "drop_stage" ELSE "move_back")
       /\ target' = [target EXCEPT ![journal.domain] = tree]
  /\ UNCHANGED <<registry, journal, stage, hold, backups, nextId, world>>

\* os.replace(hold, target): the old code returns.
MoveBack ==
  /\ pc = "move_back"
  /\ IF target[journal.domain] # Absent
       THEN Raise /\ UNCHANGED <<target, hold>>
       ELSE /\ target' = [target EXCEPT ![journal.domain] = hold]
            /\ hold' = Absent
            /\ Goto("drop_stage")
  /\ UNCHANGED <<registry, journal, stage, backups, nextId, world>>

-----------------------------------------------------------------------------
(* The world around the engine.                                             *)

\* The App is killed, or the machine loses power: the process memory is gone.
Crash ==
  /\ pc # "off" /\ crashes < MaxCrashes
  /\ crashes' = crashes + 1
  /\ pc' = "off" /\ ctx' = "none" /\ op' = None
  /\ operation' = "idle" /\ recovery' = "clean"
  /\ UNCHANGED <<disk, configured, touched, faults>>

\* The next effect on the disk fails.  An error after an effect (a failed fsync)
\* is the error before the effect that follows.
Fault ==
  /\ pc \notin {"off", "idle", "admit"} /\ faults < MaxFaults
  /\ faults' = faults + 1
  /\ Raise
  /\ UNCHANGED <<disk, configured, touched, crashes>>

\* An error between the checks and the first journal write is outside the try of
\* _change: only install turns it into a failed operation.
EarlyFault ==
  /\ pc = "prepare" /\ faults < MaxFaults
  /\ faults' = faults + 1
  /\ pc' = "idle" /\ ctx' = "none" /\ op' = None
  /\ operation' = IF op.action = "install" THEN "failed" ELSE operation
  /\ UNCHANGED <<disk, recovery, configured, touched, crashes>>

\* A person adds, edits or deletes the directory of a domain.  The moment between
\* the verification and the deletion of one tree by remove_owned is left out.
UserWrites ==
  /\ Users
  /\ \E d \in Domains, tree \in {Absent, Foreign} :
       /\ pc = "drop_target" => d # journal.domain
       /\ tree # target[d]
       /\ target' = [target EXCEPT ![d] = tree]
       /\ touched' = touched \union {d}
  /\ UNCHANGED <<registry, journal, stage, hold, backups, nextId,
                 process, configured, crashes, faults>>

\* A configuration entry is created or deleted in Home Assistant.
ConfigEntryChanges ==
  /\ \/ ConfigEntries = "any_time"
     \/ ConfigEntries = "until_recheck" /\ pc \notin {"move_old", "commit"}
  /\ \E d \in Domains :
       configured' = IF d \in configured THEN configured \ {d} ELSE configured \union {d}
  /\ UNCHANGED <<disk, process, touched, crashes, faults>>

Change == Prepare \/ OpenStage \/ FillStage \/ RejectArtifact \/ Backup \/ Plan
            \/ Recheck \/ MoveOld \/ MoveNew \/ Commit

Recovery == Finish \/ DropHold \/ DropStage \/ Unlink \/ Synced \/ Recover
              \/ DropTarget \/ MoveBack

World == Crash \/ Fault \/ EarlyFault \/ UserWrites \/ ConfigEntryChanges

Next == Start \/ Request \/ Admit \/ Refuse \/ Change \/ Recovery \/ World

Spec == Init /\ [][Next]_vars

\* The Supervisor restarts the App and a handler that began runs to its end.
FairSpec == Spec /\ WF_vars(Start) /\ WF_vars(Admit \/ Refuse)
                 /\ WF_vars(Change) /\ WF_vars(Recovery)

-----------------------------------------------------------------------------
(* What the engine promises.                                                *)

TypeOK ==
  /\ registry \in Registry
  /\ journal \in Transaction \union {None}
  /\ target \in [Domains -> Tree]
  /\ stage \in Tree /\ hold \in Tree
  /\ backups \in [1..MaxTransactions -> Tree]
  /\ nextId \in 1..(MaxTransactions + 1)
  /\ pc \in Places
  /\ ctx \in {"none", "start", "op", "change", "undo"}
  /\ op \in Requests \union Work \union {None}
  /\ operation \in {"idle", "running", "succeeded", "failed"}
  /\ recovery \in {"clean", "recovered", "required"}
  /\ configured \subseteq Domains /\ touched \subseteq Domains
  /\ crashes \in 0..MaxCrashes /\ faults \in 0..MaxFaults

\* Outside the domain of an open transaction, the directories nobody else wrote to
\* are exactly what the registry records, whatever crashed or failed before; in it,
\* the code the registry calls installed is never lost, even half way through a swap
\* or a recovery: it is complete in its place or in the hold directory; and when no
\* transaction is open, no stage or hold directory is left in custom_components.
FilesMatchRegistry ==
  /\ \A d \in Domains \ touched :
       IF journal = None \/ journal.domain # d THEN TargetAsRecorded(d)
       ELSE IsInstalled(registry, d) => TargetAsRecorded(d) \/ hold = CodeOf(registry, d)
  /\ journal = None => stage = Absent /\ hold = Absent

\* Every rollback the registry offers, now or once the open transaction commits,
\* has its complete backup.
Backed(reg) ==
  \A saved \in SavedRecords(reg) \ {None} :
    saved.backup \in 1..(nextId - 1) /\ backups[saved.backup] = saved.release

BackupsIntact == Backed(registry) /\ (journal # None => Backed(journal.after))

\* Dependencies are checked long before the commit; the registry is closed under
\* them at every moment, and so is the one a recovery may finish.
RegistryStaysGood ==
  GoodRegistry(registry) /\ (journal # None => GoodRegistry(journal.after))

\* Code nobody asked the Manager to manage is never deleted: it stays where it is,
\* or is carried between the target and the hold directory, unless a person acts.
ForeignCodeKept ==
  [][ \/ UserWrites
      \/ /\ \A d \in Domains : target[d] = Foreign =>
                target'[d] = Foreign \/ hold' = Foreign
         /\ hold = Foreign => hold' = Foreign ]_vars

\* What an operation reports as succeeded is committed, in place and cleaned up.
SuccessIsComplete ==
  [][ operation' = "succeeded" /\ operation # "succeeded" =>
        /\ journal' = None /\ hold' = Absent /\ stage' = Absent
        /\ CodeOf(registry', op.domain) = (IF op.action = "remove" THEN Absent ELSE op.release)
        /\ op.domain \notin touched => target'[op.domain] = CodeOf(registry', op.domain) ]_vars

\* A removal is never committed over a native configuration entry.
NeverRemovesConfigured ==
  [][ \A d \in Domains :
        IsInstalled(registry, d) /\ registry'.installed[d] = None => d \notin configured ]_vars

\* docs/catalog.md:181: on startup an interrupted precommit transaction restores
\* prior code and a committed one finishes cleanup; recovery is never stuck unless a
\* person or an error interfered.
InterruptedRecovers ==
  pc = "recover" /\ journal # None /\ touched = {} /\ faults = 0 =>
    IF Committed
      THEN hold \in {Absent, CodeOf(journal.before, journal.domain)}
      ELSE UndoStep # "stuck"

\* Every transaction is resolved, or the engine asks for help and waits, unless a
\* person wrote to the directory (a start then fails again and again).
TransactionsResolve ==
  journal # None ~> \/ journal = None \/ touched # {}
                    \/ pc = "idle" /\ recovery = "required"

-----------------------------------------------------------------------------
(* The registry as an atomic register of releases.                          *)

InstalledReleases ==
  [d \in Domains |->
     IF IsInstalled(registry, d) THEN registry.installed[d].release ELSE None]

RetainedReleases ==
  [d \in Domains |->
     IF SavedFor(registry, d) # None THEN SavedFor(registry, d).release ELSE None]

Lifecycle == INSTANCE ModuleLifecycle WITH
  installed <- InstalledReleases, retained <- RetainedReleases

\* Whatever is interrupted, retried or refused, the registry moves only by whole,
\* dependency-closed changes of one domain.
ImplementsLifecycle == Lifecycle!Spec
=============================================================================
