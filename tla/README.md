# HAHAPent: a TLA+ verification development

HAHAPent is two programs in one repository, and the tools of their operator.  The *Manager* is a Home Assistant
App that installs, updates, rolls back and removes custom integrations from
catalogs (`manager/hahapent/`).  *Aquarius Plant LED* is one such integration: it
drives an aquarium lamp over an unauthenticated TCP protocol
(`modules/aquarius_plant_led/custom_components/aquarius_plant_led/`).  `tooling/`
holds workers that validate the integration on a real lamp.  This directory holds TLA+ models of all three, the TLC configurations that check them, and
proofs that TLAPS checks.  Paths below are those of the repository;
`PROJECT.json` maps every definition to the lines it translates.

All are about the same kind of promise: a change to something that
matters (a directory of code, the light over living plants) is either complete or
did not happen, whatever is killed, lost, late or done by somebody else in
between.  The tests of the repository exercise single failures at chosen places;
the models let every failure happen at every place.

## Contents

1. Inventory of the system
2. Modules and how they correspond to the code
3. What is checked
4. What the checks found
5. What is proved
6. What is not modelled
7. Plan

## 1. Inventory of the system

### The Manager

| Component | State it keeps | Operations | Interacts with |
|---|---|---|---|
| Transaction engine (`engine.py`, `storage.py`) | `registry.json`, `transaction.json` (the journal), `backups/<id>`, `custom_components/<domain>`, stage and hold directories; `operation` and `recovery` in memory | `install`, `rollback`, `remove`, `_change`, `_finish`, `_recover`, start | catalogs for the artifact, the HA adapter for configuration entries, the disk |
| Sources and refresh (`engine.py`) | `settings.json`, `builtin-catalog-cache.json`; `catalogs`, `source_states`, the built-in metadata in memory | `refresh_catalogs`, `add_source`, `remove_source`, `set_test_mode`, start, `status` | downloads, catalog validation, the registry (who owns which origin) |
| Catalog validation (`catalog.py`) | none | `validate_catalog`, `validate_bound_catalog`, `validate_document` | the JSON schemas |
| Downloads (`downloads.py`) | none | bounded fetch with redirects, archive extraction | the network |
| HA adapter (`ha.py`) | none: one connection per question | `config_entries`, `is_admin`, `is_core_domain`, `domain_status` | Supervisor's WebSocket |
| Jobs and HTTP server (`server.py`) | the job, its lock and idle event, `_stopping`, 24 connection slots | `submit`, `job`, `state`, drain on SIGTERM | the engine, the browser |
| User interface (`static/app.js`) | what it shows | polling, confirmations | the server |

The engine runs one handler at a time (`_serialized` turns a second one away); every handler begins with
`_recover`.  What is hard: a kill between any two file operations, an error
after an effect (`fsync` fails, the rename happened), recovery that is itself
interrupted, people who edit the same directories, checks that are made long
before they are acted on, and settings saved before the refresh they are for.

It is correct when the files and the registry agree outside an open transaction;
installed code is never lost; every offered rollback has its complete backup;
installed modules always find their exact dependencies; an interrupted change
ends with wholly old or wholly new code; code of others is never deleted; success
means durable; an identity that owns installed code is never given to another
repository.

### Aquarius Plant LED

| Component | State it keeps | Operations | Interacts with |
|---|---|---|---|
| Coordinator and entry (`coordinator.py`, `__init__.py`) | command epoch, gesture and channel generations, the lock, last data, the quiescing flag | admission, debounce, deadline, poll, `async_turn_off/on`, colour, dim, mode, resume, setup, unload, failed unload | entities, the client, the memory |
| Client (`client.py`) | `_needs_refresh`, last reading, one connection at a time | read, guard, write, confirm, read back, wake first | the lamp |
| Power memory (`state_store.py`) | one record: last Manual mix, origin of the current Off; error and block flags | observe, intend, confirm, restore, verified save | HA's storage |
| Protocol (`protocol.py`) | receive buffer | `feed`, encoders, channel order | the client |
| Compact colour (`compact.py`) | none | mix, scale, estimate | the coordinator |
| Entities, config flow | none, forms | pass calls on | HA |
| Lamp, other controllers (external) | mode, profile, channels | obey, ignore, run the stored program, be moved | the client |

Home Assistant runs all tasks on one event loop, so code between two awaits is
atomic; everything else interleaves.  What is hard: requests that overlap in
debounces and in the lock queue; deadlines and cancellations at every await; a
lamp that may lose a frame, or handle it after its connection was given up;
two replies of one reading that are 0.2 s apart; saves that succeed but cannot be
verified, or cannot be recalled once begun; other controllers; unloads and
crashes in the middle of an Off.

It is correct when an Off is never sent before how to undo it is on disk; an On
restores the mix of the latest Off that the lamp confirmed, or nothing; an
overtaken request is never admitted; what is shown as current is true when nobody
else acts; nothing is sent and no task is left once an unload began or ended; a
record of another release is never overwritten; every request ends.

### Tooling

| Component | State it keeps | Operations | Interacts with |
|---|---|---|---|
| Native validation workers (`aquarius_validation.py`, `aquarius_task004_validation.py`, `aquarius_dark_optical_validation.py`) | baseline, what it owns, the place in its script, latches, the report on disk | read, intent, experiment, hold, guarded cleanup | the lamp's wire, a stop signal |
| Workers through Home Assistant (`aquarius_ha_validation.py`, `aquarius_task004_ha_validation.py`, `aquarius_task004_ha_service.py`, `aquarius_compact_validation.py`, `aquarius_automatic_composite.py`) | the same, and what became of each request | request, readback, status, cleanup by request or frame | Home Assistant's API, the lamp |
| Passive audit (`aquarius_passive_audit.py`) | flows, problems, counts | capture, reassemble, verdict | a packet socket |
| Access checks, secrets, release builds | none | scripts | files |

What is hard: an experiment disturbs living plants' light and must end even when its
connection, its reply or its operator is gone; a request that was answered late may
still run when the worker judges; what is on the lamp may be somebody else's and must
then not be overwritten; a captured byte may be dropped, sent again or belong to an
older connection of the same address.

They are correct when they send only what they declared and only after the
declaration is on the disk; never act again once what they see is nobody's of this
run; report a recovery only if it is one; restore after a stop at any place; and, for
the audit, never turn an ambiguity into a clean verdict.

## 2. Modules and how they correspond to the code

```
ModuleLifecycle          what the engine promises, without files
      ^ implements (TLC, TLAPS)
ModuleRegistry  <-  ManagerEngine  <-  MCManagerEngine
                         ^
                 ManagerEngineProofs

PowerMemory  <-  AquariusControl  <-  MCAquariusControl
                       ^
              AquariusControlProofs <- AquariusLampProofs

ManagerSources  <-  MCManagerSources     ManagerJobs            ValidationWorker
       ^                                      ^                        ^
ManagerSourcesProofs                    ManagerJobsProofs    ValidationWorkerProofs

FrameDecoder  CommandAudit  CatalogRules  Downloads  ArchiveRules  HAValidation
      \____________\___________\____  ____/____________/____________/     (all six)
                                   MCParts
Downloads, ArchiveRules, CatalogRules, HAValidation  <-  PartsProofs
FrameDecoder, CommandAudit                           <-  WireProofs
```

An operator whose comment begins with "Faulty" is a plausible bug, kept beside
the definition it would replace; it is used only to show that a property notices
that bug (section 3).

### ModuleRegistry and ModuleLifecycle

`ModuleRegistry` is the pure part of the engine: releases (an artifact of some
catalog: domain, origin, version, exact dependencies), the registry with its
installed, previous and removed records, `_check_dependencies`, the reverse
dependency check of `remove`, and what a change does to the registry.  The files
of a release are not listed: a release determines them.

`ModuleLifecycle` is the abstract specification: per domain an installed and a
retained release, and three atomic changes.  `ManagerEngine` implements it under
the mapping `installed <- InstalledReleases, retained <- RetainedReleases`; the
write of `registry.json` is the moment of the change.

### ManagerEngine

`pc` is the place in a handler between two effects on the disk; `ctx` says which
caller `_recover` and `_finish` return to (`start`, a handler, `_change`, or the
error path of `_change`).

| Code | Actions |
|---|---|
| `Manager.__init__`, `_serialized`, handler entry | `Start`, `Request`, `Recover` |
| checks of `install`, `rollback`, `remove` | `Admit`, `Refuse` |
| `_change`: journal, stage, backup, planned registry, last look, two renames, registry | `Prepare`, `OpenStage`, `FillStage`, `RejectArtifact`, `Backup`, `Plan`, `Recheck`, `MoveOld`, `MoveNew`, `Commit` |
| `_finish` and the tail of `_recover` | `Finish`, `DropHold`, `DropStage`, `Unlink`, `Synced` |
| `_recover` of an uncommitted change | `Recover`, `DropTarget`, `MoveBack` |
| kill, OSError, people, HA | `Crash`, `Fault`, `EarlyFault`, `UserWrites`, `ConfigEntryChanges` |

A directory is absent, whole (exactly the files of a release), partial or foreign:
that is all `verify_tree` can tell.  Abstractions a reader should know:

- `atomic_json`, `os.replace` and `unlink` are atomic, as POSIX renames are.  An
  error *after* such an effect (the `fsync` of the directory) is the error
  *before* the next effect, so `Fault` need only fall between effects.
- `shutil.rmtree` is not atomic: with `TornDeletes` it passes through a partial
  tree, and a crash or an error may stop it there.
- The journal's later phases (`old_moved`, `new_moved`) are not state: `_recover`
  never reads them; it decides from registry and directories, as the model does.
- One `stage` and one `hold` variable stand for `.hahapent-stage-<id>` and
  `-hold-<id>`; that is sound because none is left over when the next
  transaction begins, which is part of the checked invariant `FilesMatchRegistry`.
- `UserWrites` may fall anywhere except between the verification and the deletion
  of one tree (`remove_owned`), a window of a few system calls.
- `ConfigEntries` says when configuration entries come and go: `"never"`,
  `"until_recheck"` (any time but between the last look and the registry write) or
  `"any_time"`.  With `"any_time"` a removal can be committed over an entry created
  after the last look: the entry lives in another program, and no order of steps
  in the engine closes that window.  The runs use the first two.

### ManagerSources

`task` is the operation that holds the lock and its step: save the settings, read
the cache of the built-in catalog, download and store that catalog if it is asked for,
then fetch the rest and replace what is in memory.  What the reading of the cache
found (`selected`, `writable`) is kept in the task, as it is in local variables of
`_refresh_builtin`, because the file may change during the download.

| Code | Actions |
|---|---|
| `__init__` | `Start`, then the refresh without downloading the built-in catalog |
| `refresh_catalogs` | `Refresh` |
| `add_source`, `remove_source`, `set_test_mode` | `AddSource`, `RemoveSource`, `SetTestMode`, `SaveSettings`, `SaveFails`; `Refuse` for every early return |
| `_refresh_builtin` up to the download (214-243) | `LoadBuiltin` |
| its download and write (244-272) | `KeepBuiltin`, `FetchBuiltin`, `StoreFails` |
| `_refresh_catalogs` | `RefreshRest`, `RefreshConflicts` |
| installs, kills, somebody at the cache file | `Install`, `Crash`, `Tamper` |

A catalog is abstracted to the identity it claims and the repository it came from;
publishers may change both their answer and their identity at every download, so
which extra sources are usable is a free choice.  A write fails before or after
the file was replaced.  `Install` is the projection of `ManagerEngine` on the
origins that own code.  A clock that is set back is a free choice of `at`.  `Tamper`
removes or damages the cache file between any two steps; a file that somebody puts
back from an older copy is not modelled.

### PowerMemory and AquariusControl

`PowerMemory` is `state_store.py` as operators on a record: what an observation, an
Off intent and an Off confirmation write, what an On may restore, and what the
validation accepts.

`AquariusControl` has the coordinator, the client, the store, the lamp and the
other controllers.  Requests are numbered in the order they are submitted.  `tx`
is the task that holds the coordinator's lock and its place between two awaits;
`queue` holds those that wait for it (asyncio's lock is first come, first served).
Epochs and generations are only ever compared with the value a request drew, so
`fresh` is the set of requests of the current epoch, and `newest` and `gesture`
name the request that drew the latest generation: unbounded counters become
finite without losing a comparison.

| Code | Actions |
|---|---|
| entity calls, debounce, admission under the lock | `Submit`, `Debounced`, `Admit`, `TurnAway`, `Expire` |
| `_async_update_data` | `PollDue`, `AdmitPoll`, `PollReads` |
| client reads and guards | `ReadSystem`, `Guard`, `AlreadyOn`, `NoBasis`, `OffLooks`, `OffConflicts` |
| client writes, confirmations, readbacks, waking first | `Send`, `Confirm`, `Woken`, `Verified`, `OffVerified` |
| any client error, deadline or cancellation | `Fail` |
| verified saves | `SaveVerified`, `SaveTooLate`, `SaveFails`, `SaveCancelled`, `ExpireSave` |
| `async_setup_entry`, unload, failed unload, removal | `Setup`, `SetupFails`, `PrepareUnload`, `Unload`, `UnloadFails`, `RemoveEntry` |
| lamp, network, others, kill | `Handle`, `Lose`, `LampMoves`, `Crash` |

Abstractions: time is left out, so any await of network I/O may fail, a deadline
may pass at any moment, and a deadline during a file write cancels the request but
waits for the write, as the code does.  A save has three outcomes: written and
verified, written but not verified, not written.  The lamp may ignore or lose any
frame, keep or zero its vector in Shutdown, and move its channels while its program
runs.  With `LateFrames` it may handle frames after their connection was closed.
The failure back-off, the coalescing of several slider values into one write and the
extra refresh requests are left out: they only delay or repeat what is modelled.

### ManagerJobs

The HTTP server around the engine: connection slots, a handler thread per connection,
the lock of `Application`, one job thread, and the way from SIGTERM to the end.

| Code | Actions |
|---|---|
| `process_request`, the handler's end | `Accept`, `Finish` |
| `do_GET`, `do_POST` | `Authorize`, `Dispatch`, `ReadBody` |
| `Application.submit` | `Submit`, `ClearIdle`, `StartThread` |
| `Application._run` | `Work`, `Publish`, `Release` |
| `serve().stop`, `begin_shutdown`, `wait_for_idle`, end of `serve` | `Sigterm`, `BeginShutdown`, `Shutdown`, `StopServing`, `Drain` |

`submit` and the end of `_run` hold the lock over several effects; they are split
because `wait_for_idle` reads the event without the lock.  The body of a job is
`ManagerEngine`; a drain that times out is the `Crash` of that module.

### FrameDecoder, Downloads, ArchiveRules, CatalogRules

`FrameDecoder` feeds `StreamDecoder` of the integration and `Decoder` of the tools
the same bytes in pieces cut anywhere (`Receive`); `Loop` and `StrictLoop` go once
around the loop of each `feed`, and no further piece comes before both have returned.
Every item a decoder takes is kept with the place of the stream where it began, the
junk that `StreamDecoder` skips included: that is history, like `returned`, which says
how many of them `feed` has given back (an error returns none of its piece).
`WellFormed` says what a frame is without a decoder, and `FramesExact` compares.  In the
run a core frame is three bytes and an extended one four or five: only that lengths
differ and that markers may occur inside a frame matters.

`Downloads` is one `Downloader.download` after the other: redirects, the resolver
thread that outlives its hop, the socket that two owners close, the size limits, and
one deadline that may pass at any place.

`ArchiveRules` reads the members of an archive one by one as `extract_artifact` does,
and then says what writing them comes to on a file system that tells upper from lower
case and on one that does not: no member fails, and no two files or folders are one.  `CatalogRules` is `validate_catalog`, with Kahn's
algorithm; the reference definition looks for a set of entries that need each other
all around, without an order.

### CommandAudit

Connections of one address open, send, send again in other pieces, are answered and
close, before, during and after the capture; packets wait in a bounded kernel queue
or are dropped and counted; `Observe` is `Audit.observe`, `Report` is `finish`.
Sequence numbers are kept modulo `SequenceSpace` and wrap.  It is assumed that initial
sequence numbers are not repeated within a capture, and that the kernel counts every
packet it does not deliver.

### ValidationWorker

Five workers share the wire operations of `WireSession`: a read (`Connect`,
`ReadSystem`, `ReadChannels`) and a command (`SendVector`, `Drain`, `SendMode`,
`Barrier`).  `pc` is the place inside an operation, `ret` the place of the worker's
script that gets the result in `got`.

| Code | Actions |
|---|---|
| preflight, intent, the last look | `Second`, `Intent`, `Admit` |
| the experiment | `Experiment`, `ChannelChanged`, `OpticalChanged`, `SwitchedOff`, `Darkened`, `ResumedDark`, `Sampled`, `Hold` |
| the cleanup of each worker | `Recover`, `GuardedChannel`, `VectorRestored`, `ModeRestored`, `GuardedOff`, `ModeResumed`, `ZeroGuard`, `Restored`, `GuardedDark`, `DarkResumed` |
| deadlines, sockets, replies, signal | `ReadFault`, `BarrierFault`, `Stop`, `Signal` |
| lamp, program, others (external) | `Handle`, `Program`, `Rival` |
| the report | `Finish` |

A deadline may be over wherever the code looks at one.  A channel vector is the
original, the declared, all zero or another one.  Frames of a connection that was
closed are not handled later: section 6.

`sent` is the history of the frames given to the network and `may` what those declared
so far can make the lamp show.  `alarm` is set by a reply that `may` cannot explain and
by a broken one, and `hidden` when a stop request or a deadline ends the very read that
gave it: the latches of the code look at `OSError` and `EOFError` only (section 4).

### HAValidation

Nine transactions that ask Home Assistant to move the lamp, look at the lamp
themselves and put it back.  `tasks` holds what Home Assistant has accepted and not
done; a task may run at any time, also after its answer was lost and the worker ended.

| Code | Actions |
|---|---|
| preflights | `Preflight`, `CompositePreflight`, `CompactPreflight`, `LastGuard` |
| `call` and its outcomes | `AskHA`, `Completed`, `AnswerLost`, `NotTaken` |
| reads and status of the experiment | `GuardRead`, `ReadBack`, `ReadStatus`, `ReadLost`, `Interrupted` |
| cleanup | `Recover` (one operator per worker), `SendFrame`, `Barrier`, `Confirm`, `ZeroGuarded`, `CleanupBreaks` |
| Home Assistant, lamp, others, signal (external) | `Execute`, `RunProgram`, `Interfere`, `Halt` |

A read is one step here, because `ValidationWorker` has the wire; a cleanup read that
is tried again is a later read.

## 3. What is checked

Every run below is an entry of `PROJECT.json`.  For every property of a passing
run a faulty definition (see section 2) makes TLC report that property, under
the same bounds.

| Run | Question | Bounds | States |
|---|---|---|---|
| `engine_safety` | do files, backups, dependencies and registry agree, and is the engine an implementation of the lifecycle? | a library with two versions, a rival of another origin and an application that pins version 1; 4 transactions, 2 crashes, 1 error, torn deletions | 233 000 |
| `engine_users` | is code of others kept, no removal committed over an entry, and every transaction resolved? | one domain, 3 transactions, 2 crashes, 2 errors, people and entries, whole deletions | 511 000 |
| `lamp_power` | is what Off saves and On restores true? | one channel, 3 requests, 1 move of another controller, 2 setups, fresh and unreadable stores | 853 000 |
| `lamp_requests` | do overlapping requests keep their order, and is the picture true? | two channels, 3 requests of every kind, nobody else at the lamp | 1 130 000 |
| `lamp_liveness` | does every request and every unload end; do late frames mislead? | one channel, 2 requests, 2 setups, late frames | 103 000 |
| `sources` | is success durable, are owners kept (but for the test catalog), is metadata stored before it is used, does it go forward? | 3 repositories, 3 identities, 2 extra sources, 2 downloads, 1 failing write, 1 damage at any moment, 1 crash, 2 clock readings | 1 734 000 |
| `jobs` | do jobs overlap or get lost, does the drain tell the truth, do slots come back, does a stop request end the process? | 3 connections for 2 slots, 2 jobs, 1 thread that cannot be started | 16 000 |
| `validation` | what do the native workers send, when do they stop, is a reported recovery one, does every run end? | 5 workers, 3 kinds of lamp, 2 read attempts (3 in the code), 1 move of another controller, 2 faults, 1 stop signal | 1 227 000 |
| `parts` | are frames found exactly, is the audit's verdict true, are downloads contained, do accepted archives extract, are accepted catalogs ordered, do late tasks mislead? | streams of 6 bytes in pieces of 1 or 2; 5 packets, 2 connections, sequence numbers modulo 32; 2 downloads, 2 resolver slots; archives of 4 members of 10 names and 2 sizes, catalogs of 3 entries; 9 workers, 2 moves of others, 3 mishaps | 944 000 |

Three further runs each show a disagreement between the code and its documents
(section 4).

### Properties

*Engine.*  `FilesMatchRegistry` relates registry, journal, directories, stage and hold
at every moment, between any two effects; `BackupsIntact` the offered rollbacks and
their copies; `RegistryStaysGood` the exact dependencies; `SuccessIsComplete` what was
reported and what is on the disk; `ImplementsLifecycle` is the refinement.
`ForeignCodeKept` and `NeverRemovesConfigured` are about people, and
`TransactionsResolve` says that recovery gets to an end.

*Lamp.*  `IntentBeforeOff`, `RestoresLatestOff`, `SightOfOnEndsOff`,
`TrustedMemoryIsDurable` and `UnreadableKept` are about the memory of an Off;
`OvertakenNeverAdmitted`, `PictureIsTrue` and `NoVectorWhileOff` about requests;
`UnloadSettles`, `SilentWhileUnloading` and `RequestsEnd` about the life of the entry.

*Sources.*  `SuccessMeansSaved` relates what a successful operation shows to
`settings.json`; `OwnershipNotRebound` what is offered to who owns code, for every
identity, with the test catalog in test mode as its one exception (section 4);
`InUseIsStored` and `MetadataNeverGoesBack` the metadata in use to the cache file and
to what was in use before.

*Server.*  `OneAtATime` (jobs neither overlap nor get lost, and what is told is the
last one's), `DrainedMeansDone` (an idle drain leaves nothing running), `SlotsAccounted`,
`ServerEnds`.

*Native workers.*  `OnlyDeclaredFrames` (in their order, none before the intent is on
the disk), `AlarmStopsWrites` (no write after a reading nobody of this run explains),
`RecoveryIsTrue`, `StopRestores`, `Ends`.

*Workers through Home Assistant.*  `LateTasksExcluded` (a PASS recovery leaves nothing
in Home Assistant that could undo it), `DoubtForbidsActing` (after a lost answer or a
foreign vector).

*Parts.*  `FramesExact`, `QueryOnlyIsTrueOfOwn`, `DownloadContained`, `AcceptedExtracts`,
`CatalogIsOrdered`.

Each module also has a type invariant; the engine's is proved (section 5), the others
say what the variables hold.

### Why the bounds are enough

*Engine.*  The longest story of one domain is install, update, roll back, remove:
four transactions, each of which may meet a crash and then a crash in its
recovery.  Two domains are needed for dependencies, a second version for a
pinned one, a second origin for ownership.  A third crash finds a disk that two
crashes can already produce, because recovery decides from the disk alone.

*Lamp.*  Restoring a wrong mix takes an Off, something that spoils the memory, and
an On: three requests with one move of another controller, and a reload or crash
(two setups).  Overtaking takes two requests and a third that changes the epoch
or a generation.  One channel suffices where only whole mixes matter; two where
sliders of different channels must not supersede each other.  Levels 0, 1 and 2
distinguish dark, the remembered mix and another one.

*Sources.*  A conflict takes two extra sources and the fixed ones; rebinding takes
one owned origin and a repository that claims its identity, also that of the test
catalog; going back takes two downloads and a restart, or one and a damaged cache.  One
damage falls before, during and after a download.

*Server.*  A race for the job takes two handlers; a third connection is one more than
the slots, so that a client is turned away and a slot is waited for.  The second job
is the one that could run into the first or into the drain.

*Native workers.*  One move of another controller at any place, together with two
faults, is enough to spoil a readback and then the cleanup's read of it; a third
fault ends the run in every place where two already have.  Two read attempts are one
that fails and one that answers.

*Workers through Home Assistant.*  Misleading a worker takes a task that runs late (not
bounded: it may run at any time), a lost answer and one more mishap; an alarm followed
by a normal looking lamp takes two moves.

*Parts.*  Six bytes hold a complete frame behind or around every beginning of another
one.  The audit's hazards need two connections of one address, one segment sent again
in other pieces and one dropped packet.  An accepted archive needs the two files every
integration has; of four members, whose sizes leave room for all, two more make the
cases the rules are about: two names that differ only in case, a folder and another
spelling of it above a file, a file above a file.  Without casefold in the comparison
of spellings TLC finds `A/b` and a folder `a` in one accepted archive.  Three members of
the larger size exceed the limit.  Three entries make circles of two and of three.  Two downloads
leave the resolver threads of the first to the second, with no slot to spare.

### Fairness

*Engine* (`FairSpec`): the Supervisor restarts the App (`WF(Start)`), and a handler
that began runs on (`WF` of the admission, of the steps of `_change` and of
recovery).  Nothing is assumed of people, requests, crashes or errors.

*Lamp*: asyncio fires each request's deadline and ends each debounce (`WF(Deadline)`,
`WF(Debounced)` per request), wakes the first waiter of a free lock, resumes after
a write has settled (`WF(Save)`), and the client's own timeouts end a poll
(`WF(PollTimeout)`).  Home Assistant answers an unload one way or the other.  The
lamp is assumed to do nothing at all.

*Server*: no handler waits for its client beyond the socket timeout (`WF(Talk)`), engine
operations end, and whoever waits for a lock that is held over a few assignments gets
it in the end, which takes strong fairness (`SF` of `Submit`, `Publish`,
`BeginShutdown`) because Python's locks are not first come, first served.  No client
need connect and no signal need arrive.

*Native workers*: the worker runs on and its socket calls have timeouts (`WF(Worker)`);
the lamp handles what an open connection brought (`WF(Handle)`), or the query behind
it times out.

Deadlock is checked in the engine runs only.  Elsewhere the system really stops:
requests, setups and restarts are bounded, an App with unreadable settings does not
start, the server exits, a validation run ends with its report, a stream or archive
is read to its end.

## 4. What the checks found

| Run | Disagreement |
|---|---|
| `engine_torn_delete` | A kill inside `shutil.rmtree` (`storage.py:143`) leaves a partial tree.  Its content no longer matches the recorded files, so every later recovery raises `ownership_conflict` and the App does not start, against `docs/catalog.md:181`. |
| `sources_twice` | A source whose addition was saved but whose refresh failed can be added again, because duplicates are looked up in what the last refresh listed.  The settings then hold it twice, which no start and no operation accepts. |
| `sources_test_mode` | Test mode is saved before the refresh finds that an extra source has the identity of the test catalog.  The operation fails, the setting stays, and the App does not start again. |

The passing runs are written so that these known cases do not hide what else could be
wrong: `engine_users` takes tree deletion as one step, `OwnershipNotRebound` and
`SuccessMeansSaved` speak of an App that runs, and `OwnershipNotRebound` makes the
exception below.

Five more disagreements are in the models and in no run of their own:

- When the directory `fsync` after unlinking the journal fails, `recovery` is
  `required` although no journal is left (`engine.py:762`, 790-791).  Later operations
  go on changing files, against the text of `app.js:340`, and nothing resets the state.
- The confirmation of an Off is written but cannot be verified; the user is told that
  On will resume the stored schedule (`coordinator.py:384`, 388).  The flag that makes
  it true is in memory only: after a restart On restores the Manual mix.  This is
  `ToldScheduleKept` of `AquariusControl`; add it to the invariants of `LampPower.cfg`.
- A connection that was open before the capture and closed in it, and a later one with
  the same ports, are one flow to the audit (`aquarius_passive_audit.py:190`), so the
  end of the first counts as the end of the second, against line 143 of that file.
  This is `QueryOnlyIsTrue` of `CommandAudit`; add it to the invariants of `Parts.cfg`.
  `QueryOnlyIsTrueOfOwn` says that it is the only such case.
- An extra source may claim the identity of the test catalog while test mode is off.
  Code is installed from it, the source is removed, and test mode is switched on:
  `set_test_mode` (`engine.py:470-485`) asks nobody who owns code of that identity, and
  `_refresh_catalogs` offers the shipped test catalog under it.  `docs/catalog.md:73`
  says that a source identity "cannot be rebound to a different repository, including
  after removal while installed or recoverable code remains".  `_check_target`
  (`engine.py:544-553`) still refuses to replace the installed code; what is offered,
  and dependencies, which are compared by identity alone (513), go by the new origin.
  This is `OwnershipNeverRebound` of `ManagerSources`; add it to the invariants of
  `Sources.cfg`.  `OwnershipNotRebound` says that it is the only such case.
- Whether the cache file may be overwritten is settled when it is read
  (`engine.py:214-227`); the file is written after the download (256) without another
  look.  A document of an unknown format that appears during the download is overwritten,
  against the comment at `engine.py:224-225` ("Preserve malformed/future cache
  documents for explicit recovery").  This is `DamagedCacheKept` of `ManagerSources`;
  add it to the properties of `Sources.cfg`.

Of the validation workers a reader should know:

- A stop request that arrives between a contradicting read and its evaluation hides
  the contradiction from the dark worker (`aquarius_dark_optical_validation.py:128`
  against `docs/aquarius-dark-optical-plan.md:71-73`).
- So does a deadline.  When a transport error follows a contradictory system reply the
  workers remember it (`aquarius_task004_validation.py:107-119`, 199-216), but
  `DeadlineError` (`aquarius_validation.py:48`) is neither an `OSError` nor an
  `EOFError`, and the quarantine between the two queries raises it (248-254).  The next
  guard reads afresh: if the other controller has moved the lamp again by then, back to
  what the worker expects, a restoration write follows, against
  `docs/aquarius-task004-validation-review.md:46-48`.  It takes two moves of another
  controller: set `MaxMoves` to 2 in `Validation.cfg` and drop `hidden` from
  `AlarmStopsWrites`.  Both cases are the exception that this property makes.
- The channel and optical workers take the declared vector for their own, whoever
  wrote it; the legacy worker through Home Assistant judges by its last reading alone.
  Both are as the code states, and the properties say no more.

## 5. What is proved

The theorems hold for every value of the constants that satisfies the named
assumptions of the modules: what is what size (`BoundsAssumption`, `SizesAssumption`,
`ControlAssumption`, `SourcesAssumption`, `HAAssumption`, `DownloadAssumption`,
`ArchiveAssumption`, `WorkersAssumption`, `AuditAssumption`, `DecoderAssumption`), what the releases, lamps and commands are made of
(`ReleasesAssumption`, `TreesAssumption`, `LampAssumption`, `CommandsAssumption`), and
that a missing value is none of the others (`NoneAssumption`, `NoMemoryAssumption`,
`NoTransactionAssumption`).  TLC evaluates each of them in the runs.  A hypothesis that
only one theorem needs is in that theorem, and named below.

### Engine (`ManagerEngineProofs`)

| Theorem | Statement |
|---|---|
| `TypeCorrect` | `Spec => []TypeOK` |
| `RegistryAlwaysGood` | `Spec => []RegistryStaysGood` |
| `BackupsAlwaysIntact` | `Spec => []BackupsIntact` |
| `EngineImplementsLifecycle` | `Spec => ImplementsLifecycle` |

The inductive invariant is `IInv == TypeInv /\ GoodInv /\ BackupInv`.
None of the properties is inductive alone.  `TypeInv` adds `Control`: at each place,
which caller is running and what is known of its arguments, without which neither
`Commit` nor the return of a recovery can be typed.  `GoodInv` adds that an admitted
operation still satisfies the conditions it was admitted under: they are checked
before the download and used at the commit, and the registry cannot have moved in
between, because handlers run one at a time.
`BackupInv` adds how far the copy of the current transaction has got: its identity
is fresh, so no record can name it before it is whole.  The lemmas at the beginning
of the module say what `AfterInstall` and `AfterRemove` do to a good
registry: that is where dependency closure is shown, from the two loops of
`_check_dependencies` and the check of `remove`.  For the refinement, every step but
`Commit` leaves the mapped variables alone, and a `Commit` is an install, a rollback
or a removal according to the operation.

### Directories of the engine (`ManagerEngineProofs`)

| Theorem | Statement |
|---|---|
| `FilesAlwaysMatch` | `Spec => []FilesMatchRegistry` |
| `ForeignCodeIsKept` | `Spec => ForeignCodeKept` |
| `SuccessIsAlwaysComplete` | `Spec => SuccessIsComplete` |
| `NeverRemovesUsedCode` | `Spec => NeverRemovesConfigured`, if `ConfigEntries # "any_time"` |
| `OnlyTornDeletesStick` | `Spec => []InterruptedRecovers`, if `~TornDeletes` |

`DirInv` says where the old and the new tree of the open transaction are at every
place of a handler and of a recovery (`OpenDirectory`); that the directories of all
other domains are as recorded (`OthersRecorded`); that without a transaction nothing
is left in the stage and hold directories (`OwnDirectories`); and that the journal, the
operation and the plan are of the same work (`SameWork`).  The hard part is a recovery
that is itself interrupted: it decides from the disk alone, so `OpenDirectory` must
allow exactly the disks from which the decision is right.  A directory that somebody
wrote to is excepted (`touched`), and still no code of theirs is deleted.  The
hypothesis of `NeverRemovesUsedCode` is the window that no order of steps in the engine
closes (section 2); that of `OnlyTornDeletesStick` makes it the converse of the
violation in `engine_torn_delete`: nothing else makes a transaction stick.

### Lamp: the life of the entry (`AquariusControlProofs`)

| Theorem | Statement |
|---|---|
| `UnloadAlwaysSettles` | `Spec => []UnloadSettles` |
| `TrustedMemoryIsAlwaysDurable` | `Spec => []TrustedMemoryIsDurable` |
| `UnreadableIsKept` | `Spec => UnreadableKept` |
| `UnloadIsSilent` | `Spec => SilentWhileUnloading` |
| `AdmissionNeedsNoRefresh` | `Spec => []AdmittedMeansRefreshed` |

The invariant is `Shape /\ NothingLeft /\ UnloadWaits /\ PollsOnly /\
SavesReadable`: what a gone coordinator leaves behind, that an unload has cancelled
and waits for the very task that holds the lock, that a coordinator in setup or
resumption only polls, and that no save was begun over an unreadable record.  The
last theorem adds `Refreshed`.  They hold for any number of channels, requests and
setups, and for any behaviour of the lamp.

### Lamp: memory, order and picture (`AquariusLampProofs`)

| Theorem | Statement |
|---|---|
| `TypesAlwaysHold` | `Spec => []TypeOK` |
| `IntentIsAlwaysBeforeOff` | `Spec => []IntentBeforeOff` |
| `SightAlwaysEndsOff` | `Spec => []SightOfOnEndsOff` |
| `LatestOffIsRestored` | `Spec => []RestoresLatestOff`, if no initial record has a confirmed Off |
| `OvertakenAreNeverAdmitted` | `Spec => []OvertakenNeverAdmitted` |
| `PictureIsAlwaysTrue` | `Spec => []PictureIsTrue`, if `Alone` |
| `VectorsNeverMeetOff` | `Spec => NoVectorWhileOff`, if `Alone` |

`TypeInv` adds to the types who holds the lock, that request numbers are used once, and
that the queue is just those who wait.  `OffInv` follows an Off from its intent to the
save of its confirmation: the record on the disk and the one in memory are the same and
name the state that the Off saw.  `SightInv` and `CycleInv` carry the history `cycle`
(the Off the lamp confirmed last) through every save that fails, is cancelled or cannot
be verified; the hypothesis says that this history starts with the store, as the run
does.  Overtaking needs the order of the queue, `Before`, and what it becomes when a
request leaves or joins it.  The last two are about what the lamp does, so nobody else
may move it and closed connections may deliver nothing (`Alone`, the situation of
`lamp_requests`): `PictureInv` says when a reading is still true of the lamp, `GoalInv`
and `WayInv` that no vector is planned or under way while an Off is.

### Sources (`ManagerSourcesProofs`)

| Theorem | Statement |
|---|---|
| `OwnershipIsKept` | `Spec => []OwnershipNotRebound` |
| `SuccessIsDurable` | `Spec => []SuccessMeansSaved` |
| `MetadataIsMonotonic` | `Spec => MetadataNeverGoesBack` |
| `InUseIsAlwaysStored` | `Spec => []InUseIsStored` |

Ownership needs more than the catalogs in memory: the settings on disk, and those an
operation is about to save, may hold no identity that belongs to code of another
repository (`Trusted`), and what is offered must come from where the settings say
(`Agrees`), because an install reads the one and a later refresh the other.  The
built-in identity is kept out of the extra sources because the built-in source is
always offered (`BuiltinOffered`).  The test identity is not, which is the exception
that the property makes; an extra source that claims it is held to the same rule as any
other.  Both theorems about metadata rest on `Latest`: the cache file, when it is
readable, is never older than the metadata in use or about to be used, also during the
download that follows the reading of the file and after a write that failed on the way,
and while nobody touches the file it is there as soon as something was downloaded.

### Server (`ManagerJobsProofs`)

| Theorem | Statement |
|---|---|
| `JobsOneAtATime` | `Spec => []OneAtATime` |
| `IdleDrainIsDone` | `Spec => []DrainedMeansDone` |
| `SlotsAlwaysAccounted` | `Spec => []SlotsAccounted` |

The invariant ties together what the code keeps apart: who holds the lock (`LockHeld`),
the results of the jobs in their order (`ResultsInOrder`), what the state says of the
last one while its thread starts, works, publishes and releases (`LastJob`), and what
an announced drain has read (`Announced`).  The slots are counted with the cardinality
theorems of the library, for any finite set of connections.

### Workers, downloads, archives, catalogs (`PartsProofs`)

| Theorem | Statement |
|---|---|
| `LateTasksAreExcluded` | `HASpec => []LateTasksExcluded` |
| `DoubtAlwaysForbidsActing` | `HASpec => DoubtForbidsActing` |
| `DownloadsAlwaysContained` | `DownloadSpec => []DownloadContained` |
| `AcceptedAlwaysExtracts` | `ArchiveSpec => []AcceptedExtracts` |
| `CatalogsAreJudgedRight` | `CatalogSpec => []CatalogIsOrdered` |

The four specifications are those of the parts alone; the run `parts` interleaves
nothing, it only chooses a part.

For the workers, at most one task of a run is left in Home Assistant, and only after its
answer was lost (`OneRequest`); from then on no place of the script leads back to a
request, and a report of success asks for a confirmed reading that only follows when no
task is left (`Placed`, `Aimed`, `AsFound`).  `Alarmed` says that after a vector of
somebody else only places without a write are reached.

For a download, the invariant says which of its owners may still close the socket at
each stage (`Holding`) and whose the resolver threads are (`Resolving`).

For an archive, the sets the rules look at are exactly the folded files and folders
that writing would find (`Foreseen`).  A file system that tells names apart finds no
more than one that folds them (`FoldedThere`), so one check serves both.  That no two
files or folders differ only in case is `Unmerged`: every path that is written, and
every folder above it, has its spelling among the aliases (`ParentBelow`), and those of
one member differ in length (`Spelled`), so that folding tells all of them apart.

For a catalog, `Judgement` says what an empty set of errors means after each loop.
While Kahn's algorithm runs, an entry's count is the number of entries left that need
it, and no circle lies among those the sort is done with (`SortedSoFar`).  The other
half, that a sort which cannot go on has a circle left, is `CircleLeft`: among the
non-empty sets in which everything is needed by something, a smallest one exists
because the subsets of a finite set are well founded, and in a smallest one everything
also needs something.  So the sort accepts exactly the catalogs without circles, in
whatever order `ready` gives the entries.  `CatalogAssumption` only says that the
dependencies of an entry are a list.

### Native workers (`ValidationWorkerProofs`)

| Theorem | Statement |
|---|---|
| `WorkersTypeOK` | `Spec => []TypeOK` |
| `DeclaredFramesOnly` | `Spec => []OnlyDeclaredFrames` |
| `AlarmAlwaysStopsWrites` | `Spec => AlarmStopsWrites` |
| `RecoveryAlwaysTrue` | `Spec => []RecoveryIsTrue` |
| `StopAlwaysRestores` | `Spec => []StopRestores` |

They hold for any number of moves of other controllers, of faults and of read attempts;
the run has 1, 2 and 2.  None of the properties is inductive, because what a step may do
depends on where the script is, and that is spread over `pc`, `ret`, `call`, `phase`
and `want`.  `Place` is the place of the script, inside or outside a wire operation.
`Placed` and `Staffed` say which places belong to the time before the excursion, to the
experiment and to the cleanup, and to which worker; `Started` and `Called`, that the
baseline is known and which command a place waits for; `Phased`, what the commands so
far can have done; `Judged`, what was read and expected.

On these rest the three properties.  `Sent`: the frames sent are those at some positions
of `Declared`, all below `SoFar`, the number of frames the script has behind it, and no
step takes `SoFar` back (`GrowsKept`), not even a failure that leaves open whether a
frame was sent.  `Remembered`: an alarm that is not hidden is in the flag `unsafe`, or in
a reading that will be judged (`pc` at a read, or the result `got`), or the run ends, and
no place of a write is among these.  `SuspicionContradicts` is its hard case, a read
whose second half is lost: what its first half saw contradicts one of the conditions the
workers look at.  `Mirrored` and `Concluded`: what was read last is what the lamp shows
while others leave it alone, with nothing under way, so a confirmed recovery is one.

The last theorem is about calm runs (`Calm`: an excursion from Manual in which nothing but
stop requests goes wrong).  A stop may come while the lamp is still behind with the frames
it was sent, so its invariant `Course` is not about what the lamp shows but about what it
will show when it has handled them (`Final`): the state that the place of the script waits
for (`Aim`, `Headed`), and wherever the cleanup could begin, one that the cleanup of this
worker knows how to put back (`Left`, `Stoppable`).  A handled frame leaves `Final` alone
(`FinalHandled`), a given one turns it by what the frame does (`FinalGiven`), and where the
script decides, nothing is under way and what was read is `Final` (`CalmHere`), so every
refusal of the script is excluded.  The kinds of lamp differ only in `Dimmed` and `Resumed`.

### Audit and decoders (`WireProofs`)

| Theorem | Statement |
|---|---|
| `QueryOnlyIsAlwaysTrue` | `AuditSpec => []QueryOnlyIsTrueOfOwn` |
| `FramesAlwaysExact` | `DecoderSpec => []FramesExact` |

As in `PartsProofs`, the specifications are those of the parts alone.

The audit judges at the end from what reached it, so its invariant `AuditInv` follows
everything that was sent until then.  As long as nothing was dropped and the budget is
not spent (`Complete`, which `Counted` and the statistics of the kernel decide), each unit
sent in the captured time and each beginning of a connection waits in the queue or is in a
flow (`ShownHeld`, `StartHeld`).  Where the audit puts it need not be true: it is enough
that it judges all it has put anywhere.  The end of a connection is harder, because the
audit tells connections apart only by their first packets: `LatestLeads` and `EndsWait`
say which connection the audit will be at when it comes to a place in the queue, and `EndsFed` that an end it has put into a flow
is the end of that flow's own connection, or of one from before the capture, which is the
exception `Inherits`.  What `finish` then concludes is a chain of lemmas about numbers and
finite sets: without a conflict an offset has one value (`OneValueEach`), without a gap the
offsets seen are all there up to the end (`NoGap`), they split into whole frames
(`ParsedFrames`), and in a clear stream each unit is of a query (`ClearStream`).
Sequence numbers wrap: `ModBounds` and `SegmentOffsets` hold for any `SequenceSpace`, also
one smaller than the stream, because bytes that share an offset either agree or make the
verdict inconclusive.

Each decoder is at a place of the stream, and its buffer is what follows there
(`Keeps`).  The items of the first follow each other without a gap up to that place
(`Tiled`, `Ordered`), and each is what the stream has there (`Right`).  That a skipped byte
begins no frame must stay true when more bytes come, so the invariant says why it does
(`NeverFrame`, kept by `NeverOn`), not only that it does.  The second decoder is where an
item of the first begins, or where the first is, and has taken the core frames up to there
(`StrictRight`): as long as it refuses nothing, `StrictTakes` makes it take the very item
the first took.  `DecoderAssumption` asks that the markers differ, that an extended frame
fits in the buffer (`protocol.py:158`) and that header and trailer are not empty.

### Only model-checked

- Liveness (`TransactionsResolve`, `RequestsEnd`, `ServerEnds`, `Ends`): out of reach of
  the prover.
- That no property is true for want of the case it is about: this the mutants show, on
  the small instances of the runs.

Every safety invariant and action property that a passing run checks is a theorem.

`TypeOK` of the engine, `AdmittedMeansRefreshed` and the type invariant of the lamp are
proved and checked by no run of their own name.

## 6. What is not modelled

- Reading the state files (`_load_state`, schemas): the models start from files the
  Manager itself wrote, except where a file is damaged on purpose.
- Permissions, symbolic links and special files in trees, and the hashes themselves.
- `status()` and `ha_restart_required`: they read without changing anything.  The
  inconsistent picture that `status()` may give, because it reads without the lock, is
  a listed hazard that no property covers.
- The shape of catalogs and manifests, which is the JSON schemas' business; TLS and
  checksums of downloads; the writing of extracted files, beyond what it would fail on.
- `ManagerEngine` and `ManagerSources` take the outcome of catalog validation,
  downloads and extraction as a free choice: they are not composed with the modules
  that model these, because they share nothing with them but that outcome.
- In `Downloads`, a resolver thread that cannot be started after its slot was taken.
- The HA adapter: it keeps no state; its answers are `configured` and a free refusal.
- Of the HTTP server: authentication, static files, the parsing of requests.
- Timeouts as durations and socket set-up of the client; the encoders.
- The arithmetic of colours: only which mixes a brightness may give.
- Entities, config flow, user interface: they pass calls on and show data.
- Of the validation workers: configuration files and command lines, the arithmetic of
  their deadlines (a deadline may pass at any look), and frames the lamp handles after
  their connection was closed.  The code waits them out by a quarantine and a queried
  barrier on the same connection (`aquarius_validation.py:5-8`); a lamp that handled
  one still later could undo a recovery that was reported as confirmed.
- Access checks, secret checks, release builds, packaging and tests: scripts without
  state of their own.

## 7. Plan

In the order of what matters most:

1. The arithmetic of compact colours and the permutation of channels as pure
   operators, and the rules of the config flow for duplicate targets.
