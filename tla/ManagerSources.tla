------------------------------ MODULE ManagerSources ------------------------------
(* The sources of modules that the manager offers (manager/hahapent/engine.py): the *)
(* saved settings, the cached metadata of the built-in source, and the catalogs in  *)
(* memory. The operations are serialised by a lock; each reloads the settings, plans *)
(* new ones, saves them, and refreshes every catalog. The process may die and files *)
(* may fail between the steps; publishers and the network do as they like at each   *)
(* download.                                                                        *)
EXTENDS Integers, Sequences, SequencesExt

CONSTANTS
  None, Damaged,
  Ids,              \* identities a catalog may claim
  BuiltinId, TestId,
  Repos,            \* public repositories
  BuiltinRepo,      \* that of the bundled and of the test catalog
  Times,            \* readings of a clock that may be set back
  MaxSources,       \* extra_repositories holds 20 at most
  MaxModules,       \* origins that own code at a time
  MaxFetches,       \* downloads of the built-in catalog that succeed
  MaxFaults,        \* failing writes
  MaxTampers,       \* damages to the cache file by somebody else
  MaxCrashes

Origins == [id : Ids, repo : Repos]
Settings == [extras : Seq(Origins), testMode : BOOLEAN]
\* Which download it is, and what the clock said; the bundled metadata is the first.
Metadata == [fetch : 0..MaxFetches, at : Times \union {0}]

Tasks ==
  [step : {"save", "builtin", "fetch", "rest"}, settings : Settings, remote : BOOLEAN,
   selected : Metadata,     \* the catalog chosen so far for the built-in source
   writable : BOOLEAN]      \* cache_writable: the cache, when it was read, was valid or absent

ASSUME SourcesAssumption ==
  /\ {None, Damaged} \intersect Metadata = {} /\ None \notin Tasks
  /\ {BuiltinId, TestId} \subseteq Ids /\ BuiltinId # TestId
  /\ BuiltinRepo \in Repos
  /\ Times \subseteq Nat \ {0} /\ Times # {}
  /\ {MaxSources, MaxModules, MaxFetches, MaxFaults, MaxTampers, MaxCrashes} \subseteq Nat

VARIABLES
  settings,   \* settings.json
  cache,      \* builtin-catalog-cache.json
  owned,      \* origins of the modules in registry.json
  life,       \* of the App: down, starting or up
  catalogs,   \* self.catalogs: repository of each usable source (last ones, if down)
  sources,    \* self.source_states: repository of each listed source
  builtin,    \* the metadata in use for the built-in source
  task,       \* the operation that holds the lock
  result,     \* of the last operation
  fetches, faults, tampers, crashes

disk == <<settings, cache, owned>>
memory == <<catalogs, sources, builtin>>
bounds == <<fetches, faults, tampers, crashes>>
vars == <<disk, life, memory, task, result, bounds>>

EmptySettings == [extras |-> <<>>, testMode |-> FALSE]
Bundled == [fetch |-> 0, at |-> 0]

Init ==
  /\ settings = EmptySettings
  /\ cache = None
  /\ owned = {}
  /\ life = "down"
  /\ catalogs = <<>> /\ sources = <<>>
  /\ builtin = Bundled
  /\ task = None
  /\ result = "none"
  /\ fetches = 0 /\ faults = 0 /\ tampers = 0 /\ crashes = 0

-----------------------------------------------------------------------------
(* Operations, up to the saving of what they planned.                        *)

\* _load_state: no identity and no repository may occur twice.
Readable(s) == \A i, j \in DOMAIN s.extras :
  i # j => s.extras[i].id # s.extras[j].id /\ s.extras[i].repo # s.extras[j].repo

Do(step, planned, remote) ==
  /\ task' = [step |-> step, settings |-> planned, remote |-> remote,
              selected |-> Bundled, writable |-> TRUE]
  /\ UNCHANGED <<disk, memory, result, bounds>>

Start ==
  /\ life = "down" /\ Readable(settings)
  /\ life' = "starting"
  /\ Do("builtin", settings, FALSE)

Called == life = "up" /\ task = None /\ Readable(settings)

Refresh == Called /\ Do("builtin", settings, TRUE) /\ UNCHANGED life

\* Faulty OwnedElsewhere: only code from the same repository counts.
OwnedThere(origin) == \E o \in owned : o.repo = origin.repo /\ o.id # origin.id

\* Installed code, or its backup, belongs to the source with this identity.
OwnedElsewhere(origin) == \E o \in owned : o.id = origin.id /\ o.repo # origin.repo

Planned(extras) == [settings EXCEPT !.extras = extras]

\* The catalog downloaded from origin.repo claims to be origin.id.
AddSource(origin) ==
  /\ Called
  /\ origin.id \notin DOMAIN sources
  /\ \A id \in DOMAIN sources : sources[id] # origin.repo
  /\ ~OwnedElsewhere(origin)
  /\ Len(settings.extras) < MaxSources
  /\ Do("save", Planned(Append(settings.extras, origin)), FALSE)
  /\ UNCHANGED life

\* Identities occur once in settings that were loaded.
RemoveSource(id) ==
  /\ Called
  /\ \E i \in DOMAIN settings.extras :
       /\ settings.extras[i].id = id
       /\ Do("save", Planned(RemoveAt(settings.extras, i)), FALSE)
  /\ UNCHANGED life

SetTestMode(enabled) ==
  /\ Called
  /\ Do("save", [settings EXCEPT !.testMode = enabled], FALSE)
  /\ UNCHANGED life

\* Any operation may be turned away: unreadable settings, a download that fails, a
\* source that is known, owned elsewhere or not removable.
Refuse ==
  /\ life = "up" /\ task = None
  /\ result' = "error"
  /\ UNCHANGED <<disk, life, memory, task, bounds>>

SaveSettings ==
  /\ task # None /\ task.step = "save"
  /\ settings' = task.settings
  /\ task' = [task EXCEPT !.step = "builtin"]
  /\ UNCHANGED <<cache, owned, life, memory, result, bounds>>

\* Faulty SaveFails: the refresh goes on with settings that may not be on disk.
SaveIgnored(replaced) ==
  /\ task # None /\ task.step = "save" /\ faults < MaxFaults
  /\ settings' = IF replaced THEN task.settings ELSE settings
  /\ faults' = faults + 1
  /\ task' = [task EXCEPT !.step = "builtin"]
  /\ UNCHANGED <<cache, owned, life, memory, result, fetches, tampers, crashes>>

\* atomic_json raises before the file is replaced, or after it.
SaveFails(replaced) ==
  /\ task # None /\ task.step = "save" /\ faults < MaxFaults
  /\ settings' = IF replaced THEN task.settings ELSE settings
  /\ faults' = faults + 1
  /\ task' = None
  /\ result' = "error"
  /\ UNCHANGED <<cache, owned, life, memory, fetches, tampers, crashes>>

-----------------------------------------------------------------------------
(* The refresh.                                                              *)

\* What a manager that has just started would use.
OnDisk == IF cache \in Metadata THEN cache ELSE Bundled

\* Faulty Known: what is in use is not compared with the cache.
KnownOnDisk == OnDisk

\* What is in use stays in use unless the cache is newer by the clock.
Known == IF life = "up" /\ builtin.at >= OnDisk.at THEN builtin ELSE OnDisk

\* The cache is read once, before anything is downloaded.
LoadBuiltin ==
  /\ task # None /\ task.step = "builtin"
  /\ task' = [task EXCEPT !.step = IF task.remote THEN "fetch" ELSE "rest",
                          !.selected = Known, !.writable = cache # Damaged]
  /\ UNCHANGED <<disk, life, memory, result, bounds>>

Downloading == task # None /\ task.step = "fetch"

Selected(metadata) == task' = [task EXCEPT !.step = "rest", !.selected = metadata]

\* The built-in catalog cannot be had or validated, or must not be stored.
KeepBuiltin ==
  /\ Downloading
  /\ Selected(task.selected)
  /\ UNCHANGED <<disk, life, memory, result, bounds>>

\* A valid catalog was downloaded and replaces the cache file, whatever became of the
\* file since it was read; `at' is the time before the download.
Stored(at) ==
  /\ Downloading /\ task.writable /\ fetches < MaxFetches
  /\ fetches' = fetches + 1
  /\ cache' = [fetch |-> fetches', at |-> at]

FetchBuiltin(at) ==
  /\ Stored(at)
  /\ Selected(cache')
  /\ UNCHANGED <<settings, owned, life, memory, result, faults, tampers, crashes>>

\* Faulty StoreFails: the catalog is used although it could not be stored.
UseAnyway(at, replaced) ==
  /\ Downloading /\ task.writable /\ faults < MaxFaults /\ fetches < MaxFetches
  /\ fetches' = fetches + 1
  /\ cache' = IF replaced THEN [fetch |-> fetches', at |-> at] ELSE cache
  /\ Selected([fetch |-> fetches', at |-> at])
  /\ faults' = faults + 1
  /\ UNCHANGED <<settings, owned, life, memory, result, tampers, crashes>>

\* catalog_cache_write_failed: the file may be there all the same.
StoreFails(at, replaced) ==
  /\ Downloading /\ task.writable /\ faults < MaxFaults
  /\ IF replaced THEN Stored(at) ELSE UNCHANGED <<cache, fetches>>
  /\ Selected(task.selected)
  /\ faults' = faults + 1
  /\ UNCHANGED <<settings, owned, life, memory, result, tampers, crashes>>

Fixed(s) == {BuiltinId} \union IF s.testMode THEN {TestId} ELSE {}

\* source_identity_conflict: the identity of an extra source is that of a usable
\* source before it; usable: it was reached and still claims its identity.
Conflict(s, usable) ==
  \E i \in DOMAIN s.extras :
    \/ s.extras[i].id \in Fixed(s)
    \/ \E j \in usable : j < i /\ s.extras[j].id = s.extras[i].id

Listed(s, chosen) ==
  [id \in Fixed(s) \union {s.extras[i].id : i \in chosen} |->
    IF id \in Fixed(s) THEN BuiltinRepo
    ELSE s.extras[Max({i \in chosen : s.extras[i].id = id})].repo]

RefreshRest(usable) ==
  LET s == task.settings
  IN /\ task # None /\ task.step = "rest"
     /\ usable \subseteq DOMAIN s.extras
     /\ ~Conflict(s, usable)
     /\ catalogs' = Listed(s, usable)
     /\ sources' = Listed(s, DOMAIN s.extras)
     /\ builtin' = task.selected
     /\ life' = "up"
     /\ result' = "ok"
     /\ task' = None
     /\ UNCHANGED <<disk, bounds>>

\* Nothing in memory changes; a manager that is starting gives up.
RefreshConflicts(usable) ==
  /\ task # None /\ task.step = "rest"
  /\ usable \subseteq DOMAIN task.settings.extras
  /\ Conflict(task.settings, usable)
  /\ life' = IF life = "starting" THEN "down" ELSE life
  /\ result' = "error"
  /\ task' = None
  /\ UNCHANGED <<disk, memory, bounds>>

-----------------------------------------------------------------------------
(* Around the sources.                                                       *)

\* A module of a usable source is installed; it may take over the place of one that
\* was removed, and with it the last claim of its source (ManagerEngine).
Install(id) ==
  /\ Called
  /\ id \in DOMAIN catalogs
  /\ \E gone \in {{}} \union {{o} : o \in owned} :
       owned' = (owned \ gone) \union {[id |-> id, repo |-> catalogs[id]]}
  /\ Cardinality(owned') <= MaxModules
  /\ UNCHANGED <<settings, cache, life, memory, task, result, bounds>>

Crash ==
  /\ life # "down" /\ crashes < MaxCrashes
  /\ life' = "down"
  /\ task' = None
  /\ crashes' = crashes + 1
  /\ UNCHANGED <<disk, memory, result, fetches, faults, tampers>>

\* Somebody removes or damages the cache file.
Tamper(found) ==
  /\ tampers < MaxTampers
  /\ cache' = found
  /\ tampers' = tampers + 1
  /\ UNCHANGED <<settings, owned, life, memory, task, result, fetches, faults, crashes>>

Next ==
  \/ Start
  \/ Refresh
  \/ \E origin \in Origins : AddSource(origin)
  \/ \E id \in Ids : RemoveSource(id)
  \/ \E enabled \in BOOLEAN : SetTestMode(enabled)
  \/ Refuse
  \/ SaveSettings
  \/ \E replaced \in BOOLEAN : SaveFails(replaced)
  \/ LoadBuiltin
  \/ KeepBuiltin
  \/ \E at \in Times : FetchBuiltin(at)
  \/ \E at \in Times, replaced \in BOOLEAN : StoreFails(at, replaced)
  \/ \E usable \in SUBSET (1..MaxSources) : RefreshRest(usable)
  \/ \E usable \in SUBSET (1..MaxSources) : RefreshConflicts(usable)
  \/ \E id \in Ids : Install(id)
  \/ Crash
  \/ \E found \in {None, Damaged} : Tamper(found)

Spec == Init /\ [][Next]_vars
-----------------------------------------------------------------------------
(* Properties.                                                               *)

TypeOK ==
  /\ settings \in Settings
  /\ cache \in Metadata \union {None, Damaged}
  /\ owned \subseteq Origins
  /\ life \in {"down", "starting", "up"}
  /\ DOMAIN catalogs \subseteq DOMAIN sources /\ DOMAIN sources \subseteq Ids
  /\ \A id \in DOMAIN sources : sources[id] \in Repos
  /\ \A id \in DOMAIN catalogs : catalogs[id] \in Repos
  /\ builtin \in Metadata
  /\ task \in Tasks \union {None}
  /\ result \in {"none", "ok", "error"}

\* An operation that succeeded is durable: the sources it shows are those a restart
\* would read from settings.json, and no others are offered.
SuccessMeansSaved ==
  life = "up" /\ result = "ok" /\ task = None =>
    DOMAIN sources = Fixed(settings) \union {settings.extras[i].id : i \in DOMAIN settings.extras}

\* "Retained installed ownership may not be rebound by removing/readding a source"
\* (add_source): what is offered under an identity that owns code comes from the
\* repository of that code, whatever publishers claim and operations fail. The one
\* exception is the shipped test catalog, which test mode offers without asking who
\* owns code under its identity (set_test_mode, _refresh_catalogs).
OwnershipNotRebound ==
  life = "up" =>
    \A id \in DOMAIN catalogs :
      OwnedElsewhere([id |-> id, repo |-> catalogs[id]]) =>
        id = TestId /\ catalogs[id] = BuiltinRepo

\* The same without the exception: false of the code (README, section 4).
OwnershipNeverRebound ==
  life = "up" => \A id \in DOMAIN catalogs : ~OwnedElsewhere([id |-> id, repo |-> catalogs[id]])

\* The built-in metadata in use is never replaced by an earlier publication, neither
\* by a failed refresh, nor by a clock that was set back, nor by a restart, unless
\* somebody took the cache file away before it (_refresh_builtin).
MetadataNeverGoesBack ==
  [][builtin'.fetch < builtin.fetch => life # "up" /\ OnDisk = Bundled]_vars

\* What is in use outlives the process: the cache file, unless somebody took it away,
\* holds it or a later publication, and a download is not used before it is stored
\* (_refresh_builtin). A restart then finds no earlier one than what was shown.
InUseIsStored ==
  cache \in Metadata \/ tampers = 0 => OnDisk.fetch >= builtin.fetch

\* "Preserve malformed/future cache documents for explicit recovery" (_refresh_builtin):
\* false of a file that is damaged during the download (README, section 4).
DamagedCacheKept ==
  [][cache = Damaged /\ cache' # Damaged => tampers' > tampers]_vars

\* The settings never hold a source twice: the next start would refuse them
\* (_load_state), and so would every later operation.
NoSourceTwice == Readable(settings)

\* Test mode survives a restart: settings that were saved never hold an extra source
\* with the identity of the test catalog, for which no manager would start.
TestModeCanStart ==
  settings.testMode =>
    \A i \in DOMAIN settings.extras : settings.extras[i].id # TestId
=============================================================================
