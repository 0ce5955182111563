--------------------------- MODULE ManagerSourcesProofs ---------------------------
(* Theorems about ManagerSources, for any repositories, identities, clocks and any   *)
(* number of operations, failing writes and crashes.                                *)
EXTENDS ManagerSources, SequenceTheorems, TLAPS

\* The part of the types that the proofs need.
Typed ==
  /\ settings \in Settings
  /\ cache \in Metadata \union {None, Damaged}
  /\ builtin \in Metadata
  /\ owned \subseteq Origins
  /\ task \in Tasks \union {None}
  /\ fetches \in 0..MaxFetches

\* No extra source has the identity of the built-in one, or of code that came from
\* another repository.
Trusted(s) ==
  \A i \in DOMAIN s.extras :
    s.extras[i].id # BuiltinId /\ ~OwnedElsewhere(s.extras[i])

\* An extra source that is offered is offered from its own repository.
Agrees(s) ==
  life = "up" /\ Readable(s) =>
    \A i \in DOMAIN s.extras :
      s.extras[i].id \in DOMAIN catalogs => catalogs[s.extras[i].id] = s.extras[i].repo

\* The built-in source is always offered, from its repository.
BuiltinOffered ==
  life = "up" => /\ DOMAIN catalogs \subseteq DOMAIN sources
                 /\ DOMAIN catalogs \subseteq Ids
                 /\ \A id \in DOMAIN catalogs : catalogs[id] \in Repos
                 /\ BuiltinId \in DOMAIN catalogs
                 /\ catalogs[BuiltinId] = BuiltinRepo

BuiltinOwned == \A o \in owned : o.id = BuiltinId => o.repo = BuiltinRepo

\* What an operation refreshes with is what it saved.
Saved == task # None /\ task.step # "save" => settings = task.settings

Inv ==
  /\ Typed
  /\ Trusted(settings) /\ (task # None => Trusted(task.settings))
  /\ Agrees(settings) /\ (task # None => Agrees(task.settings))
  /\ BuiltinOffered /\ BuiltinOwned /\ Saved
  /\ OwnershipNotRebound

-----------------------------------------------------------------------------
\* The sources that remain when one is removed were there before.
LEMMA RemoveAtProperties ==
  ASSUME NEW S, NEW s \in Seq(S), NEW i \in DOMAIN s
  PROVE  /\ RemoveAt(s, i) \in Seq(S)
         /\ \A j \in DOMAIN RemoveAt(s, i) : \E k \in DOMAIN s : RemoveAt(s, i)[j] = s[k]
<1> DEFINE front == SubSeq(s, 1, i - 1)
           back == SubSeq(s, i + 1, Len(s))
<1>1. Len(s) \in Nat /\ DOMAIN s = 1..Len(s) /\ i \in 1..Len(s)
  BY LenProperties
<1>2. /\ front \in Seq(S) /\ Len(front) = i - 1
      /\ \A j \in 1..(i - 1) : front[j] = s[j]
  <2>1. \A j \in 1..(i - 1) : s[j] \in S
    BY <1>1, ElementOfSeq
  <2>2. QED
    BY <1>1, <2>1, SubSeqProperties
<1>3. /\ back \in Seq(S) /\ Len(back) = Len(s) - i
      /\ \A j \in 1..(Len(s) - i) : back[j] = s[i + j]
  <2>1. \A j \in (i + 1)..Len(s) : s[j] \in S
    BY <1>1, ElementOfSeq
  <2>2. QED
    BY <1>1, <2>1, SubSeqProperties
<1>4. RemoveAt(s, i) = front \o back
  BY DEF RemoveAt
<1>5. /\ front \o back \in Seq(S)
      /\ DOMAIN (front \o back) = 1..(Len(s) - 1)
      /\ \A j \in 1..(Len(s) - 1) :
           (front \o back)[j] = IF j <= i - 1 THEN s[j] ELSE s[j + 1]
  <2> HIDE DEF front, back
  <2>1. /\ front \o back \in Seq(S) /\ Len(front \o back) = Len(s) - 1
        /\ \A j \in 1..(Len(s) - 1) :
             (front \o back)[j] = IF j <= i - 1 THEN front[j] ELSE back[j - (i - 1)]
    <3>1. /\ front \o back \in Seq(S) /\ Len(front \o back) = Len(front) + Len(back)
          /\ \A j \in 1..(Len(front) + Len(back)) :
               (front \o back)[j] = IF j <= Len(front) THEN front[j] ELSE back[j - Len(front)]
      BY <1>2, <1>3, ConcatProperties
    <3>2. Len(front) + Len(back) = Len(s) - 1 /\ Len(front) = i - 1
      BY <1>1, <1>2, <1>3
    <3>3. QED
      BY <3>1, <3>2
  <2>2. DOMAIN (front \o back) = 1..(Len(s) - 1)
    BY <2>1, LenProperties
  <2>3. ASSUME NEW j \in 1..(Len(s) - 1)
        PROVE  (front \o back)[j] = IF j <= i - 1 THEN s[j] ELSE s[j + 1]
    <3>1. CASE j <= i - 1
      BY <1>1, <1>2, <2>1, <3>1
    <3>2. CASE ~(j <= i - 1)
      <4>1. j - (i - 1) \in 1..(Len(s) - i)
        BY <1>1, <3>2
      <4>2. back[j - (i - 1)] = s[i + (j - (i - 1))]
        BY <1>3, <4>1
      <4>3. i + (j - (i - 1)) = j + 1
        BY <1>1
      <4>4. QED
        BY <2>1, <3>2, <4>2, <4>3
    <3>3. QED
      BY <3>1, <3>2
  <2>4. QED
    BY <2>1, <2>2, <2>3
<1>6. QED
  <2>1. ASSUME NEW j \in 1..(Len(s) - 1)
        PROVE  \E k \in 1..Len(s) : (front \o back)[j] = s[k]
    <3>1. j \in 1..Len(s) /\ j + 1 \in 1..Len(s)
      BY <1>1
    <3>2. QED
      BY <1>5, <3>1
  <2>2. QED
    BY <1>1, <1>4, <1>5, <2>1
-----------------------------------------------------------------------------
\* A saved list without one source, or with a new one, has no other sources.
LEMMA TrustedKept ==
  ASSUME NEW s, NEW t,
         \A j \in DOMAIN t.extras : \E k \in DOMAIN s.extras : t.extras[j] = s.extras[k]
  PROVE  /\ Trusted(s) => Trusted(t)
         /\ Agrees(s) /\ Readable(s) => Agrees(t)
BY DEF Trusted, Agrees

LEMMA MaxSingleton == \A i \in Nat : Max({i}) = i
BY DEF Max

LEMMA DomainOfSettings ==
  ASSUME NEW s \in Settings
  PROVE  /\ s.extras \in Seq(Origins) /\ DOMAIN s.extras = 1..Len(s.extras)
         /\ Len(s.extras) \in Nat /\ s.testMode \in BOOLEAN
         /\ \A i \in DOMAIN s.extras : s.extras[i] \in Origins
BY ElementOfSeq, LenProperties DEF Settings

\* Without a conflict every usable extra source is listed once, from its repository.
LEMMA ListedProperties ==
  ASSUME NEW s \in Settings, NEW usable, usable \subseteq DOMAIN s.extras,
         NEW chosen, usable \subseteq chosen, chosen \subseteq DOMAIN s.extras,
         ~Conflict(s, usable)
  PROVE  /\ DOMAIN Listed(s, chosen) = Fixed(s) \union {s.extras[i].id : i \in chosen}
         /\ \A id \in Fixed(s) : Listed(s, chosen)[id] = BuiltinRepo
         /\ \A i \in usable : s.extras[i].id \notin Fixed(s)
         /\ \A i \in usable : Listed(s, usable)[s.extras[i].id] = s.extras[i].repo
<1>1. /\ DOMAIN Listed(s, chosen) = Fixed(s) \union {s.extras[i].id : i \in chosen}
      /\ \A id \in Fixed(s) : Listed(s, chosen)[id] = BuiltinRepo
  BY DEF Listed
<1>2. \A i \in usable : s.extras[i].id \notin Fixed(s)
  BY DEF Conflict
<1>3. ASSUME NEW i \in usable
      PROVE  Listed(s, usable)[s.extras[i].id] = s.extras[i].repo
  <2>1. usable \subseteq Nat
    BY DomainOfSettings
  <2>2. {j \in usable : s.extras[j].id = s.extras[i].id} = {i}
    <3>1. ASSUME NEW j \in usable, s.extras[j].id = s.extras[i].id
          PROVE  j = i
      <4>1. ~(j < i) /\ ~(i < j)
        BY <3>1 DEF Conflict
      <4>2. QED
        BY <2>1, <4>1
    <3>2. QED
      BY <3>1
  <2>3. Max({j \in usable : s.extras[j].id = s.extras[i].id}) = i
    BY <2>1, <2>2, MaxSingleton
  <2>4. QED
    BY <1>2, <2>3 DEF Listed
<1>4. QED
  BY <1>1, <1>2, <1>3
-----------------------------------------------------------------------------
LEMMA BundledIsMetadata == Bundled \in Metadata /\ EmptySettings \in Settings
BY SourcesAssumption DEF Bundled, Metadata, EmptySettings, Settings

LEMMA InitInv == Init => Inv
BY BundledIsMetadata, SourcesAssumption
   DEF Init, Inv, Typed, EmptySettings, Trusted, Agrees, BuiltinOffered, BuiltinOwned,
       Saved, OwnershipNotRebound

\* An operation that plans these settings keeps the invariant.
LEMMA DoKeepsInv ==
  ASSUME Inv, life' = life \/ life' # "up",
         NEW step \in {"save", "builtin", "fetch", "rest"}, NEW planned \in Settings,
         NEW remote \in BOOLEAN, Do(step, planned, remote),
         step # "save" => planned = settings, Trusted(planned), Agrees(planned)
  PROVE  Inv'
<1> USE DEF Do, disk, memory, bounds
<1>1. Typed'
  BY BundledIsMetadata DEF Inv, Typed, Tasks
<1>2. Trusted(settings)' /\ (task # None => Trusted(task.settings))'
  BY DEF Inv, Trusted, OwnedElsewhere
<1>3. Agrees(settings)' /\ (task # None => Agrees(task.settings))'
  BY DEF Inv, Agrees, Readable
<1>4. BuiltinOffered' /\ BuiltinOwned' /\ Saved' /\ OwnershipNotRebound'
  BY DEF Inv, BuiltinOffered, BuiltinOwned, Saved, OwnershipNotRebound, OwnedElsewhere
<1>5. QED
  BY <1>1, <1>2, <1>3, <1>4 DEF Inv

LEMMA StartKeepsInv == Inv /\ Start => Inv'
<1> SUFFICES ASSUME Inv, Start PROVE Inv'
  OBVIOUS
<1>1. Agrees(settings) /\ Trusted(settings) /\ settings \in Settings
  BY DEF Inv, Typed
<1>2. QED
  BY <1>1, DoKeepsInv DEF Start

LEMMA RefreshKeepsInv == Inv /\ Refresh => Inv'
<1> SUFFICES ASSUME Inv, Refresh PROVE Inv'
  OBVIOUS
<1>1. Agrees(settings) /\ Trusted(settings) /\ settings \in Settings
  BY DEF Inv, Typed
<1>2. QED
  BY <1>1, DoKeepsInv DEF Refresh

LEMMA SetTestModeKeepsInv == \A enabled \in BOOLEAN : Inv /\ SetTestMode(enabled) => Inv'
<1> SUFFICES ASSUME Inv, NEW enabled \in BOOLEAN, SetTestMode(enabled) PROVE Inv'
  OBVIOUS
<1> DEFINE planned == [settings EXCEPT !.testMode = enabled]
<1>1. planned \in Settings /\ planned.extras = settings.extras
  BY DEF Inv, Typed, Settings
<1>2. Trusted(planned)
  BY <1>1 DEF Inv, Trusted
<1>3. Agrees(planned)
  BY <1>1 DEF Inv, Agrees, Readable
<1>4. Do("save", planned, FALSE) /\ life' = life
  BY DEF SetTestMode
<1> HIDE DEF planned
<1>5. QED
  BY <1>1, <1>2, <1>3, <1>4, DoKeepsInv

\* The identity is new, and nobody else's code has it.
LEMMA AddSourceKeepsInv == \A origin \in Origins : Inv /\ AddSource(origin) => Inv'
<1> SUFFICES ASSUME Inv, NEW origin \in Origins, AddSource(origin) PROVE Inv'
  OBVIOUS
<1> DEFINE planned == Planned(Append(settings.extras, origin))
<1>1. /\ settings \in Settings /\ settings.extras \in Seq(Origins)
      /\ DOMAIN settings.extras = 1..Len(settings.extras) /\ Len(settings.extras) \in Nat
  BY DomainOfSettings DEF Inv, Typed
<1>2. planned \in Settings /\ planned.extras = Append(settings.extras, origin)
  <2>1. Append(settings.extras, origin) \in Seq(Origins)
    BY <1>1
  <2>2. QED
    BY <1>1, <2>1 DEF Settings, Planned
<1>3. /\ DOMAIN planned.extras = 1..(Len(settings.extras) + 1)
      /\ \A i \in DOMAIN settings.extras : planned.extras[i] = settings.extras[i]
      /\ planned.extras[Len(settings.extras) + 1] = origin
  BY <1>1, <1>2, AppendProperties
<1>4. /\ origin.id \notin DOMAIN sources /\ ~OwnedElsewhere(origin)
      /\ Do("save", planned, FALSE) /\ life' = life /\ life = "up" /\ Readable(settings)
  BY DEF AddSource, Called
<1>5. origin.id # BuiltinId /\ origin.id \notin DOMAIN catalogs
  BY <1>4 DEF Inv, BuiltinOffered
<1> HIDE DEF planned
<1>6. Trusted(planned)
  <2>1. ASSUME NEW i \in DOMAIN planned.extras
        PROVE  planned.extras[i].id # BuiltinId /\ ~OwnedElsewhere(planned.extras[i])
    <3>1. CASE i \in DOMAIN settings.extras
      BY <1>3, <3>1 DEF Inv, Trusted
    <3>2. CASE i = Len(settings.extras) + 1
      BY <1>3, <1>4, <1>5, <3>2
    <3>3. QED
      BY <1>1, <1>3, <3>1, <3>2
  <2>2. QED
    BY <2>1 DEF Trusted
<1>7. Agrees(planned)
  <2>1. ASSUME NEW i \in DOMAIN planned.extras,
               planned.extras[i].id \in DOMAIN catalogs
        PROVE  catalogs[planned.extras[i].id] = planned.extras[i].repo
    <3>1. i # Len(settings.extras) + 1
      BY <1>3, <1>5, <2>1
    <3>2. i \in DOMAIN settings.extras
      BY <1>1, <1>3, <3>1
    <3>3. QED
      BY <1>3, <1>4, <2>1, <3>2 DEF Inv, Agrees
  <2>2. QED
    BY <2>1 DEF Agrees
<1>8. QED
  BY <1>2, <1>4, <1>6, <1>7, DoKeepsInv

LEMMA RemoveSourceKeepsInv == \A id \in Ids : Inv /\ RemoveSource(id) => Inv'
<1> SUFFICES ASSUME Inv, NEW id \in Ids, RemoveSource(id) PROVE Inv'
  OBVIOUS
<1>1. PICK i \in DOMAIN settings.extras :
        Do("save", Planned(RemoveAt(settings.extras, i)), FALSE)
  BY DEF RemoveSource
<1> DEFINE planned == Planned(RemoveAt(settings.extras, i))
<1>2. settings \in Settings /\ settings.extras \in Seq(Origins)
  BY DomainOfSettings DEF Inv, Typed
<1>3. /\ RemoveAt(settings.extras, i) \in Seq(Origins)
      /\ \A j \in DOMAIN RemoveAt(settings.extras, i) :
           \E k \in DOMAIN settings.extras : RemoveAt(settings.extras, i)[j] = settings.extras[k]
  BY <1>2, RemoveAtProperties
<1>4. planned \in Settings /\ planned.extras = RemoveAt(settings.extras, i)
  BY <1>2, <1>3 DEF Settings, Planned
<1>5. life' = life /\ Readable(settings)
  BY DEF RemoveSource, Called
<1> HIDE DEF planned
<1>6. Trusted(planned) /\ Agrees(planned)
  BY <1>3, <1>4, <1>5, TrustedKept DEF Inv
<1>7. Do("save", planned, FALSE)
  BY <1>1 DEF planned
<1>8. QED
  BY <1>4, <1>5, <1>6, <1>7, DoKeepsInv

\* The files change as planned, or not at all.
LEMMA SaveKeepsInv ==
  ASSUME Inv, task # None, settings' \in {task.settings, settings},
         \/ settings' = task.settings /\ task' = [task EXCEPT !.step = "builtin"]
         \/ task' = None,
         UNCHANGED <<cache, owned, life, memory, fetches>>
  PROVE  Inv'
<1> USE DEF memory
<1>1. task \in Tasks
  BY DEF Inv, Typed
<1>2. /\ task' \in Tasks \union {None}
      /\ task' # None => task'.settings = task.settings /\ task'.settings = settings'
  BY <1>1 DEF Tasks
<1>3. Typed'
  BY <1>1, <1>2 DEF Inv, Typed, Tasks
<1>4. Trusted(settings)' /\ (task # None => Trusted(task.settings))'
  BY <1>2 DEF Inv, Trusted, OwnedElsewhere
<1>5. Agrees(settings)' /\ (task # None => Agrees(task.settings))'
  BY <1>2 DEF Inv, Agrees, Readable
<1>6. BuiltinOffered' /\ BuiltinOwned' /\ Saved' /\ OwnershipNotRebound'
  BY <1>2 DEF Inv, BuiltinOffered, BuiltinOwned, Saved, OwnershipNotRebound, OwnedElsewhere
<1>7. QED
  BY <1>3, <1>4, <1>5, <1>6 DEF Inv
\* Catalog metadata and the outcome are no concern of ownership.
LEMMA MetadataKeepsInv ==
  ASSUME Inv, Typed', UNCHANGED <<settings, owned, catalogs, sources>>,
         life' = life \/ life' # "up",
         \/ task' = task
         \/ task' = None
         \/ task # None /\ task.step # "save" /\ task'.settings = task.settings
  PROVE  Inv'
<1>1. Trusted(settings)' /\ (task # None => Trusted(task.settings))'
  BY DEF Inv, Trusted, OwnedElsewhere
<1>2. Agrees(settings)' /\ (task # None => Agrees(task.settings))'
  BY DEF Inv, Agrees, Readable
<1>3. BuiltinOffered' /\ BuiltinOwned' /\ OwnershipNotRebound'
  BY DEF Inv, BuiltinOffered, BuiltinOwned, OwnershipNotRebound, OwnedElsewhere
<1>4. Saved'
  BY DEF Inv, Saved
<1>5. QED
  BY <1>1, <1>2, <1>3, <1>4 DEF Inv

LEMMA KnownIsMetadata == Typed => Known \in Metadata /\ OnDisk \in Metadata
BY BundledIsMetadata DEF Typed, Known, OnDisk

\* Whichever way the built-in catalog is refreshed, the operation goes on.
LEMMA BuiltinKeepsInv ==
  ASSUME Inv, task # None, task.step # "save",
         task' \in Tasks, task'.settings = task.settings,
         cache' = cache \/ cache' \in Metadata, fetches' \in 0..MaxFetches,
         UNCHANGED <<settings, owned, life, memory>>
  PROVE  Inv'
<1>1. Typed'
  BY DEF Inv, Typed, memory
<1>2. QED
  BY <1>1, MetadataKeepsInv DEF memory

\* What a step makes of the operation.
LEMMA TaskGoesOn ==
  ASSUME Typed, task # None
  PROVE  /\ task \in Tasks /\ task.selected \in Metadata
         /\ \A m \in Metadata : Selected(m) =>
              /\ task' \in Tasks /\ task'.settings = task.settings
              /\ task'.selected = m /\ task'.remote = task.remote /\ task'.step = "rest"
         /\ LoadBuiltin =>
              /\ task' \in Tasks /\ task'.settings = task.settings
              /\ task'.selected = Known /\ task'.remote = task.remote
              /\ task'.step \in {"fetch", "rest"} /\ (task'.step = "fetch" => task.remote)
<1>1. task \in Tasks /\ task.selected \in Metadata
  BY DEF Typed, Tasks
<1>2. ASSUME NEW m \in Metadata, Selected(m)
      PROVE  /\ task' \in Tasks /\ task'.settings = task.settings
             /\ task'.selected = m /\ task'.remote = task.remote /\ task'.step = "rest"
  BY <1>1, <1>2 DEF Tasks, Selected
<1>3. ASSUME LoadBuiltin
      PROVE  /\ task' \in Tasks /\ task'.settings = task.settings
             /\ task'.selected = Known /\ task'.remote = task.remote
             /\ task'.step \in {"fetch", "rest"} /\ (task'.step = "fetch" => task.remote)
  <2>1. Known \in Metadata
    BY KnownIsMetadata
  <2> DEFINE step == IF task.remote THEN "fetch" ELSE "rest"
             writable == cache # Damaged
  <2>2. task' = [task EXCEPT !.step = step, !.selected = Known, !.writable = writable]
    BY <1>3 DEF LoadBuiltin
  <2>3. step \in {"fetch", "rest"} /\ (step = "fetch" => task.remote) /\ writable \in BOOLEAN
    OBVIOUS
  <2> HIDE DEF step, writable
  <2>4. QED
    BY <1>1, <2>1, <2>2, <2>3 DEF Tasks
<1>4. QED
  BY <1>1, <1>2, <1>3

LEMMA FetchKeepsInv ==
  \A at \in Times :
    /\ Inv /\ FetchBuiltin(at) => Inv'
    /\ \A replaced \in BOOLEAN : Inv /\ StoreFails(at, replaced) => Inv'
<1> SUFFICES ASSUME Inv, NEW at \in Times
             PROVE  /\ FetchBuiltin(at) => Inv'
                    /\ \A replaced \in BOOLEAN : StoreFails(at, replaced) => Inv'
  OBVIOUS
<1>1. Typed /\ fetches \in 0..MaxFetches
  BY DEF Inv, Typed
<1>2. Stored(at) => /\ cache' \in Metadata /\ fetches' \in 0..MaxFetches
                    /\ task # None /\ task.step = "fetch"
  BY <1>1, SourcesAssumption DEF Stored, Downloading, Metadata
<1>3. ASSUME FetchBuiltin(at) PROVE Inv'
  <2>1. /\ cache' \in Metadata /\ fetches' \in 0..MaxFetches /\ Selected(cache')
        /\ task # None /\ task.step = "fetch"
        /\ UNCHANGED <<settings, owned, life, memory>>
    BY <1>2, <1>3 DEF FetchBuiltin
  <2>2. task' \in Tasks /\ task'.settings = task.settings
    BY <1>1, <2>1, TaskGoesOn
  <2>3. QED
    BY <2>1, <2>2, BuiltinKeepsInv
<1>4. ASSUME NEW replaced \in BOOLEAN, StoreFails(at, replaced)
      PROVE  Inv'
  <2>1. /\ cache' = cache \/ cache' \in Metadata
        /\ fetches' \in 0..MaxFetches
    BY <1>1, <1>2, <1>4 DEF StoreFails
  <2>2. /\ task # None /\ task.step = "fetch" /\ Selected(task.selected)
        /\ UNCHANGED <<settings, owned, life, memory>>
    BY <1>4 DEF StoreFails, Downloading
  <2>3. task' \in Tasks /\ task'.settings = task.settings
    BY <1>1, <2>2, TaskGoesOn
  <2>4. QED
    BY <2>1, <2>2, <2>3, BuiltinKeepsInv
<1>5. QED
  BY <1>3, <1>4

LEMMA LoadAndKeepBuiltinKeepInv ==
  /\ Inv /\ LoadBuiltin => Inv'
  /\ Inv /\ KeepBuiltin => Inv'
<1> SUFFICES ASSUME Inv, LoadBuiltin \/ KeepBuiltin PROVE Inv'
  OBVIOUS
<1>1. Typed /\ fetches' = fetches /\ fetches \in 0..MaxFetches /\ cache' = cache
      /\ task # None /\ task.step # "save"
      /\ UNCHANGED <<settings, owned, life, memory>>
  BY DEF Inv, Typed, LoadBuiltin, KeepBuiltin, Downloading, disk, memory, bounds
<1>2. task' \in Tasks /\ task'.settings = task.settings
  BY <1>1, TaskGoesOn DEF KeepBuiltin
<1>3. QED
  BY <1>1, <1>2, BuiltinKeepsInv

\* A refresh offers what it saved: none of it has an identity that owns other code.
LEMMA RefreshRestKeepsInv == \A usable : Inv /\ RefreshRest(usable) => Inv'
<1> SUFFICES ASSUME Inv, NEW usable, RefreshRest(usable) PROVE Inv'
  OBVIOUS
<1> DEFINE s == task.settings
           extras == DOMAIN s.extras
<1>1. /\ task # None /\ task.step = "rest" /\ usable \subseteq extras
      /\ ~Conflict(s, usable)
      /\ catalogs' = Listed(s, usable) /\ sources' = Listed(s, extras)
      /\ builtin' = task.selected /\ life' = "up" /\ task' = None
      /\ UNCHANGED <<settings, cache, owned, fetches>>
  BY DEF RefreshRest, disk, bounds
<1>2. task \in Tasks /\ s \in Settings /\ task.selected \in Metadata /\ s = settings
  BY <1>1 DEF Inv, Typed, Tasks, Saved
<1>3. /\ \A i \in extras : s.extras[i] \in Origins
      /\ Fixed(s) = {BuiltinId} \union IF s.testMode THEN {TestId} ELSE {}
  BY <1>2, DomainOfSettings DEF Fixed
<1> HIDE DEF s
<1>4. /\ DOMAIN catalogs' = Fixed(s) \union {s.extras[i].id : i \in usable}
      /\ \A id \in Fixed(s) : catalogs'[id] = BuiltinRepo
      /\ \A i \in usable : s.extras[i].id \notin Fixed(s)
      /\ \A i \in usable : catalogs'[s.extras[i].id] = s.extras[i].repo
  <2>1. usable \subseteq extras /\ ~Conflict(s, usable)
    BY <1>1
  <2>2. /\ DOMAIN Listed(s, usable) = Fixed(s) \union {s.extras[i].id : i \in usable}
        /\ \A id \in Fixed(s) : Listed(s, usable)[id] = BuiltinRepo
        /\ \A i \in usable : s.extras[i].id \notin Fixed(s)
        /\ \A i \in usable : Listed(s, usable)[s.extras[i].id] = s.extras[i].repo
    BY <1>2, <2>1, ListedProperties
  <2>3. QED
    BY <1>1, <2>2
<1>5. DOMAIN sources' = Fixed(s) \union {s.extras[i].id : i \in extras}
  BY <1>1, <1>2, ListedProperties
<1>6. Typed'
  BY <1>1, <1>2 DEF Inv, Typed
<1>7. Trusted(settings)'
  BY <1>1, <1>2 DEF Inv, Trusted, OwnedElsewhere
<1>8. Agrees(settings)'
  <2>1. ASSUME Readable(s), NEW i \in extras, s.extras[i].id \in DOMAIN catalogs'
        PROVE  catalogs'[s.extras[i].id] = s.extras[i].repo
    <3>1. s.extras[i].id \notin Fixed(s)
      BY <1>1 DEF Conflict
    <3>2. PICK j \in usable : s.extras[j].id = s.extras[i].id
      BY <1>4, <2>1, <3>1
    <3>3. j = i
      BY <1>1, <2>1, <3>2 DEF Readable
    <3>4. QED
      BY <1>4, <3>2, <3>3
  <2>2. QED
    BY <1>1, <1>2, <2>1 DEF Agrees, Readable
<1>9. BuiltinOffered'
  <2>1. \A id \in DOMAIN catalogs' : id \in Ids /\ catalogs'[id] \in Repos
    BY <1>1, <1>3, <1>4, SourcesAssumption DEF Origins
  <2>2. QED
    BY <1>1, <1>3, <1>4, <1>5, <2>1 DEF BuiltinOffered
<1>10. BuiltinOwned' /\ Saved'
  BY <1>1 DEF Inv, BuiltinOwned, Saved
<1>11. OwnershipNotRebound'
  <2>1. ASSUME NEW id \in DOMAIN catalogs', id # TestId \/ catalogs'[id] # BuiltinRepo,
               NEW o \in owned, o.id = id
        PROVE  o.repo = catalogs'[id]
    <3>1. CASE id = BuiltinId
      BY <1>3, <1>4, <2>1, <3>1 DEF Inv, BuiltinOwned
    <3>2. CASE id # BuiltinId
      <4>1. PICK i \in usable : s.extras[i].id = id
        BY <1>3, <1>4, <2>1, <3>2
      <4>2. ~OwnedElsewhere(s.extras[i])
        BY <1>1, <1>2, <4>1 DEF Inv, Trusted
      <4>3. QED
        BY <1>4, <2>1, <4>1, <4>2 DEF OwnedElsewhere
    <3>3. QED
      BY <3>1, <3>2
  <2>2. QED
    BY <1>1, <2>1 DEF OwnershipNotRebound, OwnedElsewhere
<1>12. QED
  BY <1>1, <1>6, <1>7, <1>8, <1>9, <1>10, <1>11 DEF Inv
LEMMA RefreshConflictsKeepsInv == \A usable : Inv /\ RefreshConflicts(usable) => Inv'
<1> SUFFICES ASSUME Inv, NEW usable, RefreshConflicts(usable) PROVE Inv'
  OBVIOUS
<1>1. Typed'
  BY DEF Inv, Typed, RefreshConflicts, disk, memory, bounds
<1>2. QED
  BY <1>1, MetadataKeepsInv DEF RefreshConflicts, disk, memory

\* New code comes from a source that is offered, so that the saved ones agree with it.
LEMMA InstallKeepsInv == \A id \in Ids : Inv /\ Install(id) => Inv'
<1> SUFFICES ASSUME Inv, NEW id \in Ids, Install(id) PROVE Inv'
  OBVIOUS
<1> DEFINE new == [id |-> id, repo |-> catalogs[id]]
<1>1. /\ life = "up" /\ task = None /\ Readable(settings)
      /\ id \in DOMAIN catalogs /\ owned' \subseteq owned \union {new}
      /\ UNCHANGED <<settings, cache, life, memory, task, fetches>>
  BY DEF Install, Called, bounds
<1>2. new.id = id /\ new.repo = catalogs[id] /\ new \in Origins
  BY <1>1 DEF Inv, BuiltinOffered, Origins
<1> HIDE DEF new
<1>3. Typed'
  BY <1>1, <1>2 DEF Inv, Typed, memory
<1>4. Trusted(settings)'
  <2>1. ASSUME NEW i \in DOMAIN settings.extras,
               NEW o \in owned', o.id = settings.extras[i].id
        PROVE  o.repo = settings.extras[i].repo
    <3>1. CASE o \in owned
      BY <2>1, <3>1 DEF Inv, Trusted, OwnedElsewhere
    <3>2. CASE o = new
      BY <1>1, <1>2, <2>1, <3>2 DEF Inv, Agrees
    <3>3. QED
      BY <1>1, <3>1, <3>2
  <2>2. QED
    BY <1>1, <2>1 DEF Inv, Trusted, OwnedElsewhere
<1>5. Agrees(settings)' /\ BuiltinOffered' /\ Saved'
  BY <1>1 DEF Inv, Agrees, Readable, BuiltinOffered, Saved, memory
<1>6. BuiltinOwned'
  BY <1>1, <1>2 DEF Inv, BuiltinOwned, BuiltinOffered
<1>7. OwnershipNotRebound'
  <2>1. ASSUME NEW other \in DOMAIN catalogs,
               other # TestId \/ catalogs[other] # BuiltinRepo,
               NEW o \in owned', o.id = other
        PROVE  o.repo = catalogs[other]
    <3>1. CASE o \in owned
      BY <1>1, <2>1, <3>1 DEF Inv, OwnershipNotRebound, OwnedElsewhere
    <3>2. CASE o = new
      BY <1>2, <2>1, <3>2
    <3>3. QED
      BY <1>1, <3>1, <3>2
  <2>2. QED
    BY <1>1, <2>1 DEF OwnershipNotRebound, OwnedElsewhere, memory
<1>8. QED
  BY <1>1, <1>3, <1>4, <1>5, <1>6, <1>7 DEF Inv

LEMMA CrashKeepsInv == Inv /\ Crash => Inv'
<1> SUFFICES ASSUME Inv, Crash PROVE Inv'
  OBVIOUS
<1>1. Typed'
  BY DEF Inv, Typed, Crash, disk, memory
<1>2. QED
  BY <1>1, MetadataKeepsInv DEF Crash, disk, memory

LEMMA OthersKeepInv ==
  /\ Inv /\ Refuse => Inv'
  /\ \A found \in {None, Damaged} : Inv /\ Tamper(found) => Inv'
<1>1. ASSUME Inv, Refuse PROVE Inv'
  <2>1. Typed'
    BY <1>1 DEF Inv, Typed, Refuse, disk, memory, bounds
  <2>2. QED
    BY <1>1, <2>1, MetadataKeepsInv DEF Refuse, disk, memory
<1>2. ASSUME Inv, NEW found \in {None, Damaged}, Tamper(found) PROVE Inv'
  <2>1. Typed'
    BY <1>2 DEF Inv, Typed, Tamper, memory
  <2>2. QED
    BY <1>2, <2>1, MetadataKeepsInv DEF Tamper, memory
<1>3. QED
  BY <1>1, <1>2

LEMMA NextKeepsInv == Inv /\ [Next]_vars => Inv'
<1> SUFFICES ASSUME Inv, [Next]_vars PROVE Inv'
  OBVIOUS
<1>1. CASE Start
  BY <1>1, StartKeepsInv
<1>2. CASE Refresh
  BY <1>2, RefreshKeepsInv
<1>3. CASE \E origin \in Origins : AddSource(origin)
  BY <1>3, AddSourceKeepsInv
<1>4. CASE \E id \in Ids : RemoveSource(id)
  BY <1>4, RemoveSourceKeepsInv
<1>5. CASE \E enabled \in BOOLEAN : SetTestMode(enabled)
  BY <1>5, SetTestModeKeepsInv
<1>6. CASE Refuse
  BY <1>6, OthersKeepInv
<1>7. CASE SaveSettings
  BY <1>7, SaveKeepsInv DEF SaveSettings, bounds
<1>8. CASE \E replaced \in BOOLEAN : SaveFails(replaced)
  BY <1>8, SaveKeepsInv DEF SaveFails
<1>9. CASE LoadBuiltin \/ KeepBuiltin
  BY <1>9, LoadAndKeepBuiltinKeepInv
<1>10. CASE \E at \in Times : FetchBuiltin(at)
  BY <1>10, FetchKeepsInv
<1>11. CASE \E at \in Times, replaced \in BOOLEAN : StoreFails(at, replaced)
  BY <1>11, FetchKeepsInv
<1>12. CASE \E usable \in SUBSET (1..MaxSources) : RefreshRest(usable)
  BY <1>12, RefreshRestKeepsInv
<1>13. CASE \E usable \in SUBSET (1..MaxSources) : RefreshConflicts(usable)
  BY <1>13, RefreshConflictsKeepsInv
<1>14. CASE \E id \in Ids : Install(id)
  BY <1>14, InstallKeepsInv
<1>15. CASE Crash
  BY <1>15, CrashKeepsInv
<1>16. CASE \E found \in {None, Damaged} : Tamper(found)
  BY <1>16, OthersKeepInv
<1>17. CASE UNCHANGED vars
  <2>1. Typed'
    BY <1>17 DEF Inv, Typed, vars, disk, memory, bounds
  <2>2. QED
    BY <1>17, <2>1, MetadataKeepsInv DEF vars, disk, memory
<1>18. QED
  BY <1>1, <1>2, <1>3, <1>4, <1>5, <1>6, <1>7, <1>8, <1>9, <1>10, <1>11, <1>12,
     <1>13, <1>14, <1>15, <1>16, <1>17 DEF Next

-----------------------------------------------------------------------------
\* Whatever publishers claim, and however saves, downloads and processes fail, what is
\* offered under an identity that owns code comes from the repository of that code,
\* except for the shipped test catalog under its fixed identity: extra sources never
\* get that identity, or any other, away from the code of another repository
\* (add_source, _refresh_catalogs).
THEOREM OwnershipIsKept == Spec => []OwnershipNotRebound
<1>1. Inv => OwnershipNotRebound
  BY DEF Inv
<1>2. QED
  BY InitInv, NextKeepsInv, <1>1, PTL DEF Spec
-----------------------------------------------------------------------------
(* An operation that succeeded.                                              *)

LEMMA PlannedAreSettings ==
  ASSUME settings \in Settings
  PROVE  /\ \A origin \in Origins : Planned(Append(settings.extras, origin)) \in Settings
         /\ \A i \in DOMAIN settings.extras :
              Planned(RemoveAt(settings.extras, i)) \in Settings
         /\ \A enabled \in BOOLEAN : [settings EXCEPT !.testMode = enabled] \in Settings
<1>1. settings.extras \in Seq(Origins)
  BY DomainOfSettings
<1>2. \A origin \in Origins : Append(settings.extras, origin) \in Seq(Origins)
  BY <1>1
<1>3. \A i \in DOMAIN settings.extras : RemoveAt(settings.extras, i) \in Seq(Origins)
  BY <1>1, RemoveAtProperties
<1>4. QED
  BY <1>2, <1>3 DEF Settings, Planned

\* The operation that began is not over.
LEMMA OperationBegins ==
  Inv => /\ Refresh => task' # None
         /\ \A origin \in Origins : AddSource(origin) => task' # None
         /\ \A id \in Ids : RemoveSource(id) => task' # None
         /\ \A enabled \in BOOLEAN : SetTestMode(enabled) => task' # None
<1> SUFFICES ASSUME Inv
             PROVE  /\ Refresh => task' # None
                    /\ \A origin \in Origins : AddSource(origin) => task' # None
                    /\ \A id \in Ids : RemoveSource(id) => task' # None
                    /\ \A enabled \in BOOLEAN : SetTestMode(enabled) => task' # None
  OBVIOUS
<1>1. settings \in Settings
  BY DEF Inv, Typed
<1>2. ASSUME NEW step \in {"save", "builtin"}, NEW planned \in Settings,
             NEW remote \in BOOLEAN, Do(step, planned, remote)
      PROVE  task' # None
  <2>1. task' \in Tasks
    BY <1>2, BundledIsMetadata DEF Do, Tasks
  <2>2. QED
    BY <2>1, SourcesAssumption
<1>3. Refresh => task' # None
  BY <1>1, <1>2 DEF Refresh
<1>4. ASSUME NEW origin \in Origins, AddSource(origin) PROVE task' # None
  BY <1>1, <1>2, <1>4, PlannedAreSettings DEF AddSource
<1>5. ASSUME NEW id \in Ids, RemoveSource(id) PROVE task' # None
  BY <1>1, <1>2, <1>5, PlannedAreSettings DEF RemoveSource
<1>6. ASSUME NEW enabled \in BOOLEAN, SetTestMode(enabled) PROVE task' # None
  BY <1>1, <1>2, <1>6, PlannedAreSettings DEF SetTestMode
<1>7. QED
  BY <1>3, <1>4, <1>5, <1>6

LEMMA SuccessKept == Inv /\ SuccessMeansSaved /\ [Next]_vars => SuccessMeansSaved'
<1> SUFFICES ASSUME Inv, SuccessMeansSaved, [Next]_vars PROVE SuccessMeansSaved'
  OBVIOUS
<1> USE DEF SuccessMeansSaved, disk, memory, bounds, Fixed
<1>1. CASE UNCHANGED <<settings, life, sources, task, result>>
  BY <1>1
<1>2. CASE life' # "up" \/ result' = "error" \/ task' # None
  BY <1>2
<1>3. CASE \E usable \in SUBSET (1..MaxSources) : RefreshRest(usable)
  <2>1. task # None /\ task.step = "rest" /\ settings' = settings
        /\ sources' = Listed(task.settings, DOMAIN task.settings.extras)
    BY <1>3 DEF RefreshRest
  <2>2. settings = task.settings
    BY <2>1 DEF Inv, Saved
  <2>3. QED
    BY <2>1, <2>2 DEF Listed
<1>4. CASE SaveSettings \/ LoadBuiltin \/ KeepBuiltin \/ (\E at \in Times : FetchBuiltin(at))
           \/ (\E at \in Times, replaced \in BOOLEAN : StoreFails(at, replaced))
  <2>1. task # None /\ task \in Tasks
    BY <1>4 DEF SaveSettings, LoadBuiltin, KeepBuiltin, FetchBuiltin, StoreFails, Stored,
                Downloading, Inv, Typed
  <2>2. task' \in Tasks
    <3>1. CASE SaveSettings
      BY <2>1, <3>1 DEF SaveSettings, Tasks
    <3>2. Typed /\ task.selected \in Metadata
          /\ \A at \in Times : Stored(at) => cache' \in Metadata
      BY <2>1, SourcesAssumption DEF Inv, Typed, Tasks, Stored, Metadata
    <3>3. CASE LoadBuiltin
      BY <2>1, <3>2, <3>3, TaskGoesOn
    <3>4. CASE KeepBuiltin
      BY <2>1, <3>2, <3>4, TaskGoesOn DEF KeepBuiltin
    <3>5. CASE \E at \in Times : FetchBuiltin(at)
      BY <2>1, <3>2, <3>5, TaskGoesOn DEF FetchBuiltin
    <3>6. CASE \E at \in Times, replaced \in BOOLEAN : StoreFails(at, replaced)
      BY <2>1, <3>2, <3>6, TaskGoesOn DEF StoreFails
    <3>7. QED
      BY <1>4, <3>1, <3>3, <3>4, <3>5, <3>6
  <2>3. task' # None
    BY <2>2, SourcesAssumption
  <2>4. QED
    BY <1>2, <2>3
<1>5. CASE Refresh \/ (\E origin \in Origins : AddSource(origin))
           \/ (\E id \in Ids : RemoveSource(id))
           \/ (\E enabled \in BOOLEAN : SetTestMode(enabled))
  BY <1>2, <1>5, OperationBegins
<1>6. QED
  BY <1>1, <1>2, <1>3, <1>4, <1>5
     DEF Next, vars, Start, Refuse, SaveFails, RefreshConflicts, Install, Crash, Tamper

\* What an operation that succeeded shows is what a restart would read, whatever the
\* saves and the downloads before it did (_save_state, _refresh_sources).
THEOREM SuccessIsDurable == Spec => []SuccessMeansSaved
<1>1. Init => SuccessMeansSaved
  BY DEF Init, SuccessMeansSaved
<1>2. QED
  BY InitInv, NextKeepsInv, SuccessKept, <1>1, PTL DEF Spec

-----------------------------------------------------------------------------
(* The metadata of the built-in source.                                      *)

\* What an operation selected is newer than what is in use, or the manager is
\* starting without a cache.
Newer == task.selected.fetch >= builtin.fetch \/ (life = "starting" /\ OnDisk = Bundled)

\* The cache holds the latest download while it is left in place, also during the next
\* one, and a manager that starts downloads nothing.
Latest ==
  /\ tampers \in Nat /\ (tampers = 0 /\ cache \notin Metadata => fetches = 0)
  /\ cache \in Metadata => cache.fetch >= builtin.fetch /\ cache.fetch <= fetches
  /\ builtin.fetch <= fetches
  /\ life = "starting" /\ task # None => ~task.remote
  /\ life = "down" => task = None
  /\ task # None /\ task.step = "fetch" => task.remote
  /\ task # None /\ task.step \in {"fetch", "rest"} =>
       /\ task.selected.fetch <= fetches
       /\ cache \in Metadata => cache.fetch >= task.selected.fetch
       /\ Newer

MetadataInv == Typed /\ life \in {"down", "starting", "up"} /\ Latest

LEMMA MetadataShape ==
  ASSUME NEW m \in Metadata
  PROVE  m.fetch \in 0..MaxFetches /\ m.at \in Nat
<1>1. Times \union {0} \subseteq Nat
  BY SourcesAssumption
<1>2. m.fetch \in 0..MaxFetches /\ m.at \in Times \union {0}
  BY DEF Metadata
<1>3. QED
  BY <1>1, <1>2

\* What is known is as new as what is in use, and never newer than the cache.
LEMMA KnownIsNewer ==
  ASSUME MetadataInv
  PROVE  /\ Known.fetch <= fetches
         /\ cache \in Metadata => cache.fetch >= Known.fetch
         /\ life = "up" => Known.fetch >= builtin.fetch
         /\ Known.fetch >= builtin.fetch \/ (life # "up" /\ OnDisk = Bundled)
<1> USE DEF MetadataInv, Latest, Typed
<1>1. Bundled.fetch = 0 /\ Bundled.at = 0
  BY DEF Bundled
<1>2. builtin.fetch \in Nat /\ builtin.at \in Nat /\ fetches \in Nat
  BY MetadataShape, SourcesAssumption
<1>3. CASE cache \in Metadata
  <2>1. OnDisk = cache /\ cache.fetch \in Nat
    BY <1>3, MetadataShape DEF OnDisk
  <2>2. Known = cache \/ (Known = builtin /\ life = "up")
    BY <2>1 DEF Known
  <2>3. cache.fetch >= builtin.fetch /\ cache.fetch <= fetches
    BY <1>3
  <2>4. QED
    BY <1>2, <2>1, <2>2, <2>3
<1>4. CASE cache \notin Metadata
  <2>1. OnDisk = Bundled
    BY <1>4 DEF OnDisk
  <2>2. life = "up" => Known = builtin
    BY <1>1, <1>2, <2>1 DEF Known
  <2>3. life # "up" => Known = Bundled
    BY <2>1 DEF Known
  <2>4. QED
    BY <1>1, <1>2, <1>4, <2>1, <2>2, <2>3
<1>5. QED
  BY <1>3, <1>4
LEMMA LatestKept == Inv /\ Inv' /\ MetadataInv /\ [Next]_vars => MetadataInv'
<1> SUFFICES ASSUME Inv, Inv', MetadataInv, [Next]_vars PROVE MetadataInv'
  OBVIOUS
<1> USE DEF disk, memory, bounds
<1>1. /\ builtin.fetch \in Nat /\ fetches \in Nat /\ Typed'
      /\ cache \in Metadata => cache.fetch \in Nat
      /\ Known \in Metadata /\ Known.fetch \in Nat
  BY MetadataShape, KnownIsMetadata, SourcesAssumption DEF Inv, Typed
<1>2. /\ None \notin Metadata /\ Damaged \notin Metadata
      /\ task # None => task \in Tasks /\ task.selected.fetch \in Nat
                      /\ task.remote \in BOOLEAN
  BY SourcesAssumption, MetadataShape DEF Inv, Typed, Tasks
<1>3. ASSUME NEW planned, NEW remote \in BOOLEAN, NEW step \in {"save", "builtin"},
             Do(step, planned, remote),
             \/ life = "up" /\ life' = life
             \/ life' = "starting" /\ remote = FALSE
      PROVE  MetadataInv'
  BY <1>1, <1>3 DEF Do, MetadataInv, Latest
<1>4. CASE Start
  BY <1>3, <1>4 DEF Start
<1>5. CASE Refresh
  BY <1>3, <1>5 DEF Refresh, Called
<1>6. CASE \E origin \in Origins : AddSource(origin)
  BY <1>3, <1>6 DEF AddSource, Called
<1>7. CASE \E id \in Ids : RemoveSource(id)
  BY <1>3, <1>7 DEF RemoveSource, Called
<1>8. CASE \E enabled \in BOOLEAN : SetTestMode(enabled)
  BY <1>3, <1>8 DEF SetTestMode, Called
<1>9. CASE SaveSettings
  BY <1>1, <1>2, <1>9 DEF SaveSettings, MetadataInv, Latest, Tasks
<1>10. CASE \E replaced \in BOOLEAN : SaveFails(replaced)
  BY <1>1, <1>10 DEF SaveFails, MetadataInv, Latest
<1>11. CASE LoadBuiltin
  <2>1. /\ Known.fetch <= fetches
        /\ cache \in Metadata => cache.fetch >= Known.fetch
        /\ Known.fetch >= builtin.fetch \/ (life # "up" /\ OnDisk = Bundled)
    BY KnownIsNewer
  <2>2. task # None /\ UNCHANGED <<life, builtin, cache, fetches, tampers>>
    BY <1>11 DEF LoadBuiltin
  <2>3. /\ task'.selected = Known /\ task'.remote = task.remote
        /\ task'.step = "fetch" => task.remote
    BY <1>11, <2>2, TaskGoesOn DEF MetadataInv
  <2>4. life \in {"starting", "up"} /\ (life = "starting" => ~task.remote)
    BY <2>2 DEF MetadataInv, Latest
  <2>5. QED
    BY <1>1, <2>1, <2>2, <2>3, <2>4 DEF MetadataInv, Latest, Newer, OnDisk
<1>12. ASSUME Downloading, Selected(task.selected), UNCHANGED <<life, builtin, tampers>>,
              \/ UNCHANGED <<cache, fetches>>
              \/ /\ fetches' = fetches + 1 /\ cache'.fetch = fetches'
                 /\ cache' \in Metadata
       PROVE  MetadataInv'
  <2>1. /\ task # None /\ task.step = "fetch" /\ task.remote
        /\ life = "up" /\ task.selected.fetch <= fetches /\ builtin.fetch <= fetches
        /\ cache \in Metadata => cache.fetch >= task.selected.fetch
        /\ task.selected.fetch >= builtin.fetch
    BY <1>12 DEF Downloading, MetadataInv, Latest, Newer
  <2>2. task'.selected = task.selected /\ task'.remote = task.remote /\ task'.step = "rest"
    BY <1>12, <2>1, TaskGoesOn DEF MetadataInv
  <2>3. CASE UNCHANGED <<cache, fetches>>
    BY <1>1, <1>12, <2>1, <2>2, <2>3 DEF MetadataInv, Latest, Newer
  <2>4. CASE ~UNCHANGED <<cache, fetches>>
    BY <1>1, <1>2, <1>12, <2>1, <2>2, <2>4 DEF MetadataInv, Latest, Newer
  <2>5. QED
    BY <2>3, <2>4
<1>13. CASE KeepBuiltin
  BY <1>12, <1>13 DEF KeepBuiltin
<1>14. ASSUME NEW at \in Times, Stored(at)
       PROVE  /\ fetches' = fetches + 1 /\ cache'.fetch = fetches' /\ cache' \in Metadata
  BY <1>1, <1>14, SourcesAssumption DEF Stored, Metadata
<1>15. CASE \/ \E at \in Times : FetchBuiltin(at)
            \/ \E at \in Times, replaced \in BOOLEAN : StoreFails(at, replaced)
  <2>1. ASSUME NEW at \in Times, FetchBuiltin(at) PROVE MetadataInv'
    <3>1. /\ fetches' = fetches + 1 /\ cache'.fetch = fetches' /\ cache' \in Metadata
          /\ task # None /\ task.step = "fetch" /\ task.remote /\ life = "up"
          /\ builtin.fetch <= fetches
          /\ Selected(cache') /\ UNCHANGED <<life, builtin, tampers>>
      BY <1>14, <2>1 DEF FetchBuiltin, Stored, Downloading, MetadataInv, Latest
    <3>2. task'.selected = cache' /\ task'.remote = task.remote /\ task'.step = "rest"
      BY <3>1, TaskGoesOn DEF MetadataInv
    <3>3. QED
      BY <1>1, <3>1, <3>2 DEF MetadataInv, Latest, Newer
  <2>2. ASSUME NEW at \in Times, NEW replaced \in BOOLEAN, StoreFails(at, replaced)
        PROVE  MetadataInv'
    <3>1. /\ Downloading /\ Selected(task.selected)
          /\ UNCHANGED <<life, builtin, tampers>>
          /\ Stored(at) \/ UNCHANGED <<cache, fetches>>
      BY <2>2 DEF StoreFails
    <3>2. QED
      BY <1>12, <1>14, <3>1
  <2>3. QED
    BY <1>15, <2>1, <2>2
<1>16. CASE \E usable \in SUBSET (1..MaxSources) : RefreshRest(usable)
  BY <1>1, <1>2, <1>16 DEF RefreshRest, MetadataInv, Latest
<1>17. CASE \E usable \in SUBSET (1..MaxSources) : RefreshConflicts(usable)
  BY <1>1, <1>17 DEF RefreshConflicts, MetadataInv, Latest
<1>18. CASE \E id \in Ids : Install(id)
  BY <1>1, <1>18 DEF Install, Called, MetadataInv, Latest
<1>19. CASE Crash
  BY <1>1, <1>19 DEF Crash, MetadataInv, Latest
<1>20. CASE \E found \in {None, Damaged} : Tamper(found)
  BY <1>1, <1>2, <1>20 DEF Tamper, MetadataInv, Latest, Newer, OnDisk
<1>21. CASE Refuse
  BY <1>1, <1>21 DEF Refuse, MetadataInv, Latest, Newer, OnDisk
<1>22. CASE UNCHANGED vars
  BY <1>1, <1>22 DEF vars, MetadataInv, Latest, Newer, OnDisk
<1>23. QED
  BY <1>4, <1>5, <1>6, <1>7, <1>8, <1>9, <1>10, <1>11, <1>13, <1>15, <1>16, <1>17,
     <1>18, <1>19, <1>20, <1>21, <1>22 DEF Next

LEMMA MetadataInvHolds == Spec => []Inv /\ []MetadataInv
<1>1. Init => MetadataInv
  BY BundledIsMetadata, InitInv, SourcesAssumption
     DEF Init, Inv, MetadataInv, Latest, Bundled, Metadata
<1>2. Inv /\ MetadataInv /\ [Next]_vars => Inv' /\ MetadataInv'
  BY NextKeepsInv, LatestKept
<1>3. QED
  BY InitInv, <1>1, <1>2, PTL DEF Spec

\* The metadata in use is on disk, in that or a later publication, while nobody took
\* the cache file away: a download is stored before it is used, and what was stored
\* during a failed write, a crash or a damage to the file is later (_refresh_builtin).
THEOREM InUseIsAlwaysStored == Spec => []InUseIsStored
<1>1. MetadataInv => InUseIsStored
  <2> SUFFICES ASSUME MetadataInv, cache \in Metadata \/ tampers = 0
               PROVE  OnDisk.fetch >= builtin.fetch
    BY DEF InUseIsStored
  <2>1. builtin.fetch \in Nat /\ Bundled.fetch = 0
    BY MetadataShape DEF MetadataInv, Typed, Bundled
  <2>2. CASE cache \in Metadata
    BY <2>2 DEF MetadataInv, Latest, OnDisk
  <2>3. CASE cache \notin Metadata
    <3>1. builtin.fetch <= fetches /\ fetches = 0 /\ OnDisk = Bundled
      BY <2>3 DEF MetadataInv, Latest, OnDisk
    <3>2. QED
      BY <2>1, <3>1
  <2>4. QED
    BY <2>2, <2>3
<1>2. QED
  BY <1>1, MetadataInvHolds, PTL

\* A failed refresh, a clock that was set back and a restart never replace the metadata
\* in use by an earlier publication, while the cache file is left in place
\* (_refresh_builtin).
THEOREM MetadataIsMonotonic == Spec => MetadataNeverGoesBack
<1> DEFINE Forward == builtin'.fetch < builtin.fetch => life # "up" /\ OnDisk = Bundled
<1>1. Spec => []Inv /\ []MetadataInv
  BY MetadataInvHolds
<1>2. Inv /\ MetadataInv /\ [Next]_vars => [Forward]_vars
  <2> SUFFICES ASSUME Inv, MetadataInv, [Next]_vars PROVE Forward
    OBVIOUS
  <2>1. builtin.fetch \in Nat
    BY MetadataShape DEF Inv, Typed
  <2>2. CASE UNCHANGED builtin
    BY <2>1, <2>2
  <2>3. CASE \E usable \in SUBSET (1..MaxSources) : RefreshRest(usable)
    <3>1. /\ task # None /\ task.step = "rest" /\ builtin' = task.selected
          /\ task.selected.fetch \in Nat
      BY <2>3, MetadataShape DEF RefreshRest, Inv, Typed, Tasks
    <3>2. Newer
      BY <3>1 DEF MetadataInv, Latest
    <3>3. QED
      BY <2>1, <3>1, <3>2 DEF Newer
  <2>4. QED
    BY <2>2, <2>3
       DEF Next, vars, disk, memory, bounds, Start, Refresh, AddSource, RemoveSource,
           SetTestMode, Do, Refuse, SaveSettings, SaveFails, LoadBuiltin, KeepBuiltin,
           FetchBuiltin, StoreFails, RefreshConflicts, Install, Crash, Tamper
<1>3. QED
  BY <1>1, <1>2, PTL DEF Spec, MetadataNeverGoesBack
=============================================================================
