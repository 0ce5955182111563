---------------------------- MODULE AquariusLampProofs ----------------------------
(***************************************************************************)
(* Theorems about the memory of an Off, the order of the requests and the   *)
(* picture of the lamp, for any number of channels, levels, requests,       *)
(* setups and moves of other controllers.  They extend the invariant of     *)
(* AquariusControlProofs; TypeInv comes first, because every reading,       *)
(* record and frame that a later part speaks of has to be a whole one.      *)
(***************************************************************************)
EXTENDS AquariusControlProofs

Pendings == {"debounce", "waiting", "running"}

\* x waits before y.
Before(q, x, y) == \E i, j \in 1..Len(q) : i < j /\ q[i] = x /\ q[j] = y

\* The transaction that holds the lock: a poll, or the one running request, with what
\* its step needs.
Owner ==
  tx # None =>
    /\ tx.who # Poll => place[tx.who] = "running"
    /\ tx.who = Poll => tx.step \in {"look", "record"}
    /\ tx.step = "look" /\ tx.who # Poll => command[tx.who].kind = "off"
    /\ tx.step \in {"intend", "guard", "send", "confirm", "verify"} => tx.before \in States
    /\ tx.step = "intend" => command[tx.who].kind = "off"
    /\ tx.step = "send" => tx.frames # <<>>
    /\ tx.step = "record" => tx.after \in States
    /\ tx.step \in Saves => tx.record \in Records

Numbered ==
  /\ \A r \in Requests : place[r] = "free" <=> r > asked
  /\ \A r \in Requests : place[r] \in Pendings => command[r] \in CommandForms
  /\ \A r \in Requests : place[r] = "debounce" => command[r].kind \in Gestures
  /\ \A r \in Requests : place[r] = "running" => tx # None /\ tx.who = r

\* The requests that wait for the lock, each once.
Queued ==
  /\ \A r \in Requests : place[r] = "waiting" <=> Contains(queue, r)
  /\ \A x \in Actors : ~Before(queue, x, x)

TypeInv == TypeOK /\ Owner /\ Numbered /\ Queued

-----------------------------------------------------------------------------
\* The record keeps the unconfirmed origin of an Off from this state.
Intends(record, state) ==
  /\ record # Unreadable /\ record.origin # None
  /\ record.origin.mode = state.mode /\ record.origin.profile = state.profile
  /\ ~record.origin.confirmed
  /\ state.mode = "manual" /\ state.mix # Zero => record.origin.manual = state.mix

Off == tx # None /\ tx.who # Poll /\ command[tx.who].kind = "off"

Committed == {"guard", "send", "confirm", "verify"}

OffInv ==
  /\ Off => tx.phase = "plain"
  /\ Off /\ tx.step \in Committed \union {"intend"} => tx.before.mode \in Controlled
  /\ Off /\ tx.step = "intend" => Intends(tx.record, tx.before)
  /\ Off /\ tx.step \in Committed => mem = disk /\ Intends(disk, tx.before)
  /\ Off /\ tx.step = "record" =>
       CanConfirm(mem, tx.after) /\ tx.record = Confirmed(mem, tx.after) /\ cycle # None
  /\ tx # None /\ ~Off /\ tx.step = "record" => tx.record = Observed(mem, tx.after)

\* What is shown as On goes with a memory On does not trust.
SightInv ==
  /\ data # None /\ data.mode \in Controlled /\ ~memError =>
       mem.origin = None \/ ~mem.origin.confirmed
  /\ life = "gone" => data = None /\ mem = EmptyRecord
  /\ life # "gone" /\ disk = Unreadable => memError
  /\ tx # None /\ tx.who # Poll => data # None

\* What a record confirms of an Off is the Off that the lamp confirmed last.
Agrees(off, record) ==
  record # Unreadable /\ record.origin # None /\ record.origin.confirmed =>
    /\ off # None /\ off.mode = record.origin.mode
    /\ record.origin.mode = "manual" /\ off.mix # Zero => record.origin.manual = off.mix

RunsOn == tx # None /\ tx.who # Poll /\ command[tx.who].kind = "on"

CycleInv ==
  /\ Agrees(cycle, disk) /\ Agrees(cycle, mem)
  /\ tx # None /\ tx.step \in Saves => Agrees(cycle, tx.record)
  /\ RunsOn /\ tx.goal # None =>
       /\ cycle # None /\ cycle.mode = "manual"
       /\ cycle.mix # Zero => tx.goal = cycle.mix
  /\ RunsOn /\ tx.phase # "plain" => tx.goal # None

\* A gesture is overtaken by whatever was asked for after it and has left its pause.
Ahead(q, r) ==
  \/ place[r] = "debounce" /\ place[q] \in {"waiting", "running", "done"}
  \/ place[r] = "waiting" /\ place[q] \in {"running", "done"}
  \/ Before(queue, q, r)

Overtaken == \A r, q \in Requests : r < q /\ Ahead(q, r) => Superseded(r)

-----------------------------------------------------------------------------
\* Nobody else moves the lamp, and a closed connection delivers nothing more.
Alone == OtherStates = {} /\ ~LateFrames

Shows(state) ==
  /\ state.mode = lamp.mode /\ state.profile = lamp.profile
  /\ state.mode # "automatic" => state.mix = lamp.mix

Sending == tx # None /\ tx.step \in {"send", "confirm"}

\* What is shown may be out of date from the first frame to the end.
Sent ==
  tx # None /\ (tx.step \in {"send", "confirm", "verify", "record"} \/ tx.phase = "woken")

PictureInv ==
  /\ \A r \in Requests : wire[r] # <<>> => Sending /\ tx.who = r
  /\ Sending => tx.system = None
  /\ tx # None /\ tx.system # None =>
       tx.system.mode = lamp.mode /\ tx.system.profile = lamp.profile
  /\ tx # None /\ tx.step = "record" => Shows(tx.after)
  /\ ok /\ data # None /\ ~Sent => Shows(data)

\* Frames on their way to the lamp.
OnItsWay(frame) == Sending /\ (Contains(tx.frames, frame) \/ Contains(wire[tx.who], frame))

\* Only these commands have a vector to reach, and none is aimed at before the lamp
\* was seen On or is to be woken.
Aims == {"channel", "colour", "dim", "on"}

GoalInv ==
  /\ tx # None /\ tx.step = "guard" =>
       tx.phase = "plain" \/ (tx.phase = "woken" /\ tx.before.mode = "manual")
  /\ tx # None /\ tx.goal # None => tx.who # Poll /\ command[tx.who].kind \in Aims

WayInv ==
  \A frame \in Frames :
    frame.op = "vector" /\ OnItsWay(frame) =>
      /\ lamp.mode # "shutdown"
      /\ \A other \in Frames : OnItsWay(other) /\ other.op = "mode" => other.mode # "shutdown"

-----------------------------------------------------------------------------
(* Who waits in a queue, and before whom.                                     *)

LEMMA AppendOrder ==
  ASSUME NEW S, NEW q \in Seq(S), NEW x \in S
  PROVE  /\ Append(q, x) \in Seq(S)
         /\ \A y : Contains(Append(q, x), y) <=> Contains(q, y) \/ y = x
         /\ \A y, z : Before(Append(q, x), y, z) <=>
                        Before(q, y, z) \/ (Contains(q, y) /\ z = x)
<1> DEFINE p == Append(q, x)
           n == Len(q)
<1>1. /\ p \in Seq(S) /\ n \in Nat /\ Len(p) = n + 1
      /\ \A i \in 1..n : p[i] = q[i]
      /\ p[n + 1] = x
  BY AppendProperties
<1> HIDE DEF p, n
<1>2. 1..Len(p) = 1..n \union {n + 1}
  BY <1>1
<1>3. \A y : Contains(p, y) <=> Contains(q, y) \/ y = x
  BY <1>1, <1>2 DEF Contains, n
<1>4. ASSUME NEW y, NEW z PROVE Before(p, y, z) <=> Before(q, y, z) \/ (Contains(q, y) /\ z = x)
  <2>1. ASSUME Before(p, y, z) PROVE Before(q, y, z) \/ (Contains(q, y) /\ z = x)
    <3>1. PICK i, j \in 1..(n + 1) : i < j /\ p[i] = y /\ p[j] = z
      BY <1>1, <2>1 DEF Before
    <3>2. i \in 1..n /\ q[i] = y
      BY <1>1, <3>1
    <3>3. CASE j = n + 1
      BY <1>1, <3>1, <3>2, <3>3 DEF Contains, n
    <3>4. CASE j \in 1..n
      BY <1>1, <3>1, <3>2, <3>4 DEF Before, n
    <3>5. QED
      BY <1>1, <3>3, <3>4
  <2>2. ASSUME Before(q, y, z) PROVE Before(p, y, z)
    <3>1. PICK i, j \in 1..n : i < j /\ q[i] = y /\ q[j] = z
      BY <2>2 DEF Before, n
    <3>2. QED
      BY <1>1, <3>1 DEF Before
  <2>3. ASSUME Contains(q, y), z = x PROVE Before(p, y, z)
    <3>1. PICK i \in 1..n : q[i] = y
      BY <2>3 DEF Contains, n
    <3>2. i \in 1..(n + 1) /\ n + 1 \in 1..(n + 1) /\ i < n + 1 /\ p[i] = y /\ p[n + 1] = z
      BY <1>1, <2>3, <3>1
    <3>3. QED
      BY <1>1, <3>2 DEF Before
  <2>4. QED
    BY <2>1, <2>2, <2>3
<1>5. QED
  BY <1>1, <1>3, <1>4 DEF p

LEMMA TailOrder ==
  ASSUME NEW S, NEW q \in Seq(S), q # <<>>
  PROVE  /\ Head(q) \in S /\ Tail(q) \in Seq(S)
         /\ \A y : Contains(q, y) <=> y = Head(q) \/ Contains(Tail(q), y)
         /\ \A y, z : Before(Tail(q), y, z) => Before(q, y, z)
         /\ \A y : Contains(Tail(q), y) => Before(q, Head(q), y)
<1> DEFINE p == Tail(q)
           n == Len(p)
<1>1. /\ p \in Seq(S) /\ n \in Nat /\ Len(q) = n + 1
      /\ \A i \in 1..n : p[i] = q[i + 1]
      /\ q[1] = Head(q) /\ Head(q) \in S
  BY HeadTailProperties
<1> HIDE DEF p, n
<1>2. ASSUME NEW y PROVE Contains(q, y) <=> y = Head(q) \/ Contains(p, y)
  <2>1. ASSUME Contains(q, y), y # Head(q) PROVE Contains(p, y)
    <3>1. PICK i \in 1..(n + 1) : q[i] = y
      BY <1>1, <2>1 DEF Contains
    <3>2. i - 1 \in 1..n /\ p[i - 1] = q[i]
      BY <1>1, <2>1, <3>1
    <3>3. QED
      BY <3>1, <3>2 DEF Contains, n
  <2>2. ASSUME Contains(p, y) PROVE Contains(q, y)
    <3>1. PICK i \in 1..n : p[i] = y
      BY <2>2 DEF Contains, n
    <3>2. i + 1 \in 1..Len(q) /\ q[i + 1] = y
      BY <1>1, <3>1
    <3>3. QED
      BY <3>2 DEF Contains
  <2>3. Contains(q, Head(q))
    BY <1>1 DEF Contains
  <2>4. QED
    BY <2>1, <2>2, <2>3
<1>3. ASSUME NEW y, NEW z, Before(p, y, z) PROVE Before(q, y, z)
  <2>1. PICK i, j \in 1..n : i < j /\ p[i] = y /\ p[j] = z
    BY <1>3 DEF Before, n
  <2>2. /\ i + 1 \in 1..Len(q) /\ j + 1 \in 1..Len(q) /\ i + 1 < j + 1
        /\ q[i + 1] = y /\ q[j + 1] = z
    BY <1>1, <2>1
  <2>3. QED
    BY <2>2 DEF Before
<1>4. ASSUME NEW y, Contains(p, y) PROVE Before(q, Head(q), y)
  <2>1. PICK i \in 1..n : p[i] = y
    BY <1>4 DEF Contains, n
  <2>2. 1 \in 1..Len(q) /\ i + 1 \in 1..Len(q) /\ 1 < i + 1 /\ q[i + 1] = y
    BY <1>1, <2>1
  <2>3. QED
    BY <1>1, <2>2 DEF Before
<1>5. QED
  BY <1>1, <1>2, <1>3, <1>4 DEF p

LEMMA RemoveOrder ==
  ASSUME NEW S, NEW q \in Seq(S), NEW i \in DOMAIN q
  PROVE  /\ RemoveAt(q, i) \in Seq(S)
         /\ \A y : Contains(q, y) <=> y = q[i] \/ Contains(RemoveAt(q, i), y)
         /\ \A y, z : Before(RemoveAt(q, i), y, z) => Before(q, y, z)
         /\ \A y : Contains(RemoveAt(q, i), y) => Before(q, q[i], y) \/ Before(q, y, q[i])
<1> DEFINE p == RemoveAt(q, i)
           n == Len(q)
<1>1. n \in Nat /\ i \in 1..n /\ \A k \in 1..n : q[k] \in S
  BY LenProperties, ElementOfSeq
<1>2. /\ p \in Seq(S) /\ Len(p) = n - 1
      /\ \A k \in 1..(n - 1) : p[k] = IF k < i THEN q[k] ELSE q[k + 1]
  <2> DEFINE front == SubSeq(q, 1, i - 1)
             back == SubSeq(q, i + 1, n)
  <2>1. /\ front \in Seq(S) /\ Len(front) = i - 1
        /\ \A k \in 1..(i - 1) : front[k] = q[k]
    <3>1. \A k \in 1..(i - 1) : q[k] \in S
      BY <1>1
    <3>2. /\ front \in Seq(S) /\ Len(front) = IF 1 <= i - 1 THEN i - 1 - 1 + 1 ELSE 0
          /\ \A k \in 1..(i - 1 - 1 + 1) : front[k] = q[1 + k - 1]
      BY <1>1, <3>1, SubSeqProperties
    <3> HIDE DEF front
    <3>3. QED
      BY <1>1, <3>2
  <2>2. /\ back \in Seq(S) /\ Len(back) = n - i
        /\ \A k \in 1..(n - i) : back[k] = q[i + k]
    <3>1. \A k \in (i + 1)..n : q[k] \in S
      BY <1>1
    <3>2. /\ back \in Seq(S) /\ Len(back) = IF i + 1 <= n THEN n - (i + 1) + 1 ELSE 0
          /\ \A k \in 1..(n - (i + 1) + 1) : back[k] = q[(i + 1) + k - 1]
      BY <1>1, <3>1, SubSeqProperties
    <3> HIDE DEF back
    <3>3. QED
      BY <1>1, <3>2
  <2>3. p = front \o back
    BY DEF RemoveAt
  <2> HIDE DEF front, back, p
  <2>4. /\ p \in Seq(S) /\ Len(p) = (i - 1) + (n - i)
        /\ \A k \in 1..((i - 1) + (n - i)) : p[k] = IF k <= i - 1 THEN front[k] ELSE back[k - (i - 1)]
    <3>1. /\ p \in Seq(S) /\ Len(p) = Len(front) + Len(back)
          /\ \A k \in 1..(Len(front) + Len(back)) :
               p[k] = IF k <= Len(front) THEN front[k] ELSE back[k - Len(front)]
      BY <2>1, <2>2, <2>3, ConcatProperties
    <3>2. QED
      BY <2>1, <2>2, <3>1
  <2>5. ASSUME NEW k \in 1..(n - 1) PROVE p[k] = IF k < i THEN q[k] ELSE q[k + 1]
    <3>1. CASE k < i
      BY <1>1, <2>1, <2>4, <3>1
    <3>2. CASE i <= k
      <4>1. k - (i - 1) \in 1..(n - i) /\ i + (k - (i - 1)) = k + 1
        BY <1>1, <3>2
      <4>2. back[k - (i - 1)] = q[k + 1]
        BY <2>2, <4>1
      <4>3. QED
        BY <1>1, <2>4, <3>2, <4>2
    <3>3. QED
      BY <1>1, <3>1, <3>2
  <2>6. QED
    BY <1>1, <2>4, <2>5
<1> HIDE DEF p, n
<1> DEFINE at(k) == IF k < i THEN k ELSE k + 1
<1>3. \A k \in 1..(n - 1) : at(k) \in 1..n /\ at(k) # i /\ p[k] = q[at(k)]
  BY <1>1, <1>2
<1>4. \A k, l \in 1..(n - 1) : k < l => at(k) < at(l)
  BY <1>1
<1>5. \A k \in 1..n : k # i => \E l \in 1..(n - 1) : p[l] = q[k]
  <2> SUFFICES ASSUME NEW k \in 1..n, k # i PROVE \E l \in 1..(n - 1) : p[l] = q[k]
    OBVIOUS
  <2>1. CASE k < i
    BY <1>1, <1>2, <2>1
  <2>2. CASE i < k
    <3>1. k - 1 \in 1..(n - 1) /\ p[k - 1] = q[k]
      BY <1>1, <1>2, <2>2
    <3>2. QED
      BY <3>1
  <2>3. QED
    BY <1>1, <2>1, <2>2
<1> HIDE DEF at
<1>6. \A y : Contains(q, y) <=> y = q[i] \/ Contains(p, y)
  <2> SUFFICES ASSUME NEW y PROVE Contains(q, y) <=> y = q[i] \/ Contains(p, y)
    OBVIOUS
  <2>1. ASSUME Contains(q, y), y # q[i] PROVE Contains(p, y)
    <3>1. PICK k \in 1..n : q[k] = y
      BY <2>1 DEF Contains, n
    <3>2. PICK l \in 1..(n - 1) : p[l] = y
      BY <1>5, <2>1, <3>1
    <3>3. QED
      BY <1>2, <3>2 DEF Contains
  <2>2. ASSUME Contains(p, y) PROVE Contains(q, y)
    <3>1. PICK k \in 1..(n - 1) : p[k] = y
      BY <1>2, <2>2 DEF Contains
    <3>2. at(k) \in 1..n /\ q[at(k)] = y
      BY <1>3, <3>1
    <3>3. QED
      BY <3>2 DEF Contains, n
  <2>3. Contains(q, q[i])
    BY <1>1 DEF Contains, n
  <2>4. QED
    BY <2>1, <2>2, <2>3
<1>7. ASSUME NEW y, NEW z, Before(p, y, z) PROVE Before(q, y, z)
  <2>1. PICK k, l \in 1..(n - 1) : k < l /\ p[k] = y /\ p[l] = z
    BY <1>2, <1>7 DEF Before
  <2>2. at(k) \in 1..n /\ at(l) \in 1..n /\ at(k) < at(l) /\ q[at(k)] = y /\ q[at(l)] = z
    BY <1>3, <1>4, <2>1
  <2>3. QED
    BY <2>2 DEF Before, n
<1>8. ASSUME NEW y, Contains(p, y) PROVE Before(q, q[i], y) \/ Before(q, y, q[i])
  <2>1. PICK k \in 1..(n - 1) : p[k] = y
    BY <1>2, <1>8 DEF Contains
  <2>2. PICK l \in 1..n : l # i /\ q[l] = y
    BY <1>3, <2>1
  <2>3. CASE l < i
    BY <1>1, <2>2, <2>3 DEF Before, n
  <2>4. CASE i < l
    BY <1>1, <2>2, <2>4 DEF Before, n
  <2>5. QED
    BY <1>1, <2>2, <2>3, <2>4
<1>9. QED
  BY <1>2, <1>6, <1>7, <1>8 DEF p
-----------------------------------------------------------------------------
\* What the memory makes of a reading is a record.
LEMMA ObservedType ==
  ASSUME NEW record \in Records, NEW state \in States
  PROVE  Observed(record, state) \in Records
<1>1. /\ state.mode = "manual" /\ state.mix # Zero =>
           [profile |-> state.profile, mix |-> state.mix] \in Manuals
      /\ record.manual \in Manuals \union {None} /\ record.origin \in Origins \union {None}
  BY DEF Records, States, Manuals
<1>2. QED
  BY <1>1 DEF Observed, Records

LEMMA IntendedType ==
  ASSUME NEW record \in Records, NEW state \in States, state.mode \in Controlled
  PROVE  Intended(record, state) \in Records
<1> DEFINE seen == Observed(record, state)
<1>1. seen \in Records
  BY ObservedType
<1>2. KnownMix(seen, state) \in (Mixes \ {Zero}) \union {None}
  BY <1>1 DEF KnownMix, Records, Manuals
<1>3. [profile |-> state.profile, mode |-> state.mode, manual |-> KnownMix(seen, state),
       confirmed |-> FALSE, off |-> None] \in Origins
  BY <1>2 DEF Origins, States
<1> HIDE DEF seen
<1>4. [seen EXCEPT !.origin =
         [profile |-> state.profile, mode |-> state.mode, manual |-> KnownMix(seen, state),
          confirmed |-> FALSE, off |-> None]] \in Records
  BY <1>1, <1>3 DEF Records
<1>5. QED
  BY <1>4 DEF Intended, seen

LEMMA ConfirmedType ==
  ASSUME NEW record \in Records, NEW state \in States, CanConfirm(record, state)
  PROVE  Confirmed(record, state) \in Records
<1>1. record.origin \in Origins
  BY DEF CanConfirm, Records
<1>2. [record.origin EXCEPT !.confirmed = TRUE, !.off = state.mix] \in Origins
  BY <1>1 DEF Origins, States
<1>3. Confirmed(record, state) =
        [record EXCEPT !.origin = [record.origin EXCEPT !.confirmed = TRUE, !.off = state.mix]]
  BY <1>1 DEF Confirmed, Records, Origins
<1>4. QED
  BY <1>2, <1>3 DEF Records

LEMMA RestoreType ==
  ASSUME NEW record \in Records, NEW error, NEW state
  PROVE  ManualRestore(record, error, state) \in Mixes \union {None}
BY DEF ManualRestore, Records, Origins

\* One step of a transaction.
LEMMA ReadingType ==
  ASSUME TypeOK, tx # None, tx.system # None
  PROVE  /\ Reading \in States /\ Reading.mode = tx.system.mode
         /\ Reading.profile = tx.system.profile /\ Reading.mix = lamp.mix
<1>1. tx.system \in [mode : Modes, profile : Profiles]
  BY DEF TypeOK, Transactions
<1>2. QED
  BY <1>1 DEF TypeOK, Reading, States

-----------------------------------------------------------------------------
(* Types.                                                                     *)

LampTyped == lamp \in States /\ wire \in [Requests -> Seq(Frames)]
MemoryTyped == disk \in Records \union {Unreadable} /\ mem \in Records /\ memError \in BOOLEAN
ViewTyped ==
  /\ life \in {"gone", "setup", "on", "unloading", "resuming"}
  /\ data \in States \union {None} /\ ok \in BOOLEAN /\ needsRefresh \in BOOLEAN
ClaimsTyped ==
  /\ fresh \subseteq Requests /\ newest \in [Channels -> 0..MaxRequests]
  /\ gesture \in 0..MaxRequests /\ awaited \subseteq Actors
  /\ asked \in 0..MaxRequests
RequestsTyped ==
  command \in [Requests -> CommandForms \union {None}] /\ place \in [Requests -> Places]

LEMMA LampTypeStep == TypeInv /\ [Next]_vars => LampTyped'
<1> SUFFICES ASSUME TypeInv, [Next]_vars PROVE LampTyped'
  OBVIOUS
<1> USE ControlAssumption DEF LampTyped, outside
<1>1. LampTyped
  BY DEF TypeInv, TypeOK
<1>2. CASE UNCHANGED outside
  BY <1>1, <1>2
<1>3. CASE lamp' = lamp /\ Disconnect
  <2>1. <<>> \in Seq(Frames)
    OBVIOUS
  <2>2. QED
    BY <1>1, <1>3, <2>1 DEF Disconnect
<1>4. ASSUME NEW r \in Requests, Handle(r) \/ Lose(r) PROVE LampTyped'
  <2>1. /\ wire[r] \in Seq(Frames) /\ wire[r] # <<>>
        /\ wire' = [wire EXCEPT ![r] = Tail(wire[r])]
    BY <1>1, <1>4 DEF Handle, Lose
  <2>2. Head(wire[r]) \in Frames /\ Tail(wire[r]) \in Seq(Frames)
    BY <2>1, HeadTailProperties
  <2>3. wire' \in [Requests -> Seq(Frames)]
    BY <1>1, <2>1, <2>2
  <2>4. CASE lamp' = lamp
    BY <1>1, <2>3, <2>4
  <2>5. CASE Obey(Head(wire[r]))
    <3> DEFINE frame == Head(wire[r])
    <3>1. CASE frame.op = "vector" /\ lamp' = [lamp EXCEPT !.mix = frame.mix]
      BY <1>1, <2>2, <2>3, <3>1 DEF Frames, States
    <3>2. CASE /\ frame.op = "mode"
               /\ \E mix \in CASE frame.mode = "automatic" -> OwnMixes
                     [] frame.mode = "manual" ->
                          {lamp.mix} \union IF lamp.mode = "shutdown" THEN OwnMixes ELSE {}
                     [] frame.mode = "shutdown" -> {lamp.mix, Zero} :
                    lamp' = [lamp EXCEPT !.mode = frame.mode, !.mix = mix]
      <4>1. frame.mode \in Modes
        BY <2>2, <3>2 DEF Frames, Modes, Controlled
      <4> DEFINE Shown == CASE frame.mode = "automatic" -> OwnMixes
                     [] frame.mode = "manual" ->
                          {lamp.mix} \union IF lamp.mode = "shutdown" THEN OwnMixes ELSE {}
                     [] frame.mode = "shutdown" -> {lamp.mix, Zero}
      <4>2. PICK mix \in Shown : lamp' = [lamp EXCEPT !.mode = frame.mode, !.mix = mix]
        BY <3>2
      <4>3. mix \in Mixes
        <5>1. frame.mode \in {"automatic", "manual", "shutdown"}
          BY <2>2, <3>2 DEF Frames, Controlled
        <5>2. Shown \subseteq Mixes
          BY <1>1, <5>1, LampAssumption DEF States, Mixes, Zero
        <5>3. QED
          BY <4>2, <5>2
      <4>4. QED
        BY <1>1, <2>3, <4>1, <4>2, <4>3 DEF States
    <3>3. QED
      BY <2>5, <3>1, <3>2 DEF Obey
  <2>6. QED
    BY <1>4, <2>4, <2>5 DEF Handle, Lose
<1>5. CASE LampMoves
  BY <1>1, <1>5 DEF LampMoves, States
<1>6. CASE Send
  <2>1. /\ tx \in Transactions /\ tx.frames # <<>> /\ tx.who # Poll /\ tx.who \in Requests
    BY <1>6 DEF Send, TypeInv, TypeOK, Owner, Transactions, Actors
  <2>2. tx.frames \in Seq(Frames)
    BY <2>1 DEF Transactions
  <2>3. Append(wire[tx.who], Head(tx.frames)) \in Seq(Frames)
    BY <1>1, <2>1, <2>2, HeadTailProperties, AppendProperties
  <2>4. QED
    BY <1>1, <1>6, <2>1, <2>3 DEF Send
<1>7. QED
  BY <1>2, <1>3, <1>4, <1>5, <1>6
     DEF Next, AnyRequest, Transaction, Save, Submit, Debounced, Expire, Admit, TurnAway,
         PollDue, AdmitPoll, ReadSystem, PollReads, OffConflicts, OffLooks, AlreadyOn, NoBasis,
         Guard, Confirm, Woken, Verified, OffVerified, Fail, SaveVerified, SaveTooLate,
         SaveFails, SaveCancelled, ExpireSave, Setup, SetupFails, PrepareUnload, Unload,
         UnloadFails, Crash, RemoveEntry, vars

\* A save writes a record, or nothing.
LEMMA MemoryTypeStep == TypeInv /\ [Next]_vars => MemoryTyped'
<1> SUFFICES ASSUME TypeInv, [Next]_vars PROVE MemoryTyped'
  OBVIOUS
<1> USE DEF MemoryTyped, memory
<1>1. MemoryTyped /\ EmptyRecord \in Records
  BY DEF TypeInv, TypeOK, EmptyRecord, Records
<1>2. CASE UNCHANGED memory
  BY <1>1, <1>2
<1>3. CASE Save
  <2>1. tx # None /\ tx.step \in Saves /\ tx.record \in Records
    BY <1>3 DEF Save, SaveVerified, SaveTooLate, SaveFails, SaveCancelled, TypeInv, Owner, Saves
  <2>2. QED
    BY <1>1, <1>3, <2>1 DEF Save, SaveVerified, SaveTooLate, SaveFails, SaveCancelled, Written
<1>4. CASE Setup \/ SetupFails \/ Unload \/ RemoveEntry
  BY <1>1, <1>4 DEF Setup, SetupFails, Unload, RemoveEntry, Forget
<1>5. CASE Crash
  <2>1. tx # None /\ tx.step \in Saves => tx.record \in Records
    BY DEF TypeInv, Owner
  <2>2. QED
    BY <1>1, <1>5, <2>1 DEF Crash, Forget
<1>6. QED
  BY <1>2, <1>3, <1>4, <1>5
     DEF Next, AnyRequest, Transaction, Submit, Debounced, Expire, Admit, TurnAway, LampMoves,
         Handle, Lose, PollDue, AdmitPoll, ReadSystem, PollReads, OffConflicts, OffLooks,
         AlreadyOn, NoBasis, Guard, Send, Confirm, Woken, Verified, OffVerified, Fail,
         ExpireSave, PrepareUnload, UnloadFails, vars

\* What is shown is a reading.
LEMMA RemembersType ==
  ASSUME TypeInv, tx # None, NEW state \in States, Remember(state)
  PROVE  data' \in States \union {None} /\ ok' \in BOOLEAN
           /\ life' \in {"gone", "setup", "on", "unloading", "resuming"}
           /\ cycle' \in Cycles \union {None}
BY DEF Remember, Publish, Leave, Stay, TypeInv, TypeOK, view

LEMMA ViewTypeStep == TypeInv /\ OffInv /\ [Next]_vars => ViewTyped' /\ (cycle \in Cycles \union {None})'
<1> DEFINE Typed == ViewTyped /\ cycle \in Cycles \union {None}
<1> SUFFICES ASSUME TypeInv, OffInv, [Next]_vars PROVE Typed'
  OBVIOUS
<1> USE DEF ViewTyped, view
<1>1. Typed
  BY DEF TypeInv, TypeOK
<1>2. CASE UNCHANGED <<life, view, needsRefresh, cycle>>
  BY <1>1, <1>2
<1>3. tx # None /\ tx.system # None => Reading \in States
  BY ReadingType DEF TypeInv
<1>4. CASE PollReads \/ AlreadyOn \/ NoBasis \/ Verified
  <2>1. tx # None /\ Remember(Reading) /\ needsRefresh' = FALSE /\ Reading \in States
    BY <1>3, <1>4 DEF PollReads, AlreadyOn, NoBasis, Verified, Has
  <2>2. QED
    BY <2>1, RemembersType
<1>5. CASE OffConflicts \/ Fail
  BY <1>1, <1>5 DEF OffConflicts, Fail, Leave
<1>6. CASE OffLooks
  BY <1>1, <1>3, <1>6 DEF OffLooks, Has, Publish, Leave, Stay
<1>7. CASE OffVerified
  <2>1. Reading \in States /\ Off /\ tx.step = "verify"
    <3>1. tx.who # Poll
      BY <1>7 DEF OffVerified, Has, TypeInv, Owner
    <3>2. QED
      BY <1>3, <1>7, <3>1 DEF OffVerified, Has, Off, Pending
  <2>2. tx.before \in States /\ tx.before.mode \in Controlled
    BY <2>1 DEF OffInv, TypeInv, Owner, Off, Committed
  <2>3. cycle' \in Cycles
    BY <1>7, <2>2 DEF OffVerified, Cycles, States
  <2>4. /\ data' \in {data, Reading} /\ ok' \in {ok, TRUE} /\ needsRefresh' = FALSE
        /\ life' \in {life, "on"}
    BY <1>7 DEF OffVerified, Leave, Stay
  <2>5. QED
    BY <1>1, <2>1, <2>3, <2>4
<1>8. CASE Save
  <2>1. tx # None /\ tx.step \in Saves /\ (tx.step = "record" => tx.after \in States)
    BY <1>8 DEF Save, SaveVerified, SaveTooLate, SaveFails, SaveCancelled, TypeInv, Owner, Saves
  <2>2. /\ ok' \in {ok, TRUE, FALSE} /\ needsRefresh' = needsRefresh /\ life' \in {life, "on"}
        /\ data' = data \/ (tx.step = "record" /\ data' = tx.after)
    BY <1>8, <2>1 DEF Save, SaveVerified, SaveTooLate, SaveFails, SaveCancelled, Publish,
                      Leave, Stay, Told
  <2>3. cycle' = cycle \/ (Told /\ cycle' = [cycle EXCEPT !.told = TRUE])
    BY <1>8, <2>1 DEF Save, SaveVerified, SaveTooLate, SaveFails, SaveCancelled, Publish
  <2>4. Told => cycle # None
    BY <2>1 DEF Told, OffInv, Off, Pending
  <2>5. cycle' \in Cycles \union {None}
    BY <1>1, <2>3, <2>4 DEF Cycles
  <2>6. QED
    BY <1>1, <2>1, <2>2, <2>5
<1>9. CASE Setup \/ SetupFails \/ PrepareUnload \/ Unload \/ UnloadFails \/ Crash \/ RemoveEntry
  BY <1>1, <1>9 DEF Setup, SetupFails, PrepareUnload, Unload, UnloadFails, Crash, RemoveEntry,
                    Forget
<1>10. QED
  <2>1. CASE \E r \in Requests : Admit(r) \/ Expire(r)
    BY <1>1, <2>1 DEF Admit, Expire
  <2>2. CASE AdmitPoll
    BY <1>1, <2>2 DEF AdmitPoll
  <2>3. QED
    BY <1>2, <1>4, <1>5, <1>6, <1>7, <1>8, <1>9, <2>1, <2>2
     DEF Next, AnyRequest, Transaction, Submit, Debounced, TurnAway, LampMoves,
         Handle, Lose, PollDue, ReadSystem, Guard, Send, Confirm, Woken, ExpireSave, vars

LEMMA ClaimsTypeStep == TypeInv /\ [Next]_vars => ClaimsTyped'
<1> SUFFICES ASSUME TypeInv, [Next]_vars PROVE ClaimsTyped'
  OBVIOUS
<1> USE ControlAssumption DEF ClaimsTyped, claims, requests
<1>1. ClaimsTyped /\ (tx # None => tx.who \in Actors)
  BY DEF TypeInv, TypeOK, Transactions
<1>2. CASE UNCHANGED <<fresh, newest, gesture, awaited, asked>>
  BY <1>1, <1>2
<1>3. CASE Distrust /\ UNCHANGED <<awaited, asked>>
  BY <1>1, <1>3 DEF Distrust
<1>4. CASE Forget /\ asked' = asked
  BY <1>1, <1>4 DEF Forget
<1>5. ASSUME NEW c, Submit(c) PROVE ClaimsTyped'
  BY <1>1, <1>5 DEF Submit, Requests
<1>6. CASE PrepareUnload
  BY <1>1, <1>6 DEF PrepareUnload, Distrust, Awaited
<1>7. CASE UnloadFails
  BY <1>1, <1>7 DEF UnloadFails
<1>8. QED
  BY <1>2, <1>3, <1>4, <1>5, <1>6, <1>7
     DEF Next, AnyRequest, Transaction, Save, Debounced, Expire, Admit, TurnAway, LampMoves,
         Handle, Lose, PollDue, AdmitPoll, ReadSystem, PollReads, OffConflicts, OffLooks,
         AlreadyOn, NoBasis, Guard, Send, Confirm, Woken, Verified, OffVerified, Fail,
         SaveVerified, SaveTooLate, SaveFails, SaveCancelled, ExpireSave, Setup, SetupFails,
         Unload, Crash, RemoveEntry, vars

LEMMA BeginType ==
  ASSUME NEW r \in Actors, NEW step \in Reads, NEW before \in States \union {None},
         NEW goal \in Mixes \union {None}, Begin(r, step, before, goal)
  PROVE  tx' \in Transactions
<1>1. <<>> \in Seq(Frames)
  OBVIOUS
<1>2. QED
  BY <1>1 DEF Begin, Transactions, Steps

\* The holder of the lock goes on, or gives the lock back, or is dropped with the
\* coordinator, or takes a free lock.
Goes == tx # None /\ tx' \in Transactions /\ tx'.who = tx.who /\ UNCHANGED <<place, command>>
Ends == tx # None /\ Leave
Dies == tx' = None /\ Forget
Begun == tx = None /\ tx' \in Transactions

GoesOnly == ReadSystem \/ Guard \/ Send \/ Confirm \/ Woken \/ ExpireSave \/ PrepareUnload

LEMMA HolderStep ==
  TypeInv /\ [Next]_vars =>
    /\ tx' = tx \/ Goes \/ Ends \/ Dies \/ Begun
    /\ GoesOnly => tx' = tx \/ Goes
<1> DEFINE Step == tx' = tx \/ Goes \/ Ends \/ Dies \/ Begun
<1> SUFFICES ASSUME TypeInv, [Next]_vars PROVE Step /\ (GoesOnly => tx' = tx \/ Goes)
  OBVIOUS
<1> USE DEF Goes, requests, Stay
<1>1. tx \in Transactions \union {None}
  BY DEF TypeInv, TypeOK
<1>2. ASSUME tx' = tx \/ Dies PROVE Step
  BY <1>2
<1>3. tx # None => tx \in Transactions
  BY <1>1
<1>4. tx # None /\ tx.system # None => Reading \in States
  BY ReadingType DEF TypeInv
<1>5. ASSUME ReadSystem PROVE tx' = tx \/ Goes
  <2>1. [mode |-> lamp.mode, profile |-> lamp.profile] \in [mode : Modes, profile : Profiles]
    BY DEF TypeInv, TypeOK, States
  <2>2. QED
    BY <1>3, <1>5, <2>1 DEF ReadSystem, Transactions, Stay
<1>6. ASSUME NEW state \in States, Remember(state), tx # None PROVE Goes \/ Ends
  <2>1. Observed(mem, state) \in Records
    BY ObservedType DEF TypeInv, TypeOK
  <2>2. Leave \/ (Stay /\ tx' = [tx EXCEPT !.step = "record", !.system = None, !.after = state,
                                            !.record = Observed(mem, state)])
    BY <1>6 DEF Remember
  <2>3. QED
    BY <1>3, <1>6, <2>1, <2>2 DEF Ends, Transactions, Steps, Saves
<1>7. ASSUME PollReads \/ AlreadyOn \/ NoBasis \/ Verified PROVE Step
  BY <1>4, <1>6, <1>7 DEF PollReads, AlreadyOn, NoBasis, Verified, Has
<1>8. ASSUME OffLooks PROVE Step
  <2>1. Reading \in States
    BY <1>4, <1>8 DEF OffLooks, Has
  <2>2. Reading.mode \in Controlled => Intended(mem, Reading) \in Records
    BY <2>1, IntendedType DEF TypeInv, TypeOK
  <2>3. \/ Leave
        \/ /\ Stay /\ Reading.mode \in Controlled
           /\ tx' = [tx EXCEPT !.step = "intend", !.system = None, !.before = Reading,
                               !.record = Intended(mem, Reading)]
    BY <1>8 DEF OffLooks
  <2>4. tx # None
    BY <1>8 DEF OffLooks, Has
  <2>5. QED
    BY <1>3, <2>1, <2>2, <2>3, <2>4 DEF Ends, Transactions, Steps, Saves
<1>9. ASSUME Guard PROVE tx' = tx \/ Goes
  <2>1. /\ tx \in Transactions /\ Reading \in States /\ command[tx.who] \in CommandForms
        /\ tx.goal \in Mixes \union {None}
    <3>1. tx # None /\ tx \in Transactions /\ tx.step = "guard" /\ Reading \in States
      BY <1>3, <1>4, <1>9 DEF Guard, Has
    <3>2. tx.who \in Requests /\ place[tx.who] = "running"
      <4>1. tx.who # Poll /\ place[tx.who] = "running"
        BY <3>1 DEF TypeInv, Owner
      <4>2. tx.who \in Requests \union {Poll}
        BY <3>1 DEF Transactions, Actors
      <4>3. QED
        BY <4>1, <4>2
    <3>3. QED
      BY <3>1, <3>2 DEF TypeInv, Numbered, Pendings, Transactions
  <2>2. PICK goal \in Goals(Reading) :
          tx' = [tx EXCEPT !.step = "send", !.system = None, !.before = Reading,
                           !.goal = goal, !.frames = Plan(Reading, goal),
                           !.phase = IF Wakes(Reading) THEN "wake" ELSE @]
    BY <1>9 DEF Guard
  <2>3. goal \in Mixes \union {None} /\ (Pending({"channel"}) => goal \in Mixes)
    <3>1. CASE Pending({"channel"})
      <4>1. command[tx.who].channel \in Channels /\ command[tx.who].level \in Levels
        BY <2>1, <3>1 DEF Pending, CommandForms
      <4>2. goal = [Reading.mix EXCEPT ![command[tx.who].channel] = command[tx.who].level]
        BY <2>2, <3>1 DEF Goals, Pending
      <4>3. QED
        BY <2>1, <4>1, <4>2 DEF States, Mixes
    <3>2. CASE ~Pending({"channel"})
      BY <2>1, <2>2, <3>2 DEF Goals, Pending, Dimmed
    <3>3. QED
      BY <3>1, <3>2
  <2>4. Wanted \in Controlled \union {"shutdown"}
    BY <2>1 DEF Wanted, CommandForms, Controlled
  <2>5. Plan(Reading, goal) \in Seq(Frames)
    <3>1. CASE Plan(Reading, goal) = <<ToMode(Wanted)>>
      <4>1. ToMode(Wanted) \in Frames
        BY <2>4 DEF ToMode, Frames
      <4>2. QED
        BY <3>1, <4>1
    <3>2. CASE Plan(Reading, goal) # <<ToMode(Wanted)>>
      <4>1. Plan(Reading, goal) = <<Vector(goal), ToMode("manual")>> /\ goal \in Mixes
        BY <2>3, <3>2 DEF Plan
      <4>2. Vector(goal) \in Frames /\ ToMode("manual") \in Frames
        BY <4>1 DEF ToMode, Vector, Frames, Controlled
      <4>3. QED
        BY <4>1, <4>2
    <3>3. QED
      BY <3>1, <3>2
  <2>6. QED
    <3> DEFINE frames == Plan(Reading, goal)
               woken == Wakes(Reading)
               state == Reading
    <3>1. /\ tx' = [tx EXCEPT !.step = "send", !.system = None, !.before = state,
                              !.goal = goal, !.frames = frames,
                              !.phase = IF woken THEN "wake" ELSE @]
          /\ frames \in Seq(Frames) /\ state \in States /\ Stay /\ tx # None
      BY <1>9, <2>1, <2>2, <2>5 DEF Guard, Has, Stay
    <3> HIDE DEF frames, woken, state
    <3>2. QED
      BY <2>1, <2>3, <3>1 DEF Transactions, Steps
<1>10. ASSUME Send PROVE tx' = tx \/ Goes
  <2>1. tx \in Transactions /\ tx.frames # <<>> /\ tx.frames \in Seq(Frames)
    BY <1>3, <1>10 DEF Send, TypeInv, Owner, Transactions
  <2>2. Tail(tx.frames) \in Seq(Frames)
    BY <2>1, HeadTailProperties
  <2>3. QED
    BY <1>10, <2>1, <2>2 DEF Send, Transactions, Steps, Stay
<1>11. ASSUME Confirm \/ ExpireSave PROVE tx' = tx \/ Goes
  BY <1>3, <1>11 DEF Confirm, ExpireSave, Transactions, Steps, Reads, Stay
<1>12. ASSUME Woken PROVE tx' = tx \/ Goes
  <2>1. tx \in Transactions /\ Reading \in States
    BY <1>3, <1>4, <1>12 DEF Woken, Has
  <2>2. /\ tx' = [tx EXCEPT !.step = "guard", !.system = None, !.before = Reading,
                           !.phase = "woken"]
        /\ Stay /\ tx # None
    BY <1>12 DEF Woken, Has, Stay
  <2>3. QED
    BY <2>1, <2>2 DEF Transactions, Steps, Reads
<1>13. ASSUME OffVerified PROVE Step
  <2>1. tx \in Transactions /\ Reading \in States
    BY <1>3, <1>4, <1>13 DEF OffVerified, Has
  <2>2. CanConfirm(mem, Reading) => Confirmed(mem, Reading) \in Records
    BY <2>1, ConfirmedType DEF TypeInv, TypeOK
  <2> DEFINE state == Reading
             record == Confirmed(mem, Reading)
  <2>3. \/ Leave
        \/ /\ Stay /\ record \in Records /\ state \in States
           /\ tx' = [tx EXCEPT !.step = "record", !.system = None, !.after = state,
                               !.record = record]
    BY <1>13, <2>1, <2>2 DEF OffVerified
  <2>4. tx # None /\ tx \in Transactions
    BY <1>13, <2>1 DEF OffVerified, Has
  <2> HIDE DEF state, record
  <2>5. ASSUME ~Leave PROVE Goes
    BY <2>3, <2>4, <2>5 DEF Transactions, Steps, Saves
  <2>6. QED
    BY <2>4, <2>5 DEF Ends
<1>14. ASSUME SaveVerified PROVE Step
  <2>1. Leave \/ (Stay /\ tx' = [tx EXCEPT !.step = "guard", !.record = None])
    BY <1>14 DEF SaveVerified
  <2>2. tx # None
    BY <1>14 DEF SaveVerified
  <2>3. QED
    BY <1>3, <2>1, <2>2 DEF Ends, Transactions, Steps, Reads
<1>15. ASSUME PrepareUnload PROVE tx' = tx \/ Goes
  <2>1. CASE tx = None
    BY <1>15, <2>1 DEF PrepareUnload, Awaited
  <2>2. CASE tx # None
    <3>1. tx' = [tx EXCEPT !.cancelled = TRUE] /\ tx \in Transactions
      BY <1>3, <1>15, <2>2 DEF PrepareUnload, Awaited
    <3>2. QED
      BY <1>15, <2>2, <3>1 DEF Transactions, PrepareUnload, Stay
  <2>3. QED
    BY <2>1, <2>2
<1>16. ASSUME NEW r \in Requests, Admit(r) PROVE tx' = tx \/ Begun
  <2> USE DEF Reads
  <2>1. /\ Current /\ command[r] \in CommandForms
    <3>1. Contains(queue, r)
      BY <1>16, TailOrder DEF Admit, TypeInv, TypeOK
    <3>2. place[r] = "waiting"
      BY <3>1 DEF TypeInv, Queued
    <3>3. QED
      BY <1>16, <3>2 DEF Admit, Admissible, Allowed, PowerSupported, WriteSupported,
                        TypeInv, Numbered, Pendings
  <2>2. data \in States /\ r \in Actors
    BY <2>1 DEF Current, TypeInv, TypeOK, Actors
  <2>3. ManualRestore(mem, memError, data) \in Mixes \union {None}
    BY RestoreType DEF TypeInv, TypeOK
  <2> DEFINE goal == CASE command[r].kind = "colour" -> command[r].mix
                       [] command[r].kind \in {"on", "dim"} -> ManualRestore(mem, memError, data)
                       [] OTHER -> None
  <2>4. goal \in Mixes \union {None}
    BY <2>1, <2>3 DEF CommandForms
  <2>5. \/ tx' = tx \/ Begin(r, "look", None, None) \/ Begin(r, "guard", data, goal)
    BY <1>16 DEF Admit
  <2> HIDE DEF goal
  <2>6. QED
    BY <1>16, <2>2, <2>4, <2>5, BeginType DEF Admit, Begun
<1>17. ASSUME AdmitPoll PROVE Step
  <2>1. tx' = tx \/ Begin(Poll, "look", None, None)
    BY <1>17 DEF AdmitPoll
  <2>2. Poll \in Actors
    BY DEF Actors
  <2>3. QED
    BY <1>17, <2>1, <2>2, BeginType DEF AdmitPoll, Begun, Reads
<1>18. Step
  <2>1. CASE OffConflicts \/ Fail \/ SaveTooLate
    BY <2>1 DEF OffConflicts, Has, Fail, SaveTooLate, Ends
  <2>2. CASE \E outcome \in {"unverified", "unwritten"} : SaveFails(outcome) \/ SaveCancelled(outcome)
    BY <2>2 DEF SaveFails, SaveCancelled, Ends
  <2>3. CASE SetupFails \/ Crash
    BY <2>3 DEF SetupFails, Crash, Dies
  <2>4. QED
    BY <2>1, <2>2, <2>3, <1>2, <1>5, <1>7, <1>8, <1>9, <1>10, <1>11, <1>12, <1>13, <1>14, <1>15, <1>16, <1>17
     DEF Next, AnyRequest, Transaction, Save, Submit, Debounced, Expire, TurnAway, LampMoves,
         Handle, Lose, PollDue, Setup, Unload, UnloadFails, RemoveEntry, vars
<1>19. QED
  BY <1>5, <1>9, <1>10, <1>11, <1>12, <1>15, <1>18 DEF GoesOnly

-----------------------------------------------------------------------------
(* The requests and the queue.                                                *)

RequestsInv == RequestsTyped /\ queue \in Seq(Actors) /\ Numbered /\ Queued

LEMMA RequestsRest ==
  ASSUME TypeInv, UNCHANGED <<asked, command, place, queue>>, tx' = tx \/ Goes
  PROVE  RequestsInv'
<1>1. tx # None => tx' # None /\ tx'.who = tx.who
  BY NoTransactionAssumption DEF Goes
<1>2. RequestsTyped' /\ queue' \in Seq(Actors)
  BY DEF TypeInv, TypeOK, RequestsTyped
<1>3. Numbered'
  BY <1>1 DEF TypeInv, Numbered
<1>4. Queued'
  BY DEF TypeInv, Queued
<1>5. QED
  BY <1>2, <1>3, <1>4 DEF RequestsInv

LEMMA HolderEnds ==
  ASSUME TypeInv, Ends, UNCHANGED <<asked, queue>>
  PROVE  RequestsInv'
<1>1. tx.who \in Requests \union {Poll} /\ tx # None
  BY DEF Ends, TypeInv, TypeOK, Transactions, Actors
<1>2. CASE tx.who = Poll
  <2>1. \A r \in Requests : place[r] # "running"
    BY <1>2 DEF TypeInv, Numbered, Poll, Requests
  <2>2. UNCHANGED <<place, command>>
    BY <1>2 DEF Ends, Leave
  <2>3. QED
    BY <2>1, <2>2 DEF TypeInv, TypeOK, RequestsInv, RequestsTyped, Numbered, Queued
<1>3. CASE tx.who \in Requests /\ tx.who # Poll
  <2> DEFINE r == tx.who
  <2>1. /\ place' = [place EXCEPT ![r] = "done"] /\ command' = [command EXCEPT ![r] = None]
        /\ place[r] = "running" /\ \A q \in Requests : place[q] = "running" => q = r
        /\ r \in Requests
    BY <1>1, <1>3 DEF Ends, Leave, TypeInv, Owner, Numbered
  <2> HIDE DEF r
  <2>2. RequestsTyped
    BY DEF TypeInv, TypeOK, RequestsTyped
  <2>3. RequestsTyped' /\ queue' \in Seq(Actors)
    BY <2>1, <2>2 DEF TypeInv, TypeOK, RequestsTyped, Places
  <2>4. \A q \in Requests : IF q = r THEN place'[q] = "done" ELSE place'[q] = place[q] /\ command'[q] = command[q]
    BY <2>1, <2>2 DEF RequestsTyped
  <2>5. Numbered'
    BY <2>1, <2>4 DEF TypeInv, Numbered, Pendings
  <2>6. Queued'
    BY <2>1, <2>4 DEF TypeInv, Queued
  <2>7. QED
    BY <2>3, <2>5, <2>6 DEF RequestsInv
<1>4. QED
  BY <1>1, <1>2, <1>3 DEF Poll, Requests

LEMMA AllDropped ==
  ASSUME TypeInv, Forget, asked' = asked
  PROVE  RequestsInv'
<1>1. RequestsTyped' /\ \A r \in Requests :
        place'[r] \notin Pendings /\ (place'[r] = "free" <=> place[r] = "free")
  BY DEF TypeInv, TypeOK, RequestsTyped, Forget, Places, Pendings
<1>2. queue' \in Seq(Actors) /\ Len(queue') = 0
  BY EmptySeq DEF Forget
<1>3. Queued'
  BY <1>1, <1>2 DEF Queued, Contains, Before, Pendings
<1>4. Numbered'
  BY <1>1 DEF TypeInv, Numbered, Pendings
<1>5. QED
  BY <1>1, <1>2, <1>3, <1>4 DEF RequestsInv

\* The queue grows by one that does not wait in it yet.
LEMMA Enqueued ==
  ASSUME TypeInv, NEW x \in Actors, ~Contains(queue, x), queue' = Append(queue, x),
         \A r \in Requests : place'[r] = "waiting" <=> place[r] = "waiting" \/ r = x
  PROVE  queue' \in Seq(Actors) /\ Queued'
<1>1. queue \in Seq(Actors)
  BY DEF TypeInv, TypeOK
<1>2. QED
  BY <1>1, AppendOrder DEF TypeInv, Queued

\* The queue loses its head.
LEMMA Dequeued ==
  ASSUME TypeInv, queue # <<>>, queue' = Tail(queue),
         \A r \in Requests : place'[r] = "waiting" <=> place[r] = "waiting" /\ r # Head(queue)
  PROVE  queue' \in Seq(Actors) /\ Queued'
<1>1. queue \in Seq(Actors)
  BY DEF TypeInv, TypeOK
<1>2. QED
  BY <1>1, TailOrder DEF TypeInv, Queued

LEMMA SubmitRequests ==
  ASSUME TypeInv, NEW c, Submit(c)
  PROVE  RequestsInv'
<1> DEFINE r == asked + 1
           meant == Meant(c)
<1>1. /\ r \in Requests /\ place[r] = "free" /\ tx' = tx /\ asked \in Nat /\ asked' = asked + 1
  BY ControlAssumption DEF Submit, Requests, TypeInv, TypeOK, Numbered
<1>2. meant \in CommandForms
  <2>1. c \in CommandForms
    BY <1>1, CommandsAssumption DEF Submit
  <2>2. QED
    BY <2>1 DEF Meant, CommandForms, Controlled
<1>3. /\ command' = [command EXCEPT ![r] = meant]
      /\ place' = [place EXCEPT ![r] = IF meant.kind \in Gestures THEN "debounce" ELSE "waiting"]
      /\ queue' = IF meant.kind \in Gestures THEN queue ELSE Append(queue, r)
  BY DEF Submit
<1> HIDE DEF r, meant
<1>4. RequestsTyped
  BY DEF TypeInv, TypeOK, RequestsTyped
<1>5. RequestsTyped'
  BY <1>1, <1>2, <1>3, <1>4 DEF RequestsTyped, Places
<1>6. /\ command'[r] = meant
      /\ place'[r] = IF meant.kind \in Gestures THEN "debounce" ELSE "waiting"
      /\ \A q \in Requests : q # r => place'[q] = place[q] /\ command'[q] = command[q]
  BY <1>1, <1>3, <1>4 DEF RequestsTyped
<1>7. Numbered'
  <2>1. \A q \in Requests : place'[q] = "free" <=> q > asked'
    <3>1. \A q \in Requests : q > asked' <=> q > asked /\ q # r
      BY <1>1 DEF Requests, r
    <3>2. QED
      BY <1>1, <1>6, <3>1 DEF TypeInv, Numbered
  <2>2. QED
    BY <1>1, <1>2, <1>6, <2>1 DEF TypeInv, Numbered, Pendings
<1>8. queue' \in Seq(Actors) /\ Queued'
  <2>1. CASE meant.kind \in Gestures
    BY <1>1, <1>3, <1>6, <2>1 DEF TypeInv, TypeOK, Queued
  <2>2. CASE meant.kind \notin Gestures
    <3>1. ~Contains(queue, r) /\ r \in Actors
      BY <1>1 DEF TypeInv, Queued, Actors
    <3>2. QED
      BY <1>1, <1>3, <1>6, <2>2, <3>1, Enqueued
  <2>3. QED
    BY <2>1, <2>2
<1>9. QED
  BY <1>5, <1>7, <1>8 DEF RequestsInv

LEMMA DebouncedRequests ==
  ASSUME TypeInv, NEW r \in Requests, Debounced(r)
  PROVE  RequestsInv'
<1>1. /\ place[r] = "debounce" /\ UNCHANGED <<asked, command, tx>>
      /\ place' = [place EXCEPT ![r] = "waiting"] /\ queue' = Append(queue, r)
  BY DEF Debounced
<1>2. RequestsTyped
  BY DEF TypeInv, TypeOK, RequestsTyped
<1>3. RequestsTyped' /\ \A q \in Requests : place'[q] = IF q = r THEN "waiting" ELSE place[q]
  BY <1>1, <1>2 DEF RequestsTyped, Places
<1>4. Numbered'
  BY <1>1, <1>3 DEF TypeInv, Numbered, Pendings
<1>5. ~Contains(queue, r) /\ r \in Actors
  BY <1>1 DEF TypeInv, Queued, Actors
<1>6. queue' \in Seq(Actors) /\ Queued'
  BY <1>1, <1>3, <1>5, Enqueued
<1>7. QED
  BY <1>3, <1>4, <1>6 DEF RequestsInv

\* A request that is refused before it has the lock.
LEMMA RefusedRequests ==
  ASSUME TypeInv, NEW r \in Requests, place[r] \in {"debounce", "waiting"},
         UNCHANGED <<asked, tx>>, place' = [place EXCEPT ![r] = "refused"],
         command' = [command EXCEPT ![r] = None]
  PROVE  /\ RequestsTyped' /\ Numbered'
         /\ \A q \in Requests : place'[q] = IF q = r THEN "refused" ELSE place[q]
<1>1. RequestsTyped
  BY DEF TypeInv, TypeOK, RequestsTyped
<1>2. RequestsTyped' /\ \A q \in Requests : place'[q] = IF q = r THEN "refused" ELSE place[q]
  BY <1>1 DEF RequestsTyped, Places
<1>3. \A q \in Requests : q # r => command'[q] = command[q]
  BY <1>1 DEF RequestsTyped
<1>4. Numbered'
  BY <1>2, <1>3 DEF TypeInv, Numbered, Pendings
<1>5. QED
  BY <1>2, <1>4

LEMMA ExpireRequests ==
  ASSUME TypeInv, NEW r \in Requests, Expire(r)
  PROVE  RequestsInv'
<1>1. RequestsTyped' /\ Numbered'
      /\ \A q \in Requests : place'[q] = IF q = r THEN "refused" ELSE place[q]
  BY RefusedRequests DEF Expire
<1>2. queue \in Seq(Actors) /\ r \in Actors
  BY DEF TypeInv, TypeOK, Actors
<1>3. CASE place[r] = "debounce"
  BY <1>1, <1>2, <1>3 DEF Expire, TypeInv, Queued, RequestsInv
<1>4. CASE place[r] = "waiting"
  <2> DEFINE i == CHOOSE i \in DOMAIN queue : queue[i] = r
  <2>1. i \in DOMAIN queue /\ queue[i] = r
    BY <1>2, <1>4, LenProperties DEF TypeInv, Queued, Contains
  <2>2. queue' = RemoveAt(queue, i)
    BY <1>4 DEF Expire
  <2> HIDE DEF i
  <2>3. /\ queue' \in Seq(Actors)
        /\ \A y : Contains(queue, y) <=> y = r \/ Contains(queue', y)
        /\ \A y, z : Before(queue', y, z) => Before(queue, y, z)
        /\ \A y : Contains(queue', y) => Before(queue, r, y) \/ Before(queue, y, r)
    BY <1>2, <2>1, <2>2, RemoveOrder
  <2>4. ~Contains(queue', r) /\ \A x \in Actors : ~Before(queue', x, x)
    BY <1>2, <2>3 DEF TypeInv, Queued
  <2>5. Queued'
    BY <1>1, <2>3, <2>4 DEF TypeInv, Queued
  <2>6. QED
    BY <1>1, <2>3, <2>5 DEF RequestsInv
<1>5. QED
  BY <1>3, <1>4 DEF Expire

\* A request at the head of the queue waits.
LEMMA HeadWaits ==
  ASSUME TypeInv, NEW r \in Requests, queue # <<>>, Head(queue) = r
  PROVE  place[r] = "waiting" /\ command[r] \in CommandForms /\ ~Contains(Tail(queue), r)
<1>1. queue \in Seq(Actors) /\ r \in Actors
  BY DEF TypeInv, TypeOK, Actors
<1>2. Contains(queue, r) /\ ~Contains(Tail(queue), r)
  BY <1>1, TailOrder DEF TypeInv, Queued
<1>3. place[r] = "waiting"
  BY <1>2 DEF TypeInv, Queued
<1>4. QED
  BY <1>2, <1>3 DEF TypeInv, Numbered, Pendings

LEMMA TurnAwayRequests ==
  ASSUME TypeInv, NEW r \in Requests, TurnAway(r)
  PROVE  RequestsInv'
<1>1. place[r] = "waiting"
  BY HeadWaits DEF TurnAway
<1>2. RequestsTyped' /\ Numbered'
      /\ \A q \in Requests : place'[q] = IF q = r THEN "refused" ELSE place[q]
  BY <1>1, RefusedRequests DEF TurnAway
<1>3. queue' \in Seq(Actors) /\ Queued'
  BY <1>1, <1>2, Dequeued DEF TurnAway
<1>4. QED
  BY <1>2, <1>3 DEF RequestsInv

LEMMA AdmitRequests ==
  ASSUME TypeInv, NEW r \in Requests, Admit(r)
  PROVE  RequestsInv'
<1>1. place[r] = "waiting" /\ command[r] \in CommandForms
  BY HeadWaits DEF Admit
<1>2. CASE command[r].kind # "off" /\ needsRefresh
  <2>1. RequestsTyped' /\ Numbered'
        /\ \A q \in Requests : place'[q] = IF q = r THEN "refused" ELSE place[q]
    BY <1>1, <1>2, RefusedRequests DEF Admit
  <2>2. queue' \in Seq(Actors) /\ Queued'
    BY <1>1, <2>1, Dequeued DEF Admit
  <2>3. QED
    BY <2>1, <2>2 DEF RequestsInv
<1>3. CASE ~(command[r].kind # "off" /\ needsRefresh)
  <2>1. /\ place' = [place EXCEPT ![r] = "running"] /\ UNCHANGED <<asked, command>>
        /\ tx = None /\ tx'.who = r /\ tx' # tx
    <3>1. tx' # tx => tx'.who = r
      BY DEF Admit, Begin
    <3>2. tx = None /\ tx' # tx
      <4>1. CASE command[r].kind = "off"
        <5>1. Begin(r, "look", None, None)
          BY <1>3, <4>1 DEF Admit
        <5>2. tx' \in Transactions
          BY <5>1, BeginType DEF Actors, Reads
        <5>3. QED
          BY <5>2, NoTransactionAssumption DEF Admit
      <4>2. CASE command[r].kind # "off"
        <5>1. Current /\ data \in States
          BY DEF Admit, Admissible, Allowed, PowerSupported, WriteSupported, Current,
                 TypeInv, TypeOK
        <5> DEFINE goal == CASE command[r].kind = "colour" -> command[r].mix
                             [] command[r].kind \in {"on", "dim"} ->
                                  ManualRestore(mem, memError, data)
                             [] OTHER -> None
        <5>2. goal \in Mixes \union {None}
          <6>1. ManualRestore(mem, memError, data) \in Mixes \union {None}
            BY RestoreType DEF TypeInv, TypeOK
          <6>2. QED
            BY <1>1, <6>1 DEF CommandForms
        <5>3. Begin(r, "guard", data, goal)
          BY <1>3, <4>2 DEF Admit
        <5> HIDE DEF goal
        <5>4. tx' \in Transactions
          BY <5>1, <5>2, <5>3, BeginType DEF Actors, Reads
        <5>5. QED
          BY <5>4, NoTransactionAssumption DEF Admit
      <4>3. QED
        BY <4>1, <4>2
    <3>3. QED
      BY <1>3, <3>1, <3>2 DEF Admit, requests
  <2>2. RequestsTyped
    BY DEF TypeInv, TypeOK, RequestsTyped
  <2>3. RequestsTyped' /\ \A q \in Requests : place'[q] = IF q = r THEN "running" ELSE place[q]
    BY <2>1, <2>2 DEF RequestsTyped, Places
  <2>4. Numbered'
    BY <1>1, <2>1, <2>3 DEF TypeInv, Numbered, Pendings
  <2>5. queue' \in Seq(Actors) /\ Queued'
    BY <1>1, <2>3, Dequeued DEF Admit
  <2>6. QED
    BY <2>3, <2>4, <2>5 DEF RequestsInv
<1>4. QED
  BY <1>2, <1>3

LEMMA RequestsStep == TypeInv /\ Inv /\ [Next]_vars => RequestsInv'
<1> SUFFICES ASSUME TypeInv, Inv, [Next]_vars PROVE RequestsInv'
  OBVIOUS
<1> USE DEF requests
<1>1. tx' = tx \/ Goes \/ Ends \/ Dies \/ Begun
  BY HolderStep
<1>2. queue \in Seq(Actors) /\ Poll \in Actors /\ Poll \notin Requests
  BY DEF TypeInv, TypeOK, Actors, Poll, Requests
<1>3. CASE UNCHANGED <<asked, command, place, queue>> /\ (tx' = tx \/ Goes)
  BY <1>3, RequestsRest
<1>4. CASE Ends /\ UNCHANGED <<asked, queue>>
  BY <1>4, HolderEnds
<1>5. CASE SetupFails \/ Unload \/ Crash
  BY <1>5, AllDropped DEF SetupFails, Unload, Crash
<1>6. CASE PollDue
  <2>1. queue' \in Seq(Actors) /\ Queued'
    BY <1>2, <1>6, Enqueued DEF PollDue
  <2>2. QED
    BY <1>6, <2>1 DEF PollDue, TypeInv, TypeOK, RequestsInv, RequestsTyped, Numbered
<1>7. CASE AdmitPoll
  <2>1. \A r \in Requests : place[r] # "running"
    BY <1>7 DEF AdmitPoll, TypeInv, Numbered
  <2>2. queue' \in Seq(Actors) /\ Queued'
    BY <1>2, <1>7, Dequeued DEF AdmitPoll
  <2>3. QED
    BY <1>7, <2>1, <2>2 DEF AdmitPoll, TypeInv, TypeOK, RequestsInv, RequestsTyped, Numbered
<1>8. CASE Setup
  <2>1. tx = None /\ \A r \in Requests : place[r] # "waiting"
    BY <1>8 DEF Setup, Inv, NothingLeft
  <2>2. queue' = <<Poll>> /\ queue' \in Seq(Actors) /\ Len(queue') = 1 /\ queue'[1] = Poll
    BY <1>2, <1>8 DEF Setup
  <2>3. Queued'
    <3>1. \A r \in Requests : ~Contains(queue', r)
      BY <1>2, <2>2 DEF Contains
    <3>2. \A x \in Actors : ~Before(queue', x, x)
      BY <2>2 DEF Before
    <3>3. QED
      BY <1>8, <2>1, <3>1, <3>2 DEF Queued, Setup
  <2>4. QED
    BY <1>8, <2>2, <2>3 DEF Setup, TypeInv, TypeOK, RequestsInv, RequestsTyped, Numbered
<1>9. CASE UnloadFails
  <2>1. queue' \in Seq(Actors) /\ Queued'
    <3>1. CASE Contains(queue, Poll)
      BY <1>2, <1>9, <3>1 DEF UnloadFails, TypeInv, Queued
    <3>2. CASE ~Contains(queue, Poll)
      BY <1>2, <1>9, <3>2, Enqueued DEF UnloadFails
    <3>3. QED
      BY <3>1, <3>2
  <2>2. QED
    BY <1>9, <2>1 DEF UnloadFails, TypeInv, TypeOK, RequestsInv, RequestsTyped, Numbered
<1>10. CASE OffConflicts \/ Fail \/ SaveTooLate
  BY <1>4, <1>10 DEF OffConflicts, Has, Fail, SaveTooLate, Ends
<1>11. CASE \E outcome \in {"unverified", "unwritten"} : SaveFails(outcome) \/ SaveCancelled(outcome)
  BY <1>4, <1>11 DEF SaveFails, SaveCancelled, Ends
<1>12. CASE PollReads \/ AlreadyOn \/ NoBasis \/ Verified \/ OffLooks \/ OffVerified \/ SaveVerified
  <2>1. tx # None /\ (Leave \/ Stay) /\ UNCHANGED <<asked, queue>>
    BY <1>12 DEF PollReads, AlreadyOn, NoBasis, Verified, OffLooks, OffVerified, SaveVerified, Has,
                Remember
  <2>2. CASE Leave
    BY <1>4, <2>1, <2>2 DEF Ends
  <2>3. CASE Stay /\ ~Leave
    <3>1. life # "gone"
      BY <2>1 DEF Inv, NothingLeft
    <3>2. tx' = tx \/ Goes
      BY <1>1, <2>1, <2>3, <3>1 DEF Ends, Begun, Dies, Stay, Forget
    <3>3. QED
      BY <1>3, <2>1, <2>3, <3>2 DEF Stay
  <2>4. QED
    BY <2>1, <2>2, <2>3
<1>13. CASE ReadSystem \/ Guard \/ Send \/ Confirm \/ Woken \/ ExpireSave \/ PrepareUnload
  <2>1. UNCHANGED <<asked, command, place, queue>>
    BY <1>13 DEF ReadSystem, Guard, Send, Confirm, Woken, ExpireSave, PrepareUnload
  <2>2. tx' = tx \/ Goes
    BY <1>13, HolderStep DEF GoesOnly
  <2>3. QED
    BY <1>3, <2>1, <2>2
<1>14. QED
  BY <1>3, <1>5, <1>6, <1>7, <1>8, <1>9, <1>10, <1>11, <1>12, <1>13,
     SubmitRequests, DebouncedRequests, ExpireRequests, AdmitRequests, TurnAwayRequests
     DEF Next, AnyRequest, Transaction, Save, Handle, Lose, LampMoves, RemoveEntry, vars

-----------------------------------------------------------------------------
(* The holder of the lock.                                                    *)

\* Nothing changes the request that runs but the end of its transaction.
LEMMA RunningKept ==
  ASSUME TypeInv, Inv, [Next]_vars, tx # None, tx.who # Poll, tx' = tx \/ Goes
  PROVE  /\ tx.who \in Requests /\ tx'.who = tx.who /\ tx' # None
         /\ place'[tx.who] = "running" /\ command'[tx.who] = command[tx.who]
         /\ command[tx.who] \in CommandForms
<1>1. /\ tx.who \in Requests /\ tx'.who = tx.who /\ tx' # None /\ place[tx.who] = "running"
      /\ command[tx.who] \in CommandForms
  <2>1. tx.who \in Requests \union {Poll} /\ place[tx.who] = "running"
    BY DEF TypeInv, TypeOK, Transactions, Owner, Actors
  <2>2. tx' # None /\ tx'.who = tx.who
    BY NoTransactionAssumption DEF Goes
  <2>3. QED
    BY <2>1, <2>2 DEF TypeInv, Numbered, Pendings
<1>2. CASE Goes
  BY <1>1, <1>2 DEF Goes
<1>3. CASE tx' = tx
  <2> USE DEF requests
  <2>1. CASE UNCHANGED <<place, command>>
    BY <1>1, <2>1
  <2>2. RequestsTyped
    BY DEF TypeInv, TypeOK, RequestsTyped
  <2>3. ASSUME NEW r \in Requests, place[r] # "running",
               NEW a, place' = [place EXCEPT ![r] = a],
               NEW c, command' = [command EXCEPT ![r] = c]
        PROVE  place'[tx.who] = "running" /\ command'[tx.who] = command[tx.who]
    BY <1>1, <2>2, <2>3 DEF RequestsTyped
  <2>4. ASSUME NEW c, Submit(c) PROVE place'[tx.who] = "running" /\ command'[tx.who] = command[tx.who]
    <3>1. asked + 1 \in Requests /\ place[asked + 1] = "free"
      BY <2>4, ControlAssumption DEF Submit, Requests, TypeInv, TypeOK, Numbered
    <3>2. QED
      BY <2>3, <2>4, <3>1 DEF Submit
  <2>5. ASSUME NEW r \in Requests, Debounced(r)
        PROVE  place'[tx.who] = "running" /\ command'[tx.who] = command[tx.who]
    BY <1>1, <2>2, <2>5 DEF Debounced, RequestsTyped
  <2>6. ASSUME NEW r \in Requests, Expire(r)
        PROVE  place'[tx.who] = "running" /\ command'[tx.who] = command[tx.who]
    BY <2>3, <2>6 DEF Expire
  <2>7. CASE Unload
    BY <2>7 DEF Unload, Settled, Inv, UnloadWaits
  <2>8. CASE \E r \in Requests : Admit(r) \/ TurnAway(r)
    BY <2>8 DEF Admit, TurnAway
  <2>9. CASE Leave \/ SetupFails \/ Crash
    BY <1>1, <1>3, <2>9 DEF Leave, SetupFails, Crash
  <2>10. CASE Stay
    BY <2>1, <2>10 DEF Stay
  <2>11. QED
    BY <1>1, <2>1, <2>4, <2>5, <2>6, <2>7, <2>8, <2>9, <2>10
       DEF Next, AnyRequest, Transaction, Save, LampMoves, Handle, Lose, PollDue, AdmitPoll,
           ReadSystem, PollReads, OffConflicts, OffLooks, AlreadyOn, NoBasis, Guard, Send, Confirm,
           Woken, Verified, OffVerified, Fail, Remember, SaveVerified, SaveTooLate, SaveFails,
           SaveCancelled, ExpireSave, Setup, PrepareUnload, UnloadFails, RemoveEntry, vars
<1>4. QED
  BY <1>1, <1>2, <1>3

LEMMA OwnerStep == TypeInv /\ Inv /\ [Next]_vars => Owner'
<1> SUFFICES ASSUME TypeInv, Inv, [Next]_vars, tx' # None PROVE Owner'
  BY DEF Owner
<1>1. tx' = tx \/ Goes \/ Begun
  BY HolderStep DEF Ends, Dies, Leave
<1>2. tx # None => tx \in Transactions /\ tx.who \in Actors
  BY DEF TypeInv, TypeOK, Transactions
<1>3. CASE tx' = tx
  <2>1. tx.who # Poll => place'[tx.who] = "running" /\ command'[tx.who] = command[tx.who]
    BY <1>3, RunningKept
  <2>2. QED
    BY <1>3, <2>1 DEF TypeInv, Owner
<1>4. CASE tx = None
  <2>1. CASE AdmitPoll
    BY <1>4, <2>1 DEF AdmitPoll, Begin, Owner, Saves
  <2>2. CASE \E r \in Requests : Admit(r)
    <3>1. PICK r \in Requests : Admit(r)
      BY <2>2
    <3>2. /\ place'[r] = "running" /\ command' = command
      BY <1>4, <3>1 DEF Admit, TypeInv, TypeOK
    <3>3. data \in States
      BY <3>1 DEF Admit, Admissible, Allowed, PowerSupported, WriteSupported, Current,
                  TypeInv, TypeOK
    <3>4. r # Poll
      BY DEF Requests, Poll
    <3> DEFINE goal == CASE command[r].kind = "colour" -> command[r].mix
                         [] command[r].kind \in {"on", "dim"} -> ManualRestore(mem, memError, data)
                         [] OTHER -> None
    <3>5. \/ command[r].kind = "off" /\ Begin(r, "look", None, None)
          \/ Begin(r, "guard", data, goal)
      BY <1>4, <3>1 DEF Admit
    <3> HIDE DEF goal
    <3>6. QED
      BY <3>2, <3>3, <3>4, <3>5 DEF Begin, Owner, Saves
  <2>3. QED
    BY <1>1, <1>3, <1>4, <2>1, <2>2
       DEF Next, AnyRequest, Transaction, Save, Submit, Debounced, Expire, TurnAway, LampMoves,
           Handle, Lose, PollDue, ReadSystem, PollReads, OffConflicts, OffLooks, AlreadyOn,
           NoBasis, Guard, Send, Confirm, Woken, Verified, OffVerified, Fail, Has, SaveVerified,
           SaveTooLate, SaveFails, SaveCancelled, ExpireSave, Setup, SetupFails, PrepareUnload,
           Awaited, Unload, UnloadFails, Crash, RemoveEntry, Goes, vars
<1>5. ASSUME Goes, tx' # tx PROVE Owner'
  <2>1. /\ tx # None /\ tx \in Transactions /\ tx'.who = tx.who
        /\ place' = place /\ command' = command
    BY <1>2, <1>5 DEF Goes
  <2>2. tx.system # None => Reading \in States
    BY <2>1, ReadingType DEF TypeInv
  <2>3. ~Leave
    BY DEF Leave
  <2> USE DEF TypeInv, Saves
  <2>4. CASE ReadSystem
    BY <2>1, <2>4 DEF ReadSystem, Owner, Transactions
  <2>5. CASE ExpireSave \/ PrepareUnload
    <3>1. tx' = [tx EXCEPT !.cancelled = TRUE]
      BY <1>5, <2>5 DEF ExpireSave, PrepareUnload
    <3>2. QED
      BY <2>1, <3>1 DEF Owner, Transactions
  <2>6. ASSUME tx.system # None, Remember(Reading) PROVE Owner'
    <3> DEFINE record == Observed(mem, Reading)
               state == Reading
    <3>1. record \in Records /\ state \in States
      BY <2>2, <2>6, ObservedType DEF TypeOK
    <3>2. tx' = [tx EXCEPT !.step = "record", !.system = None, !.after = state, !.record = record]
      BY <2>3, <2>6 DEF Remember
    <3> HIDE DEF record, state
    <3>3. QED
      BY <2>1, <3>1, <3>2 DEF Owner, Transactions
  <2>7. CASE PollReads \/ AlreadyOn \/ NoBasis \/ Verified
    BY <2>6, <2>7 DEF PollReads, AlreadyOn, NoBasis, Verified, Has
  <2>8. CASE OffLooks
    <3> DEFINE record == Intended(mem, Reading)
               state == Reading
    <3>1. /\ state \in States /\ state.mode \in Controlled /\ tx.step = "look" /\ tx.who # Poll
          /\ tx' = [tx EXCEPT !.step = "intend", !.system = None, !.before = state,
                              !.record = record]
      BY <2>2, <2>3, <2>8 DEF OffLooks, Has
    <3>2. record \in Records
      BY <3>1, IntendedType DEF TypeOK
    <3> HIDE DEF record, state
    <3>3. QED
      BY <2>1, <3>1, <3>2 DEF Owner, Transactions
  <2>9. CASE Guard
    <3> DEFINE state == Reading
    <3>1. PICK goal \in Goals(state) :
            tx' = [tx EXCEPT !.step = "send", !.system = None, !.before = state,
                             !.goal = goal, !.frames = Plan(state, goal),
                             !.phase = IF Wakes(state) THEN "wake" ELSE @]
      BY <2>9 DEF Guard
    <3>2. Plan(state, goal) # <<>>
      BY DEF Plan
    <3>3. state \in States /\ tx.step = "guard" /\ tx.who # Poll
      BY <2>1, <2>2, <2>9 DEF Guard, Has, Owner
    <3> DEFINE frames == Plan(state, goal)
               woken == Wakes(state)
    <3>4. /\ tx' = [tx EXCEPT !.step = "send", !.system = None, !.before = state,
                              !.goal = goal, !.frames = frames,
                              !.phase = IF woken THEN "wake" ELSE @]
          /\ frames # <<>>
      BY <3>1, <3>2
    <3> HIDE DEF frames, woken, state
    <3>5. QED
      BY <2>1, <3>3, <3>4 DEF Owner, Transactions
  <2>10. CASE Send
    <3>1. tx.frames \in Seq(Frames) /\ tx.frames # <<>> /\ tx.step = "send"
      BY <2>1, <2>10 DEF Send, Owner, Transactions
    <3>2. Len(tx.frames) # 1 => Tail(tx.frames) # <<>>
      <4>1. Len(Tail(tx.frames)) = Len(tx.frames) - 1 /\ Len(tx.frames) \in Nat \ {0}
        BY <3>1, HeadTailProperties, EmptySeq
      <4>2. Len(<<>>) = 0
        BY EmptySeq
      <4>3. ASSUME Tail(tx.frames) = <<>> PROVE Len(tx.frames) = 1
        <5>1. Len(Tail(tx.frames)) = 0
          BY <4>2, <4>3
        <5>2. QED
          BY <4>1, <5>1
      <4>4. QED
        BY <4>3
    <3>3. tx' = [tx EXCEPT !.frames = Tail(@), !.step = IF Len(tx.frames) = 1 THEN "confirm" ELSE @]
      BY <2>10 DEF Send
    <3>4. QED
      BY <2>1, <3>1, <3>2, <3>3 DEF Owner, Transactions
  <2>11. CASE Confirm
    BY <2>1, <2>11 DEF Confirm, Owner, Transactions
  <2>12. CASE Woken
    <3> DEFINE state == Reading
    <3>1. /\ state \in States /\ tx.step = "verify"
          /\ tx' = [tx EXCEPT !.step = "guard", !.system = None, !.before = state,
                              !.phase = "woken"]
      BY <2>2, <2>12 DEF Woken, Has
    <3> HIDE DEF state
    <3>2. QED
      BY <2>1, <3>1 DEF Owner, Transactions
  <2>13. CASE OffVerified
    <3> DEFINE record == Confirmed(mem, Reading)
               state == Reading
    <3>1. /\ state \in States /\ tx.step = "verify" /\ CanConfirm(mem, state)
          /\ tx' = [tx EXCEPT !.step = "record", !.system = None, !.after = state,
                              !.record = record]
      BY <2>2, <2>3, <2>13 DEF OffVerified, Has
    <3>2. record \in Records
      BY <3>1, ConfirmedType DEF TypeOK
    <3> HIDE DEF record, state
    <3>3. QED
      BY <2>1, <3>1, <3>2 DEF Owner, Transactions
  <2>14. CASE SaveVerified
    <3>1. tx' = [tx EXCEPT !.step = "guard", !.record = None] /\ tx.step = "intend"
      BY <2>3, <2>14 DEF SaveVerified
    <3>2. QED
      BY <2>1, <3>1 DEF Owner, Transactions
  <2>15. QED
    BY <1>5, <2>1, <2>3, <2>4, <2>5, <2>7, <2>8, <2>9, <2>10, <2>11, <2>12, <2>13, <2>14
       DEF Next, AnyRequest, Transaction, Save, Submit, Debounced, Expire, Admit, TurnAway,
           LampMoves, Handle, Lose, PollDue, AdmitPoll, OffConflicts, Fail, SaveTooLate,
           SaveFails, SaveCancelled, Setup, SetupFails, Unload, UnloadFails, Crash, RemoveEntry,
           vars
<1>6. QED
  BY <1>1, <1>3, <1>4, <1>5 DEF Begun

-----------------------------------------------------------------------------
LEMMA TypeInit == Init => TypeInv
<1> SUFFICES ASSUME Init PROVE TypeInv
  OBVIOUS
<1> USE ControlAssumption, LampAssumption DEF Init
<1>1. /\ <<>> \in Seq(Frames) /\ <<>> \in Seq(Actors) /\ Len(<<>>) = 0
      /\ EmptyRecord \in Records
  BY DEF EmptyRecord, Records
<1>2. wire \in [Requests -> Seq(Frames)] /\ newest \in [Channels -> 0..MaxRequests]
  BY <1>1
<1>3. /\ command \in [Requests -> CommandForms \union {None}]
      /\ place \in [Requests -> Places] /\ \A r \in Requests : place[r] = "free"
  BY DEF Places
<1>4. TypeOK
  <2>1. LampTyped /\ MemoryTyped /\ ViewTyped
    BY <1>1, <1>2 DEF LampTyped, MemoryTyped, ViewTyped
  <2>2. ClaimsTyped
    BY <1>2 DEF ClaimsTyped
  <2>3. RequestsTyped /\ queue \in Seq(Actors)
    BY <1>1, <1>3 DEF RequestsTyped
  <2>4. tx \in Transactions \union {None} /\ cycle \in Cycles \union {None}
    OBVIOUS
  <2>5. QED
    BY <2>1, <2>2, <2>3, <2>4
       DEF TypeOK, LampTyped, MemoryTyped, ViewTyped, ClaimsTyped, RequestsTyped
<1>5. Numbered /\ Owner /\ Queued
  BY <1>1, <1>3 DEF Numbered, Owner, Queued, Pendings, Contains, Before, Requests
<1>6. QED
  BY <1>4, <1>5 DEF TypeInv

LEMMA TypeStep == TypeInv /\ Inv /\ OffInv /\ [Next]_vars => TypeInv'
<1> SUFFICES ASSUME TypeInv, Inv, OffInv, [Next]_vars PROVE TypeInv'
  OBVIOUS
<1>1. LampTyped' /\ MemoryTyped' /\ ViewTyped' /\ (cycle \in Cycles \union {None})'
        /\ ClaimsTyped'
  BY LampTypeStep, MemoryTypeStep, ViewTypeStep, ClaimsTypeStep
<1>2. RequestsInv' /\ Owner'
  BY RequestsStep, OwnerStep
<1>3. tx' \in Transactions \union {None}
  BY HolderStep DEF Goes, Ends, Dies, Begun, Leave, TypeInv, TypeOK
<1>4. TypeOK'
  BY <1>1, <1>2, <1>3
     DEF TypeOK, LampTyped, MemoryTyped, ViewTyped, ClaimsTyped, RequestsInv, RequestsTyped
<1>5. QED
  BY <1>2, <1>4 DEF TypeInv, RequestsInv

-----------------------------------------------------------------------------
(* What an Off has saved.                                                     *)

\* A transaction that goes on changes the memory only when its intent is saved, and
\* the history only when the lamp is seen Off.
LEMMA MemoryKept ==
  ASSUME Inv, [Next]_vars, tx # None, tx' # None
  PROVE  /\ ~SaveVerified => UNCHANGED memory
         /\ ~OffVerified => cycle' = cycle
<1> USE DEF memory
<1>1. CASE UNCHANGED <<memory, cycle>>
  BY <1>1
<1>2. CASE Setup \/ RemoveEntry \/ Unload
  BY <1>2 DEF Setup, RemoveEntry, Unload, Settled, Inv, NothingLeft, UnloadWaits
<1>3. CASE PollReads \/ AlreadyOn \/ NoBasis \/ Verified \/ OffLooks
  BY <1>3 DEF PollReads, AlreadyOn, NoBasis, Verified, OffLooks, Remember, Publish
<1>4. CASE OffVerified
  BY <1>4 DEF OffVerified
<1>5. CASE SaveVerified
  BY <1>5 DEF SaveVerified, Publish
<1>6. QED
  BY <1>1, <1>2, <1>3, <1>4, <1>5
     DEF Next, AnyRequest, Transaction, Save, Submit, Debounced, Expire, Admit, TurnAway,
         LampMoves, Handle, Lose, PollDue, AdmitPoll, ReadSystem, OffConflicts, Guard, Send,
         Confirm, Woken, Fail, SaveTooLate, SaveFails, SaveCancelled, ExpireSave, SetupFails,
         PrepareUnload, UnloadFails, Crash, Leave, vars

\* The intent of an Off from this state is the one that a confirmation needs.
LEMMA IntendedIntends ==
  ASSUME NEW record \in Records, NEW state \in States, state.mode \in Controlled,
         state.profile \in PowerProfiles
  PROVE  Intends(Intended(record, state), state)
<1> DEFINE seen == Observed(record, state)
           origin == [profile |-> state.profile, mode |-> state.mode,
                      manual |-> KnownMix(seen, state), confirmed |-> FALSE, off |-> None]
<1>1. seen \in Records /\ Intended(record, state) \in Records
  BY ObservedType, IntendedType
<1>2. state.mode = "manual" /\ state.mix # Zero => KnownMix(seen, state) = state.mix
  <2>1. state.profile \in WriteProfiles /\ state.mix \in Mixes
    BY LampAssumption DEF States
  <2>2. CASE state.mode = "manual" /\ state.mix # Zero
    <3>1. seen.manual = [profile |-> state.profile, mix |-> state.mix]
      BY <2>1, <2>2 DEF Observed
    <3>2. seen.manual # None
      BY <2>1, <2>2, <3>1, NoMemoryAssumption DEF Manuals, States
    <3>3. QED
      BY <3>1, <3>2 DEF KnownMix
  <2>3. QED
    BY <2>2
<1>3. origin \in Origins
  <2>1. KnownMix(seen, state) \in (Mixes \ {Zero}) \union {None}
    BY <1>1 DEF KnownMix, Records, Manuals
  <2>2. QED
    BY <2>1 DEF Origins, States
<1>4. origin # None
  BY <1>3, NoMemoryAssumption
<1> HIDE DEF seen
<1>5. Intended(record, state).origin = origin
  BY <1>1 DEF Intended, Records, seen
<1>6. Intended(record, state) # Unreadable
  BY <1>1, ControlAssumption
<1>7. QED
  BY <1>2, <1>4, <1>5, <1>6 DEF Intends

\* A reading that has not drifted keeps an intent.
LEMMA IntendsKept ==
  ASSUME NEW record, NEW state, NEW seen, Intends(record, seen), ~Drifted(state, seen)
  PROVE  Intends(record, state)
BY DEF Intends, Drifted

LEMMA OffStep == TypeInv /\ Inv /\ OffInv /\ [Next]_vars => OffInv'
<1> SUFFICES ASSUME TypeInv, Inv, OffInv, [Next]_vars, tx' # None PROVE OffInv'
  BY DEF OffInv, Off
<1>1. tx' = tx \/ Goes \/ Begun
  BY HolderStep DEF Ends, Dies, Leave
<1>2. tx # None => tx \in Transactions /\ tx.who \in Actors
  BY DEF TypeInv, TypeOK, Transactions
<1>3. tx # None /\ (tx' = tx \/ Goes) => (Off' <=> Off) /\ tx'.who = tx.who
  BY RunningKept DEF Off, Goes
<1>4. CASE tx = None
  <2>1. CASE AdmitPoll
    BY <1>4, <2>1 DEF AdmitPoll, Begin, OffInv, Off
  <2>2. ASSUME NEW r \in Requests, Admit(r) PROVE OffInv'
    <3> DEFINE goal == CASE command[r].kind = "colour" -> command[r].mix
                         [] command[r].kind \in {"on", "dim"} -> ManualRestore(mem, memError, data)
                         [] OTHER -> None
    <3>1. \/ command[r].kind = "off" /\ Begin(r, "look", None, None)
          \/ command[r].kind # "off" /\ Begin(r, "guard", data, goal)
      BY <1>4, <2>2 DEF Admit
    <3>2. command' = command
      BY <1>4, <2>2 DEF Admit
    <3> HIDE DEF goal
    <3>3. QED
      BY <3>1, <3>2 DEF Begin, OffInv, Off, Committed
  <2>3. QED
    BY <1>1, <1>4, <2>1, <2>2
       DEF Next, AnyRequest, Transaction, Save, Submit, Debounced, Expire, TurnAway, LampMoves,
           Handle, Lose, PollDue, ReadSystem, PollReads, OffConflicts, OffLooks, AlreadyOn,
           NoBasis, Guard, Send, Confirm, Woken, Verified, OffVerified, Fail, Has, SaveVerified,
           SaveTooLate, SaveFails, SaveCancelled, ExpireSave, Setup, SetupFails, PrepareUnload,
           Awaited, Unload, UnloadFails, Crash, RemoveEntry, Goes, vars
<1>5. ASSUME tx # None, tx'.step = tx.step, tx'.phase = tx.phase, tx'.before = tx.before,
             tx'.record = tx.record, tx'.after = tx.after, Off' <=> Off,
             UNCHANGED <<memory, cycle>>
      PROVE  OffInv'
  BY <1>5 DEF OffInv, memory
<1>6. CASE tx # None /\ tx' = tx
  <2>1. ~SaveVerified /\ ~OffVerified
    <3>1. ~Leave /\ tx \in Transactions
      BY <1>2, <1>6 DEF Leave
    <3>2. ASSUME SaveVerified PROVE FALSE
      <4>1. tx' = [tx EXCEPT !.step = "guard", !.record = None] /\ tx.step \in Saves
        BY <3>1, <3>2 DEF SaveVerified
      <4>2. QED
        BY <1>6, <3>1, <4>1 DEF Transactions, Saves
    <3>3. ASSUME OffVerified PROVE FALSE
      <4> DEFINE state == Reading
                 record == Confirmed(mem, Reading)
      <4>1. /\ tx' = [tx EXCEPT !.step = "record", !.system = None, !.after = state,
                                !.record = record]
            /\ tx.step = "verify"
        BY <3>1, <3>3 DEF OffVerified, Has
      <4> HIDE DEF state, record
      <4>2. QED
        BY <1>6, <3>1, <4>1 DEF Transactions
    <3>4. QED
      BY <3>2, <3>3
  <2>2. QED
    BY <1>3, <1>5, <1>6, <2>1, MemoryKept
<1>7. CASE tx # None /\ Goes
  <2>1. /\ tx \in Transactions /\ (Off' <=> Off) /\ tx'.who = tx.who /\ ~Leave
    BY <1>2, <1>3, <1>7 DEF Leave
  <2>2. tx.system # None => Reading \in States
    BY <1>7, ReadingType DEF TypeInv
  <2>3. CASE ReadSystem \/ ExpireSave \/ PrepareUnload
    <3>1. \/ tx' = [tx EXCEPT !.system = [mode |-> lamp.mode, profile |-> lamp.profile]]
          \/ tx' = [tx EXCEPT !.cancelled = TRUE]
          \/ tx' = tx
      BY <2>3 DEF ReadSystem, ExpireSave, PrepareUnload
    <3>2. UNCHANGED <<memory, cycle>>
      BY <2>3 DEF ReadSystem, ExpireSave, PrepareUnload
    <3>3. QED
      BY <1>5, <1>7, <2>1, <3>1, <3>2 DEF Transactions
  <2>4. CASE PollReads \/ AlreadyOn \/ NoBasis \/ Verified
    <3> DEFINE record == Observed(mem, Reading)
               state == Reading
    <3>1. ~Off
      BY <2>4 DEF PollReads, AlreadyOn, NoBasis, HasBasis, Verified, Off, Pending
    <3>2. /\ tx' = [tx EXCEPT !.step = "record", !.system = None, !.after = state,
                              !.record = record]
          /\ mem' = mem
      BY <2>1, <2>4 DEF PollReads, AlreadyOn, NoBasis, Verified, Remember, memory
    <3>3. tx'.record = record /\ tx'.after = state
      <4> HIDE DEF record, state
      <4>1. QED
        BY <2>1, <3>2 DEF Transactions
    <3>4. QED
      BY <2>1, <3>1, <3>2, <3>3 DEF OffInv
  <2>5. CASE OffLooks
    <3> DEFINE record == Intended(mem, Reading)
               state == Reading
    <3>1. /\ state \in States /\ state.mode \in Controlled /\ state.profile \in PowerProfiles
          /\ tx.step = "look" /\ tx.who # Poll
          /\ tx' = [tx EXCEPT !.step = "intend", !.system = None, !.before = state,
                              !.record = record]
      BY <2>1, <2>2, <2>5 DEF OffLooks, Has
    <3>2. Off
      BY <1>7, <3>1 DEF TypeInv, Owner, Off
    <3>3. Intends(record, state)
      BY <3>1, IntendedIntends DEF TypeInv, TypeOK
    <3> HIDE DEF record, state
    <3>4. QED
      BY <2>1, <3>1, <3>2, <3>3 DEF OffInv, Transactions, Committed
  <2>6. CASE Guard
    <3> DEFINE state == Reading
    <3>1. PICK goal \in Goals(state) :
            tx' = [tx EXCEPT !.step = "send", !.system = None, !.before = state,
                             !.goal = goal, !.frames = Plan(state, goal),
                             !.phase = IF Wakes(state) THEN "wake" ELSE @]
      BY <2>6 DEF Guard
    <3>2. state \in States /\ tx.step = "guard" /\ ~Drifted(state, tx.before)
      BY <2>2, <2>6 DEF Guard, Has, Guarded
    <3>3. Off => ~Wakes(state)
      BY DEF Wakes, Off, Pending, Compact
    <3> DEFINE frames == Plan(state, goal)
               woken == Wakes(state)
    <3>4. /\ tx' = [tx EXCEPT !.step = "send", !.system = None, !.before = state,
                              !.goal = goal, !.frames = frames,
                              !.phase = IF woken THEN "wake" ELSE @]
          /\ (Off => ~woken) /\ UNCHANGED <<memory, cycle>>
      BY <2>6, <3>1, <3>3 DEF Guard
    <3> HIDE DEF frames, woken, state
    <3>5. /\ tx'.step = "send" /\ tx'.before = state /\ (Off => tx'.phase = tx.phase)
      BY <2>1, <3>4 DEF Transactions
    <3>6. Off => /\ tx.phase = "plain" /\ state.mode \in Controlled
                 /\ mem = disk /\ Intends(disk, state)
      BY <3>2, IntendsKept DEF OffInv, Drifted, Committed
    <3>7. QED
      BY <2>1, <3>4, <3>5, <3>6 DEF OffInv, Committed, memory
  <2>7. CASE Send
    <3>1. /\ tx' = [tx EXCEPT !.frames = Tail(@), !.step = IF Len(tx.frames) = 1 THEN "confirm" ELSE @]
          /\ tx.step = "send" /\ UNCHANGED <<memory, cycle>>
      BY <2>7 DEF Send
    <3>2. QED
      BY <2>1, <3>1 DEF OffInv, Transactions, Committed, memory
  <2>8. CASE Confirm
    BY <2>1, <2>8 DEF Confirm, OffInv, Transactions, Committed, memory
  <2>9. CASE Woken
    <3> DEFINE state == Reading
    <3>1. /\ tx.phase = "wake"
          /\ tx' = [tx EXCEPT !.step = "guard", !.system = None, !.before = state,
                              !.phase = "woken"]
      BY <2>9 DEF Woken
    <3> HIDE DEF state
    <3>2. QED
      BY <2>1, <3>1 DEF OffInv, Transactions
  <2>10. CASE OffVerified
    <3> DEFINE record == Confirmed(mem, Reading)
               state == Reading
    <3>1. /\ tx.step = "verify" /\ CanConfirm(mem, state) /\ Pending({"off"})
          /\ tx' = [tx EXCEPT !.step = "record", !.system = None, !.after = state,
                              !.record = record]
          /\ mem' = mem
      BY <2>1, <2>10 DEF OffVerified, Has, memory
    <3>2. Off
      BY <1>7, <3>1 DEF TypeInv, Owner, Off, Pending
    <3>3. cycle' # None
      <4>1. tx.before \in States /\ tx.before.mode \in Controlled
        BY <1>7, <3>1, <3>2 DEF OffInv, TypeInv, Owner, Committed
      <4>2. cycle' \in Cycles
        BY <2>10, <4>1 DEF OffVerified, Cycles, States
      <4>3. QED
        BY <4>2, NoTransactionAssumption
    <3>4. tx'.record = record /\ tx'.after = state /\ tx'.step = "record" /\ tx'.phase = tx.phase
      <4> HIDE DEF record, state
      <4>1. QED
        BY <2>1, <3>1 DEF Transactions
    <3>5. QED
      BY <2>1, <3>1, <3>2, <3>3, <3>4 DEF OffInv, Committed
  <2>11. CASE SaveVerified
    <3>1. /\ tx' = [tx EXCEPT !.step = "guard", !.record = None] /\ tx.step = "intend"
          /\ disk' = tx.record /\ mem' = tx.record
      BY <2>1, <2>11 DEF SaveVerified, Saves, Written
    <3>2. Off
      BY <1>7, <3>1 DEF TypeInv, Owner, Off
    <3>3. tx'.step = "guard" /\ tx'.before = tx.before /\ tx'.phase = tx.phase
      BY <2>1, <3>1 DEF Transactions
    <3>4. QED
      BY <2>1, <3>1, <3>2, <3>3 DEF OffInv, Committed
  <2>12. QED
    BY <1>6, <1>7, <2>1, <2>3, <2>4, <2>5, <2>6, <2>7, <2>8, <2>9, <2>10, <2>11
       DEF Next, AnyRequest, Transaction, Save, Submit, Debounced, Expire, Admit, TurnAway,
           LampMoves, Handle, Lose, PollDue, AdmitPoll, OffConflicts, Fail, SaveTooLate,
           SaveFails, SaveCancelled, Setup, SetupFails, Unload, UnloadFails, Crash, RemoveEntry,
           vars
<1>8. QED
  BY <1>1, <1>4, <1>6, <1>7 DEF Begun

-----------------------------------------------------------------------------
(* A sight of the lamp being On.                                              *)

LEMMA SightInit == Init => SightInv
BY DEF Init, SightInv

\* What is shown after a step: what was shown, a reading, or nothing any more.
LEMMA ShownStep ==
  ASSUME TypeInv, [Next]_vars, data' # data
  PROVE  data' \in States \/ Forget
<1> USE DEF view
<1>1. tx # None /\ tx.system # None => Reading \in States
  BY ReadingType DEF TypeInv
<1>2. tx # None /\ tx.step = "record" => tx.after \in States
  BY DEF TypeInv, Owner
<1>3. CASE PollReads \/ AlreadyOn \/ NoBasis \/ Verified \/ OffLooks \/ OffVerified
  BY <1>1, <1>3 DEF PollReads, AlreadyOn, NoBasis, Verified, OffLooks, OffVerified, Remember,
                    Publish, Has
<1>4. CASE Save
  BY <1>2, <1>4 DEF Save, SaveVerified, SaveTooLate, SaveFails, SaveCancelled, Publish, Told
<1>5. CASE SetupFails \/ Unload \/ Crash
  BY <1>5 DEF SetupFails, Unload, Crash
<1>6. QED
  BY <1>3, <1>4, <1>5
     DEF Next, AnyRequest, Transaction, Submit, Debounced, Expire, Admit, TurnAway,
         LampMoves, Handle, Lose, PollDue, AdmitPoll, ReadSystem, OffConflicts, Guard, Send,
         Confirm, Woken, Fail, ExpireSave, Setup, PrepareUnload, UnloadFails, RemoveEntry, vars

LEMMA SightStep == TypeInv /\ Inv /\ OffInv /\ SightInv /\ [Next]_vars => SightInv'
<1> SUFFICES ASSUME TypeInv, Inv, OffInv, SightInv, [Next]_vars PROVE SightInv'
  OBVIOUS
<1> USE DEF memory, view
<1> DEFINE Quiet(shown, record) ==
             shown # None /\ shown.mode \in Controlled =>
               record.origin = None \/ ~record.origin.confirmed
<1>1. tx # None => life # "gone" /\ (life' # "gone" \/ Forget)
  BY DEF Inv, NothingLeft, Next, AnyRequest, Transaction, Save, Submit, Debounced, Expire, Admit,
         TurnAway, LampMoves, Handle, Lose, PollDue, AdmitPoll, ReadSystem, PollReads, OffConflicts,
         OffLooks, AlreadyOn, NoBasis, Guard, Send, Confirm, Woken, Verified, OffVerified, Fail,
         Remember, Leave, Stay, SaveVerified, SaveTooLate, SaveFails, SaveCancelled, ExpireSave,
         Setup, SetupFails, PrepareUnload, Unload, UnloadFails, Crash, RemoveEntry, vars
<1>2. /\ tx # None /\ tx.system # None => Reading \in States
      /\ tx # None /\ tx.step = "record" => tx.after \in States
      /\ tx # None /\ tx.step \in Saves => tx.record \in Records
  BY ReadingType DEF TypeInv, Owner
<1>3. CASE Forget
  <2>1. tx' = None
    BY <1>3 DEF Next, AnyRequest, Transaction, Save, Submit, Debounced, Expire, Admit, TurnAway,
         LampMoves, Handle, Lose, PollDue, AdmitPoll, ReadSystem, PollReads, OffConflicts,
         OffLooks, AlreadyOn, NoBasis, Guard, Send, Confirm, Woken, Verified, OffVerified, Fail,
         Remember, Leave, Stay, Has, SaveVerified, SaveTooLate, SaveFails, SaveCancelled, ExpireSave,
         Setup, SetupFails, PrepareUnload, Unload, Settled, UnloadFails, Crash, RemoveEntry, vars,
         Forget, Inv, NothingLeft, UnloadWaits, bounds, outside, claims, requests
  <2>2. QED
    BY <1>3, <2>1 DEF Forget, SightInv
<1>4. CASE ~Forget
  <2>1. tx' # None /\ tx'.who # Poll => data' # None
    <3>1. data # None => data' # None
      BY <1>4, ShownStep, NoMemoryAssumption
    <3>2. tx' = tx \/ Goes \/ Ends \/ Begun
      BY <1>4, HolderStep DEF Dies
    <3>3. CASE tx # None
      BY <3>1, <3>2, <3>3 DEF Goes, Ends, Leave, Begun, SightInv
    <3>4. CASE tx = None /\ \E r \in Requests : Admit(r)
      BY <3>1, <3>4 DEF Admit, Admissible, Allowed, WriteSupported, PowerSupported, Current
    <3>5. CASE tx = None /\ AdmitPoll
      BY <3>5 DEF AdmitPoll, Begin
    <3>6. QED
      BY <3>2, <3>3, <3>4, <3>5
         DEF Next, AnyRequest, Transaction, Save, Submit, Debounced, Expire, TurnAway, LampMoves,
           Handle, Lose, PollDue, ReadSystem, PollReads, OffConflicts, OffLooks, AlreadyOn,
           NoBasis, Guard, Send, Confirm, Woken, Verified, OffVerified, Fail, Has, SaveVerified,
           SaveTooLate, SaveFails, SaveCancelled, ExpireSave, Setup, SetupFails, PrepareUnload,
           Awaited, Unload, UnloadFails, Crash, RemoveEntry, vars
  <2>2. ASSUME life' # "gone", ~memError' => Quiet(data', mem'), disk' = Unreadable => memError'
        PROVE  SightInv'
    BY <2>1, <2>2 DEF SightInv
  <2>3. CASE UNCHANGED <<memory, data>> /\ (life' = "gone" <=> life = "gone")
    BY <2>1, <2>3 DEF SightInv
  <2>4. CASE RemoveEntry
    <3>1. disk' # Unreadable
      BY <2>4, ControlAssumption DEF RemoveEntry, EmptyRecord, Records
    <3>2. QED
      BY <2>1, <2>4, <3>1 DEF RemoveEntry, SightInv
  <2>5. CASE Setup
    BY <2>2, <2>5 DEF Setup, SightInv
  <2>6. CASE OffConflicts \/ Fail
    <3>1. UNCHANGED <<memory, data>> /\ tx # None
      BY <2>6 DEF OffConflicts, Has, Fail
    <3>2. QED
      BY <1>1, <1>4, <2>3, <3>1
  <2>7. CASE PollReads \/ AlreadyOn \/ NoBasis \/ Verified
    <3>1. /\ tx # None /\ Reading \in States /\ Remember(Reading) /\ UNCHANGED memory
      BY <1>2, <2>7 DEF PollReads, AlreadyOn, NoBasis, Verified, Has
    <3>2. life # "gone" /\ life' # "gone"
      BY <1>1, <1>4, <3>1
    <3>3. CASE data' = data
      BY <2>3, <3>1, <3>2, <3>3
    <3>4. CASE data' = Reading /\ disk = Unreadable
      BY <2>2, <3>1, <3>2, <3>4 DEF SightInv
    <3>5. CASE data' = Reading /\ Observed(mem, Reading) = mem
      <4>1. Reading.mode \in Controlled => mem.origin = None
        BY <3>5 DEF Observed
      <4>2. QED
        BY <2>2, <3>1, <3>2, <3>5, <4>1 DEF SightInv
    <3>6. QED
      BY <3>1, <3>3, <3>4, <3>5 DEF Remember, Publish
  <2>8. CASE OffLooks
    <3>1. /\ tx # None /\ tx.who # Poll /\ data' = Reading /\ UNCHANGED memory
          /\ ~Drifted(Reading, data)
      BY <2>8 DEF OffLooks, Has, Publish
    <3>2. data # None /\ Reading.mode = data.mode
      BY <3>1 DEF SightInv, Drifted
    <3>3. QED
      BY <1>1, <1>4, <2>2, <3>1, <3>2 DEF SightInv
  <2>9. CASE OffVerified
    <3>1. tx # None /\ UNCHANGED memory /\ data' \in {data, Reading} /\ Pending({"off"})
             /\ Reading.mode = Wanted
      BY <2>9 DEF OffVerified, Has, Reached
    <3>2. Reading.mode = "shutdown"
      BY <3>1 DEF Pending, Wanted
    <3>3. QED
      BY <1>1, <1>4, <2>2, <3>1, <3>2 DEF SightInv, Controlled
  <2>10. CASE SaveVerified \/ SaveTooLate
    <3>1. /\ tx # None /\ tx.step \in Saves /\ mem' = tx.record /\ disk' = tx.record
          /\ tx.record \in Records
      BY <1>2, <2>10 DEF SaveVerified, SaveTooLate, Written, Saves
    <3>2. disk' # Unreadable
      BY <3>1, ControlAssumption
    <3>3. CASE tx.step = "intend"
      <4>1. Off
        BY <3>1, <3>3 DEF TypeInv, Owner, Off
      <4>2. ~tx.record.origin.confirmed
        BY <3>3, <4>1 DEF OffInv, Intends
      <4>3. QED
        BY <1>1, <1>4, <2>2, <3>1, <3>2, <4>2
    <3>4. CASE tx.step = "record"
      <4>1. data' = tx.after
        BY <2>10, <3>4 DEF SaveVerified, SaveTooLate, Publish
      <4>2. tx.after.mode \in Controlled => tx.record.origin = None
        <5>1. CASE Off
          BY <3>4, <5>1 DEF OffInv, CanConfirm, Controlled
        <5>2. CASE ~Off
          <6>1. tx.record = Observed(mem, tx.after)
            BY <3>1, <3>4, <5>2 DEF OffInv
          <6>2. QED
            BY <6>1 DEF Observed
        <5>3. QED
          BY <5>1, <5>2
      <4>3. QED
        BY <1>1, <1>4, <2>2, <3>1, <3>2, <4>1, <4>2
    <3>5. QED
      BY <3>1, <3>3, <3>4 DEF Saves
  <2>11. CASE \E outcome \in {"unverified", "unwritten"} : SaveFails(outcome) \/ SaveCancelled(outcome)
    BY <1>1, <1>4, <2>2, <2>11 DEF SaveFails, SaveCancelled
  <2>12. QED
    BY <1>4, <2>3, <2>4, <2>5, <2>6, <2>7, <2>8, <2>9, <2>10, <2>11
       DEF Next, AnyRequest, Transaction, Save, Submit, Debounced, Expire, Admit, TurnAway,
           LampMoves, Handle, Lose, PollDue, AdmitPoll, ReadSystem, Guard, Send, Confirm, Woken,
           ExpireSave, SetupFails, PrepareUnload, Unload, UnloadFails, Crash, vars
<1>5. QED
  BY <1>3, <1>4

-----------------------------------------------------------------------------
(* The latest Off that the lamp confirmed.                                    *)

LEMMA CycleInit ==
  ASSUME Init, \A record \in InitialRecords :
           record = Unreadable \/ record.origin = None \/ ~record.origin.confirmed
  PROVE  CycleInv
BY DEF Init, CycleInv, Agrees, EmptyRecord, RunsOn

\* Which fields of a transaction change as it goes on.
LEMMA GoesFields ==
  ASSUME TypeInv, [Next]_vars, Goes
  PROVE  /\ tx'.goal = tx.goal \/ Guard
         /\ tx'.phase = tx.phase \/ Guard \/ (Woken /\ tx.phase = "wake")
         /\ tx'.step = "record" =>
              \/ tx.step = "record" /\ tx'.record = tx.record
              \/ PollReads \/ AlreadyOn \/ NoBasis \/ Verified \/ OffVerified
<1> DEFINE Kept == tx'.goal = tx.goal /\ tx'.phase = tx.phase
<1>1. tx # None /\ tx \in Transactions /\ tx' # None
  BY NoTransactionAssumption DEF TypeInv, TypeOK, Goes
<1>2. ~Leave
  BY <1>1 DEF Leave
<1>3. CASE tx' = tx
  BY <1>3
<1>4. CASE ReadSystem
  BY <1>1, <1>4 DEF ReadSystem, Transactions
<1>5. CASE PrepareUnload \/ ExpireSave
  <2>1. tx' = tx \/ tx' = [tx EXCEPT !.cancelled = TRUE]
    BY <1>5 DEF PrepareUnload, ExpireSave
  <2>2. QED
    BY <1>1, <2>1 DEF Transactions
<1>6. ASSUME NEW a, NEW b, NEW c, NEW d,
             tx' = [tx EXCEPT !.step = a, !.system = None, !.after = b, !.record = c]
      PROVE  Kept
  BY <1>1, <1>6 DEF Transactions
<1>7. CASE PollReads \/ AlreadyOn \/ NoBasis \/ Verified
  <2>1. tx' = [tx EXCEPT !.step = "record", !.system = None, !.after = Reading,
                         !.record = Observed(mem, Reading)]
    BY <1>2, <1>7 DEF PollReads, AlreadyOn, NoBasis, Verified, Remember
  <2>2. QED
    BY <1>6, <1>7, <2>1
<1>8. CASE OffVerified
  <2>1. tx' = [tx EXCEPT !.step = "record", !.system = None, !.after = Reading,
                         !.record = Confirmed(mem, Reading)]
    BY <1>2, <1>8 DEF OffVerified
  <2>2. QED
    BY <1>6, <1>8, <2>1
<1>9. CASE OffLooks
  <2> DEFINE state == Reading
             record == Intended(mem, Reading)
  <2>1. tx' = [tx EXCEPT !.step = "intend", !.system = None, !.before = state, !.record = record]
    BY <1>2, <1>9 DEF OffLooks
  <2> HIDE DEF state, record
  <2>2. QED
    BY <1>1, <2>1 DEF Transactions
<1>10. CASE Guard
  <2> DEFINE state == Reading
  <2>1. PICK goal \in Goals(state) :
          tx' = [tx EXCEPT !.step = "send", !.system = None, !.before = state,
                           !.goal = goal, !.frames = Plan(state, goal),
                           !.phase = IF Wakes(state) THEN "wake" ELSE @]
    BY <1>10 DEF Guard
  <2> DEFINE frames == Plan(state, goal)
             woken == Wakes(state)
  <2>2. tx' = [tx EXCEPT !.step = "send", !.system = None, !.before = state, !.goal = goal,
                         !.frames = frames, !.phase = IF woken THEN "wake" ELSE @]
    BY <2>1
  <2> HIDE DEF state, frames, woken
  <2>3. tx'.step = "send"
    BY <1>1, <2>2 DEF Transactions
  <2>4. QED
    BY <1>10, <2>3
<1>11. CASE Send
  <2>1. tx' = [tx EXCEPT !.frames = Tail(@), !.step = IF Len(tx.frames) = 1 THEN "confirm" ELSE @]
        /\ tx.step = "send"
    BY <1>11 DEF Send
  <2>2. QED
    BY <1>1, <2>1 DEF Transactions
<1>12. CASE Confirm
  BY <1>1, <1>12 DEF Confirm, Transactions
<1>13. CASE Woken
  <2> DEFINE state == Reading
  <2>1. /\ tx' = [tx EXCEPT !.step = "guard", !.system = None, !.before = state, !.phase = "woken"]
        /\ tx.phase = "wake"
    BY <1>13 DEF Woken
  <2> HIDE DEF state
  <2>2. QED
    BY <1>1, <1>13, <2>1 DEF Transactions
<1>14. CASE SaveVerified
  <2>1. tx' = [tx EXCEPT !.step = "guard", !.record = None]
    BY <1>2, <1>14 DEF SaveVerified
  <2>2. QED
    BY <1>1, <2>1 DEF Transactions
<1>15. QED
  BY <1>1, <1>2, <1>3, <1>4, <1>5, <1>7, <1>8, <1>9, <1>10, <1>11, <1>12, <1>13, <1>14
       DEF Next, AnyRequest, Transaction, Save, Submit, Debounced, Expire, Admit, TurnAway,
           LampMoves, Handle, Lose, PollDue, AdmitPoll, OffConflicts, Fail, SaveTooLate,
           SaveFails, SaveCancelled, Setup, SetupFails, Unload, UnloadFails, Crash, RemoveEntry,
           vars

LEMMA OffRecords ==
  ASSUME TypeInv, [Next]_vars, Off, Goes, tx'.step = "record", ~OffVerified
  PROVE  tx.step = "record" /\ tx'.record = tx.record
<1>1. ~(PollReads \/ AlreadyOn \/ NoBasis \/ Verified)
  BY DEF PollReads, AlreadyOn, NoBasis, HasBasis, Verified, Off, Pending
<1>2. QED
  BY <1>1, GoesFields

\* An On keeps what it is to restore.
LEMMA OnGoes ==
  ASSUME TypeInv, [Next]_vars, RunsOn, tx' = tx \/ Goes
  PROVE  tx'.goal = tx.goal /\ (tx'.phase # "plain" => tx.phase # "plain" \/ tx.goal # None)
<1>1. CASE tx' = tx
  BY <1>1
<1>2. CASE Goes /\ Guard
  <2> DEFINE state == Reading
  <2>1. PICK goal \in Goals(state) :
          tx' = [tx EXCEPT !.step = "send", !.system = None, !.before = state,
                           !.goal = goal, !.frames = Plan(state, goal),
                           !.phase = IF Wakes(state) THEN "wake" ELSE @]
    BY <1>2 DEF Guard
  <2>2. goal = tx.goal
    BY <2>1 DEF Goals, RunsOn
  <2>3. Wakes(state) => tx.goal # None
    BY DEF Wakes, Pending, Compact, RunsOn
  <2>4. tx \in Transactions
    BY DEF TypeInv, TypeOK, RunsOn
  <2> DEFINE frames == Plan(state, goal)
             woken == Wakes(state)
  <2>5. /\ tx' = [tx EXCEPT !.step = "send", !.system = None, !.before = state, !.goal = goal,
                            !.frames = frames, !.phase = IF woken THEN "wake" ELSE @]
        /\ (woken => tx.goal # None)
    BY <2>1, <2>3
  <2> HIDE DEF state, frames, woken
  <2>6. QED
    BY <2>2, <2>4, <2>5 DEF Transactions
<1>3. CASE Goes /\ ~Guard
  BY <1>3, GoesFields
<1>4. QED
  BY <1>1, <1>2, <1>3

\* A transaction begins with a reading, and an On with what the memory restores.
LEMMA BegunReads ==
  ASSUME TypeInv, [Next]_vars, Begun
  PROVE  /\ tx'.step \in Reads /\ tx'.phase = "plain" /\ command' = command
         /\ tx'.who # Poll /\ command[tx'.who].kind = "on" =>
              tx'.goal = ManualRestore(mem, memError, data)
         /\ tx'.goal # None => tx'.who # Poll /\ command[tx'.who].kind \in Aims
<1> USE DEF Reads, Aims
<1>1. tx = None /\ tx' # None
  BY NoTransactionAssumption DEF Begun
<1>2. CASE AdmitPoll
  BY <1>1, <1>2 DEF AdmitPoll, Begin, requests
<1>3. ASSUME NEW r \in Requests, Admit(r)
      PROVE  /\ tx'.step \in Reads /\ tx'.phase = "plain" /\ command' = command
             /\ tx'.who # Poll /\ command[tx'.who].kind = "on" =>
                  tx'.goal = ManualRestore(mem, memError, data)
             /\ tx'.goal # None => tx'.who # Poll /\ command[tx'.who].kind \in Aims
  <2> DEFINE goal == CASE command[r].kind = "colour" -> command[r].mix
                       [] command[r].kind \in {"on", "dim"} -> ManualRestore(mem, memError, data)
                       [] OTHER -> None
  <2>1. /\ command' = command
        /\ \/ command[r].kind = "off" /\ Begin(r, "look", None, None)
           \/ Begin(r, "guard", data, goal)
    BY <1>1, <1>3 DEF Admit
  <2>2. /\ command[r].kind = "on" => goal = ManualRestore(mem, memError, data)
        /\ goal # None => command[r].kind \in Aims
        /\ r # Poll
    BY <1>3 DEF Admit
  <2> HIDE DEF goal
  <2>3. QED
    BY <2>1, <2>2 DEF Begin
<1>4. QED
  BY <1>1, <1>2, <1>3
       DEF Next, AnyRequest, Transaction, Save, Submit, Debounced, Expire, TurnAway, LampMoves,
           Handle, Lose, PollDue, ReadSystem, PollReads, OffConflicts, OffLooks, AlreadyOn,
           NoBasis, Guard, Send, Confirm, Woken, Verified, OffVerified, Fail, Has, SaveVerified,
           SaveTooLate, SaveFails, SaveCancelled, ExpireSave, Setup, SetupFails, PrepareUnload,
           Awaited, Unload, UnloadFails, Crash, RemoveEntry, vars

LEMMA CycleStep == TypeInv /\ Inv /\ OffInv /\ SightInv /\ CycleInv /\ [Next]_vars => CycleInv'
<1> SUFFICES ASSUME TypeInv, Inv, OffInv, SightInv, CycleInv, [Next]_vars PROVE CycleInv'
  OBVIOUS
<1> USE DEF memory
<1>1. \A off : Agrees(off, EmptyRecord)
  BY DEF Agrees, EmptyRecord
<1>2. tx # None => tx \in Transactions /\ tx.who \in Actors
  BY DEF TypeInv, TypeOK, Transactions
<1>3. tx' = tx \/ Goes \/ tx' = None \/ Begun
  BY HolderStep DEF Ends, Dies, Leave
<1>4. tx # None /\ (tx' = tx \/ Goes) => (RunsOn' <=> RunsOn) /\ (Off' <=> Off)
  BY RunningKept DEF RunsOn, Off, Goes
<1>5. CASE RemoveEntry
  BY <1>1, <1>5 DEF RemoveEntry, SightInv, CycleInv, Agrees, RunsOn
<1>6. CASE OffVerified
  <2>1. /\ tx # None /\ tx.step = "verify" /\ Pending({"off"}) /\ UNCHANGED memory
        /\ cycle' = [mode |-> tx.before.mode, mix |-> tx.before.mix, told |-> FALSE]
    BY <1>6 DEF OffVerified, Has
  <2>2. Off /\ mem = disk /\ Intends(disk, tx.before)
    BY <2>1 DEF TypeInv, Owner, Off, OffInv, Pending, Committed
  <2>3. Agrees(cycle', disk') /\ Agrees(cycle', mem')
    BY <2>1, <2>2 DEF Intends, Agrees
  <2>4. CASE tx' = None
    BY <2>3, <2>4 DEF CycleInv, RunsOn
  <2>5. CASE Goes
    <3> DEFINE record == Confirmed(mem, Reading)
               state == Reading
    <3>1. /\ tx' = [tx EXCEPT !.step = "record", !.system = None, !.after = state,
                              !.record = record]
          /\ CanConfirm(mem, state) /\ tx' # None
      BY <1>6, <2>5, NoTransactionAssumption DEF OffVerified, Leave, Goes
    <3>2. mem \in Records /\ mem.origin \in Origins
      BY <3>1 DEF TypeInv, TypeOK, CanConfirm, Records
    <3>3. record.origin.mode = tx.before.mode /\ record.origin.manual = mem.origin.manual
      BY <2>2, <3>2 DEF Intends, Confirmed, Records, Origins
    <3>4. cycle' # None
      <4>1. tx.before \in States /\ tx.before.mode \in Controlled
        BY <2>1, <2>2 DEF OffInv, TypeInv, Owner, Committed
      <4>2. cycle' \in Cycles
        BY <2>1, <4>1 DEF Cycles, States
      <4>3. QED
        BY <4>2, NoTransactionAssumption
    <3>5. Agrees(cycle', record)
      BY <2>1, <2>2, <3>3, <3>4 DEF Agrees, Intends
    <3>6. tx'.record = record
      <4> HIDE DEF record, state
      <4>1. QED
        BY <1>2, <2>1, <3>1 DEF Transactions
    <3>7. ~RunsOn'
      BY <1>4, <2>1, <2>2, <2>5 DEF RunsOn, Off
    <3>8. QED
      BY <2>3, <3>5, <3>6, <3>7 DEF CycleInv
  <2>6. QED
    <3>1. Leave \/ tx' # tx
      <4>1. CASE ~Leave
        <5> DEFINE record == Confirmed(mem, Reading)
                   state == Reading
        <5>1. tx' = [tx EXCEPT !.step = "record", !.system = None, !.after = state,
                               !.record = record]
          BY <1>6, <4>1 DEF OffVerified
        <5> HIDE DEF record, state
        <5>2. tx'.step = "record"
          BY <1>2, <2>1, <5>1 DEF Transactions
        <5>3. QED
          BY <2>1, <5>2
      <4>2. QED
        BY <4>1
    <3>2. QED
      BY <1>3, <2>1, <2>4, <2>5, <3>1 DEF Leave, Begun
<1>7. CASE ~RemoveEntry /\ ~OffVerified
  <2>1. \A record : Agrees(cycle, record) => Agrees(cycle', record)
    <3>1. cycle' = cycle \/ (cycle # None /\ cycle \in Cycles /\ cycle' = [cycle EXCEPT !.told = TRUE])
      <4>1. CASE cycle' = cycle
        BY <4>1
      <4>2. CASE \E outcome \in {"unverified", "unwritten"} : SaveFails(outcome)
        <5>1. Told => Off /\ tx.step = "record"
          BY <4>2 DEF Told, SaveFails, Off, Pending
        <5>2. Told => cycle # None /\ cycle \in Cycles
          BY <5>1 DEF OffInv, TypeInv, TypeOK
        <5>3. QED
          BY <4>2, <5>2 DEF SaveFails, Publish
      <4>3. QED
        BY <1>7, <4>1, <4>2
           DEF Next, AnyRequest, Transaction, Save, Submit, Debounced, Expire, Admit, TurnAway,
         LampMoves, Handle, Lose, PollDue, AdmitPoll, ReadSystem, PollReads, OffConflicts,
         OffLooks, AlreadyOn, NoBasis, Guard, Send, Confirm, Woken, Verified, Fail,
         Remember, Publish, SaveVerified, SaveTooLate, SaveCancelled, ExpireSave,
         Setup, SetupFails, PrepareUnload, Unload, UnloadFails, Crash, vars
    <3>2. CASE cycle' = cycle
      BY <3>2
    <3>3. CASE cycle # None /\ cycle \in Cycles /\ cycle' = [cycle EXCEPT !.told = TRUE]
      <4>1. cycle'.mode = cycle.mode /\ cycle'.mix = cycle.mix /\ cycle' \in Cycles
        BY <3>3 DEF Cycles
      <4>2. QED
        BY <3>3, <4>1, NoTransactionAssumption DEF Agrees
    <3>4. QED
      BY <3>1, <3>2, <3>3
  <2>2. cycle # None => cycle' # None /\ cycle'.mode = cycle.mode /\ cycle'.mix = cycle.mix
    <3>1. cycle' = cycle \/ tx' = None \/ tx = None
      BY <1>7, MemoryKept
    <3>2. QED
      <4>1. cycle' = cycle \/ (cycle # None => cycle \in Cycles /\ cycle' = [cycle EXCEPT !.told = TRUE])
        BY <1>7
           DEF Next, AnyRequest, Transaction, Save, Submit, Debounced, Expire, Admit, TurnAway,
         LampMoves, Handle, Lose, PollDue, AdmitPoll, ReadSystem, PollReads, OffConflicts,
         OffLooks, AlreadyOn, NoBasis, Guard, Send, Confirm, Woken, Verified, Fail,
         Remember, Publish, SaveVerified, SaveTooLate, SaveFails, SaveCancelled, ExpireSave,
         Setup, SetupFails, PrepareUnload, Unload, UnloadFails, Crash, vars, TypeInv, TypeOK
      <4>2. CASE cycle' = cycle
        BY <4>2
      <4>3. CASE cycle \in Cycles /\ cycle' = [cycle EXCEPT !.told = TRUE]
        <5>1. cycle'.mode = cycle.mode /\ cycle'.mix = cycle.mix /\ cycle' \in Cycles
          BY <4>3 DEF Cycles
        <5>2. QED
          BY <5>1, NoTransactionAssumption
      <4>4. QED
        BY <4>1, <4>2, <4>3
  <2>3. Agrees(cycle, disk') /\ Agrees(cycle, mem')
    <3>1. tx # None /\ tx.step \in Saves => Agrees(cycle, tx.record)
      BY DEF CycleInv
    <3>2. disk' \in {disk} \/ (tx # None /\ tx.step \in Saves /\ disk' = tx.record)
      BY <1>7 DEF Written, Next, AnyRequest, Transaction, Save, Submit, Debounced, Expire, Admit, TurnAway,
         LampMoves, Handle, Lose, PollDue, AdmitPoll, ReadSystem, PollReads, OffConflicts,
         OffLooks, AlreadyOn, NoBasis, Guard, Send, Confirm, Woken, Verified, Fail,
         SaveVerified, SaveTooLate, SaveFails, SaveCancelled, ExpireSave, Saves,
         Setup, SetupFails, PrepareUnload, Unload, UnloadFails, Crash, vars
    <3>3. \/ mem' \in {mem, disk, EmptyRecord}
          \/ tx # None /\ tx.step \in Saves /\ mem' = tx.record
      BY <1>7 DEF Next, AnyRequest, Transaction, Save, Submit, Debounced, Expire, Admit, TurnAway,
         LampMoves, Handle, Lose, PollDue, AdmitPoll, ReadSystem, PollReads, OffConflicts,
         OffLooks, AlreadyOn, NoBasis, Guard, Send, Confirm, Woken, Verified, Fail,
         SaveVerified, SaveTooLate, SaveFails, SaveCancelled, ExpireSave, Saves, Forget,
         Setup, SetupFails, PrepareUnload, Unload, UnloadFails, Crash, vars
    <3>4. QED
      BY <1>1, <3>1, <3>2, <3>3 DEF CycleInv
  <2>4. tx' # None /\ tx'.step \in Saves => Agrees(cycle, tx'.record)
    <3>1. ASSUME NEW state \in States PROVE Agrees(cycle, Observed(mem, state))
      BY ControlAssumption DEF Observed, Agrees, CycleInv, TypeInv, TypeOK
    <3>2. \A record \in Records, state \in States :
            state.mode \in Controlled /\ state.profile \in PowerProfiles =>
              Agrees(cycle, Intended(record, state))
      BY IntendedIntends DEF Intends, Agrees
    <3>3. CASE tx' = tx
      BY <3>3 DEF CycleInv
    <3>4. CASE Goes /\ tx'.step = "record"
      <4>1. CASE Off
        <5>1. Off' /\ tx # None /\ tx \in Transactions
          BY <1>2, <1>4, <3>4, <4>1 DEF Goes
        <5>2. tx.step = "record" /\ tx'.record = tx.record
          BY <3>4, <4>1, <5>1, <1>7, OffRecords
        <5>3. QED
          BY <5>1, <5>2 DEF CycleInv, Saves
      <4>2. CASE ~Off
        <5>1. ~Off' /\ tx # None /\ tx' # None
          BY <1>4, <3>4, <4>2, NoTransactionAssumption DEF Goes
        <5>2. tx'.record = Observed(mem', tx'.after) /\ tx'.after \in States
          BY <3>4, <5>1, OffStep, OwnerStep DEF OffInv, Owner
        <5>3. mem' = mem
          <6>1. ~SaveVerified
            <7>1. tx.step # "guard" => ~SaveVerified \/ tx'.step = "guard" \/ Leave
              BY <1>2, <5>1 DEF SaveVerified, Transactions
            <7>2. QED
              BY <1>2, <3>4, <5>1, <7>1 DEF SaveVerified, Leave, Transactions, Saves
          <6>2. QED
            BY <5>1, <6>1, MemoryKept
        <5>4. QED
          BY <3>1, <5>2, <5>3
      <4>3. QED
        BY <4>1, <4>2
    <3>5. CASE Goes /\ tx'.step = "intend"
      <4>1. tx # None /\ tx \in Transactions /\ tx' # None
        BY <1>2, <3>5, NoTransactionAssumption DEF Goes
      <4>2. Intends(tx'.record, tx'.before)
        <5>1. Off'
          BY <3>5, <4>1, OwnerStep DEF Owner, Off
        <5>2. QED
          BY <3>5, <5>1, OffStep DEF OffInv
      <4>3. QED
        BY <4>2 DEF Intends, Agrees
    <3>6. CASE Begun
      BY <3>6, BegunReads DEF Saves, Reads
    <3>7. QED
      BY <1>3, <3>3, <3>4, <3>5, <3>6 DEF Saves
  <2>5. RunsOn' /\ tx'.goal # None =>
          cycle # None /\ cycle.mode = "manual" /\ (cycle.mix # Zero => tx'.goal = cycle.mix)
    <3>1. CASE tx # None /\ (tx' = tx \/ Goes) /\ RunsOn'
      <4>1. RunsOn /\ tx'.goal = tx.goal
        BY <1>4, <3>1, OnGoes
      <4>2. QED
        BY <4>1 DEF CycleInv
    <3>2. CASE Begun /\ RunsOn'
      <4>1. tx'.goal = None \/ tx'.goal = ManualRestore(mem, memError, data)
        BY <3>2, BegunReads DEF RunsOn
      <4>2. QED
        BY <4>1, ControlAssumption DEF ManualRestore, CycleInv, Agrees, TypeInv, TypeOK
    <3>3. QED
      BY <1>3, <3>1, <3>2 DEF RunsOn, Goes
  <2>6. RunsOn' /\ tx'.phase # "plain" => tx'.goal # None
    <3>1. CASE tx # None /\ (tx' = tx \/ Goes) /\ RunsOn'
      <4>1. RunsOn /\ tx'.goal = tx.goal /\ (tx'.phase # "plain" => tx.phase # "plain" \/ tx.goal # None)
        BY <1>4, <3>1, OnGoes
      <4>2. QED
        BY <4>1 DEF CycleInv
    <3>2. CASE Begun /\ RunsOn'
      BY <3>2, BegunReads
    <3>3. QED
      BY <1>3, <3>1, <3>2 DEF RunsOn, Goes
  <2>7. QED
    BY <2>1, <2>2, <2>3, <2>4, <2>5, <2>6 DEF CycleInv
<1>8. QED
  BY <1>5, <1>6, <1>7

-----------------------------------------------------------------------------
(* The order of the requests.                                                 *)

LEMMA BeforeContains ==
  ASSUME NEW q, NEW x, NEW y, Before(q, x, y)
  PROVE  Contains(q, x) /\ Contains(q, y)
BY DEF Before, Contains

LEMMA OvertakenInit == Init => Overtaken
<1> SUFFICES ASSUME Init, NEW r \in Requests, NEW q \in Requests, Ahead(q, r) PROVE FALSE
  BY DEF Overtaken
<1>1. Len(queue) = 0
  BY EmptySeq DEF Init
<1>2. QED
  BY <1>1 DEF Init, Ahead, Before

\* A request that goes on waiting keeps its command, and is not the newest again once
\* it was overtaken.
LEMMA CommandKept ==
  ASSUME TypeInv, [Next]_vars, NEW r \in Requests, place[r] \in {"debounce", "waiting"},
         place'[r] \in Pendings
  PROVE  command'[r] = command[r]
<1> USE DEF requests
<1>1. RequestsTyped
  BY DEF TypeInv, TypeOK, RequestsTyped
<1>2. CASE UNCHANGED command
  BY <1>2
<1>3. ASSUME NEW q \in Requests, place' = [place EXCEPT ![q] = "refused"] \/ place[q] \in {"running", "free"},
             NEW c, command' = [command EXCEPT ![q] = c]
      PROVE  command'[r] = command[r]
  <2>1. q # r
    BY <1>1, <1>3 DEF RequestsTyped, Pendings
  <2>2. QED
    BY <1>1, <1>3, <2>1 DEF RequestsTyped
<1>4. CASE tx # None /\ Leave
  <2>1. CASE tx.who = Poll
    BY <1>2, <1>4, <2>1 DEF Leave
  <2>2. CASE tx.who # Poll
    <3>1. tx.who \in Requests /\ place[tx.who] = "running"
      BY <1>4, <2>2 DEF TypeInv, TypeOK, Transactions, Actors, Owner
    <3>2. QED
      BY <1>3, <1>4, <2>2, <3>1 DEF Leave
  <2>3. QED
    BY <2>1, <2>2
<1>5. ASSUME NEW c, Submit(c) PROVE command'[r] = command[r]
  <2>1. asked + 1 \in Requests /\ place[asked + 1] = "free"
    BY <1>5, ControlAssumption DEF Submit, Requests, TypeInv, TypeOK, Numbered
  <2>2. QED
    BY <1>3, <1>5, <2>1 DEF Submit
<1>6. CASE Forget
  BY <1>1, <1>6 DEF Forget, Pendings, RequestsTyped
<1>7. ASSUME NEW q \in Requests, Expire(q) \/ TurnAway(q) \/ Admit(q) PROVE command'[r] = command[r]
  BY <1>2, <1>3, <1>7 DEF Expire, TurnAway, Admit
<1>8. CASE Stay
  BY <1>8 DEF Stay
<1>9. QED
  BY <1>2, <1>4, <1>5, <1>6, <1>7, <1>8
     DEF Next, AnyRequest, Transaction, Save, LampMoves, Handle, Lose, PollDue, AdmitPoll,
         ReadSystem, PollReads, OffConflicts, OffLooks, AlreadyOn, NoBasis, Guard, Send, Confirm,
         Woken, Verified, OffVerified, Fail, Remember, Has, Debounced, SaveVerified, SaveTooLate,
         SaveFails, SaveCancelled, ExpireSave, Setup, SetupFails, PrepareUnload, Unload,
         UnloadFails, Crash, RemoveEntry, vars

LEMMA ClaimsStep ==
  ASSUME TypeInv, [Next]_vars, ~Forget
  PROVE  /\ \A k \in Channels : newest'[k] = newest[k] \/ newest'[k] = asked + 1
         /\ gesture' \in {gesture, 0, asked + 1}
<1> USE DEF claims
<1>1. CASE UNCHANGED claims \/ Distrust
  BY <1>1 DEF Distrust
<1>2. ASSUME NEW c, Submit(c)
      PROVE  /\ \A k \in Channels : newest'[k] = newest[k] \/ newest'[k] = asked + 1
             /\ gesture' \in {gesture, 0, asked + 1}
  BY <1>2 DEF Submit
<1>3. QED
  BY <1>1, <1>2
     DEF Next, AnyRequest, Transaction, Save, Debounced, Expire, Admit, TurnAway, LampMoves,
         Handle, Lose, PollDue, AdmitPoll, ReadSystem, PollReads, OffConflicts, OffLooks,
         AlreadyOn, NoBasis, Guard, Send, Confirm, Woken, Verified, OffVerified, Fail,
         SaveVerified, SaveTooLate, SaveFails, SaveCancelled, ExpireSave, Setup, SetupFails,
         PrepareUnload, Unload, UnloadFails, Crash, RemoveEntry, vars

LEMMA SupersededKept ==
  ASSUME TypeInv, [Next]_vars, NEW r \in Requests, place[r] \in {"debounce", "waiting"},
         place'[r] \in Pendings, Superseded(r)
  PROVE  Superseded(r)'
<1>1. command'[r] = command[r] /\ command[r] \in CommandForms
  BY CommandKept DEF TypeInv, Numbered, Pendings
<1>2. ~Forget
  BY DEF Forget, Pendings
<1>3. r # asked + 1 /\ r # 0
  BY DEF TypeInv, TypeOK, Numbered, Requests
<1>4. CASE command[r].kind = "channel"
  <2>1. command[r].channel \in Channels
    BY <1>1, <1>4 DEF CommandForms
  <2>2. QED
    BY <1>1, <1>2, <1>3, <1>4, <2>1, ClaimsStep DEF Superseded
<1>5. CASE command[r].kind \in Compact
  BY <1>1, <1>2, <1>3, <1>5, ClaimsStep DEF Superseded, Compact
<1>6. QED
  BY <1>4, <1>5 DEF Superseded

LEMMA OvertakenStep == TypeInv /\ TypeInv' /\ Inv /\ Overtaken /\ [Next]_vars => Overtaken'
<1> SUFFICES ASSUME TypeInv, TypeInv', Inv, Overtaken, [Next]_vars,
                    NEW r \in Requests, NEW q \in Requests, r < q, Ahead(q, r)'
             PROVE  Superseded(r)'
  BY DEF Overtaken
<1> USE DEF requests
<1>1. /\ queue \in Seq(Actors) /\ RequestsTyped /\ Poll \notin Requests /\ r \in Actors
      /\ Poll \in Actors /\ q \in Actors /\ r # q
  BY DEF TypeInv, TypeOK, RequestsTyped, Poll, Requests, Actors
<1>2. place'[r] \in {"debounce", "waiting"}
  <2>1. Before(queue', q, r) => place'[r] = "waiting"
    BY BeforeContains DEF TypeInv, Queued
  <2>2. QED
    BY <2>1 DEF Ahead
<1>3. ~Forget
  BY <1>2 DEF Forget
<1>4. Before(queue, q, r) => place[r] = "waiting" /\ place[q] = "waiting"
  BY BeforeContains DEF TypeInv, Queued
<1>5. ASSUME Ahead(q, r) PROVE Superseded(r)'
  <2>1. place[r] \in {"debounce", "waiting"} /\ Superseded(r)
    BY <1>4, <1>5 DEF Ahead, Overtaken
  <2>2. QED
    BY <1>2, <2>1, SupersededKept DEF Pendings
<1>6. CASE UNCHANGED <<place, queue>>
  BY <1>5, <1>6 DEF Ahead
<1>7. CASE tx # None /\ Leave /\ UNCHANGED queue
  <2>1. place' = place \/ (tx.who \in Requests /\ place[tx.who] = "running"
                             /\ place' = [place EXCEPT ![tx.who] = "done"])
    BY <1>7 DEF Leave, TypeInv, TypeOK, Transactions, Actors, Owner
  <2>2. QED
    BY <1>1, <1>5, <1>6, <1>7, <2>1 DEF Ahead, RequestsTyped
<1>8. ASSUME NEW c, Submit(c) PROVE Superseded(r)'
  <2> DEFINE n == asked + 1
             meant == Meant(c)
  <2>1. /\ n \in Requests /\ place[n] = "free" /\ asked' = n /\ n \in Actors
        /\ place' = [place EXCEPT ![n] = IF meant.kind \in Gestures THEN "debounce" ELSE "waiting"]
        /\ queue' = IF meant.kind \in Gestures THEN queue ELSE Append(queue, n)
        /\ newest' = [k \in Channels |->
                        IF meant.kind = "channel" => k = meant.channel THEN n ELSE newest[k]]
        /\ gesture' = IF meant.kind \in Compact THEN n ELSE 0
    BY <1>8, ControlAssumption DEF Submit, Requests, TypeInv, TypeOK, Numbered, Actors
  <2> HIDE DEF n, meant
  <2>2. ~Contains(queue, n)
    BY <2>1 DEF TypeInv, Queued
  <2>3. Before(queue', q, r) => Before(queue, q, r) \/ (r = n /\ Contains(queue, q))
    BY <1>1, <2>1, AppendOrder
  <2>4. r # n /\ (q # n => place'[q] = place[q]) /\ place'[r] = place[r]
    <3>1. q <= n
      <4>1. place'[q] # "free"
        <5>1. Before(queue', q, r) => place'[q] = "waiting"
          BY BeforeContains DEF TypeInv, Queued
        <5>2. QED
          BY <5>1 DEF Ahead
      <4>2. ~(q > n)
        BY <2>1, <4>1 DEF TypeInv, Numbered
      <4>3. n \in Int /\ q \in Int
        BY <2>1 DEF Requests
      <4>4. QED
        BY <4>2, <4>3
    <3>2. r # n
      BY <2>1, <3>1 DEF Requests
    <3>3. QED
      BY <1>1, <2>1, <3>2 DEF RequestsTyped
  <2>5. CASE q # n
    BY <1>5, <2>3, <2>4, <2>5 DEF Ahead
  <2>6. CASE q = n
    <3>1. ~Before(queue', q, r)
      BY <2>2, <2>3, <2>4, <2>6, BeforeContains
    <3>2. place'[r] = "debounce" /\ place'[n] = "waiting"
      BY <1>1, <2>1, <2>6, <3>1 DEF Ahead, RequestsTyped
    <3>3. /\ meant.kind \notin Gestures
          /\ command'[r].kind \in Gestures /\ command'[r] \in CommandForms /\ r # 0
      BY <1>1, <2>1, <3>2 DEF RequestsTyped, TypeInv, Numbered, Pendings, Requests
    <3>4. CASE command'[r].kind = "channel"
      <4>1. command'[r].channel \in Channels
        BY <3>3, <3>4 DEF CommandForms
      <4>2. QED
        BY <2>1, <2>4, <3>3, <3>4, <4>1 DEF Superseded, Gestures
    <3>5. CASE command'[r].kind \in Compact
      BY <2>1, <3>3, <3>5 DEF Superseded, Compact, Gestures
    <3>6. QED
      BY <3>3, <3>4, <3>5 DEF Gestures, Compact
  <2>7. QED
    BY <2>5, <2>6
<1>9. ASSUME NEW d \in Requests, Debounced(d) PROVE Superseded(r)'
  <2>1. /\ place[d] = "debounce" /\ place' = [place EXCEPT ![d] = "waiting"]
        /\ queue' = Append(queue, d) /\ d \in Actors
        /\ \A e \in Requests : place[e] = "debounce" => d <= e
    BY <1>9 DEF Debounced, Actors
  <2>2. ~Contains(queue, d)
    BY <2>1 DEF TypeInv, Queued
  <2>3. Before(queue', q, r) => Before(queue, q, r) \/ (r = d /\ Contains(queue, q))
    BY <1>1, <2>1, AppendOrder
  <2>4. \A e \in Requests : place'[e] = IF e = d THEN "waiting" ELSE place[e]
    BY <1>1, <2>1 DEF RequestsTyped
  <2>5. CASE r = d
    <3>1. Contains(queue, q) => place[q] = "waiting"
      BY DEF TypeInv, Queued
    <3>2. QED
      BY <1>1, <1>4, <1>5, <2>1, <2>3, <2>4, <2>5, <3>1 DEF Ahead
  <2>6. CASE q = d
    <3>1. place[r] # "debounce"
      BY <2>1, <2>6 DEF Requests
    <3>2. ~Before(queue', q, r)
      BY <1>1, <2>2, <2>3, <2>6, BeforeContains
    <3>3. QED
      BY <1>1, <2>4, <2>6, <3>1, <3>2 DEF Ahead
  <2>7. CASE r # d /\ q # d
    BY <1>5, <2>3, <2>4, <2>7 DEF Ahead
  <2>8. QED
    BY <2>5, <2>6, <2>7
<1>10. ASSUME NEW e \in Requests, place' = [place EXCEPT ![e] = "refused"],
              \A x, y : Before(queue', x, y) => Before(queue, x, y)
       PROVE  Superseded(r)'
  BY <1>1, <1>5, <1>10 DEF Ahead, RequestsTyped
<1>11. queue # <<>> => \A x, y : Before(Tail(queue), x, y) => Before(queue, x, y)
  BY <1>1, TailOrder
<1>12. ASSUME NEW e \in Requests, Expire(e) PROVE Superseded(r)'
  <2>1. CASE place[e] = "waiting"
    <3> DEFINE i == CHOOSE i \in DOMAIN queue : queue[i] = e
    <3>1. i \in DOMAIN queue
      BY <1>1, <2>1, LenProperties DEF TypeInv, Queued, Contains
    <3>2. queue' = RemoveAt(queue, i)
      BY <1>12, <2>1 DEF Expire
    <3> HIDE DEF i
    <3>3. \A x, y : Before(queue', x, y) => Before(queue, x, y)
      BY <1>1, <3>1, <3>2, RemoveOrder
    <3>4. QED
      BY <1>10, <1>12, <3>3 DEF Expire
  <2>2. CASE place[e] # "waiting"
    BY <1>10, <1>12, <2>2 DEF Expire
  <2>3. QED
    BY <2>1, <2>2
<1>13. ASSUME NEW e \in Requests, TurnAway(e) PROVE Superseded(r)'
  BY <1>10, <1>11, <1>13 DEF TurnAway
<1>14. ASSUME NEW e \in Requests, Admit(e) PROVE Superseded(r)'
  <2>1. CASE place' = [place EXCEPT ![e] = "refused"]
    BY <1>10, <1>11, <1>14, <2>1 DEF Admit
  <2>2. CASE place' = [place EXCEPT ![e] = "running"]
    <3>1. place[e] = "waiting" /\ queue # <<>> /\ Head(queue) = e /\ queue' = Tail(queue)
      BY <1>14, HeadWaits DEF Admit
    <3>2. \A f \in Requests : place'[f] = IF f = e THEN "running" ELSE place[f]
      BY <1>1, <2>2 DEF RequestsTyped
    <3>3. CASE q = e
      <4>1. place[r] = "waiting" => Before(queue, e, r)
        <5>1. place[r] = "waiting" => Contains(queue, r)
          BY DEF TypeInv, Queued
        <5>2. QED
          BY <1>1, <3>1, <3>3, <5>1, TailOrder
      <4>2. QED
        BY <1>1, <1>5, <1>11, <3>1, <3>2, <3>3, <4>1 DEF Ahead
    <3>4. CASE q # e
      <4>1. r # e
        BY <1>2, <3>2
      <4>2. QED
        BY <1>5, <1>11, <3>1, <3>2, <3>4, <4>1 DEF Ahead
    <3>5. QED
      BY <3>3, <3>4
  <2>3. QED
    BY <1>14, <2>1, <2>2 DEF Admit
<1>15. CASE PollDue \/ UnloadFails
  <2>1. queue' = queue \/ queue' = Append(queue, Poll)
    BY <1>15 DEF PollDue, UnloadFails
  <2>2. Before(Append(queue, Poll), q, r) => Before(queue, q, r)
    <3>1. Before(Append(queue, Poll), q, r) =>
            Before(queue, q, r) \/ (Contains(queue, q) /\ r = Poll)
      BY <1>1, AppendOrder
    <3>2. QED
      BY <1>1, <3>1
  <2>3. QED
    BY <1>5, <1>15, <2>1, <2>2 DEF Ahead, PollDue, UnloadFails
<1>16. CASE AdmitPoll
  BY <1>5, <1>11, <1>16 DEF AdmitPoll, Ahead
<1>17. CASE Setup
  <2>1. queue' = <<Poll>> /\ Len(queue') = 1
    BY <1>17 DEF Setup
  <2>2. ~Before(queue', q, r)
    BY <2>1 DEF Before
  <2>3. QED
    BY <1>5, <1>17, <2>2 DEF Ahead, Setup
<1>18. QED
  <2>1. CASE OffConflicts \/ Fail \/ SaveTooLate
    BY <1>7, <2>1 DEF OffConflicts, Fail, SaveTooLate, Has
  <2>2. CASE \E outcome \in {"unverified", "unwritten"} : SaveFails(outcome) \/ SaveCancelled(outcome)
    BY <1>7, <2>2 DEF SaveFails, SaveCancelled
  <2>3. CASE PollReads \/ AlreadyOn \/ NoBasis \/ Verified \/ OffLooks \/ OffVerified \/ SaveVerified
    <3>1. tx # None /\ (Leave \/ Stay) /\ UNCHANGED queue
      BY <2>3 DEF PollReads, AlreadyOn, NoBasis, Verified, OffLooks, OffVerified, SaveVerified, Has,
                  Remember
    <3>2. QED
      BY <1>6, <1>7, <3>1 DEF Stay
  <2>4. QED
    BY <1>3, <1>6, <1>8, <1>9, <1>12, <1>13, <1>14, <1>15, <1>16, <1>17, <2>1, <2>2, <2>3
       DEF Next, AnyRequest, Transaction, Save, LampMoves, Handle, Lose, ReadSystem, Guard, Send,
           Confirm, Woken, ExpireSave, SetupFails, PrepareUnload, Unload, Crash, RemoveEntry, vars

Sound == TypeInv /\ Inv /\ OffInv

LEMMA SoundInit == Init => Sound
<1>1. Init => OffInv
  BY DEF Init, OffInv, Off
<1>2. QED
  BY <1>1, TypeInit, InitInv DEF Sound

LEMMA SoundStep == Sound /\ [Next]_vars => Sound'
BY TypeStep, NextKeepsInv, OffStep DEF Sound

LEMMA AlwaysSound == Spec => []Sound
BY SoundInit, SoundStep, PTL DEF Spec

-----------------------------------------------------------------------------
(* What is shown.                                                             *)

\* Left alone, the lamp changes what is shown of it only by frames that were sent.
LEMMA LampAlone ==
  ASSUME Alone, TypeInv, PictureInv, [Next]_vars, ~Sending, NEW state, Shows(state)
  PROVE  Shows(state)'
<1>1. \A r \in Requests : wire[r] = <<>>
  BY DEF PictureInv
<1>2. CASE lamp' = lamp
  BY <1>2 DEF Shows
<1>3. CASE LampMoves
  <2>1. lamp.mode = "automatic" /\ \E mix \in OwnMixes : lamp' = [lamp EXCEPT !.mix = mix]
    BY <1>3 DEF LampMoves, Alone
  <2>2. lamp'.mode = lamp.mode /\ lamp'.profile = lamp.profile
    BY <2>1 DEF TypeInv, TypeOK, States
  <2>3. QED
    BY <2>1, <2>2 DEF Shows
<1>4. QED
  BY <1>1, <1>2, <1>3
     DEF Next, AnyRequest, Transaction, Save, Submit, Debounced, Expire, Admit, TurnAway,
         Handle, Lose, PollDue, AdmitPoll, ReadSystem, PollReads, OffConflicts,
         OffLooks, AlreadyOn, NoBasis, Guard, Send, Confirm, Woken, Verified, OffVerified, Fail,
         SaveVerified, SaveTooLate, SaveFails, SaveCancelled, ExpireSave,
         Setup, SetupFails, PrepareUnload, Unload, UnloadFails, Crash, RemoveEntry, vars, outside

LEMMA ReadingShows ==
  ASSUME TypeInv, PictureInv, tx # None, tx.system # None
  PROVE  Reading \in States /\ Shows(Reading) /\ ~Sending
<1> DEFINE seen == Reading
<1>1. /\ seen \in States /\ seen.mode = tx.system.mode /\ seen.profile = tx.system.profile
      /\ seen.mix = lamp.mix
  BY ReadingType DEF TypeInv
<1> HIDE DEF seen
<1>2. Shows(seen)
  BY <1>1 DEF PictureInv, Shows
<1>3. ~Sending
  BY DEF PictureInv
<1>4. QED
  BY <1>1, <1>2, <1>3 DEF seen

\* A reading that goes to be saved.
LEMMA SavedFields ==
  ASSUME TypeInv, tx # None, NEW state \in States, NEW record \in Records,
         tx' = [tx EXCEPT !.step = "record", !.system = None, !.after = state,
                          !.record = record]
  PROVE  tx' # None /\ tx'.step = "record" /\ tx'.system = None /\ tx'.after = state
<1>1. tx \in Transactions
  BY DEF TypeInv, TypeOK
<1>2. tx' \in Transactions
  BY <1>1 DEF Transactions, Steps, Saves
<1>3. QED
  BY <1>1, <1>2, NoTransactionAssumption DEF Transactions

\* A step that neither moves the lamp nor sends.
LEMMA QuietStep ==
  ASSUME PictureInv, ~Sending, ~Sending', UNCHANGED outside,
         tx' # None /\ tx'.system # None => tx # None /\ tx'.system = tx.system,
         tx' # None /\ tx'.step = "record" => Shows(tx'.after),
         ok' /\ data' # None /\ ~Sent' => Shows(data')
  PROVE  PictureInv'
BY DEF PictureInv, Shows, outside

LEMMA PictureStep == Alone /\ Sound /\ PictureInv /\ [Next]_vars => PictureInv'
<1> SUFFICES ASSUME Alone, Sound, PictureInv, [Next]_vars PROVE PictureInv'
  OBVIOUS
<1> USE DEF Sound, view, outside
<1>1. tx # None => tx \in Transactions
  BY DEF TypeInv, TypeOK
<1>2. wire \in [Requests -> Seq(Frames)]
  BY DEF TypeInv, TypeOK
<1>3. ~Sending => \A r \in Requests : wire[r] = <<>>
  BY DEF PictureInv
<1>4. tx # None /\ tx.system # None => Reading \in States /\ Shows(Reading) /\ ~Sending
  BY ReadingShows
<1>5. ASSUME tx # None, tx.step \in Saves PROVE ~Sending /\ (tx.step = "intend" => ~Sent)
  BY <1>5 DEF Sending, Sent, Saves, OffInv, TypeInv, Owner, Off
<1>6. ASSUME tx' = tx, data' = data, ok' \in {ok, FALSE},
             \A r \in Requests : wire'[r] # <<>> => wire[r] # <<>>
      PROVE  PictureInv'
  <2>1. CASE Sending
    BY <1>6, <2>1 DEF PictureInv, Sending, Sent
  <2>2. CASE ~Sending
    <3>1. \A r \in Requests : wire'[r] = <<>>
      BY <1>3, <1>6, <2>2
    <3>2. ~Sending' /\ (Sent' <=> Sent)
      BY <1>6, <2>2 DEF Sending, Sent
    <3>3. tx # None /\ tx.system # None =>
            tx.system.mode = lamp'.mode /\ tx.system.profile = lamp'.profile
      <4>1. tx # None /\ tx.system # None => Shows(Reading)
        BY <1>4
      <4> DEFINE seen == Reading
      <4>2. tx # None /\ tx.system # None => Shows(seen)
        BY <4>1
      <4>3. tx # None /\ tx.system # None => seen.mode = tx.system.mode /\ seen.profile = tx.system.profile
        BY ReadingType DEF TypeInv
      <4>4. \A state : Shows(state) => state.mode = lamp'.mode /\ state.profile = lamp'.profile
        BY <2>2, LampAlone DEF Shows
      <4> HIDE DEF seen
      <4>5. QED
        BY <4>2, <4>3, <4>4
    <3>4. ASSUME NEW state, Shows(state) PROVE Shows(state)'
      BY <2>2, <3>4, LampAlone
    <3>5. tx # None /\ tx.step = "record" => Shows(tx.after)'
      BY <1>6, <3>4 DEF PictureInv, Shows
    <3>6. ok' /\ data' # None /\ ~Sent' => Shows(data)'
      BY <1>6, <3>2, <3>4 DEF PictureInv, Shows
    <3>7. QED
      BY <1>6, <3>1, <3>2, <3>3, <3>5, <3>6 DEF PictureInv
  <2>3. QED
    BY <2>1, <2>2
<1>7. ASSUME NEW r \in Requests, Handle(r) \/ Lose(r) PROVE PictureInv'
  <2>1. \A q \in Requests : wire'[q] # <<>> => wire[q] # <<>>
    BY <1>2, <1>7 DEF Handle, Lose
  <2>2. QED
    BY <1>6, <1>7, <2>1 DEF Handle, Lose
<1>8. CASE UNCHANGED <<wire, tx, data>> /\ ok' \in {ok, FALSE}
  BY <1>6, <1>8
<1>9. CASE SetupFails \/ Unload \/ Crash
  <2>1. tx' = None /\ data' = None
    BY <1>9 DEF SetupFails, Unload, Crash, Forget, Settled, Inv, UnloadWaits
  <2>2. \A r \in Requests : wire'[r] = <<>>
    <3>1. CASE ~Sending
      BY <1>2, <1>3, <1>9, <3>1 DEF SetupFails, Unload, Crash, Disconnect
    <3>2. CASE Sending
      <4>1. /\ tx.who # Poll /\ Crash
        BY <1>9, <3>2 DEF Sending, SetupFails, Unload, Settled, Inv, PollsOnly, UnloadWaits
      <4>2. wire' = [wire EXCEPT ![tx.who] = <<>>]
        BY <3>2, <4>1 DEF Crash, Disconnect, Sending, Alone
      <4>3. QED
        BY <1>2, <4>2 DEF PictureInv
    <3>3. QED
      BY <3>1, <3>2
  <2>3. QED
    BY <2>1, <2>2 DEF PictureInv, Sending
<1>10. CASE Fail
  <2>1. tx' = None /\ ok' = FALSE /\ tx # None
    BY <1>10 DEF Fail, Leave
  <2>2. \A r \in Requests : wire'[r] = <<>>
    <3>1. CASE ~Sending
      BY <1>2, <1>3, <1>10, <3>1 DEF Fail, Disconnect
    <3>2. CASE Sending
      <4>1. tx.who # Poll
        BY <2>1, <3>2 DEF Sending, TypeInv, Owner
      <4>2. wire' = [wire EXCEPT ![tx.who] = <<>>]
        BY <1>10, <2>1, <4>1 DEF Fail, Disconnect, Alone
      <4>3. QED
        BY <1>2, <4>2 DEF PictureInv
    <3>3. QED
      BY <3>1, <3>2
  <2>3. QED
    BY <2>1, <2>2 DEF PictureInv, Sending
<1>11. CASE PollReads \/ AlreadyOn \/ NoBasis \/ Verified
  <2> DEFINE state == Reading
             record == Observed(mem, state)
  <2>1. /\ tx # None /\ Remember(state) /\ UNCHANGED outside
        /\ state \in States /\ Shows(state) /\ ~Sending
    BY <1>4, <1>11 DEF PollReads, AlreadyOn, NoBasis, Verified, Has
  <2>2. record \in Records
    BY <2>1, ObservedType DEF TypeInv, TypeOK
  <2>3. \/ data' = state /\ tx' = None
        \/ tx' = [tx EXCEPT !.step = "record", !.system = None, !.after = state, !.record = record]
    BY <2>1 DEF Remember, Publish, Leave
  <2> HIDE DEF state, record
  <2>4. CASE data' = state /\ tx' = None
    BY <2>1, <2>4, QuietStep DEF Sending
  <2>5. CASE tx' = [tx EXCEPT !.step = "record", !.system = None, !.after = state, !.record = record]
    <3>1. tx' # None /\ tx'.step = "record" /\ tx'.system = None /\ tx'.after = state
      BY <2>1, <2>2, <2>5, SavedFields
    <3>2. QED
      BY <2>1, <3>1, QuietStep DEF Sending, Sent
  <2>6. QED
    BY <2>3, <2>4, <2>5
<1>12. CASE OffLooks
  <2>1. /\ tx # None /\ data' = Reading /\ UNCHANGED outside /\ Shows(Reading) /\ ~Sending
    BY <1>4, <1>12 DEF OffLooks, Has, Publish
  <2>2. CASE tx' = None
    BY <2>1, <2>2, QuietStep DEF Sending
  <2>3. CASE tx' # None
    <3> DEFINE state == Reading
               record == Intended(mem, Reading)
    <3>1. tx' = [tx EXCEPT !.step = "intend", !.system = None, !.before = state, !.record = record]
      BY <1>12, <2>3 DEF OffLooks, Leave
    <3> HIDE DEF state, record
    <3>2. tx'.step = "intend" /\ tx'.system = None
      BY <1>1, <2>1, <3>1 DEF Transactions
    <3>3. QED
      BY <2>1, <3>2, QuietStep DEF Sending
  <2>4. QED
    BY <2>2, <2>3
<1>13. CASE OffVerified
  <2> DEFINE state == Reading
             record == Confirmed(mem, state)
  <2>1. tx # None /\ UNCHANGED outside /\ state \in States /\ Shows(state) /\ ~Sending
    BY <1>4, <1>13 DEF OffVerified, Has
  <2>2. CanConfirm(mem, state) => record \in Records
    BY <2>1, ConfirmedType DEF TypeInv, TypeOK
  <2>3. \/ data' = state /\ tx' = None
        \/ /\ CanConfirm(mem, state)
           /\ tx' = [tx EXCEPT !.step = "record", !.system = None, !.after = state,
                               !.record = record]
    BY <1>13, <2>1 DEF OffVerified, Leave
  <2> HIDE DEF state, record
  <2>4. CASE data' = state /\ tx' = None
    BY <2>1, <2>4, QuietStep DEF Sending
  <2>5. CASE /\ record \in Records
             /\ tx' = [tx EXCEPT !.step = "record", !.system = None, !.after = state,
                                 !.record = record]
    <3>1. tx' # None /\ tx'.step = "record" /\ tx'.system = None /\ tx'.after = state
      BY <2>1, <2>5, SavedFields
    <3>2. QED
      BY <2>1, <3>1, QuietStep DEF Sending, Sent
  <2>6. QED
    BY <2>2, <2>3, <2>4, <2>5
<1>14. CASE OffConflicts
  <2>1. tx' = None /\ ok' = FALSE /\ ~Sending /\ UNCHANGED outside
    BY <1>4, <1>14 DEF OffConflicts, Has, Leave
  <2>2. QED
    BY <2>1, QuietStep DEF Sending
<1>15. CASE Save
  <2>1. /\ tx # None /\ tx.step \in Saves /\ ~Sending /\ UNCHANGED outside
    BY <1>5, <1>15 DEF Save, SaveVerified, SaveTooLate, SaveFails, SaveCancelled, Saves
  <2>2. tx.step = "record" => Shows(tx.after)
    BY <2>1 DEF PictureInv
  <2>3. ok /\ data # None /\ tx.step = "intend" => Shows(data)
    BY <1>5, <2>1 DEF PictureInv
  <2>4. CASE tx' = None
    <3>1. ok' => (data' = tx.after /\ tx.step = "record") \/ (data' = data /\ ok /\ tx.step = "intend")
      BY <1>15, <2>1 DEF Save, SaveVerified, SaveTooLate, SaveFails, SaveCancelled, Publish, Told, Saves
    <3>2. QED
      BY <2>1, <2>2, <2>3, <2>4, <3>1, QuietStep DEF Sending
  <2>5. CASE tx' # None
    <3>1. /\ tx' = [tx EXCEPT !.step = "guard", !.record = None] /\ tx.step = "intend"
          /\ UNCHANGED view
      BY <1>15, <2>1, <2>5 DEF Save, SaveVerified, SaveTooLate, SaveFails, SaveCancelled, Leave, Saves
    <3>2. tx'.step = "guard" /\ tx'.system = tx.system
      BY <1>1, <2>1, <3>1 DEF Transactions
    <3>3. QED
      BY <2>1, <2>3, <3>1, <3>2, QuietStep DEF Sending
  <2>6. QED
    BY <2>4, <2>5
<1>16. CASE ReadSystem
  <2>1. /\ tx # None /\ tx.step \in Reads /\ UNCHANGED <<outside, view>>
        /\ tx' = [tx EXCEPT !.system = [mode |-> lamp.mode, profile |-> lamp.profile]]
    BY <1>16 DEF ReadSystem
  <2>2. /\ tx'.system = [mode |-> lamp.mode, profile |-> lamp.profile]
        /\ tx'.step = tx.step /\ tx'.phase = tx.phase
    BY <1>1, <2>1 DEF Transactions
  <2>3. ~Sending /\ ~Sending' /\ (Sent' => Sent) /\ tx.step # "record" /\ (tx' # None => (Sent' <=> Sent))
    BY <2>1, <2>2 DEF Sending, Sent, Reads
  <2>4. tx' # None
    <3>1. tx' = tx \/ Goes
      BY <1>16, HolderStep DEF GoesOnly
    <3>2. QED
      BY <2>1, <3>1, NoTransactionAssumption DEF Goes
  <2>5. QED
    BY <1>3, <2>1, <2>2, <2>3, <2>4 DEF PictureInv, Shows
<1>17. CASE ExpireSave \/ PrepareUnload
  <2>1. UNCHANGED <<outside, view>> /\ (tx' = tx \/ (tx # None /\ tx' = [tx EXCEPT !.cancelled = TRUE]))
    BY <1>17 DEF ExpireSave, PrepareUnload, Awaited
  <2>2. CASE tx' = tx
    BY <1>6, <2>1, <2>2
  <2>3. CASE tx # None /\ tx' # tx
    <3>1. /\ tx'.step = tx.step /\ tx'.system = tx.system /\ tx'.phase = tx.phase
          /\ tx'.after = tx.after /\ tx'.who = tx.who
      BY <1>1, <2>1, <2>3 DEF Transactions
    <3>2. tx' # None
      <4>1. tx' = tx \/ Goes
        BY <1>17, HolderStep DEF GoesOnly
      <4>2. QED
        BY <2>3, <4>1, NoTransactionAssumption DEF Goes
    <3>3. (Sending' <=> Sending) /\ (Sent' <=> Sent)
      BY <2>3, <3>1, <3>2 DEF Sending, Sent
    <3>4. QED
      BY <2>1, <2>3, <3>1, <3>2, <3>3 DEF PictureInv, Shows
  <2>4. QED
    BY <2>1, <2>2, <2>3
<1>18. ASSUME GoesOnly, tx'.step \in {"send", "confirm", "verify"} \/ tx'.phase = "woken",
              tx # None, tx'.system = None, UNCHANGED view,
              tx'.step # "record", lamp' = lamp,
              \A r \in Requests : wire'[r] # <<>> => tx'.step \in {"send", "confirm"} /\ tx'.who = r
       PROVE  PictureInv'
  <2>1. tx' # None
    BY <1>18, HolderStep, NoTransactionAssumption DEF Goes
  <2>2. QED
    BY <1>18, <2>1 DEF PictureInv, Sending, Sent
<1>19. CASE Guard
  <2> DEFINE state == Reading
  <2>1. PICK goal \in Goals(state) :
          tx' = [tx EXCEPT !.step = "send", !.system = None, !.before = state,
                           !.goal = goal, !.frames = Plan(state, goal),
                           !.phase = IF Wakes(state) THEN "wake" ELSE @]
    BY <1>19 DEF Guard
  <2> DEFINE frames == Plan(state, goal)
             woken == Wakes(state)
  <2>2. /\ tx' = [tx EXCEPT !.step = "send", !.system = None, !.before = state, !.goal = goal,
                            !.frames = frames, !.phase = IF woken THEN "wake" ELSE @]
        /\ tx # None /\ UNCHANGED <<view, outside>>
    BY <1>19, <2>1 DEF Guard, Has
  <2> HIDE DEF state, frames, woken
  <2>3. tx'.step = "send" /\ tx'.system = None
    BY <1>1, <2>2 DEF Transactions
  <2>4. \A r \in Requests : wire[r] = <<>>
    BY <1>3, <1>4, <1>19 DEF Guard, Has
  <2>5. QED
    BY <1>18, <1>19, <2>2, <2>3, <2>4 DEF GoesOnly
<1>20. CASE Send
  <2>1. /\ tx # None /\ tx.step = "send" /\ UNCHANGED <<view, lamp>>
        /\ tx' = [tx EXCEPT !.frames = Tail(@), !.step = IF Len(tx.frames) = 1 THEN "confirm" ELSE @]
        /\ wire' = [wire EXCEPT ![tx.who] = Append(@, Head(tx.frames))]
    BY <1>20 DEF Send
  <2>2. tx'.step \in {"send", "confirm"} /\ tx'.system = tx.system /\ tx'.who = tx.who
    BY <1>1, <2>1 DEF Transactions
  <2>3. tx.system = None
    BY <2>1 DEF PictureInv, Sending
  <2>4. \A r \in Requests : wire'[r] # <<>> => r = tx.who
    BY <1>2, <2>1 DEF PictureInv
  <2>5. QED
    BY <1>18, <1>20, <2>1, <2>2, <2>3, <2>4 DEF GoesOnly
<1>21. CASE Confirm
  <2>1. /\ tx # None /\ tx.step = "confirm" /\ UNCHANGED <<view, outside>>
        /\ tx' = [tx EXCEPT !.step = "verify"] /\ wire[tx.who] = <<>>
    BY <1>21 DEF Confirm
  <2>2. tx'.step = "verify" /\ tx'.system = tx.system
    BY <1>1, <2>1 DEF Transactions
  <2>3. tx.system = None /\ \A r \in Requests : wire[r] = <<>>
    BY <2>1 DEF PictureInv, Sending
  <2>4. QED
    BY <1>18, <1>21, <2>1, <2>2, <2>3 DEF GoesOnly
<1>22. CASE Woken
  <2> DEFINE state == Reading
  <2>1. /\ tx # None /\ UNCHANGED <<view, outside>>
        /\ tx' = [tx EXCEPT !.step = "guard", !.system = None, !.before = state, !.phase = "woken"]
    BY <1>22 DEF Woken, Has
  <2> HIDE DEF state
  <2>2. tx'.step = "guard" /\ tx'.system = None /\ tx'.phase = "woken"
    BY <1>1, <2>1 DEF Transactions
  <2>3. \A r \in Requests : wire[r] = <<>>
    BY <1>3, <1>4, <1>22 DEF Woken, Has
  <2>4. QED
    BY <1>18, <1>22, <2>1, <2>2, <2>3 DEF GoesOnly
<1>23. ASSUME NEW r \in Requests, Admit(r) PROVE PictureInv'
  <2>1. CASE tx' = tx
    BY <1>6, <1>23, <2>1 DEF Admit
  <2>2. CASE tx' # tx
    <3> DEFINE goal == CASE command[r].kind = "colour" -> command[r].mix
                         [] command[r].kind \in {"on", "dim"} -> ManualRestore(mem, memError, data)
                         [] OTHER -> None
    <3>1. /\ tx = None /\ UNCHANGED <<view, outside>>
          /\ Begin(r, "look", None, None) \/ Begin(r, "guard", data, goal)
      BY <1>23, <2>2 DEF Admit
    <3> HIDE DEF goal
    <3>2. tx'.system = None /\ tx'.step \in {"look", "guard"}
      BY <3>1 DEF Begin
    <3>3. ~Sending /\ ~Sending' /\ ~Sent
      BY <3>1, <3>2 DEF Sending, Sent
    <3>4. QED
      BY <3>1, <3>2, <3>3, QuietStep DEF PictureInv
  <2>3. QED
    BY <2>1, <2>2
<1>24. CASE AdmitPoll
  <2>1. CASE tx' = tx
    BY <1>6, <1>24, <2>1 DEF AdmitPoll
  <2>2. CASE tx' # tx
    <3>1. /\ tx = None /\ UNCHANGED <<view, outside>> /\ Begin(Poll, "look", None, None)
      BY <1>24, <2>2 DEF AdmitPoll
    <3>2. tx'.system = None /\ tx'.step = "look"
      BY <3>1 DEF Begin
    <3>3. ~Sending /\ ~Sending' /\ ~Sent
      BY <3>1, <3>2 DEF Sending, Sent
    <3>4. QED
      BY <3>1, <3>2, <3>3, QuietStep DEF PictureInv
  <2>3. QED
    BY <2>1, <2>2
<1>25. QED
  BY <1>7, <1>8, <1>9, <1>10, <1>11, <1>12, <1>13, <1>14, <1>15, <1>16, <1>17, <1>19, <1>20,
     <1>21, <1>22, <1>23, <1>24
     DEF Next, AnyRequest, Transaction, Submit, Debounced, Expire, TurnAway, LampMoves, PollDue,
         Setup, UnloadFails, RemoveEntry, vars

-----------------------------------------------------------------------------
(* Vectors on their way.                                                      *)

\* What a step leaves of a guard and of what is being sent.
LEMMA GuardKept ==
  ASSUME TypeInv, [Next]_vars, Goes
  PROVE  /\ tx'.step = "guard" =>
              \/ tx.step = "guard" /\ tx'.before = tx.before /\ tx'.phase = tx.phase
              \/ tx.step = "intend" /\ tx'.phase = tx.phase
              \/ tx'.phase = "woken" /\ tx'.before.mode = "manual"
         /\ tx'.step \in {"send", "confirm"} =>
              Guard \/ Send \/ (tx'.step = tx.step /\ tx'.frames = tx.frames)
<1>1. tx # None /\ tx \in Transactions /\ tx' # None
  BY NoTransactionAssumption DEF TypeInv, TypeOK, Goes
<1>2. ~Leave
  BY <1>1 DEF Leave
<1>3. CASE tx' = tx
  BY <1>3
<1>4. CASE ReadSystem
  BY <1>1, <1>4 DEF ReadSystem, Transactions
<1>5. CASE PrepareUnload \/ ExpireSave
  <2>1. tx' = tx \/ tx' = [tx EXCEPT !.cancelled = TRUE]
    BY <1>5 DEF PrepareUnload, ExpireSave
  <2>2. QED
    BY <1>1, <2>1 DEF Transactions
<1>6. CASE PollReads \/ AlreadyOn \/ NoBasis \/ Verified
  <2> DEFINE state == Reading
             record == Observed(mem, Reading)
  <2>1. tx' = [tx EXCEPT !.step = "record", !.system = None, !.after = state, !.record = record]
    BY <1>2, <1>6 DEF PollReads, AlreadyOn, NoBasis, Verified, Remember
  <2> HIDE DEF state, record
  <2>2. QED
    BY <1>1, <2>1 DEF Transactions
<1>7. CASE OffVerified
  <2> DEFINE state == Reading
             record == Confirmed(mem, Reading)
  <2>1. tx' = [tx EXCEPT !.step = "record", !.system = None, !.after = state, !.record = record]
    BY <1>2, <1>7 DEF OffVerified
  <2> HIDE DEF state, record
  <2>2. QED
    BY <1>1, <2>1 DEF Transactions
<1>8. CASE OffLooks
  <2> DEFINE state == Reading
             record == Intended(mem, Reading)
  <2>1. tx' = [tx EXCEPT !.step = "intend", !.system = None, !.before = state, !.record = record]
    BY <1>2, <1>8 DEF OffLooks
  <2> HIDE DEF state, record
  <2>2. QED
    BY <1>1, <2>1 DEF Transactions
<1>9. CASE Guard
  <2> DEFINE state == Reading
  <2>1. PICK goal \in Goals(state) :
          tx' = [tx EXCEPT !.step = "send", !.system = None, !.before = state,
                           !.goal = goal, !.frames = Plan(state, goal),
                           !.phase = IF Wakes(state) THEN "wake" ELSE @]
    BY <1>9 DEF Guard
  <2> DEFINE frames == Plan(state, goal)
             woken == Wakes(state)
  <2>2. tx' = [tx EXCEPT !.step = "send", !.system = None, !.before = state, !.goal = goal,
                         !.frames = frames, !.phase = IF woken THEN "wake" ELSE @]
    BY <2>1
  <2> HIDE DEF state, frames, woken
  <2>3. tx'.step = "send"
    BY <1>1, <2>2 DEF Transactions
  <2>4. QED
    BY <1>9, <2>3
<1>10. CASE Send
  <2>1. tx' = [tx EXCEPT !.frames = Tail(@), !.step = IF Len(tx.frames) = 1 THEN "confirm" ELSE @]
        /\ tx.step = "send"
    BY <1>10 DEF Send
  <2>2. QED
    BY <1>1, <1>10, <2>1 DEF Transactions
<1>11. CASE Confirm
  BY <1>1, <1>11 DEF Confirm, Transactions
<1>12. CASE Woken
  <2> DEFINE state == Reading
  <2>1. /\ tx' = [tx EXCEPT !.step = "guard", !.system = None, !.before = state, !.phase = "woken"]
        /\ state.mode = "manual"
    BY <1>12 DEF Woken
  <2> HIDE DEF state
  <2>2. QED
    BY <1>1, <2>1 DEF Transactions
<1>13. CASE SaveVerified
  <2>1. tx' = [tx EXCEPT !.step = "guard", !.record = None] /\ tx.step = "intend"
    BY <1>2, <1>13 DEF SaveVerified, Saves
  <2>2. QED
    BY <1>1, <2>1 DEF Transactions
<1>14. QED
  BY <1>1, <1>2, <1>3, <1>4, <1>5, <1>6, <1>7, <1>8, <1>9, <1>10, <1>11, <1>12, <1>13
       DEF Next, AnyRequest, Transaction, Save, Submit, Debounced, Expire, Admit, TurnAway,
           LampMoves, Handle, Lose, PollDue, AdmitPoll, OffConflicts, Fail, SaveTooLate,
           SaveFails, SaveCancelled, Setup, SetupFails, Unload, UnloadFails, Crash, RemoveEntry,
           vars

\* What a guard that lets its command through sends.
LEMMA GuardSends ==
  ASSUME TypeInv, GoalInv, Guard
  PROVE  /\ tx'.goal # None => command[tx.who].kind \in Aims
         /\ \/ tx'.frames = <<ToMode(Wanted)>>
            \/ /\ \E mix : tx'.frames = <<Vector(mix), ToMode("manual")>>
               /\ Reading.mode # "shutdown"
<1> DEFINE state == Reading
<1>1. PICK goal \in Goals(state) :
        tx' = [tx EXCEPT !.step = "send", !.system = None, !.before = state,
                         !.goal = goal, !.frames = Plan(state, goal),
                         !.phase = IF Wakes(state) THEN "wake" ELSE @]
  BY DEF Guard
<1>2. tx \in Transactions /\ tx # None /\ tx.step = "guard" /\ tx.system # None
  BY DEF TypeInv, TypeOK, Guard, Has
<1>3. goal # None => command[tx.who].kind \in Aims
  BY <1>1, <1>2 DEF Goals, GoalInv, Aims
<1>4. \/ Plan(state, goal) = <<ToMode(Wanted)>>
      \/ Plan(state, goal) = <<Vector(goal), ToMode("manual")>> /\ state.mode # "shutdown"
  <2>1. Pending({"channel"}) => state.mode # "shutdown"
    BY DEF Guard, Guarded, Pending, Power, Compact, Controlled
  <2>2. ASSUME ~Pending({"channel"}), goal # None, ~Wakes(state), state.mode = "shutdown"
        PROVE  FALSE
    <3>1. command[tx.who].kind \in {"colour", "dim", "on"}
      BY <1>3, <2>2 DEF Pending, Aims
    <3>2. command[tx.who].kind = "on" => goal = tx.goal
      BY DEF Goals
    <3>3. tx.phase = "plain" => Wakes(state)
      BY <2>2, <3>1, <3>2 DEF Wakes, Pending, Compact
    <3>4. tx.phase = "woken" /\ tx.before.mode = "manual"
      BY <1>2, <2>2, <3>3 DEF GoalInv
    <3>5. state.mode = tx.before.mode
      BY DEF Guard, Guarded, Drifted
    <3>6. QED
      BY <2>2, <3>4, <3>5
  <2>3. QED
    BY <2>1, <2>2 DEF Plan
<1> DEFINE frames == Plan(state, goal)
           woken == Wakes(state)
<1>5. tx' = [tx EXCEPT !.step = "send", !.system = None, !.before = state, !.goal = goal,
                       !.frames = frames, !.phase = IF woken THEN "wake" ELSE @]
  BY <1>1
<1> HIDE DEF frames, woken
<1>6. tx'.goal = goal /\ tx'.frames = frames
  <2> HIDE DEF state
  <2>1. QED
    BY <1>2, <1>5 DEF Transactions
<1>7. QED
  BY <1>3, <1>4, <1>6 DEF frames

LEMMA GoalStep == Sound /\ GoalInv /\ [Next]_vars => GoalInv'
<1> SUFFICES ASSUME Sound, GoalInv, [Next]_vars PROVE GoalInv'
  OBVIOUS
<1>1. tx' = tx \/ Goes \/ Ends \/ Dies \/ Begun
  BY HolderStep DEF Sound
<1>2. CASE tx' = None
  BY <1>2 DEF GoalInv
<1>3. CASE Begun
  BY <1>3, BegunReads DEF GoalInv, Sound
<1>4. CASE tx # None /\ (tx' = tx \/ Goes)
  <2>1. tx' # None /\ tx'.who = tx.who
    BY <1>4, NoTransactionAssumption DEF Goes
  <2>2. tx'.step = "guard" =>
          tx'.phase = "plain" \/ (tx'.phase = "woken" /\ tx'.before.mode = "manual")
    <3>1. tx.step = "intend" => tx.phase = "plain"
      BY <1>4 DEF Sound, TypeInv, Owner, OffInv, Off
    <3>2. tx.step = "guard" =>
            tx.phase = "plain" \/ (tx.phase = "woken" /\ tx.before.mode = "manual")
      BY <1>4 DEF GoalInv
    <3>3. CASE tx' = tx
      BY <3>2, <3>3
    <3>4. CASE Goes
      BY <3>1, <3>2, <3>4, GuardKept DEF Sound
    <3>5. QED
      BY <1>4, <3>3, <3>4
  <2>3. tx'.goal # None => tx.who # Poll /\ command[tx.who].kind \in Aims
    <3>1. CASE Guard
      BY <3>1, GuardSends DEF Sound, Guard, Has, TypeInv, Owner
    <3>2. CASE ~Guard
      BY <1>4, <3>2, GoesFields DEF Sound, GoalInv
    <3>3. QED
      BY <3>1, <3>2
  <2>4. tx'.goal # None => command'[tx.who] = command[tx.who]
    BY <1>4, <2>3, RunningKept DEF Sound
  <2>5. QED
    BY <2>1, <2>2, <2>3, <2>4 DEF GoalInv
<1>5. QED
  <2>1. tx' = None \/ Begun \/ (tx # None /\ (tx' = tx \/ Goes))
    BY <1>1 DEF Ends, Dies, Leave, Goes
  <2>2. QED
    BY <1>2, <1>3, <1>4, <2>1

\* Only a guard plans frames, and only Send moves them to the connection.
LEMMA SendingKept ==
  ASSUME TypeInv, [Next]_vars, Sending'
  PROVE  Guard \/ Send \/ (Sending /\ tx'.frames = tx.frames /\ tx'.who = tx.who)
<1>1. tx' = tx \/ Goes \/ Ends \/ Dies \/ Begun
  BY HolderStep
<1>2. tx' # None /\ tx'.step \in {"send", "confirm"}
  BY DEF Sending
<1>3. CASE tx' = tx
  BY <1>2, <1>3 DEF Sending
<1>4. CASE Goes
  <2>1. tx # None /\ tx'.who = tx.who
    BY <1>4 DEF Goes
  <2>2. QED
    BY <1>2, <1>4, <2>1, GuardKept DEF Sending
<1>5. ~Begun
  BY <1>2, BegunReads DEF Reads
<1>6. QED
  BY <1>1, <1>2, <1>3, <1>4, <1>5 DEF Ends, Leave, Dies

LEMMA WayKept ==
  ASSUME WayInv, lamp'.mode = lamp.mode, \A frame \in Frames : OnItsWay(frame)' => OnItsWay(frame)
  PROVE  WayInv'
BY DEF WayInv

LEMMA WayStep ==
  Alone /\ Sound /\ PictureInv /\ GoalInv /\ WayInv /\ [Next]_vars => WayInv'
<1> SUFFICES ASSUME Alone, Sound, PictureInv, GoalInv, WayInv, [Next]_vars, Sending'
             PROVE  WayInv'
  BY DEF WayInv, OnItsWay
<1> USE DEF Sound, outside
<1>1. wire \in [Requests -> Seq(Frames)] /\ tx \in Transactions \union {None} /\ lamp \in States
  BY DEF TypeInv, TypeOK
<1>2. tx # None /\ tx.who # Poll => tx.who \in Requests /\ tx.frames \in Seq(Frames)
  BY <1>1 DEF Transactions, Actors
<1>3. CASE Guard
  <2>1. tx # None /\ tx.system # None /\ tx.who # Poll /\ UNCHANGED outside
    BY <1>3 DEF Guard, Has, TypeInv, Owner
  <2>2. tx'.who = tx.who
    <3>1. tx' = tx \/ Goes
      BY <1>3, HolderStep DEF GoesOnly
    <3>2. QED
      BY <3>1 DEF Goes
  <2>3. wire'[tx'.who] = <<>>
    BY <1>2, <2>1, <2>2 DEF PictureInv
  <2>4. \A frame : OnItsWay(frame)' => Contains(tx'.frames, frame)
    BY <2>3 DEF OnItsWay, Contains
  <2>5. CASE tx'.frames = <<ToMode(Wanted)>>
    <3>1. \A frame : Contains(tx'.frames, frame) => frame.op = "mode"
      BY <2>5 DEF Contains, ToMode
    <3>2. QED
      BY <2>4, <3>1 DEF WayInv
  <2>6. CASE \E mix : tx'.frames = <<Vector(mix), ToMode("manual")>>
    <3>1. lamp'.mode # "shutdown"
      <4>1. tx'.frames # <<ToMode(Wanted)>>
        BY <2>6
      <4>2. Reading.mode # "shutdown"
        BY <1>3, <4>1, GuardSends
      <4>3. Reading.mode = lamp.mode
        BY <2>1, ReadingShows DEF Shows
      <4>4. QED
        BY <2>1, <4>2, <4>3
    <3>2. PICK mix : tx'.frames = <<Vector(mix), ToMode("manual")>>
      BY <2>6
    <3>3. \A frame : Contains(tx'.frames, frame) => frame = Vector(mix) \/ frame = ToMode("manual")
      BY <3>2 DEF Contains
    <3>4. \A frame : Contains(tx'.frames, frame) /\ frame.op = "mode" => frame.mode = "manual"
      BY <3>3 DEF Vector, ToMode
    <3>5. QED
      BY <2>4, <3>1, <3>4 DEF WayInv
  <2>7. QED
    BY <1>3, <2>5, <2>6, GuardSends
<1>4. CASE Send
  <2>1. /\ tx # None /\ tx.step = "send" /\ lamp' = lamp
        /\ wire' = [wire EXCEPT ![tx.who] = Append(@, Head(tx.frames))]
        /\ tx' = [tx EXCEPT !.frames = Tail(@), !.step = IF Len(tx.frames) = 1 THEN "confirm" ELSE @]
    BY <1>4 DEF Send
  <2>2. tx.who \in Requests /\ tx.frames \in Seq(Frames) /\ tx.frames # <<>>
    BY <1>2, <2>1 DEF TypeInv, Owner
  <2>3. tx'.who = tx.who /\ tx'.frames = Tail(tx.frames)
    BY <1>1, <2>1 DEF Transactions
  <2>4. wire'[tx.who] = Append(wire[tx.who], Head(tx.frames)) /\ wire[tx.who] \in Seq(Frames)
    BY <1>1, <2>1, <2>2
  <2>5. /\ Head(tx.frames) \in Frames
        /\ \A frame : Contains(tx.frames, frame) <=>
                        frame = Head(tx.frames) \/ Contains(Tail(tx.frames), frame)
    BY <2>2, TailOrder
  <2>6. \A frame : Contains(wire'[tx.who], frame) <=>
                    Contains(wire[tx.who], frame) \/ frame = Head(tx.frames)
    BY <2>4, <2>5, AppendOrder
  <2>7. \A frame : OnItsWay(frame)' => OnItsWay(frame)
    BY <2>1, <2>3, <2>5, <2>6 DEF OnItsWay, Sending
  <2>8. QED
    BY <2>1, <2>7, WayKept
<1>5. CASE ~Guard /\ ~Send
  <2>1. Sending /\ tx'.frames = tx.frames /\ tx'.who = tx.who
    BY <1>5, SendingKept
  <2>2. CASE wire' = wire /\ lamp'.mode = lamp.mode
    <3>1. \A frame : OnItsWay(frame)' => OnItsWay(frame)
      BY <2>1, <2>2 DEF OnItsWay
    <3>2. QED
      BY <2>2, <3>1, WayKept
  <2>3. ASSUME NEW r \in Requests, Handle(r) \/ Lose(r) PROVE WayInv'
    <3>1. wire[r] \in Seq(Frames) /\ wire[r] # <<>> /\ wire'[r] = Tail(wire[r]) /\ tx.who = r
      BY <1>1, <2>3 DEF Handle, Lose, PictureInv
    <3> DEFINE head == Head(wire[r])
    <3>2. /\ head \in Frames
          /\ \A frame : Contains(wire[r], frame) <=>
                          frame = head \/ Contains(wire'[r], frame)
      BY <3>1, TailOrder
    <3>3. OnItsWay(head) /\ \A frame : OnItsWay(frame)' => OnItsWay(frame)
      BY <2>1, <3>1, <3>2 DEF OnItsWay
    <3>4. CASE Lose(r)
      BY <3>3, <3>4, WayKept DEF Lose
    <3>5. CASE Handle(r) /\ head.op = "vector"
      <4>1. lamp'.mode = lamp.mode
        BY <1>1, <3>5 DEF Handle, Obey, States
      <4>2. QED
        BY <3>3, <4>1, WayKept
    <3>6. CASE Handle(r) /\ head.op = "mode"
      <4>1. lamp'.mode = head.mode
        BY <1>1, <3>6 DEF Handle, Obey, States
      <4>2. QED
        BY <3>2, <3>3, <3>6, <4>1 DEF WayInv
    <3>7. head.op \in {"vector", "mode"}
      BY <3>2 DEF Frames
    <3>8. QED
      BY <2>3, <3>4, <3>5, <3>6, <3>7
  <2>4. CASE LampMoves
    <3>1. lamp.mode = "automatic" /\ \E mix \in OwnMixes : lamp' = [lamp EXCEPT !.mix = mix]
      BY <2>4 DEF LampMoves, Alone
    <3>2. QED
      BY <1>1, <2>2, <2>4, <3>1 DEF LampMoves, States
  <2>5. ~(SetupFails \/ Crash \/ Fail)
    BY DEF SetupFails, Crash, Fail, Leave, Sending
  <2>6. QED
    BY <1>5, <2>2, <2>3, <2>4, <2>5
       DEF Next, AnyRequest, Transaction, Save, Submit, Debounced, Expire, Admit, TurnAway,
           PollDue, AdmitPoll, ReadSystem, PollReads, OffConflicts,
           OffLooks, AlreadyOn, NoBasis, Confirm, Woken, Verified, OffVerified,
           SaveVerified, SaveTooLate, SaveFails, SaveCancelled, ExpireSave,
           Setup, PrepareUnload, Unload, UnloadFails, RemoveEntry, vars
<1>6. QED
  BY <1>3, <1>4, <1>5

LEMMA PictureInit == Init => PictureInv /\ GoalInv /\ WayInv
BY DEF Init, PictureInv, GoalInv, WayInv, OnItsWay, Sending

-----------------------------------------------------------------------------
(* The theorems.                                                              *)

\* Every variable keeps its type: in particular a reading is complete before it is
\* published, a record is whole before it is saved, and the places of the requests,
\* the queue and the holder of the lock agree.
THEOREM TypesAlwaysHold == Spec => []TypeOK
<1>1. Sound => TypeOK
  BY DEF Sound, TypeInv
<1>2. QED
  BY <1>1, AlwaysSound, PTL

\* For every lamp, store and schedule, an Off sends nothing before its intent is on
\* disk, and that intent is the one for the state the Off started from
\* (async_turn_off saves before client.turn_off sends).
THEOREM IntentIsAlwaysBeforeOff == Spec => []IntentBeforeOff
<1>1. Sound => IntentBeforeOff
  BY DEF Sound, OffInv, IntentBeforeOff, Running, Pending, Off, Intends, Committed
<1>2. QED
  BY <1>1, AlwaysSound, PTL

\* Whoever turned the lamp on again, what Home Assistant shows as On never goes with a
\* memory that On would restore from (_observed_record).
THEOREM SightAlwaysEndsOff == Spec => []SightOfOnEndsOff
<1>1. Init => SightInv
  BY SightInit
<1>2. Sound /\ SightInv /\ [Next]_vars => SightInv'
  BY SightStep DEF Sound
<1>3. Spec => []SightInv
  BY <1>1, <1>2, AlwaysSound, PTL DEF Spec
<1>4. SightInv => SightOfOnEndsOff
  BY DEF SightInv, SightOfOnEndsOff
<1>5. QED
  BY <1>3, <1>4, PTL

\* On restores a mix only after an Off from Manual that the lamp confirmed, and then
\* the mix of the latest one, across failed and cancelled saves, crashes, reloads and
\* other controllers.  The history counts from a store without a confirmed Off.
THEOREM LatestOffIsRestored ==
  ASSUME \A record \in InitialRecords :
           record = Unreadable \/ record.origin = None \/ ~record.origin.confirmed
  PROVE  Spec => []RestoresLatestOff
<1>1. Init => SightInv /\ CycleInv
  BY SightInit, CycleInit
<1>2. Sound /\ SightInv /\ CycleInv /\ [Next]_vars => (SightInv /\ CycleInv)'
  BY SightStep, CycleStep DEF Sound
<1>3. Spec => [](SightInv /\ CycleInv)
  BY <1>1, <1>2, AlwaysSound, PTL DEF Spec
<1>4. CycleInv => RestoresLatestOff
  BY DEF CycleInv, RunsOn, RestoresLatestOff, Restoring, Running, Pending
<1>5. QED
  BY <1>3, <1>4, PTL

\* However many requests overlap, and in whatever order their pauses end and the lock
\* is handed on, one that a later request has passed is never admitted (the gesture
\* generations and the fair lock).
THEOREM OvertakenAreNeverAdmitted == Spec => []OvertakenNeverAdmitted
<1>1. Init => Overtaken
  BY OvertakenInit
<1>2. Sound /\ Sound' /\ Overtaken /\ [Next]_vars => Overtaken'
  BY OvertakenStep DEF Sound
<1>3. Spec => []Overtaken
  BY <1>1, <1>2, AlwaysSound, PTL DEF Spec
<1>4. Overtaken => OvertakenNeverAdmitted
  BY DEF Overtaken, OvertakenNeverAdmitted, Ahead
<1>5. QED
  BY <1>3, <1>4, PTL

\* While nobody else moves the lamp and closed connections deliver nothing, whatever
\* fails or is cut short, what Home Assistant shows as current between two operations is
\* what the lamp does (last_update_success, and the reading after every write).
THEOREM PictureIsAlwaysTrue == ASSUME Alone PROVE Spec => []PictureIsTrue
<1>1. Sound /\ PictureInv /\ [Next]_vars => PictureInv'
  BY PictureStep
<1>2. Spec => []PictureInv
  BY <1>1, PictureInit, AlwaysSound, PTL DEF Spec
<1>3. PictureInv => PictureIsTrue
  BY DEF PictureInv, PictureIsTrue, Current, Sent, Shows
<1>4. QED
  BY <1>2, <1>3, PTL

\* Under the same hypothesis, no channel vector ever meets a lamp that is Off: a frame
\* that wakes the lamp was handled, and read back, before the vector was planned.
THEOREM VectorsNeverMeetOff == ASSUME Alone PROVE Spec => NoVectorWhileOff
<1> DEFINE Meets == \A r \in Requests :
                      wire[r] # <<>> /\ Head(wire[r]).op = "vector" => lamp.mode # "shutdown"
<1>1. Sound /\ PictureInv /\ GoalInv /\ WayInv /\ [Next]_vars => (PictureInv /\ GoalInv /\ WayInv)'
  BY PictureStep, GoalStep, WayStep
<1>2. Spec => [](PictureInv /\ GoalInv /\ WayInv)
  BY <1>1, PictureInit, AlwaysSound, PTL DEF Spec
<1>3. ASSUME Sound, PictureInv, WayInv PROVE Meets
  <2> SUFFICES ASSUME NEW r \in Requests, wire[r] # <<>>, Head(wire[r]).op = "vector"
               PROVE  lamp.mode # "shutdown"
    OBVIOUS
  <2>1. Sending /\ tx.who = r
    BY <1>3 DEF PictureInv
  <2>2. wire[r] \in Seq(Frames)
    BY <1>3 DEF Sound, TypeInv, TypeOK
  <2>3. Head(wire[r]) \in Frames /\ Contains(wire[r], Head(wire[r]))
    BY <2>2, TailOrder
  <2>4. QED
    BY <1>3, <2>1, <2>3 DEF WayInv, OnItsWay
<1>4. Meets => [\A r \in Requests :
                  /\ wire[r] # <<>> /\ wire'[r] = Tail(wire[r])
                  /\ Head(wire[r]).op = "vector"
                  => lamp.mode # "shutdown"]_vars
  OBVIOUS
<1>5. QED
  BY <1>2, <1>3, <1>4, AlwaysSound, PTL DEF NoVectorWhileOff
=============================================================================
