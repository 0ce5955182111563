--------------------------- MODULE AquariusControlProofs ---------------------------
(* Theorems about AquariusControl, for any channels, levels, profiles, commands and   *)
(* number of requests, and for every behaviour of the lamp and of other controllers. *)
EXTENDS AquariusControl, SequenceTheorems, TLAPS

\* The parts of the types that the proofs need.
IsTransaction(t) ==
  t = [who |-> t.who, step |-> t.step, system |-> t.system, before |-> t.before,
       goal |-> t.goal, phase |-> t.phase, frames |-> t.frames, after |-> t.after,
       record |-> t.record, cancelled |-> t.cancelled]

Lives == {"gone", "setup", "on", "unloading", "resuming"}

Shape ==
  /\ tx # None => IsTransaction(tx)
  /\ DOMAIN wire = Requests /\ \A r \in Requests : \E S : wire[r] \in Seq(S)
  /\ place \in [Requests -> Places]
  /\ life \in Lives

\* Nothing is left of a coordinator that is gone.
NothingLeft ==
  life = "gone" =>
    /\ tx = None /\ queue = <<>>
    /\ \A r \in Requests : place[r] \notin {"debounce", "waiting"}

\* An unload waits for the transaction it met, and has cancelled it.
UnloadWaits ==
  life = "unloading" /\ tx # None => tx.who \in awaited /\ tx.cancelled

\* An entry that is set up, or resumes, only polls; a poll reads and saves.
PollsOnly ==
  tx # None =>
    /\ life \in {"setup", "resuming"} => tx.who = Poll
    /\ tx.who = Poll => tx.step \in {"look", "record"}

\* No save was begun over a record that cannot be interpreted.
SavesReadable == tx # None /\ tx.step \in Saves => disk # Unreadable

Inv == Shape /\ NothingLeft /\ UnloadWaits /\ PollsOnly /\ SavesReadable

-----------------------------------------------------------------------------
LEMMA InitInv == Init => Inv
<1> SUFFICES ASSUME Init PROVE Inv
  OBVIOUS
<1>1. \A r \in Requests : wire[r] \in Seq({})
  BY DEF Init
<1>2. QED
  BY <1>1 DEF Init, Inv, Shape, NothingLeft, UnloadWaits, PollsOnly, SavesReadable,
              Places, Lives

\* The three ways in which a step changes the transaction: it goes on, it is over,
\* or another one begins.
LEMMA GoesOn ==
  ASSUME Inv, tx # None, UNCHANGED <<place, life, disk, awaited, queue>>,
         DOMAIN wire' = Requests, \A r \in Requests : \E S : wire'[r] \in Seq(S),
         IsTransaction(tx'), tx'.who = tx.who, tx.cancelled => tx'.cancelled,
         tx'.step = tx.step \/ tx'.who # Poll \/ tx'.step = "record",
         tx'.step \in Saves => tx'.step = tx.step \/ disk # Unreadable
  PROVE  Inv'
BY DEF Inv, Shape, NothingLeft, UnloadWaits, PollsOnly, SavesReadable

LEMMA IsOver ==
  ASSUME Inv, tx # None, Leave, queue' = queue,
         DOMAIN wire' = Requests, \A r \in Requests : \E S : wire'[r] \in Seq(S)
  PROVE  Inv'
BY DEF Inv, Shape, NothingLeft, UnloadWaits, PollsOnly, SavesReadable, Leave, Lives, Places

LEMMA Begins ==
  ASSUME Inv, NEW r, NEW step \in {"look", "guard"}, NEW before, NEW goal,
         Begin(r, step, before, goal),
         \/ life = "on"
         \/ life # "gone" /\ life # "unloading" /\ r = Poll,
         r = Poll => step = "look",
         UNCHANGED <<wire, life, disk>>, place' \in [Requests -> Places]
  PROVE  Inv'
BY DEF Inv, Shape, NothingLeft, UnloadWaits, PollsOnly, SavesReadable, Begin,
       IsTransaction, Saves

\* Steps of the lamp and of requests that do not hold the lock.
LEMMA OutsideTransactions ==
  ASSUME Inv, UNCHANGED <<tx, life, disk>>,
         DOMAIN wire' = Requests, \A r \in Requests : \E S : wire'[r] \in Seq(S),
         place' \in [Requests -> Places], awaited \subseteq awaited',
         life = "gone" => UNCHANGED <<place, queue>>
  PROVE  Inv'
BY DEF Inv, Shape, NothingLeft, UnloadWaits, PollsOnly, SavesReadable

\* A coordinator that is dropped.
LEMMA Dropped ==
  ASSUME Inv, Forget, tx' = None,
         DOMAIN wire' = Requests, \A r \in Requests : \E S : wire'[r] \in Seq(S)
  PROVE  Inv'
BY DEF Inv, Shape, NothingLeft, UnloadWaits, PollsOnly, SavesReadable, Forget, Lives, Places
-----------------------------------------------------------------------------
(* The wire.                                                                 *)

WireShape == DOMAIN wire = Requests /\ \A r \in Requests : \E S : wire[r] \in Seq(S)

LEMMA WireKept == WireShape /\ UNCHANGED wire => WireShape'
BY DEF WireShape

\* A frame is sent: one connection carries one more, the others carry the same.
LEMMA WireGrows ==
  ASSUME WireShape, NEW who, NEW frame, wire' = [wire EXCEPT ![who] = Append(@, frame)]
  PROVE  WireShape'
<1> SUFFICES ASSUME NEW r \in Requests PROVE \E S : wire'[r] \in Seq(S)
  BY DEF WireShape
<1>1. PICK S : wire[r] \in Seq(S)
  BY DEF WireShape
<1>2. CASE r = who
  <2>1. wire[r] \in Seq(S \union {frame})
    <3>1. \A i \in 1..Len(wire[r]) : wire[r][i] \in S \union {frame}
      BY <1>1, ElementOfSeq
    <3>2. QED
      BY <1>1, <3>1, SeqDef
  <2>2. QED
    BY <1>2, <2>1, AppendProperties DEF WireShape
<1>3. CASE r # who
  BY <1>1, <1>3 DEF WireShape
<1>4. QED
  BY <1>2, <1>3

\* A frame is handled or lost: nothing is sent.
LEMMA WireShrinks ==
  ASSUME WireShape, NEW who \in Requests, wire[who] # <<>>,
         wire' = [wire EXCEPT ![who] = Tail(@)]
  PROVE  WireShape' /\ \A r \in Requests : ~Sends(r)
<1>1. PICK S : wire[who] \in Seq(S)
  BY DEF WireShape
<1>2. Tail(wire[who]) \in Seq(S) /\ Len(Tail(wire[who])) = Len(wire[who]) - 1
      /\ Len(wire[who]) \in Nat
  BY <1>1, HeadTailProperties
<1>3. \A r \in Requests : wire'[r] = IF r = who THEN Tail(wire[who]) ELSE wire[r]
  BY DEF WireShape
<1>4. ASSUME NEW r \in Requests PROVE ~Sends(r) /\ \E T : wire'[r] \in Seq(T)
  <2>1. CASE r = who
    BY <1>2, <1>3, <2>1 DEF Sends
  <2>2. CASE r # who
    <3>1. PICK T : wire[r] \in Seq(T)
      BY DEF WireShape
    <3>2. QED
      BY <1>3, <2>2, <3>1, LenProperties DEF Sends
  <2>3. QED
    BY <2>1, <2>2
<1>5. QED
  BY <1>4 DEF WireShape

LEMMA WireQuiet ==
  ASSUME WireShape, UNCHANGED wire
  PROVE  \A r \in Requests : ~Sends(r)
<1> SUFFICES ASSUME NEW r \in Requests PROVE ~Sends(r)
  OBVIOUS
<1>1. PICK S : wire[r] \in Seq(S)
  BY DEF WireShape
<1>2. Len(wire[r]) \in Nat
  BY <1>1, LenProperties
<1>3. QED
  BY <1>2 DEF Sends

LEMMA WireCutOff ==
  ASSUME WireShape, Disconnect
  PROVE  WireShape' /\ \A r \in Requests : ~Sends(r)
<1>1. CASE UNCHANGED wire
  BY <1>1, WireKept, WireQuiet
<1>2. CASE wire' = [wire EXCEPT ![tx.who] = <<>>]
  <2>1. ASSUME NEW r \in Requests PROVE ~Sends(r) /\ \E S : wire'[r] \in Seq(S)
    <3>1. PICK S : wire[r] \in Seq(S)
      BY DEF WireShape
    <3>2. Len(wire[r]) \in Nat /\ <<>> \in Seq(S) /\ Len(<<>>) = 0
      BY <3>1, LenProperties
    <3>3. CASE r = tx.who
      BY <1>2, <3>2, <3>3 DEF Sends, WireShape
    <3>4. CASE r # tx.who
      BY <1>2, <3>1, <3>2, <3>4 DEF Sends, WireShape
    <3>5. QED
      BY <3>3, <3>4
  <2>2. QED
    BY <1>2, <2>1 DEF WireShape
<1>3. QED
  BY <1>1, <1>2 DEF Disconnect
-----------------------------------------------------------------------------
(* The actions.                                                              *)

LEMMA InvWire == Inv => WireShape
BY DEF Inv, Shape, WireShape

LEMMA LampKeepsInv ==
  /\ Inv /\ LampMoves => Inv'
  /\ \A r \in Requests : Inv /\ (Handle(r) \/ Lose(r)) => Inv'
<1>1. ASSUME Inv, LampMoves PROVE Inv'
  BY <1>1, InvWire, WireKept, OutsideTransactions
     DEF LampMoves, WireShape, Inv, Shape, memory, requests
<1>2. ASSUME Inv, NEW r \in Requests, Handle(r) \/ Lose(r) PROVE Inv'
  <2>1. WireShape'
    BY <1>2, InvWire, WireShrinks DEF Handle, Lose
  <2>2. QED
    BY <1>2, <2>1, OutsideTransactions
       DEF Handle, Lose, WireShape, Inv, Shape, memory, requests
<1>3. QED
  BY <1>1, <1>2

LEMMA RequestsKeepInv ==
  /\ \A c : Inv /\ Submit(c) => Inv'
  /\ \A r \in Requests : Inv /\ (Debounced(r) \/ Expire(r) \/ TurnAway(r)) => Inv'
  /\ Inv /\ PollDue => Inv'
<1> USE InvWire, WireKept DEF outside, memory, requests, WireShape
<1>1. ASSUME Inv, NEW c, Submit(c) PROVE Inv'
  <2>1. life = "on" /\ place' \in [Requests -> Places] /\ UNCHANGED <<tx, life, disk, awaited, wire>>
    <3>1. \A other : Allowed(other) => life = "on"
      BY DEF Allowed, PowerSupported, WriteSupported, Current
    <3>2. place' \in [Requests -> Places]
      BY <1>1 DEF Submit, Inv, Shape, Places
    <3>3. QED
      BY <1>1, <3>1, <3>2 DEF Submit
  <2>2. QED
    BY <1>1, <2>1, OutsideTransactions
<1>2. ASSUME Inv, NEW r \in Requests, Debounced(r) \/ Expire(r) \/ TurnAway(r) PROVE Inv'
  BY <1>2, OutsideTransactions DEF Debounced, Expire, TurnAway, Inv, Shape, Places, NothingLeft
<1>3. ASSUME Inv, PollDue PROVE Inv'
  BY <1>3, OutsideTransactions DEF PollDue, Inv, Shape
<1>4. QED
  BY <1>1, <1>2, <1>3

LEMMA AdmissionsKeepInv ==
  /\ \A r \in Requests : Inv /\ Admit(r) => Inv'
  /\ Inv /\ AdmitPoll => Inv'
<1> USE InvWire, WireKept DEF outside, memory, requests, WireShape
<1>1. ASSUME Inv, NEW r \in Requests, Admit(r) PROVE Inv'
  <2>1. life = "on"
    BY <1>1 DEF Admit, Admissible, Allowed, PowerSupported, WriteSupported, Current
  <2>2. place' \in [Requests -> Places] /\ UNCHANGED <<life, disk, awaited, wire>> /\ r # Poll
    BY <1>1 DEF Admit, Inv, Shape, Places
  <2>3. CASE UNCHANGED tx
    BY <1>1, <2>1, <2>2, <2>3, OutsideTransactions
  <2>4. CASE ~UNCHANGED tx
    <3> DEFINE goal == CASE command[r].kind = "colour" -> command[r].mix
                         [] command[r].kind \in {"on", "dim"} -> ManualRestore(mem, memError, data)
                         [] OTHER -> None
    <3>1. Begin(r, "look", None, None) \/ Begin(r, "guard", data, goal)
      BY <1>1, <2>4 DEF Admit
    <3> HIDE DEF goal
    <3>2. QED
      BY <1>1, <2>1, <2>2, <3>1, Begins
  <2>5. QED
    BY <2>3, <2>4
<1>2. ASSUME Inv, AdmitPoll PROVE Inv'
  <2>1. life # "gone"
    BY <1>2 DEF AdmitPoll, Inv, NothingLeft
  <2>2. CASE life = "unloading"
    BY <1>2, <2>1, <2>2, OutsideTransactions DEF AdmitPoll, Inv, Shape
  <2>3. CASE life # "unloading"
    BY <1>2, <2>1, <2>3, Begins DEF AdmitPoll, Inv, Shape
  <2>4. QED
    BY <2>2, <2>3
<1>3. QED
  BY <1>1, <1>2

\* A reading is remembered: the transaction is over, or goes on with a save.
LEMMA RemembersKeepInv ==
  ASSUME Inv, tx # None, NEW state, Remember(state),
         UNCHANGED <<wire, disk, awaited, queue>>
  PROVE  Inv'
<1>1. WireShape'
  BY InvWire, WireKept
<1>2. CASE Leave
  BY <1>1, <1>2, IsOver DEF WireShape
<1>3. CASE ~Leave
  <2>1. /\ disk # Unreadable
        /\ tx' = [tx EXCEPT !.step = "record", !.system = None, !.after = state,
                            !.record = Observed(mem, state)]
        /\ UNCHANGED <<place, life>>
    BY <1>3 DEF Remember, Stay
  <2>2. IsTransaction(tx)
    BY DEF Inv, Shape
  <2>3. /\ IsTransaction(tx') /\ tx'.who = tx.who /\ tx'.cancelled = tx.cancelled
        /\ tx'.step = "record"
    BY <2>1, <2>2 DEF IsTransaction
  <2>4. QED
    BY <1>1, <2>1, <2>3, GoesOn DEF WireShape
<1>4. QED
  BY <1>2, <1>3

LEMMA ReadingsKeepInv ==
  Inv /\ (PollReads \/ AlreadyOn \/ NoBasis \/ Verified) => Inv'
BY RemembersKeepInv DEF PollReads, AlreadyOn, NoBasis, Verified, Has, outside, memory

LEMMA TransactionsKeepInv ==
  Inv /\ (ReadSystem \/ Guard \/ Send \/ Confirm \/ Woken \/ ExpireSave) => Inv'
<1> USE DEF outside, memory, requests
<1> SUFFICES ASSUME Inv, ReadSystem \/ Guard \/ Send \/ Confirm \/ Woken \/ ExpireSave
             PROVE  Inv'
  OBVIOUS
<1>1. tx # None /\ IsTransaction(tx) /\ UNCHANGED <<place, life, disk, awaited, queue>>
  BY DEF ReadSystem, Guard, Send, Confirm, Woken, ExpireSave, Has, Inv, Shape
<1>2. WireShape'
  BY InvWire, WireKept, WireGrows DEF ReadSystem, Guard, Send, Confirm, Woken, ExpireSave
<1>3. tx.step = "send" => tx.who # Poll
  BY <1>1 DEF Inv, PollsOnly
<1>4. CASE ReadSystem \/ Confirm \/ Woken
  <2>1. /\ IsTransaction(tx') /\ tx'.who = tx.who /\ tx'.cancelled = tx.cancelled
        /\ tx'.step \in {tx.step, "verify", "guard"} /\ (tx'.step = tx.step \/ tx.step \in {"confirm", "verify"})
    BY <1>1, <1>4 DEF ReadSystem, Confirm, Woken, Has, IsTransaction
  <2>2. QED
    BY <1>1, <1>2, <2>1, GoesOn DEF WireShape, Saves, Inv, PollsOnly
<1>5. CASE Guard
  <2>1. PICK goal : tx' = [tx EXCEPT !.step = "send", !.system = None, !.before = Reading,
                                     !.goal = goal, !.frames = Plan(Reading, goal),
                                     !.phase = IF Wakes(Reading) THEN "wake" ELSE @]
    BY <1>5 DEF Guard
  <2>2. /\ IsTransaction(tx') /\ tx'.who = tx.who /\ tx'.cancelled = tx.cancelled
        /\ tx'.step = "send"
    BY <1>1, <2>1 DEF IsTransaction
  <2>3. tx.who # Poll
    BY <1>1, <1>5 DEF Guard, Has, Inv, PollsOnly
  <2>4. QED
    BY <1>1, <1>2, <2>2, <2>3, GoesOn DEF WireShape, Saves
<1>6. CASE Send
  <2>1. /\ IsTransaction(tx') /\ tx'.who = tx.who /\ tx'.cancelled = tx.cancelled
        /\ tx'.step \in {tx.step, "confirm"}
    BY <1>1, <1>6 DEF Send, IsTransaction
  <2>2. QED
    BY <1>1, <1>2, <1>3, <1>6, <2>1, GoesOn DEF Send, WireShape, Saves
<1>7. CASE ExpireSave
  <2>1. /\ IsTransaction(tx') /\ tx'.who = tx.who /\ tx'.cancelled = TRUE
        /\ tx'.step = tx.step
    BY <1>1, <1>7 DEF ExpireSave, IsTransaction
  <2>2. QED
    BY <1>1, <1>2, <2>1, GoesOn DEF WireShape
<1>8. QED
  BY <1>4, <1>5, <1>6, <1>7

LEMMA OffsKeepInv == Inv /\ (OffConflicts \/ OffLooks \/ OffVerified) => Inv'
<1> USE DEF outside, memory, requests
<1> SUFFICES ASSUME Inv, OffConflicts \/ OffLooks \/ OffVerified
             PROVE  Inv'
  OBVIOUS
<1>1. /\ tx # None /\ IsTransaction(tx) /\ UNCHANGED <<disk, awaited, queue>>
      /\ tx.step \in {"look", "verify"}
      /\ tx.step = "verify" \/ tx.who # Poll
  BY DEF OffConflicts, OffLooks, OffVerified, Has, Inv, Shape
<1>2. WireShape'
  BY InvWire, WireKept DEF OffConflicts, OffLooks, OffVerified
<1>3. CASE Leave
  BY <1>1, <1>2, <1>3, IsOver DEF WireShape
<1>4. CASE ~Leave /\ OffLooks
  <2>1. /\ IsTransaction(tx') /\ tx'.who = tx.who /\ tx'.cancelled = tx.cancelled
        /\ tx.who # Poll /\ disk # Unreadable /\ UNCHANGED <<place, life>>
    BY <1>1, <1>4 DEF OffLooks, Has, Stay, IsTransaction
  <2>2. QED
    BY <1>1, <1>2, <2>1, GoesOn DEF WireShape
<1>5. CASE ~Leave /\ OffVerified
  <2>1. /\ IsTransaction(tx') /\ tx'.who = tx.who /\ tx'.cancelled = tx.cancelled
        /\ tx'.step = "record" /\ disk # Unreadable /\ UNCHANGED <<place, life>>
    BY <1>1, <1>5 DEF OffVerified, Stay, IsTransaction
  <2>2. QED
    BY <1>1, <1>2, <2>1, GoesOn DEF WireShape
<1>6. QED
  BY <1>3, <1>4, <1>5 DEF OffConflicts

LEMMA FailuresKeepInv == Inv /\ Fail => Inv'
<1> SUFFICES ASSUME Inv, Fail PROVE Inv'
  OBVIOUS
<1>1. WireShape' /\ tx # None /\ Leave /\ UNCHANGED queue
  BY InvWire, WireCutOff DEF Fail
<1>2. QED
  BY <1>1, IsOver DEF WireShape

\* A save is over, and with it the transaction, except for the intent of an Off.
LEMMA SaveEnds ==
  ASSUME Inv, tx # None, Leave, UNCHANGED <<wire, queue, awaited>>
  PROVE  Inv'
BY InvWire, WireKept, IsOver DEF WireShape

LEMMA SavesKeepInv ==
  /\ Inv /\ (SaveVerified \/ SaveTooLate) => Inv'
  /\ \A outcome : Inv /\ (SaveFails(outcome) \/ SaveCancelled(outcome)) => Inv'
<1> USE DEF outside
<1>1. ASSUME Inv, SaveVerified PROVE Inv'
  <2>1. tx # None /\ tx.step \in Saves /\ UNCHANGED <<wire, queue, awaited>>
        /\ IsTransaction(tx)
    BY <1>1 DEF SaveVerified, Inv, Shape
  <2>2. CASE Leave
    BY <1>1, <2>1, <2>2, SaveEnds
  <2>3. CASE ~Leave
    <3>1. /\ tx.step = "intend" /\ UNCHANGED <<place, life>>
          /\ tx' = [tx EXCEPT !.step = "guard", !.record = None]
      BY <1>1, <2>1, <2>3 DEF SaveVerified, Stay, Saves
    <3>2. /\ IsTransaction(tx') /\ tx'.who = tx.who /\ tx'.cancelled = tx.cancelled
          /\ tx'.step = "guard"
      BY <2>1, <3>1 DEF IsTransaction
    <3>3. tx.who # Poll
      BY <1>1, <2>1, <3>1 DEF Inv, PollsOnly
    <3>4. WireShape'
      BY <1>1, <2>1, InvWire, WireKept
    <3>5. QED
      BY <1>1, <2>1, <3>1, <3>2, <3>3, <3>4
         DEF WireShape, Saves, Inv, Shape, NothingLeft, UnloadWaits, PollsOnly, SavesReadable
  <2>4. QED
    BY <2>2, <2>3
<1>2. ASSUME Inv, SaveTooLate PROVE Inv'
  BY <1>2, SaveEnds DEF SaveTooLate
<1>3. ASSUME Inv, NEW outcome, SaveFails(outcome) \/ SaveCancelled(outcome) PROVE Inv'
  BY <1>3, SaveEnds DEF SaveFails, SaveCancelled
<1>4. QED
  BY <1>1, <1>2, <1>3

LEMMA LifeKeepsInv ==
  Inv /\ (Setup \/ SetupFails \/ PrepareUnload \/ Unload \/ UnloadFails \/ Crash \/ RemoveEntry)
  => Inv'
<1> USE InvWire, WireKept DEF outside, memory, requests, WireShape
<1>1. ASSUME Inv, Setup PROVE Inv'
  BY <1>1 DEF Setup, Inv, Shape, NothingLeft, UnloadWaits, PollsOnly, SavesReadable, Lives
<1>2. ASSUME Inv, SetupFails PROVE Inv'
  BY <1>2, Dropped DEF SetupFails
<1>3. ASSUME Inv, PrepareUnload PROVE Inv'
  <2>1. /\ life = "on" /\ life' = "unloading" /\ UNCHANGED <<wire, place, disk, queue>>
        /\ tx = None => tx' = None
        /\ tx # None => tx' = [tx EXCEPT !.cancelled = TRUE] /\ awaited' = {tx.who}
    BY <1>3 DEF PrepareUnload, Awaited
  <2>2. CASE tx = None
    BY <1>3, <2>1, <2>2
       DEF Inv, Shape, NothingLeft, UnloadWaits, PollsOnly, SavesReadable, Lives
  <2>3. CASE tx # None
    <3>1. /\ IsTransaction(tx') /\ tx'.who = tx.who /\ tx'.cancelled = TRUE
          /\ tx'.step = tx.step
      BY <1>3, <2>1, <2>3 DEF Inv, Shape, IsTransaction
    <3>2. QED
      BY <1>3, <2>1, <2>3, <3>1
         DEF Inv, Shape, NothingLeft, UnloadWaits, PollsOnly, SavesReadable, Lives
  <2>4. QED
    BY <2>2, <2>3
<1>4. ASSUME Inv, Unload PROVE Inv'
  BY <1>4, Dropped DEF Unload, Settled, Inv, UnloadWaits
<1>5. ASSUME Inv, UnloadFails PROVE Inv'
  BY <1>5 DEF UnloadFails, Settled, Inv, Shape, NothingLeft, UnloadWaits, PollsOnly,
              SavesReadable, Lives
<1>6. ASSUME Inv, Crash PROVE Inv'
  BY <1>6, WireCutOff, Dropped DEF Crash
<1>7. ASSUME Inv, RemoveEntry PROVE Inv'
  BY <1>7 DEF RemoveEntry, Inv, Shape, NothingLeft, UnloadWaits, PollsOnly, SavesReadable
<1>8. QED
  BY <1>1, <1>2, <1>3, <1>4, <1>5, <1>6, <1>7

LEMMA NextKeepsInv == Inv /\ [Next]_vars => Inv'
<1> SUFFICES ASSUME Inv, [Next]_vars PROVE Inv'
  OBVIOUS
<1>1. CASE LampMoves \/ \E r \in Requests : Handle(r) \/ Lose(r)
  BY <1>1, LampKeepsInv
<1>2. CASE AnyRequest
  BY <1>2, RequestsKeepInv, AdmissionsKeepInv DEF AnyRequest
<1>3. CASE PollDue \/ AdmitPoll
  BY <1>3, RequestsKeepInv, AdmissionsKeepInv
<1>4. CASE Transaction \/ ExpireSave
  BY <1>4, TransactionsKeepInv, ReadingsKeepInv, OffsKeepInv, FailuresKeepInv DEF Transaction
<1>5. CASE Save
  BY <1>5, SavesKeepInv DEF Save
<1>6. CASE Setup \/ SetupFails \/ PrepareUnload \/ Unload \/ UnloadFails \/ Crash \/ RemoveEntry
  BY <1>6, LifeKeepsInv
<1>7. CASE UNCHANGED vars
  BY <1>7 DEF vars, Inv, Shape, NothingLeft, UnloadWaits, PollsOnly, SavesReadable
<1>8. QED
  BY <1>1, <1>2, <1>3, <1>4, <1>5, <1>6, <1>7 DEF Next

-----------------------------------------------------------------------------
\* No task of an unloaded coordinator still reads, sends or saves: an unload waits for
\* the one that held the lock, and no other gets it (async_prepare_unload).
THEOREM UnloadAlwaysSettles == Spec => []UnloadSettles
<1>1. Inv => UnloadSettles
  BY DEF Inv, NothingLeft, UnloadSettles
<1>2. QED
  BY InitInv, NextKeepsInv, <1>1, PTL DEF Spec

\* The error flag tells the truth (_save, async_load): while a memory without it is in
\* use, the store holds the same, whatever saves are lost or cut short.
THEOREM TrustedMemoryIsAlwaysDurable == Spec => []TrustedMemoryIsDurable
<1>1. Init => TrustedMemoryIsDurable
  BY DEF Init, TrustedMemoryIsDurable
<1>2. ASSUME Inv, TrustedMemoryIsDurable, [Next]_vars PROVE TrustedMemoryIsDurable'
  <2> USE DEF TrustedMemoryIsDurable, outside, memory
  <2>1. CASE UNCHANGED <<mem, memError, disk, life>>
    BY <1>2, <2>1
  <2>2. CASE life' = "gone"
    BY <2>2
  <2>3. CASE Save
    BY <2>3 DEF Save, SaveVerified, SaveTooLate, SaveFails, SaveCancelled, Written
  <2>4. CASE tx # None /\ Leave /\ UNCHANGED memory
    <3>1. life # "gone"
      BY <1>2, <2>4 DEF Inv, NothingLeft
    <3>2. QED
      BY <1>2, <2>4, <3>1
  <2>5. CASE Transaction
    BY <2>1, <2>4, <2>5
       DEF Transaction, ReadSystem, PollReads, OffConflicts, OffLooks, AlreadyOn, NoBasis,
           Guard, Send, Confirm, Woken, Verified, OffVerified, Fail, Has, Remember, Stay
  <2>6. CASE Setup
    BY <2>6 DEF Setup
  <2>7. CASE PrepareUnload \/ UnloadFails
    BY <1>2, <2>7 DEF PrepareUnload, UnloadFails
  <2>8. CASE SetupFails \/ Unload \/ Crash \/ RemoveEntry
    BY <2>2, <2>8 DEF SetupFails, Unload, Crash, RemoveEntry, Forget
  <2>9. QED
    BY <1>2, <2>1, <2>3, <2>5, <2>6, <2>7, <2>8
       DEF Next, vars, LampMoves, Handle, Lose, AnyRequest, Submit, Debounced, Expire,
           Admit, TurnAway, PollDue, AdmitPoll, ExpireSave, requests
<1>3. QED
  BY InitInv, NextKeepsInv, <1>1, <1>2, PTL DEF Spec

\* A stored record that this release cannot interpret survives everything but the
\* removal of the entry (_write_blocked).
THEOREM UnreadableIsKept == Spec => UnreadableKept
<1> DEFINE Kept == disk = Unreadable /\ disk' # disk => life = "gone"
<1>1. ASSUME Inv, [Next]_vars PROVE [Kept]_vars
  <2> USE DEF outside, memory
  <2>1. CASE Save
    BY <1>1, <2>1 DEF Save, SaveVerified, SaveTooLate, SaveFails, SaveCancelled,
                      Inv, SavesReadable, Saves
  <2>2. CASE Transaction
    BY <2>2
       DEF Transaction, ReadSystem, PollReads, OffConflicts, OffLooks, AlreadyOn, NoBasis,
           Guard, Send, Confirm, Woken, Verified, OffVerified, Fail
  <2>3. CASE Crash
    BY <1>1, <2>3 DEF Crash, Inv, SavesReadable
  <2>4. CASE Setup \/ SetupFails \/ PrepareUnload \/ Unload \/ UnloadFails \/ RemoveEntry
    BY <2>4 DEF Setup, SetupFails, PrepareUnload, Unload, UnloadFails, RemoveEntry
  <2>5. QED
    BY <1>1, <2>1, <2>2, <2>3, <2>4
       DEF Next, vars, LampMoves, Handle, Lose, AnyRequest, Submit, Debounced, Expire,
           Admit, TurnAway, PollDue, AdmitPoll, ExpireSave
<1>2. QED
  BY InitInv, NextKeepsInv, <1>1, PTL DEF Spec, UnreadableKept

\* While an entry unloads, and until a failed unload has read the lamp again, nothing
\* is sent to it (async_prepare_unload, _admit).
THEOREM UnloadIsSilent == Spec => SilentWhileUnloading
<1> DEFINE Silent == \A r \in Requests : Sends(r) => life = "on"
<1>1. ASSUME Inv, [Next]_vars PROVE [Silent]_vars
  <2> USE DEF outside
  <2>1. WireShape
    BY <1>1, InvWire
  <2>2. CASE UNCHANGED wire
    BY <2>1, <2>2, WireQuiet
  <2>3. CASE Disconnect
    BY <2>1, <2>3, WireCutOff
  <2>4. CASE \E r \in Requests : Handle(r) \/ Lose(r)
    BY <2>1, <2>4, WireShrinks DEF Handle, Lose
  <2>5. CASE Send
    <3>1. life = "on"
      BY <1>1, <2>5 DEF Send, Inv, Shape, Lives, NothingLeft, UnloadWaits, PollsOnly
    <3>2. QED
      BY <3>1
  <2>6. CASE Transaction
    BY <2>2, <2>3, <2>5, <2>6
       DEF Transaction, ReadSystem, PollReads, OffConflicts, OffLooks, AlreadyOn, NoBasis,
           Guard, Confirm, Woken, Verified, OffVerified, Fail
  <2>7. CASE Save
    BY <2>2, <2>7 DEF Save, SaveVerified, SaveTooLate, SaveFails, SaveCancelled
  <2>8. CASE Setup \/ SetupFails \/ PrepareUnload \/ Unload \/ UnloadFails \/ Crash \/ RemoveEntry
    BY <2>2, <2>3, <2>8
       DEF Setup, SetupFails, PrepareUnload, Unload, UnloadFails, Crash, RemoveEntry
  <2>9. QED
    BY <1>1, <2>2, <2>4, <2>6, <2>7, <2>8
       DEF Next, vars, LampMoves, AnyRequest, Submit, Debounced, Expire,
           Admit, TurnAway, PollDue, AdmitPoll, ExpireSave
<1>2. QED
  BY InitInv, NextKeepsInv, <1>1, PTL DEF Spec, SilentWhileUnloading

-----------------------------------------------------------------------------
\* A save belongs to a good reading, and what is shown as current is one.
Refreshed ==
  /\ Current => ~needsRefresh
  /\ tx # None /\ tx.step \in Saves => ~needsRefresh

\* A step that leaves the reading alone does not begin a save.
LEMMA RefreshedKept ==
  ASSUME Refreshed, UNCHANGED <<life, needsRefresh, data>>, ok' = ok \/ ok' = FALSE,
         tx' # None /\ tx'.step \in Saves => tx # None /\ tx.step \in Saves
  PROVE  Refreshed'
BY DEF Refreshed, Current

LEMMA RefreshedInductive == Inv /\ Refreshed /\ [Next]_vars => Refreshed'
<1> SUFFICES ASSUME Inv, Refreshed, [Next]_vars PROVE Refreshed'
  OBVIOUS
<1> USE DEF outside, memory, view, requests
<1>1. tx # None => IsTransaction(tx)
  BY DEF Inv, Shape
<1>2. CASE UNCHANGED <<tx, life, needsRefresh, data>> /\ (ok' = ok \/ ok' = FALSE)
  BY <1>2, RefreshedKept
<1>3. CASE ~needsRefresh'
  BY <1>3 DEF Refreshed
<1>4. CASE tx' = None /\ (ok' = FALSE \/ life' = "gone")
  BY <1>4 DEF Refreshed, Current
<1>5. CASE \E r \in Requests : Admit(r)
  <2>1. CASE UNCHANGED tx
    BY <1>2, <1>5, <2>1 DEF Admit
  <2>2. CASE ~UNCHANGED tx
    <3>1. Current
      BY <1>5 DEF Admit, Admissible, Allowed, PowerSupported, WriteSupported
    <3>2. QED
      BY <1>5, <2>2, <3>1 DEF Admit, Refreshed
  <2>3. QED
    BY <2>1, <2>2
<1>6. CASE AdmitPoll
  <2>1. CASE life = "unloading"
    BY <1>2, <1>6, <2>1 DEF AdmitPoll
  <2>2. CASE life # "unloading"
    <3>1. tx'.step = "look" /\ UNCHANGED <<life, needsRefresh, data, ok>>
      BY <1>6, <2>2 DEF AdmitPoll, Begin
    <3>2. QED
      BY <3>1, RefreshedKept DEF Saves
  <2>3. QED
    BY <2>1, <2>2
<1>7. CASE ReadSystem \/ Guard \/ Send \/ Confirm \/ Woken \/ ExpireSave
  <2>1. tx # None /\ UNCHANGED <<life, needsRefresh, data, ok>>
    BY <1>7 DEF ReadSystem, Guard, Send, Confirm, Woken, ExpireSave, Has
  <2>2. tx'.step \in {tx.step, "send", "confirm", "verify", "guard"}
    <3>1. CASE Guard
      BY <1>1, <2>1, <3>1 DEF Guard, IsTransaction
    <3>2. CASE ~Guard
      BY <1>1, <1>7, <2>1, <3>2
         DEF ReadSystem, Send, Confirm, Woken, ExpireSave, IsTransaction
    <3>3. QED
      BY <3>1, <3>2
  <2>3. QED
    BY <2>1, <2>2, RefreshedKept DEF Saves
<1>8. CASE PollReads \/ OffConflicts \/ OffLooks \/ AlreadyOn \/ NoBasis \/ Verified \/ OffVerified
  BY <1>3, <1>8 DEF PollReads, OffConflicts, OffLooks, AlreadyOn, NoBasis, Verified, OffVerified
<1>9. CASE Fail
  BY <1>4, <1>9 DEF Fail, Leave
<1>10. CASE Save
  BY <1>3, <1>10
     DEF Save, SaveVerified, SaveTooLate, SaveFails, SaveCancelled, Refreshed, Saves
<1>11. CASE Setup \/ PrepareUnload \/ UnloadFails
  <2>1. life' # "on" /\ UNCHANGED needsRefresh
    BY <1>11 DEF Setup, PrepareUnload, UnloadFails
  <2>2. tx' # None => tx # None /\ tx'.step = tx.step
    BY <1>1, <1>11 DEF Setup, PrepareUnload, UnloadFails, Awaited, IsTransaction
  <2>3. QED
    BY <2>1, <2>2 DEF Refreshed, Current
<1>12. CASE SetupFails \/ Unload \/ Crash
  BY <1>4, <1>12 DEF SetupFails, Unload, Crash, Forget, Settled, Inv, UnloadWaits
<1>13. CASE \E c : Submit(c)
  BY <1>2, <1>13 DEF Submit
<1>14. CASE RemoveEntry \/ LampMoves \/ PollDue \/ UNCHANGED vars
            \/ \E r \in Requests : Handle(r) \/ Lose(r) \/ Debounced(r) \/ Expire(r) \/ TurnAway(r)
  BY <1>2, <1>14
     DEF RemoveEntry, LampMoves, PollDue, vars, Handle, Lose, Debounced, Expire, TurnAway
<1>15. QED
  BY <1>5, <1>6, <1>7, <1>8, <1>9, <1>10, <1>11, <1>12, <1>13, <1>14
     DEF Next, AnyRequest, Transaction

\* Whenever the coordinator would admit a command, the client has a reading it trusts
\* (last_update_success against AquariusClient._needs_refresh).
THEOREM AdmissionNeedsNoRefresh == Spec => []AdmittedMeansRefreshed
<1>1. Init => Refreshed
  BY DEF Init, Refreshed, Current
<1>2. Refreshed => AdmittedMeansRefreshed
  BY DEF Refreshed, AdmittedMeansRefreshed
<1>3. QED
  BY InitInv, NextKeepsInv, RefreshedInductive, <1>1, <1>2, PTL DEF Spec
=============================================================================
