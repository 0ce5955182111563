------------------------------ MODULE AquariusControl ------------------------------
(***************************************************************************)
(* One Aquarius lamp under Home Assistant: the coordinator that admits      *)
(* actions, the client that reads, writes and reads back, the private       *)
(* memory of an Off, the lamp, and the other controllers of that lamp       *)
(* (coordinator.py, client.py, state_store.py and __init__.py of            *)
(* custom_components/aquarius_plant_led).                                   *)
(*                                                                         *)
(* Requests are numbered in the order in which people submit them.  tx is   *)
(* the holder of the coordinator's lock and its place between two awaits;   *)
(* queue holds the tasks that wait for the lock, in the order asyncio.Lock   *)
(* serves them.  The command epoch and the gesture generations are only     *)
(* ever compared with the value a request took when it was submitted:       *)
(* `fresh' is the set of the requests whose epoch is the current one,       *)
(* `newest' and `gesture' name the request that drew the latest generation. *)
(*                                                                         *)
(* Time is left out: a deadline, a refused connection, an unexpected reply  *)
(* and a cancellation may each end a transaction at any await.              *)
(***************************************************************************)
EXTENDS PowerMemory, Sequences, SequencesExt

CONSTANTS
  Unreadable,      \* a stored record this release cannot interpret
  Commands,        \* the commands people may give as their first, second... request
  OwnMixes,        \* vectors the lamp's program and its retained mix may show
  OtherStates,     \* states other controllers put the lamp in
  LateFrames,      \* frames may be handled after their connection was closed
  InitialLamps, InitialRecords, \* what the lamp and the store hold at first
  \* Bounds of an instance:
  MaxRequests,     \* requests submitted
  MaxMoves,        \* times another controller acts, or the program moves a channel
  MaxSetups        \* times the configuration entry is set up

ASSUME ControlAssumption ==
  /\ MaxRequests \in Nat /\ MaxMoves \in Nat /\ MaxSetups \in Nat
  /\ Unreadable # None /\ Unreadable \notin Records
  /\ OwnMixes \subseteq Mixes /\ LateFrames \in BOOLEAN
  /\ OtherStates \subseteq States /\ InitialLamps \subseteq States
  /\ InitialRecords \subseteq Records \union {Unreadable}

Requests == 1..MaxRequests
Poll == 0
Actors == Requests \union {Poll}

CommandForms ==
  [kind : {"channel"}, channel : Channels, level : Levels] \union
  [kind : {"mode"}, mode : Controlled] \union
  [kind : {"colour"}, mix : Mixes \ {Zero}] \union
  [kind : {"dim", "off", "on", "resume"}]

ASSUME CommandsAssumption ==
  /\ Commands \in [Requests -> SUBSET CommandForms]
  /\ None \notin CommandForms

Gestures == {"channel", "colour", "dim"}
Compact == {"colour", "dim"}
Power == {"off", "on", "resume"}

Vector(mix) == [op |-> "vector", mix |-> mix]
ToMode(mode) == [op |-> "mode", mode |-> mode]
Frames ==
  [op : {"vector"}, mix : Mixes] \union [op : {"mode"}, mode : Controlled \union {"shutdown"}]

VARIABLES
  \* The lamp, and the frames sent on each request's connection that it has not
  \* handled yet:
  lamp, wire,
  \* The power memory: the store on disk, the record in use, and its error flag:
  disk, mem, memError,
  \* The coordinator:
  life,           \* config entry: gone, setup, on, unloading or resuming
  data, ok,       \* DataUpdateCoordinator.data and last_update_success
  fresh, newest, gesture,
  queue, tx,
  awaited,        \* the tasks an unload cancelled and waits for
  needsRefresh,   \* AquariusClient._needs_refresh
  \* The requests:
  asked, command, place,
  \* History: the latest Off that the lamp confirmed, and what the bounds count
  cycle, moves, setups

outside == <<lamp, wire>>
memory == <<disk, mem, memError>>
view == <<data, ok>>
claims == <<fresh, newest, gesture>>
requests == <<asked, command, place>>
bounds == <<moves, setups>>
vars == <<lamp, wire, disk, mem, memError, life, data, ok, fresh, newest, gesture,
          queue, tx, awaited, needsRefresh, asked, command, place, cycle, moves, setups>>

Reads == {"look", "guard", "verify"}
Saves == {"intend", "record"}
Steps == Reads \union Saves \union {"send", "confirm"}

Transactions ==
  [who : Actors, step : Steps,
   system : [mode : Modes, profile : Profiles] \union {None}, \* half of a reading
   before : States \union {None},     \* the state the command was given in
   goal : Mixes \union {None},        \* the vector to reach
   phase : {"plain", "wake", "woken"},
   frames : Seq(Frames),              \* still to be sent
   after : States \union {None},      \* the reading that a save belongs to
   record : Records \union {None},    \* being saved
   cancelled : BOOLEAN]

Cycles == [mode : Controlled, mix : Mixes, told : BOOLEAN]

ASSUME NoTransactionAssumption ==
  None \notin Transactions /\ None \notin Cycles
    /\ None \notin [mode : Modes, profile : Profiles]

Init ==
  /\ lamp \in InitialLamps
  /\ wire = [r \in Requests |-> <<>>]
  /\ disk \in InitialRecords
  /\ mem = EmptyRecord /\ memError = FALSE
  /\ life = "gone"
  /\ data = None /\ ok = TRUE
  /\ fresh = {} /\ newest = [c \in Channels |-> 0] /\ gesture = 0
  /\ queue = <<>> /\ tx = None /\ awaited = {}
  /\ needsRefresh = TRUE
  /\ asked = 0
  /\ command = [r \in Requests |-> None]
  /\ place = [r \in Requests |-> "free"]
  /\ cycle = None
  /\ moves = 0 /\ setups = 0

-----------------------------------------------------------------------------
(* The lamp.  Its behaviour is the one the readback checks of client.py      *)
(* allow for.                                                                *)

Obey(frame) ==
  \/ /\ frame.op = "vector"
     /\ lamp' = [lamp EXCEPT !.mix = frame.mix]
  \/ /\ frame.op = "mode"
     /\ \E mix \in CASE frame.mode = "automatic" -> OwnMixes
                     [] frame.mode = "manual" ->
                          {lamp.mix} \union IF lamp.mode = "shutdown" THEN OwnMixes ELSE {}
                     [] frame.mode = "shutdown" -> {lamp.mix, Zero} :
          lamp' = [lamp EXCEPT !.mode = frame.mode, !.mix = mix]

\* The lamp handles the frames of one connection in order, possibly long after
\* that connection was closed.
Handle(r) ==
  /\ wire[r] # <<>>
  /\ Obey(Head(wire[r]))
  /\ wire' = [wire EXCEPT ![r] = Tail(@)]
  /\ UNCHANGED <<bounds, memory, life, view, claims, queue, tx, awaited, needsRefresh,
                 requests, cycle>>

\* A frame is lost, or the lamp ignores it.
Lose(r) ==
  /\ wire[r] # <<>>
  /\ wire' = [wire EXCEPT ![r] = Tail(@)]
  /\ UNCHANGED <<bounds, lamp, memory, life, view, claims, queue, tx, awaited, needsRefresh,
                 requests, cycle>>

\* The stored program runs, or another controller acts.
LampMoves ==
  /\ \/ /\ lamp.mode = "automatic"
        /\ \E mix \in OwnMixes : lamp' = [lamp EXCEPT !.mix = mix]
     \/ lamp' \in OtherStates
  /\ lamp' # lamp
  /\ moves < MaxMoves /\ moves' = moves + 1
  /\ UNCHANGED <<setups, wire, memory, life, view, claims, queue, tx, awaited, needsRefresh,
                 requests, cycle>>

-----------------------------------------------------------------------------
(* Admission.                                                                *)

Current == life = "on" /\ ok /\ data # None
WriteSupported == Current /\ data.profile \in WriteProfiles /\ data.mode \in Controlled
PowerSupported ==
  Current /\ data.profile \in PowerProfiles /\ data.mode \in Controlled \union {"shutdown"}

Allowed(c) ==
  IF c.kind \in Power \/ (c.kind \in Compact /\ data # None /\ data.mode = "shutdown")
    THEN PowerSupported
    ELSE WriteSupported

\* Pressing Resume while the lamp is not Off is a mode choice.
Meant(c) ==
  IF c.kind = "resume" /\ data # None /\ data.mode # "shutdown"
    THEN [kind |-> "mode", mode |-> "automatic"]
    ELSE c

\* A newer gesture, mode or power choice drops a gesture that is not admitted yet.
\* Faulty Superseded: a slider only looks at newer requests for sliders.
SlidersOnly(r) ==
  /\ command[r].kind = "channel"
  /\ \E q \in Requests : /\ q > r /\ q <= asked
                         /\ command[q] # None /\ command[q].kind = "channel"
                         /\ command[q].channel = command[r].channel

Superseded(r) ==
  CASE command[r].kind = "channel"  -> newest[command[r].channel] # r
    [] command[r].kind \in Compact -> gesture # r
    [] OTHER -> FALSE

\* Actions queued before a fault or an unload lose their admission.
Distrust == fresh' = {} /\ gesture' = 0 /\ UNCHANGED newest

Submit(c) ==
  LET r == asked + 1
      meant == Meant(c)
      gestures == meant.kind \in Gestures
  IN /\ asked < MaxRequests /\ c \in Commands[r]
     /\ Allowed(meant)
     /\ asked' = r
     /\ command' = [command EXCEPT ![r] = meant]
     /\ place' = [place EXCEPT ![r] = IF gestures THEN "debounce" ELSE "waiting"]
     /\ queue' = IF gestures THEN queue ELSE Append(queue, r)
     /\ fresh' = fresh \union {r}
     /\ newest' = [k \in Channels |->
                     IF meant.kind = "channel" => k = meant.channel THEN r ELSE newest[k]]
     /\ gesture' = IF meant.kind \in Compact THEN r ELSE 0
     /\ UNCHANGED <<bounds, outside, memory, life, view, tx, awaited, needsRefresh, cycle>>

\* Debounces last equally long, so they end in the order they began.
Debounced(r) ==
  /\ place[r] = "debounce"
  /\ \A q \in Requests : place[q] = "debounce" => r <= q
  /\ place' = [place EXCEPT ![r] = "waiting"]
  /\ queue' = Append(queue, r)
  /\ UNCHANGED <<bounds, outside, memory, life, view, claims, tx, awaited, needsRefresh, asked,
                 command, cycle>>

\* The deadline passes before the request has the lock.
Expire(r) ==
  /\ place[r] \in {"debounce", "waiting"}
  /\ place' = [place EXCEPT ![r] = "refused"]
  /\ command' = [command EXCEPT ![r] = None]
  /\ queue' = IF place[r] = "waiting"
                THEN RemoveAt(queue, CHOOSE i \in DOMAIN queue : queue[i] = r)
                ELSE queue
  /\ Distrust
  /\ ok' = FALSE
  /\ UNCHANGED <<bounds, outside, memory, life, data, tx, awaited, needsRefresh, asked, cycle>>

Begin(r, step, before, goal) ==
  tx' = [who |-> r, step |-> step, system |-> None, before |-> before, goal |-> goal,
         phase |-> "plain", frames |-> <<>>, after |-> None, record |-> None,
         cancelled |-> FALSE]

Admissible(r) == r \in fresh /\ Allowed(command[r]) /\ ~Superseded(r)

\* The request has the lock and goes straight on into the client.  An Off reads
\* first; the others need a client that trusts its last reading.
Admit(r) ==
  /\ tx = None /\ queue # <<>> /\ Head(queue) = r /\ r # Poll
  /\ Admissible(r)
  /\ queue' = Tail(queue)
  /\ IF command[r].kind # "off" /\ needsRefresh
       THEN /\ place' = [place EXCEPT ![r] = "refused"]
            /\ command' = [command EXCEPT ![r] = None]
            /\ Distrust /\ ok' = FALSE /\ UNCHANGED tx
       ELSE /\ place' = [place EXCEPT ![r] = "running"]
            /\ IF command[r].kind = "off"
                 THEN Begin(r, "look", None, None)
                 ELSE Begin(r, "guard", data,
                            CASE command[r].kind = "colour" -> command[r].mix
                              [] command[r].kind \in {"on", "dim"} ->
                                   ManualRestore(mem, memError, data)
                              [] OTHER -> None)
            /\ UNCHANGED <<command, fresh, newest, gesture, ok>>
  /\ UNCHANGED <<bounds, outside, memory, life, data, awaited, needsRefresh, asked, cycle>>

TurnAway(r) ==
  /\ tx = None /\ queue # <<>> /\ Head(queue) = r /\ r # Poll
  /\ ~Admissible(r)
  /\ queue' = Tail(queue)
  /\ place' = [place EXCEPT ![r] = "refused"]
  /\ command' = [command EXCEPT ![r] = None]
  /\ UNCHANGED <<bounds, outside, memory, life, view, claims, tx, awaited, needsRefresh,
                 asked, cycle>>

PollDue ==
  /\ life \in {"on", "unloading"}
  /\ ~Contains(queue, Poll) /\ ~(tx # None /\ tx.who = Poll)
  /\ queue' = Append(queue, Poll)
  /\ UNCHANGED <<bounds, outside, memory, life, view, claims, tx, awaited, needsRefresh, requests,
                 cycle>>

AdmitPoll ==
  /\ tx = None /\ queue # <<>> /\ Head(queue) = Poll
  /\ queue' = Tail(queue)
  /\ IF life = "unloading"
       THEN ok' = FALSE /\ UNCHANGED tx
       ELSE Begin(Poll, "look", None, None) /\ UNCHANGED ok
  /\ UNCHANGED <<bounds, outside, memory, life, data, claims, awaited, needsRefresh,
                 requests, cycle>>

-----------------------------------------------------------------------------
(* The transaction that holds the lock.                                      *)

\* What HA shows from now on.
Publish(state) == data' = state /\ ok' = TRUE /\ UNCHANGED cycle

Leave ==
  /\ tx' = None
  /\ place' = IF tx.who = Poll THEN place ELSE [place EXCEPT ![tx.who] = "done"]
  /\ command' = IF tx.who = Poll THEN command ELSE [command EXCEPT ![tx.who] = None]
  /\ life' = IF tx.who = Poll /\ life \in {"setup", "resuming"} THEN "on" ELSE life

Stay == UNCHANGED <<place, command, life>>

\* Faulty Remember: an unreadable store is written like any other.
BlockIgnored(state) ==
  LET record == Observed(mem, state)
  IN IF record = mem
       THEN Publish(state) /\ Leave
       ELSE /\ tx' = [tx EXCEPT !.step = "record", !.system = None,
                                !.after = state, !.record = record]
            /\ Stay /\ UNCHANGED <<view, cycle>>

\* A save of an observation that cannot be made is only logged.
Remember(state) ==
  LET record == Observed(mem, state)
  IN IF record = mem \/ disk = Unreadable
       THEN Publish(state) /\ Leave
       ELSE /\ tx' = [tx EXCEPT !.step = "record", !.system = None,
                                !.after = state, !.record = record]
            /\ Stay /\ UNCHANGED <<view, cycle>>

ReadSystem ==
  /\ tx # None /\ tx.step \in Reads /\ tx.system = None /\ ~tx.cancelled
  /\ tx' = [tx EXCEPT !.system = [mode |-> lamp.mode, profile |-> lamp.profile]]
  /\ UNCHANGED <<bounds, outside, memory, life, view, claims, queue, awaited, needsRefresh,
                 requests, cycle>>

\* The channels are read 0.2 s after the system reply.
Reading == [mode |-> tx.system.mode, profile |-> tx.system.profile, mix |-> lamp.mix]

\* Closing the connection cuts off what was sent on it, or does not.
Disconnect ==
  wire' = IF LateFrames \/ tx = None \/ tx.who = Poll
            THEN wire ELSE [wire EXCEPT ![tx.who] = <<>>]

Has(step) == tx # None /\ tx.step = step /\ tx.system # None /\ ~tx.cancelled

\* Automatic may move the channels; anything else that moved is a conflict.
Drifted(state, seen) ==
  \/ state.mode # seen.mode
  \/ state.profile # seen.profile
  \/ state.mode # "automatic" /\ state.mix # seen.mix

PollReads ==
  /\ Has("look") /\ tx.who = Poll
  /\ needsRefresh' = FALSE
  /\ Remember(Reading)
  /\ UNCHANGED <<bounds, outside, memory, claims, queue, awaited, asked>>

OffConflicts ==
  /\ Has("look") /\ tx.who # Poll
  /\ Drifted(Reading, data)
  /\ needsRefresh' = FALSE
  /\ Distrust /\ ok' = FALSE /\ Leave
  /\ UNCHANGED <<bounds, outside, memory, data, queue, awaited, asked, cycle>>

\* Off reads first, and saves its intent before anything else.
OffLooks ==
  LET state == Reading
  IN /\ Has("look") /\ tx.who # Poll
     /\ ~Drifted(state, data)
     /\ needsRefresh' = FALSE
     /\ Publish(state)
     /\ IF /\ life = "on" /\ tx.who \in fresh
           /\ state.profile \in PowerProfiles /\ state.mode \in Controlled
           /\ disk # Unreadable
          THEN /\ tx' = [tx EXCEPT !.step = "intend", !.system = None, !.before = state,
                                   !.record = Intended(mem, state)]
               /\ Stay
          ELSE Leave
     /\ UNCHANGED <<bounds, outside, memory, claims, queue, awaited, asked>>

\* _prepare_write: a fresh reading equal to the one the command was given in.
Guarded(state) ==
  LET c == command[tx.who]
      power == c.kind \in Power \/ (c.kind \in Compact /\ tx.before.mode = "shutdown")
  IN /\ ~Drifted(state, tx.before)
     /\ state.profile \in IF power THEN PowerProfiles ELSE WriteProfiles
     /\ state.mode \in Controlled \union IF power THEN {"shutdown"} ELSE {}

\* Brightness alone scales the visible mix, or the mix remembered over an Off.
Basis(state) == IF tx.before.mode = "shutdown" THEN tx.goal ELSE state.mix
Dimmed(basis) == {m \in Mixes \ {Zero} : \A k \in Channels : basis[k] = 0 => m[k] = 0}

Pending(kinds) == command[tx.who].kind \in kinds
HasBasis(state) ==
  Pending({"dim"}) /\ tx.phase = "plain" => Basis(state) \notin {None, Zero}

AlreadyOn ==
  /\ Has("guard") /\ Pending({"on", "resume"})
  /\ Guarded(Reading) /\ Reading.mode # "shutdown" /\ tx.phase = "plain"
  /\ needsRefresh' = FALSE
  /\ Remember(Reading)
  /\ UNCHANGED <<bounds, outside, memory, claims, queue, awaited, asked>>

NoBasis ==
  /\ Has("guard") /\ Guarded(Reading) /\ ~HasBasis(Reading)
  /\ needsRefresh' = FALSE
  /\ Distrust
  /\ Remember(Reading)
  /\ UNCHANGED <<bounds, outside, memory, queue, awaited, asked>>

\* Faulty Wakes: a vector is written to the lamp as it is.
NeverWakes(state) == FALSE

\* The lamp is woken before a vector is written to it.
Wakes(state) ==
  /\ tx.phase = "plain" /\ state.mode = "shutdown"
  /\ Pending(Compact) \/ (Pending({"on"}) /\ tx.goal # None)

Goals(state) ==
  LET c == command[tx.who]
  IN CASE c.kind = "channel" -> {[state.mix EXCEPT ![c.channel] = c.level]}
       [] c.kind = "dim" /\ tx.phase = "plain" -> Dimmed(Basis(state))
       [] OTHER -> {tx.goal}

Wanted ==
  LET c == command[tx.who]
  IN CASE c.kind = "mode" -> c.mode
       [] c.kind = "off"  -> "shutdown"
       [] c.kind \in {"on", "resume"} /\ tx.goal = None -> "automatic"
       [] OTHER -> "manual"

Plan(state, goal) ==
  IF Pending({"channel"}) \/ (goal # None /\ ~Wakes(state))
    THEN <<Vector(goal), ToMode("manual")>>
    ELSE <<ToMode(Wanted)>>

Guard ==
  LET state == Reading
  IN /\ Has("guard") /\ Guarded(state) /\ HasBasis(state)
     /\ Pending({"on", "resume"}) /\ tx.phase = "plain" => state.mode = "shutdown"
     /\ \E goal \in Goals(state) :
          tx' = [tx EXCEPT !.step = "send", !.system = None, !.before = state,
                           !.goal = goal, !.frames = Plan(state, goal),
                           !.phase = IF Wakes(state) THEN "wake" ELSE @]
     /\ UNCHANGED <<bounds, outside, memory, life, view, claims, queue, awaited, needsRefresh,
                    requests, cycle>>

\* Faulty Send: a cancelled operation goes on sending.
SendRegardless ==
  /\ tx # None /\ tx.step = "send"
  /\ wire' = [wire EXCEPT ![tx.who] = Append(@, Head(tx.frames))]
  /\ tx' = [tx EXCEPT !.frames = Tail(@),
                      !.step = IF Len(tx.frames) = 1 THEN "confirm" ELSE @]
  /\ UNCHANGED <<bounds, lamp, memory, life, view, claims, queue, awaited, needsRefresh,
                 requests, cycle>>

Send ==
  /\ tx # None /\ tx.step = "send" /\ ~tx.cancelled
  /\ wire' = [wire EXCEPT ![tx.who] = Append(@, Head(tx.frames))]
  /\ tx' = [tx EXCEPT !.frames = Tail(@), 
                      !.step = IF Len(tx.frames) = 1 THEN "confirm" ELSE @]
  /\ UNCHANGED <<bounds, lamp, memory, life, view, claims, queue, awaited, needsRefresh, requests,
                 cycle>>

\* A system reply on the connection that carried the frames: they were handled.
Confirm ==
  /\ tx # None /\ tx.step = "confirm" /\ ~tx.cancelled
  /\ wire[tx.who] = <<>>
  /\ lamp.mode = Wanted /\ lamp.profile = tx.before.profile
  /\ tx' = [tx EXCEPT !.step = "verify"]
  /\ UNCHANGED <<bounds, outside, memory, life, view, claims, queue, awaited, needsRefresh,
                 requests, cycle>>

\* What the independent reading must show.
Reached(state) ==
  /\ state.profile = tx.before.profile
  /\ state.mode = Wanted
  /\ CASE Pending({"mode"}) -> state.mode = "manual" => state.mix = tx.before.mix
       [] Pending({"off"})  -> state.mix \in {tx.before.mix, Zero}
       [] tx.goal = None    -> TRUE
       [] OTHER             -> state.mix = tx.goal

Woken ==
  LET state == Reading
  IN /\ Has("verify") /\ tx.phase = "wake"
     /\ state.profile = tx.before.profile /\ state.mode = "manual"
     /\ state.mix = tx.before.mix
     /\ Pending({"on"}) => state.mix = Zero
     /\ tx' = [tx EXCEPT !.step = "guard", !.system = None, !.before = state,
                         !.phase = "woken"]
     /\ UNCHANGED <<bounds, outside, memory, life, view, claims, queue, awaited, needsRefresh,
                    requests, cycle>>

Verified ==
  /\ Has("verify") /\ ~Pending({"off"})
  /\ tx.phase = "wake" => Pending({"on"})
  /\ Reached(Reading)
  /\ needsRefresh' = FALSE
  /\ Remember(Reading)
  /\ UNCHANGED <<bounds, outside, memory, claims, queue, awaited, asked>>

OffVerified ==
  LET state == Reading
  IN /\ Has("verify") /\ Pending({"off"}) /\ Reached(state)
     /\ needsRefresh' = FALSE
     /\ cycle' = [mode |-> tx.before.mode, mix |-> tx.before.mix, told |-> FALSE]
     /\ IF CanConfirm(mem, state) /\ disk # Unreadable
          THEN /\ tx' = [tx EXCEPT !.step = "record", !.system = None, !.after = state,
                                   !.record = Confirmed(mem, state)]
               /\ Stay /\ UNCHANGED view
          ELSE data' = state /\ ok' = TRUE /\ Leave
     /\ UNCHANGED <<bounds, outside, memory, claims, queue, awaited, asked>>

\* Faulty Fail: Home Assistant goes on showing the last state as current.
StillCurrent ==
  /\ tx # None /\ tx.step \notin Saves
  /\ life # "setup"
  /\ Disconnect
  /\ needsRefresh' = TRUE
  /\ Distrust /\ Leave
  /\ UNCHANGED <<bounds, lamp, memory, view, queue, awaited, asked, cycle>>

\* Any error of the client ends the transaction: a failed or cancelled read or
\* send, an unexpected reply, a conflict, an expired deadline.
Fail ==
  /\ tx # None /\ tx.step \notin Saves
  /\ life # "setup"
  /\ Disconnect
  /\ needsRefresh' = TRUE
  /\ Distrust /\ ok' = FALSE /\ Leave
  /\ UNCHANGED <<bounds, lamp, memory, data, queue, awaited, asked, cycle>>

-----------------------------------------------------------------------------
(* Saves.  HA's store writes atomically, but may swallow a failed write; the  *)
(* fresh load that follows may fail as well.                                  *)

Written(outcome) == disk' = IF outcome = "unwritten" THEN disk ELSE tx.record

SaveVerified ==
  /\ tx # None /\ tx.step \in Saves /\ ~tx.cancelled
  /\ Written("verified")
  /\ mem' = tx.record /\ memError' = FALSE
  /\ IF tx.step = "record"
       THEN Publish(tx.after) /\ Leave
       ELSE /\ UNCHANGED <<view, cycle>>
            /\ IF tx.who \in fresh /\ PowerSupported
                 THEN tx' = [tx EXCEPT !.step = "guard", !.record = None] /\ Stay
                 ELSE Leave
  /\ UNCHANGED <<bounds, outside, claims, queue, awaited, needsRefresh, asked>>

\* The intent is durable, but the deadline of the Off passed meanwhile.
SaveTooLate ==
  /\ tx # None /\ tx.step = "intend" /\ ~tx.cancelled
  /\ Written("verified")
  /\ mem' = tx.record /\ memError' = FALSE
  /\ Distrust /\ ok' = FALSE /\ Leave
  /\ UNCHANGED <<bounds, outside, data, queue, awaited, needsRefresh, asked, cycle>>

\* The Off is told to its user as confirmed but not remembered.
Told == tx.step = "record" /\ tx.who # Poll /\ Pending({"off"})

\* Faulty SaveFails: an Off is sent although its intent could not be saved.
OffAnyway(outcome) ==
  /\ tx # None /\ tx.step \in Saves /\ ~tx.cancelled
  /\ Written(outcome)
  /\ memError' = TRUE
  /\ IF tx.step = "intend"
       THEN /\ tx' = [tx EXCEPT !.step = "guard", !.record = None]
            /\ Stay /\ UNCHANGED <<view, cycle>>
       ELSE Publish(tx.after) /\ Leave
  /\ UNCHANGED <<bounds, outside, mem, claims, queue, awaited, needsRefresh, asked>>

SaveFails(outcome) ==
  /\ tx # None /\ tx.step \in Saves /\ ~tx.cancelled
  /\ Written(outcome)
  /\ memError' = TRUE
  /\ Leave
  /\ IF Told
       THEN data' = tx.after /\ ok' = TRUE /\ cycle' = [cycle EXCEPT !.told = TRUE]
       ELSE IF tx.step = "record" THEN Publish(tx.after) ELSE UNCHANGED <<view, cycle>>
  /\ UNCHANGED <<bounds, outside, mem, claims, queue, awaited, needsRefresh, asked>>

\* Faulty SaveCancelled: the memory is trusted after a save that was cut short.
CancelForgotten(outcome) ==
  /\ tx # None /\ tx.step \in Saves /\ tx.cancelled
  /\ Written(outcome)
  /\ Distrust
  /\ data' = IF tx.step = "record" /\ tx.who # Poll THEN tx.after ELSE data
  /\ ok' = FALSE
  /\ Leave
  /\ UNCHANGED <<bounds, outside, mem, memError, queue, awaited, needsRefresh, asked, cycle>>

\* A write that was begun is settled before the lock is given back.
SaveCancelled(outcome) ==
  /\ tx # None /\ tx.step \in Saves /\ tx.cancelled
  /\ Written(outcome)
  /\ memError' = TRUE
  /\ Distrust
  /\ data' = IF tx.step = "record" /\ tx.who # Poll THEN tx.after ELSE data
  /\ ok' = FALSE
  /\ Leave
  /\ UNCHANGED <<bounds, outside, mem, queue, awaited, needsRefresh, asked, cycle>>

ExpireSave ==
  /\ tx # None /\ tx.step \in Saves /\ tx.who # Poll /\ ~tx.cancelled
  /\ tx' = [tx EXCEPT !.cancelled = TRUE]
  /\ UNCHANGED <<bounds, outside, memory, life, view, claims, queue, awaited, needsRefresh,
                 requests, cycle>>

-----------------------------------------------------------------------------
(* The life of the configuration entry.                                      *)

\* A coordinator that is dropped takes its waiting requests with it.
Forget ==
  /\ life' = "gone"
  /\ mem' = EmptyRecord /\ memError' = FALSE
  /\ data' = None /\ ok' = TRUE
  /\ fresh' = {} /\ newest' = [c \in Channels |-> 0] /\ gesture' = 0
  /\ queue' = <<>> /\ awaited' = {}
  /\ needsRefresh' = TRUE
  /\ command' = [r \in Requests |-> None]
  /\ place' = [r \in Requests |-> IF place[r] \in {"debounce", "waiting", "running"}
                                    THEN "refused" ELSE place[r]]

Setup ==
  /\ life = "gone" /\ setups < MaxSetups
  /\ life' = "setup" /\ setups' = setups + 1
  /\ mem' = IF disk = Unreadable THEN EmptyRecord ELSE disk
  /\ memError' = (disk = Unreadable)
  /\ queue' = <<Poll>>
  /\ UNCHANGED <<outside, disk, view, claims, tx, awaited, needsRefresh, requests, cycle,
                 moves>>

SetupFails ==
  /\ life = "setup" /\ tx # None /\ tx.step \notin Saves
  /\ tx' = None
  /\ Forget
  /\ UNCHANGED <<bounds, outside, disk, asked, cycle>>

\* Faulty Awaited: only a running command is cancelled and waited for.
CommandsOnly == IF tx = None THEN {} ELSE {tx.who} \ {Poll}

Awaited == IF tx = None THEN {} ELSE {tx.who}

PrepareUnload ==
  /\ life = "on"
  /\ life' = "unloading"
  /\ awaited' = Awaited
  /\ tx' = IF Awaited = {} THEN tx ELSE [tx EXCEPT !.cancelled = TRUE]
  /\ Distrust
  /\ UNCHANGED <<bounds, outside, memory, view, queue, needsRefresh, requests, cycle>>

Settled == tx # None => tx.who \notin awaited

Unload ==
  /\ life = "unloading" /\ Settled
  /\ Forget
  /\ UNCHANGED <<bounds, outside, disk, tx, asked, cycle>>

UnloadFails ==
  /\ life = "unloading" /\ Settled
  /\ life' = "resuming"
  /\ awaited' = {}
  /\ queue' = IF Contains(queue, Poll) THEN queue ELSE Append(queue, Poll)
  /\ UNCHANGED <<bounds, outside, memory, view, claims, tx, needsRefresh, requests, cycle>>

\* Home Assistant is killed; a save in flight has happened or not.
Crash ==
  /\ life # "gone"
  /\ disk' \in {disk} \union IF tx # None /\ tx.step \in Saves THEN {tx.record} ELSE {}
  /\ Disconnect /\ tx' = None
  /\ Forget
  /\ UNCHANGED <<bounds, lamp, asked, cycle>>

RemoveEntry ==
  /\ life = "gone" /\ tx = None
  /\ disk' = EmptyRecord /\ cycle' = None
  /\ UNCHANGED <<bounds, outside, mem, memError, life, view, claims, queue, tx, awaited,
                 needsRefresh, requests>>

-----------------------------------------------------------------------------

AnyRequest ==
  \/ \E c \in UNION {Commands[r] : r \in Requests} : Submit(c)
  \/ \E r \in Requests : Debounced(r) \/ Expire(r) \/ Admit(r) \/ TurnAway(r)

Transaction ==
  \/ ReadSystem \/ PollReads \/ OffConflicts \/ OffLooks
  \/ AlreadyOn \/ NoBasis \/ Guard \/ Send \/ Confirm
  \/ Woken \/ Verified \/ OffVerified \/ Fail

Save ==
  \/ SaveVerified \/ SaveTooLate
  \/ \E outcome \in {"unverified", "unwritten"} : SaveFails(outcome) \/ SaveCancelled(outcome)

Next ==
  \/ LampMoves
  \/ \E r \in Requests : Handle(r) \/ Lose(r)
  \/ AnyRequest
  \/ PollDue \/ AdmitPoll
  \/ Transaction \/ Save \/ ExpireSave
  \/ Setup \/ SetupFails \/ PrepareUnload \/ Unload \/ UnloadFails \/ Crash \/ RemoveEntry

\* Faulty Deadline: it does not cover the client.
DeadlineOfWaiting(r) == Expire(r)

\* asyncio fires the deadline of a request that is still waiting, and ends its I/O.
Deadline(r) ==
  \/ Expire(r)
  \/ tx # None /\ tx.who = r /\ (Fail \/ ExpireSave)

PollTimeout == tx # None /\ tx.who = Poll /\ (Fail \/ SetupFails)

\* The event loop ends sleeps and deadlines, gives a free lock to the task that has
\* waited longest, and goes on after a write has settled; the client bounds its reads.
Fairness ==
  /\ \A r \in Requests : WF_vars(Deadline(r)) /\ WF_vars(Debounced(r))
  /\ WF_vars(AdmitPoll \/ \E r \in Requests : Admit(r) \/ TurnAway(r))
  /\ WF_vars(Save)
  /\ WF_vars(PollTimeout)
  /\ WF_vars(Unload \/ UnloadFails)

Spec == Init /\ [][Next]_vars
FairSpec == Spec /\ Fairness

-----------------------------------------------------------------------------
(* Properties.                                                               *)

Places == {"free", "debounce", "waiting", "running", "done", "refused"}

\* Type invariant of the coordinator, the client, the memory and the lamp.
TypeOK ==
  /\ lamp \in States
  /\ wire \in [Requests -> Seq(Frames)]
  /\ disk \in Records \union {Unreadable}
  /\ mem \in Records /\ memError \in BOOLEAN
  /\ life \in {"gone", "setup", "on", "unloading", "resuming"}
  /\ data \in States \union {None} /\ ok \in BOOLEAN
  /\ fresh \subseteq Requests
  /\ newest \in [Channels -> 0..MaxRequests] /\ gesture \in 0..MaxRequests
  /\ queue \in Seq(Actors) /\ awaited \subseteq Actors
  /\ tx \in Transactions \union {None}
  /\ needsRefresh \in BOOLEAN
  /\ asked \in 0..MaxRequests
  /\ command \in [Requests -> CommandForms \union {None}]
  /\ place \in [Requests -> Places]
  /\ cycle \in Cycles \union {None}

Running(kinds) == tx # None /\ tx.who # Poll /\ Pending(kinds)

\* While a software Off is on its way, the store on disk holds its unconfirmed
\* origin: the mode the lamp was in and, from a lit Manual lamp, its mix
\* (async_turn_off saves before client.turn_off sends).
IntentBeforeOff ==
  Running({"off"}) /\ tx.step \in {"send", "confirm", "verify"} =>
    /\ disk # Unreadable /\ disk.origin # None
    /\ disk.origin.mode = tx.before.mode
    /\ ~disk.origin.confirmed
    /\ tx.before.mode = "manual" /\ tx.before.mix # Zero =>
         disk.origin.manual = tx.before.mix

Restoring == Running({"on"}) /\ tx.phase # "plain"

\* On restores a mix only after an Off from Manual that the lamp confirmed, and
\* then the mix of the latest such Off, whatever saves, crashes, reloads and other
\* controllers did in between (manual_restore).
RestoresLatestOff ==
  Restoring => /\ cycle # None
               /\ cycle.mode = "manual"
               /\ cycle.mix # Zero => tx.goal = cycle.mix

\* The error flag tells the truth: a memory without it is the one on disk, so
\* nothing that On would restore can be lost by a restart (_save).
TrustedMemoryIsDurable ==
  life # "gone" /\ ~memError => mem = disk

\* A memory that On would trust does not outlive a sight of the lamp being On
\* (_observed_record: an external On invalidates a remembered Off).
SightOfOnEndsOff ==
  /\ life = "on" /\ tx = None /\ ok /\ data # None
  /\ data.mode \in Controlled /\ ~memError
  => mem.origin = None \/ ~mem.origin.confirmed

\* A request that a later one has overtaken will never be admitted: sliders,
\* colours, mode and power choices reach the lamp in the order they were made
\* (generations, epochs and the fair lock).
OvertakenNeverAdmitted ==
  \A r, q \in Requests :
    /\ r < q /\ place[q] \in {"running", "done"}
    /\ place[r] \in {"debounce", "waiting"}
    => r \notin fresh \/ Superseded(r)

\* Whenever the coordinator would admit a command, the client would not refuse
\* it for want of a reading (_needs_refresh against last_update_success).
AdmittedMeansRefreshed ==
  Current /\ tx = None => ~needsRefresh

\* No task of an unloaded coordinator still reads, sends or saves
\* (async_prepare_unload gathers what it cancels).
UnloadSettles == life = "gone" => tx = None

Sends(r) == Len(wire'[r]) > Len(wire[r])

\* From the beginning of an unload on, nothing is sent to the lamp, also when the
\* unload fails and the entry goes on.
SilentWhileUnloading ==
  [][\A r \in Requests : Sends(r) => life = "on"]_vars

\* A record this release cannot interpret is never overwritten by a save; only
\* removing the entry deletes it (_write_blocked).
UnreadableKept ==
  [][disk = Unreadable /\ disk' # disk => life = "gone"]_vars

\* If nobody else moves the lamp and no frame arrives late, then what Home
\* Assistant shows as current is what the lamp does.
PictureIsTrue ==
  Current /\ tx = None =>
    /\ data.mode = lamp.mode /\ data.profile = lamp.profile
    /\ data.mode # "automatic" => data.mix = lamp.mix

\* If nobody else moves the lamp and no frame arrives late, then a channel vector
\* never meets a lamp that is Off (client.turn_on, set_compact wake it first).
NoVectorWhileOff ==
  [][\A r \in Requests :
       /\ wire[r] # <<>> /\ wire'[r] = Tail(wire[r])
       /\ Head(wire[r]).op = "vector"
       => lamp.mode # "shutdown"]_vars

\* Every request ends, since its three-second deadline covers the debounce, the lock,
\* the saves and the client (_command_window); and an unload is never stuck on the
\* tasks it waits for, nor a failed unload on the reading it resumes with
\* (async_prepare_unload, async_resume_after_failed_unload).
RequestsEnd ==
  /\ \A r \in Requests :
       place[r] \in {"debounce", "waiting", "running"} ~> place[r] \in {"done", "refused"}
  /\ life \in {"unloading", "resuming"} ~> life \in {"gone", "on"}

\* What the user is told when the confirmation of an Off could not be saved: "On
\* will resume the lamp's stored schedule" (async_turn_off).  Not so after a restart:
\* the confirmation may be on disk, and the flag that distrusts it is not.  No run
\* checks it; as an invariant of LampPower.cfg TLC refutes it.
ToldScheduleKept == Restoring => ~cycle.told
=============================================================================
