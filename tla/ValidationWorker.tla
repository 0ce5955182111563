----------------------------- MODULE ValidationWorker -----------------------------
(***************************************************************************)
(* The native validation workers of tooling/: the channel worker of        *)
(* aquarius_validation.py, the optical and the two Shutdown workers of     *)
(* aquarius_task004_validation.py, and the dark optical worker.  Each      *)
(* reads a baseline, persists its intent, disturbs the lamp for seconds    *)
(* and puts it back, while other controllers, lost connections, deadlines  *)
(* and stop signals interfere.                                             *)
(*                                                                         *)
(* They share the wire operations: a read (connect, system query, channel  *)
(* query) and a command (channel frame, mode frame, quarantines, queried   *)
(* barrier, fresh read).  pc is the place inside an operation, ret the     *)
(* place of the worker's script that gets its result in `got'.  A deadline *)
(* may be over at every place that looks at one, a socket may fail at      *)
(* every use.  Channel vectors are the original one, the one the           *)
(* experiment declares, all zero, and any other.                           *)
(***************************************************************************)
EXTENDS Naturals, Sequences, FiniteSets

CONSTANTS
  Workers,        \* the workers of an instance, a subset of AllWorkers
  LampKinds,      \* how the lamp may behave in Shutdown, a subset of AllKinds
  ReadAttempts,   \* 3: RECOVERY_READ_ATTEMPTS
  MaxMoves,       \* bound: what other controllers do
  MaxFaults       \* bound: failed sockets, malformed replies, deadlines

AllWorkers == {"channel", "optical", "off_automatic", "off_manual", "dark"}
\* Shutdown clears the vector and Manual keeps that; it keeps it; it clears
\* it and Manual brings the earlier vector back.
AllKinds == {"clears", "retains", "returns"}

ASSUME WorkersAssumption ==
  /\ Workers \subseteq AllWorkers /\ LampKinds \subseteq AllKinds
  /\ ReadAttempts \in Nat \ {0}
  /\ MaxMoves \in Nat /\ MaxFaults \in Nat

None == "none"
NoState == [mode |-> None, ch |-> None]
Automatic == "automatic"
Manual == "manual"
Shutdown == "shutdown"
Modes == {Automatic, Manual, Shutdown}
Vectors == {"original", "changed", "zero", "other"}
States == [mode : Modes, ch : Vectors]
Frames == Modes \cup Vectors            \* mode frames and channel frames
Programmed == {"original", "other"}     \* outputs of the stored program

VARIABLES
  worker, kind,   \* chosen at the start
  \* The lamp and the network:
  lamp, wire,
  \* The running operation:
  pc, ret, call, want, tries, seen, got,
  may,            \* history: what the frames declared so far can make the lamp show
  \* The worker's memory:
  baseline, excursion, cleaning, progress, phase, owned, unsafe, interrupted,
  \* The report:
  experiment, recovery, status, intent,
  \* History: frames given to the network, proof of another hand or a broken
  \* reply, whether a stop request or a deadline ended the read that gave it,
  \* whether others left the lamp alone since the last system reply, and what
  \* went wrong around the worker.
  sent, alarm, hidden, still, moves, faults

setting == <<worker, kind>>
world == <<lamp, wire>>
flow == <<pc, ret, want, tries>>
memory == <<baseline, excursion, owned>>
command == <<call, progress, phase, may>>
flags == <<cleaning, unsafe, experiment, recovery, hidden>>
report == <<status, intent>>
history == <<sent, alarm>>
vars == <<setting, world, flow, seen, got, memory, command, flags, interrupted,
          report, history, still, moves, faults>>

TaskWorkers == AllWorkers \ {"channel"}             \* Task004ValidationWorker
OffWorkers == {"off_automatic", "off_manual"}       \* ShutdownValidationWorker
\* Workers that may write over the declared vector whoever has written it.
Lenient == worker \in {"channel", "optical"}
OriginalMode == CASE worker = "off_automatic" -> {Automatic}
                  [] worker \in {"off_manual", "dark"} -> {Manual}
                  [] OTHER -> {Automatic, Manual}

Init ==
  /\ worker \in Workers /\ kind \in LampKinds
  /\ Lenient => kind = "clears"              \* bound: they never send Shutdown
  /\ lamp \in [mode : OriginalMode,
               ch : {"original"} \cup IF worker = "off_manual" THEN {"zero"} ELSE {}]
  /\ wire = <<>>
  /\ pc = "connect" /\ ret = "second" /\ want = None /\ tries = 0
  /\ seen = None /\ got = NoState
  /\ call = [ch |-> None, mode |-> Manual] /\ progress = "none" /\ phase = "original"
  /\ baseline = NoState /\ excursion = FALSE /\ owned = NoState
  /\ cleaning = FALSE /\ unsafe = FALSE /\ interrupted = FALSE
  /\ experiment = "NOT_TESTED" /\ recovery = "NOT_REQUIRED"
  /\ status = "RUNNING" /\ intent = FALSE
  /\ sent = <<>> /\ may = [modes |-> {}, chs |-> {}] /\ alarm = FALSE /\ hidden = FALSE
  /\ still = TRUE /\ moves = 0 /\ faults = 0

-----------------------------------------------------------------------------
(* The lamp, its program and other controllers. *)

\* What a frame makes of a lamp.
Obeyed(frame) ==
  IF frame \in Vectors THEN {[lamp EXCEPT !.ch = frame]}
  ELSE {[mode |-> frame, ch |-> ch] : ch \in
          CASE frame = Automatic -> Programmed
            [] frame = Shutdown -> IF kind = "retains" THEN {lamp.ch} ELSE {"zero"}
            [] frame = Manual ->
                 IF lamp.mode = Shutdown /\ kind = "returns" THEN {baseline.ch} ELSE {lamp.ch}}

\* The lamp obeys or, as a fault, ignores the next frame of a connection.
Obey(frame) ==
  \/ lamp' \in Obeyed(frame) /\ UNCHANGED faults
  \/ faults < MaxFaults /\ faults' = faults + 1 /\ UNCHANGED lamp

Handle ==
  /\ wire # <<>> /\ Obey(Head(wire)) /\ wire' = Tail(wire)
  /\ UNCHANGED <<setting, flow, seen, got, memory, command, flags, interrupted,
                 report, history, still, moves>>

Program ==
  /\ lamp.mode = Automatic
  /\ lamp' \in [mode : {Automatic}, ch : Programmed] \ {lamp}
  /\ UNCHANGED <<setting, wire, flow, seen, got, memory, command, flags,
                 interrupted, report, history, still, moves, faults>>

Rival ==
  /\ moves < MaxMoves /\ moves' = moves + 1
  /\ status = "RUNNING"
  /\ lamp' \in States \ {lamp} /\ still' = FALSE
  /\ UNCHANGED <<setting, wire, flow, seen, got, memory, command, flags,
                 interrupted, report, history, faults>>

\* request_stop: SIGINT, SIGTERM and SIGHUP only set a flag.
Signal ==
  /\ status = "RUNNING" /\ ~interrupted
  /\ interrupted' = TRUE
  /\ UNCHANGED <<setting, world, flow, seen, got, memory, command, flags, report,
                 history, still, moves, faults>>

-----------------------------------------------------------------------------
(* How a step of the worker goes on or fails. *)

Running == pc \notin {"finish", "done"}

\* _check_stop: at these places a stop request is looked at first; a dark
\* transaction looks at it only before it starts and after its barrier.
Sending == {"send_vector", "drain_vector", "send_mode", "drain_mode", "barrier"}
\* Faulty Stopping: dark looks at it in the middle of a transaction, too.
StoppingAnywhere == interrupted /\ ~cleaning

Stopping ==
  /\ interrupted /\ ~cleaning
  /\ pc \notin {"channels"}
  /\ IF worker = "dark" THEN pc \notin Sending
     ELSE pc # "send_vector" /\ (pc = "send_mode" => call.ch # None)

\* Which exceptions keep the worker from writing again: the channel worker's
\* never do, the others remember UnsafeState, and a dark transaction also
\* whatever ends it before its processing interval is over.
\* Faulty Latches: only broken transactions are remembered.
LatchesTransactions(error) == worker = "dark" /\ pc \in Sending \ {"barrier"}

Latches(error) ==
  \/ worker # "channel" /\ error = "unsafe"
  \/ worker = "dark" /\ pc \in Sending \ {"barrier"}

\* An exception ends the experiment and starts the cleanup, ends the cleanup,
\* or ends a run that has not started its excursion.
Raise(error) ==
  /\ UNCHANGED <<ret, want, tries>>
  /\ unsafe' = (unsafe \/ Latches(error))
  /\ hidden' = (hidden \/ (alarm /\ ~cleaning /\ error \in {"stop", "deadline"}))
  /\ \/ /\ cleaning
        /\ pc' = "finish" /\ recovery' = "FAIL"
        /\ UNCHANGED <<cleaning, experiment>>
     \/ /\ ~cleaning /\ excursion
        /\ pc' = "recover" /\ cleaning' = TRUE /\ experiment' = "FAIL"
        /\ UNCHANGED recovery
     \/ /\ ~cleaning /\ ~excursion
        /\ pc' = "finish" /\ recovery' = "NOT_REQUIRED"
        /\ UNCHANGED <<cleaning, experiment>>

Fault == faults < MaxFaults /\ faults' = faults + 1

Goto(place) == pc' = place /\ UNCHANGED <<ret, want, tries, flags>>

\* A fresh read whose failure is final.
ReadFor(place) ==
  /\ pc' = "connect" /\ ret' = place /\ tries' = 0 /\ want' = None
  /\ UNCHANGED flags

\* _fresh_recovery_read: up to ReadAttempts fresh reads; `mode' is expected.
RecoveryReadFor(place, mode) ==
  /\ pc' = "connect" /\ ret' = place /\ tries' = 1 /\ want' = mode
  /\ UNCHANGED flags

\* The vectors that a mode command may leave.
Consequences(mode) ==
  CASE mode = Automatic -> Programmed
    [] mode = Shutdown -> {"zero"}
    [] mode = Manual -> {baseline.ch}

\* The first lines of _command, _send_mode and _transaction: no command begins
\* unless its deadline leaves time to send, verify and, where more has to be
\* restored, to do that.
Command(ch, mode, name, place) ==
  \/ Fault /\ Raise("deadline") /\ UNCHANGED command
  \/ /\ call' = [ch |-> ch, mode |-> mode] /\ phase' = name /\ progress' = "sending"
     /\ may' = [modes |-> may.modes \cup {mode},
                chs |-> may.chs \cup (IF ch = None THEN {} ELSE {ch}) \cup Consequences(mode)]
     /\ pc' = IF ch = None THEN "send_mode" ELSE "send_vector"
     /\ ret' = place
     /\ UNCHANGED <<want, tries, flags, faults>>

-----------------------------------------------------------------------------
(* Reads. *)

\* _check_stop raises StopRequested.
Stop ==
  /\ Running /\ Stopping
  /\ Raise("stop")
  /\ UNCHANGED <<setting, world, seen, got, memory, command, interrupted, report,
                 history, still, moves, faults>>

\* What the declared frames of this run, handled or not, and the program can show.
Explained(mode, ch) ==
  /\ mode = None \/ mode \in may.modes
  /\ ch = None \/ ch \in may.chs

\* The channel worker judges afresh when its cleanup begins.
Judging == excursion /\ (worker = "channel" => cleaning)
Suspicious(mode, ch) == Judging /\ ~Explained(mode, ch)

\* read_state and _read refuse a mode outside these.
ReadableModes ==
  CASE worker \in {"channel", "optical"} -> {Automatic, Manual}
    [] worker \in OffWorkers -> Modes
    [] worker = "dark" -> {call.mode}

\* A system reply was contradictory although the rest of the read was lost.
OpticalContradiction == worker = "optical" /\ excursion /\ ~cleaning /\ seen # Manual
OffContradiction ==
  /\ worker \in OffWorkers /\ phase # "original"
  /\ seen \notin {Shutdown} \cup IF cleaning THEN OriginalMode ELSE {}
DarkContradiction == worker = "dark" /\ seen \notin ReadableModes
Contradicts ==
  /\ seen # None
  /\ \/ want # None /\ seen # want
     \/ OpticalContradiction \/ OffContradiction \/ DarkContradiction

\* OSError or EOFError in a read: cleanup tries again, but never after a
\* contradiction.
ReadFails ==
  IF Contradicts THEN Raise("unsafe")
  ELSE IF tries = 0 \/ tries = ReadAttempts THEN Raise("transport")
  ELSE /\ tries' = tries + 1 /\ pc' = "connect"
       /\ UNCHANGED <<ret, want, flags>>

\* _connect closes the old connection; what the lamp has not handled by then
\* is lost.
Connect ==
  /\ pc = "connect" /\ ~Stopping
  /\ wire' = <<>>
  /\ seen' = None /\ got' = NoState
  /\ faults' = faults + (IF wire = <<>> THEN 0 ELSE 1)
  /\ faults' <= MaxFaults
  /\ Goto("system")
  /\ UNCHANGED <<setting, lamp, memory, command, interrupted, report, history, still, moves>>

\* Replies come in order, so everything sent before on this connection has been
\* handled or ignored.  A malformed reply is as bad as a contradictory one.
ReadSystem ==
  /\ pc = "system" /\ ~Stopping /\ wire = <<>>
  /\ seen' = lamp.mode /\ still' = TRUE
  /\ alarm' = (alarm \/ Suspicious(lamp.mode, None))
  /\ IF worker # "dark" /\ lamp.mode \notin ReadableModes
     THEN Raise("unsafe") ELSE Goto("channels")
  /\ UNCHANGED <<setting, world, got, memory, command, interrupted, report, sent,
                 moves, faults>>

\* The complete state; dark checks its mode here, a recovery read the expected one.
ReadChannels ==
  /\ pc = "channels"
  /\ got' = [mode |-> seen, ch |-> lamp.ch]
  /\ alarm' = (alarm \/ Suspicious(None, lamp.ch))
  /\ IF \/ worker = "dark" /\ seen \notin ReadableModes
        \/ want # None /\ seen # want
     THEN Raise("unsafe") ELSE Goto(ret)
  /\ UNCHANGED <<setting, world, seen, memory, command, interrupted, report, sent,
                 still, moves, faults>>

ReadFault ==
  /\ pc \in {"connect", "system", "channels"} /\ ~Stopping
  /\ Fault
  /\ \/ ReadFails /\ UNCHANGED alarm
     \/ pc # "connect" /\ Raise("unsafe") /\ alarm' = (alarm \/ Judging)
     \/ Raise("deadline") /\ UNCHANGED alarm
  /\ UNCHANGED <<setting, world, seen, got, memory, command, interrupted, report, sent, still, moves>>

-----------------------------------------------------------------------------
(* Commands. *)

Give(frame) ==
  /\ wire' = Append(wire, frame)
  /\ sent' = Append(sent, frame)
  /\ UNCHANGED <<lamp, alarm>>

\* Faulty Send: a frame that may have been sent is sent again.
SendAgain(frame, next) ==
  \/ Give(frame) /\ Goto(next) /\ UNCHANGED faults
  \/ Give(frame) /\ Fault /\ Goto(pc)

\* session.send: the frame is given to the network, or an error leaves open
\* whether it was, or the deadline is over before it is tried.
Send(frame, next) ==
  \/ Give(frame) /\ Goto(next) /\ UNCHANGED faults
  \/ Give(frame) /\ Fault /\ Raise("transport")
  \/ Fault /\ Raise("deadline") /\ UNCHANGED <<world, history>>

SendVector ==
  /\ pc = "send_vector" /\ ~Stopping
  /\ Send(call.ch, "drain_vector")
  /\ UNCHANGED <<setting, seen, got, memory, command, interrupted, report, still, moves>>

SendMode ==
  /\ pc = "send_mode" /\ ~Stopping
  /\ Send(call.mode, "drain_mode")
  /\ UNCHANGED <<setting, seen, got, memory, command, interrupted, report, still, moves>>

\* quarantine: only echoes and acknowledgements may come for a fixed interval.
Drain ==
  /\ pc \in {"drain_vector", "drain_mode"} /\ ~Stopping
  /\ \/ /\ Goto(IF pc = "drain_vector" THEN "send_mode" ELSE "barrier")
        /\ progress' = IF pc = "drain_mode" THEN "boundary" ELSE progress
        /\ UNCHANGED <<alarm, faults>>
     \/ /\ Fault /\ UNCHANGED progress
        /\ \/ Raise("transport") /\ UNCHANGED alarm
           \/ Raise("deadline") /\ UNCHANGED alarm
           \/ Raise("unsafe") /\ alarm' = (alarm \/ Judging)
  /\ UNCHANGED <<setting, world, seen, got, memory, call, phase, may, interrupted, report,
                 sent, still, moves>>

\* After the barrier: a fresh read, with more attempts when cleaning up.
Readback ==
  /\ pc' = "connect"
  /\ tries' = (IF cleaning THEN 1 ELSE 0)
  /\ want' = (IF cleaning THEN call.mode ELSE None)
  /\ UNCHANGED <<ret, flags>>

\* The system query on the connection of the command.
Barrier ==
  /\ pc = "barrier" /\ ~Stopping /\ wire = <<>>
  /\ alarm' = (alarm \/ Suspicious(lamp.mode, None))
  /\ IF lamp.mode = call.mode
     THEN Readback /\ progress' = "barrier"
     ELSE Raise("unsafe") /\ UNCHANGED progress
  /\ UNCHANGED <<setting, world, seen, got, memory, call, phase, may, interrupted, report,
                 sent, still, moves, faults>>

\* A lost barrier reply ends an experiment; cleanup may confirm the command,
\* which is not sent again, by a fresh read.
BarrierFault ==
  /\ pc = "barrier" /\ ~Stopping
  /\ Fault
  /\ \/ (IF cleaning THEN Readback ELSE Raise("transport")) /\ UNCHANGED alarm
     \/ Raise("deadline") /\ UNCHANGED alarm
     \/ Raise("unsafe") /\ alarm' = (alarm \/ Judging)
  /\ UNCHANGED <<setting, world, seen, got, memory, command, interrupted, report, sent, still, moves>>

-----------------------------------------------------------------------------
(* The beginning of every run. *)

At(place) == pc = place /\ ~Stopping
Kept == UNCHANGED <<setting, world, seen, got, interrupted, still, moves>>

\* The first complete read is remembered and repeated on the same connection.
Second ==
  /\ At("second")
  /\ baseline' = got /\ pc' = "system" /\ ret' = "intent"
  /\ UNCHANGED <<want, tries, flags, excursion, owned, command, report, history, faults>>
  /\ Kept

\* Two equal reads of the mode and vector the configuration names; then the
\* intent is made durable.  When that fails, no report is written any more.
Intent ==
  /\ At("intent")
  /\ IF got # baseline \/ got.mode \notin OriginalMode
     THEN Raise("unsafe") /\ UNCHANGED <<intent, faults>>
     ELSE \/ /\ intent' = TRUE
             /\ IF worker \in TaskWorkers THEN ReadFor("admit") ELSE Goto("admit")
             /\ UNCHANGED faults
          \/ Fault /\ Raise("report") /\ UNCHANGED intent
  /\ UNCHANGED <<memory, command, status, history>>
  /\ Kept

\* Task 004 workers look again before the excursion starts.
Admit ==
  /\ At("admit")
  /\ IF got # baseline
     THEN Raise("unsafe") /\ UNCHANGED <<excursion, may>>
     ELSE /\ Goto("experiment") /\ excursion' = TRUE
          /\ may' = [modes |-> {got.mode} \cup IF Lenient THEN {Manual} ELSE {},
                     chs |-> {got.ch} \cup (IF Lenient THEN {"changed"} ELSE {})
                             \cup IF got.mode = Automatic THEN Programmed ELSE {}]
  /\ UNCHANGED <<baseline, owned, call, progress, phase, report, history, faults>>
  /\ Kept

-----------------------------------------------------------------------------
(* The experiments. *)

\* channel and optical write the changed vector in Manual (optical only within
\* its range), off writes Shutdown, dark writes Shutdown, Manual and the vector.
TryChannel == worker = "channel" /\ Command("changed", Manual, phase, "experimented")
TryOptical ==
  /\ worker = "optical"
  /\ \/ Command("changed", Manual, phase, "experimented")
     \/ Raise("unsafe") /\ UNCHANGED <<command, faults>>
TryOff == worker \in OffWorkers /\ Command(None, Shutdown, "off", "experimented")
TryDark == worker = "dark" /\ Command(None, Shutdown, "off", "darkened")
Experiment ==
  /\ At("experiment")
  /\ TryChannel \/ TryOptical \/ TryOff \/ TryDark
  /\ UNCHANGED <<memory, report, history>>
  /\ Kept

\* _expect and its like: a confirmed state, or UnsafeState.
Confirmed(mode, chs) == got.mode = mode /\ got.ch \in chs

\* The end of an experiment; optical holds its sample before that.
Succeed ==
  /\ pc' = "recover" /\ cleaning' = TRUE /\ experiment' = "PASS"
  /\ UNCHANGED <<ret, want, tries, unsafe, recovery, hidden>>

ChannelChanged ==
  /\ At("experimented") /\ worker = "channel"
  /\ IF Confirmed(Manual, {"changed"}) THEN Succeed ELSE Raise("unsafe")
  /\ UNCHANGED <<memory, command, report, history, faults>>
  /\ Kept

OpticalChanged ==
  /\ At("experimented") /\ worker = "optical"
  /\ IF Confirmed(Manual, {"changed"}) THEN Goto("hold") ELSE Raise("unsafe")
  /\ UNCHANGED <<memory, command, report, history, faults>>
  /\ Kept

SwitchedOff ==
  /\ At("experimented") /\ worker \in OffWorkers
  /\ IF Confirmed(Shutdown, {baseline.ch, "zero"})
     THEN Succeed /\ owned' = got
     ELSE Raise("unsafe") /\ UNCHANGED owned
  /\ UNCHANGED <<baseline, excursion, command, report, history, faults>>
  /\ Kept

Darkened ==
  /\ At("darkened")
  /\ IF Confirmed(Shutdown, {"zero"})
     THEN Command(None, Manual, "manual", "resumed_dark")
     ELSE Raise("unsafe") /\ UNCHANGED <<command, faults>>
  /\ UNCHANGED <<memory, report, history>>
  /\ Kept

ResumedDark ==
  /\ At("resumed_dark")
  /\ IF Confirmed(Manual, {"zero"}) THEN ReadFor("sample_guard") ELSE Raise("unsafe")
  /\ UNCHANGED <<memory, command, report, history, faults>>
  /\ Kept

SampleGuard ==
  /\ At("sample_guard")
  /\ IF Confirmed(Manual, {"zero"})
     THEN Command("changed", Manual, "sample", "sampled")
     ELSE Raise("unsafe") /\ UNCHANGED <<command, faults>>
  /\ UNCHANGED <<memory, report, history>>
  /\ Kept

\* The sample was ignored (zero), or is confirmed, or is contradicted.
Sampled ==
  /\ At("sampled")
  /\ IF got.ch = "changed" THEN Goto("hold") /\ phase' = "sampled"
     ELSE Raise(IF got.ch = "zero" THEN "unconfirmed" ELSE "unsafe") /\ UNCHANGED phase
  /\ UNCHANGED <<memory, call, progress, may, report, history, faults>>
  /\ Kept

\* The hold of the sample, cut short by a stop request or a deadline.
Hold ==
  /\ At("hold")
  /\ \/ Succeed /\ UNCHANGED faults
     \/ Fault /\ Raise("deadline")
  /\ UNCHANGED <<memory, command, report, history>>
  /\ Kept

-----------------------------------------------------------------------------
(* The cleanup. *)

\* The mode in which the first read of the cleanup must find the lamp.
GuardMode ==
  CASE worker \in {"channel", "optical"} ->
         IF worker = "optical" /\ unsafe THEN None
         ELSE IF baseline.mode = Manual \/ experiment = "PASS" THEN Manual ELSE None
    [] worker \in OffWorkers -> IF owned # NoState THEN Shutdown ELSE None
    [] worker = "dark" -> call.mode

Recover ==
  /\ pc = "recover"
  /\ RecoveryReadFor("guarded", GuardMode)
  /\ UNCHANGED <<memory, command, report, history, faults>>
  /\ Kept

\* Recovery is confirmed by what was just read, unless that took too long.
Recovered ==
  /\ pc' = "finish" /\ UNCHANGED <<ret, want, tries, cleaning, unsafe, experiment, hidden>>
  /\ \/ recovery' = "PASS" /\ UNCHANGED faults
     \/ Fault /\ recovery' = "FAIL"

Refuse == Raise("unsafe") /\ UNCHANGED <<command, faults>>

\* ValidationWorker._recover: only the baseline and the declared change may be
\* written over, and an active program is left alone.
GuardedChannel ==
  /\ At("guarded") /\ worker \in {"channel", "optical"}
  /\ IF unsafe THEN Refuse
     ELSE IF got = baseline THEN Recovered /\ UNCHANGED command
     ELSE IF got.ch \notin {baseline.ch, "changed"} THEN Refuse
     ELSE IF got.ch # baseline.ch
          THEN Command(baseline.ch, Manual, phase, "vector_restored")
     ELSE Command(None, baseline.mode, phase, "mode_restored")
  /\ UNCHANGED <<memory, report, history>>
  /\ Kept

\* Faulty VectorRestored: the barrier's confirmation of the mode is enough.
VectorAssumed ==
  /\ At("vector_restored")
  /\ IF baseline.mode = Manual THEN Recovered /\ UNCHANGED command
     ELSE Command(None, baseline.mode, phase, "mode_restored")
  /\ UNCHANGED <<memory, report, history>>
  /\ Kept

VectorRestored ==
  /\ At("vector_restored")
  /\ IF ~Confirmed(Manual, {baseline.ch}) THEN Refuse
     ELSE IF baseline.mode = Manual THEN Recovered /\ UNCHANGED command
     ELSE Command(None, baseline.mode, phase, "mode_restored")
  /\ UNCHANGED <<memory, report, history>>
  /\ Kept

ModeRestored ==
  /\ At("mode_restored")
  /\ IF got.mode # baseline.mode THEN Refuse ELSE Recovered /\ UNCHANGED command
  /\ UNCHANGED <<memory, report, history>>
  /\ Kept

\* ShutdownValidationWorker._recover.
GuardedOff ==
  /\ At("guarded") /\ worker \in OffWorkers
  /\ IF unsafe THEN Refuse
     ELSE IF got = baseline /\ owned = NoState THEN Recovered /\ UNCHANGED command
     ELSE IF \/ phase # "off" \/ got.mode # Shutdown
             \/ got.ch \notin {baseline.ch, "zero"}
             \/ owned # NoState /\ got # owned
          THEN Refuse
     ELSE Command(None, baseline.mode, IF got.ch = "zero" THEN "zero_off" ELSE "off",
                  "mode_resumed")
  /\ UNCHANGED <<memory, report, history>>
  /\ Kept

\* In Manual an all-zero vector is replaced only after a queried barrier of the
\* Manual command and one more read.
ModeResumed ==
  /\ At("mode_resumed")
  /\ IF got.mode # baseline.mode THEN Refuse
     ELSE IF baseline.mode = Automatic \/ got.ch = baseline.ch
          THEN Recovered /\ UNCHANGED command
     ELSE IF phase # "zero_off" \/ got.ch # "zero" \/ progress # "barrier" THEN Refuse
     ELSE RecoveryReadFor("zero_guard", Manual) /\ UNCHANGED <<command, faults>>
  /\ UNCHANGED <<memory, report, history>>
  /\ Kept

\* Faulty ZeroGuard: it waits for the vector to be all zero.
ZeroAwaited ==
  /\ At("zero_guard")
  /\ IF got.ch # "zero" THEN RecoveryReadFor("zero_guard", Manual) /\ UNCHANGED <<command, faults>>
     ELSE Command(baseline.ch, Manual, phase, "restored")
  /\ UNCHANGED <<memory, report, history>>
  /\ Kept

ZeroGuard ==
  /\ At("zero_guard")
  /\ IF got.ch # "zero" THEN Refuse
     ELSE Command(baseline.ch, Manual, phase, "restored")
  /\ UNCHANGED <<memory, report, history>>
  /\ Kept

Restored ==
  /\ At("restored")
  /\ IF ~Confirmed(Manual, {baseline.ch}) THEN Refuse ELSE Recovered /\ UNCHANGED command
  /\ UNCHANGED <<memory, report, history>>
  /\ Kept

\* Whether the last command of a dark worker may still be under way: its barrier
\* has not answered, and the guard did not read exactly what it asks for.
Unresolved ==
  /\ progress \in {"sending", "boundary"}
  /\ \/ progress = "sending"
     \/ got # [mode |-> call.mode, ch |-> IF call.ch = None THEN "zero" ELSE call.ch]

\* DarkOpticalWorker._recover: what is owned depends on the phase reached.
OwnedVectors ==
  CASE phase = "off" -> {"zero"}
    [] phase = "manual" -> {"zero"}
    [] phase = "sample" -> {"zero", "changed"}
    [] phase = "sampled" -> {"changed"}
    [] OTHER -> {}

GuardedDark ==
  /\ At("guarded") /\ worker = "dark"
  /\ IF unsafe \/ Unresolved THEN Refuse
     ELSE IF phase = "original"
          THEN IF Confirmed(Manual, {baseline.ch})
               THEN Recovered /\ UNCHANGED command ELSE Refuse
     ELSE IF got.ch \notin OwnedVectors THEN Refuse
     ELSE IF phase = "off" THEN Command(None, Manual, "cleanup_manual", "dark_resumed")
     ELSE Command(baseline.ch, Manual, "restore_original", "restored")
  /\ UNCHANGED <<memory, report, history>>
  /\ Kept

DarkResumed ==
  /\ At("dark_resumed")
  /\ IF ~Confirmed(Manual, {"zero"}) THEN Refuse
     ELSE RecoveryReadFor("zero_guard", Manual) /\ UNCHANGED <<command, faults>>
  /\ UNCHANGED <<memory, report, history>>
  /\ Kept

\* The end of run: the status, and the report is persisted once more.
Finish ==
  /\ pc = "finish"
  /\ pc' = "done" /\ UNCHANGED <<ret, want, tries, flags>>
  /\ \/ /\ status' = IF /\ experiment = "PASS" /\ recovery = "PASS" /\ ~interrupted
                     THEN "PASS" ELSE "FAIL"
        /\ UNCHANGED faults
     \/ Fault /\ status' = "FAIL"
  /\ UNCHANGED <<memory, command, intent, history>>
  /\ Kept

-----------------------------------------------------------------------------
Read == Connect \/ ReadSystem \/ ReadChannels \/ ReadFault
Write == SendVector \/ SendMode \/ Drain \/ Barrier \/ BarrierFault
Prepare == Second \/ Intent \/ Admit
Try == Experiment \/ ChannelChanged \/ OpticalChanged \/ SwitchedOff \/ Darkened
       \/ ResumedDark \/ SampleGuard \/ Sampled \/ Hold
CleanUp == Recover \/ GuardedChannel \/ VectorRestored \/ ModeRestored \/ GuardedOff
           \/ ModeResumed \/ ZeroGuard \/ Restored \/ GuardedDark \/ DarkResumed
Worker == Stop \/ Read \/ Write \/ Prepare \/ Try \/ CleanUp \/ Finish
Next == Worker \/ Handle \/ Program \/ Rival \/ Signal

Spec == Init /\ [][Next]_vars
\* The worker runs on, its socket calls have timeouts, and the lamp handles what
\* it is sent on an open connection or the query behind it times out.
FairSpec == Spec /\ WF_vars(Worker) /\ WF_vars(Handle)
-----------------------------------------------------------------------------
(* Properties. *)

TypeOK ==
  /\ worker \in Workers /\ kind \in LampKinds
  /\ lamp \in States
  /\ wire \in Seq(Frames)
  /\ call \in [ch : Vectors \cup {None}, mode : Modes]
  /\ want \in Modes \cup {None} /\ tries \in 0..ReadAttempts
  /\ seen \in Modes \cup {None} /\ got \in States \cup {NoState}
  /\ baseline \in States \cup {NoState} /\ owned \in States \cup {NoState}
  /\ {excursion, cleaning, unsafe, interrupted, intent, alarm, hidden, still} \subseteq BOOLEAN
  /\ progress \in {"none", "sending", "boundary", "barrier"}
  /\ experiment \in {"NOT_TESTED", "PASS", "FAIL"}
  /\ recovery \in {"NOT_REQUIRED", "PASS", "FAIL"}
  /\ status \in {"RUNNING", "PASS", "FAIL"}
  /\ sent \in Seq(Frames)
  /\ may \in [modes : SUBSET Modes, chs : SUBSET Vectors]
  /\ moves \in 0..MaxMoves /\ faults \in 0..MaxFaults

\* The frames a worker gives the lamp, in their order: nothing is sent twice or
\* replayed, and a Manual run never sends Automatic.
Declared ==
  CASE worker = "dark" -> <<Shutdown, Manual, "changed", Manual, baseline.ch, Manual>>
    [] worker \in OffWorkers ->
         IF baseline.mode = Manual THEN <<Shutdown, Manual, baseline.ch, Manual>>
         ELSE <<Shutdown, Automatic>>
    [] OTHER ->
         IF baseline.mode = Manual THEN <<"changed", Manual, baseline.ch, Manual>>
         ELSE <<"changed", Manual, baseline.ch, Manual, Automatic>>
\* What is left of Declared when only the frames at these positions are kept.
Keeps(positions) ==
  /\ Cardinality(positions) = Len(sent)
  /\ \A k \in positions : sent[Cardinality({j \in positions : j <= k})] = Declared[k]

\* A worker sends some of its declared frames, in their order
\* (docs/aquarius-task004-validation-review.md:47-66), and none before the report that
\* announces it is on the disk and the baseline has been read twice
\* (aquarius_validation.py:595-620).
OnlyDeclaredFrames ==
  sent # <<>> =>
    (\E positions \in SUBSET DOMAIN Declared : Keeps(positions)) /\ intent /\ excursion /\ baseline # NoState

\* Once a worker has read something its own frames cannot explain, or a broken
\* reply, it sends nothing more, however normal later reads are, unless a stop
\* request or a deadline ended that very read: those hide what it saw
\* (aquarius_task004_validation.py:126-136, 272-273, aquarius_dark_optical_validation.py:217-218).
AlarmStopsWrites == [][sent' # sent => ~alarm \/ hidden]_vars

AsBefore ==
  /\ lamp.mode = baseline.mode
  /\ baseline.mode = Manual => lamp.ch = baseline.ch

\* What the report says of the recovery is true: that none was needed only when
\* nothing was sent, signals or not (aquarius_validation.py:633-654); that it is
\* confirmed only when the lamp is as it was before, nothing is under way any more,
\* and no frame of this run undoes it, whatever became of the experiment, unless
\* another controller has acted since the last reply (5-8, 545-593).
RecoveryIsTrue ==
  status # "RUNNING" =>
    /\ recovery = "NOT_REQUIRED" <=> ~excursion
    /\ recovery = "PASS" /\ still => AsBefore /\ wire = <<>>

\* A stop request at any moment costs the run its PASS but not the lamp its
\* state: when nothing else goes wrong, a Manual lamp is put back, by dark when
\* Shutdown clears its vector and Manual leaves it cleared
\* (aquarius_validation.py:386-393).
StopRestores ==
  (/\ status # "RUNNING" /\ excursion /\ moves = 0 /\ faults = 0
   /\ baseline.mode = Manual
   /\ worker = "dark" => kind = "clears")
  => AsBefore

\* Every run comes to its end and its report (aquarius_validation.py:595-672).
Ends == <>(status # "RUNNING")
=============================================================================
