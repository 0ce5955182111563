------------------------------ MODULE HAValidation ------------------------------
(***************************************************************************)
(* The validation workers of tooling/ that act through Home Assistant:     *)
(* HAValidationWorker, the workers of aquarius_task004_ha_validation.py,   *)
(* CompactWorker and AutomaticCompositeWorker.  They ask a service of Home *)
(* Assistant to move the lamp, look at the lamp themselves, and put it     *)
(* back with services or frames of their own.                              *)
(*                                                                         *)
(* A request that was answered late or not at all may still run, at any    *)
(* time and after the worker is gone: tasks holds what Home Assistant has  *)
(* taken and not yet done.  A read is one step here, and a cleanup read    *)
(* that is tried again is a later read; ValidationWorker has the wire.     *)
(***************************************************************************)
EXTENDS Naturals, Sequences

CONSTANTS
  Agents,        \* the workers of an instance, a subset of AllAgents
  Plans,         \* vectors that CompactWorker's actions are planned to give
  MaxRivals,     \* bound: what other controllers do
  MaxMishaps     \* bound: lost answers, refusals, failed reads, deadlines

\* HAValidationWorker with its two actions and ways back, the three workers of
\* the mixin (power with two origins), and the two that judge every read.
Legacy == {"channel", "manual", "manual_via_ha"}
Mixin == {"number", "power_automatic", "power_manual", "resume"}
Guarded == {"compact", "composite"}
AllAgents == Legacy \cup Mixin \cup Guarded
Power == {"power_automatic", "power_manual"}

ASSUME HAAssumption ==
  /\ Agents \subseteq AllAgents
  /\ Plans \subseteq Seq({"first", "second", "zero"}) /\ <<>> \notin Plans
  /\ MaxRivals \in Nat /\ MaxMishaps \in Nat

VARIABLES
  agent, plan,      \* chosen at the start; plan is the experiment's requests
  lampNow, tasks, ran,   \* the lamp; what Home Assistant still has to do, and
                         \* whether the latest request has been done
  place, turn,      \* where the worker is, and in which request of its plan
  base, got, owned, \* baseline, last complete reading, owned state or phase
  delivered, unknown, rejected, confirmed, zeroSeen, barrier,
  cleaning, halted, \* also of the worker; halted is interrupted
  frames, aim,      \* what the running cleanup command still sends, and its stage
  result,           \* report["recovery"]
  doubt, alarmed, still,  \* history: an answer was lost; a complete reading of
                          \* the excursion was nobody's of this run; nobody else
                          \* moved the lamp since the last reading
  rivals, mishaps
world == <<lampNow, tasks, ran>>
readings == <<base, got, owned>>
memory == <<delivered, unknown, rejected, confirmed, zeroSeen, barrier>>
control == <<place, cleaning, result>>
seenBy == <<doubt, alarmed, still>>
haVars == <<agent, plan, world, control, turn, readings, memory, halted,
            frames, aim, seenBy, rivals, mishaps>>

Lamp(mode, ch) == [mode |-> mode, ch |-> ch]
LampModes == {"automatic", "manual", "shutdown"}
ProgramOutputs == {"original", "other"}
NoReading == Lamp("none", "none")

\* The modes in which the experiment begins.
StartModes ==
  CASE agent \in {"power_automatic", "compact"} -> {"automatic"}
    [] agent \in {"power_manual", "resume", "composite"} -> {"manual"}
    [] OTHER -> {"automatic", "manual"}

\* The requests of the experiment.
Requests ==
  CASE agent \in {"channel", "number"} -> {<<"first">>}
    [] agent \in {"manual", "manual_via_ha"} -> {<<"manual">>}
    [] agent \in Power -> {<<"off">>}
    [] agent = "resume" -> {<<"resume">>}
    [] agent = "compact" -> Plans
    [] agent = "composite" -> {<<"resume", "off", "on">>}

HAInit ==
  /\ agent \in Agents /\ plan \in Requests
  /\ lampNow \in {Lamp(mode, "original") : mode \in StartModes} /\ tasks = {} /\ ran = FALSE
  /\ place = "preflight" /\ turn = 1
  /\ base = NoReading /\ got = NoReading /\ owned = NoReading
  /\ delivered = FALSE /\ unknown = FALSE /\ rejected = FALSE /\ confirmed = FALSE
  /\ zeroSeen = FALSE /\ barrier = FALSE /\ cleaning = FALSE /\ halted = FALSE
  /\ frames = <<>> /\ aim = "none" /\ result = "NOT_REQUIRED"
  /\ doubt = FALSE /\ alarmed = FALSE /\ still = TRUE /\ rivals = 0 /\ mishaps = 0

-----------------------------------------------------------------------------
(* The lamp, Home Assistant and other controllers. *)

Vector(request) == IF request = "manual" THEN base.ch ELSE request

\* What a service of the integration makes of the lamp: a vector is shown in
\* Manual, all zero by switching off; On brings back what Off found.
Effects(request) ==
  CASE request = "off" -> {Lamp("shutdown", ch) : ch \in {lampNow.ch, "zero"}}
    [] request \in {"resume", "automatic"} -> {Lamp("automatic", ch) : ch \in ProgramOutputs}
    [] request = "on" -> IF agent = "power_manual" THEN {base}
                         ELSE {Lamp("automatic", ch) : ch \in ProgramOutputs}
    [] request = "zero" -> {Lamp("shutdown", "zero")}
    [] request = "manual" -> {Lamp("manual", lampNow.ch)}
    [] OTHER -> {Lamp("manual", request)}

\* A frame of the worker's own cleanup.
Answers(frame) ==
  CASE frame = "automatic" -> {Lamp("automatic", ch) : ch \in ProgramOutputs}
    [] frame = "manual" -> {Lamp("manual", ch) : ch \in {lampNow.ch}
                              \cup (IF lampNow.mode = "shutdown" THEN {base.ch} ELSE {})}
    [] OTHER -> {[lampNow EXCEPT !.ch = frame]}

Mishap == mishaps < MaxMishaps /\ mishaps' = mishaps + 1

\* Home Assistant does what it was asked, or fails to; both as late as it likes.
Execute ==
  \E request \in tasks :
    /\ tasks' = tasks \ {request}
    /\ \/ lampNow' \in Effects(request) /\ ran' = TRUE /\ UNCHANGED mishaps
       \/ Mishap /\ UNCHANGED <<lampNow, ran>>
    /\ UNCHANGED <<agent, plan, control, turn, readings, memory, halted, frames, aim,
                   seenBy, rivals>>

RunProgram ==
  /\ lampNow.mode = "automatic" /\ place # "preflight"
  /\ lampNow' \in {Lamp("automatic", ch) : ch \in ProgramOutputs} \ {lampNow}
  /\ UNCHANGED <<agent, plan, tasks, ran, control, turn, readings, memory, halted,
                 frames, aim, seenBy, rivals, mishaps>>

Interfere ==
  /\ place \notin {"preflight", "done"} /\ rivals < MaxRivals /\ rivals' = rivals + 1
  /\ lampNow' \in [mode : LampModes, ch : {"original", "zero", "foreign"}] \ {lampNow}
  /\ still' = FALSE
  /\ UNCHANGED <<agent, plan, tasks, ran, control, turn, readings, memory, halted,
                 frames, aim, doubt, alarmed, mishaps>>

Halt ==
  /\ place # "done" /\ ~halted /\ halted' = TRUE
  /\ UNCHANGED <<agent, plan, world, control, turn, readings, memory, frames, aim,
                 seenBy, rivals, mishaps>>

-----------------------------------------------------------------------------
(* How a step goes on or fails. *)

GoTo(next) == place' = next /\ UNCHANGED <<cleaning, result>>

\* An exception before the excursion ends the run; in the experiment it starts
\* the cleanup, in the cleanup it ends it.
Throw ==
  IF place \in {"preflight", "guard"}
  THEN place' = "done" /\ UNCHANGED <<cleaning, result>>
  ELSE IF cleaning
       THEN place' = "done" /\ result' = "FAIL" /\ UNCHANGED cleaning
       ELSE place' = "recover" /\ cleaning' = TRUE /\ UNCHANGED result

\* UnsafeState is remembered by all but HAValidationWorker.
Refused == rejected' = (rejected \/ agent \notin Legacy)

\* _check_stop; CompactWorker does not look before it reads the mode status.
HaltLooked == {"preflight", "guard", "look", "ask", "readback", "status"}
HaltSeen ==
  /\ halted /\ ~cleaning /\ place \in HaltLooked
  /\ ~(agent = "compact" /\ place = "status")

Interrupted ==
  /\ HaltSeen /\ Throw
  /\ UNCHANGED <<agent, plan, world, turn, readings, memory, halted, frames, aim,
                 seenBy, rivals, mishaps>>

\* A complete reading.
Reading ==
  /\ got' = lampNow /\ still' = TRUE
  /\ alarmed' = (\/ alarmed
                 \/ /\ place \notin {"preflight", "guard"}
                    /\ lampNow.ch = "foreign" /\ lampNow.mode # "automatic")
  /\ UNCHANGED doubt

\* What the experiment may read after the current request.
OwnedLegacy(s) == s = Lamp("manual", Vector(plan[1]))
OwnedNumber(s) == s = Lamp("manual", plan[1])
OwnedPower(s) == s.mode = "shutdown" /\ s.ch \in {base.ch, "zero"}
OwnedCompact(s) == s = owned
OwnedComposite(s) == s.mode = owned.mode /\ (s.mode = "shutdown" => s.ch = "zero")
Owned(s) ==
  CASE agent \in Legacy -> OwnedLegacy(s)
    [] agent = "number" -> OwnedNumber(s)
    [] agent \in Power -> OwnedPower(s)
    [] agent = "resume" -> s.mode = "automatic"
    [] agent = "compact" -> OwnedCompact(s)
    [] agent = "composite" -> OwnedComposite(s)

\* The modes a read may meet; when the read then fails on the way, another one
\* counts as a contradiction all the same.
MixinModes == CASE agent = "number" -> {"manual"}
                [] agent \in Power -> {"shutdown"}
                [] agent = "resume" -> {"automatic"}
CompactModes == {owned.mode}
CompositeModes == {owned.mode}
Modes ==
  CASE agent \in Legacy -> LampModes
    [] agent \in Mixin -> MixinModes
    [] agent = "compact" -> CompactModes
    [] agent = "composite" -> CompositeModes

-----------------------------------------------------------------------------
(* Before the experiment. *)

\* Two equal readings in the right mode, and the intent persisted.
Baseline(next) ==
  \/ Mishap /\ Throw /\ UNCHANGED <<readings, seenBy>>
  \/ /\ base' = lampNow /\ owned' = lampNow /\ Reading /\ GoTo(next) /\ UNCHANGED mishaps

Preflight ==
  /\ place = "preflight" /\ ~HaltSeen /\ agent \in Legacy \cup Mixin
  /\ Baseline("ask")
  /\ UNCHANGED <<agent, plan, world, turn, memory, halted, frames, aim, rivals>>

\* What Home Assistant shows of the lamp must fit, too.
CompositePreflight ==
  /\ place = "preflight" /\ ~HaltSeen /\ agent = "composite"
  /\ Baseline("ask")
  /\ UNCHANGED <<agent, plan, world, turn, memory, halted, frames, aim, rivals>>

\* CompactWorker reads once more after that and after its intent.
CompactPreflight ==
  /\ place = "preflight" /\ ~HaltSeen /\ agent = "compact"
  /\ Baseline("guard")
  /\ UNCHANGED <<agent, plan, world, turn, memory, halted, frames, aim, rivals>>

LastGuard ==
  /\ place = "guard" /\ ~HaltSeen /\ Reading
  /\ IF OwnedCompact(lampNow) THEN GoTo("ask") ELSE Throw
  /\ UNCHANGED <<agent, plan, world, turn, base, owned, memory, halted, frames, aim,
                 rivals, mishaps>>

-----------------------------------------------------------------------------
(* The experiment. *)

\* Before a later request the guarded workers look whether the lamp is theirs.
GuardRead ==
  /\ place = "look" /\ ~HaltSeen /\ Reading
  /\ IF Owned(lampNow) THEN GoTo("ask") /\ UNCHANGED memory
     ELSE /\ Throw /\ Refused
          /\ UNCHANGED <<delivered, unknown, confirmed, zeroSeen, barrier>>
  /\ UNCHANGED <<agent, plan, world, turn, base, owned, halted, frames, aim, rivals, mishaps>>

\* The request of this moment: the plan's, or the way back.
Request == IF ~cleaning THEN plan[turn]
           ELSE IF agent \in Power THEN "on" ELSE "automatic"

\* call: the request is sent, and Home Assistant may take it.
Post == tasks' = tasks \cup {Request} /\ ran' = FALSE /\ GoTo("asked") /\ UNCHANGED mishaps

\* Too little time is left for the request and what must follow.
TooLate == Mishap /\ Throw /\ UNCHANGED <<tasks, ran, delivered>>

\* The worker that is to show Manual refuses a lamp that shows it already.
Unneeded == ~cleaning /\ Request = "manual" /\ base.mode = "manual"

AskLegacy ==
  /\ agent \in Legacy
  /\ IF Unneeded THEN Throw /\ UNCHANGED <<tasks, ran, delivered, mishaps>>
     ELSE TooLate \/ (Post /\ UNCHANGED delivered)

\* The mixin remembers that its experiment may have been delivered.
AskMixin ==
  /\ agent \in Mixin
  /\ TooLate \/ (Post /\ delivered' = (delivered \/ ~cleaning))

AskGuarded ==
  /\ agent \in Guarded
  /\ TooLate \/ (Post /\ UNCHANGED delivered)

AskHA ==
  /\ place = "ask" /\ ~HaltSeen
  /\ AskLegacy \/ AskMixin \/ AskGuarded
  /\ UNCHANGED <<agent, plan, lampNow, turn, readings, unknown, rejected, confirmed,
                 zeroSeen, barrier, halted, frames, aim, seenBy, rivals>>

\* What a completed request makes of what the guarded workers own.
CompactOwns == Lamp(IF Request = "zero" THEN "shutdown" ELSE "manual", Request)
CompositeOwns == [owned EXCEPT !.mode = IF Request = "off" THEN "shutdown" ELSE "automatic"]

\* Status 200: Home Assistant has done it.
Completed ==
  /\ place = "asked" /\ ran
  /\ owned' = CASE agent = "compact" -> CompactOwns
                [] agent = "composite" -> CompositeOwns
                [] OTHER -> owned
  /\ GoTo(IF cleaning THEN "confirm" ELSE "readback")
  /\ UNCHANGED <<agent, plan, world, turn, base, got, memory, halted, frames, aim,
                 seenBy, rivals, mishaps>>

\* No answer once the request was on its way, or one that says nothing.
Unestablished == Mishap

\* HACompletionUnknown.
AnswerLost ==
  /\ place = "asked" /\ Unestablished
  /\ unknown' = TRUE /\ doubt' = TRUE /\ Throw
  /\ UNCHANGED <<agent, plan, world, turn, readings, delivered, rejected, confirmed,
                 zeroSeen, barrier, halted, frames, aim, alarmed, still, rivals>>

\* Refused, or never delivered.
Undelivered == Request \in tasks /\ Mishap /\ tasks' = tasks \ {Request}

\* HAServiceError: the mixin knows then that nothing was delivered.
NotTaken ==
  /\ place = "asked" /\ Undelivered
  /\ delivered' = (delivered /\ cleaning) /\ Throw
  /\ UNCHANGED <<agent, plan, lampNow, ran, turn, readings, unknown, rejected, confirmed,
                 zeroSeen, barrier, halted, frames, aim, seenBy, rivals>>

\* The experiment has succeeded: cleanup begins.
Succeed ==
  /\ place' = "recover" /\ cleaning' = TRUE /\ UNCHANGED result
  /\ confirmed' = TRUE /\ UNCHANGED <<delivered, unknown, rejected, zeroSeen, barrier>>

ReadBack ==
  /\ place = "readback" /\ ~HaltSeen /\ Reading
  /\ IF ~Owned(lampNow)
     THEN Throw /\ Refused /\ UNCHANGED <<delivered, unknown, confirmed, zeroSeen, barrier>>
     ELSE IF agent \in Guarded THEN GoTo("status") /\ UNCHANGED memory
          ELSE Succeed
  /\ owned' = IF Owned(lampNow) /\ agent \in Power THEN lampNow ELSE owned
  /\ UNCHANGED <<agent, plan, world, turn, base, halted, frames, aim, rivals, mishaps>>

\* OSError, EOFError or a deadline in a read of the experiment.
ReadLost ==
  /\ place \in {"guard", "look", "readback"} /\ ~HaltSeen /\ Mishap /\ Throw
  /\ rejected' \in {rejected, rejected \/ lampNow.mode \notin Modes}
  /\ UNCHANGED <<agent, plan, world, turn, readings, delivered, unknown, confirmed,
                 zeroSeen, barrier, halted, frames, aim, seenBy, rivals>>

\* HAStateReader.read: anything but one complete and unambiguous answer about
\* the entity is an error.
Unobserved == Mishap /\ Throw /\ UNCHANGED rejected

\* A mode status that is not the lamp's: a contradiction for CompactWorker only.
CompactStatusWrong == agent = "compact" /\ Mishap /\ Throw /\ rejected' = TRUE
CompositeStatusWrong == agent = "composite" /\ Mishap /\ Throw /\ UNCHANGED rejected

ReadStatus ==
  /\ place = "status" /\ ~HaltSeen
  /\ \/ /\ turn < Len(plan) /\ turn' = turn + 1
        /\ GoTo("look") /\ UNCHANGED <<memory, mishaps>>
     \/ turn = Len(plan) /\ Succeed /\ UNCHANGED <<turn, mishaps>>
     \/ /\ Unobserved \/ CompactStatusWrong \/ CompositeStatusWrong
        /\ UNCHANGED <<turn, delivered, unknown, confirmed, zeroSeen, barrier>>
  /\ UNCHANGED <<agent, plan, world, readings, halted, frames, aim, seenBy, rivals>>

-----------------------------------------------------------------------------
(* The cleanup.  It begins with a reading, except where it may only fail. *)

\* Faulty Judged: what was found is reported although a request may still run.
JudgedByLamp == "PASS"

\* The lamp was found as it was; a request that may still run makes that worth
\* nothing.
Judged == IF unknown THEN "FAIL" ELSE "PASS"

Recovered == place' = "done" /\ result' = Judged /\ UNCHANGED <<cleaning, frames, aim, zeroSeen>>
Fail == place' = "done" /\ result' = "FAIL" /\ UNCHANGED <<cleaning, frames, aim, zeroSeen>>

\* _command, _send_mode: the frames of one command, and what they are for.
Restore(sequence, stage) ==
  /\ place' = "frames" /\ frames' = sequence /\ aim' = stage
  /\ UNCHANGED <<cleaning, result>>

\* Faulty ThroughHA: although an answer is missing.
ThroughHAAlways == agent \in Power \cup {"manual_via_ha"}

\* The way back asks Home Assistant unless an answer is missing.
ThroughHA == agent \in Power \cup {"manual_via_ha"} /\ ~unknown

\* The original mode, through Home Assistant or with a frame.
RestoreMode ==
  IF ThroughHA
  THEN GoTo("ask") /\ aim' = "mode" /\ UNCHANGED frames
  ELSE Restore(<<base.mode>>, "mode")

\* ValidationWorker._recover.
RecoverVector(s) ==
  IF \/ s.mode = "shutdown"
     \/ s.mode # "manual" /\ (base.mode = "manual" \/ confirmed)
  THEN Fail
  ELSE IF s = base THEN Recovered
  ELSE IF s.ch \notin {base.ch, Vector(plan[1])} THEN Fail
  ELSE IF s.ch # base.ch
       THEN Restore(<<base.ch, "manual">>, "channels") /\ UNCHANGED zeroSeen
       ELSE RestoreMode /\ UNCHANGED zeroSeen

\* ShutdownValidationWorker._recover, up to the mode command.
RecoverPower(s) ==
  IF confirmed /\ s # owned THEN Fail
  ELSE IF s = base /\ ~confirmed THEN Recovered
  ELSE IF s.mode # "shutdown" \/ s.ch \notin {base.ch, "zero"} THEN Fail
  ELSE RestoreMode /\ zeroSeen' = (s.ch = "zero")

\* HAResumeWorker: only the program it resumed is overwritten.
RecoverManual(s) ==
  IF ~confirmed /\ s = base THEN Recovered
  ELSE IF s.mode # "automatic" THEN Fail
  ELSE Restore(<<base.ch, "manual">>, "vector") /\ UNCHANGED zeroSeen

\* CompactWorker: the program is left alone when it runs already.
RecoverCompact(s) ==
  IF s.mode = "automatic" THEN Recovered
  ELSE IF s # owned THEN Fail
  ELSE Restore(<<"automatic">>, "mode") /\ UNCHANGED zeroSeen

\* AutomaticCompositeWorker: by the phase it owns.
RecoverComposite(s) ==
  IF s.mode # owned.mode THEN Fail
  ELSE CASE s.mode = "manual" -> IF s = base THEN Recovered ELSE Fail
         [] s.mode = "automatic" ->
              Restore(<<base.ch, "manual">>, "vector") /\ UNCHANGED zeroSeen
         [] s.mode = "shutdown" ->
              IF s.ch # "zero" THEN Fail
              ELSE Restore(<<base.mode>>, "mode") /\ zeroSeen' = TRUE

RecoverLegacy == agent \in Legacy /\ Reading /\ RecoverVector(lampNow)

\* An undelivered request leaves nothing to restore; after a contradiction
\* nothing is restored.
RecoverMixin ==
  /\ agent \in Mixin /\ Reading
  /\ IF ~delivered THEN IF lampNow = base THEN Recovered ELSE Fail
     ELSE IF rejected THEN Fail
     ELSE CASE agent = "number" -> RecoverVector(lampNow)
            [] agent \in Power -> RecoverPower(lampNow)
            [] agent = "resume" -> RecoverManual(lampNow)

\* After a lost answer or a contradiction the guarded workers only look.
RecoverGuarded ==
  /\ agent \in Guarded /\ Reading
  /\ IF unknown \/ rejected THEN Fail
     ELSE IF agent = "compact" THEN RecoverCompact(lampNow) ELSE RecoverComposite(lampNow)

Recover ==
  /\ place = "recover"
  /\ RecoverLegacy \/ RecoverMixin \/ RecoverGuarded
  /\ UNCHANGED <<agent, plan, world, turn, base, owned, delivered, unknown, rejected,
                 confirmed, barrier, halted, rivals, mishaps>>

\* A frame is obeyed, ignored or lost with its connection.
SendFrame ==
  /\ place = "frames" /\ frames # <<>>
  /\ frames' = Tail(frames)
  /\ \/ lampNow' \in Answers(Head(frames)) /\ UNCHANGED mishaps
     \/ Mishap /\ UNCHANGED lampNow
  /\ GoTo(IF Len(frames) = 1 THEN "barrier" ELSE "frames")
  /\ UNCHANGED <<agent, plan, tasks, ran, turn, readings, memory, halted, aim, seenBy, rivals>>

AimedMode == IF aim = "mode" THEN base.mode ELSE "manual"

\* The queried barrier; when its reply is lost a fresh read may still confirm.
Barrier ==
  /\ place = "barrier"
  /\ \/ /\ IF lampNow.mode = AimedMode THEN GoTo("confirm") ELSE Throw
        /\ barrier' = (barrier \/ (aim = "mode" /\ lampNow.mode = AimedMode))
        /\ UNCHANGED mishaps
     \/ Mishap /\ GoTo("confirm") /\ UNCHANGED barrier
  /\ UNCHANGED <<agent, plan, world, turn, readings, delivered, unknown, rejected,
                 confirmed, zeroSeen, halted, frames, aim, seenBy, rivals>>

\* After the mode command of the power and composite workers: Manual may show
\* the vector again, or the zero of Shutdown, which is then overwritten.
ModeConfirmed(s) ==
  IF base.mode = "automatic" \/ s.ch = base.ch THEN Recovered
  ELSE IF s.ch = "zero" /\ zeroSeen /\ barrier
       THEN GoTo("zero_guard") /\ UNCHANGED <<frames, aim, zeroSeen>>
       ELSE Fail

Confirm ==
  /\ place = "confirm" /\ Reading
  /\ IF lampNow.mode # AimedMode THEN Fail
     ELSE CASE aim = "mode" -> ModeConfirmed(lampNow)
            [] aim = "vector" -> IF lampNow.ch = base.ch THEN Recovered ELSE Fail
            [] aim = "channels" ->
                 IF lampNow.ch # base.ch THEN Fail
                 ELSE IF base.mode = "manual" THEN Recovered
                 ELSE RestoreMode /\ UNCHANGED zeroSeen
  /\ UNCHANGED <<agent, plan, world, turn, base, owned, delivered, unknown, rejected,
                 confirmed, barrier, halted, rivals, mishaps>>

ZeroGuarded ==
  /\ place = "zero_guard" /\ Reading
  /\ IF lampNow = Lamp("manual", "zero")
     THEN Restore(<<base.ch, "manual">>, "vector") /\ UNCHANGED zeroSeen ELSE Fail
  /\ UNCHANGED <<agent, plan, world, turn, base, owned, delivered, unknown, rejected,
                 confirmed, barrier, halted, rivals, mishaps>>

\* A deadline, a failed send or a malformed reply ends the cleanup.
CleanupBreaks ==
  /\ place \in {"recover", "frames", "barrier", "confirm", "zero_guard"}
  /\ Mishap /\ Throw
  /\ UNCHANGED <<agent, plan, world, turn, readings, memory, halted, frames, aim, seenBy,
                 rivals>>

HANext ==
  \/ Execute \/ RunProgram \/ Interfere \/ Halt \/ Interrupted
  \/ Preflight \/ CompositePreflight \/ CompactPreflight \/ LastGuard \/ GuardRead
  \/ AskHA \/ Completed \/ AnswerLost \/ NotTaken \/ ReadBack \/ ReadLost \/ ReadStatus
  \/ Recover \/ SendFrame \/ Barrier \/ Confirm \/ ZeroGuarded \/ CleanupBreaks

HASpec == HAInit /\ [][HANext]_haVars

-----------------------------------------------------------------------------
(* Properties. *)

\* A recovery reported as PASS leaves nothing to be done by Home Assistant, and
\* the lamp as the worker found it, unless somebody else moved it since the
\* last reading: the program runs again, or Manual shows the same vector.
LateTasksExcluded ==
  place = "done" /\ result = "PASS" =>
    /\ tasks = {}
    /\ still => IF base.mode = "automatic" THEN lampNow.mode = "automatic" ELSE lampNow = base

\* Steps that move the lamp or ask Home Assistant to.
Asks == place = "ask" /\ place' = "asked"
Sends == place = "frames" /\ frames' # frames

\* Once an answer was lost Home Assistant is not asked again, and the guarded
\* workers touch nothing any more.  Once a complete reading of the excursion
\* showed a vector of somebody else, nothing is sent either, whatever is read
\* afterwards; HAValidationWorker judges by its last reading alone.
DoubtForbidsActing ==
  [][Asks \/ Sends =>
       /\ doubt => Sends /\ agent \notin Guarded
       /\ IF agent \in Legacy THEN got.ch = "foreign" => got.mode = "automatic"
          ELSE ~alarmed]_haVars
================================================================================
