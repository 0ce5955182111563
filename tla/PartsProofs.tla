------------------------------- MODULE PartsProofs -------------------------------
(***************************************************************************)
(* Theorems about parts of the repository that stand by themselves: the    *)
(* validation workers that act through Home Assistant, downloads, the      *)
(* extraction of archives, and catalogs.                                   *)
(***************************************************************************)
EXTENDS HAValidation, Downloads, ArchiveRules, CatalogRules, FiniteSetTheorems,
        SequenceTheorems, WellFoundedInduction, TLAPS

-----------------------------------------------------------------------------
(* The workers that act through Home Assistant.                              *)

Chs == {"original", "other", "zero", "foreign", "first", "second"}
Lamps == [mode : LampModes, ch : Chs]
Kinds == {"first", "second", "zero", "manual", "off", "resume", "on", "automatic"}

\* What a worker finds at first.
Baselines == [mode : StartModes, ch : {"original"}]

InCleanup == {"recover", "frames", "barrier", "confirm", "zero_guard"}
InExperiment == {"look", "readback", "status"}

Typed ==
  /\ agent \in AllAgents
  /\ plan \in Seq(Kinds) /\ turn \in 1..Len(plan)
  /\ agent = "compact" => plan \in Seq({"first", "second", "zero"})
  /\ agent = "number" => plan[1] = "first"
  /\ agent \in Legacy => plan[1] \in {"first", "manual"}
  /\ lampNow \in Lamps /\ tasks \subseteq Kinds
  /\ frames \in Seq({"automatic", "manual", "original"})
  /\ ran \in BOOLEAN /\ cleaning \in BOOLEAN /\ unknown \in BOOLEAN
  /\ rejected \in BOOLEAN /\ alarmed \in BOOLEAN

\* Where a run is, and what it knows there.
Placed ==
  /\ place \in {"preflight", "guard", "ask", "asked", "done"} \cup InExperiment \cup InCleanup
  /\ place = "preflight" => lampNow \in Baselines /\ tasks = {} /\ ~cleaning /\ ~alarmed /\ aim = "none"
  /\ place \notin {"preflight", "done"} \/ tasks # {} \/ result = "PASS" => base \in Baselines
  /\ place \in InExperiment \cup {"guard"} => ~cleaning
  /\ place \in InCleanup => cleaning
  /\ place = "guard" => agent = "compact"
  /\ place \in {"look", "status"} => agent \in Guarded
  /\ result = "PASS" => place = "done"
  /\ place = "frames" => frames # <<>>

\* A request is made while no answer is missing, and then only one is on its way.
OneRequest ==
  /\ doubt => unknown
  /\ place \in {"preflight", "guard", "ask", "asked"} => ~unknown
  /\ ~unknown /\ place # "asked" => tasks = {}
  /\ place = "asked" => tasks \subseteq {Request} /\ (ran => tasks = {})
  /\ result = "PASS" => ~unknown
  /\ agent \in Guarded /\ unknown => place \in {"recover", "done"}

\* What the command of a cleanup is for.
Aimed ==
  /\ aim \in {"none", "mode", "vector", "channels"}
  /\ aim = "vector" \/ place = "zero_guard" => base.mode = "manual"
  /\ cleaning /\ place \notin {"recover", "done"} => aim # "none"
  /\ cleaning /\ place \in {"ask", "asked"} => agent \notin Guarded

\* What the worker takes for its own is nothing that only others write.
OwnStates ==
  /\ place \notin {"preflight", "done"} => owned \in Lamps
  /\ agent = "compact" /\ place \notin {"preflight", "done"} => owned.ch \notin {"foreign", "other"}
  /\ agent = "composite" /\ place \in InExperiment => owned.mode \in {"automatic", "shutdown"}

\* Somebody else's vector ends the sending.
Alarmed ==
  /\ agent \notin Legacy /\ alarmed => place = "done" \/ (place = "recover" /\ rejected)
  /\ agent \in Legacy /\ place \in {"ask", "frames"} => got.ch # "foreign"

\* The lamp of a recovery that was reported as PASS.
AsFound ==
  result = "PASS" /\ still =>
    IF base.mode = "automatic" THEN lampNow.mode = "automatic" ELSE lampNow = base

HAInv == Typed /\ Placed /\ OneRequest /\ Aimed /\ OwnStates /\ Alarmed /\ AsFound

\* The states a lamp shows are states of the model, whatever moves it.
LEMMA LampShapes ==
  /\ \A m, c : Lamp(m, c).mode = m /\ Lamp(m, c).ch = c
  /\ \A m \in LampModes, c \in Chs : Lamp(m, c) \in Lamps
  /\ \A s \in Lamps : s.mode \in LampModes /\ s.ch \in Chs
  /\ \A s, t \in Lamps : s.mode = t.mode /\ s.ch = t.ch => s = t
  /\ Baselines \subseteq Lamps
  /\ \A s \in Baselines : s.mode \in {"automatic", "manual"} /\ s.ch = "original"
BY DEF Lamp, Lamps, LampModes, Chs, Baselines, StartModes

LEMMA HAStarts == HAInit => HAInv
<1> SUFFICES ASSUME HAInit PROVE HAInv
  OBVIOUS
<1> USE DEF HAInit
<1>1. agent \in AllAgents
  BY HAAssumption
<1>2. plan \in Seq(Kinds) /\ plan # <<>>
  <2>1. CASE agent = "compact"
    <3>1. plan \in Plans /\ Plans \subseteq Seq({"first", "second", "zero"}) /\ <<>> \notin Plans
      BY <2>1, HAAssumption DEF Requests, Power
    <3>2. QED
      BY <3>1 DEF Kinds
  <2>2. CASE agent # "compact"
    <3>1. plan \in {<<"first">>, <<"manual">>, <<"off">>, <<"resume">>, <<"resume", "off", "on">>}
      BY <1>1, <2>2 DEF Requests, AllAgents, Legacy, Mixin, Guarded, Power
    <3>2. /\ <<"first">> \in Seq(Kinds) /\ <<"manual">> \in Seq(Kinds) /\ <<"off">> \in Seq(Kinds)
          /\ <<"resume">> \in Seq(Kinds)
      BY DEF Kinds
    <3>3. <<"resume", "off", "on">> \in Seq(Kinds)
      BY DEF Kinds
    <3>4. plan \in Seq(Kinds)
      BY <3>1, <3>2, <3>3
    <3>5. plan # <<>>
      BY <3>1
    <3>6. QED
      BY <3>4, <3>5
  <2>3. QED
    BY <2>1, <2>2
<1>3. 1 \in 1..Len(plan)
  BY <1>2
<1>4. /\ agent = "compact" => plan \in Seq({"first", "second", "zero"})
      /\ agent = "number" => plan[1] = "first"
      /\ agent \in Legacy => plan[1] \in {"first", "manual"}
  BY HAAssumption DEF Requests, Legacy, Power
<1>5. lampNow \in Baselines
  BY DEF Baselines, Lamp
<1>6. <<>> \in Seq({"automatic", "manual", "original"})
  OBVIOUS
<1>7. QED
  BY <1>1, <1>2, <1>3, <1>4, <1>5, <1>6, LampShapes
     DEF HAInv, Typed, Placed, OneRequest, Aimed, OwnStates, Alarmed, AsFound, InCleanup, InExperiment

\* What moves by itself: Home Assistant, the lamp, other controllers, an operator.
LEMMA WorldSteps ==
  ASSUME HAInv, Execute \/ RunProgram \/ Interfere \/ Halt
  PROVE  HAInv'
<1> USE DEF HAInv, world, readings, memory, control, seenBy, InCleanup, InExperiment
<1>1. agent' = agent => Baselines' = Baselines
  BY DEF Baselines, StartModes
<1>2. CASE Execute
  <2>1. PICK request \in tasks :
          /\ tasks' = tasks \ {request}
          /\ (lampNow' \in Effects(request) /\ ran' = TRUE) \/ UNCHANGED <<lampNow, ran>>
    BY <1>2 DEF Execute
  <2>2. base \in Lamps
    BY <2>1, LampShapes DEF Placed
  <2>3. lampNow' \in Lamps
    BY <2>1, <2>2, LampShapes DEF Effects, Typed, Kinds, ProgramOutputs, Chs, LampModes
  <2>4. place # "preflight" /\ result # "PASS"
    BY <2>1 DEF Placed, OneRequest
  <2>5. Typed'
    BY <1>1, <1>2, <2>1, <2>3, <2>4 DEF Execute, Typed
  <2>6. Placed'
    BY <1>1, <1>2, <2>1, <2>3, <2>4 DEF Execute, Placed
  <2>7. OneRequest'
    BY <1>1, <1>2, <2>1, <2>3, <2>4 DEF Execute, OneRequest, Request
  <2>8. Aimed'
    BY <1>1, <1>2, <2>1, <2>3, <2>4 DEF Execute, Aimed
  <2>9. OwnStates'
    BY <1>1, <1>2, <2>1, <2>3, <2>4 DEF Execute, OwnStates
  <2>10. Alarmed'
    BY <1>1, <1>2, <2>1, <2>3, <2>4 DEF Execute, Alarmed, Legacy
  <2>11. AsFound'
    BY <1>1, <1>2, <2>1, <2>3, <2>4 DEF Execute, AsFound
  <2>12. QED
    BY <2>5, <2>6, <2>7, <2>8, <2>9, <2>10, <2>11 DEF HAInv
<1>3. CASE RunProgram
  <2>1. lampNow' \in Lamps /\ lampNow'.mode = lampNow.mode /\ lampNow.mode = "automatic"
    BY <1>3, LampShapes DEF RunProgram, ProgramOutputs, Chs, LampModes
  <2>2. result = "PASS" => base \in Lamps /\ base.mode \in {"automatic", "manual"}
    BY LampShapes DEF Placed
  <2>3. Typed'
    BY <1>1, <1>3, <2>1, <2>2 DEF RunProgram, Typed
  <2>4. Placed'
    BY <1>1, <1>3, <2>1, <2>2 DEF RunProgram, Placed
  <2>5. OneRequest'
    BY <1>1, <1>3, <2>1, <2>2 DEF RunProgram, OneRequest, Request
  <2>6. Aimed'
    BY <1>1, <1>3, <2>1, <2>2 DEF RunProgram, Aimed
  <2>7. OwnStates'
    BY <1>1, <1>3, <2>1, <2>2 DEF RunProgram, OwnStates
  <2>8. Alarmed'
    BY <1>1, <1>3, <2>1, <2>2 DEF RunProgram, Alarmed, Legacy
  <2>9. AsFound'
    BY <1>1, <1>3, <2>1, <2>2 DEF RunProgram, AsFound
  <2>10. QED
    BY <2>3, <2>4, <2>5, <2>6, <2>7, <2>8, <2>9 DEF HAInv
<1>4. CASE Interfere
  <2>1. lampNow' \in Lamps
    BY <1>4 DEF Interfere, Lamps, Chs
  <2>2. result # "PASS"
    BY <1>4 DEF Interfere, Placed
  <2>3. Typed'
    BY <1>1, <1>4, <2>1, <2>2 DEF Interfere, Typed
  <2>4. Placed'
    BY <1>1, <1>4, <2>1, <2>2 DEF Interfere, Placed
  <2>5. OneRequest'
    BY <1>1, <1>4, <2>1, <2>2 DEF Interfere, OneRequest, Request
  <2>6. Aimed'
    BY <1>1, <1>4, <2>1, <2>2 DEF Interfere, Aimed
  <2>7. OwnStates'
    BY <1>1, <1>4, <2>1, <2>2 DEF Interfere, OwnStates
  <2>8. Alarmed'
    BY <1>1, <1>4, <2>1, <2>2 DEF Interfere, Alarmed, Legacy
  <2>9. AsFound'
    BY <1>1, <1>4, <2>1, <2>2 DEF Interfere, AsFound
  <2>10. QED
    BY <2>3, <2>4, <2>5, <2>6, <2>7, <2>8, <2>9 DEF HAInv
<1>5. CASE Halt
  <2>1. Typed'
    BY <1>1, <1>5 DEF Halt, Typed
  <2>2. Placed'
    BY <1>1, <1>5 DEF Halt, Placed
  <2>3. OneRequest'
    BY <1>1, <1>5 DEF Halt, OneRequest, Request
  <2>4. Aimed'
    BY <1>1, <1>5 DEF Halt, Aimed
  <2>5. OwnStates'
    BY <1>1, <1>5 DEF Halt, OwnStates
  <2>6. Alarmed'
    BY <1>1, <1>5 DEF Halt, Alarmed, Legacy
  <2>7. AsFound'
    BY <1>1, <1>5 DEF Halt, AsFound
  <2>8. QED
    BY <2>1, <2>2, <2>3, <2>4, <2>5, <2>6, <2>7 DEF HAInv
<1>6. QED
  BY <1>2, <1>3, <1>4, <1>5

LEMMA BeginningSteps ==
  ASSUME HAInv, Preflight \/ CompositePreflight \/ CompactPreflight \/ LastGuard
  PROVE  HAInv'
<1> USE DEF HAInv, world, readings, memory, control, seenBy, InCleanup, InExperiment
<1>1. agent' = agent => Baselines' = Baselines
  BY DEF Baselines, StartModes
<1>2. CASE LastGuard
  <2>1. /\ place = "guard" /\ (place' = "ask" \/ place' = "done")
        /\ UNCHANGED <<agent, plan, world, turn, base, owned, memory, halted, frames, aim, cleaning,
                       result, doubt>>
        /\ alarmed' = alarmed
    BY <1>2 DEF LastGuard, GoTo, Throw, Reading, Typed
  <2>2. agent = "compact" /\ ~cleaning /\ result # "PASS"
    BY <2>1 DEF Placed
  <2>3. Typed'
    BY <1>1, <2>1, <2>2 DEF Typed
  <2>4. Placed'
    BY <1>1, <2>1, <2>2 DEF Placed
  <2>5. OneRequest'
    BY <1>1, <2>1, <2>2 DEF OneRequest, Request, Guarded
  <2>6. Aimed'
    BY <1>1, <2>1, <2>2 DEF Aimed
  <2>7. OwnStates'
    BY <1>1, <2>1, <2>2 DEF OwnStates
  <2>8. Alarmed'
    BY <1>1, <2>1, <2>2 DEF Alarmed, Legacy
  <2>9. AsFound'
    BY <1>1, <2>1, <2>2 DEF AsFound
  <2>10. QED
    BY <2>3, <2>4, <2>5, <2>6, <2>7, <2>8, <2>9 DEF HAInv
<1>3. CASE Preflight \/ CompositePreflight \/ CompactPreflight
  <2>1. /\ place = "preflight"
        /\ UNCHANGED <<agent, plan, world, turn, memory, halted, frames, aim, cleaning, result, doubt>>
        /\ alarmed' = alarmed
        /\ \/ place' = "done" /\ UNCHANGED <<readings, still>>
           \/ /\ base' = lampNow /\ owned' = lampNow /\ got' = lampNow
              /\ place' = "ask" \/ (place' = "guard" /\ agent = "compact")
    <3> DEFINE Begins(next) ==
          /\ place = "preflight"
          /\ Baseline(next)
          /\ UNCHANGED <<agent, plan, world, turn, memory, halted, frames, aim>>
    <3>1. Begins("ask") \/ (agent = "compact" /\ Begins("guard"))
      BY <1>3 DEF Preflight, CompositePreflight, CompactPreflight
    <3>2. QED
      BY <3>1 DEF Baseline, Throw, GoTo, Reading, Typed
  <2>2. lampNow \in Baselines /\ lampNow \in Lamps /\ lampNow.ch = "original"
    BY <2>1, LampShapes DEF Placed
  <2>3. ~alarmed /\ aim = "none" /\ ~cleaning /\ result # "PASS" /\ tasks = {}
    BY <2>1 DEF Placed
  <2>4. Typed'
    BY <1>1, <2>1, <2>2, <2>3 DEF Typed
  <2>5. Placed'
    BY <1>1, <2>1, <2>2, <2>3 DEF Placed
  <2>6. OneRequest'
    BY <1>1, <2>1, <2>2, <2>3 DEF OneRequest, Request
  <2>7. Aimed'
    BY <1>1, <2>1, <2>2, <2>3 DEF Aimed
  <2>8. OwnStates'
    BY <1>1, <2>1, <2>2, <2>3 DEF OwnStates
  <2>9. Alarmed'
    BY <1>1, <2>1, <2>2, <2>3 DEF Alarmed, Legacy
  <2>10. AsFound'
    BY <1>1, <2>1, <2>2, <2>3 DEF AsFound
  <2>11. QED
    BY <2>4, <2>5, <2>6, <2>7, <2>8, <2>9, <2>10 DEF HAInv
<1>4. QED
  BY <1>2, <1>3

LEMMA ExperimentSteps ==
  ASSUME HAInv, Interrupted \/ GuardRead \/ ReadBack \/ ReadLost \/ ReadStatus
  PROVE  HAInv'
<1> USE DEF HAInv, world, readings, memory, control, seenBy, InCleanup, InExperiment
<1>1. agent' = agent => Baselines' = Baselines
  BY DEF Baselines, StartModes
<1>2. place \in InExperiment => base \in Baselines /\ base.ch = "original" /\ owned \in Lamps
  BY LampShapes DEF Placed, OwnStates
<1>3. Throw /\ ~cleaning =>
        /\ result' = result
        /\ (place' = "done" /\ cleaning' = cleaning) \/ (place' = "recover" /\ cleaning' = TRUE /\ place # "preflight")
  BY DEF Throw
<1>4. CASE Interrupted \/ ReadLost
  <2>1. /\ Throw /\ ~cleaning /\ result # "PASS" /\ rejected' \in BOOLEAN
        /\ place \in {"preflight", "guard", "look", "ask", "readback", "status"}
        /\ UNCHANGED <<agent, plan, world, turn, readings, delivered, unknown, confirmed, zeroSeen,
                       barrier, halted, frames, aim, seenBy>>
    BY <1>4 DEF Interrupted, HaltSeen, HaltLooked, ReadLost, Placed, Typed
  <2>2. Typed'
    BY <1>1, <1>3, <2>1 DEF Typed
  <2>3. Placed'
    BY <1>1, <1>3, <2>1 DEF Placed
  <2>4. OneRequest'
    BY <1>1, <1>3, <2>1 DEF OneRequest, Request
  <2>5. Aimed'
    BY <1>1, <1>3, <2>1 DEF Aimed
  <2>6. OwnStates'
    BY <1>1, <1>3, <2>1 DEF OwnStates
  <2>7. Alarmed'
    BY <1>1, <1>3, <2>1 DEF Alarmed, Legacy
  <2>8. AsFound'
    BY <1>1, <1>3, <2>1 DEF AsFound
  <2>9. QED
    BY <2>2, <2>3, <2>4, <2>5, <2>6, <2>7, <2>8 DEF HAInv
<1>5. CASE GuardRead
  <2>1. /\ place = "look" /\ agent \in Guarded /\ ~cleaning /\ result # "PASS" /\ ~alarmed
    BY <1>5 DEF GuardRead, Placed, Alarmed, Legacy, Guarded
  <2>2. Owned(lampNow) => lampNow.ch # "foreign" \/ lampNow.mode = "automatic"
    BY <1>2, <2>1 DEF Owned, OwnedCompact, OwnedComposite, OwnStates, Guarded, Legacy, Mixin, Power
  <2>3. /\ \/ Owned(lampNow) /\ place' = "ask" /\ UNCHANGED <<cleaning, rejected>>
           \/ ~Owned(lampNow) /\ place' = "recover" /\ cleaning' = TRUE /\ rejected' = TRUE
        /\ UNCHANGED <<agent, plan, world, turn, base, owned, delivered, unknown, confirmed, zeroSeen,
                       barrier, halted, frames, aim, doubt, result>>
        /\ alarmed' = (lampNow.ch = "foreign" /\ lampNow.mode # "automatic")
    BY <1>5, <2>1 DEF GuardRead, Reading, GoTo, Throw, Refused, Typed, Guarded, Legacy
  <2>4. Typed'
    BY <1>1, <1>2, <2>1, <2>2, <2>3 DEF Typed
  <2>5. Placed'
    BY <1>1, <1>2, <2>1, <2>2, <2>3 DEF Placed
  <2>6. OneRequest'
    BY <1>1, <1>2, <2>1, <2>2, <2>3 DEF OneRequest, Request
  <2>7. Aimed'
    BY <1>1, <1>2, <2>1, <2>2, <2>3 DEF Aimed
  <2>8. OwnStates'
    BY <1>1, <1>2, <2>1, <2>2, <2>3 DEF OwnStates
  <2>9. Alarmed'
    BY <1>1, <1>2, <2>1, <2>2, <2>3 DEF Alarmed, Legacy, Guarded
  <2>10. AsFound'
    BY <1>1, <1>2, <2>1, <2>2, <2>3 DEF AsFound
  <2>11. QED
    BY <2>4, <2>5, <2>6, <2>7, <2>8, <2>9, <2>10 DEF HAInv
<1>6. CASE ReadBack
  <2>1. place = "readback" /\ ~cleaning /\ result # "PASS" /\ (agent \notin Legacy => ~alarmed)
    BY <1>6 DEF ReadBack, Placed, Alarmed
  <2>2. Owned(lampNow) /\ agent \notin Legacy => lampNow.ch # "foreign" \/ lampNow.mode = "automatic"
    <3>1. CASE agent = "number"
      <4>1. Owned(lampNow) => lampNow = Lamp("manual", "first")
        <5>1. Owned(lampNow) => OwnedNumber(lampNow)
          BY <3>1 DEF Owned, OwnedLegacy, OwnedNumber, OwnedPower, OwnedCompact, OwnedComposite, Legacy,
                      Power
        <5>2. plan[1] = "first"
          BY <3>1 DEF Typed
        <5>3. QED
          BY <5>1, <5>2 DEF OwnedNumber
      <4>2. QED
        BY <4>1, LampShapes
    <3>2. CASE agent \in Power
      BY <1>2, <2>1, <3>2 DEF Owned, OwnedPower, Legacy, Power
    <3>3. CASE agent = "resume"
      BY <3>3 DEF Owned, Legacy, Power
    <3>4. CASE agent = "compact"
      BY <2>1, <3>4 DEF Owned, OwnedCompact, OwnStates, Legacy, Power
    <3>5. CASE agent = "composite"
      BY <2>1, <3>5 DEF Owned, OwnedComposite, OwnStates, Legacy, Power
    <3>6. agent \in AllAgents
      BY DEF Typed
    <3>7. QED
      BY <3>1, <3>2, <3>3, <3>4, <3>5, <3>6 DEF AllAgents, Mixin, Guarded, Power
  <2>3. /\ \/ Owned(lampNow) /\ place' = "recover" /\ cleaning' = TRUE /\ UNCHANGED rejected
           \/ Owned(lampNow) /\ agent \in Guarded /\ place' = "status" /\ UNCHANGED <<cleaning, rejected>>
           \/ ~Owned(lampNow) /\ place' = "recover" /\ cleaning' = TRUE /\ rejected' = (rejected \/ agent \notin Legacy)
        /\ UNCHANGED <<agent, plan, world, turn, base, delivered, unknown, zeroSeen,
                       barrier, halted, frames, aim, doubt, result>>
        /\ owned' = lampNow \/ owned' = owned
        /\ alarmed' = (alarmed \/ (lampNow.ch = "foreign" /\ lampNow.mode # "automatic"))
        /\ agent \in Guarded => owned' = owned
    BY <1>6, <2>1 DEF ReadBack, Reading, GoTo, Throw, Refused, Succeed, Guarded, Power
  <2>4. Typed'
    BY <1>1, <1>2, <2>1, <2>2, <2>3 DEF Typed
  <2>5. Placed'
    BY <1>1, <1>2, <2>1, <2>2, <2>3 DEF Placed
  <2>6. OneRequest'
    BY <1>1, <1>2, <2>1, <2>2, <2>3 DEF OneRequest, Request
  <2>7. Aimed'
    BY <1>1, <1>2, <2>1, <2>2, <2>3 DEF Aimed
  <2>8. OwnStates'
    BY <1>1, <1>2, <2>1, <2>2, <2>3 DEF OwnStates, Typed, Guarded
  <2>9. Alarmed'
    BY <1>1, <1>2, <2>1, <2>2, <2>3 DEF Alarmed, Legacy
  <2>10. AsFound'
    BY <1>1, <1>2, <2>1, <2>2, <2>3 DEF AsFound
  <2>11. QED
    BY <2>4, <2>5, <2>6, <2>7, <2>8, <2>9, <2>10 DEF HAInv
<1>7. CASE ReadStatus
  <2>1. place = "status" /\ ~cleaning /\ result # "PASS" /\ agent \in Guarded /\ agent \notin Legacy /\ ~alarmed
    BY <1>7 DEF ReadStatus, Placed, Alarmed, Guarded, Legacy
  <2>2. /\ \/ place' = "look" /\ turn < Len(plan) /\ turn' = turn + 1 /\ cleaning' = FALSE
           \/ place' = "recover" /\ cleaning' = TRUE /\ turn' = turn
        /\ UNCHANGED <<agent, plan, world, readings, delivered, unknown, zeroSeen, barrier, halted, frames,
                       aim, seenBy, result>>
        /\ rejected' \in BOOLEAN
    BY <1>7, <2>1 DEF Typed, ReadStatus, GoTo, Throw, Succeed, Unobserved, CompactStatusWrong, CompositeStatusWrong
  <2>3. turn' \in 1..Len(plan)
    <3>1. turn \in 1..Len(plan) /\ plan \in Seq(Kinds)
      BY DEF Typed
    <3>2. Len(plan) \in Nat
      BY <3>1
    <3>3. turn' = turn \/ (turn < Len(plan) /\ turn' = turn + 1)
      BY <2>2
    <3>4. QED
      BY <3>1, <3>2, <3>3
  <2>4. Typed'
    BY <1>1, <1>2, <2>1, <2>2, <2>3 DEF Typed
  <2>5. Placed'
    <3>1. place' \in {"look", "recover"} /\ (place' = "recover" => cleaning') /\ (place' = "look" => ~cleaning')
          /\ result' # "PASS"
      BY <2>1, <2>2
    <3>2. agent' = agent /\ base' = base /\ base \in Baselines /\ Baselines' = Baselines
      BY <1>1, <1>2, <2>1, <2>2
    <3>3. QED
      BY <2>1, <3>1, <3>2 DEF Placed
  <2>6. OneRequest'
    BY <1>1, <1>2, <2>1, <2>2, <2>3 DEF OneRequest, Request
  <2>7. Aimed'
    BY <1>1, <1>2, <2>1, <2>2, <2>3 DEF Aimed
  <2>8. OwnStates'
    BY <1>1, <1>2, <2>1, <2>2, <2>3 DEF OwnStates
  <2>9. Alarmed'
    BY <1>1, <1>2, <2>1, <2>2, <2>3 DEF Alarmed, Legacy
  <2>10. AsFound'
    BY <1>1, <1>2, <2>1, <2>2, <2>3 DEF AsFound
  <2>11. QED
    BY <2>4, <2>5, <2>6, <2>7, <2>8, <2>9, <2>10 DEF HAInv
<1>8. QED
  BY <1>4, <1>5, <1>6, <1>7

LEMMA RequestSteps ==
  ASSUME HAInv, AskHA \/ Completed \/ AnswerLost \/ NotTaken
  PROVE  HAInv'
<1> USE DEF HAInv, world, readings, memory, control, seenBy, InCleanup, InExperiment
<1>1. agent' = agent => Baselines' = Baselines
  BY DEF Baselines, StartModes
<1>2. /\ place \in {"ask", "asked"} /\ base \in Baselines /\ owned \in Lamps
      /\ result # "PASS" /\ ~unknown /\ ~doubt /\ (agent \notin Legacy => ~alarmed)
      /\ cleaning \in BOOLEAN /\ (cleaning => aim # "none" /\ agent \notin Guarded)
  BY DEF AskHA, Completed, AnswerLost, NotTaken, Typed, Placed, OneRequest, OwnStates, Alarmed, Aimed
<1>3. Throw =>
        \/ cleaning /\ place' = "done" /\ cleaning' = TRUE /\ result' = "FAIL"
        \/ ~cleaning /\ place' = "recover" /\ cleaning' = TRUE /\ result' = result
  BY <1>2 DEF Throw
<1>4. Request \in Kinds /\ plan[turn] \in Kinds
  <2>1. plan \in Seq(Kinds) /\ turn \in 1..Len(plan)
    BY DEF Typed
  <2>2. plan[turn] \in Kinds
    BY <2>1
  <2>3. QED
    BY <2>2 DEF Request, Kinds
<1>5. CASE AskHA
  <2>1. /\ place = "ask"
        /\ \/ place' = "asked" /\ tasks' = tasks \cup {Request} /\ ran' = FALSE
              /\ UNCHANGED <<cleaning, result>>
           \/ Throw /\ UNCHANGED <<tasks, ran>>
        /\ UNCHANGED <<agent, plan, lampNow, turn, readings, unknown, rejected, halted, frames, aim, seenBy>>
    BY <1>5 DEF AskHA, AskLegacy, AskMixin, AskGuarded, TooLate, Post, GoTo
  <2>2. tasks = {}
    BY <1>2, <2>1 DEF OneRequest
  <2>3. Request' = Request \/ place' # "asked"
    BY <2>1, <1>2, <1>3 DEF Request
  <2>4. Typed'
    BY <1>1, <1>2, <1>3, <1>4, <2>1, <2>2 DEF Typed
  <2>5. Placed'
    BY <1>1, <1>2, <1>3, <1>4, <2>1, <2>2 DEF Placed
  <2>6. OneRequest'
    BY <1>1, <1>2, <1>3, <1>4, <2>1, <2>2, <2>3 DEF OneRequest
  <2>7. Aimed'
    BY <1>1, <1>2, <1>3, <1>4, <2>1, <2>2 DEF Aimed
  <2>8. OwnStates'
    BY <1>1, <1>2, <1>3, <1>4, <2>1, <2>2 DEF OwnStates
  <2>9. Alarmed'
    BY <1>1, <1>2, <1>3, <1>4, <2>1, <2>2 DEF Alarmed, Legacy
  <2>10. AsFound'
    BY <1>1, <1>2, <1>3, <1>4, <2>1, <2>2 DEF AsFound
  <2>11. QED
    BY <2>4, <2>5, <2>6, <2>7, <2>8, <2>9, <2>10 DEF HAInv
<1>6. CASE Completed
  <2>1. /\ place = "asked" /\ ran
        /\ (cleaning /\ place' = "confirm") \/ (~cleaning /\ place' = "readback")
        /\ owned' = (CASE agent = "compact" -> CompactOwns
                      [] agent = "composite" -> CompositeOwns
                      [] OTHER -> owned)
        /\ UNCHANGED <<agent, plan, world, turn, base, got, memory, halted, frames, aim, seenBy,
                       cleaning, result>>
    BY <1>2, <1>6 DEF Completed, GoTo
  <2>2. tasks = {}
    BY <2>1 DEF OneRequest
  <2>3. /\ owned' \in Lamps
        /\ agent = "compact" => owned'.ch \notin {"foreign", "other"}
        /\ agent = "composite" => owned'.mode \in {"automatic", "shutdown"}
    <3>1. CASE agent = "compact"
      <4>1. ~cleaning
        BY <1>2, <3>1 DEF Guarded
      <4>2. plan \in Seq({"first", "second", "zero"}) /\ turn \in 1..Len(plan)
        BY <3>1 DEF Typed
      <4>3. plan[turn] \in {"first", "second", "zero"}
        BY <4>2
      <4>4. Request \in {"first", "second", "zero"}
        BY <4>1, <4>3 DEF Request
      <4>5. owned' = CompactOwns
        BY <2>1, <3>1
      <4>6. CompactOwns \in Lamps /\ CompactOwns.ch = Request
        BY <4>4, LampShapes DEF CompactOwns, LampModes, Chs
      <4>7. QED
        BY <3>1, <4>4, <4>5, <4>6
    <3>2. CASE agent = "composite"
      <4>1. owned' = CompositeOwns
        BY <2>1, <3>2
      <4>2. CompositeOwns \in Lamps /\ CompositeOwns.mode \in {"automatic", "shutdown"}
        BY <1>2 DEF CompositeOwns, Lamps, LampModes
      <4>3. QED
        BY <3>2, <4>1, <4>2
    <3>3. CASE agent \notin {"compact", "composite"}
      BY <1>2, <2>1, <3>3
    <3>4. QED
      BY <3>1, <3>2, <3>3
  <2>4. Typed'
    BY <1>1, <1>2, <2>1, <2>2 DEF Typed
  <2>5. Placed'
    BY <1>1, <1>2, <2>1, <2>2 DEF Placed
  <2>6. OneRequest'
    BY <1>1, <1>2, <2>1, <2>2 DEF OneRequest, Request
  <2>7. Aimed'
    BY <1>1, <1>2, <2>1, <2>2 DEF Aimed
  <2>8. OwnStates'
    BY <1>1, <1>2, <2>1, <2>2, <2>3 DEF OwnStates
  <2>9. Alarmed'
    BY <1>1, <1>2, <2>1, <2>2 DEF Alarmed, Legacy
  <2>10. AsFound'
    BY <1>1, <1>2, <2>1, <2>2 DEF AsFound
  <2>11. QED
    BY <2>4, <2>5, <2>6, <2>7, <2>8, <2>9, <2>10 DEF HAInv
<1>7. CASE AnswerLost
  <2>1. /\ place = "asked" /\ Throw /\ unknown' = TRUE /\ doubt' = TRUE
        /\ UNCHANGED <<agent, plan, world, turn, readings, rejected, halted, frames, aim, alarmed, still>>
    BY <1>7 DEF AnswerLost
  <2>2. Typed'
    BY <1>1, <1>2, <1>3, <2>1 DEF Typed
  <2>3. Placed'
    BY <1>1, <1>2, <1>3, <2>1 DEF Placed
  <2>4. OneRequest'
    BY <1>1, <1>2, <1>3, <2>1 DEF OneRequest, Request
  <2>5. Aimed'
    BY <1>1, <1>2, <1>3, <2>1 DEF Aimed
  <2>6. OwnStates'
    BY <1>1, <1>2, <1>3, <2>1 DEF OwnStates
  <2>7. Alarmed'
    BY <1>1, <1>2, <1>3, <2>1 DEF Alarmed, Legacy
  <2>8. AsFound'
    BY <1>1, <1>2, <1>3, <2>1 DEF AsFound
  <2>9. QED
    BY <2>2, <2>3, <2>4, <2>5, <2>6, <2>7, <2>8 DEF HAInv
<1>8. CASE NotTaken
  <2>1. /\ place = "asked" /\ Throw /\ tasks' = tasks \ {Request}
        /\ UNCHANGED <<agent, plan, lampNow, ran, turn, readings, unknown, rejected, halted, frames, aim,
                       seenBy>>
    BY <1>8 DEF NotTaken, Undelivered
  <2>2. tasks' = {}
    BY <2>1 DEF OneRequest
  <2>3. Typed'
    BY <1>1, <1>2, <1>3, <2>1, <2>2 DEF Typed
  <2>4. Placed'
    BY <1>1, <1>2, <1>3, <2>1, <2>2 DEF Placed
  <2>5. OneRequest'
    BY <1>1, <1>2, <1>3, <2>1, <2>2 DEF OneRequest, Request
  <2>6. Aimed'
    BY <1>1, <1>2, <1>3, <2>1, <2>2 DEF Aimed
  <2>7. OwnStates'
    BY <1>1, <1>2, <1>3, <2>1, <2>2 DEF OwnStates
  <2>8. Alarmed'
    BY <1>1, <1>2, <1>3, <2>1, <2>2 DEF Alarmed, Legacy
  <2>9. AsFound'
    BY <1>1, <1>2, <1>3, <2>1, <2>2 DEF AsFound
  <2>10. QED
    BY <2>3, <2>4, <2>5, <2>6, <2>7, <2>8, <2>9 DEF HAInv
<1>9. QED
  BY <1>5, <1>6, <1>7, <1>8

\* How a step of the cleanup goes on: it reports, it restores, or it looks again.
Found == IF base.mode = "automatic" THEN lampNow.mode = "automatic" ELSE lampNow = base

Reports ==
  /\ place' = "done" /\ (result' = "FAIL" \/ (result' = Judged /\ Found))
  /\ UNCHANGED <<cleaning, frames, aim>>

Restores ==
  /\ place' \in {"ask", "frames"}
  /\ place' = "ask" => ThroughHA /\ aim' = "mode" /\ frames' = frames
  /\ place' = "frames" => frames' # <<>> /\ frames' \in Seq({"automatic", "manual", "original"})
  /\ aim' \in {"mode", "vector", "channels"} /\ (aim' = "vector" => base.mode = "manual")
  /\ lampNow.ch = "foreign" => lampNow.mode = "automatic" /\ agent \notin Legacy
  /\ UNCHANGED <<cleaning, result>>

LooksAgain ==
  /\ place' = "zero_guard" /\ base.mode = "manual" /\ lampNow.ch # "foreign"
  /\ UNCHANGED <<cleaning, result, frames, aim>>

\* The sequences a cleanup sends, and what it says when the lamp is as it was.
LEMMA CleanupParts ==
  ASSUME base \in Baselines
  PROVE  /\ \A sequence \in {<<base.mode>>, <<base.ch, "manual">>, <<"automatic">>},
                phase \in {"mode", "vector", "channels"} :
              /\ phase = "vector" => base.mode = "manual"
              /\ lampNow.ch = "foreign" => lampNow.mode = "automatic" /\ agent \notin Legacy
              /\ Restore(sequence, phase)
              => Restores
         /\ RestoreMode /\ (lampNow.ch = "foreign" => lampNow.mode = "automatic" /\ agent \notin Legacy)
              => Restores
         /\ Recovered /\ Found => Reports
         /\ Fail => Reports
<1>1. base.mode \in {"automatic", "manual"} /\ base.ch = "original"
  BY LampShapes
<1> DEFINE Sent == {"automatic", "manual", "original"}
<1>2. /\ <<base.mode>> \in Seq(Sent) /\ <<base.mode>> # <<>>
      /\ <<"automatic">> \in Seq(Sent) /\ <<"automatic">> # <<>>
  BY <1>1
<1>3. <<base.ch, "manual">> \in Seq(Sent) /\ <<base.ch, "manual">> # <<>>
  BY <1>1
<1>4. ASSUME NEW sequence \in {<<base.mode>>, <<base.ch, "manual">>, <<"automatic">>},
             NEW phase \in {"mode", "vector", "channels"}, phase = "vector" => base.mode = "manual",
             lampNow.ch = "foreign" => lampNow.mode = "automatic" /\ agent \notin Legacy,
             Restore(sequence, phase)
      PROVE  Restores
  <2>1. sequence \in Seq(Sent) /\ sequence # <<>>
    BY <1>2, <1>3, <1>4
  <2>2. /\ place' = "frames" /\ frames' = sequence /\ aim' = phase /\ cleaning' = cleaning
        /\ result' = result
    BY <1>4 DEF Restore
  <2>3. QED
    BY <1>4, <2>1, <2>2 DEF Restores
<1>5. ASSUME RestoreMode, lampNow.ch = "foreign" => lampNow.mode = "automatic" /\ agent \notin Legacy
      PROVE  Restores
  <2>1. CASE ThroughHA
    BY <1>5, <2>1 DEF RestoreMode, GoTo, Restores
  <2>2. CASE ~ThroughHA
    <3>1. Restore(<<base.mode>>, "mode")
      BY <1>5, <2>2 DEF RestoreMode
    <3>2. QED
      BY <1>4, <1>5, <3>1
  <2>3. QED
    BY <2>1, <2>2
<1>6. QED
  BY <1>4, <1>5 DEF Recovered, Fail, Reports

\* The first look of the cleanup.
LEMMA RecoverGoesOn ==
  ASSUME HAInv, Recover
  PROVE  /\ Reports \/ Restores
         /\ Restores => /\ agent \notin Legacy => ~rejected
                        /\ agent \in Guarded => ~unknown
<1> USE DEF HAInv, InCleanup
<1>1. place = "recover" /\ cleaning /\ base \in Baselines /\ owned \in Lamps
  BY DEF Recover, Placed, OwnStates
<1>2. /\ base \in Lamps /\ base.mode \in StartModes /\ base.ch = "original"
      /\ lampNow \in Lamps /\ lampNow.mode \in LampModes
  BY <1>1, LampShapes DEF Baselines, Typed
<1>3. lampNow = base => Found
  BY DEF Found
<1>4. ~(Reports /\ Restores)
  BY DEF Reports, Restores
<1>5. ASSUME agent \in Legacy \cup {"number"}, RecoverVector(lampNow)
      PROVE  Reports \/ Restores
  <2>1. Vector(plan[1]) \in {"first", "original"}
    BY <1>2, <1>5 DEF Vector, Typed
  <2>2. CASE lampNow.ch \notin {base.ch, Vector(plan[1])}
    BY <1>1, <1>3, <1>5, <2>2, CleanupParts DEF RecoverVector
  <2>3. CASE lampNow.ch \in {base.ch, Vector(plan[1])}
    <3>1. lampNow.ch # "foreign"
      BY <1>2, <2>1, <2>3
    <3>2. QED
      BY <1>1, <1>3, <1>5, <3>1, CleanupParts DEF RecoverVector
  <2>4. QED
    BY <2>2, <2>3
<1>6. ASSUME agent \in Power, RecoverPower(lampNow)
      PROVE  Reports \/ Restores
  <2>1. CASE lampNow.ch \notin {base.ch, "zero"}
    BY <1>1, <1>3, <1>6, <2>1, CleanupParts DEF RecoverPower
  <2>2. CASE lampNow.ch \in {base.ch, "zero"}
    <3>1. lampNow.ch # "foreign"
      BY <1>2, <2>2
    <3>2. QED
      BY <1>1, <1>3, <1>6, <3>1, CleanupParts DEF RecoverPower
  <2>3. QED
    BY <2>1, <2>2
<1>7. ASSUME agent = "resume", RecoverManual(lampNow)
      PROVE  Reports \/ Restores
  <2>1. base.mode = "manual" /\ agent \notin Legacy
    BY <1>2, <1>7 DEF StartModes, Legacy
  <2>2. QED
    BY <1>1, <1>3, <1>7, <2>1, CleanupParts DEF RecoverManual
<1>8. ASSUME agent = "compact", RecoverCompact(lampNow)
      PROVE  Reports \/ Restores
  <2>1. base.mode = "automatic" /\ owned.ch # "foreign"
    BY <1>1, <1>2, <1>8 DEF StartModes, OwnStates
  <2>2. lampNow.mode = "automatic" => Found
    BY <2>1 DEF Found
  <2>3. QED
    BY <1>1, <1>8, <2>1, <2>2, CleanupParts DEF RecoverCompact
<1>9. ASSUME agent = "composite", RecoverComposite(lampNow)
      PROVE  Reports \/ Restores
  <2>1. base.mode = "manual" /\ agent \notin Legacy
    BY <1>2, <1>9 DEF StartModes, Legacy
  <2>2. lampNow.mode \in {"manual", "automatic", "shutdown"}
    BY <1>2 DEF LampModes
  <2>3. CASE lampNow.mode # owned.mode
    BY <1>1, <1>9, <2>3, CleanupParts DEF RecoverComposite
  <2>4. CASE lampNow.mode = owned.mode /\ lampNow.mode = "manual"
    BY <1>1, <1>3, <1>9, <2>4, CleanupParts DEF RecoverComposite
  <2>5. CASE lampNow.mode = owned.mode /\ lampNow.mode = "automatic"
    <3>1. Restore(<<base.ch, "manual">>, "vector")
      BY <1>9, <2>5 DEF RecoverComposite
    <3>2. QED
      BY <1>1, <2>1, <2>5, <3>1, CleanupParts
  <2>6. CASE lampNow.mode = owned.mode /\ lampNow.mode = "shutdown"
    <3>1. Fail \/ (lampNow.ch = "zero" /\ Restore(<<base.mode>>, "mode"))
      BY <1>9, <2>6 DEF RecoverComposite
    <3>2. QED
      BY <1>1, <3>1, CleanupParts
  <2>7. QED
    BY <2>2, <2>3, <2>4, <2>5, <2>6
<1>10. CASE RecoverLegacy
  <2>1. agent \in Legacy /\ RecoverVector(lampNow)
    BY <1>10 DEF RecoverLegacy
  <2>2. QED
    BY <1>5, <2>1 DEF Legacy, Guarded
<1>11. CASE RecoverMixin
  <2>1. agent \in Mixin
    BY <1>11 DEF RecoverMixin
  <2>2. \/ Fail
        \/ Recovered /\ lampNow = base
        \/ ~rejected /\ agent = "number" /\ RecoverVector(lampNow)
        \/ ~rejected /\ agent \in Power /\ RecoverPower(lampNow)
        \/ ~rejected /\ agent = "resume" /\ RecoverManual(lampNow)
    BY <1>11, <2>1 DEF RecoverMixin, Mixin, Power
  <2>3. Reports \/ (~rejected /\ Restores)
    BY <1>1, <1>3, <1>5, <1>6, <1>7, <2>2, CleanupParts
  <2>4. QED
    BY <1>4, <2>1, <2>3 DEF Mixin, Guarded, Power
<1>12. CASE RecoverGuarded
  <2>1. \/ Fail
        \/ ~unknown /\ ~rejected /\ agent = "compact" /\ RecoverCompact(lampNow)
        \/ ~unknown /\ ~rejected /\ agent = "composite" /\ RecoverComposite(lampNow)
    BY <1>12 DEF RecoverGuarded, Guarded
  <2>2. Reports \/ (~unknown /\ ~rejected /\ Restores)
    BY <1>1, <1>8, <1>9, <2>1, CleanupParts
  <2>3. QED
    BY <1>4, <2>2
<1>13. QED
  BY <1>10, <1>11, <1>12 DEF Recover

\* The readings that confirm what was restored.
LEMMA ConfirmGoesOn ==
  ASSUME HAInv, Confirm \/ ZeroGuarded
  PROVE  Reports \/ Restores \/ LooksAgain
<1> USE DEF HAInv, InCleanup
<1>1. /\ place \in {"confirm", "zero_guard"} /\ cleaning /\ base \in Baselines
      /\ aim \in {"mode", "vector", "channels"}
  BY DEF Confirm, ZeroGuarded, Placed, Aimed
<1>2. /\ base \in Lamps /\ base.mode \in {"automatic", "manual"} /\ base.ch = "original" /\ lampNow \in Lamps
  BY <1>1, LampShapes DEF Typed
<1>3. lampNow.mode = base.mode /\ lampNow.ch = base.ch => lampNow = base
  BY <1>2, LampShapes
<1>4. lampNow = base => Found
  BY DEF Found
<1>5. CASE ZeroGuarded
  <2>1. Fail \/ (lampNow = Lamp("manual", "zero") /\ Restore(<<base.ch, "manual">>, "vector"))
    BY <1>5 DEF ZeroGuarded
  <2>2. base.mode = "manual"
    BY <1>5 DEF ZeroGuarded, Aimed
  <2>3. lampNow = Lamp("manual", "zero") => lampNow.ch = "zero"
    BY LampShapes
  <2>4. QED
    BY <1>1, <2>1, <2>2, <2>3, CleanupParts
<1>6. CASE Confirm /\ lampNow.mode # AimedMode
  BY <1>1, <1>6, CleanupParts DEF Confirm
<1>7. CASE Confirm /\ lampNow.mode = AimedMode /\ aim = "mode"
  <2>1. ModeConfirmed(lampNow) /\ lampNow.mode = base.mode
    BY <1>7 DEF Confirm, AimedMode
  <2>2. CASE base.mode = "automatic" \/ lampNow.ch = base.ch
    <3>1. Recovered /\ Found
      BY <1>3, <1>4, <2>1, <2>2 DEF ModeConfirmed, Found
    <3>2. QED
      BY <1>1, <3>1, CleanupParts
  <2>3. CASE ~(base.mode = "automatic" \/ lampNow.ch = base.ch)
    <3>1. \/ Fail
          \/ lampNow.ch = "zero" /\ GoTo("zero_guard") /\ UNCHANGED <<frames, aim, zeroSeen>>
      BY <2>1, <2>3 DEF ModeConfirmed
    <3>2. QED
      BY <1>1, <1>2, <2>3, <3>1, CleanupParts DEF LooksAgain, GoTo
  <2>4. QED
    BY <2>2, <2>3
<1>8. CASE Confirm /\ lampNow.mode = AimedMode /\ aim = "vector"
  <2>1. base.mode = "manual" /\ lampNow.mode = "manual"
    BY <1>8 DEF AimedMode, Aimed
  <2>2. Fail \/ (lampNow.ch = base.ch /\ Recovered)
    BY <1>8 DEF Confirm
  <2>3. QED
    BY <1>1, <1>3, <1>4, <2>1, <2>2, CleanupParts
<1>9. CASE Confirm /\ lampNow.mode = AimedMode /\ aim = "channels"
  <2>1. lampNow.mode = "manual"
    BY <1>9 DEF AimedMode
  <2>2. \/ Fail
        \/ lampNow.ch = base.ch /\ base.mode = "manual" /\ Recovered
        \/ lampNow.ch = base.ch /\ RestoreMode
    BY <1>9 DEF Confirm
  <2>3. QED
    BY <1>1, <1>2, <1>3, <1>4, <2>1, <2>2, CleanupParts
<1>10. QED
  BY <1>1, <1>5, <1>6, <1>7, <1>8, <1>9

LEMMA CleanupSteps ==
  ASSUME HAInv, Recover \/ Confirm \/ ZeroGuarded
  PROVE  HAInv'
<1> USE DEF HAInv, world, readings, memory, control, seenBy, InCleanup, InExperiment
<1>1. agent' = agent => Baselines' = Baselines
  BY DEF Baselines, StartModes
<1>2. /\ place \in {"recover", "confirm", "zero_guard"} /\ cleaning /\ base \in Baselines
      /\ owned \in Lamps /\ result # "PASS"
      /\ got' = lampNow /\ still' = TRUE /\ doubt' = doubt
      /\ alarmed' = (alarmed \/ (lampNow.ch = "foreign" /\ lampNow.mode # "automatic"))
      /\ UNCHANGED <<agent, plan, world, turn, base, owned, delivered, unknown, rejected, confirmed, halted>>
  BY DEF Recover, RecoverLegacy, RecoverMixin, RecoverGuarded, Confirm, ZeroGuarded, Reading, Placed, OwnStates
<1>3. /\ Reports \/ Restores \/ LooksAgain
      /\ Restores \/ LooksAgain =>
           /\ agent \notin Legacy => ~alarmed
           /\ agent \in Guarded => ~unknown
      /\ LooksAgain => place # "recover"
  <2>1. CASE Recover
    <3>1. ~LooksAgain \/ ~(Reports \/ Restores)
      BY DEF LooksAgain, Reports, Restores
    <3>2. place = "recover"
      BY <2>1 DEF Recover
    <3>3. QED
      BY <2>1, <3>1, <3>2, RecoverGoesOn DEF Alarmed
  <2>2. CASE Confirm \/ ZeroGuarded
    <3>1. place \in {"confirm", "zero_guard"}
      BY <2>2 DEF Confirm, ZeroGuarded
    <3>2. QED
      BY <2>2, <3>1, ConfirmGoesOn DEF Alarmed, OneRequest
  <2>3. QED
    BY <2>1, <2>2
<1>4. CASE Reports
  <2>1. /\ place' = "done" /\ (result' = "FAIL" \/ (result' = Judged /\ Found))
        /\ UNCHANGED <<cleaning, frames, aim>>
    BY <1>4 DEF Reports
  <2>2. Typed'
    BY <1>1, <1>2, <2>1 DEF Typed
  <2>3. Placed'
    BY <1>1, <1>2, <2>1 DEF Placed
  <2>4. OneRequest'
    BY <1>1, <1>2, <2>1 DEF OneRequest, Request, Judged
  <2>5. Aimed'
    BY <1>1, <1>2, <2>1 DEF Aimed
  <2>6. OwnStates'
    BY <1>1, <1>2, <2>1 DEF OwnStates
  <2>7. Alarmed'
    BY <1>1, <1>2, <2>1 DEF Alarmed, Legacy
  <2>8. AsFound'
    BY <1>1, <1>2, <2>1 DEF AsFound, Found
  <2>9. QED
    BY <2>2, <2>3, <2>4, <2>5, <2>6, <2>7, <2>8 DEF HAInv
<1>5. CASE Restores
  <2>1. ThroughHA => ~unknown /\ agent \notin Guarded
    BY DEF ThroughHA, Power, Guarded
  <2>2. /\ place' \in {"ask", "frames"}
        /\ place' = "ask" => ThroughHA /\ aim' = "mode" /\ frames' = frames
        /\ place' = "frames" => frames' # <<>> /\ frames' \in Seq({"automatic", "manual", "original"})
        /\ aim' \in {"mode", "vector", "channels"} /\ (aim' = "vector" => base.mode = "manual")
        /\ lampNow.ch = "foreign" => lampNow.mode = "automatic" /\ agent \notin Legacy
        /\ UNCHANGED <<cleaning, result>>
    BY <1>5 DEF Restores
  <2>3. (agent \notin Legacy => ~alarmed) /\ (agent \in Guarded => ~unknown)
    BY <1>3, <1>5
  <2>4. Typed'
    BY <1>1, <1>2, <2>1, <2>2, <2>3 DEF Typed
  <2>5. Placed'
    BY <1>1, <1>2, <2>1, <2>2, <2>3 DEF Placed
  <2>6. OneRequest'
    BY <1>1, <1>2, <2>1, <2>2, <2>3 DEF OneRequest, Request
  <2>7. Aimed'
    BY <1>1, <1>2, <2>1, <2>2, <2>3 DEF Aimed
  <2>8. OwnStates'
    BY <1>1, <1>2, <2>1, <2>2, <2>3 DEF OwnStates
  <2>9. Alarmed'
    BY <1>1, <1>2, <2>1, <2>2, <2>3 DEF Alarmed, Legacy
  <2>10. AsFound'
    BY <1>1, <1>2, <2>1, <2>2, <2>3 DEF AsFound
  <2>11. QED
    BY <2>4, <2>5, <2>6, <2>7, <2>8, <2>9, <2>10 DEF HAInv
<1>6. CASE LooksAgain
  <2>1. /\ place' = "zero_guard" /\ base.mode = "manual" /\ lampNow.ch # "foreign"
        /\ UNCHANGED <<cleaning, result, frames, aim>>
    BY <1>6 DEF LooksAgain
  <2>2. (agent \notin Legacy => ~alarmed) /\ (agent \in Guarded => ~unknown) /\ place # "recover"
    BY <1>3, <1>6
  <2>3. Typed'
    BY <1>1, <1>2, <2>1, <2>2 DEF Typed
  <2>4. Placed'
    BY <1>1, <1>2, <2>1, <2>2 DEF Placed
  <2>5. OneRequest'
    BY <1>1, <1>2, <2>1, <2>2 DEF OneRequest, Request
  <2>6. Aimed'
    BY <1>1, <1>2, <2>1, <2>2 DEF Aimed
  <2>7. OwnStates'
    BY <1>1, <1>2, <2>1, <2>2 DEF OwnStates
  <2>8. Alarmed'
    BY <1>1, <1>2, <2>1, <2>2 DEF Alarmed, Legacy
  <2>9. AsFound'
    BY <1>1, <1>2, <2>1, <2>2 DEF AsFound
  <2>10. QED
    BY <2>3, <2>4, <2>5, <2>6, <2>7, <2>8, <2>9 DEF HAInv
<1>7. QED
  BY <1>3, <1>4, <1>5, <1>6

LEMMA SendingSteps ==
  ASSUME HAInv, SendFrame \/ Barrier \/ CleanupBreaks
  PROVE  HAInv'
<1> USE DEF HAInv, world, readings, memory, control, seenBy, InCleanup, InExperiment
<1>1. agent' = agent => Baselines' = Baselines
  BY DEF Baselines, StartModes
<1>2. place \in InCleanup /\ cleaning /\ base \in Baselines /\ owned \in Lamps /\ result # "PASS"
  BY DEF SendFrame, Barrier, CleanupBreaks, Placed, OwnStates
<1>3. Throw => place' = "done" /\ result' = "FAIL" /\ cleaning' = cleaning
  BY <1>2 DEF Throw
<1>4. CASE SendFrame
  <2>1. place = "frames" /\ frames \in Seq({"automatic", "manual", "original"}) /\ frames # <<>>
    BY <1>4 DEF SendFrame, Typed
  <2>2. /\ Head(frames) \in {"automatic", "manual", "original"}
        /\ Tail(frames) \in Seq({"automatic", "manual", "original"})
        /\ Len(frames) # 1 => Tail(frames) # <<>>
    <3>1. Head(frames) \in {"automatic", "manual", "original"} /\ Len(frames) \in Nat /\ Len(frames) # 0
      BY <2>1
    <3>2. Tail(frames) \in Seq({"automatic", "manual", "original"})
      BY <2>1
    <3>3. Len(Tail(frames)) = Len(frames) - 1
      BY <2>1
    <3>4. Len(frames) # 1 => Tail(frames) # <<>>
      <4>1. Len(<<>>) = 0
        OBVIOUS
      <4>2. QED
        BY <3>1, <3>3, <4>1
    <3>5. QED
      BY <3>1, <3>2, <3>4
  <2>3. /\ frames' = Tail(frames) /\ (lampNow' = lampNow \/ lampNow' \in Answers(Head(frames)))
        /\ (place' = "barrier" \/ (place' = "frames" /\ Len(frames) # 1))
        /\ UNCHANGED <<agent, plan, tasks, ran, turn, readings, unknown, rejected, halted, aim, seenBy, cleaning,
                       result>>
    BY <1>4 DEF SendFrame, GoTo
  <2>4. lampNow' \in Lamps
    <3>1. base.ch \in Chs /\ lampNow \in Lamps /\ lampNow.ch \in Chs /\ lampNow.mode \in LampModes
      BY <1>2, LampShapes DEF Typed
    <3>2. CASE Head(frames) = "automatic"
      BY <2>3, <3>1, <3>2, LampShapes DEF Answers, ProgramOutputs, LampModes, Chs
    <3>3. CASE Head(frames) = "manual"
      BY <2>3, <3>1, <3>3, LampShapes DEF Answers, LampModes
    <3>4. CASE Head(frames) = "original"
      BY <2>3, <3>1, <3>4 DEF Answers, Lamps, LampModes, Chs
    <3>5. QED
      BY <2>2, <3>2, <3>3, <3>4
  <2>5. Typed'
    BY <1>1, <1>2, <2>1, <2>2, <2>3, <2>4 DEF Typed
  <2>6. Placed'
    BY <1>1, <1>2, <2>1, <2>2, <2>3 DEF Placed
  <2>7. OneRequest'
    BY <1>1, <1>2, <2>1, <2>2, <2>3 DEF OneRequest, Request
  <2>8. Aimed'
    BY <1>1, <1>2, <2>1, <2>2, <2>3 DEF Aimed
  <2>9. OwnStates'
    BY <1>1, <1>2, <2>1, <2>2, <2>3 DEF OwnStates
  <2>10. Alarmed'
    BY <1>1, <1>2, <2>1, <2>2, <2>3 DEF Alarmed, Legacy
  <2>11. AsFound'
    BY <1>1, <1>2, <2>1, <2>2, <2>3 DEF AsFound
  <2>12. QED
    BY <2>5, <2>6, <2>7, <2>8, <2>9, <2>10, <2>11 DEF HAInv
<1>5. CASE Barrier
  <2>1. /\ place = "barrier"
        /\ (place' = "confirm" /\ UNCHANGED <<cleaning, result>>) \/ Throw
        /\ UNCHANGED <<agent, plan, world, turn, readings, unknown, rejected, halted, frames, aim, seenBy>>
    BY <1>5 DEF Barrier, GoTo
  <2>2. Typed'
    BY <1>1, <1>2, <1>3, <2>1 DEF Typed
  <2>3. Placed'
    BY <1>1, <1>2, <1>3, <2>1 DEF Placed
  <2>4. OneRequest'
    BY <1>1, <1>2, <1>3, <2>1 DEF OneRequest, Request
  <2>5. Aimed'
    BY <1>1, <1>2, <1>3, <2>1 DEF Aimed
  <2>6. OwnStates'
    BY <1>1, <1>2, <1>3, <2>1 DEF OwnStates
  <2>7. Alarmed'
    BY <1>1, <1>2, <1>3, <2>1 DEF Alarmed, Legacy
  <2>8. AsFound'
    BY <1>1, <1>2, <1>3, <2>1 DEF AsFound
  <2>9. QED
    BY <2>2, <2>3, <2>4, <2>5, <2>6, <2>7, <2>8 DEF HAInv
<1>6. CASE CleanupBreaks
  <2>1. Throw /\ UNCHANGED <<agent, plan, world, turn, readings, memory, halted, frames, aim, seenBy>>
    BY <1>6 DEF CleanupBreaks
  <2>2. Typed'
    BY <1>1, <1>2, <1>3, <2>1 DEF Typed
  <2>3. Placed'
    BY <1>1, <1>2, <1>3, <2>1 DEF Placed
  <2>4. OneRequest'
    BY <1>1, <1>2, <1>3, <2>1 DEF OneRequest, Request
  <2>5. Aimed'
    BY <1>1, <1>2, <1>3, <2>1 DEF Aimed
  <2>6. OwnStates'
    BY <1>1, <1>2, <1>3, <2>1 DEF OwnStates
  <2>7. Alarmed'
    BY <1>1, <1>2, <1>3, <2>1 DEF Alarmed, Legacy
  <2>8. AsFound'
    BY <1>1, <1>2, <1>3, <2>1 DEF AsFound
  <2>9. QED
    BY <2>2, <2>3, <2>4, <2>5, <2>6, <2>7, <2>8 DEF HAInv
<1>7. QED
  BY <1>4, <1>5, <1>6

LEMMA HAStep == HAInv /\ [HANext]_haVars => HAInv'
<1> SUFFICES ASSUME HAInv, [HANext]_haVars PROVE HAInv'
  OBVIOUS
<1>1. CASE HANext
  BY <1>1, WorldSteps, BeginningSteps, ExperimentSteps, RequestSteps, CleanupSteps, SendingSteps DEF HANext
<1>2. CASE UNCHANGED haVars
  <2> USE DEF HAInv, haVars, world, readings, memory, control, seenBy, InCleanup, InExperiment
  <2>1. agent' = agent => Baselines' = Baselines
    BY DEF Baselines, StartModes
  <2>2. Typed'
    BY <1>2, <2>1 DEF Typed
  <2>3. Placed'
    BY <1>2, <2>1 DEF Placed
  <2>4. OneRequest'
    BY <1>2, <2>1 DEF OneRequest, Request
  <2>5. Aimed'
    BY <1>2, <2>1 DEF Aimed
  <2>6. OwnStates'
    BY <1>2, <2>1 DEF OwnStates
  <2>7. Alarmed'
    BY <1>2, <2>1 DEF Alarmed, Legacy
  <2>8. AsFound'
    BY <1>2, <2>1 DEF AsFound
  <2>9. QED
    BY <2>2, <2>3, <2>4, <2>5, <2>6, <2>7, <2>8 DEF HAInv
<1>3. QED
  BY <1>1, <1>2

\* HAInv is an invariant of every worker that acts through Home Assistant.
LEMMA HAAlways == HASpec => []HAInv
BY HAStarts, HAStep, PTL DEF HASpec

\* A recovery reported as PASS leaves Home Assistant nothing to do and the lamp
\* as it was found, for every set of workers and every plan of CompactWorker:
\* HAValidationWorker.run and its successors, whatever is late, lost or refused.
THEOREM LateTasksAreExcluded == HASpec => []LateTasksExcluded
<1>1. HAInv => LateTasksExcluded
  BY DEF HAInv, Placed, OneRequest, AsFound, LateTasksExcluded
<1>2. QED
  BY <1>1, HAAlways, PTL

\* After a lost answer or a vector of somebody else no worker asks Home
\* Assistant or sends a frame, but for the frames of the unguarded workers'
\* cleanup after a lost answer, in any run of any length: _call_ha, _recover.
THEOREM DoubtAlwaysForbidsActing == HASpec => DoubtForbidsActing
<1>1. HAInv /\ [HANext]_haVars =>
        [Asks \/ Sends =>
           /\ doubt => Sends /\ agent \notin Guarded
           /\ IF agent \in Legacy THEN got.ch = "foreign" => got.mode = "automatic"
              ELSE ~alarmed]_haVars
  BY DEF HAInv, OneRequest, Alarmed, Asks, Sends, InCleanup, haVars, Typed, Guarded
<1>2. QED
  BY <1>1, HAAlways, PTL DEF HASpec, DoubtForbidsActing

-----------------------------------------------------------------------------
(* Downloads.                                                                *)

Connected == {"request", "reply", "body"}
Stages == {"idle", "look", "waiting", "connect"} \cup Connected

Requested ==
  /\ downloads \in Nat /\ stage \in Stages /\ asked \in BOOLEAN
  /\ hops \in Seq(Hosts) /\ Len(hops) <= MaxHops
  /\ stage # "idle" => downloads > 0 /\ hops[1] \in Public
  /\ downloads > 0 => Len(hops) > 0 /\ (hops[1] \in Public \/ outcome = "unsafe_download_url")
  /\ \A i \in 2..Len(hops) :
       /\ hops[i] \in Public \cup Asset
       /\ hops[i - 1] \in Asset \cup {Raw} => hops[i] = hops[i - 1]

\* One resolver thread belongs to a download that waits, the others to nobody.
Resolving ==
  /\ free \in Nat /\ strays \in Nat
  /\ asked => stage = "waiting"
  /\ free + strays + (IF asked THEN 1 ELSE 0) = DnsSlots

Sockets == [open : BOOLEAN, readers : Nat, held : BOOLEAN]
Left(s) == s \in Sockets /\ s.open = FALSE /\ s.readers = 0 /\ s.held = FALSE

\* Who holds the socket, and who reads from it.
Holding ==
  /\ socket \in Sockets
  /\ stage \notin Connected => Left(socket)
  /\ stage \in Connected => socket.open = TRUE
  /\ stage = "request" => socket.readers = 0 /\ socket.held = TRUE
  /\ stage = "reply" => socket.readers = 1 /\ socket.held = TRUE
  /\ stage = "body" => socket.readers = 1

Receiving ==
  /\ total \in Nat /\ declared \in 0..Undeclared
  /\ stage # "idle" => total <= MaxBytes /\ outcome # "done"
  /\ outcome = "done" => total <= MaxBytes /\ declared \in {total, Undeclared}

DownloadInv == Requested /\ Resolving /\ Holding /\ Receiving

\* What the operations of a socket make of it.
LEMMA SocketOperations ==
  ASSUME NEW s \in Sockets
  PROVE  /\ /\ SocketClosed(s) \in Sockets
            /\ SocketClosed(s).readers = s.readers /\ SocketClosed(s).held = s.held
            /\ s.readers = 0 => SocketClosed(s).open = FALSE
            /\ s.readers # 0 => SocketClosed(s).open = s.open
         /\ /\ ReaderClosed(s) \in Sockets /\ ReaderClosed(s).held = s.held
            /\ s.readers = 0 => ReaderClosed(s) = s
            /\ s.readers = 1 => ReaderClosed(s).readers = 0 /\ ReaderClosed(s).open = FALSE
         /\ /\ ConnectionClosed(s) \in Sockets /\ ConnectionClosed(s).held = FALSE
            /\ ConnectionClosed(s).readers = s.readers
            /\ s.readers = 0 /\ (s.held \/ s.open = FALSE) => ConnectionClosed(s).open = FALSE
            /\ s.readers # 0 => ConnectionClosed(s).open = s.open
<1>1. ASSUME NEW t \in Sockets
      PROVE  /\ SocketClosed(t) \in Sockets
             /\ SocketClosed(t).readers = t.readers /\ SocketClosed(t).held = t.held
             /\ t.readers = 0 => SocketClosed(t).open = FALSE
             /\ t.readers # 0 => SocketClosed(t).open = t.open
  <2>1. CASE t.readers = 0
    <3> DEFINE u == [t EXCEPT !.open = FALSE]
    <3>1. u \in Sockets /\ u.readers = t.readers /\ u.held = t.held /\ u.open = FALSE
      BY DEF Sockets
    <3>2. SocketClosed(t) = u
      BY <2>1 DEF SocketClosed
    <3> HIDE DEF u
    <3>3. QED
      BY <2>1, <3>1, <3>2
  <2>2. CASE t.readers # 0
    BY <2>2 DEF SocketClosed
  <2>3. QED
    BY <2>1, <2>2
<1>2. /\ ReaderClosed(s) \in Sockets /\ ReaderClosed(s).held = s.held
      /\ s.readers = 0 => ReaderClosed(s) = s
      /\ s.readers = 1 => ReaderClosed(s).readers = 0 /\ ReaderClosed(s).open = FALSE
  <2>1. CASE s.readers = 0
    BY <2>1 DEF ReaderClosed
  <2>2. CASE s.readers # 0
    <3> DEFINE u == [s EXCEPT !.readers = @ - 1]
    <3>1. s.readers \in Nat /\ s.readers - 1 \in Nat
      BY <2>2 DEF Sockets
    <3>2. u \in Sockets /\ u.readers = s.readers - 1 /\ u.held = s.held
      BY <3>1 DEF Sockets
    <3>3. ReaderClosed(s) = SocketClosed(u)
      BY <2>2 DEF ReaderClosed
    <3> HIDE DEF u
    <3>4. s.readers = 1 => u.readers = 0
      BY <3>2
    <3>5. QED
      BY <1>1, <2>2, <3>2, <3>3, <3>4
  <2>3. QED
    BY <2>1, <2>2
<1>3. /\ ConnectionClosed(s) \in Sockets /\ ConnectionClosed(s).held = FALSE
      /\ ConnectionClosed(s).readers = s.readers
      /\ s.readers = 0 /\ (s.held \/ s.open = FALSE) => ConnectionClosed(s).open = FALSE
      /\ s.readers # 0 => ConnectionClosed(s).open = s.open
  <2>1. CASE s.held
    <3> DEFINE u == [s EXCEPT !.held = FALSE]
    <3>1. u \in Sockets /\ u.readers = s.readers /\ u.held = FALSE /\ u.open = s.open
      BY DEF Sockets
    <3>2. ConnectionClosed(s) = SocketClosed(u)
      BY <2>1 DEF ConnectionClosed
    <3> HIDE DEF u
    <3>3. QED
      BY <1>1, <3>1, <3>2
  <2>2. CASE ~s.held
    <3>1. s.held = FALSE
      BY <2>2 DEF Sockets
    <3>2. QED
      BY <2>2, <3>1 DEF ConnectionClosed
  <2>3. QED
    BY <2>1, <2>2
<1>4. QED
  BY <1>1, <1>2, <1>3

\* Whatever stage ends, nobody holds the socket afterwards.
LEMMA SocketsEnd ==
  ASSUME Holding, stage \in Stages
  PROVE  Left(ConnectionClosed(ReaderClosed(socket)))
<1> DEFINE t == ReaderClosed(socket)
<1>1. t \in Sockets /\ t.readers = 0 /\ (t.held \/ t.open = FALSE)
  <2>1. CASE stage \in {"reply", "body"}
    <3>1. socket \in Sockets /\ socket.readers = 1
      BY <2>1 DEF Holding
    <3>2. QED
      BY <3>1, SocketOperations
  <2>2. CASE stage = "request"
    <3>1. socket \in Sockets /\ socket.readers = 0 /\ socket.held = TRUE
      BY <2>2 DEF Holding
    <3>2. QED
      BY <3>1, SocketOperations
  <2>3. CASE stage \notin Connected
    <3>1. Left(socket)
      BY <2>3 DEF Holding
    <3>2. QED
      BY <3>1, SocketOperations DEF Left
  <2>4. QED
    BY <2>1, <2>2, <2>3 DEF Connected
<1> HIDE DEF t
<1>2. Left(ConnectionClosed(t))
  BY <1>1, SocketOperations DEF Left
<1>3. QED
  BY <1>2 DEF t

LEMMA DownloadStarts == DownloadInit => DownloadInv
<1> SUFFICES ASSUME DownloadInit PROVE DownloadInv
  OBVIOUS
<1> USE DEF DownloadInit
<1>1. <<>> \in Seq(Hosts) /\ Len(<<>>) = 0
  OBVIOUS
<1>2. Requested
  <2>1. hops \in Seq(Hosts) /\ Len(hops) = 0 /\ 2..Len(hops) = {}
    BY <1>1
  <2>2. downloads \in Nat /\ ~(downloads > 0)
    OBVIOUS
  <2>3. asked \in BOOLEAN /\ stage \in Stages
    BY DEF Stages
  <2>4. QED
    BY <2>1, <2>2, <2>3 DEF Requested, MaxHops
<1>3. Resolving
  BY DownloadAssumption DEF Resolving
<1>4. Holding
  BY DEF Holding, Connected, Left, Sockets, NoSocket
<1>5. Receiving
  BY DownloadAssumption DEF Receiving, Undeclared
<1>6. QED
  BY <1>2, <1>3, <1>4, <1>5 DEF DownloadInv

LEMMA DownloadStep == DownloadInv /\ [DownloadNext]_downloadVars => DownloadInv'
<1> SUFFICES ASSUME DownloadInv, [DownloadNext]_downloadVars PROVE DownloadInv'
  OBVIOUS
<1> USE DEF DownloadInv
<1>1. \A how : Over(how) => stage' = "idle" /\ outcome' = how /\ Left(socket')
  BY SocketsEnd DEF Over, Requested
<1>2. Undeclared \in Nat /\ MaxBytes \in Nat /\ DnsSlots \in Nat
  BY DownloadAssumption DEF Undeclared
<1>3. CASE Begin
  <2>1. PICK host \in Hosts :
          /\ stage = "idle"
          /\ downloads' = downloads + 1 /\ hops' = <<host>> /\ expired' = FALSE
          /\ IF host \in Public THEN stage' = "look" /\ outcome' = "none"
             ELSE stage' = "idle" /\ outcome' = "unsafe_download_url"
          /\ total' = 0 /\ received' = 0 /\ declared' = Undeclared /\ socket' = NoSocket
          /\ UNCHANGED <<free, asked, answer, strays>>
    BY <1>3 DEF Begin
  <2>2. hops' \in Seq(Hosts) /\ Len(hops') = 1 /\ hops'[1] = host
    BY <2>1
  <2>3. Requested'
    BY <2>1, <2>2 DEF Requested, Stages, Connected, MaxHops
  <2>4. Resolving'
    BY <2>1 DEF Resolving
  <2>5. Holding'
    BY <2>1 DEF Holding, Connected, Left, Sockets, NoSocket
  <2>6. Receiving'
    BY <2>1, <1>2 DEF Receiving
  <2>7. QED
    BY <2>3, <2>4, <2>5, <2>6
<1>4. CASE Look \/ TakeAnswer
  <2>1. /\ \/ stage' = "idle" /\ outcome' \notin {"none", "done", "unsafe_download_url"} /\ Left(socket')
           \/ stage = "look" /\ stage' = "waiting" /\ UNCHANGED <<socket, outcome>>
           \/ stage = "waiting" /\ stage' = "connect" /\ UNCHANGED <<socket, outcome>>
        /\ stage \in {"look", "waiting"}
        /\ UNCHANGED <<downloads, hops, declared, total>>
    BY <1>1, <1>4 DEF Look, TakeAnswer
  <2>2. Requested'
    <3>1. asked' \in BOOLEAN
      BY <1>4 DEF Look, TakeAnswer, Requested
    <3>2. QED
      BY <2>1, <3>1 DEF Requested, Stages, Connected
  <2>3. Resolving'
    <3>1. CASE Look
      <4>1. ~asked /\ strays' = strays
        BY <3>1 DEF Look, Resolving
      <4>2. \/ UNCHANGED <<free, asked>> /\ stage' = "idle"
            \/ free # 0 /\ free' = free - 1 /\ asked' = TRUE /\ stage' = "waiting"
        BY <1>1, <3>1 DEF Look
      <4>3. QED
        BY <4>1, <4>2 DEF Resolving
    <3>2. CASE TakeAnswer
      <4>1. asked' = FALSE /\ free' = free /\ strays' = (IF asked THEN strays + 1 ELSE strays)
        BY <3>2 DEF TakeAnswer
      <4>2. QED
        BY <4>1 DEF Resolving
    <3>3. QED
      BY <1>4, <3>1, <3>2
  <2>4. Holding'
    BY <2>1 DEF Holding, Connected, Left
  <2>5. Receiving'
    BY <2>1 DEF Receiving
  <2>6. QED
    BY <2>2, <2>3, <2>4, <2>5
<1>5. CASE Put \/ Release
  <2>1. /\ UNCHANGED <<downloads, stage, hops, expired, socket, declared, total, received, outcome>>
        /\ \/ asked /\ asked' = FALSE /\ strays' = strays + 1 /\ UNCHANGED free
           \/ strays > 0 /\ strays' = strays - 1 /\ free' = free + 1 /\ UNCHANGED asked
    BY <1>5 DEF Put, Release
  <2>2. Requested'
    BY <2>1 DEF Requested
  <2>3. Resolving'
    BY <2>1 DEF Resolving
  <2>4. Holding' /\ Receiving'
    BY <2>1 DEF Holding, Receiving
  <2>5. QED
    BY <2>2, <2>3, <2>4
<1>6. CASE Expire \/ UNCHANGED downloadVars
  <2>1. UNCHANGED <<downloads, stage, hops, free, asked, strays, socket, declared, total, outcome>>
    BY <1>6 DEF Expire, downloadVars
  <2>2. QED
    BY <2>1 DEF Requested, Resolving, Holding, Receiving
<1>7. CASE OpenConnection \/ Ask \/ HeadFails \/ ReadFails
  <2>1. /\ \/ stage' = "idle" /\ outcome' \notin {"none", "done", "unsafe_download_url"} /\ Left(socket')
           \/ /\ stage = "connect" /\ stage' = "request" /\ UNCHANGED outcome
              /\ socket' \in Sockets /\ socket'.open = TRUE /\ socket'.readers = 0 /\ socket'.held = TRUE
           \/ /\ stage = "request" /\ stage' = "reply" /\ UNCHANGED outcome
              /\ socket' \in Sockets /\ socket'.open = TRUE /\ socket'.readers = 1 /\ socket'.held = TRUE
        /\ stage \in {"connect"} \cup Connected
        /\ UNCHANGED <<downloads, hops, free, asked, strays, declared, total>>
    <3>1. ASSUME stage = "request", socket' = [socket EXCEPT !.readers = @ + 1]
          PROVE  socket' \in Sockets /\ socket'.open = TRUE /\ socket'.readers = 1 /\ socket'.held = TRUE
      <4>1. socket \in Sockets /\ socket.open = TRUE /\ socket.readers = 0 /\ socket.held = TRUE
        BY <3>1 DEF Holding, Connected
      <4>2. QED
        BY <3>1, <4>1 DEF Sockets
    <3>2. CASE OpenConnection
      <4>1. /\ stage = "connect" /\ UNCHANGED <<downloads, hops, free, asked, strays, declared, total>>
            /\ \/ \E how \in {"download_failed", "download_timeout"} : Over(how)
               \/ /\ stage' = "request" /\ UNCHANGED outcome
                  /\ socket' = [open |-> TRUE, readers |-> 0, held |-> TRUE]
        BY <3>2 DEF OpenConnection
      <4>2. socket' = [open |-> TRUE, readers |-> 0, held |-> TRUE] =>
              socket' \in Sockets /\ socket'.open = TRUE /\ socket'.readers = 0 /\ socket'.held = TRUE
        BY DEF Sockets
      <4>3. CASE stage' = "request" /\ UNCHANGED outcome /\ socket' = [open |-> TRUE, readers |-> 0, held |-> TRUE]
        BY <4>1, <4>2, <4>3
      <4>4. CASE \E how \in {"download_failed", "download_timeout"} : Over(how)
        BY <1>1, <4>1, <4>4
      <4>5. QED
        BY <4>1, <4>3, <4>4
    <3>3. CASE Ask
      <4>1. /\ stage = "request" /\ UNCHANGED <<downloads, hops, free, asked, strays, declared, total>>
            /\ \/ \E how \in {"download_failed", "download_timeout"} : Over(how)
               \/ /\ stage' = "reply" /\ UNCHANGED outcome
                  /\ socket' = [socket EXCEPT !.readers = @ + 1]
        BY <3>3 DEF Ask
      <4>2. QED
        BY <1>1, <3>1, <4>1 DEF Connected
    <3>4. CASE HeadFails \/ ReadFails
      <4>1. /\ stage \in Connected /\ UNCHANGED <<downloads, hops, free, asked, strays, declared, total>>
            /\ \E how \in {"download_failed", "download_http_failed", "download_redirect_limit",
                          "download_timeout"} : Over(how)
        BY <3>4 DEF HeadFails, ReadFails, Connected
      <4>2. QED
        BY <1>1, <4>1
    <3>5. QED
      BY <1>7, <3>2, <3>3, <3>4
  <2>2. Requested'
    BY <2>1 DEF Requested, Stages, Connected
  <2>3. Resolving'
    BY <2>1 DEF Resolving, Connected
  <2>4. Holding'
    BY <2>1 DEF Holding, Connected, Left
  <2>5. Receiving'
    BY <2>1 DEF Receiving, Connected
  <2>6. QED
    BY <2>2, <2>3, <2>4, <2>5
<1>8. CASE Redirect
  <2>1. PICK next \in Hosts :
          /\ stage = "reply"
          /\ \/ /\ stage' = "idle" /\ outcome' \notin {"none", "done"}
                /\ Left(socket') /\ UNCHANGED hops
             \/ /\ Len(hops) # MaxHops /\ next \notin OtherHosts /\ MayFollow(next)
                /\ hops' = Append(hops, next) /\ stage' = "look" /\ UNCHANGED outcome
                /\ Left(socket')
          /\ UNCHANGED <<downloads, free, asked, strays, declared, total>>
    BY <1>1, <1>8, SocketsEnd DEF Redirect, Requested
  <2>2. Len(hops) > 0 /\ hops \in Seq(Hosts) /\ hops[1] \in Public /\ downloads > 0 /\ ~asked
    BY <2>1 DEF Requested, Resolving
  <2>3. Requested'
    <3>1. CASE UNCHANGED hops
      BY <2>1, <2>2, <3>1 DEF Requested, Stages, Connected
    <3>2. CASE /\ Len(hops) # MaxHops /\ next \notin OtherHosts /\ MayFollow(next)
               /\ hops' = Append(hops, next) /\ stage' = "look"
      <4>1. /\ hops' \in Seq(Hosts) /\ Len(hops') = Len(hops) + 1 /\ hops'[Len(hops) + 1] = next
            /\ \A i \in 1..Len(hops) : hops'[i] = hops[i]
        BY <2>2, <3>2
      <4>2. Len(hops') <= MaxHops /\ Len(hops') > 0 /\ hops'[1] \in Public
        <5>1. Len(hops) \in Nat /\ Len(hops) <= 4 /\ Len(hops) # 4
          BY <2>2, <3>2 DEF Requested, MaxHops
        <5>2. hops'[1] = hops[1]
          BY <2>2, <4>1, <5>1
        <5>3. Len(hops') \in Nat /\ Len(hops') = Len(hops) + 1
          BY <4>1, <5>1
        <5>4. Len(hops') <= 4 /\ Len(hops') > 0
          <6> DEFINE n == Len(hops)
          <6> HIDE DEF n
          <6>1. n \in Nat /\ n <= 4 /\ n # 4 => n + 1 <= 4 /\ n + 1 > 0
            OBVIOUS
          <6>2. QED
            BY <5>1, <5>3, <6>1 DEF n
        <5>5. QED
          BY <2>2, <5>2, <5>4 DEF MaxHops
      <4>3. next \in Public \cup Asset /\ (hops[Len(hops)] \in Asset \cup {Raw} => next = hops[Len(hops)])
        BY <3>2 DEF MayFollow, Host, Hosts
      <4>4. ASSUME NEW i \in 2..Len(hops')
            PROVE  /\ hops'[i] \in Public \cup Asset
                   /\ hops'[i - 1] \in Asset \cup {Raw} => hops'[i] = hops'[i - 1]
        <5>1. CASE i = Len(hops) + 1
          <6>1. i - 1 = Len(hops) /\ Len(hops) \in 1..Len(hops)
            BY <2>2, <5>1
          <6>2. QED
            BY <4>1, <4>3, <5>1, <6>1
        <5>2. CASE i # Len(hops) + 1
          <6>1. i \in 2..Len(hops) /\ i \in 1..Len(hops) /\ i - 1 \in 1..Len(hops)
            BY <2>2, <4>1, <5>2
          <6>2. hops'[i] = hops[i] /\ hops'[i - 1] = hops[i - 1]
            BY <4>1, <6>1
          <6>3. QED
            BY <6>1, <6>2 DEF Requested
        <5>3. QED
          BY <5>1, <5>2
      <4>5. downloads' = downloads /\ asked' = asked
        BY <2>1
      <4>6. QED
        BY <2>2, <3>2, <4>1, <4>2, <4>4, <4>5 DEF Requested, Stages
    <3>3. QED
      BY <2>1, <3>1, <3>2
  <2>4. Resolving'
    BY <2>1, <2>2 DEF Resolving
  <2>5. Holding'
    BY <2>1 DEF Holding, Connected, Left
  <2>6. Receiving'
    BY <2>1 DEF Receiving
  <2>7. QED
    BY <2>3, <2>4, <2>5, <2>6
<1>9. CASE AcceptReply
  <2>1. PICK length \in 0..Undeclared, closes \in BOOLEAN :
          /\ stage = "reply"
          /\ \/ stage' = "idle" /\ outcome' = "download_too_large" /\ Left(socket') /\ UNCHANGED declared
             \/ /\ stage' = "body" /\ declared' = length /\ UNCHANGED outcome
                /\ socket' = IF closes THEN ConnectionClosed(socket) ELSE socket
          /\ UNCHANGED <<downloads, hops, free, asked, strays, total>>
    BY <1>1, <1>9 DEF AcceptReply
  <2>2. socket \in Sockets /\ socket.open = TRUE /\ socket.readers = 1
    BY <2>1 DEF Holding, Connected
  <2>3. /\ ConnectionClosed(socket) \in Sockets /\ ConnectionClosed(socket).open = TRUE
        /\ ConnectionClosed(socket).readers = 1
    BY <2>2, SocketOperations
  <2>4. Requested'
    BY <2>1 DEF Requested, Stages, Connected
  <2>5. Resolving'
    BY <2>1 DEF Resolving
  <2>6. Holding'
    BY <2>1, <2>2, <2>3 DEF Holding, Connected, Left
  <2>7. Receiving'
    BY <2>1 DEF Receiving
  <2>8. QED
    BY <2>4, <2>5, <2>6, <2>7
<1>10. CASE Read
  <2>1. /\ stage = "body" /\ total' = total + 1
        /\ \/ stage' = "idle" /\ outcome' = "download_too_large" /\ Left(socket')
           \/ ~(total' > MaxBytes) /\ UNCHANGED <<stage, socket, outcome>>
        /\ UNCHANGED <<downloads, hops, free, asked, strays, declared>>
    BY <1>1, <1>10 DEF Read
  <2>2. Requested'
    BY <2>1 DEF Requested, Stages
  <2>3. Resolving'
    BY <2>1 DEF Resolving
  <2>4. Holding'
    BY <2>1 DEF Holding, Connected, Left
  <2>5. Receiving'
    BY <1>2, <2>1 DEF Receiving
  <2>6. QED
    BY <2>2, <2>3, <2>4, <2>5
<1>11. CASE Finish
  <2>1. /\ stage = "body" /\ stage' = "idle" /\ Left(socket')
        /\ \/ outcome' = "download_truncated"
           \/ outcome' = "done" /\ (declared = Undeclared \/ total = declared)
        /\ UNCHANGED <<downloads, hops, free, asked, strays, declared, total>>
    BY <1>1, <1>11 DEF Finish
  <2>2. Requested'
    BY <2>1 DEF Requested, Stages
  <2>3. Resolving'
    BY <2>1 DEF Resolving
  <2>4. Holding'
    BY <2>1 DEF Holding, Connected, Left
  <2>5. Receiving'
    BY <2>1 DEF Receiving
  <2>6. QED
    BY <2>2, <2>3, <2>4, <2>5
<1>12. QED
  BY <1>3, <1>4, <1>5, <1>6, <1>7, <1>8, <1>9, <1>10, <1>11 DEF DownloadNext

\* A download ends with its socket closed and its resolver threads accounted
\* for, has asked trusted hosts only and returns what is whole, for any hosts,
\* number of slots, sizes and sequence of replies: Downloader.download.
THEOREM DownloadsAlwaysContained == DownloadSpec => []DownloadContained
<1>1. DownloadInv => DownloadContained
  BY DEF DownloadInv, DownloadContained, Requested, Resolving, Holding, Receiving, Connected, Stages, Left
<1>2. QED
  BY <1>1, DownloadStarts, DownloadStep, PTL DEF DownloadSpec

-----------------------------------------------------------------------------
(* The members of an archive.                                                *)

Components == DOMAIN Fold
Paths == Seq(Components)

Total == Len(extracted)

\* What was read and what will be written, and the bounds on them.
Measured ==
  /\ members \in Seq([name : Names, directory : BOOLEAN]) /\ Len(members) <= MaxFiles
  /\ extracted \in Seq([path : Paths, directory : BOOLEAN])
  /\ size \in Nat /\ size <= MaxTotal

\* The sets the rules look at are what the writing will find.
Foreseen ==
  /\ files = Written(TRUE, Total) /\ directories = Folders(TRUE, Total)
  /\ \A k \in 1..Total : Folded(Package \o extracted[k].path) \in seen

Unfailing == \A n \in 1..Total : ~Fails(FALSE, n) /\ ~Fails(TRUE, n)

\* No two spellings differ in case only, and whatever is written has its own.
Unmerged ==
  /\ \A a, b \in aliases : Folded(a) = Folded(b) => a = b
  /\ \A p \in Written(FALSE, Total) \cup Folders(FALSE, Total) : Package \o p \in aliases

Complete ==
  \A i \in 1..Len(members) :
    \/ IsPrefix(members[i].name, Package)
    \/ \E k \in 1..Total : members[i].name = Package \o extracted[k].path

ArchiveInv == Measured /\ Foreseen /\ Unfailing /\ Unmerged /\ Complete

\* The three ways a member fails: a file where a folder of it must be, a file
\* where it must be itself, a folder where its file must be.
FailsAbove(folds, n) == Above(extracted[n].path, folds) \cap Written(folds, n - 1) # {}
FailsItself(folds, n) == Known(extracted[n].path, folds) \in Written(folds, n - 1)
FailsFolder(folds, n) ==
  ~extracted[n].directory /\ Known(extracted[n].path, folds) \in Folders(folds, n - 1)

LEMMA WaysToFail ==
  ASSUME NEW folds, NEW n
  PROVE  /\ Fails(folds, n)' <=>
              FailsAbove(folds, n)' \/ FailsItself(folds, n)' \/ FailsFolder(folds, n)'
         /\ FailsAbove(folds, n)' <=>
              (Above(extracted[n].path, folds) \cap Written(folds, n - 1) # {})'
         /\ FailsItself(folds, n)' <=>
              (Known(extracted[n].path, folds) \in Written(folds, n - 1))'
         /\ FailsFolder(folds, n)' <=>
              (~extracted[n].directory
               /\ (Known(extracted[n].path, folds) \in Folders(folds, n - 1)))'
<1>1. Fails(folds, n)' <=>
        FailsAbove(folds, n)' \/ FailsItself(folds, n)' \/ FailsFolder(folds, n)'
  BY DEF Fails, FailsAbove, FailsItself, FailsFolder
<1>2. FailsAbove(folds, n)' <=>
        (Above(extracted[n].path, folds) \cap Written(folds, n - 1) # {})'
  BY DEF FailsAbove
<1>3. FailsItself(folds, n)' <=>
        (Known(extracted[n].path, folds) \in Written(folds, n - 1))'
  BY DEF FailsItself
<1>4. FailsFolder(folds, n)' <=>
        (~extracted[n].directory
         /\ (Known(extracted[n].path, folds) \in Folders(folds, n - 1)))'
  BY DEF FailsFolder
<1>5. QED
  BY <1>1, <1>2, <1>3, <1>4

LEMMA WaysToFailNext ==
  ASSUME NEW folds, NEW N \in Nat
  PROVE  /\ Fails(folds, N + 1)' <=>
              FailsAbove(folds, N + 1)' \/ FailsItself(folds, N + 1)' \/ FailsFolder(folds, N + 1)'
         /\ FailsAbove(folds, N + 1)' <=>
              (Above(extracted[N + 1].path, folds) \cap Written(folds, N + 1 - 1) # {})'
         /\ FailsItself(folds, N + 1)' <=>
              (Known(extracted[N + 1].path, folds) \in Written(folds, N + 1 - 1))'
         /\ FailsFolder(folds, N + 1)' <=>
              (~extracted[N + 1].directory
               /\ (Known(extracted[N + 1].path, folds) \in Folders(folds, N + 1 - 1)))'
<1>1. Fails(folds, N + 1)' <=>
        FailsAbove(folds, N + 1)' \/ FailsItself(folds, N + 1)' \/ FailsFolder(folds, N + 1)'
  BY DEF Fails, FailsAbove, FailsItself, FailsFolder
<1>2. FailsAbove(folds, N + 1)' <=>
        (Above(extracted[N + 1].path, folds) \cap Written(folds, N + 1 - 1) # {})'
  BY DEF FailsAbove
<1>3. FailsItself(folds, N + 1)' <=>
        (Known(extracted[N + 1].path, folds) \in Written(folds, N + 1 - 1))'
  BY DEF FailsItself
<1>4. FailsFolder(folds, N + 1)' <=>
        (~extracted[N + 1].directory
         /\ (Known(extracted[N + 1].path, folds) \in Folders(folds, N + 1 - 1)))'
  BY DEF FailsFolder
<1>5. QED
  BY <1>1, <1>2, <1>3, <1>4

LEMMA EachInSequence ==
  ASSUME NEW S, NEW s \in Seq(S)
  PROVE  \A k \in 1..Len(s) : s[k] \in S
OBVIOUS

\* Folding goes component by component.
LEMMA FoldedPackage ==
  ASSUME NEW p \in Paths, NEW q \in Paths, Folded(p) = Folded(q)
  PROVE  Folded(Package \o p) = Folded(Package \o q)
<1> DEFINE a == Package \o p
           b == Package \o q
<1>1. Package \in Seq(Components)
  BY ArchiveAssumption DEF Components
<1>2. /\ a \in Seq(Components) /\ Len(a) = Len(Package) + Len(p)
      /\ \A i \in 1..Len(Package) + Len(p) : a[i] = IF i <= Len(Package) THEN Package[i] ELSE p[i - Len(Package)]
  BY <1>1, ConcatProperties DEF Paths
<1>3. /\ b \in Seq(Components) /\ Len(b) = Len(Package) + Len(q)
      /\ \A i \in 1..Len(Package) + Len(q) : b[i] = IF i <= Len(Package) THEN Package[i] ELSE q[i - Len(Package)]
  BY <1>1, ConcatProperties DEF Paths
<1>4. Len(p) \in Nat /\ Len(q) \in Nat /\ Len(Package) \in Nat /\ DOMAIN p = 1..Len(p) /\ DOMAIN q = 1..Len(q)
  BY <1>1 DEF Paths
<1>5. DOMAIN p = DOMAIN q
  <2>1. DOMAIN Folded(p) = DOMAIN p /\ DOMAIN Folded(q) = DOMAIN q
    BY DEF Folded
  <2>2. QED
    BY <2>1
<1>6. Len(p) = Len(q)
  <2>1. \A m, n \in Nat : 1..m = 1..n => m = n
    <3> SUFFICES ASSUME NEW m \in Nat, NEW n \in Nat, 1..m = 1..n PROVE ~(m < n) /\ ~(n < m)
      OBVIOUS
    <3>1. m < n => n \in 1..n /\ n \notin 1..m
      OBVIOUS
    <3>2. n < m => m \in 1..m /\ m \notin 1..n
      OBVIOUS
    <3>3. QED
      BY <3>1, <3>2
  <2>2. QED
    BY <1>4, <1>5, <2>1
<1>7. \A i \in 1..Len(p) : Fold[p[i]] = Fold[q[i]]
  <2> TAKE i \in 1..Len(p)
  <2>1. Folded(p)[i] = Fold[p[i]] /\ Folded(q)[i] = Fold[q[i]]
    BY <1>4, <1>5 DEF Folded
  <2>2. QED
    BY <2>1
<1>8. DOMAIN a = 1..(Len(Package) + Len(p)) /\ DOMAIN b = 1..(Len(Package) + Len(p))
  BY <1>2, <1>3, <1>6
<1> HIDE DEF a, b
<1>9. ASSUME NEW i \in DOMAIN a PROVE Fold[a[i]] = Fold[b[i]]
  <2>1. CASE i <= Len(Package)
    BY <1>2, <1>3, <1>4, <1>6, <1>8, <2>1
  <2>2. CASE ~(i <= Len(Package))
    <3>1. i - Len(Package) \in 1..Len(p)
      BY <1>4, <1>8, <2>2
    <3>2. a[i] = p[i - Len(Package)] /\ b[i] = q[i - Len(Package)]
      BY <1>2, <1>3, <1>4, <1>6, <1>8, <2>2
    <3>3. QED
      BY <1>7, <3>1, <3>2
  <2>3. QED
    BY <2>1, <2>2
<1>10. Folded(a) = Folded(b)
  BY <1>8, <1>9 DEF Folded
<1>11. QED
  BY <1>10 DEF a, b

\* A member below the package is the package's folder and a path in it.
LEMMA BelowPackage ==
  ASSUME NEW name \in Names, IsStrictPrefix(Package, name)
  PROVE  Below(name) \in Paths /\ Package \o Below(name) = name
<1>1. Package \in Seq(Components) /\ name \in Seq(Components)
  BY ArchiveAssumption DEF Components
<1>2. Len(Package) \in Nat /\ Len(name) \in Nat /\ Len(Package) <= Len(name)
      /\ SubSeq(name, 1, Len(Package)) = Package
  <2>1. Len(Package) <= Len(name) /\ SubSeq(Package, 1, Len(Package)) = SubSeq(name, 1, Len(Package))
    BY DEF IsStrictPrefix, IsPrefix
  <2>2. SubSeq(Package, 1, Len(Package)) = Package
    BY <1>1, SubSeqFull
  <2>3. QED
    BY <1>1, <2>1, <2>2
<1>3. SubSeq(name, 1, Len(Package)) \o SubSeq(name, Len(Package) + 1, Len(name)) = SubSeq(name, 1, Len(name))
  <2>1. /\ 1 \in 1..(Len(name) + 1) /\ Len(Package) \in (1 - 1)..Len(name) /\ Len(name) \in Len(Package)..Len(name)
    BY <1>2
  <2>2. QED
    BY <1>1, <2>1, ConcatAdjacentSubSeq
<1>4. SubSeq(name, 1, Len(name)) = name
  BY <1>1, SubSeqFull
<1>5. SubSeq(name, Len(Package) + 1, Len(name)) \in Seq(Components)
  <2>1. Len(Package) + 1 \in Int /\ Len(name) \in Int
    BY <1>2
  <2>2. \A i \in (Len(Package) + 1)..Len(name) : name[i] \in Components
    BY <1>1, <1>2
  <2>3. QED
    BY <2>1, <2>2, SubSeqProperties
<1>6. QED
  BY <1>2, <1>3, <1>4, <1>5 DEF Below, Paths

LEMMA WhatIsThere ==
  /\ \A folds, n, x : x \in Written(folds, n) <=>
       \E k \in 1..n : ~extracted[k].directory /\ x = Known(extracted[k].path, folds)
  /\ \A folds, n, x : x \in Folders(folds, n) <=>
       \/ \E k \in 1..n : x \in Above(extracted[k].path, folds)
       \/ \E k \in 1..n : extracted[k].directory /\ x = Known(extracted[k].path, folds)
<1>1. ASSUME NEW folds, NEW n, NEW x
      PROVE  x \in Written(folds, n) <=>
               \E k \in 1..n : ~extracted[k].directory /\ x = Known(extracted[k].path, folds)
  BY DEF Written
<1>2. ASSUME NEW folds, NEW n, NEW x
      PROVE  x \in Folders(folds, n) <=>
               \/ \E k \in 1..n : x \in Above(extracted[k].path, folds)
               \/ \E k \in 1..n : extracted[k].directory /\ x = Known(extracted[k].path, folds)
  <2> DEFINE over == {Above(extracted[k].path, folds) : k \in 1..n}
             own == {Known(extracted[k].path, folds) : k \in {j \in 1..n : extracted[j].directory}}
  <2>1. Folders(folds, n) = (UNION over) \cup own
    BY DEF Folders
  <2>2. x \in own <=> \E k \in 1..n : extracted[k].directory /\ x = Known(extracted[k].path, folds)
    OBVIOUS
  <2>3. x \in UNION over <=> \E k \in 1..n : x \in Above(extracted[k].path, folds)
    <3>1. x \in UNION over <=> \E set \in over : x \in set
      OBVIOUS
    <3>2. \A set : set \in over <=> \E k \in 1..n : set = Above(extracted[k].path, folds)
      OBVIOUS
    <3> HIDE DEF over
    <3>3. QED
      BY <3>1, <3>2
  <2> HIDE DEF over, own
  <2>4. QED
    BY <2>1, <2>2, <2>3
<1>3. QED
  BY <1>1, <1>2

\* What is there on a file system that tells names apart is there, folded, on
\* one that does not.
LEMMA FoldedThere ==
  ASSUME NEW n
  PROVE  /\ \A x \in Written(FALSE, n) : Folded(x) \in Written(TRUE, n)
         /\ \A x \in Folders(FALSE, n) : Folded(x) \in Folders(TRUE, n)
<1>1. \A x \in Written(FALSE, n) : Folded(x) \in Written(TRUE, n)
  BY DEF Written, Known
<1>2. ASSUME NEW x \in Folders(FALSE, n) PROVE Folded(x) \in Folders(TRUE, n)
  <2>1. \A path : x \in Above(path, FALSE) => Folded(x) \in Above(path, TRUE)
    BY DEF Above, Known
  <2>2. \A path : Known(path, FALSE) = path /\ Known(path, TRUE) = Folded(path)
    BY DEF Known
  <2>3. QED
    <3>1. \/ \E k \in 1..n : x \in Above(extracted[k].path, FALSE)
          \/ \E k \in 1..n : extracted[k].directory /\ x = Known(extracted[k].path, FALSE)
      <4>1. \A folds : x \in Folders(folds, n) <=>
              \/ \E k \in 1..n : x \in Above(extracted[k].path, folds)
              \/ \E k \in 1..n : extracted[k].directory /\ x = Known(extracted[k].path, folds)
        BY WhatIsThere
      <4>2. QED
        BY <1>2, <4>1, Zenon
    <3>2. \/ \E k \in 1..n : Folded(x) \in Above(extracted[k].path, TRUE)
          \/ \E k \in 1..n : extracted[k].directory /\ Folded(x) = Known(extracted[k].path, TRUE)
      BY <2>1, <2>2, <3>1
    <3>3. QED
      BY <3>2, WhatIsThere
<1>3. QED
  BY <1>1, <1>2

LEMMA ArchiveStarts == ArchiveInit => ArchiveInv
<1> SUFFICES ASSUME ArchiveInit PROVE ArchiveInv
  OBVIOUS
<1>1. members = <<>> /\ extracted = <<>> /\ size = 0 /\ files = {} /\ directories = {}
  BY DEF ArchiveInit
<1>2. Len(members) = 0 /\ Total = 0 /\ 1..0 = {}
  BY <1>1 DEF Total
<1>3. \A folds : Written(folds, 0) = {} /\ Folders(folds, 0) = {}
  BY <1>2 DEF Written, Folders
<1>4. Measured
  BY <1>1, <1>2, ArchiveAssumption DEF Measured
<1>5. Foreseen /\ Unfailing /\ Complete
  BY <1>1, <1>2, <1>3 DEF Foreseen, Unfailing, Complete
<1>6. Unmerged
  BY <1>2, <1>3 DEF Unmerged, ArchiveInit
<1>7. QED
  BY <1>4, <1>5, <1>6 DEF ArchiveInv

\* What is written later changes nothing of what was found before.
LEMMA EarlierKept ==
  ASSUME extracted \in Seq([path : Paths, directory : BOOLEAN]),
         NEW e \in [path : Paths, directory : BOOLEAN], extracted' = Append(extracted, e)
  PROVE  /\ Total \in Nat /\ Total' = Total + 1 /\ extracted'[Total + 1] = e
         /\ \A k \in 1..Total : extracted'[k] = extracted[k]
         /\ \A folds, n : n \in 0..Total => Written(folds, n)' = Written(folds, n)
         /\ \A folds, n : n \in 0..Total => Folders(folds, n)' = Folders(folds, n)
<1>1. /\ Total \in Nat /\ Total' = Total + 1 /\ extracted'[Total + 1] = e
      /\ \A k \in 1..Total : extracted'[k] = extracted[k]
  BY DEF Total
<1>2. ASSUME NEW folds, NEW n, n \in 0..Total
      PROVE  Written(folds, n)' = Written(folds, n) /\ Folders(folds, n)' = Folders(folds, n)
  <2>1. \A k \in 1..n : k \in 1..Total
    BY <1>1, <1>2
  <2>2. \A k \in 1..n : extracted'[k] = extracted[k]
    BY <1>1, <2>1
  <2>3. Written(folds, n)' = Written(folds, n)
    BY <2>2 DEF Written, Known
  <2>4. Folders(folds, n)' = Folders(folds, n)
    <3>1. {Above(extracted[k].path, folds) : k \in 1..n}' = {Above(extracted[k].path, folds) : k \in 1..n}
      BY <2>2 DEF Above, Known
    <3>2. {Known(extracted[k].path, folds) : k \in {j \in 1..n : extracted[j].directory}}'
            = {Known(extracted[k].path, folds) : k \in {j \in 1..n : extracted[j].directory}}
      BY <2>2 DEF Known
    <3>3. QED
      BY <3>1, <3>2 DEF Folders
  <2>5. QED
    BY <2>3, <2>4
<1>3. QED
  BY <1>1, <1>2

\* A member that is written: nothing before it is in its way, on either kind of
\* file system.
LEMMA MemberWritten ==
  ASSUME ArchiveInv, NEW N \in Nat, N = Total, NEW name \in Names, NEW directory \in BOOLEAN,
         IsStrictPrefix(Package, name), ~Conflict(Below(name), directory), Folded(name) \notin seen,
         extracted' = Append(extracted, [path |-> Below(name), directory |-> directory])
  PROVE  /\ ~Fails(FALSE, N + 1)' /\ ~Fails(TRUE, N + 1)'
<1> DEFINE path == Below(name)
           e == [path |-> path, directory |-> directory]
<1>1. path \in Paths /\ Package \o path = name
  BY BelowPackage
<1> HIDE DEF path
<1>2. e \in [path : Paths, directory : BOOLEAN] /\ e.path = path /\ e.directory = directory
  BY <1>1
<1>3. extracted \in Seq([path : Paths, directory : BOOLEAN]) /\ extracted' = Append(extracted, e)
  BY DEF ArchiveInv, Measured, path
<1> HIDE DEF e
<1>4. /\ extracted'[N + 1] = e
      /\ \A folds : Written(folds, N)' = Written(folds, N) /\ Folders(folds, N)' = Folders(folds, N)
  <2>1. N \in 0..Total
    OBVIOUS
  <2>2. QED
    BY <1>2, <1>3, <2>1, EarlierKept
<1>5. FoldedParents(path) \cap Written(TRUE, N) = {} /\ (~directory => Folded(path) \notin Folders(TRUE, N))
  BY DEF Conflict, ArchiveInv, Foreseen, path
<1>10. \A k \in 1..N : extracted[k].path \in Paths
  <2>1. extracted \in Seq([path : Paths, directory : BOOLEAN]) /\ N = Len(extracted)
    BY DEF ArchiveInv, Measured, Total
  <2>2. \A k \in 1..N : extracted[k] \in [path : Paths, directory : BOOLEAN]
    BY <2>1, EachInSequence
  <2>3. QED
    BY <2>2
<1>6. Folded(path) \notin Written(TRUE, N)
  <2> SUFFICES ASSUME Folded(path) \in Written(TRUE, N) PROVE FALSE
    OBVIOUS
  <2>1. PICK k \in 1..N : Folded(path) = Folded(extracted[k].path)
    BY DEF Written, Known
  <2>2. extracted[k].path \in Paths
    BY <1>10
  <2>3. Folded(Package \o extracted[k].path) = Folded(Package \o path)
    BY <1>1, <2>1, <2>2, FoldedPackage
  <2>4. Folded(Package \o extracted[k].path) \in seen
    BY DEF ArchiveInv, Foreseen
  <2>5. QED
    BY <1>1, <2>3, <2>4
<1>7. /\ Above(path, TRUE) \cap Written(TRUE, N) = {}
      /\ Known(path, TRUE) \notin Written(TRUE, N)
      /\ ~directory => Known(path, TRUE) \notin Folders(TRUE, N)
  <2>1. Above(path, TRUE) = FoldedParents(path) /\ Known(path, TRUE) = Folded(path)
    BY DEF Above, FoldedParents, Known
  <2>2. QED
    BY <1>5, <1>6, <2>1
<1>8. /\ Above(path, FALSE) \cap Written(FALSE, N) = {}
      /\ Known(path, FALSE) \notin Written(FALSE, N)
      /\ ~directory => Known(path, FALSE) \notin Folders(FALSE, N)
  <2>1. Known(path, FALSE) = path /\ Known(path, TRUE) = Folded(path)
    BY DEF Known
  <2>2. \A x \in Above(path, FALSE) : Folded(x) \in Above(path, TRUE)
    BY DEF Above, Known
  <2>3. QED
    BY <1>7, <2>1, <2>2, FoldedThere
<1>9. \A folds : Fails(folds, N + 1)' <=>
        (\/ Above(path, folds) \cap Written(folds, N) # {}
         \/ Known(path, folds) \in Written(folds, N)
         \/ ~directory /\ Known(path, folds) \in Folders(folds, N))
  <2>1. N + 1 - 1 = N
    OBVIOUS
  <2>2. extracted'[N + 1].path = path /\ extracted'[N + 1].directory = directory
    BY <1>2, <1>4
  <2> TAKE folds
  <2>3. Written(folds, N + 1 - 1)' = Written(folds, N) /\ Folders(folds, N + 1 - 1)' = Folders(folds, N)
    BY <1>4, <2>1
  <2>4. /\ Above(extracted[N + 1].path, folds)' = Above(path, folds)
        /\ Known(extracted[N + 1].path, folds)' = Known(path, folds)
    BY <2>2 DEF Above, Known, Parents, Folded
  <2>5. Fails(folds, N + 1)' <=>
          FailsAbove(folds, N + 1)' \/ FailsItself(folds, N + 1)' \/ FailsFolder(folds, N + 1)'
    BY WaysToFailNext
  <2>6. FailsAbove(folds, N + 1)' <=> Above(path, folds) \cap Written(folds, N) # {}
    <3>1. FailsAbove(folds, N + 1)' <=> (Above(extracted[N + 1].path, folds) \cap Written(folds, N + 1 - 1) # {})'
      BY WaysToFailNext
    <3>2. QED
      BY <2>2, <2>3, <2>4, <3>1
  <2>7. FailsItself(folds, N + 1)' <=> Known(path, folds) \in Written(folds, N)
    <3>1. FailsItself(folds, N + 1)' <=> (Known(extracted[N + 1].path, folds) \in Written(folds, N + 1 - 1))'
      BY WaysToFailNext
    <3>2. QED
      BY <2>2, <2>3, <2>4, <3>1
  <2>8. FailsFolder(folds, N + 1)' <=> ~directory /\ Known(path, folds) \in Folders(folds, N)
    <3>1. FailsFolder(folds, N + 1)' <=> ~extracted'[N + 1].directory /\ (Known(extracted[N + 1].path, folds) \in Folders(folds, N + 1 - 1))'
      BY WaysToFailNext
    <3>2. QED
      BY <2>2, <2>3, <2>4, <3>1
  <2>9. QED
    BY <2>5, <2>6, <2>7, <2>8
<1>12. QED
  BY <1>7, <1>8, <1>9 DEF path

\* What an admitted member has against it: nothing.
LEMMA NothingAgainst ==
  ASSUME NEW name \in Names, NEW directory \in BOOLEAN, NEW bytes \in FileSizes,
         Objections(name, directory, bytes) = {}
  PROVE  /\ Len(members) # MaxFiles /\ Folded(name) \notin seen /\ ~Misspelled(name)
         /\ ~IsScaffold(name, directory) =>
              /\ IsStrictPrefix(Package, name) /\ ~Conflict(Below(name), directory)
              /\ ~(size + bytes > MaxTotal)
<1>1. "archive_limit" \notin Objections(name, directory, bytes)
      /\ "duplicate_archive_path" \notin Objections(name, directory, bytes)
      /\ "archive_domain_mismatch" \notin Objections(name, directory, bytes)
      /\ "archive_path_conflict" \notin Objections(name, directory, bytes)
  OBVIOUS
<1>2. Len(members) # MaxFiles /\ ~(~IsScaffold(name, directory) /\ size + bytes > MaxTotal)
  BY <1>1 DEF Objections
<1>3. Folded(name) \notin seen /\ ~Misspelled(name)
  BY <1>1 DEF Objections
<1>4. ~IsScaffold(name, directory) => IsStrictPrefix(Package, name)
  BY <1>1 DEF Objections
<1>5. ~IsScaffold(name, directory) => ~Conflict(Below(name), directory)
  BY <1>1 DEF Objections
<1>6. QED
  BY <1>2, <1>3, <1>4, <1>5

LEMMA Appended ==
  ASSUME NEW S, NEW s \in Seq(S), NEW m \in S
  PROVE  /\ Append(s, m) \in Seq(S) /\ Len(s) \in Nat /\ Len(Append(s, m)) = Len(s) + 1
         /\ \A i \in 1..Len(Append(s, m)) : i \in 1..Len(s) \/ i = Len(s) + 1
         /\ \A i \in 1..Len(s) : Append(s, m)[i] = s[i]
         /\ Append(s, m)[Len(s) + 1] = m
OBVIOUS

\* What is written does not change with what is read.
LEMMA WritingKept ==
  ASSUME UNCHANGED extracted
  PROVE  /\ Total' = Total
         /\ \A folds, n : /\ Written(folds, n)' = Written(folds, n)
                          /\ Folders(folds, n)' = Folders(folds, n)
                          /\ Fails(folds, n)' <=> Fails(folds, n)
<1>1. Total' = Total
  BY DEF Total
<1>2. ASSUME NEW folds, NEW n
      PROVE  /\ Written(folds, n)' = Written(folds, n)
             /\ Folders(folds, n)' = Folders(folds, n)
             /\ Fails(folds, n)' <=> Fails(folds, n)
  <2>1. Written(folds, n)' = Written(folds, n)
    BY DEF Written
  <2>2. Folders(folds, n)' = Folders(folds, n)
    BY DEF Folders
  <2>3. Fails(folds, n)' <=> Fails(folds, n)
    BY DEF Fails, Written, Folders
  <2>4. QED
    BY <2>1, <2>2, <2>3
<1>3. QED
  BY <1>1, <1>2

\* A member's path and its parents differ in length, and they are spelled as before.
LEMMA Spelled ==
  ASSUME Unmerged, NEW name \in Names, ~Misspelled(name)
  PROVE  \A a, b \in aliases \cup Parents(name) \cup {name} : Folded(a) = Folded(b) => a = b
<1> DEFINE own == Parents(name) \cup {name}
<1>1. name \in Seq(Components) /\ Len(name) \in Nat
  BY ArchiveAssumption DEF Components
<1>2. ASSUME NEW a \in own
      PROVE  \E n \in 1..Len(name) : a = SubSeq(name, 1, n) /\ DOMAIN Folded(a) = 1..n
  <2>1. PICK n \in 1..Len(name) : a = SubSeq(name, 1, n)
    <3>1. Len(name) > 0
      BY <1>1, ArchiveAssumption, EmptySeq
    <3>2. SubSeq(name, 1, Len(name)) = name /\ Len(name) \in 1..Len(name)
      BY <1>1, <3>1, SubSeqFull
    <3>3. QED
      BY <1>1, <1>2, <3>2 DEF Parents
  <2>2. DOMAIN SubSeq(name, 1, n) = 1..n
    BY <1>1
  <2>3. QED
    BY <2>1, <2>2 DEF Folded
<1>3. \A m, n \in Nat : 1..m = 1..n => m = n
  <2> SUFFICES ASSUME NEW m \in Nat, NEW n \in Nat, 1..m = 1..n PROVE ~(m < n) /\ ~(n < m)
    OBVIOUS
  <2>1. m < n => n \in 1..n /\ n \notin 1..m
    OBVIOUS
  <2>2. n < m => m \in 1..m /\ m \notin 1..n
    OBVIOUS
  <2>3. QED
    BY <2>1, <2>2
<1>4. ASSUME NEW a \in own, NEW b \in own, Folded(a) = Folded(b) PROVE a = b
  <2>1. PICK n \in 1..Len(name) : a = SubSeq(name, 1, n) /\ DOMAIN Folded(a) = 1..n
    BY <1>2
  <2>2. PICK k \in 1..Len(name) : b = SubSeq(name, 1, k) /\ DOMAIN Folded(b) = 1..k
    BY <1>2
  <2>3. n \in Nat /\ k \in Nat /\ 1..n = 1..k
    BY <1>4, <2>1, <2>2
  <2>4. n = k
    BY <1>3, <2>3
  <2>5. QED
    BY <2>1, <2>2, <2>4
<1>5. ASSUME NEW a \in own, NEW b \in aliases, Folded(a) = Folded(b) PROVE a = b
  BY <1>5 DEF Misspelled
<1>6. \A a, b \in aliases : Folded(a) = Folded(b) => a = b
  BY DEF Unmerged
<1> HIDE DEF own
<1>7. \A a, b \in aliases \cup own : Folded(a) = Folded(b) => a = b
  BY <1>4, <1>5, <1>6
<1>8. QED
  BY <1>7 DEF own

\* A folder in which a member is, below the package, is a parent of the member.
LEMMA ParentBelow ==
  ASSUME NEW path \in Paths, NEW p \in Parents(path)
  PROVE  Package \o p \in Parents(Package \o path)
<1>1. Package \in Seq(Components) /\ Len(Package) \in Nat /\ path \in Seq(Components)
      /\ Len(path) \in Nat
  BY ArchiveAssumption DEF Components, Paths
<1>2. PICK n \in 1..(Len(path) - 1) : p = SubSeq(path, 1, n)
  BY DEF Parents
<1> DEFINE whole == Package \o path
           length == Len(Package) + n
<1>3. /\ whole \in Seq(Components) /\ Len(whole) = Len(Package) + Len(path)
      /\ length \in 1..(Len(whole) - 1)
  BY <1>1, <1>2
<1>4. Package \o SubSeq(path, 1, n) = SubSeq(whole, 1, length)
  BY <1>1, <1>2
<1>5. QED
  BY <1>2, <1>3, <1>4 DEF Parents

LEMMA WritingHolds ==
  ASSUME ArchiveInv, UNCHANGED extracted,
         \/ UNCHANGED aliases
         \/ \E name \in Names : /\ ~Misspelled(name)
                               /\ aliases' = aliases \cup Parents(name) \cup {name}
  PROVE  Unfailing' /\ Unmerged'
<1>1. Total' = Total
  BY WritingKept
<1>2. \A folds, n : Fails(folds, n)' <=> Fails(folds, n)
  BY WritingKept
<1>3. Unfailing'
  BY <1>1, <1>2 DEF ArchiveInv, Unfailing, Fails, Written, Folders, Total
<1>4. Unmerged'
  <2>1. aliases \subseteq aliases' /\ \A a, b \in aliases' : Folded(a) = Folded(b) => a = b
    BY Spelled DEF ArchiveInv, Unmerged
  <2>2. Total' = Total /\ Written(FALSE, Total)' = Written(FALSE, Total)
        /\ Folders(FALSE, Total)' = Folders(FALSE, Total)
    BY <1>1 DEF Written, Folders, Total
  <2>3. \A p \in Written(FALSE, Total) \cup Folders(FALSE, Total) : Package \o p \in aliases'
    BY <2>1 DEF ArchiveInv, Unmerged
  <2>4. QED
    BY <2>1, <2>2, <2>3 DEF Unmerged, Folded
<1>5. QED
  BY <1>3, <1>4

LEMMA ArchiveUntouched ==
  ASSUME ArchiveInv, UNCHANGED <<members, aliases, seen, files, directories, extracted, size>>
  PROVE  ArchiveInv'
<1>1. Total' = Total
  BY WritingKept
<1>4. Measured'
  BY DEF ArchiveInv, Measured
<1>5. Foreseen'
  BY <1>1 DEF ArchiveInv, Foreseen, Written, Folders, Total
<1>6. Unfailing' /\ Unmerged'
  BY WritingHolds
<1>8. Complete'
  BY DEF ArchiveInv, Complete, Total
<1>9. QED
  BY <1>4, <1>5, <1>6, <1>8 DEF ArchiveInv

\* A folder of the package itself: it is read and not written.
LEMMA ScaffoldKeeps ==
  ASSUME ArchiveInv, NEW name \in Names, NEW directory \in BOOLEAN, NEW bytes \in FileSizes,
         Objections(name, directory, bytes) = {}, IsScaffold(name, directory),
         members' = Append(members, [name |-> name, directory |-> directory]),
         aliases' = aliases \cup Parents(name) \cup {name},
         seen' = seen \cup {Folded(name)}, UNCHANGED <<files, directories, extracted, size>>
  PROVE  ArchiveInv'
<1> DEFINE M == [name : Names, directory : BOOLEAN]
           m == [name |-> name, directory |-> directory]
<1>9. members \in Seq(M) /\ m \in M /\ m.name = name /\ members' = Append(members, m)
  BY DEF ArchiveInv, Measured
<1> HIDE DEF M, m
<1>1. Total' = Total
  BY WritingKept
<1>3. Measured'
  <2>1. Len(members) <= MaxFiles /\ Len(members) # MaxFiles /\ MaxFiles \in Nat
    BY NothingAgainst, ArchiveAssumption DEF ArchiveInv, Measured
  <2>3. members' \in Seq(M) /\ Len(members') = Len(members) + 1 /\ Len(members) \in Nat
    BY <1>9, Appended
  <2>4. QED
    BY <2>1, <2>3 DEF ArchiveInv, Measured, M
<1>4. Foreseen'
  BY <1>1 DEF ArchiveInv, Foreseen, Written, Folders, Total
<1>6. Unfailing' /\ Unmerged'
  BY NothingAgainst, WritingHolds
<1>7. Complete'
  <2>1. IsPrefix(name, Package)
    BY DEF IsScaffold
  <2>2. /\ \A i \in 1..Len(members') : i \in 1..Len(members) \/ i = Len(members) + 1
        /\ \A i \in 1..Len(members) : members'[i] = members[i]
        /\ members'[Len(members) + 1] = m
    BY <1>9, Appended
  <2>3. QED
    BY <1>1, <1>9, <2>1, <2>2 DEF Complete, ArchiveInv, Total
<1>8. QED
  BY <1>3, <1>4, <1>6, <1>7 DEF ArchiveInv

\* What a written member adds to the files and folders, and that it adds only there.
LEMMA MemberAdds ==
  ASSUME ArchiveInv, NEW N \in Nat, N = Total, NEW path \in Paths, NEW directory \in BOOLEAN,
         extracted' = Append(extracted, [path |-> path, directory |-> directory])
  PROVE  /\ Total' = N + 1
         /\ extracted'[N + 1] = [path |-> path, directory |-> directory]
         /\ \A k \in 1..N : extracted'[k] = extracted[k]
         /\ \A folds : Written(folds, N + 1)' =
              Written(folds, N) \cup (IF directory THEN {} ELSE {Known(path, folds)})
         /\ \A folds : Folders(folds, N + 1)' =
              Folders(folds, N) \cup Above(path, folds) \cup (IF directory THEN {Known(path, folds)} ELSE {})
<1> DEFINE e == [path |-> path, directory |-> directory]
<1>1. e \in [path : Paths, directory : BOOLEAN] /\ e.path = path /\ e.directory = directory
  OBVIOUS
<1>2. extracted \in Seq([path : Paths, directory : BOOLEAN]) /\ extracted' = Append(extracted, e)
  BY DEF ArchiveInv, Measured
<1> HIDE DEF e
<1>3. Total' = N + 1 /\ extracted'[N + 1] = e /\ \A k \in 1..N : extracted'[k] = extracted[k]
  BY <1>1, <1>2, EarlierKept
<1>4. \A k : k \in 1..(N + 1) <=> k \in 1..N \/ k = N + 1
  OBVIOUS
<1>5. ASSUME NEW folds
      PROVE  Written(folds, N + 1)' = Written(folds, N) \cup (IF directory THEN {} ELSE {Known(path, folds)})
  <2>1. ASSUME NEW x
        PROVE  x \in Written(folds, N + 1)' <=>
                 x \in Written(folds, N) \/ (~directory /\ x = Known(path, folds))
    <3> DEFINE then == \E k \in 1..(N + 1) : ~extracted'[k].directory /\ x = Known(extracted'[k].path, folds)
               now == \E k \in 1..N : ~extracted[k].directory /\ x = Known(extracted[k].path, folds)
    <3>1. x \in Written(folds, N + 1)' <=> then
      BY DEF Written, Known
    <3>2. x \in Written(folds, N) <=> now
      BY WhatIsThere
    <3>3. then <=> now \/ (~directory /\ x = Known(path, folds))
      BY <1>1, <1>3, <1>4
    <3> HIDE DEF then, now
    <3>4. QED
      BY <3>1, <3>2, <3>3
  <2>2. QED
    BY <2>1
<1>6. ASSUME NEW folds
      PROVE  Folders(folds, N + 1)' =
               Folders(folds, N) \cup Above(path, folds) \cup (IF directory THEN {Known(path, folds)} ELSE {})
  <2>1. ASSUME NEW x
        PROVE  x \in Folders(folds, N + 1)' <=>
                 x \in Folders(folds, N) \/ x \in Above(path, folds) \/ (directory /\ x = Known(path, folds))
    <3> DEFINE over == {Above(extracted'[k].path, folds) : k \in 1..(N + 1)}
               thenOver == \E k \in 1..(N + 1) : x \in Above(extracted'[k].path, folds)
               thenOwn == \E k \in 1..(N + 1) : extracted'[k].directory /\ x = Known(extracted'[k].path, folds)
               nowOver == \E k \in 1..N : x \in Above(extracted[k].path, folds)
               nowOwn == \E k \in 1..N : extracted[k].directory /\ x = Known(extracted[k].path, folds)
    <3>1. x \in Folders(folds, N + 1)' <=> x \in UNION over \/ thenOwn
      BY DEF Folders, Above, Known
    <3>2. x \in UNION over <=> thenOver
      <4>1. x \in UNION over <=> \E set \in over : x \in set
        OBVIOUS
      <4>2. \A set : set \in over <=> \E k \in 1..(N + 1) : set = Above(extracted'[k].path, folds)
        OBVIOUS
      <4> HIDE DEF over
      <4>3. ASSUME x \in UNION over PROVE thenOver
        <5>1. PICK set \in over : x \in set
          BY <4>1, <4>3
        <5>2. PICK k \in 1..(N + 1) : set = Above(extracted'[k].path, folds)
          BY <4>2
        <5>3. QED
          BY <5>1, <5>2
      <4>4. ASSUME thenOver PROVE x \in UNION over
        <5>1. PICK k \in 1..(N + 1) : x \in Above(extracted'[k].path, folds)
          BY <4>4
        <5>2. Above(extracted'[k].path, folds) \in over
          BY <4>2
        <5>3. QED
          BY <4>1, <5>1, <5>2
      <4>5. QED
        BY <4>3, <4>4
    <3>3. x \in Folders(folds, N) <=> nowOver \/ nowOwn
      BY WhatIsThere
    <3>4. thenOver <=> nowOver \/ x \in Above(path, folds)
      BY <1>1, <1>3, <1>4
    <3>5. thenOwn <=> nowOwn \/ (directory /\ x = Known(path, folds))
      BY <1>1, <1>3, <1>4
    <3> HIDE DEF over, thenOver, thenOwn, nowOver, nowOwn
    <3>6. QED
      BY <3>1, <3>2, <3>3, <3>4, <3>5
  <2>2. QED
    BY <2>1
<1>7. QED
  BY <1>3, <1>5, <1>6 DEF e

LEMMA LengthIsNat == ASSUME NEW S, NEW s \in Seq(S) PROVE Len(s) \in Nat
OBVIOUS

\* Whether an earlier member failed does not change with what is written later.
LEMMA FailsKept ==
  ASSUME extracted \in Seq([path : Paths, directory : BOOLEAN]),
         NEW e \in [path : Paths, directory : BOOLEAN], extracted' = Append(extracted, e),
         NEW n \in 1..Total
  PROVE  \A folds : Fails(folds, n)' <=> Fails(folds, n)
<1> TAKE folds
<1>1. Total \in Nat
  BY LengthIsNat DEF Total
<1>2. n - 1 \in 0..Total /\ n - 1 \in Nat /\ (n - 1) + 1 = n
  BY <1>1
<1>3. /\ extracted'[n] = extracted[n]
      /\ Written(folds, n - 1)' = Written(folds, n - 1) /\ Folders(folds, n - 1)' = Folders(folds, n - 1)
  BY <1>2, EarlierKept
<1>4. /\ Above(extracted[n].path, folds)' = Above(extracted[n].path, folds)
      /\ Known(extracted[n].path, folds)' = Known(extracted[n].path, folds)
  BY <1>3 DEF Above, Known, Parents, Folded
<1>5. Fails(folds, n)' <=>
        \/ (Above(extracted[n].path, folds) \cap Written(folds, n - 1) # {})'
        \/ (Known(extracted[n].path, folds) \in Written(folds, n - 1))'
        \/ (~extracted[n].directory /\ (Known(extracted[n].path, folds) \in Folders(folds, n - 1)))'
  BY WaysToFail
<1>6. Fails(folds, n) <=>
        \/ Above(extracted[n].path, folds) \cap Written(folds, n - 1) # {}
        \/ Known(extracted[n].path, folds) \in Written(folds, n - 1)
        \/ ~extracted[n].directory /\ Known(extracted[n].path, folds) \in Folders(folds, n - 1)
  BY DEF Fails
<1>7. QED
  BY <1>3, <1>4, <1>5, <1>6

\* A member that is written, kept in its turn.
LEMMA MemberKeeps ==
  ASSUME ArchiveInv, NEW N \in Nat, N = Total,
         NEW name \in Names, NEW directory \in BOOLEAN, NEW bytes \in FileSizes,
         Objections(name, directory, bytes) = {}, ~IsScaffold(name, directory),
         members' = Append(members, [name |-> name, directory |-> directory]),
         aliases' = aliases \cup Parents(name) \cup {name},
         seen' = seen \cup {Folded(name)},
         directories' = directories \cup FoldedParents(Below(name))
                        \cup {p \in {Folded(Below(name))} : directory},
         files' = files \cup {p \in {Folded(Below(name))} : ~directory},
         extracted' = Append(extracted, [path |-> Below(name), directory |-> directory]),
         size' = size + bytes
  PROVE  ArchiveInv'
<1> DEFINE path == Below(name)
           e == [path |-> path, directory |-> directory]
           M == [name : Names, directory : BOOLEAN]
           E == [path : Paths, directory : BOOLEAN]
           m == [name |-> name, directory |-> directory]
<1>1. /\ IsStrictPrefix(Package, name) /\ ~Conflict(Below(name), directory)
      /\ Folded(name) \notin seen /\ ~Misspelled(name)
      /\ Len(members) # MaxFiles /\ ~(size + bytes > MaxTotal)
  BY NothingAgainst
<1>2. path \in Paths /\ Package \o path = name
  BY <1>1, BelowPackage
<1>3. ~Fails(FALSE, N + 1)' /\ ~Fails(TRUE, N + 1)'
  BY <1>1, MemberWritten
<1>4. /\ members \in Seq(M) /\ m \in M /\ m.name = name /\ members' = Append(members, m)
      /\ extracted \in Seq(E) /\ e \in E /\ e.path = path /\ e.directory = directory
      /\ extracted' = Append(extracted, e)
  BY <1>2 DEF ArchiveInv, Measured
<1>13. /\ Total' = N + 1 /\ extracted'[N + 1] = [path |-> Below(name), directory |-> directory]
       /\ \A k \in 1..N : extracted'[k] = extracted[k]
       /\ \A folds : Written(folds, N + 1)' =
            Written(folds, N) \cup (IF directory THEN {} ELSE {Known(Below(name), folds)})
       /\ \A folds : Folders(folds, N + 1)' =
            Folders(folds, N) \cup Above(Below(name), folds)
              \cup (IF directory THEN {Known(Below(name), folds)} ELSE {})
  <2> HIDE DEF e, M, E, m, path
  <2>1. Below(name) \in Paths
    BY <1>1, BelowPackage
  <2>2. Total' = N + 1 /\ \A k \in 1..N : extracted'[k] = extracted[k]
    BY <2>1, MemberAdds
  <2>3. extracted'[N + 1] = [path |-> Below(name), directory |-> directory]
    BY <2>1, MemberAdds
  <2>4. \A folds : Written(folds, N + 1)' =
          Written(folds, N) \cup (IF directory THEN {} ELSE {Known(Below(name), folds)})
    BY <2>1, MemberAdds
  <2>5. \A folds : Folders(folds, N + 1)' =
          Folders(folds, N) \cup Above(Below(name), folds)
            \cup (IF directory THEN {Known(Below(name), folds)} ELSE {})
    BY <2>1, MemberAdds
  <2>6. QED
    BY <2>2, <2>3, <2>4, <2>5
<1>14. path = Below(name)
  OBVIOUS
<1> HIDE DEF path
<1>5. /\ Total' = N + 1 /\ extracted'[N + 1] = e /\ \A k \in 1..N : extracted'[k] = extracted[k]
      /\ \A folds : Written(folds, N + 1)' =
           Written(folds, N) \cup (IF directory THEN {} ELSE {Known(path, folds)})
      /\ \A folds : Folders(folds, N + 1)' =
           Folders(folds, N) \cup Above(path, folds) \cup (IF directory THEN {Known(path, folds)} ELSE {})
  BY <1>13, <1>14
<1> HIDE DEF e, M, E, m
<1>6. \A k \in 1..(N + 1) : k \in 1..N \/ k = N + 1
  OBVIOUS
<1>7. Measured'
  <2>1. Len(members) <= MaxFiles /\ MaxFiles \in Nat /\ MaxTotal \in Nat /\ size \in Nat /\ bytes \in Nat
    BY ArchiveAssumption DEF ArchiveInv, Measured
  <2>2. members' \in Seq(M) /\ Len(members) \in Nat /\ Len(members') = Len(members) + 1
    BY <1>4, Appended
  <2>3. extracted' \in Seq(E)
    BY <1>4, Appended
  <2>4. Len(members') <= MaxFiles /\ size' \in Nat /\ size' <= MaxTotal
    BY <1>1, <2>1, <2>2
  <2>5. QED
    BY <2>2, <2>3, <2>4 DEF Measured, M, E
<1>8. Foreseen'
  <2>1. Known(path, TRUE) = Folded(path) /\ Above(path, TRUE) = FoldedParents(path)
    BY DEF Known, Above, FoldedParents
  <2>2. files = Written(TRUE, N) /\ directories = Folders(TRUE, N)
    BY DEF ArchiveInv, Foreseen
  <2>3. files' = Written(TRUE, N + 1)' /\ directories' = Folders(TRUE, N + 1)'
    BY <1>5, <2>1, <2>2 DEF path
  <2>4. ASSUME NEW k \in 1..(N + 1) PROVE Folded(Package \o extracted'[k].path) \in seen'
    <3>1. CASE k \in 1..N
      BY <1>5, <3>1 DEF ArchiveInv, Foreseen
    <3>2. CASE k = N + 1
      BY <1>2, <1>4, <1>5, <3>2
    <3>3. QED
      BY <1>6, <3>1, <3>2
  <2>5. files' = Written(TRUE, Total)' /\ directories' = Folders(TRUE, Total)'
    BY <1>5, <2>3 DEF Written, Folders, Total
  <2>6. QED
    BY <1>5, <2>4, <2>5 DEF Foreseen, Folded
<1>9. Unfailing'
  <2>1. ASSUME NEW n \in 1..N PROVE ~Fails(FALSE, n)' /\ ~Fails(TRUE, n)'
    <3>1. \A folds : Fails(folds, n)' <=> Fails(folds, n)
      BY <1>4, FailsKept DEF E
    <3>2. ~Fails(FALSE, n) /\ ~Fails(TRUE, n)
      BY DEF ArchiveInv, Unfailing
    <3>3. QED
      BY <3>1, <3>2
  <2>2. \A n \in 1..(N + 1) : ~Fails(FALSE, n)' /\ ~Fails(TRUE, n)'
    BY <1>3, <1>6, <2>1
  <2>3. QED
    BY <1>5, <2>2 DEF Unfailing
<1>10. Unmerged'
  <2>1. \A a, b \in aliases' : Folded(a) = Folded(b) => a = b
    BY <1>1, Spelled DEF ArchiveInv
  <2>2. /\ Known(path, FALSE) = path
        /\ Above(path, FALSE) = Parents(path)
    BY DEF Known, Above
  <2>3. /\ Written(FALSE, N + 1)' = Written(FALSE, N) \cup (IF directory THEN {} ELSE {path})
        /\ Folders(FALSE, N + 1)' = Folders(FALSE, N) \cup Parents(path) \cup (IF directory THEN {path} ELSE {})
    BY <1>5, <2>2
  <2>4. ASSUME NEW p \in Written(FALSE, N + 1)' \cup Folders(FALSE, N + 1)'
        PROVE  Package \o p \in aliases'
    <3>1. CASE p \in Written(FALSE, N) \cup Folders(FALSE, N)
      BY <3>1 DEF ArchiveInv, Unmerged
    <3>2. CASE p = path
      BY <1>2, <3>2
    <3>3. CASE p \in Parents(path)
      BY <1>2, <3>3, ParentBelow
    <3>4. QED
      BY <2>3, <2>4, <3>1, <3>2, <3>3
  <2>5. Written(FALSE, Total)' = Written(FALSE, N + 1)' /\ Folders(FALSE, Total)' = Folders(FALSE, N + 1)'
    BY <1>5 DEF Written, Folders, Total
  <2>6. QED
    BY <2>1, <2>4, <2>5 DEF Unmerged, Folded
<1>11. Complete'
  <2>1. /\ \A i \in 1..Len(members') : i \in 1..Len(members) \/ i = Len(members) + 1
        /\ \A i \in 1..Len(members) : members'[i] = members[i]
        /\ members'[Len(members) + 1] = m
    BY <1>4, Appended
  <2>2. ASSUME NEW i \in 1..Len(members')
        PROVE  \/ IsPrefix(members'[i].name, Package)
               \/ \E k \in 1..(N + 1) : members'[i].name = Package \o extracted'[k].path
    <3>1. CASE i \in 1..Len(members)
      <4>1. \/ IsPrefix(members[i].name, Package)
            \/ \E k \in 1..N : members[i].name = Package \o extracted[k].path
        BY <3>1 DEF ArchiveInv, Complete
      <4>2. \A k \in 1..N : k \in 1..(N + 1)
        OBVIOUS
      <4>3. QED
        BY <1>5, <2>1, <3>1, <4>1, <4>2
    <3>2. CASE i = Len(members) + 1
      <4>1. N + 1 \in 1..(N + 1) /\ members'[i].name = name
        BY <1>4, <2>1, <3>2
      <4>2. extracted'[N + 1].path = path
        BY <1>4, <1>5
      <4>3. QED
        BY <1>2, <4>1, <4>2
    <3>3. QED
      BY <2>1, <3>1, <3>2
  <2>3. QED
    BY <1>5, <2>2 DEF Complete
<1>12. QED
  BY <1>7, <1>8, <1>9, <1>10, <1>11 DEF ArchiveInv

LEMMA ArchiveStep == ArchiveInv /\ [ArchiveNext]_archiveVars => ArchiveInv'
<1> SUFFICES ASSUME ArchiveInv, [ArchiveNext]_archiveVars PROVE ArchiveInv'
  OBVIOUS
<1>1. CASE Refuse \/ Judge \/ UNCHANGED archiveVars
  <2>1. UNCHANGED <<members, aliases, seen, files, directories, extracted, size>>
    BY <1>1 DEF Refuse, Judge, archiveVars
  <2>2. QED
    BY <2>1, ArchiveUntouched
<1>2. CASE Admit
  <2>1. PICK name \in Names, directory \in BOOLEAN, bytes \in FileSizes :
          /\ Objections(name, directory, bytes) = {}
          /\ members' = Append(members, [name |-> name, directory |-> directory])
          /\ aliases' = aliases \cup Parents(name) \cup {name}
          /\ seen' = seen \cup {Folded(name)}
          /\ IsScaffold(name, directory) => UNCHANGED <<files, directories, extracted, size>>
          /\ ~IsScaffold(name, directory) =>
               /\ directories' = directories \cup FoldedParents(Below(name))
                                 \cup {p \in {Folded(Below(name))} : directory}
               /\ files' = files \cup {p \in {Folded(Below(name))} : ~directory}
               /\ extracted' = Append(extracted, [path |-> Below(name), directory |-> directory])
               /\ size' = size + bytes
    BY <1>2 DEF Admit
  <2>2. CASE IsScaffold(name, directory)
    BY <2>1, <2>2, ScaffoldKeeps
  <2>3. CASE ~IsScaffold(name, directory)
    <3>1. Total \in Nat
      BY LengthIsNat DEF ArchiveInv, Measured, Total
    <3>2. QED
      BY <2>1, <2>3, <3>1, MemberKeeps
  <2>4. QED
    BY <2>2, <2>3
<1>3. QED
  BY <1>1, <1>2 DEF ArchiveNext

\* What is there is a path below the package.
LEMMA WrittenBelow ==
  ASSUME ArchiveInv, NEW p \in Written(FALSE, Total) \cup Folders(FALSE, Total)
  PROVE  p \in Paths
<1>1. ASSUME NEW k \in 1..Total PROVE extracted[k].path \in Paths
  <2>1. extracted \in Seq([path : Paths, directory : BOOLEAN])
    BY DEF ArchiveInv, Measured
  <2>2. extracted[k] \in [path : Paths, directory : BOOLEAN]
    BY <2>1, EachInSequence DEF Total
  <2>3. QED
    BY <2>2
<1>2. ASSUME NEW path \in Paths, NEW q \in Parents(path) PROVE q \in Paths
  BY <1>2 DEF Parents, Paths
<1>3. \A path : Known(path, FALSE) = path /\ Above(path, FALSE) = Parents(path)
  BY DEF Known, Above
<1>4. CASE p \in Written(FALSE, Total)
  BY <1>1, <1>3, <1>4 DEF Written
<1>5. CASE p \in Folders(FALSE, Total)
  <2>1. \/ \E k \in 1..Total : p \in Above(extracted[k].path, FALSE)
        \/ \E k \in 1..Total : extracted[k].directory /\ p = Known(extracted[k].path, FALSE)
    <3>1. \A folds, n, x : x \in Folders(folds, n) <=>
            \/ \E k \in 1..n : x \in Above(extracted[k].path, folds)
            \/ \E k \in 1..n : extracted[k].directory /\ x = Known(extracted[k].path, folds)
      BY WhatIsThere
    <3>2. QED
      BY <1>5, <3>1, Zenon
  <2>2. CASE \E k \in 1..Total : p \in Above(extracted[k].path, FALSE)
    BY <1>1, <1>2, <1>3, <2>2
  <2>3. CASE \E k \in 1..Total : p = Known(extracted[k].path, FALSE)
    BY <1>1, <1>3, <2>3
  <2>4. QED
    BY <2>1, <2>2, <2>3
<1>6. QED
  BY <1>4, <1>5

LEMMA SamePrefix ==
  ASSUME NEW p \in Paths, NEW q \in Paths, Package \o p = Package \o q
  PROVE  p = q
<1> DEFINE a == Package \o p
           b == Package \o q
<1>1. Package \in Seq(Components) /\ Len(Package) \in Nat /\ Len(p) \in Nat /\ Len(q) \in Nat
      /\ p \in Seq(Components) /\ q \in Seq(Components)
  BY ArchiveAssumption DEF Components, Paths
<1>2. /\ Len(a) = Len(Package) + Len(p)
      /\ \A i \in 1..Len(p) : a[Len(Package) + i] = p[i]
  BY <1>1
<1>3. /\ Len(b) = Len(Package) + Len(q)
      /\ \A i \in 1..Len(q) : b[Len(Package) + i] = q[i]
  BY <1>1
<1>4. Len(p) = Len(q)
  BY <1>1, <1>2, <1>3
<1>5. \A i \in 1..Len(p) : p[i] = q[i]
  BY <1>2, <1>3, <1>4
<1>6. QED
  BY <1>1, <1>4, <1>5

LEMMA ArchiveAlways == ArchiveSpec => []ArchiveInv
BY ArchiveStarts, ArchiveStep, PTL DEF ArchiveSpec

\* An accepted archive is written without failing and without merging two of
\* its members, on a file system that folds names as on one that does not,
\* whatever names and spellings it holds (extract_artifact, downloads.py).
THEOREM AcceptedAlwaysExtracts == ArchiveSpec => []AcceptedExtracts
<1>1. ASSUME ArchiveInv PROVE AcceptedExtracts
  <2>1. extracted \in Seq([path : Paths, directory : BOOLEAN]) /\ members \in Seq([name : Names, directory : BOOLEAN])
    BY <1>1 DEF ArchiveInv, Measured
  <2>2. DOMAIN extracted = 1..Total /\ DOMAIN members = 1..Len(members) /\ Len(extracted) = Total
    BY <2>1 DEF Total
  <2>3. \A n \in DOMAIN extracted : ~Fails(FALSE, n) /\ ~Fails(TRUE, n)
    BY <1>1, <2>2 DEF ArchiveInv, Unfailing
  <2>4. ASSUME NEW p \in Written(FALSE, Total) \cup Folders(FALSE, Total),
               NEW q \in Written(FALSE, Total) \cup Folders(FALSE, Total),
               Folded(p) = Folded(q)
        PROVE  p = q
    <3>1. p \in Paths /\ q \in Paths
      BY <1>1, WrittenBelow
    <3>2. Package \o p = Package \o q
      BY <1>1, <2>4, <3>1, FoldedPackage DEF ArchiveInv, Unmerged
    <3>3. QED
      BY <3>1, <3>2, SamePrefix
  <2>5. \A i \in DOMAIN members :
          \/ IsPrefix(members[i].name, Package)
          \/ \E k \in DOMAIN extracted : members[i].name = Package \o extracted[k].path
    BY <1>1, <2>2 DEF ArchiveInv, Complete
  <2>6. size <= MaxTotal /\ Len(members) <= MaxFiles
    BY <1>1 DEF ArchiveInv, Measured
  <2>7. \A p, q \in Written(FALSE, Len(extracted)) \cup Folders(FALSE, Len(extracted)) :
          Folded(p) = Folded(q) => p = q
    BY <2>4 DEF Total
  <2>8. QED
    BY <2>3, <2>5, <2>6, <2>7 DEF AcceptedExtracts
<1>2. QED
  BY <1>1, ArchiveAlways, PTL

-----------------------------------------------------------------------------
(* Catalogs.                                                                 *)

\* Of finitely many sets one holds no other.
LEMMA SmallestSet ==
  ASSUME NEW S, IsFiniteSet(S), NEW T, T \subseteq SUBSET S, T # {}
  PROVE  \E m \in T : \A n \in T : n \subseteq m => n = m
<1>1. FiniteSubsetsOf(S) = SUBSET S
  BY FS_FiniteSubsetsOfFinite
<1>2. IsWellFoundedOn(StrictSubsetOrdering(S), SUBSET S)
  BY <1>1, FS_StrictSubsetOrderingWellFounded
<1>3. PICK m \in T : \A n \in T : ~ (<<n, m>> \in StrictSubsetOrdering(S))
  BY <1>2, WFMin
<1>4. ASSUME NEW n \in T, n \subseteq m PROVE n = m
  <2>1. <<n, m>> \in (SUBSET S) \X (SUBSET S)
    OBVIOUS
  <2>2. n # m => <<n, m>> \in StrictSubsetOrdering(S)
    BY <1>4, <2>1 DEF StrictSubsetOrdering
  <2>3. QED
    BY <1>3, <2>2
<1>5. QED
  BY <1>4

\* If everything left has something left that needs it, some of what is left
\* needs something of itself all around: a circle.
LEMMA CircleLeft ==
  ASSUME NEW S, IsFiniteSet(S), S # {}, NEW needs, \A i \in S : \E k \in S : i \in needs[k]
  PROVE  \E circle \in SUBSET S : circle # {} /\ \A i \in circle : needs[i] \cap circle # {}
<1> DEFINE Needed(C) == \A i \in C : \E k \in C : i \in needs[k]
           T == {C \in SUBSET S : C # {} /\ Needed(C)}
<1>1. T \subseteq SUBSET S /\ T # {}
  <2>1. S \in T
    OBVIOUS
  <2>2. QED
    BY <2>1
<1>2. PICK C \in T : \A D \in T : D \subseteq C => D = C
  <2> HIDE DEF T
  <2>1. QED
    BY <1>1, SmallestSet
<1>3. ASSUME NEW x \in C, needs[x] \cap C = {} PROVE FALSE
  <2>1. \A i \in C : \E k \in C \ {x} : i \in needs[k]
    <3> TAKE i \in C
    <3>1. PICK k \in C : i \in needs[k]
      BY <1>2
    <3>2. k # x
      BY <1>3, <3>1
    <3>3. QED
      BY <3>1, <3>2
  <2>2. C \ {x} \in T
    <3>1. C \ {x} # {}
      BY <1>3, <2>1
    <3>2. Needed(C \ {x})
      BY <2>1
    <3>3. C \ {x} \in SUBSET S
      BY <1>2
    <3>4. QED
      BY <3>1, <3>2, <3>3
  <2>3. QED
    BY <1>2, <1>3, <2>2
<1>4. QED
  BY <1>2, <1>3

\* The elements of a set in a sequence, each once.
LEMMA InSequence ==
  ASSUME NEW S, IsFiniteSet(S)
  PROVE  /\ SetToSeq(S) \in Seq(S) /\ Len(SetToSeq(S)) = Cardinality(S)
         /\ Cardinality(S) \in Nat
         /\ ToSet(SetToSeq(S)) = S /\ IsInjective(SetToSeq(S))
<1>1. Cardinality(S) \in Nat /\ ExistsBijection(1..Cardinality(S), S)
  BY FS_CardinalityType
<1>2. PICK f \in [1..Cardinality(S) -> S] :
        IsInjective(f) /\ \A t \in S : \E s \in 1..Cardinality(S) : f[s] = t
  BY <1>1 DEF ExistsBijection, Bijection, Injection, Surjection
<1> DEFINE q == SetToSeq(S)
<1>3. q \in [1..Cardinality(S) -> S] /\ IsInjective(q)
  BY <1>2 DEF SetToSeq
<1> HIDE DEF q
<1>4. q \in Injection(1..Cardinality(S), S)
  BY <1>3 DEF Injection
<1>5. IsFiniteSet(1..Cardinality(S)) /\ Cardinality(1..Cardinality(S)) = Cardinality(S)
  <2>1. Cardinality(S) = Cardinality(S) - 1 + 1
    BY <1>1
  <2>2. QED
    BY <1>1, FS_Interval
<1>6. q \in Surjection(1..Cardinality(S), S)
  BY <1>4, <1>5, FS_Injection
<1>7. ToSet(q) = S
  BY <1>3, <1>6 DEF ToSet, Surjection
<1>8. q \in Seq(S) /\ Len(q) = Cardinality(S)
  BY <1>1, <1>3
<1>9. QED
  BY <1>1, <1>3, <1>7, <1>8 DEF q

-----------------------------------------------------------------------------
Order == 1..Len(entries)

\* The first half of a good catalog, and the rest but for circles.
Unique ==
  \A i, k \in Order :
    /\ Identity(entries[i]) = Identity(entries[k]) => i = k
    /\ entries[i].id = entries[k].id <=> entries[i].domain = entries[k].domain
Dependable(entry) ==
  /\ Targets(entry) \subseteq Listed
  /\ \A d \in Local(entry) : d.id # entry.id
  /\ \A j, k \in DOMAIN entry.dependencies :
       <<entry.dependencies[j].source, entry.dependencies[j].id>>
         = <<entry.dependencies[k].source, entry.dependencies[k].id>> => j = k

\* What the first loop keeps of the entries.
TakenIn ==
  /\ entries \in Seq(Entries)
  /\ \A i \in Order : /\ Identity(entries[i]) \in DOMAIN byIdentity
                      /\ entries[i].id \in DOMAIN ids /\ entries[i].domain \in DOMAIN domains
  /\ IsFiniteSet(DOMAIN byIdentity)
  /\ \A x \in DOMAIN byIdentity :
       \E i \in Order : Identity(entries[i]) = x /\ byIdentity[x] = entries[i]
  /\ \A x \in DOMAIN ids : \E i \in Order : entries[i].id = x /\ ids[x] = entries[i].domain
  /\ \A x \in DOMAIN domains : \E i \in Order : entries[i].domain = x /\ domains[x] = entries[i].id

\* What the errors mean as long as nothing was sorted.
Judgement ==
  /\ catalog = "reading" =>
       (errors = {} <=> Unique) /\ graph = None /\ ready = <<>> /\ visited = 0
  /\ catalog = "sorting" =>
       (errors = {} <=> Unique /\ \A i \in Order : Dependable(entries[i]))

\* Those the sort is done with.
Gone == {i \in DOMAIN graph : incoming[i] = 0 /\ i \notin ToSet(ready)}
StillNeed(i) == {k \in DOMAIN graph \ Gone : i \in graph[k]}

SortedSoFar ==
  catalog # "reading" =>
    /\ graph = [i \in DOMAIN byIdentity |-> Targets(byIdentity[i]) \cap DOMAIN byIdentity]
    /\ incoming \in [DOMAIN graph -> Nat]
    /\ ready \in Seq(DOMAIN graph) /\ IsInjective(ready)
    /\ \A n \in 1..Len(ready) : incoming[ready[n]] = 0
    /\ \A i \in DOMAIN graph : incoming[i] = Cardinality(StillNeed(i))
    /\ visited = Cardinality(Gone)
    /\ \A circle \in SUBSET DOMAIN graph :
         circle # {} /\ (\A i \in circle : graph[i] \cap circle # {}) => ~(circle \subseteq Gone)

Verdict ==
  /\ catalog \in {"reading", "sorting", "valid", "invalid"}
  /\ catalog = "valid" => GoodCatalog
  /\ catalog = "invalid" => ~GoodCatalog

CatalogInv == TakenIn /\ Judgement /\ SortedSoFar /\ Verdict

LEMMA CatalogStarts == CatalogInit => CatalogInv
<1> SUFFICES ASSUME CatalogInit PROVE CatalogInv
  OBVIOUS
<1>1. /\ entries = <<>> /\ byIdentity = None /\ ids = None /\ domains = None /\ errors = {}
      /\ graph = None /\ ready = <<>> /\ visited = 0 /\ catalog = "reading"
  BY DEF CatalogInit
<1>2. DOMAIN None = {} /\ Order = {} /\ IsFiniteSet(DOMAIN None)
  <2>1. DOMAIN None = {}
    BY DEF None
  <2>2. Order = {}
    BY <1>1 DEF Order
  <2>3. QED
    BY <2>1, <2>2, FS_EmptySet
<1>3. TakenIn
  BY <1>1, <1>2 DEF TakenIn
<1>4. Judgement /\ SortedSoFar /\ Verdict
  BY <1>1, <1>2 DEF Judgement, SortedSoFar, Verdict, Unique
<1>5. QED
  BY <1>3, <1>4 DEF CatalogInv

LEMMA EntryTaken ==
  ASSUME CatalogInv, TakeEntry
  PROVE  CatalogInv'
<1>1. PICK entry \in Entries :
        /\ catalog = "reading" /\ entries' = Append(entries, entry)
        /\ errors' = {} <=>
             /\ errors = {} /\ Identity(entry) \notin DOMAIN byIdentity
             /\ entry.id \in DOMAIN ids => ids[entry.id] = entry.domain
             /\ entry.domain \in DOMAIN domains => domains[entry.domain] = entry.id
        /\ ids' = With(ids, entry.id, entry.domain)
        /\ domains' = With(domains, entry.domain, entry.id)
        /\ byIdentity' = With(byIdentity, Identity(entry), entry)
        /\ UNCHANGED <<graph, incoming, ready, visited, catalog>>
  BY DEF TakeEntry
<1> DEFINE last == Len(entries) + 1
<1>2. /\ entries \in Seq(Entries) /\ entries' \in Seq(Entries) /\ Len(entries) \in Nat
      /\ Order' = Order \cup {last} /\ last \notin Order
      /\ entries'[last] = entry /\ \A i \in Order : entries'[i] = entries[i]
  <2>1. entries \in Seq(Entries) /\ entries' = Append(entries, entry)
    BY <1>1 DEF CatalogInv, TakenIn
  <2>2. /\ entries' \in Seq(Entries) /\ Len(entries) \in Nat /\ Len(entries') = last
        /\ \A i \in 1..Len(entries) : entries'[i] = entries[i]
        /\ entries'[last] = entry
    BY <2>1, Appended
  <2>3. Order' = Order \cup {last} /\ last \notin Order
    BY <2>2 DEF Order
  <2>4. QED
    BY <2>1, <2>2, <2>3 DEF Order
<1> HIDE DEF last
<1>3. TakenIn'
  <2>1. /\ DOMAIN byIdentity' = DOMAIN byIdentity \cup {Identity(entry)}
        /\ byIdentity'[Identity(entry)] = entry
        /\ \A x \in DOMAIN byIdentity : x # Identity(entry) => byIdentity'[x] = byIdentity[x]
    <3>1. byIdentity' = With(byIdentity, Identity(entry), entry)
      BY <1>1
    <3>2. QED
      BY <3>1 DEF With
  <2>2. /\ DOMAIN ids' = DOMAIN ids \cup {entry.id} /\ ids'[entry.id] = entry.domain
        /\ \A x \in DOMAIN ids : x # entry.id => ids'[x] = ids[x]
    <3>1. ids' = With(ids, entry.id, entry.domain)
      BY <1>1
    <3>2. QED
      BY <3>1 DEF With
  <2>3. /\ DOMAIN domains' = DOMAIN domains \cup {entry.domain} /\ domains'[entry.domain] = entry.id
        /\ \A x \in DOMAIN domains : x # entry.domain => domains'[x] = domains[x]
    <3>1. domains' = With(domains, entry.domain, entry.id)
      BY <1>1
    <3>2. QED
      BY <3>1 DEF With
  <2>4. IsFiniteSet(DOMAIN byIdentity')
    BY <2>1, FS_AddElement DEF CatalogInv, TakenIn
  <2>5. \A i \in Order' : /\ Identity(entries'[i]) \in DOMAIN byIdentity'
                          /\ entries'[i].id \in DOMAIN ids' /\ entries'[i].domain \in DOMAIN domains'
    BY <1>2, <2>1, <2>2, <2>3 DEF CatalogInv, TakenIn
  <2>6. \A x \in DOMAIN byIdentity' :
          \E i \in Order' : Identity(entries'[i]) = x /\ byIdentity'[x] = entries'[i]
    BY <1>2, <2>1 DEF CatalogInv, TakenIn
  <2>7. \A x \in DOMAIN ids' : \E i \in Order' : entries'[i].id = x /\ ids'[x] = entries'[i].domain
    <3> TAKE x \in DOMAIN ids'
    <3>1. CASE x = entry.id
      BY <1>2, <2>2, <3>1
    <3>2. CASE x # entry.id
      <4>1. x \in DOMAIN ids /\ ids'[x] = ids[x]
        BY <2>2, <3>2
      <4>2. PICK i \in Order : entries[i].id = x /\ ids[x] = entries[i].domain
        BY <4>1 DEF CatalogInv, TakenIn
      <4>3. QED
        BY <1>2, <4>1, <4>2
    <3>3. QED
      BY <3>1, <3>2
  <2>8. \A x \in DOMAIN domains' :
          \E i \in Order' : entries'[i].domain = x /\ domains'[x] = entries'[i].id
    <3> TAKE x \in DOMAIN domains'
    <3>1. CASE x = entry.domain
      BY <1>2, <2>3, <3>1
    <3>2. CASE x # entry.domain
      <4>1. x \in DOMAIN domains /\ domains'[x] = domains[x]
        BY <2>3, <3>2
      <4>2. PICK i \in Order : entries[i].domain = x /\ domains[x] = entries[i].id
        BY <4>1 DEF CatalogInv, TakenIn
      <4>3. QED
        BY <1>2, <4>1, <4>2
    <3>3. QED
      BY <3>1, <3>2
  <2>9. QED
    BY <1>2, <2>4, <2>5, <2>6, <2>7, <2>8 DEF TakenIn, Identity
<1>4. Unique' <=>
        /\ Unique
        /\ \A i \in Order : /\ Identity(entries[i]) # Identity(entry)
                            /\ entries[i].id = entry.id <=> entries[i].domain = entry.domain
  <2>1. Unique' <=>
          \A i, k \in Order' :
            /\ Identity(entries'[i]) = Identity(entries'[k]) => i = k
            /\ entries'[i].id = entries'[k].id <=> entries'[i].domain = entries'[k].domain
    BY DEF Unique, Identity, Order
  <2>2. ASSUME Unique'
        PROVE  /\ Unique
               /\ \A i \in Order : /\ Identity(entries[i]) # Identity(entry)
                                   /\ entries[i].id = entry.id <=> entries[i].domain = entry.domain
    <3>1. Unique
      BY <1>2, <2>1, <2>2 DEF Unique
    <3>2. QED
      BY <1>2, <2>1, <2>2, <3>1
  <2>3. ASSUME Unique,
               \A i \in Order : /\ Identity(entries[i]) # Identity(entry)
                                /\ entries[i].id = entry.id <=> entries[i].domain = entry.domain
        PROVE  Unique'
    <3> SUFFICES ASSUME NEW i \in Order', NEW k \in Order'
                 PROVE  /\ Identity(entries'[i]) = Identity(entries'[k]) => i = k
                        /\ entries'[i].id = entries'[k].id <=> entries'[i].domain = entries'[k].domain
      BY <2>1
    <3>1. CASE i \in Order /\ k \in Order
      BY <1>2, <2>3, <3>1 DEF Unique
    <3>2. CASE i \in Order /\ k = last
      BY <1>2, <2>3, <3>2
    <3>3. CASE i = last /\ k \in Order
      BY <1>2, <2>3, <3>3
    <3>4. CASE i = last /\ k = last
      BY <3>4
    <3>5. QED
      BY <1>2, <3>1, <3>2, <3>3, <3>4
  <2>4. QED
    BY <2>2, <2>3
<1>5. ASSUME Unique
      PROVE  (\A i \in Order : /\ Identity(entries[i]) # Identity(entry)
                               /\ entries[i].id = entry.id <=> entries[i].domain = entry.domain)
             <=> /\ Identity(entry) \notin DOMAIN byIdentity
                 /\ entry.id \in DOMAIN ids => ids[entry.id] = entry.domain
                 /\ entry.domain \in DOMAIN domains => domains[entry.domain] = entry.id
  <2>1. Identity(entry) \in DOMAIN byIdentity <=> \E i \in Order : Identity(entries[i]) = Identity(entry)
    BY DEF CatalogInv, TakenIn
  <2>2. (entry.id \in DOMAIN ids => ids[entry.id] = entry.domain)
          <=> \A i \in Order : entries[i].id = entry.id => entries[i].domain = entry.domain
    BY <1>5 DEF CatalogInv, TakenIn, Unique
  <2>3. (entry.domain \in DOMAIN domains => domains[entry.domain] = entry.id)
          <=> \A i \in Order : entries[i].domain = entry.domain => entries[i].id = entry.id
    BY <1>5 DEF CatalogInv, TakenIn, Unique
  <2>4. QED
    BY <2>1, <2>2, <2>3
<1>6. errors' = {} <=> Unique'
  BY <1>1, <1>4, <1>5 DEF CatalogInv, Judgement
<1>7. Judgement' /\ SortedSoFar' /\ Verdict'
  BY <1>1, <1>6 DEF CatalogInv, Judgement, SortedSoFar, Verdict
<1>8. QED
  BY <1>3, <1>7 DEF CatalogInv

\* With every identity taken once, an entry is the one its identity names.
LEMMA NamedEntry ==
  ASSUME TakenIn, Unique
  PROVE  /\ \A i \in Order : byIdentity[Identity(entries[i])] = entries[i]
         /\ Listed = DOMAIN byIdentity
         /\ entries \in Seq(Entries) /\ DOMAIN entries = Order
         /\ \A i \in Order : DOMAIN entries[i].dependencies \subseteq Nat
<1>1. entries \in Seq(Entries) /\ DOMAIN entries = Order
  BY DEF TakenIn, Order
<1>2. \A i \in Order : byIdentity[Identity(entries[i])] = entries[i]
  BY DEF TakenIn, Unique
<1>3. Listed = DOMAIN byIdentity
  BY <1>1 DEF TakenIn, Listed
<1>4. ASSUME NEW i \in Order PROVE DOMAIN entries[i].dependencies \subseteq Nat
  <2>1. entries[i] \in Entries
    BY <1>1 DEF Order
  <2>2. entries[i].dependencies \in Seq(ToSet(entries[i].dependencies))
    BY <2>1, CatalogAssumption
  <2>3. QED
    BY <2>2
<1>5. QED
  BY <1>1, <1>2, <1>3, <1>4

LEMMA NoComplaint ==
  ASSUME TakenIn, Unique, NEW i \in Order
  PROVE  DependencyErrors(entries[i]) = {} <=> Dependable(entries[i])
<1> DEFINE entry == entries[i]
           needs == entry.dependencies
           Twice == \E j, k \in DOMAIN needs : /\ j < k /\ needs[j].source = needs[k].source
                                               /\ needs[j].id = needs[k].id
<1>1. DOMAIN needs \subseteq Nat /\ Listed = DOMAIN byIdentity
  BY NamedEntry
<1>2. ~Twice <=> \A j, k \in DOMAIN needs :
        <<needs[j].source, needs[j].id>> = <<needs[k].source, needs[k].id>> => j = k
  BY <1>1
<1>3. DependencyErrors(entry) = {} <=>
        ~Twice /\ (\A d \in Local(entry) : d.id # entry.id) /\ Targets(entry) \subseteq DOMAIN byIdentity
  <2>1. "duplicate dependency identity" \in DependencyErrors(entry) <=> Twice
    BY DEF DependencyErrors
  <2>2. "module cannot depend on itself" \in DependencyErrors(entry)
          <=> \E d \in Local(entry) : d.id = entry.id
    BY DEF DependencyErrors
  <2>3. "local dependency is absent or of another version" \in DependencyErrors(entry)
          <=> ~(Targets(entry) \subseteq DOMAIN byIdentity)
    BY DEF DependencyErrors
  <2>4. DependencyErrors(entry) \subseteq {"duplicate dependency identity",
          "module cannot depend on itself", "local dependency is absent or of another version"}
    BY DEF DependencyErrors
  <2> HIDE DEF Twice, needs, entry
  <2>5. QED
    BY <2>1, <2>2, <2>3, <2>4
<1> HIDE DEF Twice
<1>4. QED
  BY <1>1, <1>2, <1>3 DEF Dependable

LEMMA GraphLinked ==
  ASSUME CatalogInv, Link
  PROVE  CatalogInv'
<1> DEFINE S == DOMAIN byIdentity
           targets == [i \in S |-> Targets(byIdentity[i]) \cap S]
           counts == [i \in S |-> Cardinality({k \in S : i \in targets[k]})]
           opened == {i \in S : counts[i] = 0}
<1>1. /\ catalog = "reading" /\ catalog' = "sorting"
      /\ errors' = errors \cup UNION {DependencyErrors(byIdentity[i]) : i \in S}
      /\ graph' = targets /\ incoming' = counts /\ ready' = SetToSeq(opened)
      /\ UNCHANGED <<entries, byIdentity, ids, domains, visited>>
  BY DEF Link
<1>2. IsFiniteSet(S) /\ visited = 0 /\ (errors = {} <=> Unique)
  BY <1>1 DEF CatalogInv, TakenIn, Judgement
<1>3. TakenIn'
  BY <1>1 DEF CatalogInv, TakenIn, Order, Identity
<1>4. DOMAIN targets = S /\ \A i \in S : targets[i] = Targets(byIdentity[i]) \cap S
  OBVIOUS
<1>5. counts \in [S -> Nat] /\ \A i \in S : counts[i] = Cardinality({k \in S : i \in targets[k]})
  <2>1. ASSUME NEW i \in S PROVE Cardinality({k \in S : i \in targets[k]}) \in Nat
    <3>1. {k \in S : i \in targets[k]} \subseteq S
      OBVIOUS
    <3>2. IsFiniteSet({k \in S : i \in targets[k]})
      BY <1>2, <3>1, FS_Subset
    <3>3. QED
      BY <3>2, FS_CardinalityType
  <2> HIDE DEF targets
  <2>2. QED
    BY <2>1
<1> HIDE DEF targets, counts
<1>6. /\ IsFiniteSet(opened) /\ opened \subseteq S
      /\ ready' \in Seq(opened) /\ ToSet(ready') = opened /\ IsInjective(ready')
  <2>1. opened \subseteq S
    OBVIOUS
  <2>2. IsFiniteSet(opened)
    BY <1>2, <2>1, FS_Subset
  <2>3. QED
    BY <1>1, <2>1, <2>2, InSequence
<1>7. Gone' = {} /\ DOMAIN graph' = S
  BY <1>1, <1>4, <1>5, <1>6 DEF Gone
<1>8. \A i \in S : incoming'[i] = Cardinality(StillNeed(i)')
  <2> TAKE i \in S
  <2>1. StillNeed(i)' = {k \in S : i \in targets[k]}
    BY <1>1, <1>7 DEF StillNeed
  <2>2. QED
    BY <1>1, <1>5, <2>1
<1>9. SortedSoFar'
  <2>1. graph' = [i \in DOMAIN byIdentity' |-> Targets(byIdentity'[i]) \cap DOMAIN byIdentity']
    BY <1>1 DEF targets, Targets, Local
  <2>2. incoming' \in [DOMAIN graph' -> Nat]
    BY <1>1, <1>5, <1>7
  <2>3. ready' \in Seq(DOMAIN graph') /\ IsInjective(ready')
    BY <1>6, <1>7
  <2>4. \A n \in 1..Len(ready') : incoming'[ready'[n]] = 0
    BY <1>1, <1>6
  <2>5. visited' = Cardinality(Gone')
    BY <1>1, <1>2, <1>7, FS_EmptySet
  <2>6. \A C \in SUBSET DOMAIN graph' : C # {} => ~(C \subseteq Gone')
    BY <1>7
  <2>7. \A i \in DOMAIN graph' : incoming'[i] = Cardinality(StillNeed(i)')
    BY <1>7, <1>8
  <2>8. QED
    BY <2>1, <2>2, <2>3, <2>4, <2>5, <2>6, <2>7 DEF SortedSoFar, StillNeed
<1>10. errors' = {} <=> Unique /\ \A i \in Order : Dependable(entries[i])
  <2>1. errors' = {} <=> errors = {} /\ \A x \in S : DependencyErrors(byIdentity[x]) = {}
    <3>1. \A e : e \in UNION {DependencyErrors(byIdentity[x]) : x \in S}
                 <=> \E x \in S : e \in DependencyErrors(byIdentity[x])
      OBVIOUS
    <3>2. QED
      BY <1>1, <3>1
  <2>2. ASSUME Unique
        PROVE  (\A x \in S : DependencyErrors(byIdentity[x]) = {})
                 <=> \A i \in Order : DependencyErrors(entries[i]) = {}
    <3>1. \A i \in Order : Identity(entries[i]) \in S /\ byIdentity[Identity(entries[i])] = entries[i]
      BY <2>2, NamedEntry DEF CatalogInv, TakenIn
    <3>2. \A x \in S : \E i \in Order : byIdentity[x] = entries[i]
      BY DEF CatalogInv, TakenIn
    <3>3. QED
      BY <3>1, <3>2
  <2>3. ASSUME Unique
        PROVE  \A i \in Order : DependencyErrors(entries[i]) = {} <=> Dependable(entries[i])
    BY <2>3, NoComplaint DEF CatalogInv
  <2>4. QED
    BY <1>2, <2>1, <2>2, <2>3
<1>11. Judgement' /\ Verdict'
  <2>1. Unique' <=> Unique
    BY <1>1 DEF Unique, Order, Identity
  <2>2. (\A i \in Order : Dependable(entries[i]))' <=> \A i \in Order : Dependable(entries[i])
    BY <1>1 DEF Dependable, Order, Targets, Local, Listed, Identity
  <2>3. QED
    BY <1>1, <1>10, <2>1, <2>2 DEF Judgement, Verdict
<1>12. QED
  BY <1>3, <1>9, <1>11 DEF CatalogInv

LEMMA Before ==
  ASSUME NEW n \in Nat, n > 0
  PROVE  /\ \A i \in 1..n : i \in 1..(n - 1) \/ i = n
         /\ \A i \in 1..(n - 1) : i \in 1..n /\ i # n
         /\ n \in 1..n
OBVIOUS

LEMMA FrontOnce ==
  ASSUME NEW S, NEW s \in Seq(S), s # <<>>, IsInjective(s)
  PROVE  /\ Front(s) \in Seq(S) /\ IsInjective(Front(s)) /\ ToSet(Front(s)) = ToSet(s) \ {Last(s)}
         /\ Last(s) \in ToSet(s) /\ ToSet(s) \subseteq S /\ Len(s) \in Nat
<1>1. Len(s) \in Nat /\ Len(s) > 0 /\ DOMAIN s = 1..Len(s)
  OBVIOUS
<1>2. /\ Front(s) \in Seq(S) /\ Len(Front(s)) = Len(s) - 1 /\ DOMAIN Front(s) = 1..(Len(s) - 1)
      /\ \A i \in 1..(Len(s) - 1) : Front(s)[i] = s[i]
  BY <1>1 DEF Front
<1>3. \A i, k \in 1..Len(s) : s[i] = s[k] => i = k
  BY <1>1 DEF IsInjective
<1>4. IsInjective(Front(s))
  BY <1>1, <1>2, <1>3 DEF IsInjective
<1>5. ToSet(Front(s)) = {s[i] : i \in 1..(Len(s) - 1)} /\ ToSet(s) = {s[i] : i \in 1..Len(s)}
  BY <1>1, <1>2 DEF ToSet
<1>6. /\ \A i \in 1..Len(s) : i \in 1..(Len(s) - 1) \/ i = Len(s)
      /\ \A i \in 1..(Len(s) - 1) : i \in 1..Len(s) /\ i # Len(s)
      /\ Len(s) \in 1..Len(s)
  BY <1>1, Before
<1>7. Last(s) = s[Len(s)]
  BY DEF Last
<1>8. ToSet(Front(s)) = ToSet(s) \ {Last(s)} /\ Last(s) \in ToSet(s)
  <2> DEFINE n == Len(s)
  <2> HIDE DEF n
  <2>1. /\ \A i \in 1..n : i \in 1..(n - 1) \/ i = n
        /\ \A i \in 1..(n - 1) : i \in 1..n /\ i # n
        /\ n \in 1..n /\ Last(s) = s[n]
        /\ \A i, k \in 1..n : s[i] = s[k] => i = k
        /\ ToSet(Front(s)) = {s[i] : i \in 1..(n - 1)} /\ ToSet(s) = {s[i] : i \in 1..n}
    BY <1>3, <1>5, <1>6, <1>7 DEF n
  <2>2. ASSUME NEW e PROVE e \in ToSet(Front(s)) <=> e \in ToSet(s) /\ e # Last(s)
    <3>1. ASSUME e \in ToSet(Front(s)) PROVE e \in ToSet(s) /\ e # Last(s)
      BY <2>1, <3>1
    <3>2. ASSUME e \in ToSet(s), e # Last(s) PROVE e \in ToSet(Front(s))
      BY <2>1, <3>2
    <3>3. QED
      BY <3>1, <3>2
  <2>3. Last(s) \in ToSet(s)
    BY <2>1
  <2>4. QED
    BY <2>2, <2>3
<1>9. ToSet(s) \subseteq S
  BY <1>1, <1>5
<1>10. QED
  BY <1>1, <1>2, <1>4, <1>8, <1>9

LEMMA JoinedOnce ==
  ASSUME NEW S, NEW p \in Seq(S), NEW q \in Seq(S), IsInjective(p), IsInjective(q),
         ToSet(p) \cap ToSet(q) = {}
  PROVE  p \o q \in Seq(S) /\ IsInjective(p \o q) /\ ToSet(p \o q) = ToSet(p) \cup ToSet(q)
<1> DEFINE r == p \o q
<1>1. /\ r \in Seq(S) /\ Len(p) \in Nat /\ Len(q) \in Nat /\ Len(r) = Len(p) + Len(q)
      /\ DOMAIN p = 1..Len(p) /\ DOMAIN q = 1..Len(q) /\ DOMAIN r = 1..(Len(p) + Len(q))
  OBVIOUS
<1>2. /\ \A i \in 1..Len(p) : r[i] = p[i]
      /\ \A i \in 1..Len(q) : r[Len(p) + i] = q[i]
  BY <1>1
<1> HIDE DEF r
<1>3. \A i \in DOMAIN r :
        i \in 1..Len(p) \/ \E k \in 1..Len(q) : i = Len(p) + k
  <2> TAKE i \in DOMAIN r
  <2>1. i \in 1..Len(p) \/ i - Len(p) \in 1..Len(q)
    BY <1>1
  <2>2. i = Len(p) + (i - Len(p))
    BY <1>1
  <2>3. QED
    BY <2>1, <2>2
<1>4. \A i \in 1..Len(p) : i \in DOMAIN r /\ r[i] \in ToSet(p)
  BY <1>1, <1>2 DEF ToSet
<1>5. ASSUME NEW i \in 1..Len(q) PROVE Len(p) + i \in DOMAIN r /\ r[Len(p) + i] \in ToSet(q)
  <2>1. Len(p) + i \in 1..(Len(p) + Len(q))
    BY <1>1
  <2>2. q[i] \in ToSet(q)
    BY <1>1 DEF ToSet
  <2>3. QED
    BY <1>1, <1>2, <2>1, <2>2
<1>6. ToSet(r) = ToSet(p) \cup ToSet(q)
  <2>1. ToSet(r) \subseteq ToSet(p) \cup ToSet(q)
    BY <1>3, <1>4, <1>5 DEF ToSet
  <2>2. ToSet(p) \subseteq ToSet(r)
    BY <1>1, <1>2, <1>4 DEF ToSet
  <2>3. ASSUME NEW e \in ToSet(q) PROVE e \in ToSet(r)
    <3>1. PICK i \in 1..Len(q) : e = q[i]
      BY <1>1 DEF ToSet
    <3>2. Len(p) + i \in DOMAIN r /\ r[Len(p) + i] = e
      BY <1>2, <1>5, <3>1
    <3>3. QED
      BY <3>2 DEF ToSet
  <2>4. QED
    BY <2>1, <2>2, <2>3
<1>7. ASSUME NEW i \in DOMAIN r, NEW k \in DOMAIN r, r[i] = r[k] PROVE i = k
  <2>1. CASE i \in 1..Len(p) /\ k \in 1..Len(p)
    BY <1>1, <1>2, <1>7, <2>1 DEF IsInjective
  <2>2. CASE i \in 1..Len(p) /\ k \notin 1..Len(p)
    BY <1>3, <1>4, <1>5, <1>7, <2>2
  <2>3. CASE i \notin 1..Len(p) /\ k \in 1..Len(p)
    BY <1>3, <1>4, <1>5, <1>7, <2>3
  <2>4. CASE i \notin 1..Len(p) /\ k \notin 1..Len(p)
    <3>1. PICK m \in 1..Len(q), n \in 1..Len(q) : i = Len(p) + m /\ k = Len(p) + n
      BY <1>3, <2>4
    <3>2. q[m] = q[n]
      BY <1>2, <1>7, <3>1
    <3>3. m = n
      BY <1>1, <3>2 DEF IsInjective
    <3>4. QED
      BY <3>1, <3>3
  <2>5. QED
    BY <2>1, <2>2, <2>3, <2>4
<1>8. IsInjective(r)
  BY <1>7 DEF IsInjective
<1>9. QED
  BY <1>1, <1>6, <1>8 DEF r

\* What nothing left needs has nothing left that needs it.
LEMMA NothingLeftNeeds ==
  ASSUME CatalogInv, catalog # "reading"
  PROVE  /\ IsFiniteSet(DOMAIN graph) /\ DOMAIN graph = DOMAIN byIdentity
         /\ \A i \in DOMAIN graph : /\ IsFiniteSet(StillNeed(i)) /\ graph[i] \subseteq DOMAIN graph
                                    /\ incoming[i] = 0 <=> StillNeed(i) = {}
<1>1. /\ graph = [i \in DOMAIN byIdentity |-> Targets(byIdentity[i]) \cap DOMAIN byIdentity]
      /\ \A i \in DOMAIN graph : incoming[i] = Cardinality(StillNeed(i))
  BY DEF CatalogInv, SortedSoFar
<1>2. IsFiniteSet(DOMAIN graph) /\ DOMAIN graph = DOMAIN byIdentity
  BY <1>1 DEF CatalogInv, TakenIn
<1>3. \A i \in DOMAIN graph : graph[i] \subseteq DOMAIN graph
  BY <1>1
<1>4. ASSUME NEW i \in DOMAIN graph PROVE IsFiniteSet(StillNeed(i)) /\ (incoming[i] = 0 <=> StillNeed(i) = {})
  <2>1. StillNeed(i) \subseteq DOMAIN graph
    BY DEF StillNeed
  <2>2. IsFiniteSet(StillNeed(i))
    BY <1>2, <2>1, FS_Subset
  <2>3. QED
    BY <1>1, <2>2, FS_EmptySet
<1>5. QED
  BY <1>2, <1>3, <1>4

LEMMA EntryVisited ==
  ASSUME CatalogInv, Visit
  PROVE  CatalogInv'
<1> DEFINE S == DOMAIN graph
           x == Last(ready)
           targets == graph[x]
           opened == {t \in targets : incoming'[t] = 0}
<1>1. /\ catalog = "sorting" /\ ready # <<>> /\ incoming' = Less(incoming, targets)
      /\ ready' = Front(ready) \o SetToSeq(opened) /\ visited' = visited + 1
      /\ UNCHANGED <<entries, byIdentity, ids, domains, errors, graph, catalog>>
  BY DEF Visit
<1>2. /\ incoming \in [S -> Nat] /\ ready \in Seq(S) /\ IsInjective(ready)
      /\ \A n \in 1..Len(ready) : incoming[ready[n]] = 0
      /\ \A i \in S : incoming[i] = Cardinality(StillNeed(i))
      /\ visited = Cardinality(Gone)
      /\ \A circle \in SUBSET S :
           circle # {} /\ (\A i \in circle : graph[i] \cap circle # {}) => ~(circle \subseteq Gone)
  BY <1>1 DEF CatalogInv, SortedSoFar
<1>3. /\ IsFiniteSet(S) /\ \A i \in S : /\ IsFiniteSet(StillNeed(i)) /\ graph[i] \subseteq S
                                        /\ incoming[i] = 0 <=> StillNeed(i) = {}
  BY <1>1, NothingLeftNeeds
<1>4. /\ Front(ready) \in Seq(S) /\ IsInjective(Front(ready))
      /\ ToSet(Front(ready)) = ToSet(ready) \ {x} /\ x \in ToSet(ready) /\ ToSet(ready) \subseteq S
  BY <1>1, <1>2, FrontOnce
<1>5. \A i \in ToSet(ready) : incoming[i] = 0
  BY <1>2 DEF ToSet
<1> HIDE DEF x
<1>6. x \in S /\ x \notin Gone /\ incoming[x] = 0 /\ x \notin targets
  <2>1. x \in S /\ x \notin Gone /\ incoming[x] = 0
    BY <1>4, <1>5 DEF Gone
  <2>2. QED
    BY <1>3, <2>1 DEF StillNeed
<1>7. \A t \in targets : t \in S /\ x \in StillNeed(t) /\ incoming[t] # 0 /\ incoming[t] \in Nat
                         /\ incoming'[t] = incoming[t] - 1
  BY <1>1, <1>2, <1>3, <1>6 DEF StillNeed, Less
<1>8. \A i \in S : i \notin targets => incoming'[i] = incoming[i]
  BY <1>1, <1>2 DEF Less
<1>9. incoming' \in [S -> Nat]
  <2>1. incoming' = [i \in S |-> IF i \in targets THEN incoming[i] - 1 ELSE incoming[i]]
    BY <1>1, <1>2 DEF Less
  <2>2. \A i \in S : (IF i \in targets THEN incoming[i] - 1 ELSE incoming[i]) \in Nat
    BY <1>2, <1>7
  <2> HIDE DEF targets
  <2>3. QED
    BY <2>1, <2>2
<1>10. /\ IsFiniteSet(opened) /\ SetToSeq(opened) \in Seq(S) /\ ToSet(SetToSeq(opened)) = opened
       /\ IsInjective(SetToSeq(opened))
  <2>1. opened \subseteq S
    BY <1>7
  <2>2. IsFiniteSet(opened)
    BY <1>3, <2>1, FS_Subset
  <2> HIDE DEF opened
  <2>3. SetToSeq(opened) \in Seq(opened) /\ ToSet(SetToSeq(opened)) = opened /\ IsInjective(SetToSeq(opened))
    BY <2>2, InSequence
  <2>4. SetToSeq(opened) \in Seq(S)
    BY <2>1, <2>3
  <2>5. QED
    BY <2>2, <2>3, <2>4
<1>11. ToSet(Front(ready)) \cap opened = {}
  BY <1>4, <1>5, <1>7
<1>12. ready' \in Seq(S) /\ IsInjective(ready') /\ ToSet(ready') = (ToSet(ready) \ {x}) \cup opened
  <2>1. ToSet(Front(ready)) \cap ToSet(SetToSeq(opened)) = {}
    BY <1>10, <1>11
  <2> HIDE DEF opened
  <2>2. QED
    BY <1>1, <1>4, <1>10, <2>1, JoinedOnce
<1>13. \A i \in ToSet(ready') : incoming'[i] = 0
  BY <1>4, <1>5, <1>7, <1>8, <1>12
<1>14. Gone' = Gone \cup {x}
  <2>1. Gone' = {i \in S : incoming'[i] = 0 /\ i \notin ToSet(ready')}
    BY <1>1 DEF Gone
  <2>2. \A i \in S : i \in Gone' <=> i \in Gone \cup {x}
    <3> TAKE i \in S
    <3>1. CASE i \in targets
      <4>1. incoming[i] # 0 /\ i # x
        BY <1>6, <1>7, <3>1
      <4>2. incoming'[i] = 0 => i \in ToSet(ready')
        BY <1>12, <3>1
      <4>3. QED
        BY <2>1, <4>1, <4>2 DEF Gone
    <3>2. CASE i \notin targets
      <4>1. i \in ToSet(ready') <=> i \in ToSet(ready) /\ i # x
        BY <1>12, <3>2
      <4>2. QED
        BY <1>6, <1>8, <2>1, <3>2, <4>1 DEF Gone
    <3>3. QED
      BY <3>1, <3>2
  <2>3. Gone \subseteq S /\ Gone' \subseteq S
    BY <2>1 DEF Gone
  <2>4. QED
    BY <1>6, <2>2, <2>3
<1>15. \A i \in S : incoming'[i] = Cardinality(StillNeed(i)')
  <2> TAKE i \in S
  <2>1. StillNeed(i)' = StillNeed(i) \ {x}
    BY <1>1, <1>14 DEF StillNeed
  <2>2. CASE i \in targets
    <3>1. x \in StillNeed(i) /\ IsFiniteSet(StillNeed(i))
      BY <1>3, <1>7, <2>2
    <3>2. Cardinality(StillNeed(i) \ {x}) = Cardinality(StillNeed(i)) - 1
      BY <3>1, FS_RemoveElement
    <3>3. QED
      BY <1>2, <1>7, <2>1, <2>2, <3>2
  <2>3. CASE i \notin targets
    <3>1. x \notin StillNeed(i)
      BY <2>3 DEF StillNeed
    <3>2. StillNeed(i)' = StillNeed(i)
      BY <2>1, <3>1
    <3>3. QED
      BY <1>2, <1>8, <2>3, <3>2
  <2>4. QED
    BY <2>2, <2>3
<1>16. visited' = Cardinality(Gone')
  <2>1. Gone \subseteq S
    BY DEF Gone
  <2>2. IsFiniteSet(Gone)
    BY <1>3, <2>1, FS_Subset
  <2>3. Cardinality(Gone \cup {x}) = Cardinality(Gone) + 1
    BY <1>6, <2>2, FS_AddElement
  <2>4. QED
    BY <1>1, <1>2, <1>14, <2>3
<1>17. \A C \in SUBSET S : C # {} /\ (\A i \in C : graph[i] \cap C # {}) => ~(C \subseteq Gone \cup {x})
  <2>1. Gone \subseteq S /\ \A y \in Gone : \A k \in S : y \in graph[k] => k \in Gone
    BY <1>3 DEF Gone, StillNeed
  <2> HIDE DEF targets, opened
  <2>2. x \notin graph[x]
    BY <1>6 DEF targets
  <2>3. x \in S /\ x \notin Gone
    BY <1>6
  <2>4. \A C \in SUBSET S : C # {} /\ (\A i \in C : graph[i] \cap C # {}) => ~(C \subseteq Gone)
    BY <1>2
  <2> HIDE DEF S
  <2>5. \A y \in Gone : \A k \in S : y \in graph[k] => k \in Gone
    BY <2>1
  <2>6. ASSUME NEW C \in SUBSET S, C # {}, \A i \in C : graph[i] \cap C # {}, C \subseteq Gone \cup {x}
        PROVE  FALSE
    <3>1. ~(C \subseteq Gone)
      BY <2>4, <2>6
    <3>2. x \in C
      BY <2>6, <3>1
    <3>3. PICK y \in C : y \in graph[x]
      BY <2>6, <3>2
    <3>4. y \in Gone
      BY <2>2, <2>6, <3>3
    <3>5. x \in Gone
      BY <2>3, <2>5, <3>3, <3>4
    <3>6. QED
      BY <2>3, <3>5
  <2>7. QED
    BY <2>6
<1>18. SortedSoFar'
  <2>1. graph' = [i \in DOMAIN byIdentity' |-> Targets(byIdentity'[i]) \cap DOMAIN byIdentity']
    BY <1>1 DEF CatalogInv, SortedSoFar, Targets, Local
  <2>2. \A n \in 1..Len(ready') : incoming'[ready'[n]] = 0
    BY <1>12, <1>13 DEF ToSet
  <2>3. \A i \in DOMAIN graph' : incoming'[i] = Cardinality(StillNeed(i)')
    BY <1>1, <1>15
  <2>4. \A C \in SUBSET DOMAIN graph' :
          C # {} /\ (\A i \in C : graph'[i] \cap C # {}) => ~(C \subseteq Gone')
    BY <1>1, <1>14, <1>17
  <2>5. incoming' \in [DOMAIN graph' -> Nat] /\ ready' \in Seq(DOMAIN graph') /\ IsInjective(ready')
    BY <1>1, <1>9, <1>12
  <2>6. QED
    BY <1>16, <2>1, <2>2, <2>3, <2>4, <2>5 DEF SortedSoFar, StillNeed
<1>19. TakenIn' /\ Judgement' /\ Verdict'
  <2>1. TakenIn'
    BY <1>1 DEF CatalogInv, TakenIn, Order, Identity
  <2>2. Judgement'
    <3>1. Unique' <=> Unique
      BY <1>1 DEF Unique, Order, Identity
    <3>2. (\A i \in Order : Dependable(entries[i]))' <=> \A i \in Order : Dependable(entries[i])
      BY <1>1 DEF Dependable, Order, Targets, Local, Listed, Identity
    <3>3. errors = {} <=> Unique /\ \A i \in Order : Dependable(entries[i])
      BY <1>1 DEF CatalogInv, Judgement
    <3>4. catalog' = "sorting" /\ errors' = errors
      BY <1>1
    <3>5. QED
      BY <3>1, <3>2, <3>3, <3>4 DEF Judgement
  <2>3. Verdict'
    BY <1>1 DEF Verdict
  <2>4. QED
    BY <2>1, <2>2, <2>3
<1>20. QED
  BY <1>18, <1>19 DEF CatalogInv

\* Entries that need each other all around are their identities that do.
LEMMA CirclesAreCircles ==
  ASSUME TakenIn, Unique,
         graph = [i \in DOMAIN byIdentity |-> Targets(byIdentity[i]) \cap DOMAIN byIdentity]
  PROVE  Acyclic <=> \A C \in SUBSET DOMAIN graph : ~(C # {} /\ \A x \in C : graph[x] \cap C # {})
<1> DEFINE S == DOMAIN graph
<1>1. /\ \A i \in Order : Identity(entries[i]) \in S
      /\ \A i \in Order : graph[Identity(entries[i])] = Targets(entries[i]) \cap S
      /\ \A x \in S : \E i \in Order : Identity(entries[i]) = x
  BY NamedEntry DEF TakenIn
<1>2. ASSUME NEW C \in SUBSET S, C # {}, \A x \in C : graph[x] \cap C # {}
      PROVE  ~Acyclic
  <2> DEFINE circle == {k \in Order : Identity(entries[k]) \in C}
  <2>1. circle \in SUBSET Order /\ circle # {}
    BY <1>1, <1>2
  <2>2. ASSUME NEW i \in circle
        PROVE  \E k \in circle : Identity(entries[k]) \in Targets(entries[i])
    <3>1. PICK y \in C : y \in graph[Identity(entries[i])]
      BY <1>2
    <3>2. PICK k \in Order : Identity(entries[k]) = y
      BY <1>1, <1>2
    <3>3. QED
      BY <1>1, <3>1, <3>2
  <2> HIDE DEF circle
  <2>3. QED
    BY <2>1, <2>2 DEF Acyclic, Order
<1>3. ASSUME NEW circle \in SUBSET Order, circle # {},
             \A i \in circle : \E k \in circle : Identity(entries[k]) \in Targets(entries[i])
      PROVE  \E C \in SUBSET S : C # {} /\ \A x \in C : graph[x] \cap C # {}
  <2> DEFINE C == {Identity(entries[i]) : i \in circle}
  <2>1. C \in SUBSET S /\ C # {}
    BY <1>1, <1>3
  <2>2. ASSUME NEW x \in C PROVE graph[x] \cap C # {}
    <3>1. PICK i \in circle : x = Identity(entries[i])
      OBVIOUS
    <3>2. PICK k \in circle : Identity(entries[k]) \in Targets(entries[i])
      BY <1>3
    <3>3. Identity(entries[k]) \in graph[x] /\ Identity(entries[k]) \in C
      BY <1>1, <1>3, <3>1, <3>2
    <3>4. QED
      BY <3>3
  <2> HIDE DEF C
  <2>3. QED
    BY <2>1, <2>2
<1>4. ASSUME \A C \in SUBSET S : ~(C # {} /\ \A x \in C : graph[x] \cap C # {})
      PROVE  Acyclic
  <2>1. SUFFICES ASSUME NEW circle \in (SUBSET (1..Len(entries))) \ {{}}
                 PROVE  \E i \in circle : \A k \in circle : Identity(entries[k]) \notin Targets(entries[i])
    BY DEF Acyclic
  <2>2. circle \in SUBSET Order /\ circle # {}
    BY DEF Order
  <2> HIDE DEF S
  <2>3. QED
    BY <1>3, <1>4, <2>2
<1>5. QED
  BY <1>2, <1>4

LEMMA GoodInParts ==
  ASSUME TakenIn
  PROVE  GoodCatalog <=> Unique /\ (\A i \in Order : Dependable(entries[i])) /\ Acyclic
<1>1. DOMAIN entries = Order
  BY DEF TakenIn, Order
<1>2. QED
  BY <1>1 DEF GoodCatalog, Unique, Dependable

LEMMA CatalogConcluded ==
  ASSUME CatalogInv, Conclude
  PROVE  CatalogInv'
<1> DEFINE S == DOMAIN graph
<1>1. /\ catalog = "sorting" /\ ready = <<>>
      /\ errors' = {} <=> errors = {} /\ visited = Cardinality(S)
      /\ catalog' = IF errors' = {} THEN "valid" ELSE "invalid"
      /\ UNCHANGED <<entries, byIdentity, ids, domains, graph, incoming, ready, visited>>
  BY DEF Conclude
<1>2. /\ TakenIn /\ SortedSoFar
      /\ errors = {} <=> Unique /\ \A i \in Order : Dependable(entries[i])
  BY <1>1 DEF CatalogInv, Judgement
<1>3. /\ graph = [i \in DOMAIN byIdentity |-> Targets(byIdentity[i]) \cap DOMAIN byIdentity]
      /\ visited = Cardinality(Gone)
      /\ \A C \in SUBSET S : C # {} /\ (\A i \in C : graph[i] \cap C # {}) => ~(C \subseteq Gone)
  BY <1>1, <1>2 DEF SortedSoFar
<1>4. IsFiniteSet(S) /\ \A i \in S : incoming[i] = 0 <=> StillNeed(i) = {}
  BY <1>1, NothingLeftNeeds
<1>5. Gone = {i \in S : incoming[i] = 0}
  BY <1>1 DEF Gone, ToSet
<1>6. GoodCatalog <=> Unique /\ (\A i \in Order : Dependable(entries[i])) /\ Acyclic
  BY <1>2, GoodInParts
<1>7. Unique => (Acyclic <=> \A C \in SUBSET S : ~(C # {} /\ \A x \in C : graph[x] \cap C # {}))
  BY <1>2, <1>3, CirclesAreCircles
<1>8. visited = Cardinality(S) <=> Gone = S
  BY <1>3, <1>4, <1>5, FS_Subset
<1>9. ASSUME Gone = S PROVE \A C \in SUBSET S : ~(C # {} /\ \A x \in C : graph[x] \cap C # {})
  BY <1>3, <1>9
<1>10. ASSUME Gone # S PROVE \E C \in SUBSET S : C # {} /\ \A x \in C : graph[x] \cap C # {}
  <2> DEFINE R == S \ Gone
  <2>1. R \subseteq S /\ R # {}
    BY <1>5, <1>10
  <2>2. IsFiniteSet(R)
    BY <1>4, <2>1, FS_Subset
  <2>3. \A i \in R : \E k \in R : i \in graph[k]
    BY <1>4, <1>5 DEF StillNeed
  <2> HIDE DEF R
  <2>4. \E C \in SUBSET R : C # {} /\ \A x \in C : graph[x] \cap C # {}
    BY <2>1, <2>2, <2>3, CircleLeft
  <2>5. QED
    BY <2>1, <2>4
<1>11. errors' = {} <=> GoodCatalog
  BY <1>1, <1>2, <1>6, <1>7, <1>8, <1>9, <1>10
<1>12. GoodCatalog' <=> GoodCatalog
  BY <1>1 DEF GoodCatalog, Listed, Acyclic, Identity, Targets, Local
<1>13. Verdict'
  BY <1>1, <1>11, <1>12 DEF Verdict
<1>14. Judgement'
  BY <1>1 DEF Judgement
<1>15. TakenIn'
  BY <1>1, <1>2 DEF TakenIn, Order, Identity
<1>16. SortedSoFar'
  <2>1. Gone' = Gone
    BY <1>1 DEF Gone
  <2>2. \A i : StillNeed(i)' = StillNeed(i)
    BY <1>1, <2>1 DEF StillNeed
  <2>3. /\ graph' = [i \in DOMAIN byIdentity' |-> Targets(byIdentity'[i]) \cap DOMAIN byIdentity']
        /\ graph' = graph /\ incoming' = incoming /\ ready' = ready /\ visited' = visited
    BY <1>1, <1>2 DEF SortedSoFar, Targets, Local
  <2>4. \A i \in DOMAIN graph' : incoming'[i] = Cardinality(StillNeed(i)')
    BY <2>2, <2>3, <1>1, <1>2 DEF SortedSoFar
  <2>5. \A C \in SUBSET DOMAIN graph' :
          C # {} /\ (\A i \in C : graph'[i] \cap C # {}) => ~(C \subseteq Gone')
    BY <2>1, <2>3, <1>1, <1>2 DEF SortedSoFar
  <2>6. /\ incoming' \in [DOMAIN graph' -> Nat] /\ ready' \in Seq(DOMAIN graph')
        /\ IsInjective(ready') /\ \A n \in 1..Len(ready') : incoming'[ready'[n]] = 0
        /\ visited' = Cardinality(Gone')
    BY <2>1, <2>3, <1>1, <1>2 DEF SortedSoFar
  <2>7. QED
    BY <2>3, <2>4, <2>5, <2>6 DEF SortedSoFar, StillNeed
<1>17. QED
  BY <1>13, <1>14, <1>15, <1>16 DEF CatalogInv

LEMMA CatalogStutters ==
  ASSUME CatalogInv, UNCHANGED catalogVars
  PROVE  CatalogInv'
<1>1. UNCHANGED <<entries, byIdentity, ids, domains, errors, graph, incoming, ready, visited, catalog>>
  BY DEF catalogVars
<1>2. TakenIn'
  BY <1>1 DEF CatalogInv, TakenIn, Order, Identity
<1>3. Judgement'
  <2>1. Unique' <=> Unique
    BY <1>1 DEF Unique, Order, Identity
  <2>2. (\A i \in Order : Dependable(entries[i]))' <=> \A i \in Order : Dependable(entries[i])
    BY <1>1 DEF Dependable, Order, Targets, Local, Listed, Identity
  <2>3. QED
    BY <1>1, <2>1, <2>2 DEF CatalogInv, Judgement
<1>4. SortedSoFar'
  <2> SUFFICES ASSUME catalog # "reading" PROVE SortedSoFar'
    BY <1>1 DEF SortedSoFar
  <2>1. Gone' = Gone
    BY <1>1 DEF Gone
  <2>2. \A i : StillNeed(i)' = StillNeed(i)
    BY <1>1, <2>1 DEF StillNeed
  <2>3. /\ graph' = [i \in DOMAIN byIdentity' |-> Targets(byIdentity'[i]) \cap DOMAIN byIdentity']
        /\ graph' = graph /\ incoming' = incoming /\ ready' = ready /\ visited' = visited
    BY <1>1 DEF CatalogInv, SortedSoFar, Targets, Local
  <2>4. \A i \in DOMAIN graph' : incoming'[i] = Cardinality(StillNeed(i)')
    BY <2>2, <2>3 DEF CatalogInv, SortedSoFar
  <2>5. \A C \in SUBSET DOMAIN graph' :
          C # {} /\ (\A i \in C : graph'[i] \cap C # {}) => ~(C \subseteq Gone')
    BY <2>1, <2>3 DEF CatalogInv, SortedSoFar
  <2>6. /\ incoming' \in [DOMAIN graph' -> Nat] /\ ready' \in Seq(DOMAIN graph')
        /\ IsInjective(ready') /\ \A n \in 1..Len(ready') : incoming'[ready'[n]] = 0
        /\ visited' = Cardinality(Gone')
    BY <2>1, <2>3 DEF CatalogInv, SortedSoFar
  <2>7. QED
    BY <2>3, <2>4, <2>5, <2>6 DEF SortedSoFar, StillNeed
<1>5. Verdict'
  <2>1. GoodCatalog' <=> GoodCatalog
    BY <1>1 DEF GoodCatalog, Listed, Acyclic, Identity, Targets, Local
  <2>2. QED
    BY <1>1, <2>1 DEF CatalogInv, Verdict
<1>6. QED
  BY <1>2, <1>3, <1>4, <1>5 DEF CatalogInv

LEMMA UpTo ==
  ASSUME NEW n \in Nat
  PROVE  IsFiniteSet(1..n) /\ Cardinality(1..n) = n
<1>1. n - 1 + 1 = n /\ (1 > n => n = 0)
  OBVIOUS
<1>2. QED
  BY <1>1, FS_Interval

\* A sequence without repetitions is as long as it has elements.
LEMMA OnceEach ==
  ASSUME NEW S, NEW s \in Seq(S), IsInjective(s)
  PROVE  Cardinality(ToSet(s)) = Len(s)
<1>1. /\ Len(s) \in Nat /\ DOMAIN s = 1..Len(s) /\ s \in [1..Len(s) -> ToSet(s)]
      /\ \A e \in ToSet(s) : \E i \in 1..Len(s) : s[i] = e
  <2>1. Len(s) \in Nat /\ DOMAIN s = 1..Len(s) /\ s = [i \in 1..Len(s) |-> s[i]]
    OBVIOUS
  <2>2. ToSet(s) = {s[i] : i \in 1..Len(s)}
    BY <2>1 DEF ToSet
  <2> DEFINE n == Len(s)
  <2> HIDE DEF n
  <2>3. s = [i \in 1..n |-> s[i]] /\ ToSet(s) = {s[i] : i \in 1..n}
    BY <2>1, <2>2 DEF n
  <2>4. s \in [1..n -> ToSet(s)] /\ \A e \in ToSet(s) : \E i \in 1..n : s[i] = e
    BY <2>3
  <2>5. QED
    BY <2>1, <2>4 DEF n
<1>2. s \in Bijection(1..Len(s), ToSet(s))
  BY <1>1 DEF Bijection, Injection, Surjection, IsInjective
<1>3. IsFiniteSet(1..Len(s)) /\ Cardinality(1..Len(s)) = Len(s)
  BY <1>1, UpTo
<1>4. ExistsBijection(1..Len(s), ToSet(s))
  BY <1>2 DEF ExistsBijection
<1>5. QED
  BY <1>3, <1>4, FS_Bijection

LEMMA CatalogJudged ==
  ASSUME CatalogInv
  PROVE  CatalogIsOrdered
<1>1. (catalog = "valid" => GoodCatalog) /\ (catalog = "invalid" => ~GoodCatalog)
  BY DEF CatalogInv, Verdict
<1>2. CASE catalog = "reading"
  <2>1. ready = <<>> /\ visited = 0 /\ DOMAIN graph = {}
    BY <1>2 DEF CatalogInv, Judgement, None
  <2>2. ToSet(ready) = {} /\ Len(ready) = 0
    BY <2>1 DEF ToSet
  <2>3. QED
    BY <1>1, <2>1, <2>2, FS_EmptySet DEF CatalogIsOrdered
<1>3. CASE catalog # "reading"
  <2>1. visited = Cardinality(Gone) /\ ready \in Seq(DOMAIN graph) /\ IsInjective(ready)
    BY <1>3 DEF CatalogInv, SortedSoFar
  <2>2. IsFiniteSet(DOMAIN graph) /\ Gone \subseteq DOMAIN graph
    BY <1>3, NothingLeftNeeds DEF Gone
  <2>3. Cardinality(Gone) <= Cardinality(DOMAIN graph)
    BY <2>2, FS_Subset
  <2>4. Cardinality(ToSet(ready)) = Len(ready)
    BY <2>1, OnceEach
  <2>5. QED
    BY <1>1, <2>1, <2>3, <2>4 DEF CatalogIsOrdered
<1>4. QED
  BY <1>2, <1>3

\* A catalog is accepted exactly when it is good as a whole: modules and domains
\* correspond, every dependency is on an entry, and some order installs them all
\* (catalog.py:173-245).
THEOREM CatalogsAreJudgedRight == CatalogSpec => []CatalogIsOrdered
<1>1. CatalogInit => CatalogInv
  BY CatalogStarts
<1>2. CatalogInv /\ [CatalogNext]_catalogVars => CatalogInv'
  BY EntryTaken, GraphLinked, EntryVisited, CatalogConcluded, CatalogStutters DEF CatalogNext
<1>3. CatalogInv => CatalogIsOrdered
  BY CatalogJudged
<1>4. QED
  BY <1>1, <1>2, <1>3, PTL DEF CatalogSpec
=================================================================================
