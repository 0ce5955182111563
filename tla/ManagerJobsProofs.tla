----------------------------- MODULE ManagerJobsProofs -----------------------------
(* Theorems about ManagerJobs, for any number of connections, slots and jobs and for *)
(* any threads that cannot be started.                                               *)
EXTENDS ManagerJobs, FiniteSetTheorems, TLAPS

Busy == {c \in Connections : con[c] # "none"}
Ended == {"complete", "failed"}

\* No more handlers wait for the lock than jobs may still be accepted.
RoomForWaiting == started + Cardinality(Waiting) <= MaxJobs

\* The lock is held by the one handler inside submit, or by the job thread at its end.
LockHeld ==
  /\ \A c \in Connections : con[c] \in {"marked", "cleared"} <=> lock = c
  /\ lock = "job" <=> thread = "release"

\* Earlier jobs have ended, later ones were not accepted.
ResultsInOrder ==
  /\ \A j \in Jobs : j < started => result[j] \in Ended
  /\ started = 0 => job = "idle" /\ thread = "none" /\ lock = "free"

\* How far the last job is: accepted by a handler, with its thread, or over; without
\* its thread it stays as it is for ever.
LastJob ==
  started > 0 =>
    \/ /\ lock \in Connections /\ thread = "none"
       /\ job = "running" /\ result[started] = "running"
       /\ con[lock] = "cleared" => ~idle
    \/ /\ lock = "free" /\ thread = "work"
       /\ job = "running" /\ result[started] = "running" /\ ~idle
    \/ /\ lock = "free" /\ thread = "publish"
       /\ job = "running" /\ result[started] \in Ended /\ ~idle
    \/ /\ lock = "job" /\ thread = "release"
       /\ job = result[started] /\ result[started] \in Ended /\ ~idle
    \/ /\ lock = "free" /\ thread = "none"
       /\ job = result[started] /\ result[started] \in Ended
    \/ /\ lock = "free" /\ thread = "none"
       /\ job = "running" /\ result[started] = "unstarted" /\ ~idle

\* Once the stop was announced under the lock no handler gets it for a job; the end
\* of the drain is the end of the process, which keeps what the event said.
Announced ==
  /\ stopping => lock \notin Connections
  /\ drained # "no" <=> main = "exited"
  /\ drained = "idle" => idle

LeaksAreFailures == leaked <= failures

IInv ==
  /\ TypeOK /\ RoomForWaiting /\ LockHeld /\ ResultsInOrder /\ LastJob /\ Announced
  /\ SlotsAccounted /\ LeaksAreFailures

Logic == LockHeld /\ ResultsInOrder /\ LastJob /\ Announced

-----------------------------------------------------------------------------
(* Counting. *)

LEMMA BusyIsFinite == IsFiniteSet(Busy) /\ Cardinality(Busy) \in Nat
BY SizesAssumption, FS_Subset, FS_CardinalityType DEF Busy

LEMMA WaitingIsFinite == IsFiniteSet(Waiting) /\ Cardinality(Waiting) \in Nat
BY SizesAssumption, FS_Subset, FS_CardinalityType DEF Waiting

\* What one handler's step does to the number of busy handlers.
LEMMA BusyStep ==
  ASSUME TypeOK, NEW c \in Connections, NEW place \in Handlers, To(c, place)
  PROVE  Cardinality(Busy') =
           CASE con[c] = "none" /\ place # "none" -> Cardinality(Busy) + 1
             [] con[c] # "none" /\ place = "none" -> Cardinality(Busy) - 1
             [] OTHER -> Cardinality(Busy)
<1>1. CASE con[c] = "none" /\ place # "none"
  <2>1. Busy' = Busy \cup {c} /\ c \notin Busy
    BY <1>1 DEF Busy, To, TypeOK
  <2>2. QED
    BY <1>1, <2>1, BusyIsFinite, FS_AddElement
<1>2. CASE con[c] # "none" /\ place = "none"
  <2>1. Busy' = Busy \ {c} /\ c \in Busy
    BY <1>2 DEF Busy, To, TypeOK
  <2>2. QED
    BY <1>2, <2>1, BusyIsFinite, FS_RemoveElement
<1>3. CASE con[c] = "none" <=> place = "none"
  <2>1. Busy' = Busy
    BY <1>3 DEF Busy, To, TypeOK
  <2>2. QED
    BY <1>3, <2>1
<1>4. QED
  BY <1>1, <1>2, <1>3

\* The same for the handlers that wait for the lock.
LEMMA WaitingStep ==
  ASSUME TypeOK, NEW c \in Connections, NEW place \in Handlers, To(c, place)
  PROVE  Cardinality(Waiting') =
           CASE con[c] # "submit" /\ place = "submit" -> Cardinality(Waiting) + 1
             [] con[c] = "submit" /\ place # "submit" -> Cardinality(Waiting) - 1
             [] OTHER -> Cardinality(Waiting)
<1>1. CASE con[c] # "submit" /\ place = "submit"
  <2>1. Waiting' = Waiting \cup {c} /\ c \notin Waiting
    BY <1>1 DEF Waiting, To, TypeOK
  <2>2. QED
    BY <1>1, <2>1, WaitingIsFinite, FS_AddElement
<1>2. CASE con[c] = "submit" /\ place # "submit"
  <2>1. Waiting' = Waiting \ {c} /\ c \in Waiting
    BY <1>2 DEF Waiting, To, TypeOK
  <2>2. QED
    BY <1>2, <2>1, WaitingIsFinite, FS_RemoveElement
<1>3. CASE con[c] = "submit" <=> place = "submit"
  <2>1. Waiting' = Waiting
    BY <1>3 DEF Waiting, To, TypeOK
  <2>2. QED
    BY <1>3, <2>1
<1>4. QED
  BY <1>1, <1>2, <1>3

\* The slots that are free add up to the rest.
LEMMA SlotsTyped ==
  ASSUME TypeOK, SlotsAccounted
  PROVE  Slots \in Nat /\ free \in Nat /\ leaked \in Nat
         /\ free + leaked + Cardinality(Busy) = Slots
BY SizesAssumption DEF TypeOK, SlotsAccounted, Busy

\* Someone waits, so there is room for one more job.
LEMMA RoomForOne ==
  ASSUME TypeOK, RoomForWaiting, NEW c \in Connections, con[c] = "submit"
  PROVE  started + 1 \in Jobs /\ started \in Nat
<1>1. c \in Waiting
  BY DEF Waiting
<1>2. Cardinality(Waiting) # 0
  BY <1>1, WaitingIsFinite, FS_EmptySet
<1>3. QED
  BY <1>2, WaitingIsFinite, SizesAssumption DEF TypeOK, RoomForWaiting, Jobs

-----------------------------------------------------------------------------
LEMMA InitInv == Init => IInv
<1> SUFFICES ASSUME Init PROVE IInv
  OBVIOUS
<1>1. Busy = {} /\ Waiting = {}
  BY DEF Init, Busy, Waiting
<1>2. Cardinality(Busy) = 0 /\ Cardinality(Waiting) = 0
  BY <1>1, FS_EmptySet
<1>3. TypeOK
  <2>1. /\ con \in [Connections -> Handlers]
        /\ result \in [Jobs -> {"none", "running", "complete", "failed", "unstarted"}]
    BY DEF Init, Handlers
  <2>2. free \in 0..Slots /\ started \in 0..MaxJobs
        /\ leaked \in 0..MaxStartFailures /\ failures \in 0..MaxStartFailures
    BY SizesAssumption DEF Init
  <2>3. QED
    BY <2>1, <2>2 DEF Init, TypeOK
<1>4. LockHeld /\ ResultsInOrder /\ LastJob /\ Announced /\ LeaksAreFailures
  BY SizesAssumption DEF Init, LockHeld, ResultsInOrder, LastJob, Announced, LeaksAreFailures, Jobs
<1>5. SlotsAccounted /\ RoomForWaiting
  BY <1>2, SizesAssumption DEF Init, SlotsAccounted, RoomForWaiting, Busy
<1>6. QED
  BY <1>3, <1>4, <1>5 DEF IInv

-----------------------------------------------------------------------------
(* Steps of the handlers. *)

\* A step of a handler that touches nothing of the application.
LEMMA TalkKeepsLogic ==
  ASSUME IInv, NEW c \in Connections, NEW place \in Handlers \ {"marked", "cleared"},
         con[c] \notin {"marked", "cleared"}, To(c, place) \/ UNCHANGED con,
         UNCHANGED <<application, ending>>
  PROVE  Logic'
<1>1. \A d \in Connections : con'[d] \in {"marked", "cleared"} <=> con[d] \in {"marked", "cleared"}
  BY DEF To, IInv, TypeOK
<1>2. LockHeld' /\ ResultsInOrder'
  BY <1>1 DEF IInv, LockHeld, ResultsInOrder, application
<1>3. lock \in Connections => con'[lock] = con[lock]
  BY DEF To, IInv, TypeOK, LockHeld
<1>4. LastJob' /\ Announced'
  BY <1>3 DEF IInv, LastJob, Announced, application, ending
<1>5. QED
  BY <1>2, <1>4 DEF Logic

LEMMA AcceptStep ==
  ASSUME IInv, NEW c \in Connections, Accept(c)
  PROVE  IInv'
<1> USE DEF IInv
<1>1. Logic'
  BY TalkKeepsLogic DEF Accept, Handlers
<1>2. CASE To(c, "authorize") /\ UNCHANGED <<leaked, failures>>
  <2>1. Cardinality(Busy') = Cardinality(Busy) + 1 /\ Cardinality(Waiting') = Cardinality(Waiting)
    BY <1>2, BusyStep, WaitingStep DEF Accept, Handlers
  <2>2. SlotsAccounted' /\ RoomForWaiting' /\ LeaksAreFailures'
    BY <1>2, <2>1, SlotsTyped, BusyIsFinite
       DEF Accept, SlotsAccounted, Busy, RoomForWaiting, LeaksAreFailures, application
  <2>3. TypeOK'
    BY <1>2, SlotsTyped DEF Accept, To, TypeOK, application, ending, Handlers
  <2>4. QED
    BY <1>1, <2>2, <2>3 DEF Logic
<1>3. CASE failures < MaxStartFailures /\ failures' = failures + 1 /\ leaked' = leaked + 1
           /\ UNCHANGED con
  <2>1. SlotsAccounted' /\ RoomForWaiting' /\ LeaksAreFailures'
    BY <1>3, SlotsTyped, BusyIsFinite, SizesAssumption
       DEF Accept, SlotsAccounted, Busy, RoomForWaiting, Waiting, LeaksAreFailures, application, TypeOK
  <2>2. TypeOK'
    BY <1>3, SlotsTyped, SizesAssumption DEF Accept, TypeOK, application, ending, LeaksAreFailures
  <2>3. QED
    BY <1>1, <2>1, <2>2 DEF Logic
<1>4. QED
  BY <1>2, <1>3 DEF Accept

\* Steps between authorization and the end of the reply.
LEMMA TalkStep ==
  ASSUME IInv, NEW c \in Connections, Talk(c)
  PROVE  IInv'
<1> USE DEF IInv
<1>1. PICK place \in Handlers \ {"marked", "cleared"} :
        /\ con[c] \in Talking /\ To(c, place)
        /\ place = "submit" => started + Cardinality(Waiting) < MaxJobs
        /\ free' = IF place = "none" THEN free + 1 ELSE free
        /\ UNCHANGED <<leaked, failures, application, ending>>
  BY DEF Talk, Authorize, Dispatch, ReadBody, Finish, Handlers, Talking
<1>2. Logic'
  BY <1>1, TalkKeepsLogic DEF Talking
<1>3. Cardinality(Busy') = IF place = "none" THEN Cardinality(Busy) - 1 ELSE Cardinality(Busy)
  BY <1>1, BusyStep DEF Talking
<1>4. Cardinality(Waiting') = IF place = "submit" THEN Cardinality(Waiting) + 1
                             ELSE Cardinality(Waiting)
  BY <1>1, WaitingStep DEF Talking
<1>5. SlotsAccounted' /\ RoomForWaiting' /\ LeaksAreFailures'
  BY <1>1, <1>3, <1>4, SlotsTyped, BusyIsFinite, WaitingIsFinite, SizesAssumption
     DEF SlotsAccounted, Busy, RoomForWaiting, LeaksAreFailures, application, TypeOK
<1>6. Cardinality(Busy') \in Nat
  <2>1. IsFiniteSet(Busy')
    BY SizesAssumption, FS_Subset DEF Busy
  <2>2. QED
    BY <2>1, FS_CardinalityType
<1>7. free' \in 0..Slots
  BY <1>1, <1>3, <1>6, SlotsTyped, BusyIsFinite
<1>8. TypeOK'
  BY <1>1, <1>7 DEF To, TypeOK, application, ending
<1>9. QED
  BY <1>2, <1>5, <1>8 DEF Logic

LEMMA SubmitStep ==
  ASSUME IInv, NEW c \in Connections, Submit(c)
  PROVE  IInv'
<1> USE DEF IInv
<1>0. started + 1 \in Jobs /\ started \in Nat
  BY RoomForOne DEF Submit
<1>1. CASE ~MayStart
  <2>1. Logic'
    BY <1>1, TalkKeepsLogic DEF Submit, Handlers
  <2>2. Cardinality(Busy') = Cardinality(Busy) /\ Cardinality(Waiting') = Cardinality(Waiting) - 1
    BY <1>1, BusyStep, WaitingStep DEF Submit, Handlers
  <2>3. SlotsAccounted' /\ RoomForWaiting' /\ LeaksAreFailures'
    BY <1>1, <2>2, SlotsTyped, WaitingIsFinite, SizesAssumption
       DEF Submit, SlotsAccounted, Busy, RoomForWaiting, LeaksAreFailures, application, TypeOK
  <2>4. TypeOK'
    BY <1>1 DEF Submit, To, TypeOK, application, ending, Handlers
  <2>5. QED
    BY <2>1, <2>3, <2>4 DEF Logic
<1>2. CASE MayStart
  <2>1. Cardinality(Busy') = Cardinality(Busy) /\ Cardinality(Waiting') = Cardinality(Waiting) - 1
    BY <1>2, BusyStep, WaitingStep DEF Submit, Handlers
  <2>2. SlotsAccounted' /\ RoomForWaiting' /\ LeaksAreFailures'
    BY <1>0, <1>2, <2>1, SlotsTyped, WaitingIsFinite, SizesAssumption
       DEF Submit, SlotsAccounted, Busy, RoomForWaiting, LeaksAreFailures, TypeOK
  <2>3. TypeOK'
    BY <1>0, <1>2, SizesAssumption DEF Submit, To, TypeOK, ending, Handlers, Jobs
  <2>4. LockHeld'
    BY <1>2, SizesAssumption DEF Submit, To, TypeOK, LockHeld
  <2>5. \A j \in Jobs : j < started + 1 => result'[j] \in Ended
    <3>1. SUFFICES ASSUME NEW j \in Jobs, j < started + 1 PROVE result[j] \in Ended /\ j # started + 1
      BY <1>0, <1>2 DEF Submit, TypeOK
    <3>2. j \in Nat /\ j # started + 1
      BY <3>1, <1>0 DEF Jobs
    <3>3. CASE j < started
      BY <3>2, <3>3 DEF ResultsInOrder
    <3>4. CASE j = started
      <4>1. started > 0 /\ job # "running" /\ lock = "free"
        BY <3>1, <3>4, <1>2 DEF Submit, MayStart, Jobs
      <4>2. QED
        BY <3>2, <3>4, <4>1 , SizesAssumption DEF LastJob
    <3>5. QED
      BY <3>1, <3>2, <3>3, <3>4, <1>0
  <2>6. ResultsInOrder'
    BY <1>0, <1>2, <2>5 DEF Submit, ResultsInOrder
  <2>7. thread = "none"
    BY <1>0, <1>2, SizesAssumption DEF Submit, MayStart, ResultsInOrder, LastJob
  <2>8. LastJob'
    BY <1>0, <1>2, <2>7 DEF Submit, To, TypeOK, LastJob
  <2>9. Announced'
    BY <1>2 DEF Submit, MayStart, Announced, ending
  <2>10. QED
    BY <2>2, <2>3, <2>4, <2>6, <2>8, <2>9
<1>3. QED
  BY <1>1, <1>2

\* The two steps inside submit.
LEMMA InsideSubmit ==
  ASSUME IInv, NEW c \in Connections, con[c] \in {"marked", "cleared"}
  PROVE  /\ lock = c /\ started > 0 /\ started \in Jobs /\ thread = "none"
         /\ job = "running" /\ result[started] = "running" /\ ~stopping
         /\ con[c] = "cleared" => ~idle
<1>1. lock = c
  BY DEF IInv, LockHeld
<1>2. started > 0 /\ started \in Jobs
  BY <1>1, SizesAssumption DEF IInv, ResultsInOrder, TypeOK, Jobs
<1>3. QED
  BY <1>1, <1>2, SizesAssumption DEF IInv, LastJob, Announced

LEMMA ClearIdleStep ==
  ASSUME IInv, NEW c \in Connections, ClearIdle(c)
  PROVE  IInv'
<1> USE DEF IInv
<1>1. /\ lock = c /\ started > 0 /\ thread = "none"
      /\ job = "running" /\ result[started] = "running"
  BY InsideSubmit DEF ClearIdle
<1>2. Cardinality(Busy') = Cardinality(Busy) /\ Cardinality(Waiting') = Cardinality(Waiting)
  BY BusyStep, WaitingStep DEF ClearIdle, Handlers
<1>3. TypeOK'
  <2>1. con' \in [Connections -> Handlers] /\ idle' \in BOOLEAN
    BY DEF ClearIdle, To, TypeOK, Handlers
  <2>2. UNCHANGED <<free, leaked, failures, lock, job, stopping, started, thread, result, ending>>
    BY DEF ClearIdle
  <2>3. QED
    BY <2>1, <2>2 DEF TypeOK, ending
<1>7. SlotsAccounted' /\ RoomForWaiting' /\ LeaksAreFailures'
  BY <1>2 DEF ClearIdle, SlotsAccounted, Busy, RoomForWaiting, LeaksAreFailures
<1>4. LockHeld' /\ ResultsInOrder' /\ LastJob'
  BY <1>1 DEF ClearIdle, To, TypeOK, LockHeld, ResultsInOrder, LastJob
<1>5. Announced'
  <2>1. drained # "idle"
    BY DEF Announced, ClearIdle, Alive
  <2>2. QED
    BY <2>1 DEF Announced, ClearIdle, ending
<1>6. QED
  BY <1>3, <1>4, <1>5, <1>7

LEMMA StartThreadStep ==
  ASSUME IInv, NEW c \in Connections, StartThread(c)
  PROVE  IInv'
<1> USE DEF IInv
<1>1. /\ lock = c /\ started > 0 /\ started \in Jobs /\ thread = "none" /\ ~idle
      /\ job = "running" /\ result[started] = "running"
  BY InsideSubmit DEF StartThread
<1>2. Cardinality(Busy') = Cardinality(Busy) /\ Cardinality(Waiting') = Cardinality(Waiting)
  BY BusyStep, WaitingStep DEF StartThread, Handlers
<1>3. SlotsAccounted' /\ RoomForWaiting'
  BY <1>2 DEF StartThread, SlotsAccounted, Busy, RoomForWaiting
<1>4. TypeOK' /\ LeaksAreFailures'
  BY <1>1, SizesAssumption DEF StartThread, To, TypeOK, ending, Handlers, LeaksAreFailures
<1>5. LockHeld'
  BY <1>1, SizesAssumption DEF StartThread, To, TypeOK, LockHeld
<1>6. ResultsInOrder'
  <2>1. \A j \in Jobs : j < started => j # started
    BY <1>1 DEF Jobs
  <2>2. QED
    BY <1>1, <2>1 DEF StartThread, TypeOK, ResultsInOrder
<1>7. LastJob'
  BY <1>1 DEF StartThread, TypeOK, LastJob
<1>8. Announced'
  BY SizesAssumption DEF StartThread, Announced, ending
<1>9. QED
  BY <1>3, <1>4, <1>5, <1>6, <1>7, <1>8

-----------------------------------------------------------------------------
(* Steps of the job thread and of the end. *)

\* They leave the connections and slots alone.
LEMMA NobodyMoves ==
  ASSUME IInv, UNCHANGED <<con, free, leaked, started>>,
         failures' \in {failures, failures + 1}
  PROVE  SlotsAccounted' /\ RoomForWaiting' /\ LeaksAreFailures'
BY DEF IInv, TypeOK, SlotsAccounted, RoomForWaiting, Waiting, LeaksAreFailures

LEMMA RunStep ==
  ASSUME IInv, Run
  PROVE  IInv'
<1> USE DEF IInv
<1>0. SlotsAccounted' /\ RoomForWaiting' /\ LeaksAreFailures'
  BY NobodyMoves DEF Run, Work, Publish, Release
<1>1. started > 0 /\ started \in Jobs
  BY SizesAssumption DEF Run, Work, Publish, Release, ResultsInOrder, TypeOK, Jobs
<1>2. CASE Work
  <2>1. job = "running" /\ lock = "free" /\ ~idle
    BY <1>1, <1>2 DEF Work, LastJob
  <2>2. TypeOK'
    <3>1. PICK outcome \in Ended : result' = [result EXCEPT ![started] = outcome]
      BY <1>2 DEF Work, Ended
    <3>2. result' \in [Jobs -> {"none", "running", "complete", "failed", "unstarted"}]
      BY <3>1 DEF TypeOK, Ended
    <3>3. QED
      BY <1>2, <3>2 DEF Work, TypeOK, ending
  <2>3. LockHeld' /\ ResultsInOrder' /\ LastJob' /\ Announced'
    BY <1>1, <1>2, <2>1
       DEF Work, TypeOK, LockHeld, ResultsInOrder, LastJob, Announced, ending, Ended, Jobs
  <2>4. QED
    BY <1>0, <2>2, <2>3
<1>3. CASE Publish
  <2>1. result[started] \in Ended /\ ~idle
    BY <1>1, <1>3 DEF Publish, LastJob
  <2>2. TypeOK'
    <3>1. job' \in {"idle", "running", "complete", "failed"}
      BY <1>3, <2>1 DEF Publish, Ended
    <3>2. QED
      BY <1>3, <3>1 DEF Publish, TypeOK, ending
  <2>3. LockHeld' /\ ResultsInOrder' /\ LastJob' /\ Announced'
    BY <1>1, <1>3, <2>1, SizesAssumption
       DEF Publish, TypeOK, LockHeld, ResultsInOrder, LastJob, Announced, ending
  <2>4. QED
    BY <1>0, <2>2, <2>3
<1>4. CASE Release
  <2>1. lock = "job" /\ job = result[started] /\ result[started] \in Ended
    BY <1>1, <1>4 DEF Release, LastJob
  <2>2. TypeOK'
    BY <1>4 DEF Release, TypeOK, ending
  <2>3. LockHeld' /\ ResultsInOrder' /\ LastJob' /\ Announced'
    BY <1>1, <1>4, <2>1, SizesAssumption
       DEF Release, TypeOK, LockHeld, ResultsInOrder, LastJob, Announced, ending
  <2>4. QED
    BY <1>0, <2>2, <2>3
<1>5. QED
  BY <1>2, <1>3, <1>4 DEF Run

LEMMA EndingStep ==
  ASSUME IInv, Sigterm \/ BeginShutdown \/ Shutdown \/ StopServing \/ Drain
  PROVE  IInv'
<1> USE DEF IInv
<1>1. /\ UNCHANGED <<con, free, leaked, lock, job, idle, started, thread, result>>
      /\ failures' \in {failures, failures + 1}
  BY DEF Sigterm, BeginShutdown, Shutdown, StopServing, Drain, application, ending
<1>2. SlotsAccounted' /\ RoomForWaiting' /\ LeaksAreFailures'
  BY <1>1, NobodyMoves
<1>3. LockHeld' /\ ResultsInOrder' /\ LastJob'
  BY <1>1 DEF LockHeld, ResultsInOrder, LastJob
<1>4. TypeOK'
  <2>1. failures' \in 0..MaxStartFailures
    BY SizesAssumption
       DEF Sigterm, BeginShutdown, Shutdown, StopServing, Drain, TypeOK, application, ending
  <2>2. /\ stopping' \in BOOLEAN /\ asked' \in BOOLEAN
        /\ signal' \in {"none", "begin", "shutdown", "done", "failed"}
        /\ main' \in {"serve", "drain", "exited"}
        /\ drained' \in {"no", "idle", "timeout"}
    BY DEF Sigterm, BeginShutdown, Shutdown, StopServing, Drain, TypeOK, application, ending
  <2>3. QED
    BY <1>1, <2>1, <2>2 DEF TypeOK
<1>5. Announced'
  BY <1>1, SizesAssumption
     DEF Sigterm, BeginShutdown, Shutdown, StopServing, Drain, Announced, Alive,
         application, ending, TypeOK
<1>6. QED
  BY <1>2, <1>3, <1>4, <1>5

LEMMA NextInv == IInv /\ [Next]_vars => IInv'
<1> SUFFICES ASSUME IInv, [Next]_vars PROVE IInv'
  OBVIOUS
<1>1. CASE \E c \in Connections : Accept(c) \/ Handle(c)
  BY <1>1, AcceptStep, TalkStep, SubmitStep, ClearIdleStep, StartThreadStep DEF Handle
<1>2. CASE Run
  BY <1>2, RunStep
<1>3. CASE Sigterm \/ BeginShutdown \/ Shutdown \/ StopServing \/ Drain
  BY <1>3, EndingStep
<1>4. CASE UNCHANGED vars
  BY <1>4 DEF vars, application, ending, IInv, TypeOK, RoomForWaiting, Waiting, LockHeld,
              ResultsInOrder, LastJob, Announced, SlotsAccounted, LeaksAreFailures
<1>5. QED
  BY <1>1, <1>2, <1>3, <1>4 DEF Next

LEMMA Invariance == Spec => []IInv
BY InitInv, NextInv, PTL DEF Spec

-----------------------------------------------------------------------------
\* Jobs never overlap, none is lost, and what is told is the state of the last one.
THEOREM JobsOneAtATime == Spec => []OneAtATime
<1>1. IInv => OneAtATime
  BY SizesAssumption DEF IInv, OneAtATime, ResultsInOrder, LastJob, TypeOK, Ended
<1>2. QED
  BY <1>1, Invariance, PTL

\* An announced drain that ends because the server is idle leaves no job behind.
THEOREM IdleDrainIsDone == Spec => []DrainedMeansDone
<1>1. IInv => DrainedMeansDone
  <2> SUFFICES ASSUME IInv, drained = "idle", stopping
               PROVE  /\ thread = "none" /\ lock = "free"
                      /\ \A j \in 1..started : result[j] \in Ended
    BY DEF DrainedMeansDone, Ended
  <2>1. idle /\ lock \notin Connections
    BY DEF IInv, Announced
  <2>2. thread = "none" /\ lock = "free"
    BY <2>1, SizesAssumption DEF IInv, TypeOK, ResultsInOrder, LastJob
  <2>3. ASSUME NEW j \in 1..started PROVE result[j] \in Ended
    <3>1. j \in Jobs /\ started > 0 /\ (j < started \/ j = started)
      BY SizesAssumption DEF IInv, TypeOK, Jobs
    <3>2. QED
      BY <2>1, <3>1 DEF IInv, ResultsInOrder, LastJob
  <2>4. QED
    BY <2>2, <2>3
<1>2. QED
  BY <1>1, Invariance, PTL

\* Every slot is free, with a live handler, or was lost to a thread that could not start.
THEOREM SlotsAlwaysAccounted == Spec => []SlotsAccounted
<1>1. IInv => SlotsAccounted
  BY DEF IInv
<1>2. QED
  BY <1>1, Invariance, PTL
===================================================================================
