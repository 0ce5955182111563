------------------------------- MODULE ManagerJobs -------------------------------
(***************************************************************************)
(* The HTTP server of the Manager (manager/hahapent/server.py): connection *)
(* slots, one handler thread per connection, one job thread at a time, and *)
(* the way from SIGTERM through the drain to the end of the process.       *)
(*                                                                         *)
(* Every use of Application._lock is a critical section; the two that hold *)
(* more than one effect (submit and the end of _run) are split, because    *)
(* wait_for_idle reads the event without the lock.  A job is a number, the *)
(* operation and its body are left out: submit refuses every malformed one *)
(* before it takes the lock.  The daemon threads die with the process.     *)
(***************************************************************************)
EXTENDS Naturals, FiniteSets

CONSTANTS
  Connections,      \* client connections
  Slots,            \* 24: the bound of IngressServer._slots
  \* Bounds and environment of an instance:
  MaxJobs,          \* jobs that are accepted
  MaxStartFailures  \* threads the operating system refuses to start

ASSUME SizesAssumption ==
  /\ IsFiniteSet(Connections)
  /\ {"free", "job"} \cap Connections = {}     \* the other values of lock
  /\ Slots \in Nat \ {0}
  /\ MaxJobs \in Nat
  /\ MaxStartFailures \in Nat

VARIABLES
  con,        \* the handler of each connection: how far it has come
  free,       \* IngressServer._slots
  lock,       \* Application._lock: "free" or who holds it
  job, idle,  \* Application._job["state"], Application._idle
  stopping,   \* Application._stopping
  started,    \* jobs accepted so far; the last one is the one of _job
  thread,     \* the job thread: "none", "work", "publish", "release"
  result,     \* history: what each accepted job came to
  signal,     \* the thread of serve().stop: "none", "begin", "shutdown", "done", "failed"
  asked,      \* server.shutdown() has been asked for
  main,       \* "serve", "drain", "exited"
  drained,    \* how wait_for_idle(20) ended: "no", "idle", "timeout"
  leaked,     \* slots whose handler thread could not be started
  failures

application == <<lock, job, idle, stopping, started, thread, result>>
ending == <<signal, asked, main, drained>>
vars == <<con, free, leaked, failures, application, ending>>

Jobs == 1..MaxJobs
Handlers == {"none", "authorize", "dispatch", "body", "submit",
             "marked", "cleared", "reply"}
Talking == {"authorize", "dispatch", "body", "reply"}   \* with the client

TypeOK ==
  /\ con \in [Connections -> Handlers]
  /\ free \in 0..Slots
  /\ lock \in {"free", "job"} \cup Connections
  /\ job \in {"idle", "running", "complete", "failed"}
  /\ idle \in BOOLEAN /\ stopping \in BOOLEAN /\ asked \in BOOLEAN
  /\ started \in 0..MaxJobs
  /\ thread \in {"none", "work", "publish", "release"}
  /\ result \in [Jobs -> {"none", "running", "complete", "failed", "unstarted"}]
  /\ signal \in {"none", "begin", "shutdown", "done", "failed"}
  /\ main \in {"serve", "drain", "exited"}
  /\ drained \in {"no", "idle", "timeout"}
  /\ leaked \in 0..MaxStartFailures /\ failures \in 0..MaxStartFailures

Init ==
  /\ con = [c \in Connections |-> "none"]
  /\ free = Slots
  /\ lock = "free" /\ job = "idle" /\ idle = TRUE /\ stopping = FALSE
  /\ started = 0 /\ thread = "none" /\ result = [j \in Jobs |-> "none"]
  /\ signal = "none" /\ asked = FALSE /\ main = "serve" /\ drained = "no"
  /\ leaked = 0 /\ failures = 0

Alive == main # "exited"
To(c, place) == con' = [con EXCEPT ![c] = place]

-----------------------------------------------------------------------------
(* Connections. *)

\* IngressServer.process_request, called by serve_forever: without a slot the
\* connection is closed at once, and the client may try again; when the thread
\* of the handler cannot be started the slot is not given back.
Accept(c) ==
  /\ main = "serve" /\ ~asked
  /\ con[c] = "none" /\ free > 0
  /\ free' = free - 1
  /\ \/ To(c, "authorize") /\ UNCHANGED <<leaked, failures>>
     \/ /\ failures < MaxStartFailures
        /\ failures' = failures + 1 /\ leaked' = leaked + 1
        /\ UNCHANGED con
  /\ UNCHANGED <<application, ending>>

\* Faulty Finish: the slot comes back only after a complete reply.
FinishOnReply(c) ==
  /\ Alive /\ con[c] \in Talking
  /\ To(c, "none")
  /\ free' = IF con[c] = "reply" THEN free + 1 ELSE free
  /\ UNCHANGED <<leaked, failures, application, ending>>

\* process_request_thread returns: the reply is written, or the socket timed
\* out or broke while the handler read the request or wrote the answer.
Finish(c) ==
  /\ Alive /\ con[c] \in Talking
  /\ To(c, "none")
  /\ free' = free + 1
  /\ UNCHANGED <<leaked, failures, application, ending>>

\* authorize: the peer, the identity, Home Assistant's answer and the origin
\* are in order, or the request is answered with an error.
Authorize(c) ==
  /\ Alive /\ con[c] = "authorize"
  /\ \/ To(c, "dispatch")
     \/ To(c, "reply")
  /\ UNCHANGED <<free, leaked, failures, application, ending>>

\* Handler._dispatch: an operation has a body to read; state() and job() copy
\* _job under the lock; files and errors need nothing of the application.
Dispatch(c) ==
  /\ Alive /\ con[c] = "dispatch"
  /\ \/ To(c, "body")
     \/ lock = "free" /\ To(c, "reply")
  /\ UNCHANGED <<free, leaked, failures, application, ending>>

\* Handler._body and the contract of the operation: only a whole, well-formed
\* body of a known operation, confirmed where that is asked, reaches the lock.
Waiting == {c \in Connections : con[c] = "submit"}
ReadBody(c) ==
  /\ Alive /\ con[c] = "body"
  /\ \/ started + Cardinality(Waiting) < MaxJobs /\ To(c, "submit")
     \/ To(c, "reply")
  /\ UNCHANGED <<free, leaked, failures, application, ending>>

-----------------------------------------------------------------------------
(* Jobs. *)

MayStart == ~stopping /\ job # "running"

\* Faulty Submit: the state of the job is not looked at.
SubmitWhileRunning(c) ==
  /\ Alive /\ con[c] = "submit" /\ lock = "free"
  /\ IF stopping
     THEN To(c, "reply") /\ UNCHANGED application
     ELSE /\ To(c, "marked") /\ lock' = c /\ job' = "running"
          /\ started' = started + 1
          /\ result' = [result EXCEPT ![started + 1] = "running"]
          /\ UNCHANGED <<idle, stopping, thread>>
  /\ UNCHANGED <<free, leaked, failures, ending>>

\* Application.submit takes the lock: 503 while stopping, 409 while a job runs,
\* else the job is marked as running.
Submit(c) ==
  /\ Alive /\ con[c] = "submit" /\ lock = "free"
  /\ IF ~MayStart
     THEN To(c, "reply") /\ UNCHANGED application
     ELSE /\ To(c, "marked") /\ lock' = c /\ job' = "running"
          /\ started' = started + 1
          /\ result' = [result EXCEPT ![started + 1] = "running"]
          /\ UNCHANGED <<idle, stopping, thread>>
  /\ UNCHANGED <<free, leaked, failures, ending>>

ClearIdle(c) ==
  /\ Alive /\ con[c] = "marked"
  /\ To(c, "cleared") /\ idle' = FALSE
  /\ UNCHANGED <<free, leaked, failures, lock, job, stopping, started, thread,
                 result, ending>>

\* Thread.start, then the lock is given back; when it raises, job and event
\* stay as they are and the handler answers 500.
StartThread(c) ==
  /\ Alive /\ con[c] = "cleared"
  /\ To(c, "reply") /\ lock' = "free"
  /\ \/ thread' = "work" /\ UNCHANGED <<result, failures>>
     \/ /\ failures < MaxStartFailures
        /\ failures' = failures + 1
        /\ result' = [result EXCEPT ![started] = "unstarted"]
        /\ UNCHANGED thread
  /\ UNCHANGED <<free, leaked, job, idle, stopping, started, ending>>

\* The operation of _run returns or raises; every Exception becomes a result.
Work ==
  /\ Alive /\ thread = "work"
  /\ thread' = "publish"
  /\ \E outcome \in {"complete", "failed"} :
       result' = [result EXCEPT ![started] = outcome]
  /\ UNCHANGED <<con, free, leaked, failures, lock, job, idle, stopping, started, ending>>

\* _run stores its result under the lock ...
Publish ==
  /\ Alive /\ thread = "publish" /\ lock = "free"
  /\ thread' = "release" /\ lock' = "job"
  /\ job' = result[started]
  /\ UNCHANGED <<con, free, leaked, failures, idle, stopping, started, result, ending>>

\* Faulty Release: the event is set only after a success.
ReleaseOnSuccess ==
  /\ Alive /\ thread = "release"
  /\ thread' = "none" /\ lock' = "free" /\ idle' = (idle \/ job = "complete")
  /\ UNCHANGED <<con, free, leaked, failures, job, stopping, started, result, ending>>

\* ... and sets the event before it gives the lock back.
Release ==
  /\ Alive /\ thread = "release"
  /\ thread' = "none" /\ lock' = "free" /\ idle' = TRUE
  /\ UNCHANGED <<con, free, leaked, failures, job, stopping, started, result, ending>>

-----------------------------------------------------------------------------
(* The end of the process. *)

\* serve().stop: the first SIGTERM or SIGINT starts a thread, later ones return.
\* When that thread cannot be started the exception ends serve_forever, and the
\* drain begins without begin_shutdown.
Sigterm ==
  /\ main = "serve" /\ signal = "none"
  /\ \/ signal' = "begin" /\ UNCHANGED <<failures, main>>
     \/ /\ failures < MaxStartFailures
        /\ failures' = failures + 1
        /\ signal' = "failed" /\ main' = "drain"
  /\ UNCHANGED <<con, free, leaked, application, asked, drained>>

\* Faulty BeginShutdown: _stopping is set without the lock.
BeginShutdownUnlocked ==
  /\ Alive /\ signal = "begin"
  /\ stopping' = TRUE /\ signal' = "shutdown"
  /\ UNCHANGED <<con, free, leaked, failures, lock, job, idle, started, thread,
                 result, asked, main, drained>>

\* Application.begin_shutdown waits for the lock.
BeginShutdown ==
  /\ Alive /\ signal = "begin" /\ lock = "free"
  /\ stopping' = TRUE /\ signal' = "shutdown"
  /\ UNCHANGED <<con, free, leaked, failures, lock, job, idle, started, thread,
                 result, asked, main, drained>>

\* server.shutdown: serve_forever sees the request within its poll interval.
Shutdown ==
  /\ Alive /\ signal = "shutdown"
  /\ asked' = TRUE /\ signal' = "done"
  /\ UNCHANGED <<con, free, leaked, failures, application, main, drained>>

StopServing ==
  /\ main = "serve" /\ asked
  /\ main' = "drain"
  /\ UNCHANGED <<con, free, leaked, failures, application, signal, asked, drained>>

\* wait_for_idle(20): the event is set, or the time is over; then serve returns
\* and the process ends with every thread it still has.
Drain ==
  /\ main = "drain"
  /\ main' = "exited"
  /\ drained' = IF idle THEN "idle" ELSE "timeout"
  /\ UNCHANGED <<con, free, leaked, failures, application, signal, asked>>

-----------------------------------------------------------------------------
Talk(c) == Authorize(c) \/ Dispatch(c) \/ ReadBody(c) \/ Finish(c)
Handle(c) == Talk(c) \/ Submit(c) \/ ClearIdle(c) \/ StartThread(c)
Run == Work \/ Publish \/ Release
Next ==
  \/ \E c \in Connections : Accept(c) \/ Handle(c)
  \/ Run
  \/ Sigterm \/ BeginShutdown \/ Shutdown \/ StopServing \/ Drain

Spec == Init /\ [][Next]_vars

\* The threads of the process run: no handler waits for its client beyond the
\* socket timeout, engine operations end (their downloads have deadlines), and
\* whoever waits for a lock held over a few assignments gets it in the end.
\* Nothing makes a client connect or the Supervisor send a signal.
FairSpec ==
  /\ Spec
  /\ \A c \in Connections :
       /\ WF_vars(Talk(c)) /\ SF_vars(Submit(c))
       /\ WF_vars(ClearIdle(c) \/ StartThread(c))
  /\ WF_vars(Work) /\ SF_vars(Publish) /\ WF_vars(Release)
  /\ SF_vars(BeginShutdown) /\ WF_vars(Shutdown) /\ WF_vars(StopServing) /\ WF_vars(Drain)

-----------------------------------------------------------------------------
(* Properties. *)

\* Jobs never overlap, and none is lost: every accepted job but the last has a
\* result, and only the last may be running (server.py:188-192); what a client is
\* told is the state of the last one, whatever requests raced for it, and its result
\* stays readable until the next is accepted (143-159, 214-216).
OneAtATime ==
  /\ \A j \in Jobs : j < started => result[j] \in {"complete", "failed"}
  /\ started = 0 => job = "idle"
  /\ started > 0 /\ job = "running" =>
       result[started] \in {"running", "unstarted"} \/ thread = "publish"
  /\ started > 0 /\ job # "running" => job = result[started]

\* When a drain that was announced ends because the server is idle, no job is
\* running or about to start: only a job longer than the drain is cut off, for
\* the recovery of the engine to resolve (server.py:135, 186, 345-347, 367).
DrainedMeansDone ==
  drained = "idle" /\ stopping =>
    /\ thread = "none" /\ lock = "free"
    /\ \A j \in 1..started : result[j] \in {"complete", "failed"}

\* Every slot is free, with a live handler, or was lost to a thread that could
\* not be started; so a client is turned away only when the others hold all
\* slots (server.py:232-242).
SlotsAccounted ==
  free + leaked
    + Cardinality({c \in Connections : con[c] # "none"}) = Slots

\* A stop request ends the process, whatever handlers and jobs are doing: the
\* shutdown thread gets the lock, serve_forever ends, the drain is bounded
\* (server.py:342-369).  An accepted job whose thread runs gets its result, and a
\* new one can be accepted then, unless the process ends (195-216).
ServerEnds ==
  /\ signal # "none" ~> main = "exited"
  /\ thread = "work" ~> (job # "running" /\ idle) \/ main = "exited"
=============================================================================
