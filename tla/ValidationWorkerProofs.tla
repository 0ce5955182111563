-------------------------- MODULE ValidationWorkerProofs --------------------------
(* Theorems about ValidationWorker, for any set of its workers and of kinds of lamp, any *)
(* number of read attempts, of moves of other controllers and of faults.                 *)
(*                                                                                       *)
(* The invariant is a conjunction of named parts.  For each of them one lemma (...Kept)  *)
(* shows that every step keeps it, with a case for each disjunct of Next.  The cleanups  *)
(* of the five workers have one shape: after a read they give up (Quits), confirm the    *)
(* recovery (Confirms), ask for one more read (Waits) or begin a command (Begins).       *)
EXTENDS ValidationWorker, FiniteSetTheorems, SequenceTheorems, TLAPS
-----------------------------------------------------------------------------
(* The places of a worker. *)

Reads == {"connect", "system", "channels"}
Writes == {"send_vector", "drain_vector", "send_mode", "drain_mode", "barrier"}
Early == {"second", "intent", "admit"}
Trial == {"experimented", "darkened", "resumed_dark", "sample_guard", "sampled"}
Repair == {"guarded", "vector_restored", "mode_restored", "mode_resumed", "zero_guard",
           "restored", "dark_resumed"}
Returns == Early \cup Trial \cup Repair
\* The places that wait for the result of a command, not of a mere read.
Commanded == {"experimented", "darkened", "resumed_dark", "sampled", "vector_restored",
              "mode_restored", "mode_resumed", "restored", "dark_resumed"}

\* Where the script of a worker is.
Place == IF pc \in Reads \cup Writes THEN ret ELSE pc

Marks ==
  {excursion, cleaning, unsafe, interrupted, intent, alarm, hidden, still} \subseteq BOOLEAN
Phases == {"original", "off", "zero_off", "manual", "sample", "sampled", "cleanup_manual",
           "restore_original"}
Words ==
  /\ worker \in Workers /\ worker \in AllWorkers /\ kind \in LampKinds
  /\ pc \in Reads \cup Writes \cup Returns
            \cup {"experiment", "hold", "recover", "finish", "done"}
  /\ ret \in Returns
  /\ progress \in {"none", "sending", "boundary", "barrier"}
  /\ phase \in Phases
  /\ experiment \in {"NOT_TESTED", "PASS", "FAIL"}
  /\ recovery \in {"NOT_REQUIRED", "PASS", "FAIL"}
  /\ status \in {"RUNNING", "PASS", "FAIL"}
Counts == tries \in 0..ReadAttempts /\ moves \in 0..MaxMoves /\ faults \in 0..MaxFaults
Found ==
  /\ lamp \in States /\ seen \in Modes \cup {None} /\ got \in States \cup {NoState}
  /\ baseline \in States \cup {NoState} /\ owned \in States \cup {NoState}
Ordered ==
  /\ call \in [ch : Vectors \cup {None}, mode : Modes] /\ want \in Modes \cup {None}
  /\ may \in [modes : SUBSET Modes, chs : SUBSET Vectors]
Streams == wire \in Seq(Frames) /\ sent \in Seq(Frames)
Typed == Marks /\ Words /\ Counts /\ Found /\ Ordered /\ Streams

\* What a place says of the run.
Placed ==
  /\ cleaning => excursion
  /\ ~cleaning => tries = 0
  /\ Place \in Early => ~excursion
  /\ Place \in Trial \cup {"experiment", "hold"} => excursion /\ ~cleaning
  /\ Place \in Repair \cup {"recover"} => cleaning
  /\ pc \in Writes => ret \in Commanded
  /\ status # "RUNNING" => pc = "done"

\* Which worker is there.
Staffed ==
  /\ Place = "experimented" => worker # "dark"
  /\ Place \in {"darkened", "resumed_dark", "sample_guard", "sampled", "dark_resumed"} =>
       worker = "dark"
  /\ Place = "hold" => worker \in {"optical", "dark"}
  /\ Place \in {"vector_restored", "mode_restored"} => Lenient
  /\ Place = "mode_restored" => baseline.mode = Automatic
  /\ Place = "mode_resumed" => worker \in OffWorkers
  /\ Place \in {"zero_guard", "restored"} => ~Lenient /\ baseline.mode = Manual

\* Before the excursion nothing is sent, and it starts from a baseline read twice.
Started ==
  /\ ~excursion => /\ sent = <<>> /\ wire = <<>> /\ ~alarm
                   /\ call = [ch |-> None, mode |-> Manual]
                   /\ phase = "original" /\ recovery = "NOT_REQUIRED"
  /\ Place \in {"intent", "admit"} \/ excursion => baseline \in States
  /\ Place = "admit" \/ excursion => baseline.mode \in OriginalMode /\ intent

\* The command under way, or whose result is read.
Called ==
  /\ Place = "experimented" =>
       call = IF Lenient THEN [ch |-> "changed", mode |-> Manual]
              ELSE [ch |-> None, mode |-> Shutdown]
  /\ Place = "darkened" => call = [ch |-> None, mode |-> Shutdown]
  /\ Place \in {"resumed_dark", "sample_guard", "dark_resumed"} =>
       call = [ch |-> None, mode |-> Manual]
  /\ Place = "sampled" => call = [ch |-> "changed", mode |-> Manual]
  /\ Place \in {"vector_restored", "restored"} => call = [ch |-> baseline.ch, mode |-> Manual]
  /\ Place \in {"mode_restored", "mode_resumed"} => call = [ch |-> None, mode |-> baseline.mode]
  /\ pc \in {"send_vector", "drain_vector"} => call.ch # None
  /\ Place \in {"experiment", "hold", "zero_guard"} => call.mode = Manual

\* How far an experiment got, and what its commands can make the lamp show.
Phased ==
  /\ Lenient => phase = "original"
  /\ worker \in OffWorkers => phase \in {"original", "off", "zero_off"}
  /\ worker \in OffWorkers /\ Place = "experimented" => phase = "off"
  /\ Place = "experiment" => phase = "original"
  /\ Place \in {"mode_resumed", "zero_guard", "restored", "dark_resumed"} => phase # "original"
  /\ worker = "dark" =>
       /\ Place = "darkened" => phase = "off"
       /\ Place \in {"resumed_dark", "sample_guard"} => phase = "manual"
       /\ Place = "sampled" => phase = "sample"
       /\ Place = "hold" => phase = "sampled"
       /\ Place \in {"recover", "guarded"} =>
            /\ phase \in {"original", "off", "manual", "sample", "sampled"}
            /\ call.mode = IF phase = "off" THEN Shutdown ELSE Manual
  /\ excursion =>
       /\ baseline.mode \in may.modes /\ baseline.ch \in may.chs
       /\ baseline.mode = Automatic => Programmed \subseteq may.chs
       /\ Lenient => Manual \in may.modes /\ "changed" \in may.chs
       /\ Lenient \/ worker = "dark" => call.mode \in may.modes
       /\ phase # "original" => {call.mode, Shutdown} \subseteq may.modes /\ "zero" \in may.chs
       /\ phase \in {"sample", "sampled"} => "changed" \in may.chs

\* What was read, and what was expected of it.
Judged ==
  /\ pc = "channels" => seen \in Modes
  /\ pc = "channels" /\ worker # "dark" => seen \in ReadableModes
  /\ pc \in Returns => /\ got \in States
                       /\ got.mode \in ReadableModes
                       /\ Place \in Repair => want \in {None, got.mode}
  /\ Place = "guarded" => want = GuardMode
  /\ Place = "zero_guard" => want = Manual
  /\ Place \in Repair \cap Commanded /\ pc \notin Writes => want = call.mode

\* How many frames are declared for the run.
Length == CASE worker = "dark" -> 6
            [] worker \in OffWorkers -> IF baseline.mode = Manual THEN 4 ELSE 2
            [] OTHER -> IF baseline.mode = Manual THEN 4 ELSE 5

\* How many of them come before those of the command a place waits for.
Before(place) ==
  CASE place \in {"experimented", "darkened"} -> 0
    [] place \in {"resumed_dark", "mode_resumed", "dark_resumed"} -> 1
    [] place \in {"sampled", "vector_restored"} -> 2
    [] place = "mode_restored" -> 4
    [] OTHER -> IF worker = "dark" THEN 4 ELSE 2            \* "restored"

\* How many of them an experiment may have sent.
Spent ==
  CASE Lenient -> 2
    [] worker \in OffWorkers -> 1
    [] OTHER -> CASE phase = "original" -> 0
                  [] phase = "off" -> 1
                  [] phase = "manual" -> 2
                  [] OTHER -> 4

\* How many of them can have been sent by now.
SoFar ==
  CASE pc = "send_vector" -> Before(ret)
    [] pc = "drain_vector" -> Before(ret) + 1
    [] pc = "send_mode" -> Before(ret) + (IF call.ch = None THEN 0 ELSE 1)
    [] pc \in {"finish", "done"} -> Length
    [] OTHER -> CASE Place \in {"recover", "guarded"} -> Spent
                  [] Place = "hold" -> IF Lenient THEN 2 ELSE 4
                  [] Place \in {"sample_guard", "zero_guard"} -> 2
                  [] Place \in Commanded -> Before(Place) + (IF call.ch = None THEN 1 ELSE 2)
                  [] OTHER -> 0

Sent == excursion => \E positions \in SUBSET (1..SoFar) : Keeps(positions)

\* A contradiction that was not hidden is about to be judged, or remembered, or the end.
Remembered ==
  alarm /\ ~hidden =>
    \/ pc \in {"finish", "done"}
    \/ Place \in {"recover", "guarded"} /\ (unsafe \/ (~Lenient /\ phase = "original"))
    \/ pc = "channels" /\ Suspicious(seen, None)
    \/ pc \in Returns /\ (Suspicious(got.mode, None) \/ Suspicious(None, got.ch))

\* As long as the others leave it alone, the lamp is what was read of it.
Mirrored ==
  still =>
    /\ pc = "channels" => wire = <<>> /\ lamp.mode = seen
    /\ pc \in Returns => /\ wire = <<>> /\ lamp.mode = got.mode
                         /\ got.mode # Automatic => lamp.ch = got.ch

\* What was reported of the recovery.
Concluded ==
  /\ pc \in {"finish", "done"} /\ excursion => recovery \in {"PASS", "FAIL"}
  /\ pc \notin {"finish", "done"} => recovery = "NOT_REQUIRED"
  /\ recovery = "PASS" /\ still => AsBefore /\ wire = <<>>

IInv == /\ Typed /\ Placed /\ Staffed /\ Started /\ Called /\ Phased /\ Judged
        /\ Sent /\ Remembered /\ Mirrored /\ Concluded

USE DEF Reads, Writes, Early, Trial, Repair, Returns, Commanded, Lenient, OffWorkers,
        TaskWorkers, AllWorkers,
        Phases, NoState, None, Automatic, Manual, Shutdown, Modes, Vectors, States, Programmed,
        Frames,
        setting, world, flow, memory, command, flags, report, history, Kept, Goto, Fault, At,
        ReadFor, RecoveryReadFor, Readback, Give

-----------------------------------------------------------------------------
(* What a cleanup does after a read. *)

\* It goes on with what it knows, whatever it does next.
Rest ==
  UNCHANGED <<setting, world, seen, got, memory, interrupted, report, history, still, moves>>
Quits ==
  /\ Rest /\ UNCHANGED command /\ (Fault \/ UNCHANGED faults)
  /\ \E error \in {"unsafe", "deadline"} : Raise(error)
Confirms == Rest /\ UNCHANGED command /\ Recovered
Waits == Rest /\ UNCHANGED <<command, faults>> /\ RecoveryReadFor("zero_guard", Manual)
Begins(ch, mode, name, place) ==
  /\ Rest
  /\ call' = [ch |-> ch, mode |-> mode] /\ phase' = name /\ progress' = "sending"
  /\ may' = [modes |-> may.modes \cup {mode},
             chs |-> may.chs \cup (IF ch = None THEN {} ELSE {ch}) \cup Consequences(mode)]
  /\ pc' = IF ch = None THEN "send_mode" ELSE "send_vector"
  /\ ret' = place
  /\ UNCHANGED <<want, tries, flags, faults>>

\* Each step of a cleanup gives up, or confirms the recovery, or begins a command, or
\* asks for one more read; what it knows then is said here once.
LEMMA GuardedChannelDoes ==
  ASSUME GuardedChannel
  PROVE  /\ pc = "guarded" /\ Lenient
         /\ \/ Quits
            \/ got = baseline /\ Confirms
            \/ /\ ~unsafe /\ got # baseline
               /\ got.ch \in {baseline.ch, "changed"} /\ got.ch # baseline.ch
               /\ Begins(baseline.ch, Manual, phase, "vector_restored")
            \/ ~unsafe /\ got # baseline /\ got.ch = baseline.ch
               /\ Begins(None, baseline.mode, phase, "mode_restored")
BY DEF GuardedChannel, Refuse, Command, Quits, Confirms, Begins, Rest

LEMMA VectorRestoredDoes ==
  ASSUME VectorRestored
  PROVE  /\ pc = "vector_restored"
         /\ \/ Quits
            \/ got.mode = Manual /\ got.ch = baseline.ch /\ baseline.mode = Manual /\ Confirms
            \/ got.mode = Manual /\ got.ch = baseline.ch /\ baseline.mode # Manual
               /\ Begins(None, baseline.mode, phase, "mode_restored")
BY DEF VectorRestored, Confirmed, Refuse, Command, Quits, Confirms, Begins, Rest

LEMMA GuardedOffDoes ==
  ASSUME GuardedOff
  PROVE  /\ pc = "guarded" /\ worker \in OffWorkers
         /\ \/ Quits
            \/ got = baseline /\ Confirms
            \/ /\ ~unsafe /\ phase = "off"
               /\ got.mode = Shutdown /\ got.ch \in {baseline.ch, "zero"}
               /\ owned # NoState => got = owned
               /\ Begins(None, baseline.mode, IF got.ch = "zero" THEN "zero_off" ELSE "off",
                         "mode_resumed")
BY DEF GuardedOff, Refuse, Command, Quits, Confirms, Begins, Rest

LEMMA ModeResumedDoes ==
  ASSUME ModeResumed
  PROVE  /\ pc = "mode_resumed"
         /\ \/ Quits
            \/ got.mode = baseline.mode /\ (baseline.mode = Automatic \/ got.ch = baseline.ch)
               /\ Confirms
            \/ got.mode = baseline.mode /\ baseline.mode # Automatic /\ got.ch = "zero"
               /\ phase = "zero_off" /\ Waits
BY DEF ModeResumed, Refuse, Quits, Confirms, Waits, Rest

LEMMA ZeroGuardDoes ==
  ASSUME ZeroGuard
  PROVE  /\ pc = "zero_guard"
         /\ \/ Quits
            \/ got.ch = "zero" /\ Begins(baseline.ch, Manual, phase, "restored")
BY DEF ZeroGuard, Refuse, Command, Quits, Begins, Rest

LEMMA GuardedDarkDoes ==
  ASSUME GuardedDark
  PROVE  /\ pc = "guarded" /\ worker = "dark"
         /\ \/ Quits
            \/ phase = "original" /\ got.mode = Manual /\ got.ch = baseline.ch /\ Confirms
            \/ ~unsafe /\ phase = "off" /\ got.ch \in OwnedVectors
               /\ Begins(None, Manual, "cleanup_manual", "dark_resumed")
            \/ ~unsafe /\ phase \notin {"original", "off"} /\ got.ch \in OwnedVectors
               /\ Begins(baseline.ch, Manual, "restore_original", "restored")
BY DEF GuardedDark, Confirmed, Refuse, Command, Quits, Confirms, Begins, Rest

LEMMA DarkResumedDoes ==
  ASSUME DarkResumed
  PROVE  /\ pc = "dark_resumed"
         /\ Quits \/ (got.mode = Manual /\ got.ch = "zero" /\ Waits)
BY DEF DarkResumed, Confirmed, Refuse, Quits, Waits, Rest

LEMMA ModeRestoredDoes ==
  ASSUME ModeRestored
  PROVE  /\ pc = "mode_restored"
         /\ Quits \/ (got.mode = baseline.mode /\ Confirms)
BY DEF ModeRestored, Refuse, Quits, Confirms, Rest

LEMMA RestoredDoes ==
  ASSUME Restored
  PROVE  /\ pc = "restored"
         /\ Quits \/ (got.mode = Manual /\ got.ch = baseline.ch /\ Confirms)
BY DEF Restored, Confirmed, Refuse, Quits, Confirms, Rest

-----------------------------------------------------------------------------
(* Marks: the flags of a run stay flags. *)

LEMMA Marks_Quits ==
  ASSUME Marks, Words, pc \in Repair, Quits
  PROVE  Marks'
BY DEF Quits, Rest, Raise, Marks, Words, Place

LEMMA Marks_Confirms ==
  ASSUME Marks, Words, pc \in Repair, Confirms
  PROVE  Marks'
BY DEF Confirms, Rest, Recovered, Marks, Words, Place

LEMMA Marks_Waits ==
  ASSUME Marks, Words, pc \in {"mode_resumed", "dark_resumed"}, Waits
  PROVE  Marks'
BY DEF Waits, Rest, Marks, Words, Place

LEMMA MarksKept ==
  ASSUME Marks, Words, [Next]_vars
  PROVE  Marks'
<1> USE DEF Marks, Words, Place, Raise, Command, ReadFails, Send, Recovered, Refuse, Succeed,
        Confirmed, Consequences, TryChannel, TryOptical, TryOff, TryDark
<1>1. CASE Stop
  BY <1>1 DEF Stop, Running, Stopping
<1>2. CASE Read
  BY <1>2 DEF Read, Connect, ReadSystem, ReadChannels, ReadFault
<1>3. CASE Write
  BY <1>3 DEF Write, SendVector, SendMode, Drain, Barrier, BarrierFault
<1>4. CASE Prepare
  BY <1>4 DEF Prepare, Second, Intent, Admit
<1>5. CASE Try
  BY <1>5 DEF Try, Experiment, ChannelChanged, OpticalChanged, SwitchedOff, Darkened, ResumedDark,
              SampleGuard, Sampled, Hold
<1>6. CASE Recover
  BY <1>6 DEF Recover
<1>7. CASE GuardedChannel
  BY <1>7, GuardedChannelDoes, Marks_Quits, Marks_Confirms DEF Begins, Rest
<1>8. CASE VectorRestored
  BY <1>8, VectorRestoredDoes, Marks_Quits, Marks_Confirms DEF Begins, Rest
<1>9. CASE ModeRestored
  BY <1>9, ModeRestoredDoes, Marks_Quits, Marks_Confirms DEF Begins, Rest
<1>10. CASE GuardedOff
  BY <1>10, GuardedOffDoes, Marks_Quits, Marks_Confirms DEF Begins, Rest
<1>11. CASE ModeResumed
  BY <1>11, ModeResumedDoes, Marks_Quits, Marks_Confirms, Marks_Waits DEF Begins, Rest
<1>12. CASE ZeroGuard
  BY <1>12, ZeroGuardDoes, Marks_Quits DEF Begins, Rest
<1>13. CASE Restored
  BY <1>13, RestoredDoes, Marks_Quits, Marks_Confirms DEF Begins, Rest
<1>14. CASE GuardedDark
  BY <1>14, GuardedDarkDoes, Marks_Quits, Marks_Confirms DEF Begins, Rest
<1>15. CASE DarkResumed
  BY <1>15, DarkResumedDoes, Marks_Quits, Marks_Waits DEF Begins, Rest
<1>16. CASE Finish
  BY <1>16 DEF Finish
<1>17. CASE Handle \/ Program \/ Rival \/ Signal
  BY <1>17 DEF Handle, Program, Rival, Signal, Obey, Obeyed
<1>18. CASE UNCHANGED vars
  BY <1>18 DEF vars
<1>19. QED
  BY <1>1, <1>2, <1>3, <1>4, <1>5, <1>6, <1>7, <1>8, <1>9, <1>10, <1>11, <1>12, <1>13, <1>14,
     <1>15, <1>16, <1>17, <1>18
     DEF Next, Worker, Read, Write, Prepare, Try, CleanUp

-----------------------------------------------------------------------------
(* Words: its places, phases and verdicts stay within their words. *)

\* A command of the cleanup.
LEMMA BeginsWords ==
  ASSUME Words, NEW ch, NEW mode, NEW name \in Phases, NEW place \in Returns,
         Begins(ch, mode, name, place)
  PROVE  Words'
BY DEF Words, Begins, Rest

LEMMA Words_Quits ==
  ASSUME Words, Placed, pc \in Repair, Quits
  PROVE  Words'
BY DEF Quits, Rest, Raise, Words, Placed, Place

LEMMA Words_Confirms ==
  ASSUME Words, Placed, pc \in Repair, Confirms
  PROVE  Words'
BY DEF Confirms, Rest, Recovered, Words, Placed, Place

LEMMA Words_Waits ==
  ASSUME Words, Placed, pc \in {"mode_resumed", "dark_resumed"}, Waits
  PROVE  Words'
BY DEF Waits, Rest, Words, Placed, Place

LEMMA Words_VectorRestored ==
  ASSUME Words, Placed, VectorRestored
  PROVE  Words'
<1>1. phase \in Phases
  BY DEF Words
<1>2. QED
  BY <1>1, VectorRestoredDoes, Words_Quits, Words_Confirms, BeginsWords

LEMMA WordsKept ==
  ASSUME Words, Placed, [Next]_vars
  PROVE  Words'
<1> USE DEF Words, Placed, Place, Raise, Command, ReadFails, Send, Recovered, Refuse, Succeed,
        Confirmed, Consequences, TryChannel, TryOptical, TryOff, TryDark
<1>1. CASE Stop
  BY <1>1 DEF Stop, Running, Stopping
<1>2. CASE Read
  BY <1>2 DEF Read, Connect, ReadSystem, ReadChannels, ReadFault
<1>3. CASE Write
  BY <1>3 DEF Write, SendVector, SendMode, Drain, Barrier, BarrierFault
<1>4. CASE Prepare
  BY <1>4 DEF Prepare, Second, Intent, Admit
<1>5. CASE Try
  BY <1>5 DEF Try, Experiment, ChannelChanged, OpticalChanged, SwitchedOff, Darkened, ResumedDark,
              SampleGuard, Sampled, Hold
<1>6. CASE Recover
  BY <1>6 DEF Recover
<1>7. CASE GuardedChannel
  BY <1>7, GuardedChannelDoes, Words_Quits, Words_Confirms DEF Begins, Rest
<1>8. CASE VectorRestored
  BY <1>8, Words_VectorRestored
<1>9. CASE ModeRestored
  BY <1>9, ModeRestoredDoes, Words_Quits, Words_Confirms DEF Begins, Rest
<1>10. CASE GuardedOff
  BY <1>10, GuardedOffDoes, Words_Quits, Words_Confirms DEF Begins, Rest
<1>11. CASE ModeResumed
  BY <1>11, ModeResumedDoes, Words_Quits, Words_Confirms, Words_Waits DEF Begins, Rest
<1>12. CASE ZeroGuard
  BY <1>12, ZeroGuardDoes, Words_Quits DEF Begins, Rest
<1>13. CASE Restored
  BY <1>13, RestoredDoes, Words_Quits, Words_Confirms DEF Begins, Rest
<1>14. CASE GuardedDark
  BY <1>14, GuardedDarkDoes, Words_Quits, Words_Confirms DEF Begins, Rest
<1>15. CASE DarkResumed
  BY <1>15, DarkResumedDoes, Words_Quits, Words_Waits DEF Begins, Rest
<1>16. CASE Finish
  BY <1>16 DEF Finish
<1>17. CASE Handle \/ Program \/ Rival \/ Signal
  BY <1>17 DEF Handle, Program, Rival, Signal, Obey, Obeyed
<1>18. CASE UNCHANGED vars
  BY <1>18 DEF vars
<1>19. QED
  BY <1>1, <1>2, <1>3, <1>4, <1>5, <1>6, <1>7, <1>8, <1>9, <1>10, <1>11, <1>12, <1>13, <1>14,
     <1>15, <1>16, <1>17, <1>18
     DEF Next, Worker, Read, Write, Prepare, Try, CleanUp

-----------------------------------------------------------------------------
(* Counts: attempts, moves and faults stay within their bounds. *)

LEMMA Counts_Quits ==
  ASSUME Counts, Words, pc \in Repair, Quits
  PROVE  Counts'
BY WorkersAssumption DEF Quits, Rest, Raise, Counts, Words, Place, Obey

LEMMA Counts_Confirms ==
  ASSUME Counts, Words, pc \in Repair, Confirms
  PROVE  Counts'
BY WorkersAssumption DEF Confirms, Rest, Recovered, Counts, Words, Place, Obey

LEMMA Counts_Waits ==
  ASSUME Counts, Words, pc \in {"mode_resumed", "dark_resumed"}, Waits
  PROVE  Counts'
BY WorkersAssumption DEF Waits, Rest, Counts, Words, Place, Obey

LEMMA CountsKept ==
  ASSUME Counts, Words, [Next]_vars
  PROVE  Counts'
<1> USE WorkersAssumption DEF Counts, Words, Place, Obey, Raise, Command, ReadFails, Send,
        Recovered, Refuse, Succeed, Confirmed, Consequences, TryChannel, TryOptical, TryOff,
        TryDark
<1>1. CASE Stop
  BY <1>1 DEF Stop, Running, Stopping
<1>2. CASE Read
  BY <1>2 DEF Read, Connect, ReadSystem, ReadChannels, ReadFault
<1>3. CASE Write
  BY <1>3 DEF Write, SendVector, SendMode, Drain, Barrier, BarrierFault
<1>4. CASE Prepare
  BY <1>4 DEF Prepare, Second, Intent, Admit
<1>5. CASE Try
  BY <1>5 DEF Try, Experiment, ChannelChanged, OpticalChanged, SwitchedOff, Darkened, ResumedDark,
              SampleGuard, Sampled, Hold
<1>6. CASE Recover
  BY <1>6 DEF Recover
<1>7. CASE GuardedChannel
  BY <1>7, GuardedChannelDoes, Counts_Quits, Counts_Confirms DEF Begins, Rest
<1>8. CASE VectorRestored
  BY <1>8, VectorRestoredDoes, Counts_Quits, Counts_Confirms DEF Begins, Rest
<1>9. CASE ModeRestored
  BY <1>9, ModeRestoredDoes, Counts_Quits, Counts_Confirms DEF Begins, Rest
<1>10. CASE GuardedOff
  BY <1>10, GuardedOffDoes, Counts_Quits, Counts_Confirms DEF Begins, Rest
<1>11. CASE ModeResumed
  BY <1>11, ModeResumedDoes, Counts_Quits, Counts_Confirms, Counts_Waits DEF Begins, Rest
<1>12. CASE ZeroGuard
  BY <1>12, ZeroGuardDoes, Counts_Quits DEF Begins, Rest
<1>13. CASE Restored
  BY <1>13, RestoredDoes, Counts_Quits, Counts_Confirms DEF Begins, Rest
<1>14. CASE GuardedDark
  BY <1>14, GuardedDarkDoes, Counts_Quits, Counts_Confirms DEF Begins, Rest
<1>15. CASE DarkResumed
  BY <1>15, DarkResumedDoes, Counts_Quits, Counts_Waits DEF Begins, Rest
<1>16. CASE Finish
  BY <1>16 DEF Finish
<1>17. CASE Handle \/ Program \/ Rival \/ Signal
  BY <1>17 DEF Handle, Program, Rival, Signal
<1>18. CASE UNCHANGED vars
  BY <1>18 DEF vars
<1>19. QED
  BY <1>1, <1>2, <1>3, <1>4, <1>5, <1>6, <1>7, <1>8, <1>9, <1>10, <1>11, <1>12, <1>13, <1>14,
     <1>15, <1>16, <1>17, <1>18
     DEF Next, Worker, Read, Write, Prepare, Try, CleanUp

-----------------------------------------------------------------------------
(* Found: what the lamp shows and what was read of it are complete states. *)

\* Sequences.
LEMMA HeadIsIn ==
  ASSUME NEW S, NEW s \in Seq(S), s # <<>>
  PROVE  Head(s) \in S /\ Tail(s) \in Seq(S)
OBVIOUS

LEMMA Found_Quits ==
  ASSUME Words, Found, Streams, Started, Judged, pc \in Repair, Quits
  PROVE  Found'
BY DEF Quits, Rest, Raise, Words, Found, Streams, Started, Judged, Place, Obey, Obeyed

LEMMA Found_Confirms ==
  ASSUME Words, Found, Streams, Started, Judged, pc \in Repair, Confirms
  PROVE  Found'
BY DEF Confirms, Rest, Recovered, Words, Found, Streams, Started, Judged, Place, Obey, Obeyed

LEMMA Found_Waits ==
  ASSUME Words, Found, Streams, Started, Judged, pc \in {"mode_resumed", "dark_resumed"}, Waits
  PROVE  Found'
BY DEF Waits, Rest, Words, Found, Streams, Started, Judged, Place, Obey, Obeyed

\* The lamp makes a state of every frame; a frame is under way only after the baseline is known.
LEMMA Found_Handle ==
  ASSUME Words, Found, Streams, Started, Handle
  PROVE  Found'
<1>1. Head(wire) \in Frames
  BY HeadIsIn DEF Handle, Streams
<1>2. baseline.ch \in Vectors /\ lamp \in States
  BY DEF Handle, Started, Found
<1>3. ASSUME NEW frame \in Frames, lamp' \in Obeyed(frame)
      PROVE  lamp' \in States
  <2>1. CASE frame \in Vectors
    BY <1>2, <1>3, <2>1 DEF Obeyed
  <2>2. CASE frame \notin Vectors
    <3>1. PICK ch \in Programmed \cup {lamp.ch, "zero", baseline.ch} :
                 lamp' = [mode |-> frame, ch |-> ch]
      BY <1>3, <2>2 DEF Obeyed
    <3>2. QED
      BY <1>2, <1>3, <2>2, <3>1
  <2>3. QED
    BY <2>1, <2>2
<1>4. lamp' \in States
  BY <1>1, <1>2, <1>3 DEF Handle, Obey
<1>5. QED
  BY <1>4 DEF Handle, Found

LEMMA FoundKept ==
  ASSUME Words, Found, Streams, Started, Judged, [Next]_vars
  PROVE  Found'
<1> USE DEF Words, Found, Streams, Started, Judged, Place, Obey, Obeyed, Raise, Command,
        ReadFails, Send, Recovered, Refuse, Succeed, Confirmed, Consequences, TryChannel,
        TryOptical, TryOff, TryDark
<1>1. CASE Stop
  BY <1>1 DEF Stop, Running, Stopping
<1>2. CASE Read
  BY <1>2 DEF Read, Connect, ReadSystem, ReadChannels, ReadFault
<1>3. CASE Write
  BY <1>3 DEF Write, SendVector, SendMode, Drain, Barrier, BarrierFault
<1>4. CASE Prepare
  BY <1>4 DEF Prepare, Second, Intent, Admit
<1>5. CASE Try
  BY <1>5 DEF Try, Experiment, ChannelChanged, OpticalChanged, SwitchedOff, Darkened, ResumedDark,
              SampleGuard, Sampled, Hold
<1>6. CASE Recover
  BY <1>6 DEF Recover
<1>7. CASE GuardedChannel
  BY <1>7, GuardedChannelDoes, Found_Quits, Found_Confirms DEF Begins, Rest
<1>8. CASE VectorRestored
  BY <1>8, VectorRestoredDoes, Found_Quits, Found_Confirms DEF Begins, Rest
<1>9. CASE ModeRestored
  BY <1>9, ModeRestoredDoes, Found_Quits, Found_Confirms DEF Begins, Rest
<1>10. CASE GuardedOff
  BY <1>10, GuardedOffDoes, Found_Quits, Found_Confirms DEF Begins, Rest
<1>11. CASE ModeResumed
  BY <1>11, ModeResumedDoes, Found_Quits, Found_Confirms, Found_Waits DEF Begins, Rest
<1>12. CASE ZeroGuard
  BY <1>12, ZeroGuardDoes, Found_Quits DEF Begins, Rest
<1>13. CASE Restored
  BY <1>13, RestoredDoes, Found_Quits, Found_Confirms DEF Begins, Rest
<1>14. CASE GuardedDark
  BY <1>14, GuardedDarkDoes, Found_Quits, Found_Confirms DEF Begins, Rest
<1>15. CASE DarkResumed
  BY <1>15, DarkResumedDoes, Found_Quits, Found_Waits DEF Begins, Rest
<1>16. CASE Finish
  BY <1>16 DEF Finish
<1>17. CASE Handle
  BY <1>17, Found_Handle
<1>18. CASE Program
  BY <1>18 DEF Program
<1>19. CASE Rival
  BY <1>19 DEF Rival
<1>20. CASE Signal
  BY <1>20 DEF Signal
<1>21. CASE UNCHANGED vars
  BY <1>21 DEF vars
<1>22. QED
  BY <1>1, <1>2, <1>3, <1>4, <1>5, <1>6, <1>7, <1>8, <1>9, <1>10, <1>11, <1>12, <1>13, <1>14,
     <1>15, <1>16, <1>17, <1>18, <1>19, <1>20, <1>21
     DEF Next, Worker, Read, Write, Prepare, Try, CleanUp

-----------------------------------------------------------------------------
(* Ordered: commands, expectations and what they may show are modes and vectors. *)

\* A command of the cleanup declares what it can make the lamp show.
LEMMA BeginsOrdered ==
  ASSUME Ordered, Found, baseline \in States, NEW ch \in Vectors \cup {None}, NEW mode \in Modes,
         NEW name, NEW place, Begins(ch, mode, name, place)
  PROVE  Ordered'
<1>1. Consequences(mode) \in SUBSET Vectors
  BY DEF Consequences
<1>2. /\ call' = [ch |-> ch, mode |-> mode] /\ want' = want
      /\ may' = [modes |-> may.modes \cup {mode},
                 chs |-> may.chs \cup (IF ch = None THEN {} ELSE {ch}) \cup Consequences(mode)]
  BY DEF Begins
<1>3. may.modes \cup {mode} \in SUBSET Modes
  BY DEF Ordered
<1>4. may.chs \cup (IF ch = None THEN {} ELSE {ch}) \cup Consequences(mode) \in SUBSET Vectors
  BY <1>1 DEF Ordered
<1>5. may' \in [modes : SUBSET Modes, chs : SUBSET Vectors]
  BY <1>2, <1>3, <1>4
<1>6. QED
  BY <1>2, <1>5 DEF Ordered

\* A cleanup knows its baseline.
LEMMA RepairsBaseline ==
  ASSUME Words, Found, Placed, Started, pc \in Repair
  PROVE  baseline \in States /\ baseline.ch \in Vectors /\ baseline.mode \in Modes
BY DEF Words, Found, Placed, Started, Place

LEMMA Ordered_Quits ==
  ASSUME Words, Found, Ordered, Started, Placed, pc \in Repair, Quits
  PROVE  Ordered'
BY DEF Quits, Rest, Raise, Words, Found, Ordered, Started, Placed, Place, GuardMode, OriginalMode

LEMMA Ordered_Confirms ==
  ASSUME Words, Found, Ordered, Started, Placed, pc \in Repair, Confirms
  PROVE  Ordered'
BY DEF Confirms, Rest, Recovered, Words, Found, Ordered, Started, Placed, Place, GuardMode,
       OriginalMode

LEMMA Ordered_Waits ==
  ASSUME Words, Found, Ordered, Started, Placed, pc \in {"mode_resumed", "dark_resumed"}, Waits
  PROVE  Ordered'
BY DEF Waits, Rest, Words, Found, Ordered, Started, Placed, Place, GuardMode, OriginalMode

LEMMA Ordered_GuardedChannel ==
  ASSUME Words, Found, Ordered, Started, Placed, GuardedChannel
  PROVE  Ordered'
BY GuardedChannelDoes, Ordered_Quits, Ordered_Confirms, BeginsOrdered, RepairsBaseline

LEMMA Ordered_VectorRestored ==
  ASSUME Words, Found, Ordered, Started, Placed, VectorRestored
  PROVE  Ordered'
BY VectorRestoredDoes, Ordered_Quits, Ordered_Confirms, BeginsOrdered, RepairsBaseline

LEMMA Ordered_GuardedOff ==
  ASSUME Words, Found, Ordered, Started, Placed, GuardedOff
  PROVE  Ordered'
BY GuardedOffDoes, Ordered_Quits, Ordered_Confirms, BeginsOrdered, RepairsBaseline

LEMMA Ordered_ZeroGuard ==
  ASSUME Words, Found, Ordered, Started, Placed, ZeroGuard
  PROVE  Ordered'
BY ZeroGuardDoes, Ordered_Quits, Ordered_Confirms, BeginsOrdered, RepairsBaseline

LEMMA Ordered_GuardedDark ==
  ASSUME Words, Found, Ordered, Started, Placed, GuardedDark
  PROVE  Ordered'
BY GuardedDarkDoes, Ordered_Quits, Ordered_Confirms, BeginsOrdered, RepairsBaseline

LEMMA OrderedKept ==
  ASSUME Words, Found, Ordered, Started, Placed, [Next]_vars
  PROVE  Ordered'
<1> USE DEF Words, Found, Ordered, Started, Placed, Place, GuardMode, OriginalMode, Raise,
        Command, ReadFails, Send, Recovered, Refuse, Succeed, Confirmed, Consequences, TryChannel,
        TryOptical, TryOff, TryDark
<1>1. CASE Stop
  BY <1>1 DEF Stop, Running, Stopping
<1>2. CASE Read
  BY <1>2 DEF Read, Connect, ReadSystem, ReadChannels, ReadFault
<1>3. CASE Write
  BY <1>3 DEF Write, SendVector, SendMode, Drain, Barrier, BarrierFault
<1>4. CASE Prepare
  BY <1>4 DEF Prepare, Second, Intent, Admit
<1>5. CASE Try
  BY <1>5 DEF Try, Experiment, ChannelChanged, OpticalChanged, SwitchedOff, Darkened, ResumedDark,
              SampleGuard, Sampled, Hold
<1>6. CASE Recover
  BY <1>6 DEF Recover
<1>7. CASE GuardedChannel
  BY <1>7, Ordered_GuardedChannel
<1>8. CASE VectorRestored
  BY <1>8, Ordered_VectorRestored
<1>9. CASE ModeRestored
  BY <1>9, ModeRestoredDoes, Ordered_Quits, Ordered_Confirms DEF Begins, Rest
<1>10. CASE GuardedOff
  BY <1>10, Ordered_GuardedOff
<1>11. CASE ModeResumed
  BY <1>11, ModeResumedDoes, Ordered_Quits, Ordered_Confirms, Ordered_Waits DEF Begins, Rest
<1>12. CASE ZeroGuard
  BY <1>12, Ordered_ZeroGuard
<1>13. CASE Restored
  BY <1>13, RestoredDoes, Ordered_Quits, Ordered_Confirms DEF Begins, Rest
<1>14. CASE GuardedDark
  BY <1>14, Ordered_GuardedDark
<1>15. CASE DarkResumed
  BY <1>15, DarkResumedDoes, Ordered_Quits, Ordered_Waits DEF Begins, Rest
<1>16. CASE Finish
  BY <1>16 DEF Finish
<1>17. CASE Handle \/ Program \/ Rival \/ Signal
  BY <1>17 DEF Handle, Program, Rival, Signal, Obey, Obeyed
<1>18. CASE UNCHANGED vars
  BY <1>18 DEF vars
<1>19. QED
  BY <1>1, <1>2, <1>3, <1>4, <1>5, <1>6, <1>7, <1>8, <1>9, <1>10, <1>11, <1>12, <1>13, <1>14,
     <1>15, <1>16, <1>17, <1>18
     DEF Next, Worker, Read, Write, Prepare, Try, CleanUp

-----------------------------------------------------------------------------
(* Streams: only mode and channel frames are given to the network. *)

\* A frame is given to the network.
LEMMA Streams_Give ==
  ASSUME Streams, NEW frame \in Frames, Give(frame)
  PROVE  Streams'
BY DEF Streams

LEMMA Streams_Quits ==
  ASSUME Words, Ordered, Called, Streams, pc \in Repair, Quits
  PROVE  Streams'
BY DEF Quits, Rest, Raise, Words, Ordered, Called, Streams, Place

LEMMA Streams_Confirms ==
  ASSUME Words, Ordered, Called, Streams, pc \in Repair, Confirms
  PROVE  Streams'
BY DEF Confirms, Rest, Recovered, Words, Ordered, Called, Streams, Place

LEMMA Streams_Waits ==
  ASSUME Words, Ordered, Called, Streams, pc \in {"mode_resumed", "dark_resumed"}, Waits
  PROVE  Streams'
BY DEF Waits, Rest, Words, Ordered, Called, Streams, Place

LEMMA Streams_SendVector ==
  ASSUME Words, Ordered, Called, Streams, SendVector
  PROVE  Streams'
<1>1. call.ch \in Frames
  BY DEF SendVector, Ordered, Called
<1>2. Give(call.ch) \/ UNCHANGED <<wire, sent>>
  BY DEF SendVector, Send
<1>3. QED
  BY <1>1, <1>2, Streams_Give DEF Streams

LEMMA Streams_SendMode ==
  ASSUME Words, Ordered, Called, Streams, SendMode
  PROVE  Streams'
<1>1. call.mode \in Frames
  BY DEF Ordered
<1>2. Give(call.mode) \/ UNCHANGED <<wire, sent>>
  BY DEF SendMode, Send
<1>3. QED
  BY <1>1, <1>2, Streams_Give DEF Streams

LEMMA StreamsKept ==
  ASSUME Words, Ordered, Called, Streams, [Next]_vars
  PROVE  Streams'
<1> USE DEF Words, Ordered, Called, Streams, Place, Raise, Command, ReadFails, Send, Recovered,
        Refuse, Succeed, Confirmed, Consequences, TryChannel, TryOptical, TryOff, TryDark
<1>1. CASE Stop
  BY <1>1 DEF Stop, Running, Stopping
<1>2. CASE Connect
  BY <1>2 DEF Connect
<1>3. CASE ReadSystem
  BY <1>3 DEF ReadSystem
<1>4. CASE ReadChannels
  BY <1>4 DEF ReadChannels
<1>5. CASE ReadFault
  BY <1>5 DEF ReadFault
<1>6. CASE SendVector
  BY <1>6, Streams_SendVector
<1>7. CASE SendMode
  BY <1>7, Streams_SendMode
<1>8. CASE Drain
  BY <1>8 DEF Drain
<1>9. CASE Barrier
  BY <1>9 DEF Barrier
<1>10. CASE BarrierFault
  BY <1>10 DEF BarrierFault
<1>11. CASE Prepare
  BY <1>11 DEF Prepare, Second, Intent, Admit
<1>12. CASE Try
  BY <1>12 DEF Try, Experiment, ChannelChanged, OpticalChanged, SwitchedOff, Darkened,
               ResumedDark, SampleGuard, Sampled, Hold
<1>13. CASE Recover
  BY <1>13 DEF Recover
<1>14. CASE GuardedChannel
  BY <1>14, GuardedChannelDoes, Streams_Quits, Streams_Confirms DEF Begins, Rest
<1>15. CASE VectorRestored
  BY <1>15, VectorRestoredDoes, Streams_Quits, Streams_Confirms DEF Begins, Rest
<1>16. CASE ModeRestored
  BY <1>16, ModeRestoredDoes, Streams_Quits, Streams_Confirms DEF Begins, Rest
<1>17. CASE GuardedOff
  BY <1>17, GuardedOffDoes, Streams_Quits, Streams_Confirms DEF Begins, Rest
<1>18. CASE ModeResumed
  BY <1>18, ModeResumedDoes, Streams_Quits, Streams_Confirms, Streams_Waits DEF Begins, Rest
<1>19. CASE ZeroGuard
  BY <1>19, ZeroGuardDoes, Streams_Quits DEF Begins, Rest
<1>20. CASE Restored
  BY <1>20, RestoredDoes, Streams_Quits, Streams_Confirms DEF Begins, Rest
<1>21. CASE GuardedDark
  BY <1>21, GuardedDarkDoes, Streams_Quits, Streams_Confirms DEF Begins, Rest
<1>22. CASE DarkResumed
  BY <1>22, DarkResumedDoes, Streams_Quits, Streams_Waits DEF Begins, Rest
<1>23. CASE Finish
  BY <1>23 DEF Finish
<1>24. CASE Handle
  BY <1>24 DEF Handle, Obey, Obeyed
<1>25. CASE Program
  BY <1>25 DEF Program
<1>26. CASE Rival
  BY <1>26 DEF Rival
<1>27. CASE Signal
  BY <1>27 DEF Signal
<1>28. CASE UNCHANGED vars
  BY <1>28 DEF vars
<1>29. QED
  BY <1>1, <1>2, <1>3, <1>4, <1>5, <1>6, <1>7, <1>8, <1>9, <1>10, <1>11, <1>12, <1>13, <1>14,
     <1>15, <1>16, <1>17, <1>18, <1>19, <1>20, <1>21, <1>22, <1>23, <1>24, <1>25, <1>26, <1>27,
     <1>28
     DEF Next, Worker, Read, Write, Prepare, Try, CleanUp

-----------------------------------------------------------------------------
(* Placed: where a worker is says whether its excursion and its cleanup have begun. *)

LEMMA Placed_Quits ==
  ASSUME Typed, Placed, Staffed, Judged, pc \in Repair, Quits
  PROVE  Placed'
BY DEF Quits, Rest, Raise, Typed, Placed, Staffed, Judged, Marks, Words, Counts, Found, Ordered,
       Streams, Place, Recovered

LEMMA Placed_Confirms ==
  ASSUME Typed, Placed, Staffed, Judged, pc \in Repair, Confirms
  PROVE  Placed'
BY DEF Confirms, Rest, Recovered, Typed, Placed, Staffed, Judged, Marks, Words, Counts, Found,
       Ordered, Streams, Place

LEMMA Placed_Waits ==
  ASSUME Typed, Placed, Staffed, Judged, pc \in {"mode_resumed", "dark_resumed"}, Waits
  PROVE  Placed'
BY DEF Waits, Rest, Typed, Placed, Staffed, Judged, Marks, Words, Counts, Found, Ordered, Streams,
       Place, Recovered

LEMMA PlacedKept ==
  ASSUME Typed, Placed, Staffed, Judged, [Next]_vars
  PROVE  Placed'
<1> USE DEF Typed, Placed, Staffed, Judged, Marks, Words, Counts, Found, Ordered, Streams, Place,
        Recovered, Raise, Command, ReadFails, Send, Refuse, Succeed, Confirmed, Consequences,
        TryChannel, TryOptical, TryOff, TryDark
<1>1. CASE Stop
  BY <1>1 DEF Stop, Running, Stopping
<1>2. CASE Read
  BY <1>2 DEF Read, Connect, ReadSystem, ReadChannels, ReadFault
<1>3. CASE Write
  BY <1>3 DEF Write, SendVector, SendMode, Drain, Barrier, BarrierFault
<1>4. CASE Prepare
  BY <1>4 DEF Prepare, Second, Intent, Admit
<1>5. CASE Try
  BY <1>5 DEF Try, Experiment, ChannelChanged, OpticalChanged, SwitchedOff, Darkened, ResumedDark,
              SampleGuard, Sampled, Hold
<1>6. CASE Recover
  BY <1>6 DEF Recover
<1>7. CASE GuardedChannel
  BY <1>7, GuardedChannelDoes, Placed_Quits, Placed_Confirms DEF Begins, Rest
<1>8. CASE VectorRestored
  BY <1>8, VectorRestoredDoes, Placed_Quits, Placed_Confirms DEF Begins, Rest
<1>9. CASE ModeRestored
  BY <1>9, ModeRestoredDoes, Placed_Quits, Placed_Confirms DEF Begins, Rest
<1>10. CASE GuardedOff
  BY <1>10, GuardedOffDoes, Placed_Quits, Placed_Confirms DEF Begins, Rest
<1>11. CASE ModeResumed
  BY <1>11, ModeResumedDoes, Placed_Quits, Placed_Confirms, Placed_Waits DEF Begins, Rest
<1>12. CASE ZeroGuard
  BY <1>12, ZeroGuardDoes, Placed_Quits DEF Begins, Rest
<1>13. CASE Restored
  BY <1>13, RestoredDoes, Placed_Quits, Placed_Confirms DEF Begins, Rest
<1>14. CASE GuardedDark
  BY <1>14, GuardedDarkDoes, Placed_Quits, Placed_Confirms DEF Begins, Rest
<1>15. CASE DarkResumed
  BY <1>15, DarkResumedDoes, Placed_Quits, Placed_Waits DEF Begins, Rest
<1>16. CASE Finish
  BY <1>16 DEF Finish
<1>17. CASE Handle \/ Program \/ Rival \/ Signal
  BY <1>17 DEF Handle, Program, Rival, Signal, Obey, Obeyed
<1>18. CASE UNCHANGED vars
  BY <1>18 DEF vars
<1>19. QED
  BY <1>1, <1>2, <1>3, <1>4, <1>5, <1>6, <1>7, <1>8, <1>9, <1>10, <1>11, <1>12, <1>13, <1>14,
     <1>15, <1>16, <1>17, <1>18
     DEF Next, Worker, Read, Write, Prepare, Try, CleanUp

-----------------------------------------------------------------------------
(* Staffed: a place of the script belongs to the workers whose script it is. *)

\* What a command of the cleanup settles.
LEMMA Begun ==
  ASSUME NEW ch, NEW mode, NEW name, NEW place \in Returns, Begins(ch, mode, name, place)
  PROVE  /\ pc' = IF ch = None THEN "send_mode" ELSE "send_vector"
         /\ Place' = place /\ call' = [ch |-> ch, mode |-> mode] /\ UNCHANGED worker
         /\ UNCHANGED <<baseline, excursion, cleaning>>
BY DEF Begins, Rest, Place

\* Only the mode differs: the baseline is Automatic, for in Manual the guard asks for Manual.
LEMMA ModeAstray ==
  ASSUME Typed, Placed, Started, Judged, pc = "guarded", Lenient, ~unsafe, got # baseline,
         got.ch = baseline.ch
  PROVE  baseline.mode = Automatic
<1>1. baseline \in States /\ got \in States /\ baseline.mode \in {Automatic, Manual}
  BY DEF Placed, Place, Started, Judged, OriginalMode
<1>2. got.mode # baseline.mode
  BY <1>1
<1>3. baseline.mode = Manual => want = Manual
  BY DEF Judged, GuardMode, Place
<1>4. want \in {None, got.mode}
  BY DEF Judged, Place
<1>5. QED
  BY <1>1, <1>2, <1>3, <1>4

LEMMA Staffed_Quits ==
  ASSUME Typed, Placed, Staffed, Started, Judged, pc \in Repair, Quits
  PROVE  Staffed'
BY DEF Quits, Rest, Raise, Typed, Placed, Staffed, Started, Judged, Marks, Words, Counts, Found,
       Ordered, Streams, Place, GuardMode, OriginalMode

LEMMA Staffed_Confirms ==
  ASSUME Typed, Placed, Staffed, Started, Judged, pc \in Repair, Confirms
  PROVE  Staffed'
BY DEF Confirms, Rest, Recovered, Typed, Placed, Staffed, Started, Judged, Marks, Words, Counts,
       Found, Ordered, Streams, Place, GuardMode, OriginalMode

LEMMA Staffed_Waits ==
  ASSUME Typed, Placed, Staffed, Started, Judged, pc \in {"mode_resumed", "dark_resumed"},
         baseline.mode = Manual, Waits
  PROVE  Staffed'
BY DEF Waits, Rest, Typed, Placed, Staffed, Started, Judged, Marks, Words, Counts, Found, Ordered,
       Streams, Place, GuardMode, OriginalMode

LEMMA Staffed_GuardedChannel ==
  ASSUME Typed, Placed, Staffed, Started, Judged, GuardedChannel
  PROVE  Staffed'
<1>1. CASE Quits \/ Confirms
  BY <1>1, GuardedChannelDoes, Staffed_Quits, Staffed_Confirms
<1>2. CASE Begins(baseline.ch, Manual, phase, "vector_restored")
  BY <1>2, GuardedChannelDoes, Begun DEF Staffed
<1>3. CASE ~unsafe /\ got # baseline /\ got.ch = baseline.ch
               /\ Begins(None, baseline.mode, phase, "mode_restored")
  BY <1>3, GuardedChannelDoes, Begun, ModeAstray DEF Staffed
<1>4. QED
  BY <1>1, <1>2, <1>3, GuardedChannelDoes

LEMMA StaffedKept ==
  ASSUME Typed, Placed, Staffed, Started, Judged, [Next]_vars
  PROVE  Staffed'
<1> USE DEF Typed, Placed, Staffed, Started, Judged, Marks, Words, Counts, Found, Ordered,
        Streams, Place, GuardMode, OriginalMode, Raise, Command, ReadFails, Send, Recovered,
        Refuse, Succeed, Confirmed, Consequences, TryChannel, TryOptical, TryOff, TryDark
<1>1. CASE Stop
  BY <1>1 DEF Stop, Running, Stopping
<1>2. CASE Read
  BY <1>2 DEF Read, Connect, ReadSystem, ReadChannels, ReadFault
<1>3. CASE Write
  BY <1>3 DEF Write, SendVector, SendMode, Drain, Barrier, BarrierFault
<1>4. CASE Prepare
  BY <1>4 DEF Prepare, Second, Intent, Admit
<1>5. CASE Try
  BY <1>5 DEF Try, Experiment, ChannelChanged, OpticalChanged, SwitchedOff, Darkened, ResumedDark,
              SampleGuard, Sampled, Hold
<1>6. CASE Recover
  BY <1>6 DEF Recover
<1>7. CASE GuardedChannel
  BY <1>7, Staffed_GuardedChannel
<1>8. CASE VectorRestored
  BY <1>8, VectorRestoredDoes, Staffed_Quits, Staffed_Confirms DEF Begins, Rest
<1>9. CASE ModeRestored
  BY <1>9, ModeRestoredDoes, Staffed_Quits, Staffed_Confirms DEF Begins, Rest
<1>10. CASE GuardedOff
  BY <1>10, GuardedOffDoes, Staffed_Quits, Staffed_Confirms DEF Begins, Rest
<1>11. CASE ModeResumed
  BY <1>11, ModeResumedDoes, Staffed_Quits, Staffed_Confirms, Staffed_Waits DEF Begins, Rest
<1>12. CASE ZeroGuard
  BY <1>12, ZeroGuardDoes, Staffed_Quits DEF Begins, Rest
<1>13. CASE Restored
  BY <1>13, RestoredDoes, Staffed_Quits, Staffed_Confirms DEF Begins, Rest
<1>14. CASE GuardedDark
  BY <1>14, GuardedDarkDoes, Staffed_Quits, Staffed_Confirms DEF Begins, Rest
<1>15. CASE DarkResumed
  BY <1>15, DarkResumedDoes, Staffed_Quits, Staffed_Waits DEF Begins, Rest
<1>16. CASE Finish
  BY <1>16 DEF Finish
<1>17. CASE Handle \/ Program \/ Rival \/ Signal
  BY <1>17 DEF Handle, Program, Rival, Signal, Obey, Obeyed
<1>18. CASE UNCHANGED vars
  BY <1>18 DEF vars
<1>19. QED
  BY <1>1, <1>2, <1>3, <1>4, <1>5, <1>6, <1>7, <1>8, <1>9, <1>10, <1>11, <1>12, <1>13, <1>14,
     <1>15, <1>16, <1>17, <1>18
     DEF Next, Worker, Read, Write, Prepare, Try, CleanUp

-----------------------------------------------------------------------------
(* Started: nothing happens before the excursion, which starts from a baseline. *)

LEMMA Started_Quits ==
  ASSUME Typed, Placed, Staffed, Started, Judged, pc \in Repair, Quits
  PROVE  Started'
BY DEF Quits, Rest, Raise, Typed, Placed, Staffed, Started, Judged, Marks, Words, Counts, Found,
       Ordered, Streams, Place, OriginalMode, Suspicious, Judging

LEMMA Started_Confirms ==
  ASSUME Typed, Placed, Staffed, Started, Judged, pc \in Repair, Confirms
  PROVE  Started'
BY DEF Confirms, Rest, Recovered, Typed, Placed, Staffed, Started, Judged, Marks, Words, Counts,
       Found, Ordered, Streams, Place, OriginalMode, Suspicious, Judging

LEMMA Started_Waits ==
  ASSUME Typed, Placed, Staffed, Started, Judged, pc \in {"mode_resumed", "dark_resumed"}, Waits
  PROVE  Started'
BY DEF Waits, Rest, Typed, Placed, Staffed, Started, Judged, Marks, Words, Counts, Found, Ordered,
       Streams, Place, OriginalMode, Suspicious, Judging

LEMMA StartedKept ==
  ASSUME Typed, Placed, Staffed, Started, Judged, [Next]_vars
  PROVE  Started'
<1> USE DEF Typed, Placed, Staffed, Started, Judged, Marks, Words, Counts, Found, Ordered,
        Streams, Place, OriginalMode, Suspicious, Judging, Raise, Command, ReadFails, Send,
        Recovered, Refuse, Succeed, Confirmed, Consequences, TryChannel, TryOptical, TryOff,
        TryDark
<1>1. CASE Stop
  BY <1>1 DEF Stop, Running, Stopping
<1>2. CASE Read
  BY <1>2 DEF Read, Connect, ReadSystem, ReadChannels, ReadFault
<1>3. CASE Write
  BY <1>3 DEF Write, SendVector, SendMode, Drain, Barrier, BarrierFault
<1>4. CASE Prepare
  BY <1>4 DEF Prepare, Second, Intent, Admit
<1>5. CASE Try
  BY <1>5 DEF Try, Experiment, ChannelChanged, OpticalChanged, SwitchedOff, Darkened, ResumedDark,
              SampleGuard, Sampled, Hold
<1>6. CASE Recover
  BY <1>6 DEF Recover
<1>7. CASE GuardedChannel
  BY <1>7, GuardedChannelDoes, Started_Quits, Started_Confirms DEF Begins, Rest
<1>8. CASE VectorRestored
  BY <1>8, VectorRestoredDoes, Started_Quits, Started_Confirms DEF Begins, Rest
<1>9. CASE ModeRestored
  BY <1>9, ModeRestoredDoes, Started_Quits, Started_Confirms DEF Begins, Rest
<1>10. CASE GuardedOff
  BY <1>10, GuardedOffDoes, Started_Quits, Started_Confirms DEF Begins, Rest
<1>11. CASE ModeResumed
  BY <1>11, ModeResumedDoes, Started_Quits, Started_Confirms, Started_Waits DEF Begins, Rest
<1>12. CASE ZeroGuard
  BY <1>12, ZeroGuardDoes, Started_Quits DEF Begins, Rest
<1>13. CASE Restored
  BY <1>13, RestoredDoes, Started_Quits, Started_Confirms DEF Begins, Rest
<1>14. CASE GuardedDark
  BY <1>14, GuardedDarkDoes, Started_Quits, Started_Confirms DEF Begins, Rest
<1>15. CASE DarkResumed
  BY <1>15, DarkResumedDoes, Started_Quits, Started_Waits DEF Begins, Rest
<1>16. CASE Finish
  BY <1>16 DEF Finish
<1>17. CASE Handle \/ Program \/ Rival \/ Signal
  BY <1>17 DEF Handle, Program, Rival, Signal, Obey, Obeyed
<1>18. CASE UNCHANGED vars
  BY <1>18 DEF vars
<1>19. QED
  BY <1>1, <1>2, <1>3, <1>4, <1>5, <1>6, <1>7, <1>8, <1>9, <1>10, <1>11, <1>12, <1>13, <1>14,
     <1>15, <1>16, <1>17, <1>18
     DEF Next, Worker, Read, Write, Prepare, Try, CleanUp

-----------------------------------------------------------------------------
(* Called: a place that waits for a command waits for the one its script gave. *)

\* A command of the cleanup that writes the baseline vector.
LEMMA BeginsCalled ==
  ASSUME NEW ch, NEW mode, NEW name, NEW place \in {"vector_restored", "restored"},
         ch = baseline.ch, mode = Manual, Begins(ch, mode, name, place)
  PROVE  Called'
<1>1. /\ Place' = place /\ call' = [ch |-> baseline'.ch, mode |-> Manual]
      /\ pc' = IF ch = None THEN "send_mode" ELSE "send_vector"
  BY Begun
<1>2. call'.ch = ch
  BY Begun
<1>3. QED
  BY <1>1, <1>2 DEF Called

\* A command of the cleanup that writes a mode only.
LEMMA BeginsMode ==
  ASSUME NEW ch, NEW mode, NEW name, NEW place \in {"mode_restored", "mode_resumed",
         "dark_resumed"},
         ch = None, mode = IF place = "dark_resumed" THEN Manual ELSE baseline.mode,
         Begins(ch, mode, name, place)
  PROVE  Called'
<1>1. /\ Place' = place /\ call' = [ch |-> None, mode |-> mode] /\ UNCHANGED baseline
      /\ pc' = "send_mode"
  BY Begun
<1>2. QED
  BY <1>1 DEF Called

LEMMA Called_Quits ==
  ASSUME Typed, Placed, Staffed, Started, Called, Judged, pc \in Repair, Quits
  PROVE  Called'
BY DEF Quits, Rest, Raise, Typed, Placed, Staffed, Started, Called, Judged, Marks, Words, Counts,
       Found, Ordered, Streams, Place, OriginalMode

LEMMA Called_Confirms ==
  ASSUME Typed, Placed, Staffed, Started, Called, Judged, pc \in Repair, Confirms
  PROVE  Called'
BY DEF Confirms, Rest, Recovered, Typed, Placed, Staffed, Started, Called, Judged, Marks, Words,
       Counts, Found, Ordered, Streams, Place, OriginalMode

LEMMA Called_Waits ==
  ASSUME Typed, Placed, Staffed, Started, Called, Judged, pc \in {"mode_resumed", "dark_resumed"},
         baseline.mode = Manual, Waits
  PROVE  Called'
BY DEF Waits, Rest, Typed, Placed, Staffed, Started, Called, Judged, Marks, Words, Counts, Found,
       Ordered, Streams, Place, OriginalMode

LEMMA Called_GuardedChannel ==
  ASSUME Typed, Placed, Staffed, Started, Called, Judged, GuardedChannel
  PROVE  Called'
BY GuardedChannelDoes, Called_Quits, Called_Confirms, BeginsCalled, BeginsMode

LEMMA Called_ZeroGuard ==
  ASSUME Typed, Placed, Staffed, Started, Called, Judged, ZeroGuard
  PROVE  Called'
BY ZeroGuardDoes, Called_Quits, BeginsCalled

LEMMA Called_GuardedDark ==
  ASSUME Typed, Placed, Staffed, Started, Called, Judged, GuardedDark
  PROVE  Called'
BY GuardedDarkDoes, Called_Quits, Called_Confirms, BeginsCalled, BeginsMode

LEMMA CalledKept ==
  ASSUME Typed, Placed, Staffed, Started, Called, Judged, [Next]_vars
  PROVE  Called'
<1> USE DEF Typed, Placed, Staffed, Started, Called, Judged, Marks, Words, Counts, Found, Ordered,
        Streams, Place, OriginalMode, Raise, Command, ReadFails, Send, Recovered, Refuse, Succeed,
        Confirmed, Consequences, TryChannel, TryOptical, TryOff, TryDark
<1>1. CASE Stop
  BY <1>1 DEF Stop, Running, Stopping
<1>2. CASE Read
  BY <1>2 DEF Read, Connect, ReadSystem, ReadChannels, ReadFault
<1>3. CASE Write
  BY <1>3 DEF Write, SendVector, SendMode, Drain, Barrier, BarrierFault
<1>4. CASE Prepare
  BY <1>4 DEF Prepare, Second, Intent, Admit
<1>5. CASE Try
  BY <1>5 DEF Try, Experiment, ChannelChanged, OpticalChanged, SwitchedOff, Darkened, ResumedDark,
              SampleGuard, Sampled, Hold
<1>6. CASE Recover
  BY <1>6 DEF Recover
<1>7. CASE GuardedChannel
  BY <1>7, Called_GuardedChannel
<1>8. CASE VectorRestored
  BY <1>8, VectorRestoredDoes, Called_Quits, Called_Confirms DEF Begins, Rest
<1>9. CASE ModeRestored
  BY <1>9, ModeRestoredDoes, Called_Quits, Called_Confirms DEF Begins, Rest
<1>10. CASE GuardedOff
  BY <1>10, GuardedOffDoes, Called_Quits, Called_Confirms DEF Begins, Rest
<1>11. CASE ModeResumed
  BY <1>11, ModeResumedDoes, Called_Quits, Called_Confirms, Called_Waits DEF Begins, Rest
<1>12. CASE ZeroGuard
  BY <1>12, Called_ZeroGuard
<1>13. CASE Restored
  BY <1>13, RestoredDoes, Called_Quits, Called_Confirms DEF Begins, Rest
<1>14. CASE GuardedDark
  BY <1>14, Called_GuardedDark
<1>15. CASE DarkResumed
  BY <1>15, DarkResumedDoes, Called_Quits, Called_Waits DEF Begins, Rest
<1>16. CASE Finish
  BY <1>16 DEF Finish
<1>17. CASE Handle \/ Program \/ Rival \/ Signal
  BY <1>17 DEF Handle, Program, Rival, Signal, Obey, Obeyed
<1>18. CASE UNCHANGED vars
  BY <1>18 DEF vars
<1>19. QED
  BY <1>1, <1>2, <1>3, <1>4, <1>5, <1>6, <1>7, <1>8, <1>9, <1>10, <1>11, <1>12, <1>13, <1>14,
     <1>15, <1>16, <1>17, <1>18
     DEF Next, Worker, Read, Write, Prepare, Try, CleanUp

-----------------------------------------------------------------------------
(* Phased: the phase says which commands may have had an effect. *)

\* A cleanup knows the mode of its baseline.
LEMMA RepairStays ==
  ASSUME Typed, Placed, Started, pc \in Repair
  PROVE  baseline.mode \in Modes
BY DEF Typed, Found, Placed, Place, Started

\* A command of the cleanup keeps the phase or names a later one.
LEMMA BeginsPhased ==
  ASSUME Typed, Placed, Phased, pc \in Repair, NEW ch, NEW mode \in Modes, NEW name,
         NEW place \in {"vector_restored", "mode_restored", "mode_resumed", "restored",
         "dark_resumed"},
         \/ name = phase
         \/ /\ phase # "original"
            /\ name \in {"off", "zero_off", "cleanup_manual", "restore_original"},
         Lenient => name = phase, worker \in OffWorkers => name \in {"original", "off",
         "zero_off"},
         place \in {"mode_resumed", "restored", "dark_resumed"} => name # "original",
         Begins(ch, mode, name, place)
  PROVE  Phased'
<1>1. /\ Place' = place /\ UNCHANGED <<worker, baseline, excursion>>
      /\ call'.mode = mode /\ phase' = name
  BY Begun DEF Begins
<1>2. /\ mode \in may'.modes /\ may.modes \subseteq may'.modes /\ may.chs \subseteq may'.chs
  BY DEF Begins, Typed, Ordered
<1>3. QED
  BY <1>1, <1>2 DEF Phased

LEMMA Phased_Quits ==
  ASSUME Typed, Placed, Staffed, Started, Called, Phased, Judged, pc \in Repair, Quits
  PROVE  Phased'
BY DEF Quits, Rest, Raise, Typed, Placed, Staffed, Started, Called, Phased, Judged, Marks, Words,
       Counts, Found, Ordered, Streams, Place, OriginalMode, OwnedVectors

LEMMA Phased_Confirms ==
  ASSUME Typed, Placed, Staffed, Started, Called, Phased, Judged, pc \in Repair, Confirms
  PROVE  Phased'
BY DEF Confirms, Rest, Recovered, Typed, Placed, Staffed, Started, Called, Phased, Judged, Marks,
       Words, Counts, Found, Ordered, Streams, Place, OriginalMode, OwnedVectors

LEMMA Phased_Waits ==
  ASSUME Typed, Placed, Staffed, Started, Called, Phased, Judged,
         pc \in {"mode_resumed", "dark_resumed"}, Waits
  PROVE  Phased'
BY DEF Waits, Rest, Typed, Placed, Staffed, Started, Called, Phased, Judged, Marks, Words, Counts,
       Found, Ordered, Streams, Place, OriginalMode, OwnedVectors

LEMMA Phased_GuardedChannel ==
  ASSUME Typed, Placed, Staffed, Started, Called, Phased, Judged, GuardedChannel
  PROVE  Phased'
BY GuardedChannelDoes, Phased_Quits, Phased_Confirms, BeginsPhased, RepairStays

LEMMA Phased_VectorRestored ==
  ASSUME Typed, Placed, Staffed, Started, Called, Phased, Judged, VectorRestored
  PROVE  Phased'
<1>1. Lenient
  BY VectorRestoredDoes DEF Staffed, Place
<1>2. QED
  BY <1>1, VectorRestoredDoes, Phased_Quits, Phased_Confirms, BeginsPhased, RepairStays

LEMMA Phased_GuardedOff ==
  ASSUME Typed, Placed, Staffed, Started, Called, Phased, Judged, GuardedOff
  PROVE  Phased'
BY GuardedOffDoes, Phased_Quits, Phased_Confirms, BeginsPhased, RepairStays

LEMMA Phased_ZeroGuard ==
  ASSUME Typed, Placed, Staffed, Started, Called, Phased, Judged, ZeroGuard
  PROVE  Phased'
<1>1. worker \in OffWorkers => phase \in {"original", "off", "zero_off"}
  BY DEF Phased
<1>3. phase # "original"
  BY ZeroGuardDoes DEF Phased, Place
<1>2. QED
  BY <1>1, <1>3, ZeroGuardDoes, Phased_Quits, BeginsPhased, RepairStays

LEMMA Phased_GuardedDark ==
  ASSUME Typed, Placed, Staffed, Started, Called, Phased, Judged, GuardedDark
  PROVE  Phased'
BY GuardedDarkDoes, Phased_Quits, Phased_Confirms, BeginsPhased, RepairStays

LEMMA PhasedKept ==
  ASSUME Typed, Placed, Staffed, Started, Called, Phased, Judged, [Next]_vars
  PROVE  Phased'
<1> USE DEF Typed, Placed, Staffed, Started, Called, Phased, Judged, Marks, Words, Counts, Found,
        Ordered, Streams, Place, OriginalMode, OwnedVectors, Raise, Command, ReadFails, Send,
        Recovered, Refuse, Succeed, Confirmed, Consequences, TryChannel, TryOptical, TryOff,
        TryDark
<1>1. CASE Stop
  BY <1>1 DEF Stop, Running, Stopping
<1>2. CASE Read
  BY <1>2 DEF Read, Connect, ReadSystem, ReadChannels, ReadFault
<1>3. CASE Write
  BY <1>3 DEF Write, SendVector, SendMode, Drain, Barrier, BarrierFault
<1>4. CASE Prepare
  BY <1>4 DEF Prepare, Second, Intent, Admit
<1>5. CASE Try
  BY <1>5 DEF Try, Experiment, ChannelChanged, OpticalChanged, SwitchedOff, Darkened, ResumedDark,
              SampleGuard, Sampled, Hold
<1>6. CASE Recover
  BY <1>6 DEF Recover
<1>7. CASE GuardedChannel
  BY <1>7, Phased_GuardedChannel
<1>8. CASE VectorRestored
  BY <1>8, Phased_VectorRestored
<1>9. CASE ModeRestored
  BY <1>9, ModeRestoredDoes, Phased_Quits, Phased_Confirms DEF Begins, Rest
<1>10. CASE GuardedOff
  BY <1>10, Phased_GuardedOff
<1>11. CASE ModeResumed
  BY <1>11, ModeResumedDoes, Phased_Quits, Phased_Confirms, Phased_Waits DEF Begins, Rest
<1>12. CASE ZeroGuard
  BY <1>12, Phased_ZeroGuard
<1>13. CASE Restored
  BY <1>13, RestoredDoes, Phased_Quits, Phased_Confirms DEF Begins, Rest
<1>14. CASE GuardedDark
  BY <1>14, Phased_GuardedDark
<1>15. CASE DarkResumed
  BY <1>15, DarkResumedDoes, Phased_Quits, Phased_Waits DEF Begins, Rest
<1>16. CASE Finish
  BY <1>16 DEF Finish
<1>17. CASE Handle \/ Program \/ Rival \/ Signal
  BY <1>17 DEF Handle, Program, Rival, Signal, Obey, Obeyed
<1>18. CASE UNCHANGED vars
  BY <1>18 DEF vars
<1>19. QED
  BY <1>1, <1>2, <1>3, <1>4, <1>5, <1>6, <1>7, <1>8, <1>9, <1>10, <1>11, <1>12, <1>13, <1>14,
     <1>15, <1>16, <1>17, <1>18
     DEF Next, Worker, Read, Write, Prepare, Try, CleanUp

-----------------------------------------------------------------------------
(* Judged: a result is a state its worker reads, in the mode that was expected. *)

LEMMA Judged_Quits ==
  ASSUME Typed, Placed, Staffed, Started, Called, Phased, Judged, pc \in Repair, Quits
  PROVE  Judged'
BY DEF Quits, Rest, Raise, Typed, Placed, Staffed, Started, Called, Phased, Judged, Marks, Words,
       Counts, Found, Ordered, Streams, Place, OriginalMode, GuardMode, ReadableModes

LEMMA Judged_Confirms ==
  ASSUME Typed, Placed, Staffed, Started, Called, Phased, Judged, pc \in Repair, Confirms
  PROVE  Judged'
BY DEF Confirms, Rest, Recovered, Typed, Placed, Staffed, Started, Called, Phased, Judged, Marks,
       Words, Counts, Found, Ordered, Streams, Place, OriginalMode, GuardMode, ReadableModes

LEMMA Judged_Waits ==
  ASSUME Typed, Placed, Staffed, Started, Called, Phased, Judged,
         pc \in {"mode_resumed", "dark_resumed"}, Waits
  PROVE  Judged'
BY DEF Waits, Rest, Typed, Placed, Staffed, Started, Called, Phased, Judged, Marks, Words, Counts,
       Found, Ordered, Streams, Place, OriginalMode, GuardMode, ReadableModes

LEMMA JudgedKept ==
  ASSUME Typed, Placed, Staffed, Started, Called, Phased, Judged, [Next]_vars
  PROVE  Judged'
<1> USE DEF Typed, Placed, Staffed, Started, Called, Phased, Judged, Marks, Words, Counts, Found,
        Ordered, Streams, Place, OriginalMode, GuardMode, ReadableModes, Raise, Command,
        ReadFails, Send, Recovered, Refuse, Succeed, Confirmed, Consequences, TryChannel,
        TryOptical, TryOff, TryDark
<1>1. CASE Stop
  BY <1>1 DEF Stop, Running, Stopping
<1>2. CASE Read
  BY <1>2 DEF Read, Connect, ReadSystem, ReadChannels, ReadFault
<1>3. CASE Write
  BY <1>3 DEF Write, SendVector, SendMode, Drain, Barrier, BarrierFault
<1>4. CASE Prepare
  BY <1>4 DEF Prepare, Second, Intent, Admit
<1>5. CASE Try
  BY <1>5 DEF Try, Experiment, ChannelChanged, OpticalChanged, SwitchedOff, Darkened, ResumedDark,
              SampleGuard, Sampled, Hold
<1>6. CASE Recover
  BY <1>6 DEF Recover
<1>7. CASE GuardedChannel
  BY <1>7, GuardedChannelDoes, Judged_Quits, Judged_Confirms DEF Begins, Rest
<1>8. CASE VectorRestored
  BY <1>8, VectorRestoredDoes, Judged_Quits, Judged_Confirms DEF Begins, Rest
<1>9. CASE ModeRestored
  BY <1>9, ModeRestoredDoes, Judged_Quits, Judged_Confirms DEF Begins, Rest
<1>10. CASE GuardedOff
  BY <1>10, GuardedOffDoes, Judged_Quits, Judged_Confirms DEF Begins, Rest
<1>11. CASE ModeResumed
  BY <1>11, ModeResumedDoes, Judged_Quits, Judged_Confirms, Judged_Waits DEF Begins, Rest
<1>12. CASE ZeroGuard
  BY <1>12, ZeroGuardDoes, Judged_Quits DEF Begins, Rest
<1>13. CASE Restored
  BY <1>13, RestoredDoes, Judged_Quits, Judged_Confirms DEF Begins, Rest
<1>14. CASE GuardedDark
  BY <1>14, GuardedDarkDoes, Judged_Quits, Judged_Confirms DEF Begins, Rest
<1>15. CASE DarkResumed
  BY <1>15, DarkResumedDoes, Judged_Quits, Judged_Waits DEF Begins, Rest
<1>16. CASE Finish
  BY <1>16 DEF Finish
<1>17. CASE Handle \/ Program \/ Rival \/ Signal
  BY <1>17 DEF Handle, Program, Rival, Signal, Obey, Obeyed
<1>18. CASE UNCHANGED vars
  BY <1>18 DEF vars
<1>19. QED
  BY <1>1, <1>2, <1>3, <1>4, <1>5, <1>6, <1>7, <1>8, <1>9, <1>10, <1>11, <1>12, <1>13, <1>14,
     <1>15, <1>16, <1>17, <1>18
     DEF Next, Worker, Read, Write, Prepare, Try, CleanUp

-----------------------------------------------------------------------------
(* Mirrored: what was read last is what the lamp shows, unless others have moved it. *)

LEMMA Mirrored_Quits ==
  ASSUME Typed, Placed, Judged, Mirrored, pc \in Repair, Quits
  PROVE  Mirrored'
BY DEF Quits, Rest, Raise, Typed, Placed, Judged, Mirrored, Marks, Words, Counts, Found, Ordered,
       Streams, Place, Obeyed

LEMMA Mirrored_Confirms ==
  ASSUME Typed, Placed, Judged, Mirrored, pc \in Repair, Confirms
  PROVE  Mirrored'
BY DEF Confirms, Rest, Recovered, Typed, Placed, Judged, Mirrored, Marks, Words, Counts, Found,
       Ordered, Streams, Place, Obeyed

LEMMA Mirrored_Waits ==
  ASSUME Typed, Placed, Judged, Mirrored, pc \in {"mode_resumed", "dark_resumed"}, Waits
  PROVE  Mirrored'
BY DEF Waits, Rest, Typed, Placed, Judged, Mirrored, Marks, Words, Counts, Found, Ordered,
   Streams,
       Place, Obeyed

LEMMA MirroredKept ==
  ASSUME Typed, Placed, Judged, Mirrored, [Next]_vars
  PROVE  Mirrored'
<1> USE DEF Typed, Placed, Judged, Mirrored, Marks, Words, Counts, Found, Ordered, Streams, Place,
        Obeyed, Raise, Command, ReadFails, Send, Recovered, Refuse, Succeed, Confirmed,
        Consequences, TryChannel, TryOptical, TryOff, TryDark
<1>1. CASE Stop
  BY <1>1 DEF Stop, Running, Stopping
<1>2. CASE Connect
  BY <1>2 DEF Connect
<1>3. CASE ReadSystem
  BY <1>3 DEF ReadSystem
<1>4. CASE ReadChannels
  BY <1>4 DEF ReadChannels
<1>5. CASE ReadFault
  BY <1>5 DEF ReadFault
<1>6. CASE Write
  BY <1>6 DEF Write, SendVector, SendMode, Drain, Barrier, BarrierFault
<1>7. CASE Prepare
  BY <1>7 DEF Prepare, Second, Intent, Admit
<1>8. CASE Experiment
  BY <1>8 DEF Experiment
<1>9. CASE ChannelChanged
  BY <1>9 DEF ChannelChanged
<1>10. CASE OpticalChanged
  BY <1>10 DEF OpticalChanged
<1>11. CASE SwitchedOff
  BY <1>11 DEF SwitchedOff
<1>12. CASE Darkened
  BY <1>12 DEF Darkened
<1>13. CASE ResumedDark
  BY <1>13 DEF ResumedDark
<1>14. CASE SampleGuard
  BY <1>14 DEF SampleGuard
<1>15. CASE Sampled
  BY <1>15 DEF Sampled
<1>16. CASE Hold
  BY <1>16 DEF Hold
<1>17. CASE Recover
  BY <1>17 DEF Recover
<1>18. CASE GuardedChannel
  BY <1>18, GuardedChannelDoes, Mirrored_Quits, Mirrored_Confirms DEF Begins, Rest
<1>19. CASE VectorRestored
  BY <1>19, VectorRestoredDoes, Mirrored_Quits, Mirrored_Confirms DEF Begins, Rest
<1>20. CASE ModeRestored
  BY <1>20, ModeRestoredDoes, Mirrored_Quits, Mirrored_Confirms DEF Begins, Rest
<1>21. CASE GuardedOff
  BY <1>21, GuardedOffDoes, Mirrored_Quits, Mirrored_Confirms DEF Begins, Rest
<1>22. CASE ModeResumed
  BY <1>22, ModeResumedDoes, Mirrored_Quits, Mirrored_Confirms, Mirrored_Waits DEF Begins, Rest
<1>23. CASE ZeroGuard
  BY <1>23, ZeroGuardDoes, Mirrored_Quits DEF Begins, Rest
<1>24. CASE Restored
  BY <1>24, RestoredDoes, Mirrored_Quits, Mirrored_Confirms DEF Begins, Rest
<1>25. CASE GuardedDark
  BY <1>25, GuardedDarkDoes, Mirrored_Quits, Mirrored_Confirms DEF Begins, Rest
<1>26. CASE DarkResumed
  BY <1>26, DarkResumedDoes, Mirrored_Quits, Mirrored_Waits DEF Begins, Rest
<1>27. CASE Finish
  BY <1>27 DEF Finish
<1>28. CASE Handle \/ Program \/ Rival \/ Signal
  BY <1>28 DEF Handle, Program, Rival, Signal
<1>29. CASE UNCHANGED vars
  BY <1>29 DEF vars
<1>30. QED
  BY <1>1, <1>2, <1>3, <1>4, <1>5, <1>6, <1>7, <1>8, <1>9, <1>10, <1>11, <1>12, <1>13, <1>14,
     <1>15, <1>16, <1>17, <1>18, <1>19, <1>20, <1>21, <1>22, <1>23, <1>24, <1>25, <1>26, <1>27,
     <1>28, <1>29
     DEF Next, Worker, Read, Write, Prepare, Try, CleanUp

-----------------------------------------------------------------------------
(* Concluded: a recovery that is reported is there. *)

LEMMA Concluded_Quits ==
  ASSUME Typed, Placed, Staffed, Started, Called, Judged, Mirrored, Concluded, pc \in Repair,
         Quits
  PROVE  Concluded'
BY DEF Quits, Rest, Raise, Typed, Placed, Staffed, Started, Called, Judged, Mirrored, Concluded,
       Marks, Words, Counts, Found, Ordered, Streams, Place, OriginalMode, AsBefore, Obeyed

\* A recovery is confirmed by a read of the baseline.
LEMMA Concluded_Confirms ==
  ASSUME Typed, Placed, Started, Judged, Mirrored, Concluded, pc \in Repair,
         got.mode = baseline.mode,
         baseline.mode = Manual => got.ch = baseline.ch, Confirms
  PROVE Concluded'
BY DEF Placed, Place, Mirrored, Concluded, Confirms, Rest, Recovered, AsBefore

LEMMA Concluded_Waits ==
  ASSUME Typed, Placed, Staffed, Started, Called, Judged, Mirrored, Concluded,
         pc \in {"mode_resumed", "dark_resumed"}, Waits
  PROVE  Concluded'
BY DEF Waits, Rest, Typed, Placed, Staffed, Started, Called, Judged, Mirrored, Concluded, Marks,
       Words, Counts, Found, Ordered, Streams, Place, OriginalMode, AsBefore, Obeyed

\* A command reports nothing.
LEMMA BeginsConcluded ==
  ASSUME Typed, Concluded, pc \in Repair, NEW ch, NEW mode, NEW name, NEW place, Begins(ch,
         mode, name, place)
  PROVE  Concluded'
BY DEF Concluded, Begins, Rest, AsBefore

LEMMA Concluded_GuardedChannel ==
  ASSUME Typed, Placed, Staffed, Started, Called, Judged, Mirrored, Concluded, GuardedChannel
  PROVE  Concluded'
BY GuardedChannelDoes, Concluded_Quits, Concluded_Confirms, RepairStays, BeginsConcluded

LEMMA Concluded_VectorRestored ==
  ASSUME Typed, Placed, Staffed, Started, Called, Judged, Mirrored, Concluded, VectorRestored
  PROVE  Concluded'
BY VectorRestoredDoes, Concluded_Quits, Concluded_Confirms, RepairStays, BeginsConcluded

LEMMA Concluded_ModeRestored ==
  ASSUME Typed, Placed, Staffed, Started, Called, Judged, Mirrored, Concluded, ModeRestored
  PROVE  Concluded'
<1>1. baseline.mode # Manual
  BY ModeRestoredDoes DEF Staffed, Place
<1>2. QED
  BY <1>1, ModeRestoredDoes, Concluded_Quits, Concluded_Confirms

LEMMA Concluded_GuardedOff ==
  ASSUME Typed, Placed, Staffed, Started, Called, Judged, Mirrored, Concluded, GuardedOff
  PROVE  Concluded'
BY GuardedOffDoes, Concluded_Quits, Concluded_Confirms, RepairStays, BeginsConcluded

LEMMA Concluded_ModeResumed ==
  ASSUME Typed, Placed, Staffed, Started, Called, Judged, Mirrored, Concluded, ModeResumed
  PROVE  Concluded'
<1>1. baseline.mode = Automatic => baseline.mode # Manual
  OBVIOUS
<1>2. QED
  BY <1>1, Concluded_Waits, ModeResumedDoes, Concluded_Quits, Concluded_Confirms

LEMMA Concluded_Restored ==
  ASSUME Typed, Placed, Staffed, Started, Called, Judged, Mirrored, Concluded, Restored
  PROVE  Concluded'
<1>1. baseline.mode = Manual
  BY RestoredDoes DEF Started, Place, Placed, Staffed, OriginalMode
<1>2. QED
  BY <1>1, RestoredDoes, Concluded_Quits, Concluded_Confirms

LEMMA Concluded_GuardedDark ==
  ASSUME Typed, Placed, Staffed, Started, Called, Judged, Mirrored, Concluded, GuardedDark
  PROVE  Concluded'
<1>1. baseline.mode = Manual
  BY GuardedDarkDoes DEF Started, Place, Placed, Staffed, OriginalMode
<1>2. QED
  BY <1>1, GuardedDarkDoes, Concluded_Quits, Concluded_Confirms, RepairStays, BeginsConcluded

LEMMA ConcludedKept ==
  ASSUME Typed, Placed, Staffed, Started, Called, Judged, Mirrored, Concluded, [Next]_vars
  PROVE  Concluded'
<1> USE DEF Typed, Placed, Staffed, Started, Called, Judged, Mirrored, Concluded, Marks, Words,
        Counts, Found, Ordered, Streams, Place, OriginalMode, AsBefore, Obeyed, Raise, Command,
        ReadFails, Send, Recovered, Refuse, Succeed, Confirmed, Consequences, TryChannel,
        TryOptical, TryOff, TryDark
<1>1. CASE Stop
  BY <1>1 DEF Stop, Running, Stopping
<1>2. CASE Read
  BY <1>2 DEF Read, Connect, ReadSystem, ReadChannels, ReadFault
<1>3. CASE Write
  BY <1>3 DEF Write, SendVector, SendMode, Drain, Barrier, BarrierFault
<1>4. CASE Prepare
  BY <1>4 DEF Prepare, Second, Intent, Admit
<1>5. CASE Try
  BY <1>5 DEF Try, Experiment, ChannelChanged, OpticalChanged, SwitchedOff, Darkened, ResumedDark,
              SampleGuard, Sampled, Hold
<1>6. CASE Recover
  BY <1>6 DEF Recover
<1>7. CASE GuardedChannel
  BY <1>7, Concluded_GuardedChannel
<1>8. CASE VectorRestored
  BY <1>8, Concluded_VectorRestored
<1>9. CASE ModeRestored
  BY <1>9, Concluded_ModeRestored
<1>10. CASE GuardedOff
  BY <1>10, Concluded_GuardedOff
<1>11. CASE ModeResumed
  BY <1>11, Concluded_ModeResumed
<1>12. CASE ZeroGuard
  BY <1>12, ZeroGuardDoes, Concluded_Quits DEF Begins, Rest
<1>13. CASE Restored
  BY <1>13, Concluded_Restored
<1>14. CASE GuardedDark
  BY <1>14, Concluded_GuardedDark
<1>15. CASE DarkResumed
  BY <1>15, DarkResumedDoes, Concluded_Quits, Concluded_Waits DEF Begins, Rest
<1>16. CASE Finish
  BY <1>16 DEF Finish
<1>17. CASE Handle \/ Program \/ Rival \/ Signal
  BY <1>17 DEF Handle, Program, Rival, Signal
<1>18. CASE UNCHANGED vars
  BY <1>18 DEF vars
<1>19. QED
  BY <1>1, <1>2, <1>3, <1>4, <1>5, <1>6, <1>7, <1>8, <1>9, <1>10, <1>11, <1>12, <1>13, <1>14,
     <1>15, <1>16, <1>17, <1>18
     DEF Next, Worker, Read, Write, Prepare, Try, CleanUp

-----------------------------------------------------------------------------
(* Remembered: a contradiction is judged, or remembered, or the end. *)

\* No command is under way after a contradiction that was not hidden.
LEMMA SilentWrites ==
  ASSUME Typed, Placed, Remembered, pc \in Writes
  PROVE  ~alarm \/ hidden
BY DEF Typed, Words, Placed, Place, Remembered

\* A result that the declared frames explain has no contradiction behind it.
LEMMA CleanReads ==
  ASSUME Typed, Placed, Staffed, Started, Phased, Remembered, pc \in Returns,
         got.mode \in may.modes, got.ch \in may.chs,
         Place = "guarded" => ~unsafe /\ (Lenient \/ phase # "original")
  PROVE  ~alarm \/ hidden
BY DEF Typed, Words, Placed, Place, Remembered, Suspicious, Explained

\* What the declared frames can show in a cleanup.
LEMMA MayShow ==
  ASSUME Typed, Placed, Staffed, Started, Called, Phased, pc \in Repair
  PROVE  /\ baseline.mode \in may.modes /\ baseline.ch \in may.chs
         /\ Lenient => Manual \in may.modes /\ "changed" \in may.chs
         /\ pc \in {"mode_resumed", "zero_guard", "restored", "dark_resumed"} =>
              "zero" \in may.chs
BY DEF Placed, Place, Phased

\* A failure that judges nothing.
LEMMA StaysClean ==
  ASSUME Typed, ~alarm \/ hidden, UNCHANGED alarm,
         UNCHANGED hidden \/ Raise("transport") \/ Raise("deadline")
  PROVE  Remembered'
BY DEF Raise, Remembered, Typed, Marks

\* A broken reply to a command ends the run or is remembered.
LEMMA UnsafeIsRemembered ==
  ASSUME Typed, Placed, Started, Running, Raise("unsafe"), UNCHANGED <<worker, excursion>>,
         ~alarm \/ hidden, alarm' = (alarm \/ Judging)
  PROVE  Remembered'
BY DEF Typed, Marks, Words, Placed, Place, Started, Raise, Remembered, Latches, Judging

\* A mode that the declared frames cannot explain contradicts the read although
\* the rest of it is lost, or is remembered already, or nothing was sent.
LEMMA SuspicionContradicts ==
  ASSUME Typed, Placed, Staffed, Started, Called, Phased, Judged, pc = "channels",
         Suspicious(seen, None)
  PROVE  \/ Contradicts
         \/ Place = "guarded" /\ unsafe
         \/ ~Lenient /\ phase = "original" /\ (~cleaning \/ Place = "guarded")
<1>1. /\ excursion /\ seen \in Modes /\ seen \notin may.modes
      /\ worker = "channel" => cleaning
  BY DEF Suspicious, Explained, Judging, Judged
<1>2. /\ baseline.mode \in may.modes
      /\ Lenient => Manual \in may.modes
      /\ Lenient \/ worker = "dark" => call.mode \in may.modes
      /\ phase # "original" => Shutdown \in may.modes
  BY <1>1 DEF Phased
<1>3. CASE worker = "dark"
  <2>1. ReadableModes = {call.mode}
    BY <1>3 DEF ReadableModes
  <2>2. DarkContradiction
    BY <1>1, <1>2, <1>3, <2>1 DEF DarkContradiction
  <2>3. seen # None
    BY <1>1
  <2>4. QED
    BY <2>2, <2>3 DEF Contradicts
<1>4. CASE ~cleaning /\ worker # "dark"
  <2>1. CASE worker = "optical"
    BY <1>1, <1>2, <1>4, <2>1 DEF Contradicts, OpticalContradiction
  <2>2. CASE worker \in OffWorkers
    BY <1>1, <1>2, <1>4, <2>2 DEF Contradicts, OffContradiction
  <2>3. QED
    BY <1>1, <1>4, <2>1, <2>2 DEF Typed, Words
<1>5. CASE cleaning /\ worker \in OffWorkers
  <2>1. phase # "original" => Contradicts
    <3>1. baseline.mode \in OriginalMode
      BY <1>1 DEF Started
    <3>2. OriginalMode \subseteq {baseline.mode}
      BY <3>1, <1>5 DEF OriginalMode
    <3>3. phase # "original" => OffContradiction
      <4>1. seen \notin OriginalMode /\ (phase # "original" => seen # Shutdown)
        BY <1>1, <1>2, <3>2
      <4>2. (IF cleaning THEN OriginalMode ELSE {}) = OriginalMode
        BY <1>5
      <4>3. QED
        BY <1>5, <4>1, <4>2 DEF OffContradiction
    <3>4. seen # None
      BY <1>1
    <3>5. QED
      BY <3>3, <3>4 DEF Contradicts
  <2>2. CASE phase = "original"
    <3>1. Place \in Repair /\ Place # "mode_resumed" /\ Place # "zero_guard" /\ Place # "restored"
      BY <1>1, <1>5, <2>2 DEF Typed, Words, Placed, Place, Phased
    <3>2. QED
      BY <1>5, <2>2, <3>1 DEF Staffed
  <2>3. QED
    BY <2>1, <2>2
<1>6. CASE cleaning /\ Lenient
  <2>1. Place \in Repair
    BY <1>1, <1>6 DEF Typed, Words, Placed, Place
  <2>2. CASE Place = "guarded"
    <3>1. ~unsafe => want = Manual \/ baseline.mode # Manual
      BY <2>2, <1>6 DEF Judged, GuardMode
    <3>2. baseline.mode # Manual => baseline.mode = Automatic /\ seen \in {Automatic, Manual}
      BY <1>1, <1>6 DEF Started, OriginalMode, Judged, ReadableModes
    <3>3. QED
      BY <1>1, <1>2, <1>6, <2>2, <3>1, <3>2 DEF Contradicts
  <2>3. CASE Place # "guarded"
    <3>1. want = call.mode
      BY <1>6, <2>1, <2>3 DEF Judged, Staffed
    <3>2. call.mode \in may.modes /\ call.mode \in Modes
      BY <1>2, <1>6 DEF Typed, Ordered
    <3>3. seen # want /\ want # None /\ seen # None
      BY <1>1, <3>1, <3>2
    <3>4. QED
      BY <3>3 DEF Contradicts
  <2>4. QED
    BY <2>2, <2>3
<1>7. QED
  BY <1>3, <1>4, <1>5, <1>6 DEF Typed, Words, Marks

LEMMA Remembered_Quits ==
  ASSUME Typed, Placed, Staffed, Started, Called, Phased, Judged, Remembered, pc \in Repair, Quits
  PROVE  Remembered'
BY DEF Quits, Rest, Raise, Typed, Placed, Staffed, Started, Called, Phased, Judged, Remembered,
       Marks, Words, Counts, Found, Ordered, Streams, Place, OriginalMode, GuardMode,
       OwnedVectors, ReadableModes, Suspicious, Judging, Explained, Latches, Contradicts,
       OpticalContradiction, OffContradiction, DarkContradiction, Unresolved

LEMMA Remembered_Confirms ==
  ASSUME Typed, Placed, Staffed, Started, Called, Phased, Judged, Remembered, pc \in Repair,
         Confirms
  PROVE  Remembered'
BY DEF Confirms, Rest, Recovered, Typed, Placed, Staffed, Started, Called, Phased, Judged,
       Remembered, Marks, Words, Counts, Found, Ordered, Streams, Place, OriginalMode, GuardMode,
       OwnedVectors, ReadableModes, Suspicious, Judging, Explained, Latches, Contradicts,
       OpticalContradiction, OffContradiction, DarkContradiction, Unresolved

\* A result of the zero cases of the cleanup, which the declared frames explain.
LEMMA CleanWaits ==
  ASSUME Typed, Placed, Staffed, Started, Called, Phased, Judged, Remembered,
         pc \in {"mode_resumed", "zero_guard", "dark_resumed"},
         got.ch = "zero", got.mode \in {baseline.mode, Manual}, baseline.mode = Manual
  PROVE  ~alarm \/ hidden
<1>1. got.mode \in may.modes /\ got.ch \in may.chs
  BY MayShow
<1>2. QED
  BY <1>1, CleanReads DEF Place

\* The zero cases of the cleanup belong to Manual baselines.
LEMMA DarkIsManual ==
  ASSUME Placed, Staffed, Started, pc \in {"zero_guard", "restored", "dark_resumed"}
  PROVE  baseline.mode = Manual
BY DEF Placed, Staffed, Started, Place, OriginalMode

LEMMA Remembered_Waits ==
  ASSUME Typed, Placed, Staffed, Started, Called, Phased, Judged, Remembered,
         pc \in {"mode_resumed", "dark_resumed"}, ~alarm \/ hidden, Waits
  PROVE  Remembered'
BY DEF Waits, Rest, Remembered

LEMMA Remembered_ReadFault ==
  ASSUME Typed, Placed, Staffed, Started, Called, Phased, Judged, Remembered, ReadFault
  PROVE  Remembered'
<1>1. pc \in Reads /\ Running /\ UNCHANGED <<worker, excursion, phase>>
  BY DEF ReadFault, Running
<1>2. CASE ReadFails /\ UNCHANGED alarm
  <2>1. CASE Contradicts /\ Raise("unsafe")
    BY <1>1, <1>2, <2>1 DEF Raise, Remembered, Latches, Typed, Marks, Words, Placed, Place,
       Suspicious, Judging
  <2>2. CASE ~Contradicts
    <3>1. CASE Raise("transport")
      BY <1>1, <1>2, <2>2, <3>1, SuspicionContradicts DEF Raise, Remembered, Typed, Marks,
         Words, Placed, Place
    <3>2. CASE tries # 0 /\ pc' = "connect" /\ UNCHANGED <<ret, want, flags>>
      BY <1>1, <1>2, <2>2, <3>2, SuspicionContradicts DEF Remembered, Typed, Marks, Words,
         Placed, Place
    <3>3. QED
      BY <1>2, <2>2, <3>1, <3>2 DEF ReadFails
  <2>3. QED
    BY <1>2, <2>1, <2>2 DEF ReadFails
<1>3. CASE Raise("unsafe") /\ alarm' = (alarm \/ Judging)
  BY <1>1, <1>3 DEF Typed, Marks, Words, Placed, Place, Started, Raise, Remembered, Latches,
     Judging, Suspicious
<1>4. CASE Raise("deadline") /\ UNCHANGED alarm
  BY <1>1, <1>4 DEF Typed, Marks, Words, Placed, Place, Started, Raise, Remembered
<1>5. QED
  BY <1>2, <1>3, <1>4 DEF ReadFault

LEMMA Remembered_SendVector ==
  ASSUME Typed, Placed, Staffed, Started, Called, Phased, Judged, Remembered, SendVector
  PROVE  Remembered'
<1>1. /\ pc \in Writes /\ UNCHANGED alarm
      /\ UNCHANGED hidden \/ Raise("transport") \/ Raise("deadline")
  BY DEF SendVector, Send
<1>2. QED
  BY <1>1, SilentWrites, StaysClean

LEMMA Remembered_SendMode ==
  ASSUME Typed, Placed, Staffed, Started, Called, Phased, Judged, Remembered, SendMode
  PROVE  Remembered'
<1>1. /\ pc \in Writes /\ UNCHANGED alarm
      /\ UNCHANGED hidden \/ Raise("transport") \/ Raise("deadline")
  BY DEF SendMode, Send
<1>2. QED
  BY <1>1, SilentWrites, StaysClean

LEMMA Remembered_Drain ==
  ASSUME Typed, Placed, Staffed, Started, Called, Phased, Judged, Remembered, Drain
  PROVE  Remembered'
<1>1. pc \in Writes /\ Running /\ UNCHANGED <<worker, excursion>>
  BY DEF Drain, Running
<1>2. ~alarm \/ hidden
  BY <1>1, SilentWrites
<1>3. CASE Raise("unsafe") /\ alarm' = (alarm \/ Judging)
  BY <1>1, <1>2, <1>3, UnsafeIsRemembered
<1>4. CASE UNCHANGED alarm /\ (UNCHANGED hidden \/ Raise("transport") \/ Raise("deadline"))
  BY <1>2, <1>4, StaysClean
<1>5. QED
  BY <1>3, <1>4 DEF Drain

LEMMA Remembered_GuardedChannel ==
  ASSUME Typed, Placed, Staffed, Started, Called, Phased, Judged, Remembered, GuardedChannel
  PROVE  Remembered'
<1>1. CASE Quits \/ Confirms
  BY <1>1, GuardedChannelDoes, Remembered_Quits, Remembered_Confirms
<1>2. ASSUME ~unsafe, got.ch \in {baseline.ch, "changed"}, NEW ch, NEW mode, NEW name, NEW place,
             Begins(ch, mode, name, place)
      PROVE  Remembered'
  <2>1. got.ch \in may.chs /\ Manual \in may.modes /\ baseline.mode \in may.modes
    BY <1>2, GuardedChannelDoes, MayShow
  <2>2. got.mode \in may.modes
    <3>1. baseline.mode = Manual => got.mode = Manual
      BY <1>2, GuardedChannelDoes DEF Judged, GuardMode, Place
    <3>2. baseline.mode \in {Automatic, Manual} /\ got.mode \in {Automatic, Manual}
      BY GuardedChannelDoes DEF Judged, ReadableModes, Started, Placed, Place, OriginalMode
    <3>3. QED
      BY <2>1, <3>1, <3>2
  <2>3. ~alarm \/ hidden
    BY <1>2, <2>1, <2>2, GuardedChannelDoes, CleanReads
  <2>4. QED
    BY <1>2, <2>3 DEF Begins, Rest, Remembered
<1>3. got.ch = baseline.ch => got.ch \in {baseline.ch, "changed"}
  OBVIOUS
<1>4. QED
  BY <1>1, <1>2, <1>3, GuardedChannelDoes

LEMMA Remembered_ModeResumed ==
  ASSUME Typed, Placed, Staffed, Started, Called, Phased, Judged, Remembered, ModeResumed
  PROVE  Remembered'
<1>1. baseline.mode # Automatic => baseline.mode = Manual
  BY ModeResumedDoes DEF Started, Placed, Place, OriginalMode
<1>2. QED
  BY <1>1, ModeResumedDoes, Remembered_Quits, Remembered_Confirms, Remembered_Waits, CleanWaits

LEMMA Remembered_ZeroGuard ==
  ASSUME Typed, Placed, Staffed, Started, Called, Phased, Judged, Remembered, ZeroGuard
  PROVE  Remembered'
<1>1. /\ pc = "zero_guard"
      /\ Quits \/ (got.ch = "zero" /\ Begins(baseline.ch, Manual, phase, "restored"))
  BY ZeroGuardDoes
<1>2. got.mode = Manual /\ baseline.mode = Manual
  BY <1>1, DarkIsManual DEF Judged, Place
<1>3. CASE Quits
  BY <1>1, <1>3, Remembered_Quits
<1>4. CASE got.ch = "zero" /\ Begins(baseline.ch, Manual, phase, "restored")
  <2>1. ~alarm \/ hidden
    BY <1>1, <1>2, <1>4, CleanWaits
  <2>2. QED
    BY <1>4, <2>1 DEF Begins, Rest, Remembered
<1>5. QED
  BY <1>1, <1>3, <1>4

LEMMA Remembered_DarkResumed ==
  ASSUME Typed, Placed, Staffed, Started, Called, Phased, Judged, Remembered, DarkResumed
  PROVE  Remembered'
BY DarkResumedDoes, DarkIsManual, Remembered_Quits, Remembered_Waits, CleanWaits

LEMMA RememberedKept ==
  ASSUME Typed, Placed, Staffed, Started, Called, Phased, Judged, Remembered, [Next]_vars
  PROVE  Remembered'
<1> USE DEF Typed, Placed, Staffed, Started, Called, Phased, Judged, Remembered, Marks, Words,
        Counts, Found, Ordered, Streams, Place, OriginalMode, GuardMode, OwnedVectors,
        ReadableModes, Suspicious, Judging, Explained, Latches, Contradicts, OpticalContradiction,
        OffContradiction, DarkContradiction, Unresolved, Raise, Command, ReadFails, Send,
        Recovered, Refuse, Succeed, Confirmed, Consequences, TryChannel, TryOptical, TryOff,
        TryDark
<1>1. CASE Stop
  BY <1>1 DEF Stop, Running, Stopping
<1>2. CASE Connect
  BY <1>2 DEF Connect
<1>3. CASE ReadSystem
  BY <1>3 DEF ReadSystem
<1>4. CASE ReadChannels
  BY <1>4 DEF ReadChannels
<1>5. CASE ReadFault
  BY <1>5, Remembered_ReadFault
<1>6. CASE SendVector
  BY <1>6, Remembered_SendVector
<1>7. CASE SendMode
  BY <1>7, Remembered_SendMode
<1>8. CASE Drain
  BY <1>8, Remembered_Drain
<1>9. CASE Barrier
  BY <1>9 DEF Barrier
<1>10. CASE BarrierFault
  BY <1>10 DEF BarrierFault
<1>11. CASE Prepare
  BY <1>11 DEF Prepare, Second, Intent, Admit
<1>12. CASE Experiment
  BY <1>12 DEF Experiment
<1>13. CASE ChannelChanged
  BY <1>13 DEF ChannelChanged
<1>14. CASE OpticalChanged
  BY <1>14 DEF OpticalChanged
<1>15. CASE SwitchedOff
  BY <1>15 DEF SwitchedOff
<1>16. CASE Darkened
  BY <1>16 DEF Darkened
<1>17. CASE ResumedDark
  BY <1>17 DEF ResumedDark
<1>18. CASE SampleGuard
  BY <1>18 DEF SampleGuard
<1>19. CASE Sampled
  BY <1>19 DEF Sampled
<1>20. CASE Hold
  BY <1>20 DEF Hold
<1>21. CASE Recover
  BY <1>21 DEF Recover
<1>22. CASE GuardedChannel
  BY <1>22, Remembered_GuardedChannel
<1>23. CASE VectorRestored
  BY <1>23, VectorRestoredDoes, Remembered_Quits, Remembered_Confirms DEF Begins, Rest
<1>24. CASE ModeRestored
  BY <1>24, ModeRestoredDoes, Remembered_Quits, Remembered_Confirms DEF Begins, Rest
<1>25. CASE GuardedOff
  BY <1>25, GuardedOffDoes, Remembered_Quits, Remembered_Confirms DEF Begins, Rest
<1>26. CASE ModeResumed
  BY <1>26, Remembered_ModeResumed
<1>27. CASE ZeroGuard
  BY <1>27, Remembered_ZeroGuard
<1>28. CASE Restored
  BY <1>28, RestoredDoes, Remembered_Quits, Remembered_Confirms DEF Begins, Rest
<1>29. CASE GuardedDark
  BY <1>29, GuardedDarkDoes, Remembered_Quits, Remembered_Confirms DEF Begins, Rest
<1>30. CASE DarkResumed
  BY <1>30, Remembered_DarkResumed
<1>31. CASE Finish
  BY <1>31 DEF Finish
<1>32. CASE Handle
  BY <1>32 DEF Handle, Obey, Obeyed
<1>33. CASE Program
  BY <1>33 DEF Program
<1>34. CASE Rival
  BY <1>34 DEF Rival
<1>35. CASE Signal
  BY <1>35 DEF Signal
<1>36. CASE UNCHANGED vars
  BY <1>36 DEF vars
<1>37. QED
  BY <1>1, <1>2, <1>3, <1>4, <1>5, <1>6, <1>7, <1>8, <1>9, <1>10, <1>11, <1>12, <1>13, <1>14,
     <1>15, <1>16, <1>17, <1>18, <1>19, <1>20, <1>21, <1>22, <1>23, <1>24, <1>25, <1>26, <1>27,
     <1>28, <1>29, <1>30, <1>31, <1>32, <1>33, <1>34, <1>35, <1>36
     DEF Next, Worker, Read, Write, Prepare, Try, CleanUp

-----------------------------------------------------------------------------
(* Grows: more and more of the declared frames are behind a worker. *)

\* No place is beyond the last declared frame.
LEMMA SoFarBounded ==
  ASSUME Typed, Placed, Staffed, Started, Called, Phased, excursion
  PROVE  SoFar \in 0..Length
BY DEF Typed, Words, Ordered, Found, Placed, Staffed, Started, Called, Phased, Place, SoFar,
   Before, Spent, Length,
       OriginalMode

\* A command of the cleanup comes after all the frames that may have been sent.
LEMMA BeginsGrows ==
  ASSUME NEW ch, NEW mode, NEW name, NEW place \in Commanded, Begins(ch, mode, name, place),
         SoFar <= Before(place)
  PROVE  SoFar <= SoFar'
<1>1. /\ pc' \in {"send_mode", "send_vector"} /\ ret' = place /\ UNCHANGED worker
      /\ pc' = "send_mode" => call'.ch = None
  BY DEF Begins, Rest
<1>2. Before(place)' = Before(place)
  BY <1>1 DEF Before
<1>3. SoFar' = Before(place)
  BY <1>1, <1>2 DEF SoFar, Before
<1>4. QED
  BY <1>3

LEMMA Grows_Quits ==
  ASSUME Typed, Placed, Staffed, Started, Called, Phased, Judged, excursion, pc \in Repair, Quits
  PROVE  SoFar <= SoFar'
BY DEF Quits, Rest, Raise, Typed, Placed, Staffed, Started, Called, Phased, Judged, Marks, Words,
       Counts, Found, Ordered, Streams, Place, SoFar, Before, Spent, Length

LEMMA Grows_Confirms ==
  ASSUME Typed, Placed, Staffed, Started, Called, Phased, Judged, excursion, pc \in Repair,
         Confirms
  PROVE  SoFar <= SoFar'
BY DEF Confirms, Rest, Recovered, Typed, Placed, Staffed, Started, Called, Phased, Judged, Marks,
       Words, Counts, Found, Ordered, Streams, Place, SoFar, Before, Spent, Length

LEMMA Grows_Waits ==
  ASSUME Typed, Placed, Staffed, Started, Called, Phased, Judged, excursion,
         pc \in {"mode_resumed", "dark_resumed"}, Waits
  PROVE  SoFar <= SoFar'
BY DEF Waits, Rest, Typed, Placed, Staffed, Started, Called, Phased, Judged, Marks, Words, Counts,
       Found, Ordered, Streams, Place, SoFar, Before, Spent, Length

LEMMA Grows_GuardedChannel ==
  ASSUME Typed, Placed, Staffed, Started, Called, Phased, Judged, excursion, GuardedChannel
  PROVE  SoFar <= SoFar'
<1>1. CASE Quits
  BY <1>1, GuardedChannelDoes, Grows_Quits
<1>2. CASE Confirms
  BY <1>2, GuardedChannelDoes, Grows_Confirms
<1>3. ASSUME NEW ch, NEW mode, NEW name, NEW place \in Commanded, Begins(ch, mode, name, place),
             place \in {"vector_restored", "mode_restored"}
      PROVE  SoFar <= SoFar'
  <2>1. SoFar <= Before(place)
    BY <1>3, GuardedChannelDoes DEF Staffed, Called, Phased, Place, SoFar, Before, Spent
  <2>2. QED
    BY <1>3, <2>1, BeginsGrows
<1>4. QED
  BY <1>1, <1>2, <1>3, GuardedChannelDoes

LEMMA Grows_VectorRestored ==
  ASSUME Typed, Placed, Staffed, Started, Called, Phased, Judged, excursion, VectorRestored
  PROVE  SoFar <= SoFar'
<1>1. CASE Quits
  BY <1>1, VectorRestoredDoes, Grows_Quits
<1>2. CASE Confirms
  BY <1>2, VectorRestoredDoes, Grows_Confirms
<1>3. ASSUME NEW ch, NEW mode, NEW name, NEW place \in Commanded, Begins(ch, mode, name, place),
             place \in {"mode_restored"}
      PROVE  SoFar <= SoFar'
  <2>1. SoFar <= Before(place)
    BY <1>3, VectorRestoredDoes DEF Staffed, Called, Phased, Place, SoFar, Before, Spent
  <2>2. QED
    BY <1>3, <2>1, BeginsGrows
<1>4. QED
  BY <1>1, <1>2, <1>3, VectorRestoredDoes

LEMMA Grows_GuardedOff ==
  ASSUME Typed, Placed, Staffed, Started, Called, Phased, Judged, excursion, GuardedOff
  PROVE  SoFar <= SoFar'
<1>1. CASE Quits
  BY <1>1, GuardedOffDoes, Grows_Quits
<1>2. CASE Confirms
  BY <1>2, GuardedOffDoes, Grows_Confirms
<1>3. ASSUME NEW ch, NEW mode, NEW name, NEW place \in Commanded, Begins(ch, mode, name, place),
             place \in {"mode_resumed"}
      PROVE  SoFar <= SoFar'
  <2>1. SoFar <= Before(place)
    BY <1>3, GuardedOffDoes DEF Staffed, Called, Phased, Place, SoFar, Before, Spent
  <2>2. QED
    BY <1>3, <2>1, BeginsGrows
<1>4. QED
  BY <1>1, <1>2, <1>3, GuardedOffDoes

LEMMA Grows_ZeroGuard ==
  ASSUME Typed, Placed, Staffed, Started, Called, Phased, Judged, excursion, ZeroGuard
  PROVE  SoFar <= SoFar'
<1>1. CASE Quits
  BY <1>1, ZeroGuardDoes, Grows_Quits
<1>3. ASSUME NEW ch, NEW mode, NEW name, NEW place \in Commanded, Begins(ch, mode, name, place),
             place \in {"restored"}
      PROVE  SoFar <= SoFar'
  <2>1. SoFar <= Before(place)
    BY <1>3, ZeroGuardDoes DEF Staffed, Called, Phased, Place, SoFar, Before, Spent
  <2>2. QED
    BY <1>3, <2>1, BeginsGrows
<1>4. QED
  BY <1>1, <1>3, ZeroGuardDoes

LEMMA Grows_GuardedDark ==
  ASSUME Typed, Placed, Staffed, Started, Called, Phased, Judged, excursion, GuardedDark
  PROVE  SoFar <= SoFar'
<1>1. CASE Quits
  BY <1>1, GuardedDarkDoes, Grows_Quits
<1>2. CASE Confirms
  BY <1>2, GuardedDarkDoes, Grows_Confirms
<1>3. ASSUME NEW ch, NEW mode, NEW name, NEW place \in Commanded, Begins(ch, mode, name, place),
             place = "dark_resumed" => phase = "off",
             place \in {"dark_resumed", "restored"}
      PROVE  SoFar <= SoFar'
  <2>1. SoFar <= Before(place)
    BY <1>3, GuardedDarkDoes DEF Staffed, Called, Phased, Place, SoFar, Before, Spent
  <2>2. QED
    BY <1>3, <2>1, BeginsGrows
<1>4. QED
  BY <1>1, <1>2, <1>3, GuardedDarkDoes

LEMMA GrowsKept ==
  ASSUME Typed, Placed, Staffed, Started, Called, Phased, Judged, excursion, [Next]_vars
  PROVE  SoFar <= SoFar'
<1> USE DEF Typed, Placed, Staffed, Started, Called, Phased, Judged, Marks, Words, Counts, Found,
        Ordered, Streams, Place, SoFar, Before, Spent, Length, Raise, Command, ReadFails, Send,
        Recovered, Refuse, Succeed, Confirmed, Consequences, TryChannel, TryOptical, TryOff,
        TryDark
<1>1. CASE Stop
  BY <1>1 DEF Stop, Running, Stopping
<1>2. CASE Connect
  BY <1>2 DEF Connect
<1>3. CASE ReadSystem
  BY <1>3 DEF ReadSystem
<1>4. CASE ReadChannels
  BY <1>4 DEF ReadChannels
<1>5. CASE ReadFault
  BY <1>5 DEF ReadFault
<1>6. CASE SendVector
  BY <1>6 DEF SendVector
<1>7. CASE SendMode
  BY <1>7 DEF SendMode
<1>8. CASE Drain
  BY <1>8 DEF Drain
<1>9. CASE Barrier
  BY <1>9 DEF Barrier
<1>10. CASE BarrierFault
  BY <1>10 DEF BarrierFault
<1>11. CASE Prepare
  BY <1>11 DEF Prepare, Second, Intent, Admit
<1>12. CASE Experiment
  BY <1>12 DEF Experiment
<1>13. CASE ChannelChanged
  BY <1>13 DEF ChannelChanged
<1>14. CASE OpticalChanged
  BY <1>14 DEF OpticalChanged
<1>15. CASE SwitchedOff
  BY <1>15 DEF SwitchedOff
<1>16. CASE Darkened
  BY <1>16 DEF Darkened
<1>17. CASE ResumedDark
  BY <1>17 DEF ResumedDark
<1>18. CASE SampleGuard
  BY <1>18 DEF SampleGuard
<1>19. CASE Sampled
  BY <1>19 DEF Sampled
<1>20. CASE Hold
  BY <1>20 DEF Hold
<1>21. CASE Recover
  BY <1>21 DEF Recover
<1>22. CASE GuardedChannel
  BY <1>22, Grows_GuardedChannel
<1>23. CASE VectorRestored
  BY <1>23, Grows_VectorRestored
<1>24. CASE ModeRestored
  BY <1>24, ModeRestoredDoes, Grows_Quits, Grows_Confirms DEF Begins, Rest
<1>25. CASE GuardedOff
  BY <1>25, Grows_GuardedOff
<1>26. CASE ModeResumed
  BY <1>26, ModeResumedDoes, Grows_Quits, Grows_Confirms, Grows_Waits DEF Begins, Rest
<1>27. CASE ZeroGuard
  BY <1>27, Grows_ZeroGuard
<1>28. CASE Restored
  BY <1>28, RestoredDoes, Grows_Quits, Grows_Confirms DEF Begins, Rest
<1>29. CASE GuardedDark
  BY <1>29, Grows_GuardedDark
<1>30. CASE DarkResumed
  BY <1>30, DarkResumedDoes, Grows_Quits, Grows_Waits DEF Begins, Rest
<1>31. CASE Finish
  BY <1>31 DEF Finish
<1>32. CASE Handle
  BY <1>32 DEF Handle, Obey, Obeyed
<1>33. CASE Program
  BY <1>33 DEF Program
<1>34. CASE Rival
  BY <1>34 DEF Rival
<1>35. CASE Signal
  BY <1>35 DEF Signal
<1>36. CASE UNCHANGED vars
  BY <1>36 DEF vars
<1>37. QED
  BY <1>1, <1>2, <1>3, <1>4, <1>5, <1>6, <1>7, <1>8, <1>9, <1>10, <1>11, <1>12, <1>13, <1>14,
     <1>15, <1>16, <1>17, <1>18, <1>19, <1>20, <1>21, <1>22, <1>23, <1>24, <1>25, <1>26, <1>27,
     <1>28, <1>29, <1>30, <1>31, <1>32, <1>33, <1>34, <1>35, <1>36
     DEF Next, Worker, Read, Write, Prepare, Try, CleanUp

-----------------------------------------------------------------------------
(* Sent: a selection of the declared frames, in their order. *)

\* The ranks of a set of positions that gets one more, beyond all of them.
LEMMA Ranks ==
  ASSUME NEW n \in Nat, NEW Q \in SUBSET (1..n)
  PROVE  /\ IsFiniteSet(Q) /\ Cardinality(Q) \in Nat
         /\ Cardinality(Q \cup {n + 1}) = Cardinality(Q) + 1
         /\ {j \in Q \cup {n + 1} : j <= n + 1} = Q \cup {n + 1}
         /\ \A k \in Q : /\ {j \in Q \cup {n + 1} : j <= k} = {j \in Q : j <= k}
                        /\ Cardinality({j \in Q : j <= k}) \in 1..Cardinality(Q)
<1>1. IsFiniteSet(Q)
  <2>1. IsFiniteSet(1..n)
    <3>1. 1 \in Int /\ n \in Int
      OBVIOUS
    <3>2. QED
      BY <3>1, FS_Interval
  <2>2. QED
    BY <2>1, FS_Subset
<1>2. Cardinality(Q) \in Nat
  BY <1>1, FS_CardinalityType
<1>3. n + 1 \notin Q
  OBVIOUS
<1>4. Cardinality(Q \cup {n + 1}) = Cardinality(Q) + 1
  BY <1>1, <1>3, FS_AddElement
<1>5. {j \in Q \cup {n + 1} : j <= n + 1} = Q \cup {n + 1}
  <2>1. \A j \in Q \cup {n + 1} : j <= n + 1
    OBVIOUS
  <2>2. QED
    BY <2>1, Zenon
<1>6. ASSUME NEW k \in Q
      PROVE  /\ {j \in Q \cup {n + 1} : j <= k} = {j \in Q : j <= k}
             /\ Cardinality({j \in Q : j <= k}) \in 1..Cardinality(Q)
  <2>1. {j \in Q \cup {n + 1} : j <= k} = {j \in Q : j <= k}
    BY <1>6
  <2> DEFINE R == {j \in Q : j <= k}
  <2>2. R \subseteq Q /\ R # {}
    BY <1>6
  <2>3. IsFiniteSet(R) /\ Cardinality(R) <= Cardinality(Q)
    BY <1>1, <2>2, FS_Subset
  <2>4. Cardinality(R) \in Nat /\ Cardinality(R) # 0
    BY <2>2, <2>3, FS_CardinalityType, FS_EmptySet
  <2> HIDE DEF R
  <2>5. Cardinality(R) \in 1..Cardinality(Q)
    BY <1>2, <2>3, <2>4
  <2>6. QED
    BY <2>1, <2>5 DEF R
<1>7. QED
  BY <1>1, <1>2, <1>4, <1>5, <1>6

\* Appending to a sequence.
LEMMA Appended ==
  ASSUME NEW S, NEW s \in Seq(S), NEW x
  PROVE  /\ Len(s) \in Nat /\ Len(Append(s, x)) = Len(s) + 1 /\ Append(s, x)[Len(s) + 1] = x
         /\ \A i \in 1..Len(s) : Append(s, x)[i] = s[i]
OBVIOUS

\* A selection of the declared frames goes on with the next one.
LEMMA KeepsOne ==
  ASSUME Streams, NEW n \in Nat, NEW positions \in SUBSET (1..n), Keeps(positions),
         NEW frame \in Frames, Give(frame), UNCHANGED Declared, Declared[n + 1] = frame
  PROVE  Keeps(positions \cup {n + 1})'
<1> DEFINE more == positions \cup {n + 1}
           Rank(k) == Cardinality({j \in more : j <= k})
<1>1. sent' = Append(sent, frame) /\ sent \in Seq(Frames)
  BY DEF Streams
<1>2. /\ Len(sent) \in Nat /\ Len(sent') = Len(sent) + 1 /\ sent'[Len(sent) + 1] = frame
      /\ \A i \in 1..Len(sent) : sent'[i] = sent[i]
  BY <1>1, Appended
<1>3. Cardinality(positions) = Len(sent) /\ Cardinality(more) = Len(sent) + 1
  BY Ranks DEF Keeps
<1>4. ASSUME NEW k \in positions
      PROVE  sent'[Rank(k)] = Declared'[k]
  <2>1. Rank(k) = Cardinality({j \in positions : j <= k}) /\ Rank(k) \in 1..Len(sent)
    BY <1>3, <1>4, Ranks
  <2>2. sent[Rank(k)] = Declared[k]
    BY <2>1, <1>4 DEF Keeps
  <2>3. QED
    BY <1>2, <2>1, <2>2
<1>5. sent'[Rank(n + 1)] = Declared'[n + 1]
  <2>1. Rank(n + 1) = Len(sent) + 1
    BY <1>3, Ranks
  <2>2. QED
    BY <1>2, <2>1
<1>6. \A k \in more : sent'[Rank(k)] = Declared'[k]
  BY <1>4, <1>5
<1>7. QED
  BY <1>2, <1>3, <1>6 DEF Keeps

\* How far a worker is is a number.
LEMMA SoFarCounts == SoFar \in Nat /\ SoFar' \in Nat
BY DEF SoFar, Before, Spent, Length, Place

\* What was sent stays a selection while the worker gets on.
LEMMA SentOn ==
  ASSUME Sent, excursion, UNCHANGED <<sent, worker, baseline>>, SoFar <= SoFar'
  PROVE  Sent'
<1>1. PICK positions \in SUBSET (1..SoFar) : Keeps(positions)
  BY DEF Sent
<1>2. positions \in SUBSET (1..SoFar')
  BY SoFarCounts
<1>3. Keeps(positions)'
  BY <1>1 DEF Keeps, Declared
<1>4. QED
  BY <1>2, <1>3 DEF Sent

\* What was sent stays a selection when the next declared frame is given.
LEMMA SentMore ==
  ASSUME Streams, Sent, excursion, NEW frame \in Frames, Give(frame), UNCHANGED <<worker,
         baseline>>,
         Declared[SoFar + 1] = frame, SoFar + 1 <= SoFar'
  PROVE  Sent'
<1>1. PICK positions \in SUBSET (1..SoFar) : Keeps(positions)
  BY DEF Sent
<1>2. PICK n \in Nat : n = SoFar
  BY SoFarCounts
<1>3. UNCHANGED Declared /\ Declared[n + 1] = frame /\ positions \in SUBSET (1..n)
  BY <1>1, <1>2 DEF Declared
<1>4. Keeps(positions \cup {n + 1})'
  BY <1>1, <1>3, KeepsOne
<1>5. positions \cup {n + 1} \in SUBSET (1..SoFar')
  BY <1>2, <1>3, SoFarCounts
<1>6. QED
  BY <1>4, <1>5 DEF Sent

\* A channel frame is the next declared one.
LEMMA NextVector ==
  ASSUME Typed, Placed, Staffed, Started, Called, pc = "send_vector"
  PROVE  excursion /\ Declared[SoFar + 1] = call.ch
<1>1. ret \in Commanded /\ Place = ret /\ SoFar = Before(ret) /\ call.ch # None
  BY DEF Placed, Place, SoFar, Called
<1>2. excursion
  BY <1>1 DEF Placed
<1>3. ret \in {"experimented", "sampled", "vector_restored", "restored"}
  BY <1>1, <1>2 DEF Called, Staffed
<1>4. CASE ret = "experimented"
  <2>1. Lenient /\ call.ch = "changed" /\ SoFar = 0
    BY <1>1, <1>4 DEF Called, Staffed, Before
  <2>2. QED
    BY <1>2, <2>1 DEF Declared
<1>5. CASE ret = "sampled"
  <2>1. worker = "dark" /\ call.ch = "changed" /\ SoFar = 2
    BY <1>1, <1>5 DEF Called, Staffed, Before
  <2>2. QED
    BY <1>2, <2>1 DEF Declared
<1>6. CASE ret = "vector_restored"
  <2>1. Lenient /\ call.ch = baseline.ch /\ SoFar = 2
    BY <1>1, <1>6 DEF Called, Staffed, Before
  <2>2. QED
    BY <1>2, <2>1 DEF Declared
<1>7. CASE ret = "restored"
  <2>1. ~Lenient /\ baseline.mode = Manual /\ call.ch = baseline.ch
        /\ SoFar = (IF worker = "dark" THEN 4 ELSE 2)
    BY <1>1, <1>7 DEF Called, Staffed, Before
  <2>2. QED
    BY <1>2, <2>1 DEF Declared, Typed, Words
<1>8. QED
  BY <1>3, <1>4, <1>5, <1>6, <1>7

\* A mode frame is the next declared one.
LEMMA NextMode ==
  ASSUME Typed, Placed, Staffed, Started, Called, pc = "send_mode"
  PROVE  excursion /\ Declared[SoFar + 1] = call.mode
<1>1. /\ ret \in Commanded /\ Place = ret /\ call.ch \in Vectors \cup {None}
      /\ SoFar = Before(ret) + (IF call.ch = None THEN 0 ELSE 1)
  BY DEF Placed, Place, SoFar, Typed, Ordered
<1>2. excursion /\ baseline \in States /\ baseline.ch # None /\ baseline.mode \in OriginalMode
  BY <1>1 DEF Placed, Started
<1>3. CASE ret = "experimented"
  <2>1. IF Lenient THEN call.mode = Manual /\ SoFar = 1 ELSE call.mode = Shutdown /\ SoFar = 0
    BY <1>1, <1>3 DEF Called, Before
  <2>2. worker \in OffWorkers \/ Lenient
    BY <1>1, <1>3 DEF Staffed, Typed, Words
  <2>3. QED
    BY <1>2, <2>1, <2>2 DEF Declared
<1>4. CASE ret \in {"darkened", "resumed_dark", "dark_resumed", "sampled"}
  <2>1. worker = "dark"
    BY <1>1, <1>4 DEF Staffed
  <2>2. /\ call.mode = IF ret = "darkened" THEN Shutdown ELSE Manual
        /\ SoFar = IF ret = "darkened" THEN 0 ELSE IF ret = "sampled" THEN 3 ELSE 1
    BY <1>1, <1>4 DEF Called, Before
  <2>3. QED
    BY <1>2, <1>4, <2>1, <2>2 DEF Declared
<1>5. CASE ret \in {"vector_restored", "mode_restored"}
  <2>1. Lenient /\ (ret = "mode_restored" => baseline.mode = Automatic)
    BY <1>1, <1>5 DEF Staffed
  <2>2. /\ call.mode = IF ret = "mode_restored" THEN Automatic ELSE Manual
        /\ SoFar = IF ret = "mode_restored" THEN 4 ELSE 3
    BY <1>1, <1>2, <1>5, <2>1 DEF Called, Before
  <2>3. QED
    BY <1>2, <1>5, <2>1, <2>2 DEF Declared
<1>6. CASE ret = "mode_resumed"
  <2>1. worker \in OffWorkers /\ call.mode = baseline.mode /\ SoFar = 1
    BY <1>1, <1>6 DEF Staffed, Called, Before
  <2>2. baseline.mode \in {Automatic, Manual}
    BY <1>2, <2>1 DEF OriginalMode
  <2>3. QED
    BY <1>2, <2>1, <2>2 DEF Declared
<1>7. CASE ret = "restored"
  <2>1. ~Lenient /\ baseline.mode = Manual /\ call.mode = Manual
    BY <1>1, <1>7 DEF Staffed, Called
  <2>2. SoFar = IF worker = "dark" THEN 5 ELSE 3
    BY <1>1, <1>2, <1>7 DEF Called, Before
  <2>3. QED
    BY <1>2, <2>1, <2>2 DEF Declared, Typed, Words
<1>8. QED
  BY <1>1, <1>3, <1>4, <1>5, <1>6, <1>7

\* A frame that may have been sent counts, whatever became of it.
LEMMA SendsGrow ==
  ASSUME Typed, Placed, Staffed, Started, Called, Phased, excursion,
         pc = "send_vector" \/ pc = "send_mode", UNCHANGED <<setting, memory, command>>,
         Goto(IF pc = "send_vector" THEN "drain_vector" ELSE "drain_mode") \/ Raise("transport")
  PROVE  SoFar + 1 <= SoFar'
BY DEF Typed, Words, Ordered, Found, Placed, Staffed, Started, Called, Phased, Place, SoFar,
   Before, Spent,
       Length, OriginalMode, Raise

LEMMA Sent_SendVector ==
  ASSUME Typed, Placed, Staffed, Started, Called, Phased, Sent, SendVector, SoFar <= SoFar'
  PROVE  Sent'
<1>1. /\ excursion /\ Declared[SoFar + 1] = call.ch /\ call.ch \in Frames
      /\ UNCHANGED <<setting, memory, command>>
  BY NextVector DEF SendVector, Typed, Ordered, Called
<1>2. CASE Give(call.ch) /\ (Goto("drain_vector") \/ Raise("transport"))
  BY <1>1, <1>2, SendsGrow, SentMore DEF SendVector, Typed
<1>3. CASE UNCHANGED sent
  BY <1>1, <1>3, SentOn
<1>4. QED
  BY <1>2, <1>3 DEF SendVector, Send

LEMMA Sent_SendMode ==
  ASSUME Typed, Placed, Staffed, Started, Called, Phased, Sent, SendMode, SoFar <= SoFar'
  PROVE  Sent'
<1>1. /\ excursion /\ Declared[SoFar + 1] = call.mode /\ call.mode \in Frames
      /\ UNCHANGED <<setting, memory, command>>
  BY NextMode DEF SendMode, Typed, Ordered
<1>2. CASE Give(call.mode) /\ (Goto("drain_mode") \/ Raise("transport"))
  BY <1>1, <1>2, SendsGrow, SentMore DEF SendMode, Typed
<1>3. CASE UNCHANGED sent
  BY <1>1, <1>3, SentOn
<1>4. QED
  BY <1>2, <1>3 DEF SendMode, Send

\* Apart from the two sends no step gives the lamp a frame, and once its excursion
\* has started a run keeps its worker and its baseline.
LEMMA Unsent ==
  ASSUME Placed, excursion, [Next]_vars
  PROVE  SendVector \/ SendMode \/ UNCHANGED <<sent, worker, baseline>>
<1>1. CASE Stop \/ Read \/ Drain \/ Barrier \/ BarrierFault
  BY <1>1 DEF Stop, Read, Connect, ReadSystem, ReadChannels, ReadFault, Drain, Barrier,
     BarrierFault
<1>2. CASE Prepare
  BY <1>2 DEF Prepare, Second, Intent, Admit, Placed, Place
<1>3. CASE Try
  BY <1>3 DEF Try, Experiment, ChannelChanged, OpticalChanged, SwitchedOff, Darkened, ResumedDark,
              SampleGuard, Sampled, Hold
<1>4. CASE CleanUp
  BY <1>4 DEF CleanUp, Recover, GuardedChannel, VectorRestored, ModeRestored, GuardedOff,
              ModeResumed, ZeroGuard, Restored, GuardedDark, DarkResumed
<1>5. CASE Finish \/ Handle \/ Program \/ Rival \/ Signal \/ UNCHANGED vars
  BY <1>5 DEF Finish, Handle, Program, Rival, Signal, vars
<1>6. QED
  BY <1>1, <1>2, <1>3, <1>4, <1>5 DEF Next, Worker, Write

\* What was sent is a selection of the frames declared so far.
LEMMA SentKept ==
  ASSUME Typed, Placed, Staffed, Started, Called, Phased, Judged, Sent, [Next]_vars
  PROVE  Sent'
<1>1. CASE excursion
  <2>1. SoFar <= SoFar'
    BY <1>1, GrowsKept
  <2>2. CASE SendVector \/ SendMode
    BY <2>1, <2>2, Sent_SendVector, Sent_SendMode
  <2>3. CASE UNCHANGED <<sent, worker, baseline>>
    BY <1>1, <2>1, <2>3, SentOn
  <2>4. QED
    BY <1>1, <2>2, <2>3, Unsent
<1>2. CASE ~excursion /\ excursion'
  <2>1. Admit
    BY <1>2 DEF Next, Worker, Read, Write, Prepare, Try, CleanUp, vars, Stop, Connect, ReadSystem,
                ReadChannels, ReadFault, SendVector, SendMode, Drain, Barrier, BarrierFault,
                Second,
                Intent, Experiment, ChannelChanged, OpticalChanged, SwitchedOff, Darkened,
                ResumedDark,
                SampleGuard, Sampled, Hold, Recover, GuardedChannel, VectorRestored, ModeRestored,
                GuardedOff, ModeResumed, ZeroGuard, Restored, GuardedDark, DarkResumed, Finish,
                Handle,
                Program, Rival, Signal
  <2>2. sent' = <<>>
    BY <1>2, <2>1 DEF Started, Admit
  <2>3. Keeps({})'
    BY <2>2, FS_EmptySet DEF Keeps
  <2>4. {} \in SUBSET (1..SoFar')
    OBVIOUS
  <2>5. QED
    BY <2>3, <2>4 DEF Sent
<1>3. CASE ~excursion'
  BY <1>3 DEF Sent
<1>4. QED
  BY <1>1, <1>2, <1>3

-----------------------------------------------------------------------------
(* The invariant. *)

\* The invariant holds at the start.
LEMMA InitInv == Init => IInv
<1> SUFFICES ASSUME Init PROVE IInv
  OBVIOUS
<1> USE DEF Init, OriginalMode
<1>0. Marks
  BY DEF Marks
<1>1. Counts
  BY WorkersAssumption DEF Counts
<1>2. Words /\ Ordered
  BY WorkersAssumption DEF Words, Ordered
<1>3. Found
  BY WorkersAssumption DEF Found
<1>4. Streams
  BY DEF Streams
<1>5. Placed /\ Staffed /\ Started /\ Called
  BY DEF Placed, Staffed, Started, Called, Place
<1>6. Phased /\ Judged /\ Mirrored /\ Concluded
  BY DEF Phased, Judged, Mirrored, Concluded, Place
<1>7. Sent /\ Remembered
  BY DEF Sent, Remembered
<1>8. QED
  BY <1>0, <1>1, <1>2, <1>3, <1>4, <1>5, <1>6, <1>7 DEF IInv, Typed

\* Every step keeps the invariant.
LEMMA NextInv == IInv /\ [Next]_vars => IInv'
<1> SUFFICES ASSUME IInv, [Next]_vars PROVE IInv'
  OBVIOUS
<1>1. /\ Typed /\ Marks /\ Words /\ Counts /\ Found /\ Ordered /\ Streams
      /\ Placed /\ Staffed /\ Started /\ Called /\ Phased /\ Judged
      /\ Sent /\ Remembered /\ Mirrored /\ Concluded
  BY DEF IInv, Typed
<1>2. Marks' /\ Words' /\ Counts'
  BY <1>1, MarksKept, WordsKept, CountsKept
<1>3. Found' /\ Ordered' /\ Streams'
  BY <1>1, FoundKept, OrderedKept, StreamsKept
<1>4. Typed'
  BY <1>2, <1>3 DEF Typed
<1>5. Placed' /\ Staffed' /\ Started' /\ Called'
  BY <1>1, PlacedKept, StaffedKept, StartedKept, CalledKept
<1>6. Phased' /\ Judged' /\ Sent'
  BY <1>1, PhasedKept, JudgedKept, SentKept
<1>7. Remembered' /\ Mirrored' /\ Concluded'
  BY <1>1, RememberedKept, MirroredKept, ConcludedKept
<1>8. QED
  BY <1>4, <1>5, <1>6, <1>7 DEF IInv

LEMMA Invariance == Spec => []IInv
BY InitInv, NextInv, PTL DEF Spec

-----------------------------------------------------------------------------
(* Runs in which nothing but stop requests goes wrong. *)

Calm ==
  /\ moves = 0 /\ faults = 0 /\ excursion /\ baseline.mode = Manual
  /\ worker = "dark" => kind = "clears"

\* What a frame other than Automatic makes of a state of the lamp.
Turned(state, frame) ==
  CASE frame \in Vectors -> [state EXCEPT !.ch = frame]
    [] frame = Shutdown ->
         [mode |-> Shutdown, ch |-> IF kind = "retains" THEN state.ch ELSE "zero"]
    [] OTHER ->
         [mode |-> Manual,
          ch |-> IF state.mode = Shutdown /\ kind = "returns" THEN baseline.ch ELSE state.ch]

\* What the lamp will be when it has handled what is under way.
Final ==
  CASE wire = <<>> -> lamp
    [] Len(wire) = 1 -> Turned(lamp, wire[1])
    [] OTHER -> Turned(Turned(lamp, wire[1]), wire[2])

Lit == [mode |-> Manual, ch |-> "changed"]
Dimmed == [mode |-> Shutdown, ch |-> IF kind = "retains" THEN baseline.ch ELSE "zero"]
Dark == [mode |-> Manual, ch |-> "zero"]
Resumed == [mode |-> Manual, ch |-> IF kind = "clears" THEN "zero" ELSE baseline.ch]

\* The state that a place of the script waits for.
Aim(place) ==
  CASE place = "experimented" -> IF Lenient THEN Lit ELSE Dimmed
    [] place = "darkened" -> Dimmed
    [] place \in {"resumed_dark", "sample_guard", "dark_resumed", "zero_guard"} -> Dark
    [] place \in {"sampled", "hold"} -> Lit
    [] place = "mode_resumed" -> Resumed
    [] OTHER -> baseline             \* "experiment", "vector_restored", "restored"

\* What a stopped experiment leaves.
Left ==
  /\ Lenient => Final \in {baseline, Lit}
  /\ worker \in OffWorkers =>
       /\ phase \in {"original", "off"} /\ Final \in {baseline, Dimmed}
       /\ Final = Dimmed => phase = "off"
       /\ owned # NoState => Final = Dimmed /\ owned = Dimmed
  /\ worker = "dark" =>
       /\ progress \in {"none", "barrier"}
       /\ Final = CASE phase = "original" -> baseline
                    [] phase = "off" -> Dimmed
                    [] phase = "manual" -> Dark
                    [] OTHER -> Lit

\* The lamp and the frames under way.
Wired ==
  /\ still /\ lamp.mode # Automatic
  /\ Len(wire) \in {0, 1, 2} /\ \A k \in 1..Len(wire) : wire[k] # Automatic
  /\ pc \in {"experiment", "send_vector"} => wire = <<>>
  /\ pc = "send_mode" /\ call.ch = None => wire = <<>>
  /\ pc \in {"drain_vector", "send_mode"} => Len(wire) \in {0, 1}
  /\ pc \in {"finish", "done"} => wire = <<>> /\ lamp = baseline

\* A command leads to the state that its place waits for.
Headed ==
  /\ pc = "send_vector" => Turned(Turned(Final, call.ch), call.mode) = Aim(ret)
  /\ pc \in {"drain_vector", "send_mode"} => Turned(Final, call.mode) = Aim(ret)
  /\ /\ pc \notin {"send_vector", "drain_vector", "send_mode"}
     /\ Place \notin {"recover", "guarded", "finish", "done"}
     => Final = Aim(Place)

\* At every place the cleanup could begin, and what it needs to know further on.
Stoppable ==
  /\ unsafe => /\ worker = "optical" /\ Final = baseline
               /\ Place \in {"recover", "guarded", "finish", "done"}
  /\ ~cleaning \/ Place \in {"recover", "guarded"} =>
       Left \/ (worker = "dark" /\ pc \in Writes)
  /\ Place \in Commanded /\ pc \notin Writes => progress = "barrier"
  /\ Place = "mode_resumed" => (phase = "zero_off" <=> Dimmed.ch = "zero")

Course == Calm => Wired /\ Headed /\ Stoppable

\* Before the excursion nothing is owned and no command was begun; no read of an
\* experiment expects a mode.
Fresh ==
  /\ ~excursion => /\ progress = "none" /\ owned = NoState
                   /\ unsafe => pc \in {"finish", "done"}
  /\ moves = 0 => still
  /\ ~cleaning => want = None
-----------------------------------------------------------------------------
(* Frames under way. *)

\* Of short sequences.
LEMMA Lengths ==
  ASSUME NEW S, NEW s \in Seq(S)
  PROVE  /\ Len(s) \in Nat /\ (s = <<>> <=> Len(s) = 0)
         /\ s # <<>> => s[1] \in S
         /\ Len(s) = 2 => Len(Tail(s)) = 1 /\ Tail(s) # <<>> /\ Tail(s)[1] = s[2]
<1>1. Len(s) \in Nat /\ (s = <<>> <=> Len(s) = 0)
  BY EmptySeq
<1>2. s # <<>> => s[1] \in S
  BY <1>1, ElementOfSeq
<1>3. Len(s) = 2 => Len(Tail(s)) = 1 /\ Tail(s)[1] = s[2]
  BY <1>1, HeadTailProperties
<1>4. \A e : e = <<>> => Len(e) # 1
  OBVIOUS
<1>5. Len(s) = 2 => Tail(s) # <<>>
  BY <1>3, <1>4
<1>6. QED
  BY <1>1, <1>2, <1>3, <1>5

LEMMA Joined ==
  ASSUME NEW S, NEW s \in Seq(S), NEW e \in S, Len(s) = 1
  PROVE  /\ Len(Append(s, e)) = 2 /\ Append(s, e) # <<>>
         /\ Append(s, e)[1] = s[1] /\ Append(s, e)[2] = e
<1>1. Len(Append(s, e)) = 2 /\ Append(s, e)[1] = s[1] /\ Append(s, e)[2] = e
  BY AppendProperties
<1>2. Len(<<>>) = 0
  OBVIOUS
<1>3. QED
  BY <1>1, <1>2

LEMMA WireLengths ==
  ASSUME Streams
  PROVE  /\ Len(wire) \in Nat /\ (wire = <<>> <=> Len(wire) = 0)
         /\ wire # <<>> => wire[1] \in Frames
         /\ Len(wire) = 2 => Len(Tail(wire)) = 1 /\ Tail(wire) # <<>> /\ Tail(wire)[1] = wire[2]
<1> HIDE DEF Frames
<1>1. wire \in Seq(Frames)
  BY DEF Streams
<1>2. QED
  BY <1>1, Lengths, Zenon

LEMMA TurnedStates ==
  ASSUME Found, Words, NEW state \in States, NEW frame \in Frames, baseline \in States
  PROVE  Turned(state, frame) \in States
BY DEF Turned, Found, Words

\* A frame that is given comes after those under way.
LEMMA FinalGiven ==
  ASSUME Streams, NEW frame \in Frames, Len(wire) \in {0, 1}, Give(frame),
         UNCHANGED <<setting, memory>>,
         frame # Automatic, \A k \in 1..Len(wire) : wire[k] # Automatic
  PROVE  /\ Final' = Turned(Final, frame)
         /\ Len(wire') \in {1, 2} /\ (wire = <<>> => Len(wire') = 1)
         /\ \A k \in 1..Len(wire') : wire'[k] # Automatic
<1>1. UNCHANGED <<lamp, baseline, kind>> /\ wire' = Append(wire, frame) /\ wire \in Seq(Frames)
  BY DEF Streams
<1>2. \A state, one : Turned(state, one)' = Turned(state, one)
  BY <1>1 DEF Turned
<1>3. CASE wire = <<>>
  <2>1. Len(wire') = 1 /\ wire' # <<>> /\ wire'[1] = frame
    BY <1>1, <1>3
  <2>2. Final' = Turned(lamp, frame)
    BY <1>1, <1>2, <2>1 DEF Final
  <2>3. QED
    BY <1>3, <2>1, <2>2 DEF Final
<1>4. CASE wire # <<>>
  <2>1. Len(wire) = 1
    BY <1>1, <1>4, WireLengths
  <2>2. Len(wire') = 2 /\ wire' # <<>> /\ wire'[1] = wire[1] /\ wire'[2] = frame
    BY <1>1, <2>1, Joined
  <2>3. Final' = Turned(Turned(lamp, wire[1]), frame)
    BY <1>1, <1>2, <2>2 DEF Final
  <2>4. Final = Turned(lamp, wire[1])
    BY <2>1, <1>4 DEF Final
  <2>5. wire'[1] # Automatic
    BY <2>1, <2>2
  <2>6. QED
    BY <1>4, <2>2, <2>3, <2>4, <2>5
<1>5. QED
  BY <1>3, <1>4

\* Handling a frame changes nothing of what the lamp will be.
LEMMA FinalHandled ==
  ASSUME Typed, Wired, Handle, faults' = faults
  PROVE  /\ Final' = Final /\ UNCHANGED <<baseline, kind>> /\ wire # <<>>
         /\ Len(wire') \in {0, 1} /\ lamp'.mode # Automatic
         /\ \A k \in 1..Len(wire') : wire'[k] # Automatic
<1>1. /\ wire # <<>> /\ wire' = Tail(wire) /\ UNCHANGED <<baseline, kind>>
      /\ wire \in Seq(Frames) /\ faults \in Nat /\ lamp \in States
  BY DEF Handle, Typed, Streams, Counts, Found
<1>2. Len(wire) \in {1, 2}
  BY <1>1, WireLengths DEF Wired, Typed
<1>3. wire[1] # Automatic /\ Head(wire) = wire[1] /\ wire[1] \in Frames
  BY <1>1, <1>2, WireLengths DEF Wired, Typed
<1>4. lamp' = Turned(lamp, wire[1])
  BY <1>1, <1>3 DEF Handle, Obey, Obeyed, Turned
<1>5. \A state, one : Turned(state, one)' = Turned(state, one)
  BY <1>1 DEF Turned
<1>6. lamp'.mode # Automatic
  BY <1>1, <1>3, <1>4 DEF Turned, Wired
<1>7. CASE Len(wire) = 1
  <2>1. wire' = <<>>
    BY <1>1, <1>7
  <2>2. Len(wire') = 0 /\ \A k \in 1..Len(wire') : wire'[k] # Automatic
    BY <2>1
  <2>3. QED
    BY <1>1, <1>4, <1>6, <1>7, <2>1, <2>2 DEF Final
<1>8. CASE Len(wire) = 2
  <2>1. Len(wire') = 1 /\ wire' # <<>> /\ wire'[1] = wire[2]
    BY <1>1, <1>8, WireLengths DEF Typed
  <2>2. Final' = Turned(Turned(lamp, wire[1]), wire[2])
    BY <1>1, <1>4, <1>5, <2>1 DEF Final
  <2>3. Final = Turned(Turned(lamp, wire[1]), wire[2])
    BY <1>1, <1>8 DEF Final
  <2>4. wire[2] # Automatic
    BY <1>1, <1>8 DEF Wired
  <2>5. QED
    BY <1>1, <1>6, <2>1, <2>2, <2>3, <2>4
<1>9. QED
  BY <1>2, <1>7, <1>8

LEMMA FinalSame ==
  ASSUME UNCHANGED <<wire, lamp, baseline, kind>>
  PROVE  Final' = Final
BY DEF Final, Turned

LEMMA FinalSettled ==
  ASSUME wire = <<>>
  PROVE  Final = lamp
BY DEF Final
-----------------------------------------------------------------------------
(* Course: when nothing but stop requests goes wrong, the lamp is where the script is. *)

Pillars == /\ Typed /\ Placed /\ Staffed /\ Started /\ Called /\ Phased /\ Judged /\ Mirrored
           /\ Fresh /\ Course

\* A step within the excursion of a calm run was no fault.
LEMMA StaysCalm ==
  ASSUME Pillars, excursion, UNCHANGED <<setting, baseline, moves>>, Calm',
         UNCHANGED faults \/ Fault
  PROVE  /\ Calm /\ UNCHANGED faults /\ ~Fault
         /\ Wired /\ Headed /\ Stoppable
         /\ baseline = [mode |-> Manual, ch |-> baseline.ch] /\ baseline.ch \in Vectors
         /\ Dimmed' = Dimmed /\ Resumed' = Resumed
         /\ \A place : Aim(place)' = Aim(place)
<1>1. UNCHANGED faults /\ ~Fault
  BY DEF Calm, Pillars, Typed, Counts
<1>2. Calm
  BY <1>1 DEF Calm
<1>3. baseline \in States
  BY DEF Pillars, Started
<1>4. UNCHANGED <<worker, kind, baseline>>
  OBVIOUS
<1>5. Dimmed' = Dimmed /\ Resumed' = Resumed
  BY <1>4 DEF Dimmed, Resumed
<1>6. \A place : Aim(place)' = Aim(place)
  BY <1>4, <1>5 DEF Aim, Lit, Dark
<1>7. baseline = [mode |-> Manual, ch |-> baseline.ch] /\ baseline.ch \in Vectors
  BY <1>2, <1>3 DEF Calm
<1>8. QED
  BY <1>1, <1>2, <1>5, <1>6, <1>7 DEF Pillars, Course

LEMMA Course_Stop ==
  ASSUME Pillars, Stop, Calm'
  PROVE  Wired' /\ Headed' /\ Stoppable'
<1>1. /\ excursion /\ ~cleaning /\ UNCHANGED <<setting, baseline, moves, faults, lamp, wire, call, phase,
                                               owned, progress, still, ret, worker, kind>>
      /\ pc' = "recover" /\ cleaning' = TRUE
  BY DEF Stop, Raise, Calm, Stopping, Pillars, Placed
<1>2. /\ Calm /\ Wired /\ Headed /\ Stoppable /\ \A place : Aim(place)' = Aim(place)
      /\ Dimmed' = Dimmed
  BY <1>1, StaysCalm
<1>3. Final' = Final
  BY <1>1, FinalSame
<1>4. Wired'
  BY <1>1, <1>2 DEF Wired
<1>5. Headed'
  BY <1>1 DEF Headed, Place
<1>6. worker = "dark" => pc \notin Writes
  BY DEF Stop, Stopping, Sending
<1>7. unsafe' = unsafe
  BY <1>6, <1>1 DEF Stop, Raise, Latches, Sending, Pillars, Typed, Marks
<1>8. Left /\ Left'
  BY <1>1, <1>2, <1>3, <1>6 DEF Stoppable, Left, Lit, Dark
<1>9. QED
  BY <1>1, <1>2, <1>3, <1>4, <1>5, <1>7, <1>8 DEF Stoppable, Place

LEMMA Course_Connect ==
  ASSUME Pillars, Connect, Calm'
  PROVE  Wired' /\ Headed' /\ Stoppable'
<1>1. /\ excursion /\ UNCHANGED <<setting, baseline, moves, lamp, call, phase, cleaning, unsafe, may,
                                  owned, progress, still, ret, worker, kind>>
      /\ pc = "connect" /\ pc' = "system" /\ wire' = <<>>
  BY DEF Connect, Calm
<1>2. wire = <<>> /\ UNCHANGED <<faults, wire>>
  BY <1>1 DEF Connect, Calm, Pillars, Typed, Counts
<1>3. /\ Calm /\ Wired /\ Headed /\ Stoppable /\ \A place : Aim(place)' = Aim(place)
      /\ Dimmed' = Dimmed
  BY <1>1, <1>2, StaysCalm
<1>4. Final' = Final
  BY <1>1, <1>2, FinalSame
<1>5. Wired'
  BY <1>1, <1>2, <1>3 DEF Wired
<1>6. Headed'
  BY <1>1, <1>3, <1>4 DEF Headed, Place
<1>7. Left' <=> Left
  BY <1>1, <1>3, <1>4 DEF Left, Lit, Dark
<1>8. QED
  BY <1>1, <1>2, <1>3, <1>4, <1>5, <1>6, <1>7 DEF Stoppable, Place

\* The mode that a read finds is the one that is waited for.
LEMMA ExpectedMode ==
  ASSUME Pillars, Calm, Wired, Headed, Stoppable, pc \in {"system", "channels"}, wire = <<>>, excursion,
         baseline = [mode |-> Manual, ch |-> baseline.ch]
  PROVE  /\ lamp.mode \in ReadableModes
         /\ want # None => lamp.mode = want
<1>1. Final = lamp
  BY FinalSettled
<1>2. ret \in Trial \cup Repair
  BY DEF Pillars, Typed, Words, Placed, Place
<1>3. CASE ret = "guarded"
  <2>1. Left /\ want = GuardMode
    BY <1>3 DEF Pillars, Judged, Stoppable, Place
  <2>2. CASE Lenient
    BY <1>1, <2>1, <2>2 DEF Left, Lit, GuardMode, ReadableModes, Calm
  <2>3. CASE worker \in OffWorkers
    BY <1>1, <2>1, <2>3 DEF Left, Dimmed, GuardMode, ReadableModes, Calm
  <2>4. CASE worker = "dark"
    <3>1. call.mode = IF phase = "off" THEN Shutdown ELSE Manual
      BY <1>3, <2>4 DEF Pillars, Phased, Place
    <3>2. QED
      BY <1>1, <2>1, <2>4, <3>1 DEF Left, Dimmed, Dark, Lit, GuardMode, ReadableModes, Calm
  <2>5. QED
    BY <2>2, <2>3, <2>4 DEF Pillars, Typed, Words
<1>4. CASE ret # "guarded"
  <2>1. lamp = Aim(ret)
    BY <1>1, <1>2, <1>4 DEF Headed, Place
  <2>2. ret \in Trial => want = None
    BY DEF Pillars, Placed, Fresh, Place
  <2>3. lamp.mode = call.mode
    BY <1>2, <1>4, <2>1 DEF Pillars, Called, Staffed, Place, Aim, Lit, Dark, Dimmed, Resumed, Calm
  <2>4. Lenient => lamp.mode = Manual
    BY <1>2, <1>4, <2>1 DEF Pillars, Staffed, Place, Aim, Lit, Calm
  <2>5. ret \in Repair => want = call.mode
    BY <1>2, <1>4 DEF Pillars, Called, Judged, Place
  <2>6. lamp \in States
    BY DEF Pillars, Typed, Found
  <2>7. QED
    BY <1>2, <2>2, <2>3, <2>4, <2>5, <2>6 DEF ReadableModes, Pillars, Typed, Words
<1>5. QED
  BY <1>3, <1>4

LEMMA Course_ReadSystem ==
  ASSUME Pillars, ReadSystem, Calm'
  PROVE  Wired' /\ Headed' /\ Stoppable'
<1>1. /\ excursion /\ UNCHANGED <<setting, baseline, moves, faults, lamp, wire, call, phase,
                                  owned, progress, ret, worker, kind>>
      /\ pc = "system" /\ wire = <<>> /\ still' = TRUE
  BY DEF ReadSystem, Raise, Goto, Calm
<1>2. /\ Calm /\ Wired /\ Headed /\ Stoppable /\ \A place : Aim(place)' = Aim(place)
      /\ Dimmed' = Dimmed /\ baseline = [mode |-> Manual, ch |-> baseline.ch]
  BY <1>1, StaysCalm
<1>3. Final' = Final
  BY <1>1, FinalSame
<1>4. lamp.mode \in ReadableModes
  BY <1>1, <1>2, ExpectedMode
<1>5. pc' = "channels" /\ UNCHANGED <<cleaning, unsafe>>
  BY <1>4 DEF ReadSystem, Goto
<1>6. Wired'
  BY <1>1, <1>2, <1>5 DEF Wired
<1>7. Headed'
  BY <1>1, <1>2, <1>3, <1>5 DEF Headed, Place
<1>8. Left' <=> Left
  BY <1>1, <1>2, <1>3 DEF Left, Lit, Dark
<1>9. QED
  BY <1>1, <1>2, <1>3, <1>5, <1>6, <1>7, <1>8 DEF Stoppable, Place

LEMMA Course_ReadChannels ==
  ASSUME Pillars, ReadChannels, Calm'
  PROVE  Wired' /\ Headed' /\ Stoppable'
<1>1. /\ excursion /\ UNCHANGED <<setting, baseline, moves, faults, lamp, wire, call, phase,
                                  owned, progress, ret, still, worker, kind>>
      /\ pc = "channels"
  BY DEF ReadChannels, Raise, Goto, Calm
<1>2. /\ Calm /\ Wired /\ Headed /\ Stoppable /\ \A place : Aim(place)' = Aim(place)
      /\ Dimmed' = Dimmed /\ baseline = [mode |-> Manual, ch |-> baseline.ch]
  BY <1>1, StaysCalm
<1>3. Final' = Final
  BY <1>1, FinalSame
<1>4. wire = <<>> /\ lamp.mode = seen
  BY <1>1, <1>2 DEF Pillars, Mirrored, Wired
<1>5. seen \in ReadableModes /\ (want # None => seen = want)
  BY <1>1, <1>2, <1>4, ExpectedMode
<1>6. pc' = ret /\ UNCHANGED <<cleaning, unsafe>>
  BY <1>5 DEF ReadChannels, Goto
<1>7. ret \in Trial \cup Repair
  BY <1>1 DEF Pillars, Typed, Words, Placed, Place
<1>8. Wired'
  BY <1>1, <1>2, <1>6, <1>7 DEF Wired
<1>9. Headed'
  BY <1>1, <1>2, <1>3, <1>6, <1>7 DEF Headed, Place
<1>10. Left' <=> Left
  BY <1>1, <1>2, <1>3 DEF Left, Lit, Dark
<1>11. QED
  BY <1>1, <1>2, <1>3, <1>6, <1>7, <1>8, <1>9, <1>10 DEF Stoppable, Place

LEMMA Course_ReadFault ==
  ASSUME Pillars, ReadFault, Calm'
  PROVE  FALSE
<1>1. excursion /\ UNCHANGED <<setting, baseline, moves>> /\ Fault
  BY DEF ReadFault, Calm
<1>2. QED
  BY <1>1, StaysCalm

LEMMA Course_BarrierFault ==
  ASSUME Pillars, BarrierFault, Calm'
  PROVE  FALSE
<1>1. excursion /\ UNCHANGED <<setting, baseline, moves>> /\ Fault
  BY DEF BarrierFault, Calm
<1>2. QED
  BY <1>1, StaysCalm

\* What a command makes of the lamp does not depend on where the script is.
LEMMA TurnedSame ==
  ASSUME UNCHANGED <<kind, baseline>>
  PROVE  \A state, frame : Turned(state, frame)' = Turned(state, frame)
BY DEF Turned

\* What an experiment has left by its commands so far, whatever of them was handled.
LEMMA LeftOn ==
  ASSUME Pillars, Calm, Wired, Headed, Stoppable, Left, ~cleaning, worker # "dark",
         pc \in {"send_vector", "send_mode"}, NEW frame,
         frame = IF pc = "send_vector" THEN call.ch ELSE call.mode
  PROVE  /\ Lenient => Turned(Final, frame) \in {baseline, Lit}
         /\ worker \in OffWorkers => Turned(Final, frame) = Dimmed /\ phase = "off"
<1>1. ret = "experimented"
  BY DEF Pillars, Placed, Place, Staffed, Typed, Words
<1>2. /\ Lenient => call = Lit /\ frame \in {"changed", Manual}
      /\ worker \in OffWorkers => call = [ch |-> None, mode |-> Shutdown]
  BY <1>1 DEF Pillars, Called, Place, Lit
<1>3. worker \in OffWorkers => frame = Shutdown /\ phase = "off"
  BY <1>1, <1>2 DEF Pillars, Called, Phased, Place
<1>4. baseline.mode = Manual /\ baseline = [mode |-> Manual, ch |-> baseline.ch]
  BY DEF Calm, Pillars, Started
<1>5. CASE Lenient
  <2>1. Turned(baseline, "changed") = Lit /\ Turned(Lit, "changed") = Lit
    BY <1>4 DEF Turned, Lit
  <2>2. Turned(baseline, Manual) = baseline /\ Turned(Lit, Manual) = Lit
    BY <1>4 DEF Turned, Lit
  <2>3. QED
    BY <1>2, <1>5, <2>1, <2>2 DEF Left
<1>6. CASE worker \in OffWorkers
  BY <1>3, <1>4, <1>6 DEF Left, Dimmed, Turned
<1>7. Lenient \/ worker \in OffWorkers
  BY DEF Pillars, Typed, Words
<1>8. QED
  BY <1>5, <1>6, <1>7

LEMMA Course_SendVector ==
  ASSUME Pillars, SendVector, Calm'
  PROVE  Wired' /\ Headed' /\ Stoppable'
<1>1. /\ excursion /\ UNCHANGED <<setting, memory, moves, command, ret, still, worker, kind, baseline,
                                  call, phase, owned, progress>>
      /\ pc = "send_vector" /\ (UNCHANGED faults \/ Fault)
  BY DEF SendVector, Send, Raise, Calm
<1>2. /\ Calm /\ Wired /\ Headed /\ Stoppable /\ \A place : Aim(place)' = Aim(place)
      /\ Dimmed' = Dimmed /\ UNCHANGED faults /\ ~Fault
      /\ baseline = [mode |-> Manual, ch |-> baseline.ch]
  BY <1>1, StaysCalm
<1>3. Give(call.ch) /\ Goto("drain_vector")
  BY <1>2 DEF SendVector, Send
<1>4. call.ch \in Vectors /\ call.ch # Automatic
  BY <1>1 DEF Pillars, Typed, Ordered, Called
<1>5. wire = <<>> /\ Len(wire) \in {0, 1} /\ \A k \in 1..Len(wire) : wire[k] # Automatic
  BY <1>1, <1>2, WireLengths DEF Wired, Pillars, Typed
<1>6. /\ Final' = Turned(Final, call.ch) /\ Len(wire') = 1
      /\ \A k \in 1..Len(wire') : wire'[k] # Automatic
  BY <1>1, <1>3, <1>4, <1>5, FinalGiven DEF Pillars, Typed
<1>7. \A state, frame : Turned(state, frame)' = Turned(state, frame)
  BY <1>1, TurnedSame
<1>8. pc' = "drain_vector" /\ UNCHANGED <<lamp, cleaning, unsafe>>
  BY <1>3
<1>9. Wired'
  BY <1>1, <1>2, <1>6, <1>8 DEF Wired
<1>10. Headed'
  BY <1>1, <1>2, <1>6, <1>7, <1>8 DEF Headed, Place
<1>11. Stoppable'
  <2>1. ~unsafe
    BY <1>1, <1>2 DEF Stoppable, Place, Pillars, Placed
  <2>2. CASE cleaning
    BY <1>1, <1>2, <1>8, <2>1, <2>2 DEF Stoppable, Place, Pillars, Placed
  <2>3. CASE ~cleaning
    BY <1>1, <1>2, <1>6, <1>8, <2>1, <2>3, LeftOn DEF Stoppable, Left, Place, Lit, Dark
  <2>4. QED
    BY <2>2, <2>3
<1>12. QED
  BY <1>9, <1>10, <1>11

LEMMA Course_SendMode ==
  ASSUME Pillars, SendMode, Calm'
  PROVE  Wired' /\ Headed' /\ Stoppable'
<1>1. /\ excursion /\ UNCHANGED <<setting, memory, moves, command, ret, still, worker, kind, baseline,
                                  call, phase, owned, progress>>
      /\ pc = "send_mode" /\ (UNCHANGED faults \/ Fault)
  BY DEF SendMode, Send, Raise, Calm
<1>2. /\ Calm /\ Wired /\ Headed /\ Stoppable /\ \A place : Aim(place)' = Aim(place)
      /\ Dimmed' = Dimmed /\ UNCHANGED faults /\ ~Fault
      /\ baseline = [mode |-> Manual, ch |-> baseline.ch]
  BY <1>1, StaysCalm
<1>3. Give(call.mode) /\ Goto("drain_mode")
  BY <1>2 DEF SendMode, Send
<1>4. call.mode \in Modes /\ call.mode # Automatic
  BY <1>1, <1>2 DEF Pillars, Typed, Ordered, Called, Calm, Place, Placed, Staffed
<1>5. Len(wire) \in {0, 1} /\ \A k \in 1..Len(wire) : wire[k] # Automatic
  BY <1>1, <1>2 DEF Wired
<1>6. /\ Final' = Turned(Final, call.mode) /\ Len(wire') \in {0, 1, 2}
      /\ \A k \in 1..Len(wire') : wire'[k] # Automatic
  BY <1>1, <1>3, <1>4, <1>5, FinalGiven DEF Pillars, Typed
<1>7. \A state, frame : Turned(state, frame)' = Turned(state, frame)
  BY <1>1, TurnedSame
<1>8. pc' = "drain_mode" /\ UNCHANGED <<lamp, cleaning, unsafe>>
  BY <1>3
<1>9. Wired'
  BY <1>1, <1>2, <1>6, <1>8 DEF Wired
<1>10. Headed'
  BY <1>1, <1>2, <1>6, <1>7, <1>8 DEF Headed, Place
<1>11. Stoppable'
  <2>1. ~unsafe
    BY <1>1, <1>2 DEF Stoppable, Place, Pillars, Placed
  <2>2. CASE cleaning
    BY <1>1, <1>2, <1>8, <2>1, <2>2 DEF Stoppable, Place, Pillars, Placed
  <2>3. CASE ~cleaning
    BY <1>1, <1>2, <1>6, <1>8, <2>1, <2>3, LeftOn DEF Stoppable, Left, Place, Lit, Dark
  <2>4. QED
    BY <2>2, <2>3
<1>12. QED
  BY <1>9, <1>10, <1>11

\* A step that gives no frame and stays in its operation.
LEMMA Course_Drain ==
  ASSUME Pillars, Drain, Calm'
  PROVE  Wired' /\ Headed' /\ Stoppable'
<1>1. /\ excursion /\ UNCHANGED <<setting, lamp, wire, moves, ret, still, worker, kind, baseline, call, phase,
                                  owned>>
      /\ pc \in {"drain_vector", "drain_mode"} /\ (UNCHANGED faults \/ Fault)
  BY DEF Drain, Raise, Calm
<1>2. /\ Calm /\ Wired /\ Headed /\ Stoppable /\ \A place : Aim(place)' = Aim(place)
      /\ Dimmed' = Dimmed /\ ~Fault
  BY <1>1, StaysCalm
<1>3. Final' = Final /\ \A state, frame : Turned(state, frame)' = Turned(state, frame)
  BY <1>1, FinalSame, TurnedSame
<1>4. pc' = (IF pc = "drain_vector" THEN "send_mode" ELSE "barrier") /\ UNCHANGED <<cleaning, unsafe>>
  BY <1>2 DEF Drain
<1>5. pc = "drain_vector" => call.ch # None
  BY DEF Pillars, Called
<1>6. Wired'
  BY <1>1, <1>2, <1>4, <1>5 DEF Wired
<1>7. Headed'
  BY <1>1, <1>2, <1>3, <1>4 DEF Headed, Place
<1>8. worker # "dark" => (Left' <=> Left)
  BY <1>1, <1>2, <1>3 DEF Left, Lit
<1>9. Place \notin {"recover", "guarded"}
  BY <1>1 DEF Pillars, Placed, Place
<1>10. QED
  BY <1>1, <1>2, <1>3, <1>4, <1>6, <1>7, <1>8, <1>9 DEF Stoppable, Place

LEMMA Course_Barrier ==
  ASSUME Pillars, Barrier, Calm'
  PROVE  Wired' /\ Headed' /\ Stoppable'
<1>1. /\ excursion /\ UNCHANGED <<setting, lamp, wire, moves, faults, still, worker, kind, baseline, call, phase,
                                  owned>>
      /\ pc = "barrier" /\ wire = <<>>
  BY DEF Barrier, Calm
<1>2. /\ Calm /\ Wired /\ Headed /\ Stoppable /\ \A place : Aim(place)' = Aim(place)
      /\ Dimmed' = Dimmed
  BY <1>1, StaysCalm
<1>3. Final' = Final /\ Final = lamp
  BY <1>1, FinalSame, FinalSettled
<1>4. ret \in Commanded /\ ret # "guarded"
  BY <1>1 DEF Pillars, Placed
<1>5. lamp.mode = call.mode
  BY <1>1, <1>2, <1>3, <1>4 DEF Headed, Pillars, Called, Staffed, Place, Aim, Lit, Dark, Dimmed, Resumed, Calm
<1>6. pc' = "connect" /\ progress' = "barrier" /\ UNCHANGED <<ret, cleaning, unsafe>>
  BY <1>5 DEF Barrier
<1>7. Wired'
  BY <1>1, <1>2, <1>6 DEF Wired
<1>8. Headed'
  BY <1>1, <1>2, <1>3, <1>4, <1>6 DEF Headed, Place
<1>9. ~cleaning => Left'
  <2>1. CASE worker # "dark"
    BY <1>1, <1>2, <1>3, <2>1 DEF Stoppable, Left, Lit
  <2>2. CASE worker = "dark" /\ ~cleaning
    <3>1. Final = Aim(ret) /\ ret \in {"darkened", "resumed_dark", "sampled"}
      BY <1>1, <1>2, <1>4, <2>2 DEF Headed, Place, Pillars, Placed, Staffed
    <3>2. QED
      BY <1>1, <1>2, <1>3, <1>6, <2>2, <3>1 DEF Left, Aim, Pillars, Phased, Place, Lit, Dark
  <2>3. QED
    BY <2>1, <2>2
<1>10. QED
  BY <1>1, <1>2, <1>3, <1>4, <1>6, <1>7, <1>8, <1>9 DEF Stoppable, Place

\* Before the excursion a run is not calm in this sense.
LEMMA Course_Early ==
  ASSUME Pillars, Second \/ Intent, Calm'
  PROVE  FALSE
<1>1. excursion
  BY DEF Second, Intent, Raise, ReadFor, Calm
<1>2. QED
  BY <1>1 DEF Second, Intent, Pillars, Placed, Place

LEMMA Course_Admit ==
  ASSUME Pillars, Admit, Calm'
  PROVE  Wired' /\ Headed' /\ Stoppable'
<1>1. ~excursion /\ pc = "admit"
  BY DEF Admit, Pillars, Placed, Place
<1>2. /\ got = baseline /\ pc' = "experiment"
      /\ UNCHANGED <<worker, kind, lamp, wire, baseline, owned, progress, phase, cleaning, unsafe, still, moves,
                     faults>>
  BY <1>1 DEF Admit, Calm
<1>3. baseline.mode = Manual /\ (worker = "dark" => kind = "clears") /\ moves = 0
  BY <1>2 DEF Calm
<1>4. still /\ progress = "none" /\ owned = NoState /\ ~unsafe /\ ~cleaning
  BY <1>1, <1>3 DEF Pillars, Fresh, Placed
<1>5. wire = <<>> /\ lamp = baseline
  <2>1. wire = <<>> /\ lamp.mode = got.mode /\ lamp.ch = got.ch
    BY <1>1, <1>2, <1>3, <1>4 DEF Pillars, Mirrored
  <2>2. lamp \in States /\ got \in States
    BY <1>1 DEF Pillars, Typed, Found, Judged
  <2>3. QED
    BY <1>2, <2>1, <2>2
<1>6. Final' = baseline' /\ wire' = <<>> /\ lamp' = baseline'
  BY <1>2, <1>5 DEF Final
<1>7. phase = "original"
  BY <1>1 DEF Pillars, Started
<1>8. Len(wire') \in {0, 1} /\ \A k \in 1..Len(wire') : wire'[k] # Automatic
  BY <1>6
<1>9. Wired'
  BY <1>2, <1>3, <1>4, <1>6, <1>8 DEF Wired
<1>10. Headed'
  BY <1>2, <1>6 DEF Headed, Place, Aim
<1>11. Left'
  BY <1>2, <1>4, <1>6, <1>7, <1>3 DEF Left, Dimmed
<1>12. QED
  BY <1>2, <1>4, <1>9, <1>10, <1>11 DEF Stoppable, Place

\* A calm run at a place of the script: everything sent is handled, and what was read is
\* what the place waits for.
LEMMA CalmHere ==
  ASSUME Pillars, Calm', UNCHANGED <<setting, world, baseline, excursion, moves, still>>,
         UNCHANGED faults \/ Fault,
         pc \in Trial \cup Repair \cup {"experiment", "hold", "recover"}
  PROVE  /\ Calm /\ UNCHANGED faults /\ ~Fault /\ UNCHANGED <<worker, kind, lamp, wire>>
         /\ Wired /\ Headed /\ Stoppable
         /\ baseline.mode = Manual /\ baseline = [mode |-> Manual, ch |-> baseline.ch]
         /\ baseline.ch \in Vectors
         /\ Final' = Final /\ Dimmed' = Dimmed
         /\ \A place : Aim(place)' = Aim(place)
         /\ \A state, one : Turned(state, one)' = Turned(state, one)
         /\ pc \in {"recover", "guarded"} => Left
         /\ pc \notin {"recover", "guarded"} => ~unsafe /\ Final = Aim(pc)
         /\ pc = "experiment" => wire = <<>>
         /\ pc \in Trial \cup Repair => wire = <<>> /\ Final = lamp /\ got = lamp
<1>1. excursion /\ UNCHANGED <<worker, kind, lamp, wire>>
  BY DEF Calm
<1>2. /\ Calm /\ UNCHANGED faults /\ ~Fault
      /\ Wired /\ Headed /\ Stoppable
      /\ baseline.mode = Manual /\ baseline = [mode |-> Manual, ch |-> baseline.ch]
      /\ baseline.ch \in Vectors
      /\ Dimmed' = Dimmed /\ \A place : Aim(place)' = Aim(place)
  BY <1>1, StaysCalm DEF Calm
<1>3. /\ Final' = Final /\ \A state, one : Turned(state, one)' = Turned(state, one)
  BY <1>1, FinalSame, TurnedSame
<1>4. pc \notin Reads \cup Writes /\ Place = pc
  BY DEF Place
<1>5. pc \in {"recover", "guarded"} => Left
  BY <1>2, <1>4 DEF Stoppable
<1>6. pc \notin {"recover", "guarded"} => ~unsafe /\ Final = Aim(pc)
  BY <1>2, <1>4 DEF Stoppable, Headed
<1>7. pc = "experiment" => wire = <<>>
  BY <1>2 DEF Wired
<1>8. ASSUME pc \in Trial \cup Repair PROVE wire = <<>> /\ Final = lamp /\ got = lamp
  <2>1. wire = <<>> /\ lamp.mode = got.mode /\ (got.mode # Automatic => lamp.ch = got.ch)
    BY <1>2, <1>8 DEF Wired, Pillars, Mirrored
  <2>2. lamp \in States /\ got \in States /\ lamp.mode # Automatic
    BY <1>2, <1>8 DEF Wired, Pillars, Typed, Found, Judged
  <2>3. QED
    BY <2>1, <2>2, FinalSettled
<1>9. QED
  BY <1>1, <1>2, <1>3, <1>5, <1>6, <1>7, <1>8

\* A command begins that leads to the state its place waits for.
LEMMA CalmBegins ==
  ASSUME Wired, wire = <<>>, ~unsafe, Final' = Final,
         \A place : Aim(place)' = Aim(place),
         \A state, one : Turned(state, one)' = Turned(state, one),
         Dimmed' = Dimmed,
         UNCHANGED <<lamp, wire, still, cleaning, unsafe, worker>>,
         NEW ch, NEW mode, NEW place \in Commanded,
         call' = [ch |-> ch, mode |-> mode], progress' = "sending", ret' = place,
         pc' = IF ch = None THEN "send_mode" ELSE "send_vector",
         (IF ch = None THEN Turned(Final, mode) ELSE Turned(Turned(Final, ch), mode)) = Aim(place),
         ~cleaning => Left' \/ worker = "dark",
         place = "mode_resumed" => (phase' = "zero_off" <=> Dimmed.ch = "zero")
  PROVE  Wired' /\ Headed' /\ Stoppable'
<1>1. Len(wire') \in {0, 1} /\ wire' = <<>>
  BY DEF Wired
<1>2. Wired'
  BY <1>1 DEF Wired
<1>3. Headed'
  BY DEF Headed, Place
<1>4. Stoppable'
  BY DEF Stoppable, Place
<1>5. QED
  BY <1>2, <1>3, <1>4

\* Between the commands nothing changes but the place.
LEMMA CalmGoesOn ==
  ASSUME Wired, Final' = Final, \A place : Aim(place)' = Aim(place), Dimmed' = Dimmed,
         UNCHANGED <<lamp, wire, still, unsafe, worker>>,
         pc' \notin Writes \cup {"experiment", "finish", "done"},
         Place' \notin {"recover", "guarded"} => ~unsafe /\ Final = Aim(Place'),
         unsafe => worker = "optical" /\ Final = baseline',
         ~cleaning' \/ Place' \in {"recover", "guarded"} => Left',
         Place' \notin Commanded
  PROVE  Wired' /\ Headed' /\ Stoppable'
<1>1. Wired'
  BY DEF Wired
<1>2. Headed'
  BY DEF Headed
<1>3. Stoppable'
  BY DEF Stoppable
<1>4. QED
  BY <1>1, <1>2, <1>3

\* The end of a cleanup.
LEMMA CalmEnds ==
  ASSUME Wired, wire = <<>>, Final' = Final, Final = baseline, Final = lamp,
         UNCHANGED <<lamp, wire, still, unsafe, cleaning, worker, baseline>>,
         cleaning, unsafe => worker = "optical", pc' = "finish"
  PROVE  Wired' /\ Headed' /\ Stoppable'
<1>1. Wired'
  BY DEF Wired
<1>2. Headed' /\ Stoppable'
  BY DEF Headed, Stoppable, Place
<1>3. QED
  BY <1>1, <1>2

LEMMA Course_Experiment ==
  ASSUME Pillars, Experiment, Calm'
  PROVE  Wired' /\ Headed' /\ Stoppable'
<1>1. /\ UNCHANGED <<setting, world, baseline, excursion, owned, moves, still>> /\ pc = "experiment"
      /\ UNCHANGED faults \/ Fault
  BY DEF Experiment, TryChannel, TryOptical, TryOff, TryDark, Command, Raise
<1>2. /\ ~Fault /\ UNCHANGED <<worker, kind, lamp, wire, still, baseline, owned>>
      /\ Wired /\ Stoppable /\ wire = <<>> /\ ~unsafe /\ Final = baseline
      /\ baseline.mode = Manual /\ baseline = [mode |-> Manual, ch |-> baseline.ch]
      /\ Final' = Final /\ Dimmed' = Dimmed
      /\ \A place : Aim(place)' = Aim(place)
      /\ \A state, one : Turned(state, one)' = Turned(state, one)
  BY <1>1, CalmHere DEF Aim
<1>3. ~cleaning /\ Place = "experiment" /\ Left
  BY <1>1, <1>2 DEF Pillars, Placed, Place, Stoppable
<1>4. Calm /\ excursion
  BY <1>1, CalmHere DEF Calm
<1>5. CASE TryChannel \/ (worker = "optical" /\ Command("changed", Manual, phase, "experimented"))
  <2>1. /\ Lenient /\ call' = [ch |-> "changed", mode |-> Manual] /\ progress' = "sending"
        /\ ret' = "experimented" /\ pc' = "send_vector" /\ UNCHANGED <<cleaning, unsafe>>
    BY <1>2, <1>5 DEF TryChannel, Command
  <2>2. Turned(Turned(Final, "changed"), Manual) = Aim("experimented")
    BY <1>2, <2>1 DEF Turned, Aim, Lit
  <2>3. Left'
    BY <1>2, <1>3, <2>1 DEF Left
  <2>4. QED
    BY <1>2, <2>1, <2>2, <2>3, CalmBegins
<1>6. CASE worker = "optical" /\ Raise("unsafe") /\ UNCHANGED <<command, faults>>
  <2>1. pc' = "recover" /\ cleaning' = TRUE /\ unsafe' = TRUE
    BY <1>3, <1>4, <1>6 DEF Raise, Latches, Pillars, Typed, Marks
  <2>2. Left'
    BY <1>2, <1>6 DEF Left
  <2>3. Wired'
    BY <1>2, <2>1 DEF Wired
  <2>4. Headed' /\ Stoppable'
    BY <1>2, <1>6, <2>1, <2>2 DEF Headed, Stoppable, Place
  <2>5. QED
    BY <2>3, <2>4
<1>7. CASE TryOff
  <2>1. /\ worker \in OffWorkers /\ call' = [ch |-> None, mode |-> Shutdown] /\ progress' = "sending"
        /\ ret' = "experimented" /\ pc' = "send_mode" /\ phase' = "off" /\ UNCHANGED <<cleaning, unsafe>>
    BY <1>2, <1>7 DEF TryOff, Command
  <2>2. Turned(Final, Shutdown) = Aim("experimented")
    BY <1>2, <2>1 DEF Turned, Aim, Dimmed
  <2>3. owned = NoState \/ Final = Dimmed
    BY <1>3, <2>1 DEF Left
  <2>4. Left'
    BY <1>2, <1>3, <2>1, <2>3 DEF Left
  <2>5. QED
    BY <1>2, <2>1, <2>2, <2>4, CalmBegins
<1>8. CASE TryDark
  <2>1. /\ worker = "dark" /\ call' = [ch |-> None, mode |-> Shutdown] /\ progress' = "sending"
        /\ ret' = "darkened" /\ pc' = "send_mode" /\ UNCHANGED <<cleaning, unsafe>>
    BY <1>2, <1>8 DEF TryDark, Command
  <2>2. Turned(Final, Shutdown) = Aim("darkened")
    BY <1>2, <2>1 DEF Turned, Aim, Dimmed
  <2>3. QED
    BY <1>2, <2>1, <2>2, CalmBegins
<1>9. QED
  BY <1>5, <1>6, <1>7, <1>8 DEF Experiment, TryOptical

LEMMA Course_Changed ==
  ASSUME Pillars, ChannelChanged \/ OpticalChanged, Calm'
  PROVE  Wired' /\ Headed' /\ Stoppable'
<1>1. /\ UNCHANGED <<setting, world, baseline, excursion, owned, moves, still, faults, phase, progress>>
      /\ pc = "experimented"
  BY DEF ChannelChanged, OpticalChanged
<1>2. /\ UNCHANGED <<worker, kind, lamp, wire, still, baseline, owned, phase, progress>>
      /\ Wired /\ Stoppable /\ ~unsafe /\ Final = Aim("experimented") /\ got = Final
      /\ Final' = Final /\ Dimmed' = Dimmed
      /\ \A place : Aim(place)' = Aim(place)
  BY <1>1, CalmHere
<1>3. ~cleaning /\ Place = "experimented" /\ Left
  BY <1>1, <1>2 DEF Pillars, Placed, Place, Stoppable
<1>4. Lenient /\ Final = Lit
  BY <1>2 DEF ChannelChanged, OpticalChanged, Aim
<1>5. Confirmed(Manual, {"changed"})
  BY <1>2, <1>4 DEF Confirmed, Lit
<1>6. Left'
  BY <1>2, <1>3 DEF Left, Lit
<1>7. /\ unsafe' = unsafe
      /\ \/ pc' = "recover" /\ cleaning' = TRUE
         \/ pc' = "hold" /\ cleaning' = cleaning
  BY <1>5 DEF ChannelChanged, OpticalChanged, Succeed
<1>8. Aim("hold") = Lit
  BY DEF Aim
<1>9. QED
  BY <1>2, <1>4, <1>6, <1>7, <1>8, CalmGoesOn DEF Place

LEMMA Course_SwitchedOff ==
  ASSUME Pillars, SwitchedOff, Calm'
  PROVE  Wired' /\ Headed' /\ Stoppable'
<1>1. /\ UNCHANGED <<setting, world, baseline, excursion, moves, still, faults, phase, progress>>
      /\ pc = "experimented" /\ worker \in OffWorkers
  BY DEF SwitchedOff
<1>2. /\ UNCHANGED <<worker, kind, lamp, wire, still, baseline, phase, progress>>
      /\ Wired /\ Stoppable /\ ~unsafe /\ Final = Aim("experimented") /\ got = Final
      /\ Final' = Final /\ Dimmed' = Dimmed
      /\ \A place : Aim(place)' = Aim(place)
  BY <1>1, CalmHere
<1>3. ~cleaning /\ Place = "experimented" /\ Left
  BY <1>1, <1>2 DEF Pillars, Placed, Place, Stoppable
<1>4. Final = Dimmed
  BY <1>1, <1>2 DEF Aim
<1>5. Confirmed(Shutdown, {baseline.ch, "zero"})
  BY <1>2, <1>4 DEF Confirmed, Dimmed
<1>6. owned' = Dimmed /\ unsafe' = unsafe /\ pc' = "recover" /\ cleaning' = TRUE
  BY <1>2, <1>4, <1>5 DEF SwitchedOff, Succeed
<1>7. Left'
  BY <1>1, <1>2, <1>3, <1>4, <1>6 DEF Left
<1>8. QED
  BY <1>2, <1>6, <1>7, CalmGoesOn DEF Place

LEMMA Course_Darkened ==
  ASSUME Pillars, Darkened, Calm'
  PROVE  Wired' /\ Headed' /\ Stoppable'
<1>1. /\ UNCHANGED <<setting, world, baseline, excursion, moves, still>>
      /\ pc = "darkened" /\ (UNCHANGED faults \/ Fault)
  BY DEF Darkened, Command, Raise
<1>2. /\ UNCHANGED <<worker, kind, lamp, wire, still, baseline>> /\ ~Fault
      /\ Wired /\ Calm /\ ~unsafe /\ Final = Aim("darkened") /\ got = Final /\ wire = <<>>
      /\ Final' = Final /\ Dimmed' = Dimmed
      /\ \A place : Aim(place)' = Aim(place)
      /\ \A state, one : Turned(state, one)' = Turned(state, one)
  BY <1>1, CalmHere
<1>3. worker = "dark" /\ kind = "clears"
  BY <1>1, <1>2 DEF Pillars, Staffed, Place, Calm
<1>4. Final = [mode |-> Shutdown, ch |-> "zero"]
  BY <1>2, <1>3 DEF Aim, Dimmed
<1>5. /\ call' = [ch |-> None, mode |-> Manual] /\ progress' = "sending"
      /\ ret' = "resumed_dark" /\ pc' = "send_mode" /\ UNCHANGED <<cleaning, unsafe>>
  BY <1>2, <1>4 DEF Darkened, Confirmed, Command
<1>6. Turned(Final, Manual) = Aim("resumed_dark")
  BY <1>3, <1>4 DEF Turned, Aim, Dark
<1>7. QED
  BY <1>2, <1>3, <1>5, <1>6, CalmBegins

LEMMA Course_ResumedDark ==
  ASSUME Pillars, ResumedDark, Calm'
  PROVE  Wired' /\ Headed' /\ Stoppable'
<1>1. /\ UNCHANGED <<setting, world, baseline, excursion, owned, moves, still, faults, phase, progress>>
      /\ pc = "resumed_dark"
  BY DEF ResumedDark
<1>2. /\ UNCHANGED <<worker, kind, lamp, wire, still, baseline, owned, phase, progress>>
      /\ Wired /\ Stoppable /\ ~unsafe /\ Final = Aim("resumed_dark") /\ got = Final
      /\ Final' = Final /\ Dimmed' = Dimmed
      /\ \A place : Aim(place)' = Aim(place)
  BY <1>1, CalmHere
<1>3. ~cleaning /\ Place = "resumed_dark" /\ Left
  BY <1>1, <1>2 DEF Pillars, Placed, Place, Stoppable
<1>4. Final = Dark /\ Aim("sample_guard") = Dark
  BY <1>2 DEF Aim
<1>5. Confirmed(Manual, {"zero"})
  BY <1>2, <1>4 DEF Confirmed, Dark
<1>6. Left'
  BY <1>2, <1>3 DEF Left, Lit, Dark
<1>7. pc' = "connect" /\ ret' = "sample_guard" /\ UNCHANGED <<cleaning, unsafe>>
  BY <1>5 DEF ResumedDark
<1>8. QED
  BY <1>2, <1>4, <1>6, <1>7, CalmGoesOn DEF Place

LEMMA Course_SampleGuard ==
  ASSUME Pillars, SampleGuard, Calm'
  PROVE  Wired' /\ Headed' /\ Stoppable'
<1>1. /\ UNCHANGED <<setting, world, baseline, excursion, moves, still>>
      /\ pc = "sample_guard" /\ (UNCHANGED faults \/ Fault)
  BY DEF SampleGuard, Command, Raise
<1>2. /\ UNCHANGED <<worker, kind, lamp, wire, still, baseline>> /\ ~Fault
      /\ Wired /\ Calm /\ ~unsafe /\ Final = Aim("sample_guard") /\ got = Final /\ wire = <<>>
      /\ Final' = Final /\ Dimmed' = Dimmed
      /\ \A place : Aim(place)' = Aim(place)
      /\ \A state, one : Turned(state, one)' = Turned(state, one)
  BY <1>1, CalmHere
<1>3. worker = "dark"
  BY <1>1 DEF Pillars, Staffed, Place
<1>4. Final = [mode |-> Manual, ch |-> "zero"]
  BY <1>2 DEF Aim, Dark
<1>5. /\ call' = [ch |-> "changed", mode |-> Manual] /\ progress' = "sending"
      /\ ret' = "sampled" /\ pc' = "send_vector" /\ UNCHANGED <<cleaning, unsafe>>
  BY <1>2, <1>4 DEF SampleGuard, Confirmed, Command
<1>6. Turned(Turned(Final, "changed"), Manual) = Aim("sampled")
  BY <1>4 DEF Turned, Aim, Lit
<1>7. QED
  BY <1>2, <1>3, <1>5, <1>6, CalmBegins

LEMMA Course_Sampled ==
  ASSUME Pillars, Sampled, Calm'
  PROVE  Wired' /\ Headed' /\ Stoppable'
<1>1. /\ UNCHANGED <<setting, world, baseline, excursion, owned, moves, still, faults, progress>>
      /\ pc = "sampled"
  BY DEF Sampled
<1>2. /\ UNCHANGED <<worker, kind, lamp, wire, still, baseline, owned, progress>>
      /\ Wired /\ Stoppable /\ ~unsafe /\ Final = Aim("sampled") /\ got = Final
      /\ Final' = Final /\ Dimmed' = Dimmed
      /\ \A place : Aim(place)' = Aim(place)
  BY <1>1, CalmHere
<1>3. ~cleaning /\ Place = "sampled" /\ Left /\ worker = "dark"
  BY <1>1, <1>2 DEF Pillars, Placed, Place, Stoppable, Staffed
<1>4. Final = Lit /\ Aim("hold") = Lit
  BY <1>2 DEF Aim
<1>5. pc' = "hold" /\ phase' = "sampled" /\ UNCHANGED <<cleaning, unsafe>>
  BY <1>2, <1>4 DEF Sampled, Lit
<1>6. Left'
  BY <1>2, <1>3, <1>4, <1>5 DEF Left, Lit
<1>7. QED
  BY <1>2, <1>4, <1>5, <1>6, CalmGoesOn DEF Place

LEMMA Course_Hold ==
  ASSUME Pillars, Hold, Calm'
  PROVE  Wired' /\ Headed' /\ Stoppable'
<1>1. /\ UNCHANGED <<setting, world, baseline, excursion, owned, moves, still, phase, progress>>
      /\ pc = "hold" /\ (UNCHANGED faults \/ Fault)
  BY DEF Hold
<1>2. /\ UNCHANGED <<worker, kind, lamp, wire, still, baseline, owned, phase, progress>>
      /\ Wired /\ Stoppable /\ ~unsafe /\ ~Fault
      /\ Final' = Final /\ Dimmed' = Dimmed
      /\ \A place : Aim(place)' = Aim(place)
  BY <1>1, CalmHere
<1>3. ~cleaning /\ Left
  BY <1>1, <1>2 DEF Pillars, Placed, Place, Stoppable
<1>4. pc' = "recover" /\ UNCHANGED unsafe
  BY <1>2 DEF Hold, Succeed
<1>5. Left'
  BY <1>2, <1>3 DEF Left, Lit, Dark
<1>6. QED
  BY <1>2, <1>4, <1>5, CalmGoesOn DEF Place

LEMMA Course_Recover ==
  ASSUME Pillars, Recover, Calm'
  PROVE  Wired' /\ Headed' /\ Stoppable'
<1>1. /\ UNCHANGED <<setting, world, baseline, excursion, owned, moves, still, phase, progress, faults>>
      /\ pc = "recover"
  BY DEF Recover
<1>2. /\ UNCHANGED <<worker, kind, lamp, wire, still, baseline, owned, phase, progress>>
      /\ Wired /\ Stoppable
      /\ Final' = Final /\ Dimmed' = Dimmed /\ Left
      /\ \A place : Aim(place)' = Aim(place)
  BY <1>1, CalmHere
<1>3. pc' = "connect" /\ ret' = "guarded" /\ UNCHANGED <<unsafe, cleaning>>
  BY DEF Recover
<1>4. Left'
  BY <1>2 DEF Left, Lit, Dark
<1>5. QED
  BY <1>2, <1>3, <1>4, CalmGoesOn DEF Place, Stoppable

\* The vector and then Manual, from whatever state, is the baseline.
LEMMA PutBack ==
  ASSUME NEW state, state.mode = Manual, baseline = [mode |-> Manual, ch |-> baseline.ch],
         baseline.ch \in Vectors,
         state = [mode |-> state.mode, ch |-> state.ch]
  PROVE  Turned(Turned(state, baseline.ch), Manual) = baseline
<1>1. Turned(state, baseline.ch) = baseline
  BY DEF Turned
<1>2. Turned(baseline, Manual) = baseline
  BY DEF Turned
<1>3. QED
  BY <1>1, <1>2

LEMMA Course_GuardedChannel ==
  ASSUME Pillars, GuardedChannel, Calm'
  PROVE  Wired' /\ Headed' /\ Stoppable'
<1>1. /\ UNCHANGED <<setting, world, baseline, excursion, owned, moves, still>>
      /\ pc = "guarded" /\ (UNCHANGED faults \/ Fault) /\ Lenient
  BY DEF GuardedChannel, Command, Raise, Recovered, Refuse
<1>2. /\ UNCHANGED <<worker, kind, lamp, wire, still, baseline>> /\ ~Fault
      /\ Wired /\ Stoppable /\ got = Final /\ wire = <<>> /\ Final = lamp /\ Left
      /\ baseline.mode = Manual /\ baseline = [mode |-> Manual, ch |-> baseline.ch]
      /\ baseline.ch \in Vectors
      /\ Final' = Final /\ Dimmed' = Dimmed
      /\ \A place : Aim(place)' = Aim(place)
      /\ \A state, one : Turned(state, one)' = Turned(state, one)
  BY <1>1, CalmHere
<1>3. cleaning /\ (unsafe => worker = "optical" /\ Final = baseline) /\ Final \in {baseline, Lit}
  BY <1>1, <1>2 DEF Pillars, Placed, Place, Stoppable, Left
<1>4. CASE Final = baseline
  <2>1. pc' = "finish" /\ cleaning' = cleaning /\ unsafe' = unsafe
    BY <1>2, <1>3, <1>4 DEF GuardedChannel, Refuse, Raise, Recovered, Latches, Pillars, Typed, Marks
  <2>2. QED
    BY <1>2, <1>3, <1>4, <2>1, CalmEnds
<1>5. CASE Final # baseline
  <2>1. ~unsafe /\ got = Lit /\ baseline.ch # "changed"
    BY <1>2, <1>3, <1>5 DEF Lit
  <2>2. /\ call' = [ch |-> baseline.ch, mode |-> Manual] /\ progress' = "sending"
        /\ ret' = "vector_restored" /\ pc' = "send_vector" /\ UNCHANGED <<cleaning, unsafe>>
    BY <1>2, <1>5, <2>1 DEF GuardedChannel, Command, Lit
  <2>3. Turned(Turned(Final, baseline.ch), Manual) = Aim("vector_restored")
    BY <1>2, <2>1, PutBack DEF Aim, Lit
  <2>4. QED
    BY <1>2, <1>3, <2>1, <2>2, <2>3, CalmBegins
<1>6. QED
  BY <1>4, <1>5

\* What was read is the baseline, and confirms the recovery.
LEMMA CalmConfirms ==
  ASSUME Pillars, Calm', pc \in {"vector_restored", "restored"},
         UNCHANGED <<setting, world, baseline, excursion, owned, moves, still>>,
         UNCHANGED faults \/ Fault,
         got = baseline /\ baseline.mode = Manual => Recovered
  PROVE  Wired' /\ Headed' /\ Stoppable'
<1>1. /\ UNCHANGED <<worker, kind, lamp, wire, still, baseline>> /\ ~Fault /\ ~unsafe
      /\ Wired /\ got = Final /\ wire = <<>> /\ Final = lamp /\ Final = Aim(pc)
      /\ baseline.mode = Manual /\ Final' = Final
  BY CalmHere
<1>2. Final = baseline /\ cleaning
  BY <1>1 DEF Aim, Pillars, Placed, Place
<1>3. pc' = "finish" /\ UNCHANGED <<cleaning, unsafe>>
  BY <1>1, <1>2 DEF Recovered
<1>4. QED
  BY <1>1, <1>2, <1>3, CalmEnds

LEMMA Course_Restored ==
  ASSUME Pillars, VectorRestored \/ Restored, Calm'
  PROVE  Wired' /\ Headed' /\ Stoppable'
<1>1. /\ UNCHANGED <<setting, world, baseline, excursion, owned, moves, still>>
      /\ pc \in {"vector_restored", "restored"} /\ (UNCHANGED faults \/ Fault)
  BY DEF VectorRestored, Restored, Command, Raise, Recovered, Refuse
<1>2. got = baseline /\ baseline.mode = Manual => Recovered
  BY DEF VectorRestored, Restored, Confirmed
<1>3. QED
  BY <1>1, <1>2, CalmConfirms

LEMMA Course_ModeRestored ==
  ASSUME Pillars, ModeRestored, Calm'
  PROVE  FALSE
<1>1. baseline.mode = Automatic
  BY DEF ModeRestored, Pillars, Staffed, Place
<1>2. baseline' = baseline
  BY DEF ModeRestored
<1>3. QED
  BY <1>1, <1>2 DEF Calm

LEMMA Course_GuardedOff ==
  ASSUME Pillars, GuardedOff, Calm'
  PROVE  Wired' /\ Headed' /\ Stoppable'
<1>1. /\ UNCHANGED <<setting, world, baseline, excursion, owned, moves, still>>
      /\ pc = "guarded" /\ (UNCHANGED faults \/ Fault) /\ worker \in OffWorkers
  BY DEF GuardedOff, Command, Raise, Recovered, Refuse
<1>2. /\ UNCHANGED <<worker, kind, lamp, wire, still, baseline>> /\ ~Fault
      /\ Wired /\ Stoppable /\ got = Final /\ wire = <<>> /\ Final = lamp /\ Left
      /\ baseline.mode = Manual /\ baseline = [mode |-> Manual, ch |-> baseline.ch]
      /\ baseline.ch \in Vectors
      /\ Final' = Final /\ Dimmed' = Dimmed
      /\ \A place : Aim(place)' = Aim(place)
      /\ \A state, one : Turned(state, one)' = Turned(state, one)
  BY <1>1, CalmHere
<1>3. cleaning /\ ~unsafe /\ Final \in {baseline, Dimmed} /\ (Final = Dimmed => phase = "off")
  BY <1>1, <1>2 DEF Pillars, Placed, Place, Stoppable, Left
<1>4. kind \in AllKinds
  BY WorkersAssumption DEF Pillars, Typed, Words
<1>5. CASE Final = baseline
  <2>1. owned = NoState
    BY <1>1, <1>2, <1>5 DEF Left, Dimmed
  <2>2. pc' = "finish" /\ UNCHANGED <<cleaning, unsafe>>
    BY <1>2, <1>3, <1>5, <2>1 DEF GuardedOff, Recovered
  <2>3. QED
    BY <1>2, <1>3, <1>5, <2>2, CalmEnds
<1>6. CASE Final = Dimmed
  <2>1. /\ got = Dimmed /\ got # baseline /\ phase = "off" /\ got.mode = Shutdown
        /\ got.ch \in {baseline.ch, "zero"} /\ (owned # NoState => got = owned)
    BY <1>1, <1>2, <1>3, <1>6 DEF Dimmed, Left
  <2>2. Command(None, baseline.mode, IF got.ch = "zero" THEN "zero_off" ELSE "off", "mode_resumed")
    BY <1>3, <2>1 DEF GuardedOff
  <2>3. /\ call' = [ch |-> None, mode |-> Manual] /\ progress' = "sending"
        /\ phase' = (IF Dimmed.ch = "zero" THEN "zero_off" ELSE "off")
        /\ ret' = "mode_resumed" /\ pc' = "send_mode" /\ UNCHANGED <<cleaning, unsafe>>
    BY <1>2, <2>1, <2>2 DEF Command
  <2>4. Turned(Final, Manual) = Aim("mode_resumed")
    BY <1>2, <1>4, <1>6 DEF Aim, Turned, Dimmed, Resumed, AllKinds
  <2>5. QED
    BY <1>2, <1>3, <2>3, <2>4, CalmBegins
<1>7. QED
  BY <1>3, <1>5, <1>6

LEMMA Course_ModeResumed ==
  ASSUME Pillars, ModeResumed, Calm'
  PROVE  Wired' /\ Headed' /\ Stoppable'
<1>1. /\ UNCHANGED <<setting, world, baseline, excursion, owned, moves, still>>
      /\ pc = "mode_resumed" /\ (UNCHANGED faults \/ Fault)
  BY DEF ModeResumed, Raise, Recovered, Refuse
<1>2. /\ UNCHANGED <<worker, kind, lamp, wire, still, baseline>> /\ ~Fault /\ ~unsafe
      /\ Wired /\ Stoppable /\ got = Final /\ wire = <<>> /\ Final = lamp
      /\ Final = Aim("mode_resumed")
      /\ baseline.mode = Manual /\ baseline = [mode |-> Manual, ch |-> baseline.ch]
      /\ Final' = Final /\ Dimmed' = Dimmed
      /\ \A place : Aim(place)' = Aim(place)
  BY <1>1, CalmHere
<1>3. cleaning /\ got = Resumed
  BY <1>1, <1>2 DEF Pillars, Placed, Place, Aim
<1>4. CASE got.ch = baseline.ch
  <2>1. got = baseline
    BY <1>2, <1>3, <1>4 DEF Resumed
  <2>2. pc' = "finish" /\ UNCHANGED <<cleaning, unsafe>>
    BY <1>2, <1>4, <2>1 DEF ModeResumed, Recovered
  <2>3. QED
    BY <1>2, <1>3, <2>1, <2>2, CalmEnds
<1>5. CASE got.ch # baseline.ch
  <2>1. kind = "clears" /\ got = Dark /\ Aim("zero_guard") = Dark
    BY <1>2, <1>3, <1>5 DEF Resumed, Dark, Aim
  <2>2. Place = "mode_resumed" /\ Dimmed.ch = "zero"
    BY <1>1, <2>1 DEF Place, Dimmed
  <2>3. phase = "zero_off" /\ progress = "barrier"
    BY <1>1, <1>2, <2>2 DEF Stoppable
  <2>4. pc' = "connect" /\ ret' = "zero_guard" /\ UNCHANGED <<cleaning, unsafe>>
    BY <1>2, <1>5, <2>1, <2>3 DEF ModeResumed, Dark
  <2>5. QED
    BY <1>2, <1>3, <2>1, <2>4, CalmGoesOn DEF Place
<1>6. QED
  BY <1>4, <1>5

LEMMA Course_ZeroGuard ==
  ASSUME Pillars, ZeroGuard, Calm'
  PROVE  Wired' /\ Headed' /\ Stoppable'
<1>1. /\ UNCHANGED <<setting, world, baseline, excursion, owned, moves, still>>
      /\ pc = "zero_guard" /\ (UNCHANGED faults \/ Fault)
  BY DEF ZeroGuard, Command, Raise, Refuse
<1>2. /\ UNCHANGED <<worker, kind, lamp, wire, still, baseline>> /\ ~Fault /\ ~unsafe
      /\ Wired /\ got = Final /\ wire = <<>> /\ Final = lamp /\ Final = Aim("zero_guard")
      /\ baseline.mode = Manual /\ baseline = [mode |-> Manual, ch |-> baseline.ch]
      /\ baseline.ch \in Vectors
      /\ Final' = Final /\ Dimmed' = Dimmed
      /\ \A place : Aim(place)' = Aim(place)
      /\ \A state, one : Turned(state, one)' = Turned(state, one)
  BY <1>1, CalmHere
<1>3. cleaning /\ Final = Dark
  BY <1>1, <1>2 DEF Pillars, Placed, Place, Aim
<1>4. /\ call' = [ch |-> baseline.ch, mode |-> Manual] /\ progress' = "sending"
      /\ ret' = "restored" /\ pc' = "send_vector" /\ UNCHANGED <<cleaning, unsafe>>
  <2>1. got.ch = "zero"
    BY <1>2, <1>3 DEF Dark
  <2>2. Command(baseline.ch, Manual, phase, "restored")
    BY <2>1 DEF ZeroGuard
  <2>3. QED
    BY <1>2, <2>2 DEF Command
<1>5. Turned(Turned(Final, baseline.ch), Manual) = Aim("restored")
  BY <1>2, <1>3, PutBack DEF Aim, Dark
<1>6. QED
  BY <1>2, <1>3, <1>4, <1>5, CalmBegins

LEMMA Course_GuardedDark ==
  ASSUME Pillars, GuardedDark, Calm'
  PROVE  Wired' /\ Headed' /\ Stoppable'
<1>1. /\ UNCHANGED <<setting, world, baseline, excursion, owned, moves, still>>
      /\ pc = "guarded" /\ (UNCHANGED faults \/ Fault) /\ worker = "dark"
  BY DEF GuardedDark, Command, Raise, Recovered, Refuse
<1>2. /\ UNCHANGED <<worker, kind, lamp, wire, still, baseline>> /\ ~Fault
      /\ Wired /\ Stoppable /\ Calm /\ got = Final /\ wire = <<>> /\ Final = lamp /\ Left
      /\ baseline.mode = Manual /\ baseline = [mode |-> Manual, ch |-> baseline.ch]
      /\ baseline.ch \in Vectors
      /\ Final' = Final /\ Dimmed' = Dimmed
      /\ \A place : Aim(place)' = Aim(place)
      /\ \A state, one : Turned(state, one)' = Turned(state, one)
  BY <1>1, CalmHere
<1>3. cleaning /\ ~unsafe /\ kind = "clears" /\ ~Unresolved
  BY <1>1, <1>2 DEF Pillars, Placed, Place, Stoppable, Left, Calm, Unresolved
<1>4. phase \in {"original", "off", "manual", "sample", "sampled"}
  BY <1>1 DEF Pillars, Phased, Place
<1>5. CASE phase = "original"
  <2>1. Final = baseline
    BY <1>1, <1>2, <1>5 DEF Left
  <2>2. pc' = "finish" /\ UNCHANGED <<cleaning, unsafe>>
    BY <1>2, <1>3, <1>5, <2>1 DEF GuardedDark, Recovered, Confirmed
  <2>3. QED
    BY <1>2, <1>3, <2>1, <2>2, CalmEnds
<1>6. CASE phase = "off"
  <2>1. Final = [mode |-> Shutdown, ch |-> "zero"]
    BY <1>1, <1>2, <1>3, <1>6 DEF Left, Dimmed
  <2>2. /\ call' = [ch |-> None, mode |-> Manual] /\ progress' = "sending"
        /\ ret' = "dark_resumed" /\ pc' = "send_mode" /\ UNCHANGED <<cleaning, unsafe>>
    <3>1. got.ch = "zero"
      BY <1>2, <2>1
    <3>2. Command(None, Manual, "cleanup_manual", "dark_resumed")
      BY <1>3, <1>6, <3>1 DEF GuardedDark, OwnedVectors
    <3>3. QED
      BY <1>2, <3>2 DEF Command
  <2>3. Turned(Final, Manual) = Aim("dark_resumed")
    BY <1>3, <2>1 DEF Turned, Aim, Dark
  <2>4. QED
    BY <1>1, <1>2, <1>3, <2>2, <2>3, CalmBegins
<1>7. CASE phase \in {"manual", "sample", "sampled"}
  <2>1. Final = IF phase = "manual" THEN Dark ELSE Lit
    BY <1>1, <1>2, <1>7 DEF Left
  <2>2. got.ch \in OwnedVectors
    BY <1>2, <1>7, <2>1 DEF OwnedVectors, Dark, Lit
  <2>3. /\ call' = [ch |-> baseline.ch, mode |-> Manual] /\ progress' = "sending"
        /\ ret' = "restored" /\ pc' = "send_vector" /\ UNCHANGED <<cleaning, unsafe>>
    BY <1>2, <1>3, <1>7, <2>2 DEF GuardedDark, Command
  <2>4. Turned(Turned(Final, baseline.ch), Manual) = Aim("restored")
    BY <1>2, <2>1, PutBack DEF Aim, Dark, Lit
  <2>5. QED
    BY <1>1, <1>2, <1>3, <2>3, <2>4, CalmBegins
<1>8. QED
  BY <1>4, <1>5, <1>6, <1>7

LEMMA Course_DarkResumed ==
  ASSUME Pillars, DarkResumed, Calm'
  PROVE  Wired' /\ Headed' /\ Stoppable'
<1>1. /\ UNCHANGED <<setting, world, baseline, excursion, owned, moves, still>>
      /\ pc = "dark_resumed" /\ (UNCHANGED faults \/ Fault)
  BY DEF DarkResumed, Raise, Refuse
<1>2. /\ UNCHANGED <<worker, kind, lamp, wire, still, baseline>> /\ ~unsafe
      /\ Wired /\ got = Final /\ Final = Aim("dark_resumed")
      /\ Final' = Final /\ Dimmed' = Dimmed
      /\ \A place : Aim(place)' = Aim(place)
  BY <1>1, CalmHere
<1>3. cleaning /\ Final = Dark /\ Aim("zero_guard") = Dark
  BY <1>1, <1>2 DEF Pillars, Placed, Place, Aim
<1>4. pc' = "connect" /\ ret' = "zero_guard" /\ UNCHANGED <<cleaning, unsafe>>
  <2>1. Confirmed(Manual, {"zero"})
    BY <1>2, <1>3 DEF Confirmed, Dark
  <2>2. QED
    BY <2>1 DEF DarkResumed
<1>5. QED
  BY <1>2, <1>3, <1>4, CalmGoesOn DEF Place

\* Steps that leave the worker and the lamp's final state alone.
LEMMA CalmSame ==
  ASSUME Wired, Headed, Stoppable, Final' = Final, Dimmed' = Dimmed,
         \A place : Aim(place)' = Aim(place),
         \A state, one : Turned(state, one)' = Turned(state, one),
         UNCHANGED <<worker, baseline, pc, ret, call, phase, owned, progress, cleaning, unsafe>>,
         Wired'
  PROVE  Wired' /\ Headed' /\ Stoppable'
<1>1. Headed'
  BY DEF Headed, Place
<1>2. Left' <=> Left
  BY DEF Left, Lit, Dark
<1>3. Stoppable'
  BY <1>2 DEF Stoppable, Place
<1>4. QED
  BY <1>1, <1>3

LEMMA Course_Finish ==
  ASSUME Pillars, Finish, Calm'
  PROVE  Wired' /\ Headed' /\ Stoppable'
<1>1. /\ excursion /\ UNCHANGED <<setting, world, baseline, excursion, owned, moves, still, cleaning, unsafe>>
      /\ pc = "finish" /\ pc' = "done" /\ (UNCHANGED faults \/ Fault)
      /\ UNCHANGED <<worker, lamp, wire, kind>>
  BY DEF Finish, Calm
<1>2. Wired /\ Headed /\ Stoppable /\ Final' = Final
  BY <1>1, StaysCalm, FinalSame
<1>3. wire = <<>> /\ lamp = baseline
  BY <1>1, <1>2 DEF Wired
<1>4. Wired'
  BY <1>1, <1>2, <1>3 DEF Wired
<1>5. cleaning \/ ~cleaning
  OBVIOUS
<1>6. Headed'
  BY <1>1 DEF Headed, Place
<1>7. ~cleaning => Left'
  <2>1. ~cleaning => Left
    BY <1>1, <1>2 DEF Stoppable
  <2>2. UNCHANGED <<phase, progress, call>>
    BY DEF Finish
  <2>3. Dimmed' = Dimmed
    BY <1>1 DEF Dimmed
  <2>4. QED
    BY <1>1, <1>2, <2>1, <2>2, <2>3 DEF Left, Lit, Dark
<1>8. QED
  BY <1>1, <1>2, <1>4, <1>6, <1>7 DEF Stoppable, Place

\* What goes on around the worker.
LEMMA Course_World ==
  ASSUME Pillars, Handle \/ Program \/ Rival \/ Signal, Calm'
  PROVE  Wired' /\ Headed' /\ Stoppable'
<1>1. /\ UNCHANGED <<setting, baseline, excursion, pc, ret, call, phase, owned, progress, cleaning, unsafe,
                     worker, kind>>
      /\ excursion
  BY DEF Handle, Program, Rival, Signal, Calm
<1>2. ~Rival /\ UNCHANGED <<moves, still>>
  <2>1. moves \in Nat
    BY WorkersAssumption DEF Pillars, Typed, Counts
  <2>2. moves' = 0
    BY DEF Calm
  <2>3. Rival => moves' = moves + 1
    BY DEF Rival
  <2>4. ~Rival
    BY <2>1, <2>2, <2>3
  <2>5. QED
    BY <2>4 DEF Handle, Program, Signal
<1>3. UNCHANGED faults \/ Fault
  BY DEF Handle, Program, Rival, Signal, Obey
<1>4. /\ UNCHANGED faults /\ Wired /\ Headed /\ Stoppable /\ Dimmed' = Dimmed
      /\ \A place : Aim(place)' = Aim(place)
      /\ \A state, one : Turned(state, one)' = Turned(state, one)
  BY <1>1, <1>2, <1>3, StaysCalm, TurnedSame
<1>5. ~Program
  BY <1>4 DEF Program, Wired
<1>6. CASE Signal
  <2>1. UNCHANGED <<lamp, wire>>
    BY <1>6 DEF Signal
  <2>2. Final' = Final
    BY <1>1, <2>1, FinalSame
  <2>3. Wired'
    BY <1>1, <1>2, <1>4, <2>1 DEF Wired
  <2>4. QED
    BY <1>1, <1>4, <2>2, <2>3, CalmSame
<1>7. CASE Handle
  <2>1. /\ Final' = Final /\ wire # <<>> /\ Len(wire') \in {0, 1} /\ lamp'.mode # Automatic
        /\ \A k \in 1..Len(wire') : wire'[k] # Automatic
    BY <1>4, <1>7, FinalHandled DEF Pillars
  <2>2. Wired'
    BY <1>1, <1>2, <1>4, <2>1 DEF Wired
  <2>3. QED
    BY <1>1, <1>4, <2>1, <2>2, CalmSame
<1>8. QED
  BY <1>2, <1>5, <1>6, <1>7

LEMMA Course_Stutter ==
  ASSUME Pillars, UNCHANGED vars, Calm'
  PROVE  Wired' /\ Headed' /\ Stoppable'
<1>1. /\ UNCHANGED <<setting, baseline, excursion, pc, ret, call, phase, owned, progress, cleaning, unsafe,
                     worker, kind, lamp, wire, moves, faults, still>>
      /\ excursion
  BY DEF vars, Calm
<1>2. /\ Wired /\ Headed /\ Stoppable /\ Dimmed' = Dimmed
      /\ \A place : Aim(place)' = Aim(place)
      /\ \A state, one : Turned(state, one)' = Turned(state, one)
      /\ Final' = Final
  BY <1>1, StaysCalm, TurnedSame, FinalSame
<1>3. Wired'
  BY <1>1, <1>2 DEF Wired
<1>4. QED
  BY <1>1, <1>2, <1>3, CalmSame

\* Every step keeps a calm run on its course.
LEMMA CourseKept ==
  ASSUME Pillars, [Next]_vars
  PROVE  Course'
<1> SUFFICES ASSUME Calm' PROVE Wired' /\ Headed' /\ Stoppable'
  BY DEF Course
<1>1. CASE Stop
  BY <1>1, Course_Stop
<1>2. CASE Read
  BY <1>2, Course_Connect, Course_ReadSystem, Course_ReadChannels, Course_ReadFault DEF Read
<1>3. CASE Write
  BY <1>3, Course_SendVector, Course_SendMode, Course_Drain, Course_Barrier, Course_BarrierFault
     DEF Write
<1>4. CASE Prepare
  BY <1>4, Course_Early, Course_Admit DEF Prepare
<1>5. CASE Try
  BY <1>5, Course_Experiment, Course_Changed, Course_SwitchedOff, Course_Darkened,
     Course_ResumedDark, Course_SampleGuard, Course_Sampled, Course_Hold DEF Try
<1>6. CASE CleanUp
  BY <1>6, Course_Recover, Course_GuardedChannel, Course_Restored, Course_ModeRestored,
     Course_GuardedOff, Course_ModeResumed, Course_ZeroGuard, Course_GuardedDark,
     Course_DarkResumed DEF CleanUp
<1>7. CASE Finish
  BY <1>7, Course_Finish
<1>8. CASE Handle \/ Program \/ Rival \/ Signal
  BY <1>8, Course_World
<1>9. CASE UNCHANGED vars
  BY <1>9, Course_Stutter
<1>10. QED
  BY <1>1, <1>2, <1>3, <1>4, <1>5, <1>6, <1>7, <1>8, <1>9 DEF Next, Worker

-----------------------------------------------------------------------------
(* Fresh: before the excursion nothing is owned. *)

LEMMA Fresh_Quits ==
  ASSUME Fresh, Placed, Words, pc \in Repair, Quits
  PROVE  Fresh'
BY DEF Quits, Rest, Raise, Fresh, Placed, Place

LEMMA Fresh_Confirms ==
  ASSUME Fresh, Placed, Words, pc \in Repair, Confirms
  PROVE  Fresh'
BY DEF Confirms, Rest, Recovered, Fresh, Placed, Place

LEMMA Fresh_Waits ==
  ASSUME Fresh, Placed, Words, pc \in Repair, Waits
  PROVE  Fresh'
BY DEF Waits, Rest, Fresh, Placed, Place

LEMMA Fresh_Begins ==
  ASSUME Fresh, Placed, Words, pc \in Repair, NEW ch, NEW mode, NEW name, NEW place,
         Begins(ch, mode, name, place)
  PROVE  Fresh'
BY DEF Begins, Rest, Fresh, Placed, Place

LEMMA FreshKept ==
  ASSUME Fresh, Typed, Placed, Started, Staffed, [Next]_vars
  PROVE  Fresh'
<1> USE DEF Fresh, Typed, Words, Marks, Counts, Placed, Place, Raise, Command, ReadFails, Send
<1>1. CASE Stop
  BY <1>1 DEF Stop, Running, Stopping
<1>2. CASE Read
  BY <1>2 DEF Read, Connect, ReadSystem, ReadChannels, ReadFault
<1>3. CASE Write
  BY <1>3 DEF Write, SendVector, SendMode, Drain, Barrier, BarrierFault
<1>4. CASE Prepare
  BY <1>4 DEF Prepare, Second, Intent, Admit
<1>5. CASE Try
  BY <1>5 DEF Try, Experiment, ChannelChanged, OpticalChanged, SwitchedOff, Darkened, ResumedDark,
              SampleGuard, Sampled, Hold, Succeed, TryChannel, TryOptical, TryOff, TryDark
<1>6. CASE Recover
  BY <1>6 DEF Recover
<1>7. CASE GuardedChannel
  BY <1>7, GuardedChannelDoes, Fresh_Quits, Fresh_Confirms, Fresh_Begins
<1>8. CASE VectorRestored
  BY <1>8, VectorRestoredDoes, Fresh_Quits, Fresh_Confirms, Fresh_Begins
<1>9. CASE ModeRestored
  BY <1>9, ModeRestoredDoes, Fresh_Quits, Fresh_Confirms
<1>10. CASE GuardedOff
  BY <1>10, GuardedOffDoes, Fresh_Quits, Fresh_Confirms, Fresh_Begins
<1>11. CASE ModeResumed
  BY <1>11, ModeResumedDoes, Fresh_Quits, Fresh_Confirms, Fresh_Waits
<1>12. CASE ZeroGuard
  BY <1>12, ZeroGuardDoes, Fresh_Quits, Fresh_Begins
<1>13. CASE Restored
  BY <1>13, RestoredDoes, Fresh_Quits, Fresh_Confirms
<1>14. CASE GuardedDark
  BY <1>14, GuardedDarkDoes, Fresh_Quits, Fresh_Confirms, Fresh_Begins
<1>15. CASE DarkResumed
  BY <1>15, DarkResumedDoes, Fresh_Quits, Fresh_Waits
<1>16. CASE Finish
  BY <1>16 DEF Finish
<1>17. CASE Handle \/ Program \/ Rival \/ Signal
  BY <1>17 DEF Handle, Program, Rival, Signal
<1>18. CASE UNCHANGED vars
  BY <1>18 DEF vars
<1>19. QED
  BY <1>1, <1>2, <1>3, <1>4, <1>5, <1>6, <1>7, <1>8, <1>9, <1>10, <1>11, <1>12, <1>13, <1>14,
     <1>15, <1>16, <1>17, <1>18
     DEF Next, Worker, CleanUp

\* A calm run is on its course from the start.
LEMMA Coursing == Spec => [](Fresh /\ Course)
<1>1. Init => Fresh /\ Course
  BY DEF Init, Fresh, Course, Calm
<1>2. IInv /\ Fresh /\ Course /\ [Next]_vars => (Fresh /\ Course)'
  <2> SUFFICES ASSUME IInv, Fresh, Course, [Next]_vars PROVE (Fresh /\ Course)'
    OBVIOUS
  <2>1. Pillars
    BY DEF IInv, Pillars
  <2>2. Course'
    BY <2>1, CourseKept
  <2>3. Fresh'
    BY <2>1, FreshKept DEF Pillars
  <2>4. QED
    BY <2>2, <2>3
<1>3. QED
  BY <1>1, <1>2, Invariance, PTL DEF Spec

-----------------------------------------------------------------------------
(* What the workers promise. *)

\* Every variable of the workers, the lamp and the network keeps its type.
THEOREM WorkersTypeOK == Spec => []TypeOK
<1>1. IInv => TypeOK
  BY DEF IInv, Typed, Marks, Words, Counts, Found, Ordered, Streams, TypeOK
<1>2. QED
  BY <1>1, Invariance, PTL

\* However reads, sends, faults and other controllers interleave, what a worker has
\* sent is a selection of its declared frames in their order: a frame is never
\* repeated, and none comes before the intent is on the disk.
THEOREM DeclaredFramesOnly == Spec => []OnlyDeclaredFrames
<1>1. IInv => OnlyDeclaredFrames
  <2> SUFFICES ASSUME IInv, sent # <<>>
               PROVE  /\ \E positions \in SUBSET DOMAIN Declared : Keeps(positions)
                      /\ intent /\ excursion /\ baseline # NoState
    BY DEF OnlyDeclaredFrames
  <2>1. excursion /\ intent /\ baseline \in States
    BY DEF IInv, Started
  <2>2. PICK positions \in SUBSET (1..SoFar) : Keeps(positions)
    BY <2>1 DEF IInv, Sent
  <2>3. SoFar \in 0..Length
    BY <2>1, SoFarBounded DEF IInv
  <2>4. DOMAIN Declared = 1..Length /\ Length \in Nat
    <3>1. CASE worker = "dark"
      BY <3>1 DEF Declared, Length
    <3>2. CASE worker \in OffWorkers /\ baseline.mode = Manual
      BY <3>2 DEF Declared, Length
    <3>3. CASE worker \in OffWorkers /\ baseline.mode # Manual
      BY <3>3 DEF Declared, Length
    <3>4. CASE Lenient
      <4>1. worker # "dark" /\ worker \notin OffWorkers
        BY <3>4
      <4>2. Length = (IF baseline.mode = Manual THEN 4 ELSE 5)
        BY <4>1 DEF Length
      <4>3. Declared = IF baseline.mode = Manual THEN <<"changed", Manual, baseline.ch, Manual>>
                       ELSE <<"changed", Manual, baseline.ch, Manual, Automatic>>
        BY <4>1 DEF Declared
      <4>4. CASE baseline.mode = Manual
        <5>1. Declared = <<"changed", Manual, baseline.ch, Manual>>
          BY <4>3, <4>4
        <5>2. QED
          BY <4>2, <4>4, <5>1
      <4>5. CASE baseline.mode # Manual
        <5>1. Declared = <<"changed", Manual, baseline.ch, Manual, Automatic>>
          BY <4>3, <4>5
        <5>2. QED
          BY <4>2, <4>5, <5>1
      <4>6. QED
        BY <4>4, <4>5
    <3>6. QED
      BY <3>1, <3>2, <3>3, <3>4 DEF IInv, Typed, Words
  <2>5. positions \in SUBSET DOMAIN Declared
    BY <2>2, <2>3, <2>4, SoFarCounts
  <2>6. baseline # NoState
    BY <2>1
  <2>7. QED
    BY <2>1, <2>2, <2>5, <2>6, Zenon
<1>2. QED
  BY <1>1, Invariance, PTL

\* What a worker's own frames cannot explain, once read, is the end of its writing,
\* unless a deadline or a stop request ended that very read.
THEOREM AlarmAlwaysStopsWrites == Spec => AlarmStopsWrites
<1>1. IInv /\ [Next]_vars => [sent' # sent => ~alarm \/ hidden]_vars
  <2> SUFFICES ASSUME IInv, [Next]_vars, sent' # sent
               PROVE  ~alarm \/ hidden
    OBVIOUS
  <2>1. excursion \/ (sent = <<>> /\ ~alarm)
    BY DEF IInv, Started
  <2>2. CASE excursion
    <3>1. SendVector \/ SendMode
      BY <2>2, Unsent DEF IInv
    <3>2. pc \in Writes
      BY <3>1 DEF SendVector, SendMode
    <3>3. QED
      BY <3>2, SilentWrites DEF IInv
  <2>3. QED
    BY <2>1, <2>2
<1>2. QED
  BY <1>1, Invariance, PTL DEF Spec, AlarmStopsWrites

\* A report never claims a recovery that is not there: whatever was interrupted,
\* lost or ignored, PASS means that the lamp is as it was and nothing is under way,
\* and NOT_REQUIRED that nothing was sent.
THEOREM RecoveryAlwaysTrue == Spec => []RecoveryIsTrue
<1>1. IInv => RecoveryIsTrue
  <2> SUFFICES ASSUME IInv, status # "RUNNING" PROVE RecoveryIsTrue
    BY DEF RecoveryIsTrue
  <2>1. pc = "done"
    BY DEF IInv, Placed
  <2>2. recovery = "NOT_REQUIRED" <=> ~excursion
    BY <2>1 DEF IInv, Typed, Marks, Started, Concluded
  <2>3. recovery = "PASS" /\ still => AsBefore /\ wire = <<>>
    BY DEF IInv, Concluded
  <2>4. QED
    BY <2>2, <2>3 DEF RecoveryIsTrue
<1>2. QED
  BY <1>1, Invariance, PTL

\* A stop request never costs a Manual lamp its state: whenever it comes, and however
\* the lamp is behind with the frames it was sent, an excursion with no other fault ends
\* with the lamp as it was found, for every worker and, but for dark, every kind of lamp.
THEOREM StopAlwaysRestores == Spec => []StopRestores
<1>1. IInv /\ Fresh /\ Course => StopRestores
  <2> SUFFICES ASSUME IInv, Course, status # "RUNNING", Calm
               PROVE  AsBefore
    BY DEF StopRestores, Calm
  <2>1. pc = "done"
    BY DEF IInv, Placed
  <2>2. lamp = baseline
    BY <2>1 DEF Course, Wired
  <2>3. QED
    BY <2>2 DEF AsBefore
<1>2. QED
  BY <1>1, Invariance, Coursing, PTL
=============================================================================
