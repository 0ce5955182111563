------------------------------ MODULE CommandAudit ------------------------------
(***************************************************************************)
(* aquarius_passive_audit.py watches one lamp on the wire: it captures the *)
(* packets between the host and the lamp, puts what each connection sent   *)
(* together again from its TCP sequence numbers and says whether anything  *)
(* but queries went out.  Packets reach it through a bounded kernel queue, *)
(* connections begin before and end after the capture, segments are sent   *)
(* again in other pieces, and the address of a connection is used again.   *)
(* Units stand for bytes: a frame is FrameLength units of one command.     *)
(***************************************************************************)
EXTENDS Naturals, Sequences, FiniteSets, FiniteSetsExt, SequencesExt

CONSTANTS
  Stream,           \* what a connection may send, or the beginning of it: units
  FrameLength,      \* 20
  System, Channels, Write,   \* commands: the two queries and a command F1 .. FA ..
  SequenceSpace,    \* 2^32
  Isns,             \* initial sequence numbers, in their order; none is repeated (RFC 6528)
  MaxStream,        \* MAX_STREAM
  MaxPackets,       \* MAX_PACKETS
  QueueLength,      \* packets the kernel holds
  MaxSeen,          \* bound: packets in the captured time
  Cuts,             \* bound: where a stream is cut into segments
  MaxAnswers        \* bound: packets of the lamp per connection

Unit(command, place) == [command |-> command, place |-> place]
Queries == {System, Channels}

ASSUME AuditAssumption ==
  /\ FrameLength \in Nat \ {0}
  /\ Stream \in Seq([command : Queries \cup {Write}, place : 1..FrameLength])
  /\ SequenceSpace \in Nat \ {0} /\ MaxStream \in Nat
  /\ Isns \in Seq(0..(SequenceSpace - 1)) /\ IsInjective(Isns)
  /\ Cuts \subseteq 0..Len(Stream)

VARIABLES
  connections,   \* of one address, oldest first: [isn, sent, answers,
                 \* closed, opened and shown: whether opened and what sent in the capture]
  capture,       \* "before", "running", "draining", "drained" over its
                 \* budget, "over"
  queue, seenByKernel, drops,       \* the packet socket and PACKET_STATISTICS
  flows, problems, packets,         \* Audit
  verdict        \* finish()["status"], "none" before
auditVars == <<connections, capture, queue, seenByKernel, drops, flows, problems,
               packets, verdict>>

AuditInit ==
  /\ connections = <<>> /\ capture = "before"
  /\ queue = <<>> /\ seenByKernel = 0 /\ drops = 0
  /\ flows = <<>> /\ problems = {} /\ packets = 0 /\ verdict = "none"

-----------------------------------------------------------------------------
(* The host, the lamp and the wire. *)

Mod(n) == n % SequenceSpace
Now == Last(connections)
Open == connections # <<>> /\ Now.closed = "no"

\* A packet passes the filter: it waits for the audit, or is dropped and counted.
Pass(packet) ==
  IF capture # "running" THEN UNCHANGED <<queue, seenByKernel, drops>>
  ELSE /\ seenByKernel < MaxSeen /\ seenByKernel' = seenByKernel + 1
       /\ IF Len(queue) < QueueLength
          THEN queue' = Append(queue, packet) /\ UNCHANGED drops
          ELSE drops' = drops + 1 /\ UNCHANGED queue

Packet(kind, sequence, data) == [kind |-> kind, sequence |-> sequence, data |-> data]
Onto(changed) == connections' = ReplaceAt(connections, Len(connections), changed)
WireUnchanged == UNCHANGED <<capture, flows, problems, packets, verdict>>

\* The one before may have been forgotten without a word.
Connect ==
  LET isn == Isns[Len(connections) + 1]
  IN  /\ capture \in {"before", "running"} /\ Len(connections) < Len(Isns)
      /\ connections' = Append(connections,
           [isn |-> isn, sent |-> 0, answers |-> 0,
            closed |-> "no", opened |-> capture = "running", shown |-> {}])
      /\ Pass(Packet("syn", isn, <<>>))
      /\ WireUnchanged

\* New bytes, or bytes sent again from any place on.
\* (After the captured time an open connection may send anything; no step is needed.)
Send ==
  Open /\ \E from, to \in Cuts :
    /\ capture \in {"before", "running"}
    /\ from < to /\ from <= Now.sent /\ to >= Now.sent
    /\ Onto([Now EXCEPT !.sent = to,
                        !.shown = IF capture = "running" THEN @ \cup (from + 1)..to ELSE @])
    /\ Pass(Packet("data", Mod(Now.isn + 1 + from), SubSeq(Stream, from + 1, to)))
    /\ WireUnchanged

\* The lamp acknowledges what it got, the end included, with or without a reply.
\* Before the captured time an answer or an end changes nothing that is asked here.
Answer ==
  connections # <<>> /\ \E got \in Cuts, end \in {0, 1}, reply \in BOOLEAN :
    /\ capture = "running" /\ Now.closed # "rst" /\ Now.answers < MaxAnswers
    /\ got <= Now.sent /\ (end = 1 => Now.closed = "fin" /\ got = Now.sent)
    /\ Onto([Now EXCEPT !.answers = @ + 1])
    /\ Pass(Packet(IF reply THEN "reply" ELSE "ack", Mod(Now.isn + 1 + got + end), <<>>))
    /\ WireUnchanged

\* The host closes after its last byte; either side may break it off before.
Close ==
  \E kind \in {"fin", "rst"} :
    /\ Open /\ capture = "running"
    /\ Onto([Now EXCEPT !.closed = kind])
    /\ Pass(Packet(kind, Mod(Now.isn + 1 + Now.sent), <<>>))
    /\ WireUnchanged

-----------------------------------------------------------------------------
(* Audit.feed *)

NoFlow == [isn |-> {}, segments |-> {}, acknowledged |-> {}, fin |-> {},
           reset |-> FALSE, replied |-> FALSE]

\* A SYN with another number begins a new flow of the address.
BeginsFlow(packet) ==
  \/ flows = <<>>
  \/ packet.kind = "syn" /\ Last(flows).isn \notin {{}, {packet.sequence}}
Reused(packet) ==
  /\ flows # <<>> /\ BeginsFlow(packet)
  /\ Last(flows).fin = {} /\ ~Last(flows).reset

Extend(flow, packet) ==
  CASE packet.kind = "syn" -> [flow EXCEPT !.isn = {packet.sequence}]
    [] packet.kind = "data" ->
         [flow EXCEPT !.segments = @ \cup {<<packet.sequence, packet.data>>}]
    [] packet.kind = "fin" -> [flow EXCEPT !.fin = {packet.sequence}]
    [] packet.kind = "rst" -> [flow EXCEPT !.reset = TRUE]
    [] packet.kind = "ack" -> [flow EXCEPT !.acknowledged = @ \cup {packet.sequence}]
    [] packet.kind = "reply" ->
         [flow EXCEPT !.acknowledged = @ \cup {packet.sequence}, !.replied = TRUE]

FeedPacket(packet) ==
  /\ packets' = packets + 1
  /\ IF packets' > MaxPackets
     THEN problems' = problems \cup {"budget"} /\ UNCHANGED flows
     ELSE /\ problems' = problems \cup (IF Reused(packet) THEN {"reused"} ELSE {})
          /\ flows' = IF BeginsFlow(packet) THEN Append(flows, Extend(NoFlow, packet))
                      ELSE ReplaceAt(flows, Len(flows), Extend(Last(flows), packet))

-----------------------------------------------------------------------------
(* Audit.finish *)

Origin(flow) == Mod((CHOOSE isn \in flow.isn : TRUE) + 1)
Distance(flow, sequence) == Mod(sequence + SequenceSpace - Origin(flow))
TooFar(flow, segment) == Distance(flow, segment[1]) + Len(segment[2]) > MaxStream

\* The units seen, each with its offset in the stream.
Values(flow) ==
  UNION {{<<Distance(flow, s[1]) + k - 1, s[2][k]>> : k \in DOMAIN s[2]} :
           s \in {t \in flow.segments : ~TooFar(flow, t)}}
Reach(flow) == Max({0} \cup {v[1] + 1 : v \in Values(flow)})
Acknowledged(flow) == Max({0} \cup {Distance(flow, a) : a \in flow.acknowledged})

\* Faulty EndSeen: a connection with nothing unacknowledged counts as finished.
EndQuiet(flow) == flow.fin # {} \/ flow.reset \/ Acknowledged(flow) = Reach(flow)

EndSeen(flow) == flow.fin # {} \/ flow.reset

\* The command of a frame is that of its first unit; a query is a query as a whole.
Command(frame) ==
  IF frame[1].place # 1 \/ frame[FrameLength].place # FrameLength THEN "none"
  ELSE IF frame[1].command \notin Queries THEN Write
  ELSE IF \A k \in 1..FrameLength : frame[k] = Unit(frame[1].command, k)
  THEN frame[1].command ELSE "other"

\* Of what was seen of a stream (Values): its offsets, how far it has no gap, the
\* unit at an offset, and the frames from the beginning up to the first that is none.
Offsets(values) == {v[1] : v \in values}
Prefix(values) == Max({n \in 0..MaxStream : 0..(n - 1) \subseteq Offsets(values)})
UnitAt(values, offset) == (CHOOSE v \in values : v[1] = offset)[2]
CommandAt(values, i) ==
  Command([k \in 1..FrameLength |-> UnitAt(values, (i - 1) * FrameLength + k - 1)])
Parsed(values) ==
  Max({n \in 0..(Prefix(values) \div FrameLength) : \A i \in 1..n : CommandAt(values, i) # "none"})

\* The commands of a stream, and whether anything about it is unclear.
Commands(values) == {CommandAt(values, i) : i \in 1..Parsed(values)}
Unclear(flow, values) ==
  LET reach == Reach(flow)
  IN  \/ \E segment \in flow.segments : TooFar(flow, segment)
      \/ Cardinality(values) > Cardinality(Offsets(values))    \* conflicting_retransmission
      \/ ~EndSeen(flow)                                        \* stream_end_not_observed
      \/ \E f \in flow.fin : Distance(flow, f) # reach         \* unobserved_bytes_before_fin
      \/ Acknowledged(flow) > reach + Cardinality(flow.fin)
      \/ Acknowledged(flow) < reach                            \* client_payload_not_acknowledged
      \/ Prefix(values) # reach                                \* tcp_sequence_gap
      \/ Cardinality(Offsets(values)) > Parsed(values) * FrameLength   \* unparsed_or_partial
Assess(flow) ==
  IF flow.isn = {} THEN [unclear |-> TRUE, commands |-> {}]    \* stream_start_not_observed
  ELSE [unclear |-> Unclear(flow, Values(flow)), commands |-> Commands(Values(flow))]

\* `found': the problems by then.
Status(found) ==
  LET judged == {Assess(flows[i]) : i \in DOMAIN flows}
      seen == UNION {j.commands : j \in judged}
  IN  CASE Write \in seen -> "WRITE_OBSERVED"
        [] Write \notin seen /\ "other" \in seen -> "OTHER_COMMAND_OBSERVED"
        [] {Write, "other"} \cap seen = {} ->
             IF \/ found # {}
                \/ drops > 0                                 \* kernel_packet_drops
                \/ seenByKernel # packets + drops            \* packet_statistics_mismatch
                \/ \E j \in judged : j.unclear
                \/ ~(Queries \subseteq seen)
                \/ \A i \in DOMAIN flows : ~flows[i].replied
             THEN "INCONCLUSIVE" ELSE "QUERY_ONLY_OBSERVED"

-----------------------------------------------------------------------------
(* capture *)

StartCapture ==
  /\ capture = "before" /\ capture' = "running"
  /\ UNCHANGED <<connections, queue, seenByKernel, drops, flows, problems, packets, verdict>>

\* recvmsg and feed; over its budget the audit stops capturing or draining.
Observe ==
  /\ capture \in {"running", "draining"} /\ queue # <<>>
  /\ FeedPacket(Head(queue)) /\ queue' = Tail(queue)
  /\ capture' = IF packets' <= MaxPackets THEN capture
                ELSE IF capture = "running" THEN "draining" ELSE "drained"
  /\ UNCHANGED <<connections, seenByKernel, drops, verdict>>

\* The end of the time or a signal: no further packet is let in.
StopCapture ==
  /\ capture = "running" /\ capture' = "draining"
  /\ UNCHANGED <<connections, queue, seenByKernel, drops, flows, problems, packets, verdict>>

\* The queue is empty, or the half second is over, be it empty or not: the counts of
\* the kernel are asked for, and finish judges.
Report ==
  /\ capture \in {"draining", "drained"} /\ capture' = "over"
  /\ \E slow \in BOOLEAN :
       /\ IF slow THEN capture = "draining" ELSE queue = <<>> \/ capture = "drained"
       /\ problems' = IF slow THEN problems \cup {"drain"} ELSE problems
       /\ verdict' = Status(IF slow THEN problems \cup {"drain"} ELSE problems)
  /\ UNCHANGED <<connections, queue, seenByKernel, drops, flows, packets>>

AuditNext ==
  \/ Connect \/ Send \/ Answer \/ Close
  \/ StartCapture \/ Observe \/ StopCapture \/ Report
AuditSpec == AuditInit /\ [][AuditNext]_auditVars

-----------------------------------------------------------------------------
OnlyQueriesShown(connection) == \A n \in connection.shown : Stream[n].command \in Queries

\* "an ambiguity can never become PASS" (aquarius_passive_audit.py:143): when the
\* audit says that only queries were seen, nothing else was sent in the captured
\* time, and no connection opened in that time was still open at its end, whatever
\* was dropped, sent again, cut differently or used again.  No run checks it: with
\* Parts.cfg TLC refutes it, for the reason given at the next property.
QueryOnlyIsTrue ==
  verdict = "QUERY_ONLY_OBSERVED" =>
    \A i \in DOMAIN connections :
      /\ OnlyQueriesShown(connections[i])
      /\ connections[i].opened => connections[i].closed # "no"

\* The address had belonged, in the captured time, to one opened before it.
Inherits(i) == \E j \in 1..(i - 1) : ~connections[j].opened /\ connections[j].closed # "no"

\* The same, but for a connection that inherits its address so: the audit takes the
\* two for one (line 190) and the end of the first for the end of the second.
QueryOnlyIsTrueOfOwn ==
  verdict = "QUERY_ONLY_OBSERVED" =>
    \A i \in DOMAIN connections :
      /\ OnlyQueriesShown(connections[i])
      /\ connections[i].opened => connections[i].closed # "no" \/ Inherits(i)
=============================================================================
