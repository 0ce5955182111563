------------------------------- MODULE WireProofs -------------------------------
(* Theorems about the bytes of the lamp's connections.  The auditor of its traffic *)
(* says QUERY_ONLY_OBSERVED only of streams in which every frame its own addresses *)
(* sent was a query, for any stream of frames, any number of connections, packets  *)
(* dropped anywhere and any sizes and budgets; the two decoders take the frames of *)
(* a stream where they stand, for any bytes, markers and lengths, cut anywhere.    *)
EXTENDS CommandAudit, FrameDecoder, FiniteSetTheorems, SequenceTheorems,
        WellFoundedInduction, TLAPS

-----------------------------------------------------------------------------
(* Sets of numbers. *)

\* A non-empty bounded set of numbers has a largest.
LEMMA MaxBounds ==
  ASSUME NEW bound \in Nat, NEW S \in SUBSET (0..bound), S # {}
  PROVE  Max(S) \in S /\ \A n \in S : n <= Max(S)
<1> DEFINE Above(n) == {m \in S : m > n}
           Rests == {Above(n) : n \in S}
<1>1. IsFiniteSet(S)
  BY FS_Interval, FS_Subset, 0 \in Int, bound \in Int
<1>2. Rests \subseteq FiniteSubsetsOf(S) /\ Rests # {}
  <2>1. \A n \in S : Above(n) \subseteq S /\ IsFiniteSet(Above(n))
    BY <1>1, FS_Subset
  <2>2. QED
    BY <2>1 DEF FiniteSubsetsOf
<1>3. PICK T \in Rests : \A U \in Rests : ~(<<U, T>> \in StrictSubsetOrdering(S))
  <2> HIDE DEF Rests
  <2>1. QED
    BY <1>2, FS_StrictSubsetOrderingWellFounded, WFMin
<1>4. PICK n \in S : T = Above(n)
  BY <1>3
<1>5. ASSUME NEW m \in S, m > n PROVE FALSE
  <2>1. Above(m) \subseteq T /\ m \in T /\ m \notin Above(m)
    <3>1. \A k \in S : k \in Nat
      OBVIOUS
    <3>2. \A k \in S : k > m => k > n
      BY <1>4, <1>5, <3>1
    <3>3. m \in Nat /\ ~(m > m)
      BY <3>1
    <3>4. Above(m) \subseteq Above(n)
      BY <3>2
    <3>5. m \in Above(n)
      BY <1>5
    <3>6. m \notin Above(m)
      BY <3>3
    <3>7. QED
      BY <1>4, <3>4, <3>5, <3>6
  <2>2. <<Above(m), T>> \in StrictSubsetOrdering(S)
    BY <2>1, <1>4 DEF StrictSubsetOrdering
  <2>3. QED
    BY <1>3, <2>2
<1>6. \A m \in S : n >= m
  BY <1>5
<1>7. QED
  BY <1>6 DEF Max

\* Every offset of a stream of whole frames is at a place in one of them.
LEMMA FrameOfOffset ==
  ASSUME NEW count \in Nat, NEW length \in Nat \ {0}, NEW offset \in Nat, offset < count * length
  PROVE  \E i \in 1..count, k \in 1..length : (i - 1) * length + k - 1 = offset
<1> DEFINE S == {i \in 1..count : (i - 1) * length <= offset}
<1>1. S \in SUBSET (0..count) /\ S # {}
  <2>1. count # 0
    BY 0 * length = 0
  <2>2. 1 \in S
    BY <2>1, (1 - 1) * length = 0
  <2>3. \A m \in 1..count : m \in 0..count
    OBVIOUS
  <2>4. QED
    BY <2>2, <2>3
<1> DEFINE i == Max(S)
<1>2. i \in S /\ \A m \in S : m <= i
  <2> HIDE DEF S
  <2>1. QED
    BY <1>1, MaxBounds
<1> HIDE DEF i
<1>3. i \in 1..count /\ (i - 1) * length <= offset /\ (i - 1) * length \in Nat
  BY <1>2
<1>4. offset < i * length
  <2>1. CASE i = count
    BY <2>1
  <2>2. CASE i # count
    <3>1. i + 1 \in 1..count /\ i + 1 \notin S
      BY <1>2, <1>3, <2>2
    <3>2. (i + 1) - 1 = i
      BY <1>3
    <3>3. ~(i * length <= offset)
      BY <3>1, <3>2
    <3>4. i * length \in Nat
      BY <1>3
    <3>5. QED
      BY <3>3, <3>4
  <2>3. QED
    BY <2>1, <2>2
<1>5. i * length = (i - 1) * length + length
  BY <1>3
<1>6. offset - (i - 1) * length + 1 \in 1..length
  BY <1>3, <1>4, <1>5
<1>7. (i - 1) * length + (offset - (i - 1) * length + 1) - 1 = offset
  BY <1>3
<1>8. QED
  BY <1>3, <1>6, <1>7

Seqno == 0..(SequenceSpace - 1)

LEMMA ModBounds ==
  ASSUME NEW n \in Nat
  PROVE  Mod(n) \in Seqno
BY AuditAssumption DEF Mod, Seqno

-----------------------------------------------------------------------------
(* CommandAudit: what the assessment of a stream shows. *)

Units == {Stream[n] : n \in 1..Len(Stream)}
Flows == [isn : SUBSET Seqno, segments : SUBSET (Seqno \X Seq(Units)),
          acknowledged : SUBSET Seqno, fin : SUBSET Seqno, reset : BOOLEAN,
          replied : BOOLEAN]

\* Offsets of what was seen are numbers below the limit.
LEMMA SegmentOffsets ==
  ASSUME NEW flow \in Flows, flow.isn # {}, NEW s \in flow.segments, ~TooFar(flow, s)
  PROVE  /\ Distance(flow, s[1]) \in Nat /\ Len(s[2]) \in Nat /\ DOMAIN s[2] = 1..Len(s[2])
         /\ Distance(flow, s[1]) + Len(s[2]) <= MaxStream
         /\ \A k \in DOMAIN s[2] : s[2][k] \in Units
<1>1. s[1] \in Seqno /\ s[2] \in Seq(Units)
  BY DEF Flows
<1>2. PICK isn \in flow.isn : isn = CHOOSE i \in flow.isn : TRUE
  OBVIOUS
<1>3. isn \in Seqno
  BY <1>2 DEF Flows
<1>4. SequenceSpace \in Nat /\ SequenceSpace > 0 /\ MaxStream \in Nat
  BY AuditAssumption
<1>5. Origin(flow) = Mod(isn + 1) /\ isn + 1 \in Nat
  BY <1>2, <1>3 DEF Origin, Seqno
<1>6. Origin(flow) \in Seqno
  BY <1>5, ModBounds
<1>7. s[1] + SequenceSpace - Origin(flow) \in Nat
  BY <1>1, <1>4, <1>6 DEF Seqno
<1>8. Distance(flow, s[1]) \in Seqno
  BY <1>7, ModBounds DEF Distance
<1>9. Distance(flow, s[1]) \in Nat
  BY <1>8 DEF Seqno
<1>10. Len(s[2]) \in Nat /\ DOMAIN s[2] = 1..Len(s[2]) /\ \A k \in DOMAIN s[2] : s[2][k] \in Units
  BY <1>1
<1>11. Distance(flow, s[1]) + Len(s[2]) <= MaxStream
  BY <1>4, <1>9, <1>10 DEF TooFar
<1>12. QED
  BY <1>9, <1>10, <1>11

\* What was seen of a stream.
LEMMA SeenValues ==
  ASSUME NEW flow \in Flows, flow.isn # {}, \A s \in flow.segments : ~TooFar(flow, s)
  PROVE  /\ Values(flow) \subseteq (0..MaxStream) \X Units
         /\ \A v \in Values(flow) : v[1] < MaxStream
         /\ IsFiniteSet(Values(flow))
         /\ \A s \in flow.segments : \A k \in DOMAIN s[2] :
              <<Distance(flow, s[1]) + k - 1, s[2][k]>> \in Values(flow)
<1>1. MaxStream \in Nat
  BY AuditAssumption
<1>2. ASSUME NEW s \in flow.segments, NEW k \in DOMAIN s[2]
      PROVE  /\ Distance(flow, s[1]) + k - 1 \in 0..MaxStream /\ s[2][k] \in Units
             /\ Distance(flow, s[1]) + k - 1 < MaxStream
  BY <1>1, SegmentOffsets
<1>3. Values(flow) = UNION {{<<Distance(flow, s[1]) + k - 1, s[2][k]>> : k \in DOMAIN s[2]} :
                              s \in flow.segments}
  <2>1. {t \in flow.segments : ~TooFar(flow, t)} = flow.segments
    OBVIOUS
  <2>2. QED
    BY <2>1 DEF Values
<1>4. \A v \in Values(flow) : \E s \in flow.segments : \E k \in DOMAIN s[2] :
        v = <<Distance(flow, s[1]) + k - 1, s[2][k]>>
  BY <1>3
<1>5. \A v \in Values(flow) : v \in (0..MaxStream) \X Units /\ v[1] < MaxStream
  BY <1>2, <1>4
<1>6. IsFiniteSet((0..MaxStream) \X Units)
  <2>1. IsFiniteSet(1..Len(Stream)) /\ IsFiniteSet(0..MaxStream)
    <3>1. Len(Stream) \in Int /\ MaxStream \in Int /\ 0 \in Int /\ 1 \in Int
      BY AuditAssumption
    <3>2. QED
      BY <3>1, FS_Interval
  <2>2. IsFiniteSet(Units)
    <3> DEFINE unit == [n \in 1..Len(Stream) |-> Stream[n]]
    <3>1. unit \in Surjection(1..Len(Stream), Units)
      BY DEF Surjection, Units
    <3>2. QED
      BY <2>1, <3>1, FS_Surjection
  <2>3. QED
    BY <2>1, <2>2, FS_Product
<1>7. IsFiniteSet(Values(flow))
  BY <1>5, <1>6, FS_Subset
<1>8. \A s \in flow.segments : \A k \in DOMAIN s[2] :
        <<Distance(flow, s[1]) + k - 1, s[2][k]>> \in Values(flow)
  BY <1>3
<1>9. QED
  BY <1>5, <1>7, <1>8

\* As many values as offsets: no offset has two.
LEMMA OneValueEach ==
  ASSUME NEW flow \in Flows, flow.isn # {}, \A s \in flow.segments : ~TooFar(flow, s),
         NEW values, values = Values(flow),
         ~(Cardinality(values) > Cardinality(Offsets(values)))
  PROVE  \A v \in values : UnitAt(values, v[1]) = v[2]
<1> DEFINE place == [v \in values |-> v[1]]
<1>1. place \in Surjection(values, Offsets(values))
  BY DEF Surjection, Offsets
<1>2. IsFiniteSet(values)
  BY SeenValues
<1>3. /\ IsFiniteSet(Offsets(values)) /\ Cardinality(Offsets(values)) <= Cardinality(values)
      /\ Cardinality(Offsets(values)) = Cardinality(values) <=> place \in Injection(values, Offsets(values))
  BY <1>1, <1>2, FS_Surjection
<1>4. Cardinality(values) \in Nat /\ Cardinality(Offsets(values)) \in Nat
  BY <1>2, <1>3, FS_CardinalityType
<1>5. place \in Injection(values, Offsets(values))
  BY <1>3, <1>4
<1>6. \A v, w \in values : v[1] = w[1] => v = w
  <2>1. \A v, w \in values : place[v] = place[w] => v = w
    BY <1>5 DEF Injection, IsInjective
  <2>2. QED
    BY <2>1
<1>7. QED
  BY <1>6 DEF UnitAt

\* No gap up to the end: the offsets are all those before it.
LEMMA NoGap ==
  ASSUME NEW flow \in Flows, flow.isn # {}, \A s \in flow.segments : ~TooFar(flow, s),
         NEW values, values = Values(flow), Prefix(values) = Reach(flow)
  PROVE  /\ Prefix(values) \in Nat /\ Offsets(values) = 0..(Prefix(values) - 1)
         /\ Cardinality(Offsets(values)) = Prefix(values)
<1>1. MaxStream \in Nat
  BY AuditAssumption
<1>2. \A v \in values : v[1] \in Nat /\ v[1] < MaxStream
  BY <1>1, SeenValues
<1> DEFINE S == {0} \cup {v[1] + 1 : v \in values}
           P == {n \in 0..MaxStream : 0..(n - 1) \subseteq Offsets(values)}
<1>3. S \in SUBSET (0..MaxStream) /\ S # {}
  <2>1. \A n \in S : n \in 0..MaxStream
    BY <1>1, <1>2
  <2>2. QED
    BY <2>1
<1>4. P \in SUBSET (0..MaxStream) /\ P # {}
  <2>1. 0 \in P
    BY <1>1
  <2>2. \A n \in P : n \in 0..MaxStream
    OBVIOUS
  <2>3. QED
    BY <2>1, <2>2
<1>5. Reach(flow) = Max(S) /\ Prefix(values) = Max(P)
  BY DEF Reach, Prefix
<1>6. Prefix(values) \in P /\ \A n \in S : n <= Prefix(values)
  <2> HIDE DEF S, P
  <2>1. QED
    BY <1>1, <1>3, <1>4, <1>5, MaxBounds
<1>7. Prefix(values) \in Nat /\ 0..(Prefix(values) - 1) \subseteq Offsets(values)
  BY <1>6
<1>8. \A v \in values : v[1] \in 0..(Prefix(values) - 1)
  <2> TAKE v \in values
  <2>1. v[1] + 1 \in S
    OBVIOUS
  <2>2. v[1] + 1 <= Prefix(values)
    BY <1>6, <2>1
  <2>3. QED
    BY <1>2, <1>7, <2>2
<1>9. Offsets(values) = 0..(Prefix(values) - 1)
  BY <1>7, <1>8 DEF Offsets
<1>10. Cardinality(0..(Prefix(values) - 1)) = Prefix(values)
  <2>1. Prefix(values) - 1 \in Int /\ 0 \in Int
    BY <1>7
  <2>2. Cardinality(0..(Prefix(values) - 1)) =
          IF 0 > Prefix(values) - 1 THEN 0 ELSE Prefix(values) - 1 - 0 + 1
    BY <2>1, FS_Interval
  <2>3. QED
    BY <1>7, <2>2
<1>11. QED
  BY <1>7, <1>9, <1>10

\* The frames that were parsed.
LEMMA ParsedFrames ==
  ASSUME NEW values, Prefix(values) \in Nat
  PROVE  /\ Parsed(values) \in Nat
         /\ \A i \in 1..Parsed(values) : CommandAt(values, i) # "none"
<1> DEFINE bound == Prefix(values) \div FrameLength
           P == {n \in 0..bound : \A i \in 1..n : CommandAt(values, i) # "none"}
<1>1. bound \in Nat
  <2>1. FrameLength \in Nat /\ FrameLength > 0
    BY AuditAssumption
  <2>2. QED
    BY <2>1
<1>2. P \in SUBSET (0..bound) /\ P # {}
  <2>1. 0 \in 0..bound /\ 1..0 = {}
    BY <1>1
  <2>2. 0 \in P
    BY <2>1
  <2>3. QED
    BY <2>2
<1>3. Max(P) \in P
  <2> HIDE DEF P, bound
  <2>1. QED
    BY <1>1, <1>2, MaxBounds
<1>4. Parsed(values) = Max(P)
  BY DEF Parsed
<1>5. QED
  BY <1>1, <1>3, <1>4

\* A parsed frame that is neither a command nor another one is a query as a whole.
LEMMA QueryFrame ==
  ASSUME NEW values, NEW i, CommandAt(values, i) \notin {"none", Write, "other"},
         NEW k \in 1..FrameLength
  PROVE  UnitAt(values, (i - 1) * FrameLength + k - 1).command \in Queries
<1> DEFINE frame == [n \in 1..FrameLength |-> UnitAt(values, (i - 1) * FrameLength + n - 1)]
<1>1. CommandAt(values, i) = Command(frame)
  BY DEF CommandAt
<1>2. frame[1].command \in Queries /\ \A n \in 1..FrameLength : frame[n] = Unit(frame[1].command, n)
  <2> HIDE DEF frame
  <2>1. QED
    BY <1>1 DEF Command
<1>3. frame[k] = Unit(frame[1].command, k)
  BY <1>2
<1>4. frame[k].command = frame[1].command
  <2> HIDE DEF frame
  <2>1. QED
    BY <1>3 DEF Unit
<1>5. frame[k] = UnitAt(values, (i - 1) * FrameLength + k - 1)
  OBVIOUS
<1>6. QED
  BY <1>2, <1>4, <1>5

LEMMA QueryUnits ==
  ASSUME NEW values, NEW count \in Nat, NEW offset \in Nat, offset < count * FrameLength,
         \A i \in 1..count : CommandAt(values, i) \notin {"none", Write, "other"}
  PROVE  UnitAt(values, offset).command \in Queries
<1>1. FrameLength \in Nat \ {0}
  BY AuditAssumption
<1>2. PICK i \in 1..count, k \in 1..FrameLength : (i - 1) * FrameLength + k - 1 = offset
  BY <1>1, FrameOfOffset
<1>3. UnitAt(values, (i - 1) * FrameLength + k - 1).command \in Queries
  BY QueryFrame
<1>4. QED
  BY <1>2, <1>3

\* When nothing is unclear about a stream, and no command but queries was found in it,
\* every unit that was seen of it is part of a query.
LEMMA ClearStream ==
  ASSUME NEW flow \in Flows, flow.isn # {}, ~Unclear(flow, Values(flow)),
         Commands(Values(flow)) \cap {Write, "other"} = {},
         NEW s \in flow.segments, NEW k \in DOMAIN s[2]
  PROVE  s[2][k].command \in Queries
<1> DEFINE values == Values(flow)
           offset == Distance(flow, s[1]) + k - 1
<1>1. /\ \A t \in flow.segments : ~TooFar(flow, t)
      /\ ~(Cardinality(values) > Cardinality(Offsets(values)))
      /\ Prefix(values) = Reach(flow)
      /\ ~(Cardinality(Offsets(values)) > Parsed(values) * FrameLength)
  BY DEF Unclear
<1>2. <<offset, s[2][k]>> \in values
  BY <1>1, SeenValues
<1>3. UnitAt(values, offset) = s[2][k]
  <2> HIDE DEF offset
  <2>1. \A v \in values : UnitAt(values, v[1]) = v[2]
    BY <1>1, OneValueEach
  <2>2. QED
    BY <1>2, <2>1
<1>4. /\ Prefix(values) \in Nat /\ Offsets(values) = 0..(Prefix(values) - 1)
      /\ Cardinality(Offsets(values)) = Prefix(values)
  BY <1>1, NoGap
<1>5. offset \in Nat /\ offset < Prefix(values)
  <2>1. offset \in Offsets(values)
    BY <1>2 DEF Offsets
  <2> HIDE DEF offset, values
  <2>2. QED
    BY <1>4, <2>1
<1>6. Parsed(values) \in Nat /\ \A i \in 1..Parsed(values) : CommandAt(values, i) # "none"
  BY <1>4, ParsedFrames
<1>7. FrameLength \in Nat \ {0}
  BY AuditAssumption
<1>8. offset < Parsed(values) * FrameLength
  <2>1. Parsed(values) * FrameLength \in Nat
    BY <1>6, <1>7
  <2> HIDE DEF offset, values
  <2>2. QED
    BY <1>1, <1>4, <1>5, <2>1
<1>9. \A i \in 1..Parsed(values) : CommandAt(values, i) \notin {"none", Write, "other"}
  BY <1>6 DEF Commands
<1>10. UnitAt(values, offset).command \in Queries
  <2> HIDE DEF offset, values
  <2>1. QED
    BY <1>5, <1>6, <1>8, <1>9, QueryUnits
<1>11. QED
  BY <1>3, <1>10

-----------------------------------------------------------------------------
(* The invariant of the audit. *)

PacketKinds == {"syn", "data", "reply", "ack", "fin", "rst"}
Packets == [kind : PacketKinds, sequence : Seqno, data : Seq(Units)]
Connections == [isn : Seqno, sent : 0..Len(Stream), answers : Nat, closed : {"no", "fin", "rst"},
                opened : BOOLEAN, shown : SUBSET (1..Len(Stream))]

AuditTyped ==
  /\ connections \in Seq(Connections) /\ queue \in Seq(Packets) /\ flows \in Seq(Flows)
  /\ seenByKernel \in Nat /\ drops \in Nat /\ packets \in Nat

\* Each packet that passed was fed, waits, or was dropped.
Counted == seenByKernel = packets + Len(queue) + drops

\* Connections have their own numbers, and those from before the capture come first.
Numbered ==
  /\ Len(connections) <= Len(Isns)
  /\ \A i \in 1..Len(connections) : connections[i].isn = Isns[i]
  /\ \A i, j \in 1..Len(connections) : i < j /\ connections[i].opened => connections[j].opened
  /\ capture = "before" => /\ queue = <<>> /\ flows = <<>>
                           /\ \A i \in 1..Len(connections) : ~connections[i].opened /\ connections[i].shown = {}

\* Nothing was lost on the way to the audit.
Complete == drops = 0 /\ "budget" \notin problems

\* What was sent in the captured time waits in the queue or is in a flow.
Carries(data, unit) == \E k \in DOMAIN data : data[k] = unit
Held(unit) ==
  \/ \E p \in 1..Len(queue) : queue[p].kind = "data" /\ Carries(queue[p].data, unit)
  \/ \E j \in 1..Len(flows) : \E s \in flows[j].segments : Carries(s[2], unit)
ShownHeld ==
  Complete => \A i \in 1..Len(connections) : \A n \in connections[i].shown : Held(Stream[n])

\* So does the beginning of every connection opened in that time.
StartHeld ==
  Complete => \A i \in 1..Len(connections) : connections[i].opened =>
    \/ \E p \in 1..Len(queue) : queue[p].kind = "syn" /\ queue[p].sequence = connections[i].isn
    \/ \E j \in 1..Len(flows) : flows[j].isn = {connections[i].isn}

\* The connection that the audit will be at when it comes to a place in the queue.
NoSyn(from, to) == \A q \in 1..Len(queue) : from <= q /\ q < to => queue[q].kind # "syn"
Leads(place, isn) ==
  \/ \E q \in 1..Len(queue) : /\ q < place /\ queue[q].kind = "syn" /\ queue[q].sequence = isn
                              /\ NoSyn(q + 1, place)
  \/ /\ NoSyn(1, place) /\ flows # <<>> /\ flows[Len(flows)].isn = {isn}
LatestLeads ==
  Complete /\ connections # <<>> =>
    LET now == connections[Len(connections)]
    IN  now.opened => Leads(Len(queue) + 1, now.isn)

\* An end in the queue, or in a flow, is the end of a connection that has one; if that was
\* opened in the captured time, of the very one the audit is at.
EndsWait ==
  Complete => \A p \in 1..Len(queue) : queue[p].kind \in {"fin", "rst"} =>
    \E c \in 1..Len(connections) :
      /\ connections[c].closed # "no"
      /\ connections[c].opened => Leads(p, connections[c].isn)
EndsFed ==
  Complete => \A j \in 1..Len(flows) : EndSeen(flows[j]) =>
    \E c \in 1..Len(connections) :
      /\ connections[c].closed # "no"
      /\ connections[c].opened => flows[j].isn = {connections[c].isn}

\* What a report of nothing but queries promises.
Truth ==
  \A i \in 1..Len(connections) :
    /\ OnlyQueriesShown(connections[i])
    /\ connections[i].opened => connections[i].closed # "no" \/ Inherits(i)
Reported == verdict = "QUERY_ONLY_OBSERVED" => capture = "over" /\ Truth

AuditInv == /\ AuditTyped /\ Counted /\ Numbered /\ ShownHeld /\ StartHeld /\ LatestLeads
            /\ EndsWait /\ EndsFed /\ Reported

LEMMA AuditInvInit == AuditInit => AuditInv
<1> SUFFICES ASSUME AuditInit PROVE AuditInv
  OBVIOUS
<1>1. Len(<<>>) = 0
  OBVIOUS
<1>2. Isns \in Seq(Seqno)
  BY AuditAssumption DEF Seqno
<1>3. AuditTyped /\ Counted /\ Numbered
  BY <1>1, <1>2 DEF AuditInit, AuditTyped, Counted, Numbered
<1>4. ShownHeld /\ StartHeld /\ LatestLeads /\ EndsWait /\ EndsFed /\ Reported
  BY <1>1 DEF AuditInit, ShownHeld, StartHeld, LatestLeads, EndsWait, EndsFed, Reported
<1>5. QED
  BY <1>3, <1>4 DEF AuditInv

-----------------------------------------------------------------------------
(* A packet passes the filter. *)

\* Nothing that waited is lost, and in a complete capture the packet comes last.
LEMMA Passed ==
  ASSUME AuditTyped, Counted, NEW packet \in Packets, Pass(packet), packets' = packets
  PROVE  /\ queue' \in Seq(Packets) /\ seenByKernel' \in Nat /\ drops' \in Nat /\ Counted'
         /\ drops' = 0 => /\ drops = 0
                          /\ queue' = IF capture = "running" THEN Append(queue, packet) ELSE queue
<1>1. CASE capture # "running"
  BY <1>1 DEF Pass, AuditTyped, Counted
<1>2. CASE capture = "running" /\ Len(queue) < QueueLength
  <2>1. queue' = Append(queue, packet) /\ drops' = drops /\ seenByKernel' = seenByKernel + 1
    BY <1>2 DEF Pass
  <2>2. queue' \in Seq(Packets) /\ Len(queue') = Len(queue) + 1
    BY <2>1 DEF AuditTyped
  <2>3. QED
    BY <1>2, <2>1, <2>2 DEF AuditTyped, Counted
<1>3. CASE capture = "running" /\ ~(Len(queue) < QueueLength)
  <2>1. queue' = queue /\ drops' = drops + 1 /\ seenByKernel' = seenByKernel + 1
    BY <1>3 DEF Pass
  <2>2. QED
    BY <1>3, <2>1 DEF AuditTyped, Counted
<1>4. QED
  BY <1>1, <1>2, <1>3

\* What waits and where it leads to stays so when a packet comes last.
LEMMA WaitsOn ==
  ASSUME AuditTyped, flows' = flows, NEW packet \in Packets, queue' = Append(queue, packet)
  PROVE  /\ Len(queue) \in Nat /\ Len(queue') = Len(queue) + 1 /\ queue'[Len(queue) + 1] = packet
         /\ \A p \in 1..Len(queue) : queue'[p] = queue[p]
         /\ \A unit : Held(unit) => Held(unit)'
         /\ \A isn : \A p \in 1..(Len(queue) + 1) : Leads(p, isn) => Leads(p, isn)'
         /\ packet.kind # "syn" =>
              \A isn : Leads(Len(queue) + 1, isn) => Leads(Len(queue) + 1, isn)'
         /\ packet.kind = "syn" => Leads(Len(queue) + 1, packet.sequence)'
<1>1. /\ Len(queue) \in Nat /\ Len(queue') = Len(queue) + 1 /\ queue'[Len(queue) + 1] = packet
      /\ \A p \in 1..Len(queue) : queue'[p] = queue[p]
  BY DEF AuditTyped
<1>2. \A unit : Held(unit) => Held(unit)'
  BY <1>1 DEF Held
<1>3. \A from \in Nat, p \in 1..(Len(queue) + 1) : NoSyn(from, p) => NoSyn(from, p)'
  BY <1>1 DEF NoSyn
<1>4. ASSUME NEW isn, NEW p \in 1..(Len(queue) + 1), Leads(p, isn) PROVE Leads(p, isn)'
  <2>1. CASE NoSyn(1, p) /\ flows # <<>> /\ flows[Len(flows)].isn = {isn}
    BY <1>3, <2>1 DEF Leads
  <2>2. CASE \E q \in 1..Len(queue) : /\ q < p /\ queue[q].kind = "syn" /\ queue[q].sequence = isn
                                      /\ NoSyn(q + 1, p)
    <3>1. PICK q \in 1..Len(queue) : /\ q < p /\ queue[q].kind = "syn" /\ queue[q].sequence = isn
                                     /\ NoSyn(q + 1, p)
      BY <2>2
    <3>2. NoSyn(q + 1, p)' /\ q \in 1..Len(queue')
      BY <1>1, <1>3, <3>1
    <3>3. QED
      BY <1>1, <3>1, <3>2 DEF Leads
  <2>3. QED
    BY <1>4, <2>1, <2>2 DEF Leads
<1>5. ASSUME packet.kind # "syn", NEW isn, Leads(Len(queue) + 1, isn)
      PROVE  Leads(Len(queue) + 1, isn)'
  <2>1. \A from \in Nat : NoSyn(from, Len(queue) + 1) => NoSyn(from, Len(queue) + 1)'
    BY <1>1, <1>5 DEF NoSyn
  <2>2. CASE NoSyn(1, Len(queue) + 1) /\ flows # <<>> /\ flows[Len(flows)].isn = {isn}
    BY <2>1, <2>2 DEF Leads
  <2>3. CASE \E q \in 1..Len(queue) :
               /\ q < Len(queue) + 1 /\ queue[q].kind = "syn" /\ queue[q].sequence = isn
               /\ NoSyn(q + 1, Len(queue) + 1)
    <3>1. PICK q \in 1..Len(queue) : /\ queue[q].kind = "syn" /\ queue[q].sequence = isn
                                     /\ NoSyn(q + 1, Len(queue) + 1)
      BY <2>3
    <3>2. NoSyn(q + 1, Len(queue) + 1)' /\ q \in 1..Len(queue') /\ q < Len(queue') + 1
      BY <1>1, <2>1, <3>1
    <3>3. QED
      BY <1>1, <3>1, <3>2 DEF Leads
  <2>4. QED
    BY <1>5, <2>2, <2>3 DEF Leads
<1>6. ASSUME packet.kind = "syn" PROVE Leads(Len(queue) + 1, packet.sequence)'
  <2>1. NoSyn(Len(queue) + 1, Len(queue) + 1)'
    BY <1>1 DEF NoSyn
  <2>2. Len(queue') \in 1..Len(queue') /\ Len(queue') < Len(queue') + 1 /\ queue'[Len(queue')] = packet
    BY <1>1
  <2>3. QED
    BY <1>6, <2>1, <2>2 DEF Leads
<1>7. QED
  BY <1>1, <1>2, <1>4, <1>5, <1>6

\* What happens on the wire keeps the invariant, if the packet tells of it.
LEMMA WireStep ==
  ASSUME AuditInv, WireUnchanged, capture \in {"before", "running"},
         NEW packet \in Packets, Pass(packet),
         connections' \in Seq(Connections), Numbered', Len(connections) <= Len(connections'),
         \A i \in 1..Len(connections) :
           /\ connections'[i].isn = connections[i].isn
           /\ connections'[i].opened = connections[i].opened
           /\ connections[i].closed # "no" => connections'[i].closed # "no"
           /\ \A n \in connections'[i].shown \ connections[i].shown :
                capture = "running" /\ packet.kind = "data" /\ Carries(packet.data, Stream[n]),
         packet.kind = "syn" =>
           /\ Len(connections') = Len(connections) + 1
           /\ connections'[Len(connections')].shown = {}
           /\ connections'[Len(connections')].isn = packet.sequence
           /\ connections'[Len(connections')].opened => capture = "running",
         packet.kind # "syn" => Len(connections') = Len(connections),
         packet.kind \in {"fin", "rst"} =>
           connections # <<>> /\ connections'[Len(connections')].closed # "no"
  PROVE  AuditInv'
<1>1. UNCHANGED <<capture, flows, problems, packets, verdict>>
  BY DEF WireUnchanged
<1>2. /\ AuditTyped /\ Counted /\ Numbered /\ ShownHeld /\ StartHeld /\ LatestLeads
      /\ EndsWait /\ EndsFed /\ Reported
  BY DEF AuditInv
<1>3. /\ queue' \in Seq(Packets) /\ seenByKernel' \in Nat /\ drops' \in Nat /\ Counted'
      /\ drops' = 0 => /\ drops = 0
                       /\ queue' = IF capture = "running" THEN Append(queue, packet) ELSE queue
  BY <1>1, <1>2, Passed
<1>4. AuditTyped' /\ Counted' /\ Numbered'
  BY <1>1, <1>2, <1>3 DEF AuditTyped
<1>5. Reported'
  BY <1>1, <1>2 DEF Reported
<1>6. Len(connections) \in Nat /\ Len(connections') \in Nat /\ connections \in Seq(Connections)
  BY <1>2 DEF AuditTyped
<1>7. CASE ~Complete'
  BY <1>4, <1>5, <1>7 DEF AuditInv, ShownHeld, StartHeld, LatestLeads, EndsWait, EndsFed
<1>8. CASE Complete' /\ capture = "before"
  <2>1. Complete /\ queue' = queue
    BY <1>1, <1>3, <1>8 DEF Complete
  <2>2. /\ queue' = <<>> /\ flows' = <<>>
        /\ \A i \in 1..Len(connections') : ~connections'[i].opened /\ connections'[i].shown = {}
    BY <1>1, <1>8 DEF Numbered
  <2>3. Len(queue') = 0 /\ Len(flows') = 0
    BY <2>2
  <2>4. ShownHeld' /\ StartHeld' /\ EndsWait' /\ EndsFed'
    BY <2>2, <2>3 DEF ShownHeld, StartHeld, EndsWait, EndsFed
  <2>5. LatestLeads'
    <3>1. connections' # <<>> => Len(connections') \in 1..Len(connections')
      BY <1>6
    <3>2. QED
      BY <2>2, <3>1 DEF LatestLeads
  <2>6. QED
    BY <1>4, <1>5, <2>4, <2>5 DEF AuditInv
<1>9. CASE Complete' /\ capture = "running"
  <2>1. Complete /\ queue' = Append(queue, packet)
    BY <1>1, <1>3, <1>9 DEF Complete
  <2>2. /\ Len(queue) \in Nat /\ Len(queue') = Len(queue) + 1 /\ queue'[Len(queue) + 1] = packet
        /\ \A p \in 1..Len(queue) : queue'[p] = queue[p]
        /\ \A unit : Held(unit) => Held(unit)'
        /\ \A isn : \A p \in 1..(Len(queue) + 1) : Leads(p, isn) => Leads(p, isn)'
        /\ packet.kind # "syn" =>
             \A isn : Leads(Len(queue) + 1, isn) => Leads(Len(queue) + 1, isn)'
        /\ packet.kind = "syn" => Leads(Len(queue) + 1, packet.sequence)'
    BY <1>1, <1>2, <2>1, WaitsOn
  <2>3. packet.kind = "data" => \A unit : Carries(packet.data, unit) => Held(unit)'
    <3>1. Len(queue) + 1 \in 1..Len(queue')
      BY <2>2
    <3>2. QED
      BY <2>2, <3>1 DEF Held
  <2>4. ShownHeld'
    <3> SUFFICES ASSUME NEW i \in 1..Len(connections'), NEW n \in connections'[i].shown
                 PROVE  Held(Stream[n])'
      BY DEF ShownHeld
    <3>1. i \in 1..Len(connections)
      BY <1>6
    <3>2. CASE n \in connections[i].shown
      BY <1>2, <2>1, <2>2, <3>1, <3>2 DEF ShownHeld
    <3>3. CASE n \notin connections[i].shown
      BY <2>3, <3>1, <3>3
    <3>4. QED
      BY <3>2, <3>3
  <2>5. StartHeld'
    <3> SUFFICES ASSUME NEW i \in 1..Len(connections'), connections'[i].opened
                 PROVE  \/ \E p \in 1..Len(queue') : /\ queue'[p].kind = "syn"
                                                     /\ queue'[p].sequence = connections'[i].isn
                        \/ \E j \in 1..Len(flows') : flows'[j].isn = {connections'[i].isn}
      BY DEF StartHeld
    <3>1. CASE i \in 1..Len(connections)
      <4>1. \/ \E p \in 1..Len(queue) : /\ queue[p].kind = "syn"
                                        /\ queue[p].sequence = connections[i].isn
            \/ \E j \in 1..Len(flows) : flows[j].isn = {connections[i].isn}
        BY <1>2, <2>1, <3>1 DEF StartHeld
      <4>2. \A p \in 1..Len(queue) : p \in 1..Len(queue')
        BY <2>2
      <4>3. QED
        BY <1>1, <2>2, <3>1, <4>1, <4>2
    <3>2. CASE i \notin 1..Len(connections)
      <4>1. packet.kind = "syn" /\ i = Len(connections')
        BY <1>6, <3>2
      <4>2. Len(queue) + 1 \in 1..Len(queue')
        BY <2>2
      <4>3. QED
        BY <2>2, <4>1, <4>2
    <3>3. QED
      BY <3>1, <3>2
  <2>6. LatestLeads'
    <3> SUFFICES ASSUME connections' # <<>>, connections'[Len(connections')].opened
                 PROVE  Leads(Len(queue) + 1, connections[Len(connections)].isn)'
      BY DEF LatestLeads
    <3>1. CASE packet.kind = "syn"
      BY <2>2, <3>1
    <3>2. CASE packet.kind # "syn"
      <4>1. Len(connections') = Len(connections) /\ Len(connections) \in 1..Len(connections)
        BY <1>6, <3>2
      <4>2. Leads(Len(queue) + 1, connections[Len(connections)].isn)
        BY <1>2, <2>1, <4>1 DEF LatestLeads
      <4>3. QED
        BY <2>2, <3>2, <4>1, <4>2
    <3>3. QED
      BY <3>1, <3>2
  <2>7. EndsWait'
    <3> SUFFICES ASSUME NEW p \in 1..Len(queue'), queue'[p].kind \in {"fin", "rst"}
                 PROVE  \E c \in 1..Len(connections') :
                          /\ connections'[c].closed # "no"
                          /\ connections'[c].opened => Leads(p, connections[c].isn)'
      BY DEF EndsWait
    <3>1. CASE p \in 1..Len(queue)
      <4>1. PICK c \in 1..Len(connections) :
              /\ connections[c].closed # "no"
              /\ connections[c].opened => Leads(p, connections[c].isn)
        BY <1>2, <2>1, <2>2, <3>1 DEF EndsWait
      <4>2. c \in 1..Len(connections') /\ p \in 1..(Len(queue) + 1)
        BY <1>6, <2>2, <3>1
      <4>3. QED
        BY <2>2, <4>1, <4>2
    <3>2. CASE p \notin 1..Len(queue)
      <4>1. p = Len(queue) + 1 /\ packet.kind \in {"fin", "rst"} /\ packet.kind # "syn"
        BY <2>2, <3>2
      <4>2. /\ Len(connections) \in 1..Len(connections) /\ Len(connections') = Len(connections)
            /\ connections # <<>>
        BY <1>6, <4>1
      <4>3. connections[Len(connections)].opened =>
              Leads(Len(queue) + 1, connections[Len(connections)].isn)
        BY <1>2, <2>1, <4>2 DEF LatestLeads
      <4>4. p \in 1..(Len(queue) + 1)
        BY <2>2, <4>1
      <4>5. connections'[Len(connections)].opened => Leads(p, connections[Len(connections)].isn)'
        BY <2>2, <4>1, <4>2, <4>3, <4>4
      <4>6. QED
        BY <4>1, <4>2, <4>5
    <3>3. QED
      BY <3>1, <3>2
  <2>8. EndsFed'
    <3> SUFFICES ASSUME NEW j \in 1..Len(flows), EndSeen(flows[j])
                 PROVE  \E c \in 1..Len(connections') :
                          /\ connections'[c].closed # "no"
                          /\ connections'[c].opened => flows[j].isn = {connections'[c].isn}
      BY <1>1 DEF EndsFed, EndSeen
    <3>1. PICK c \in 1..Len(connections) :
            /\ connections[c].closed # "no"
            /\ connections[c].opened => flows[j].isn = {connections[c].isn}
      BY <1>2, <2>1 DEF EndsFed
    <3>2. c \in 1..Len(connections')
      BY <1>6
    <3>3. QED
      BY <3>1, <3>2
  <2>9. QED
    BY <1>4, <1>5, <2>4, <2>5, <2>6, <2>7, <2>8 DEF AuditInv
<1>10. QED
  BY <1>7, <1>8, <1>9

\* What changes when the connection of the moment does.
LEMMA OntoNow ==
  ASSUME AuditTyped, connections # <<>>, NEW changed \in Connections, Onto(changed)
  PROVE  /\ Len(connections) \in 1..Len(connections) /\ Now = connections[Len(connections)]
         /\ Now \in Connections
         /\ connections' \in Seq(Connections) /\ Len(connections') = Len(connections)
         /\ connections'[Len(connections)] = changed
         /\ \A i \in 1..Len(connections) :
              i # Len(connections) => connections'[i] = connections[i]
<1>1. connections \in Seq(Connections) /\ Len(connections) \in Nat /\ Len(connections) # 0
  BY DEF AuditTyped
<1>2. connections' = [connections EXCEPT ![Len(connections)] = changed]
  BY DEF Onto, ReplaceAt
<1>3. Now = connections[Len(connections)]
  BY DEF Now, Last
<1>4. QED
  BY <1>1, <1>2, <1>3

LEMMA WireMove ==
  ASSUME AuditInv, WireUnchanged, capture \in {"before", "running"}, connections # <<>>,
         NEW packet \in Packets, Pass(packet), packet.kind # "syn",
         NEW changed \in Connections, Onto(changed),
         changed.isn = Now.isn, changed.opened = Now.opened,
         Now.closed # "no" => changed.closed # "no",
         \A n \in changed.shown \ Now.shown :
           capture = "running" /\ packet.kind = "data" /\ Carries(packet.data, Stream[n]),
         packet.kind \in {"fin", "rst"} => changed.closed # "no"
  PROVE  AuditInv'
<1>1. AuditTyped /\ Numbered
  BY DEF AuditInv
<1>2. /\ Len(connections) \in 1..Len(connections) /\ Now = connections[Len(connections)]
      /\ connections' \in Seq(Connections) /\ Len(connections') = Len(connections)
      /\ connections'[Len(connections)] = changed
      /\ \A i \in 1..Len(connections) :
           i # Len(connections) => connections'[i] = connections[i]
  BY <1>1, OntoNow
<1>3. \A i \in 1..Len(connections) :
        /\ connections'[i].isn = connections[i].isn
        /\ connections'[i].opened = connections[i].opened
        /\ connections[i].closed # "no" => connections'[i].closed # "no"
        /\ \A n \in connections'[i].shown \ connections[i].shown :
             capture = "running" /\ packet.kind = "data" /\ Carries(packet.data, Stream[n])
  <2> SUFFICES ASSUME NEW i \in 1..Len(connections)
               PROVE  /\ connections'[i].isn = connections[i].isn
                      /\ connections'[i].opened = connections[i].opened
                      /\ connections[i].closed # "no" => connections'[i].closed # "no"
                      /\ \A n \in connections'[i].shown \ connections[i].shown :
                           /\ capture = "running" /\ packet.kind = "data"
                           /\ Carries(packet.data, Stream[n])
    OBVIOUS
  <2>1. CASE i = Len(connections)
    BY <1>2, <2>1
  <2>2. CASE i # Len(connections)
    BY <1>2, <2>2
  <2>3. QED
    BY <2>1, <2>2
<1>4. capture' = capture /\ flows' = flows /\ (capture = "before" => queue' = queue)
  BY DEF WireUnchanged, Pass
<1>5. Numbered'
  <2>1. /\ Len(connections') <= Len(Isns)
        /\ \A i \in 1..Len(connections') : connections'[i].isn = Isns[i]
    BY <1>1, <1>2, <1>3 DEF Numbered
  <2>2. \A i, j \in 1..Len(connections') :
          i < j /\ connections'[i].opened => connections'[j].opened
    BY <1>1, <1>2, <1>3 DEF Numbered
  <2>3. capture = "before" =>
          /\ queue = <<>> /\ flows = <<>>
          /\ \A i \in 1..Len(connections') : ~connections'[i].opened /\ connections'[i].shown = {}
    <3> SUFFICES ASSUME capture = "before", NEW i \in 1..Len(connections')
                 PROVE  ~connections'[i].opened /\ connections'[i].shown = {}
      BY <1>1 DEF Numbered
    <3>1. i \in 1..Len(connections)
      BY <1>2
    <3>2. ~connections[i].opened /\ connections[i].shown = {}
      BY <1>1, <3>1 DEF Numbered
    <3>3. ~(capture = "running")
      OBVIOUS
    <3>4. connections'[i].shown \ connections[i].shown = {}
      BY <1>3, <3>1, <3>3
    <3>5. connections'[i].opened = connections[i].opened
      BY <1>3, <3>1
    <3>6. QED
      BY <3>2, <3>4, <3>5
  <2>4. QED
    BY <1>4, <2>1, <2>2, <2>3 DEF Numbered
<1>6. /\ Len(connections) <= Len(connections')
      /\ packet.kind # "syn" => Len(connections') = Len(connections)
      /\ packet.kind \in {"fin", "rst"} =>
           connections # <<>> /\ connections'[Len(connections')].closed # "no"
  BY <1>2
<1>7. QED
  BY <1>2, <1>3, <1>5, <1>6, WireStep

\* The numbers of packets, and what a segment carries.
LEMMA SequencesTyped ==
  ASSUME AuditTyped, connections # <<>>, NEW n \in Nat
  PROVE  Mod(Now.isn + 1 + n) \in Seqno
<1>1. Now \in Connections
  BY DEF AuditTyped, Now, Last
<1>2. Now.isn \in Seqno
  BY <1>1 DEF Connections
<1>3. Now.isn + 1 + n \in Nat
  <2>1. \A number \in Seqno : number + 1 + n \in Nat
    BY AuditAssumption DEF Seqno
  <2>2. QED
    BY <1>2, <2>1
<1>4. QED
  BY <1>3, ModBounds

LEMMA Segment ==
  ASSUME NEW from \in Cuts, NEW to \in Cuts, from < to
  PROVE  /\ from \in Nat /\ to \in 0..Len(Stream)
         /\ (from + 1)..to \subseteq 1..Len(Stream)
         /\ SubSeq(Stream, from + 1, to) \in Seq(Units)
         /\ \A n \in (from + 1)..to : Carries(SubSeq(Stream, from + 1, to), Stream[n])
<1>1. Len(Stream) \in Nat /\ \A n \in 1..Len(Stream) : Stream[n] \in Units
  BY AuditAssumption DEF Units
<1>2. from \in 0..Len(Stream) /\ to \in 0..Len(Stream)
  BY AuditAssumption
<1>3. /\ SubSeq(Stream, from + 1, to) \in Seq(Units)
      /\ Len(SubSeq(Stream, from + 1, to)) = to - from
      /\ \A k \in 1..(to - from) : SubSeq(Stream, from + 1, to)[k] = Stream[from + k]
  BY <1>1, <1>2, SubSeqProperties
<1>4. ASSUME NEW n \in (from + 1)..to
      PROVE  Carries(SubSeq(Stream, from + 1, to), Stream[n])
  <2>1. n - from \in 1..(to - from) /\ from + (n - from) = n
    BY <1>2
  <2>2. n - from \in DOMAIN SubSeq(Stream, from + 1, to)
    BY <1>3, <2>1
  <2>3. QED
    BY <1>3, <2>1, <2>2 DEF Carries
<1>5. QED
  BY <1>2, <1>3, <1>4

LEMMA ConnectKeeps == AuditInv /\ Connect => AuditInv'
<1> SUFFICES ASSUME AuditInv, Connect PROVE AuditInv'
  OBVIOUS
<1> DEFINE isn == Isns[Len(connections) + 1]
           opened == capture = "running"
           fresh == [isn |-> isn, sent |-> 0, answers |-> 0, closed |-> "no",
                     opened |-> opened, shown |-> {}]
           packet == Packet("syn", isn, <<>>)
<1>1. AuditTyped /\ Numbered
  BY DEF AuditInv
<1>2. /\ capture \in {"before", "running"} /\ Len(connections) < Len(Isns)
      /\ connections' = Append(connections, fresh) /\ Pass(packet) /\ WireUnchanged
  BY DEF Connect
<1>3. connections \in Seq(Connections) /\ Len(connections) \in Nat /\ Len(Isns) \in Nat
  BY <1>1, AuditAssumption DEF AuditTyped
<1>4. Len(connections) + 1 \in 1..Len(Isns)
  BY <1>2, <1>3
<1>5. isn \in Seqno
  BY <1>4, AuditAssumption DEF Seqno
<1>6. packet \in Packets /\ packet.kind = "syn" /\ packet.sequence = isn
  <2>1. <<>> \in Seq(Units)
    OBVIOUS
  <2>2. QED
    BY <1>5, <2>1 DEF Packet, Packets, PacketKinds
<1>7. fresh \in Connections
  <2>1. 0 \in 0..Len(Stream) /\ {} \in SUBSET (1..Len(Stream)) /\ opened \in BOOLEAN
    BY AuditAssumption
  <2> HIDE DEF opened
  <2>2. QED
    BY <1>5, <2>1 DEF Connections
<1>8. fresh.isn = isn /\ fresh.opened = opened /\ fresh.shown = {}
  OBVIOUS
<1> HIDE DEF fresh, packet
<1>9. /\ connections' \in Seq(Connections) /\ Len(connections') = Len(connections) + 1
      /\ connections'[Len(connections) + 1] = fresh
      /\ \A i \in 1..Len(connections) : connections'[i] = connections[i]
  BY <1>2, <1>3, <1>7
<1>10. capture' = capture /\ flows' = flows /\ (capture = "before" => queue' = queue)
  BY <1>2 DEF WireUnchanged, Pass
<1>11. \A i \in 1..Len(connections') : i \in 1..Len(connections) \/ i = Len(connections) + 1
  BY <1>3, <1>9
<1>12. Numbered'
  <2>1. Len(connections') <= Len(Isns)
    BY <1>2, <1>3, <1>9
  <2>2. \A i \in 1..Len(connections') : connections'[i].isn = Isns[i]
    BY <1>1, <1>8, <1>9, <1>11 DEF Numbered
  <2>3. \A i, j \in 1..Len(connections') :
          i < j /\ connections'[i].opened => connections'[j].opened
    <3> SUFFICES ASSUME NEW i \in 1..Len(connections'), NEW j \in 1..Len(connections'), i < j,
                        connections'[i].opened
                 PROVE  connections'[j].opened
      OBVIOUS
    <3>1. i \in 1..Len(connections) /\ connections[i].opened
      BY <1>3, <1>9, <1>11
    <3>2. CASE j \in 1..Len(connections)
      BY <1>1, <1>9, <3>1, <3>2 DEF Numbered
    <3>3. CASE j = Len(connections) + 1
      <4>1. capture # "before"
        BY <1>1, <3>1 DEF Numbered
      <4>2. opened
        BY <1>2, <4>1
      <4>3. QED
        BY <1>8, <1>9, <3>3, <4>2
    <3>4. QED
      BY <1>11, <3>2, <3>3
  <2>4. capture = "before" =>
          /\ queue = <<>> /\ flows = <<>>
          /\ \A i \in 1..Len(connections') : ~connections'[i].opened /\ connections'[i].shown = {}
    <3>1. capture = "before" => ~opened
      OBVIOUS
    <3>2. QED
      BY <1>1, <1>8, <1>9, <1>11, <3>1 DEF Numbered
  <2>5. QED
    BY <1>10, <2>1, <2>2, <2>3, <2>4 DEF Numbered
<1>13. \A i \in 1..Len(connections) :
         /\ connections'[i].isn = connections[i].isn
         /\ connections'[i].opened = connections[i].opened
         /\ connections[i].closed # "no" => connections'[i].closed # "no"
         /\ \A n \in connections'[i].shown \ connections[i].shown :
              capture = "running" /\ packet.kind = "data" /\ Carries(packet.data, Stream[n])
  BY <1>9
<1>14. /\ Len(connections) <= Len(connections')
       /\ connections'[Len(connections')].shown = {}
       /\ connections'[Len(connections')].isn = packet.sequence
       /\ connections'[Len(connections')].opened => capture = "running"
  <2>1. Len(connections') = Len(connections) + 1 /\ connections'[Len(connections')] = fresh
    BY <1>9
  <2>2. fresh.opened => capture = "running"
    BY <1>8
  <2>3. QED
    BY <1>3, <1>6, <1>8, <2>1, <2>2
<1>15. packet.kind # "fin" /\ packet.kind # "rst"
  BY <1>6
<1>16. QED
  BY <1>2, <1>6, <1>9, <1>12, <1>13, <1>14, <1>15, WireStep

LEMMA SendKeeps == AuditInv /\ Send => AuditInv'
<1> SUFFICES ASSUME AuditInv, Send PROVE AuditInv'
  OBVIOUS
<1>1. PICK from \in Cuts, to \in Cuts :
        /\ Open /\ capture \in {"before", "running"} /\ from < to
        /\ Onto([Now EXCEPT !.sent = to,
                            !.shown = IF capture = "running" THEN @ \cup (from + 1)..to ELSE @])
        /\ Pass(Packet("data", Mod(Now.isn + 1 + from), SubSeq(Stream, from + 1, to)))
        /\ WireUnchanged
  BY DEF Send
<1> DEFINE running == capture = "running"
           shown == IF running THEN Now.shown \cup (from + 1)..to ELSE Now.shown
           changed == [Now EXCEPT !.sent = to, !.shown = shown]
           packet == Packet("data", Mod(Now.isn + 1 + from), SubSeq(Stream, from + 1, to))
<1>2. connections # <<>> /\ AuditTyped
  BY <1>1 DEF Open, AuditInv
<1>3. Now \in Connections
  BY <1>2 DEF AuditTyped, Now, Last
<1>4. /\ from \in Nat /\ to \in 0..Len(Stream)
      /\ (from + 1)..to \subseteq 1..Len(Stream)
      /\ SubSeq(Stream, from + 1, to) \in Seq(Units)
      /\ \A n \in (from + 1)..to : Carries(SubSeq(Stream, from + 1, to), Stream[n])
  BY <1>1, Segment
<1>5. Mod(Now.isn + 1 + from) \in Seqno
  BY <1>2, <1>4, SequencesTyped
<1>6. packet \in Packets /\ packet.kind = "data" /\ packet.data = SubSeq(Stream, from + 1, to)
  BY <1>4, <1>5 DEF Packet, Packets, PacketKinds
<1>7. /\ shown \subseteq 1..Len(Stream)
      /\ \A n \in shown \ Now.shown : running /\ n \in (from + 1)..to
  BY <1>3, <1>4 DEF Connections
<1>8. /\ changed \in Connections /\ changed.isn = Now.isn /\ changed.opened = Now.opened
      /\ changed.closed = Now.closed /\ changed.shown = shown
  <2> HIDE DEF shown
  <2>1. QED
    BY <1>3, <1>4, <1>7 DEF Connections
<1>9. Onto(changed) /\ Pass(packet)
  BY <1>1
<1> HIDE DEF changed, packet, shown
<1>10. \A n \in changed.shown \ Now.shown :
         capture = "running" /\ packet.kind = "data" /\ Carries(packet.data, Stream[n])
  BY <1>4, <1>6, <1>7, <1>8
<1>11. packet.kind # "syn" /\ packet.kind # "fin" /\ packet.kind # "rst"
  BY <1>6
<1>12. QED
  BY <1>1, <1>2, <1>6, <1>8, <1>9, <1>10, <1>11, WireMove

LEMMA AnswerKeeps == AuditInv /\ Answer => AuditInv'
<1> SUFFICES ASSUME AuditInv, Answer PROVE AuditInv'
  OBVIOUS
<1>1. PICK got \in Cuts, end \in {0, 1}, reply \in BOOLEAN :
        /\ capture = "running"
        /\ Onto([Now EXCEPT !.answers = @ + 1])
        /\ Pass(Packet(IF reply THEN "reply" ELSE "ack", Mod(Now.isn + 1 + got + end), <<>>))
        /\ WireUnchanged
  BY DEF Answer
<1> DEFINE changed == [Now EXCEPT !.answers = @ + 1]
           kind == IF reply THEN "reply" ELSE "ack"
           packet == Packet(kind, Mod(Now.isn + 1 + got + end), <<>>)
<1>2. connections # <<>> /\ AuditTyped
  BY DEF Answer, AuditInv
<1>3. Now \in Connections
  BY <1>2 DEF AuditTyped, Now, Last
<1>4. Mod(Now.isn + 1 + got + end) \in Seqno
  <2>1. got \in Nat /\ got + end \in Nat
    BY AuditAssumption
  <2>2. Mod(Now.isn + 1 + (got + end)) \in Seqno
    BY <1>2, <2>1, SequencesTyped
  <2>3. Now.isn \in Nat
    <3>1. \A number \in Seqno : number \in Nat
      BY AuditAssumption DEF Seqno
    <3>2. QED
      BY <1>3, <3>1 DEF Connections
  <2>4. Now.isn + 1 + (got + end) = Now.isn + 1 + got + end
    BY <2>1, <2>3
  <2>5. QED
    BY <2>2, <2>4
<1>5. kind \in {"reply", "ack"}
  OBVIOUS
<1>6. packet \in Packets /\ packet.kind = kind
  <2>1. <<>> \in Seq(Units)
    OBVIOUS
  <2> HIDE DEF kind
  <2>2. QED
    BY <1>4, <1>5, <2>1 DEF Packet, Packets, PacketKinds
<1>7. /\ changed \in Connections /\ changed.isn = Now.isn /\ changed.opened = Now.opened
      /\ changed.closed = Now.closed /\ changed.shown = Now.shown
  BY <1>3 DEF Connections
<1>8. Onto(changed) /\ Pass(packet)
  BY <1>1
<1> HIDE DEF changed, packet, kind
<1>9. packet.kind # "syn" /\ packet.kind # "fin" /\ packet.kind # "rst"
  BY <1>5, <1>6
<1>10. changed.shown \ Now.shown = {}
  BY <1>7
<1>11. QED
  BY <1>1, <1>2, <1>6, <1>7, <1>8, <1>9, <1>10, WireMove

LEMMA CloseKeeps == AuditInv /\ Close => AuditInv'
<1> SUFFICES ASSUME AuditInv, Close PROVE AuditInv'
  OBVIOUS
<1>1. PICK kind \in {"fin", "rst"} :
        /\ Open /\ capture = "running"
        /\ Onto([Now EXCEPT !.closed = kind])
        /\ Pass(Packet(kind, Mod(Now.isn + 1 + Now.sent), <<>>))
        /\ WireUnchanged
  BY DEF Close
<1> DEFINE changed == [Now EXCEPT !.closed = kind]
           packet == Packet(kind, Mod(Now.isn + 1 + Now.sent), <<>>)
<1>2. connections # <<>> /\ AuditTyped
  BY <1>1 DEF Open, AuditInv
<1>3. Now \in Connections
  BY <1>2 DEF AuditTyped, Now, Last
<1>4. Now.sent \in Nat
  BY <1>3, AuditAssumption DEF Connections
<1>5. Mod(Now.isn + 1 + Now.sent) \in Seqno
  BY <1>2, <1>4, SequencesTyped
<1>6. packet \in Packets /\ packet.kind = kind
  <2>1. <<>> \in Seq(Units)
    OBVIOUS
  <2>2. QED
    BY <1>5, <2>1 DEF Packet, Packets, PacketKinds
<1>7. /\ changed \in Connections /\ changed.isn = Now.isn /\ changed.opened = Now.opened
      /\ changed.closed = kind /\ changed.shown = Now.shown
  BY <1>3 DEF Connections
<1>8. Onto(changed) /\ Pass(packet)
  BY <1>1
<1> HIDE DEF changed, packet
<1>9. packet.kind # "syn" /\ changed.closed # "no"
  BY <1>6, <1>7
<1>10. changed.shown \ Now.shown = {}
  BY <1>7
<1>11. QED
  BY <1>1, <1>2, <1>6, <1>7, <1>8, <1>9, <1>10, WireMove

-----------------------------------------------------------------------------
(* A packet is fed. *)

LEMMA ExtendedFlow ==
  ASSUME NEW flow \in Flows, NEW packet \in Packets
  PROVE  /\ Extend(flow, packet) \in Flows
         /\ flow.segments \subseteq Extend(flow, packet).segments
         /\ packet.kind = "data" =>
              <<packet.sequence, packet.data>> \in Extend(flow, packet).segments
         /\ Extend(flow, packet).isn =
              IF packet.kind = "syn" THEN {packet.sequence} ELSE flow.isn
         /\ EndSeen(Extend(flow, packet)) => EndSeen(flow) \/ packet.kind \in {"fin", "rst"}
<1>1. /\ packet.kind \in PacketKinds /\ packet.sequence \in Seqno /\ packet.data \in Seq(Units)
      /\ {packet.sequence} \subseteq Seqno
      /\ <<packet.sequence, packet.data>> \in Seqno \X Seq(Units)
  BY DEF Packets
<1>2. CASE packet.kind = "syn"
  BY <1>1, <1>2 DEF Extend, Flows, EndSeen
<1>3. CASE packet.kind = "data"
  <2>1. Extend(flow, packet) =
          [flow EXCEPT !.segments = @ \cup {<<packet.sequence, packet.data>>}]
    BY <1>3 DEF Extend
  <2>2. flow.segments \cup {<<packet.sequence, packet.data>>} \in SUBSET (Seqno \X Seq(Units))
    BY <1>1 DEF Flows
  <2>3. QED
    BY <1>3, <2>1, <2>2 DEF Flows, EndSeen
<1>4. CASE packet.kind = "fin"
  BY <1>1, <1>4 DEF Extend, Flows, EndSeen
<1>5. CASE packet.kind = "rst"
  BY <1>1, <1>5 DEF Extend, Flows, EndSeen
<1>6. CASE packet.kind = "ack"
  BY <1>1, <1>6 DEF Extend, Flows, EndSeen
<1>7. CASE packet.kind = "reply"
  BY <1>1, <1>7 DEF Extend, Flows, EndSeen
<1>8. QED
  BY <1>1, <1>2, <1>3, <1>4, <1>5, <1>6, <1>7 DEF PacketKinds

\* The flow at which the audit is then, and what came of it and of the others.
Present == Len(flows')
LEMMA Fed ==
  ASSUME AuditTyped, NEW packet \in Packets,
         flows' = IF BeginsFlow(packet) THEN Append(flows, Extend(NoFlow, packet))
                  ELSE ReplaceAt(flows, Len(flows), Extend(Last(flows), packet))
  PROVE  /\ flows' \in Seq(Flows) /\ Present \in 1..Present
         /\ Len(flows) \in Nat /\ Len(flows) <= Present
         /\ \A j \in 1..Present : j # Present => j \in 1..Len(flows) /\ flows'[j] = flows[j]
         /\ \A j \in 1..Len(flows) : flows[j].segments \subseteq flows'[j].segments
         /\ packet.kind = "data" =>
              <<packet.sequence, packet.data>> \in flows'[Present].segments
         /\ packet.kind = "syn" => flows'[Present].isn = {packet.sequence}
         /\ \A j \in 1..Len(flows) : \A isn : flows[j].isn = {isn} => flows'[j].isn = {isn}
         /\ packet.kind # "syn" /\ flows # <<>> => Present = Len(flows)
         /\ EndSeen(flows'[Present]) =>
              \/ Present \in 1..Len(flows) /\ EndSeen(flows[Present])
              \/ packet.kind \in {"fin", "rst"}
<1>1. flows \in Seq(Flows) /\ Len(flows) \in Nat
  BY DEF AuditTyped
<1>2. CASE BeginsFlow(packet)
  <2>1. NoFlow \in Flows /\ ~EndSeen(NoFlow)
    BY DEF NoFlow, Flows, EndSeen
  <2> DEFINE new == Extend(NoFlow, packet)
  <2>2. /\ new \in Flows
        /\ packet.kind = "data" => <<packet.sequence, packet.data>> \in new.segments
        /\ packet.kind = "syn" => new.isn = {packet.sequence}
        /\ EndSeen(new) => packet.kind \in {"fin", "rst"}
    BY <2>1, ExtendedFlow, ZenonT(40)
  <2>3. flows' = Append(flows, new)
    BY <1>2
  <2> HIDE DEF new
  <2>4. /\ flows' \in Seq(Flows) /\ Present = Len(flows) + 1 /\ flows'[Present] = new
        /\ \A j \in 1..Len(flows) : flows'[j] = flows[j]
    <3>1. new \in Flows
      BY <2>2
    <3>2. /\ flows' \in Seq(Flows) /\ Len(flows') = Len(flows) + 1
          /\ flows'[Len(flows) + 1] = new /\ \A j \in 1..Len(flows) : flows'[j] = flows[j]
      BY <1>1, <2>3, <3>1, AppendProperties
    <3>3. QED
      BY <3>2 DEF Present
  <2>5. ~(packet.kind # "syn" /\ flows # <<>>)
    BY <1>2 DEF BeginsFlow
  <2>6. \A j \in 1..Present : j # Present => j \in 1..Len(flows)
    BY <1>1, <2>4
  <2>7. Present \in 1..Present /\ Len(flows) <= Present
    BY <1>1, <2>4
  <2>8. QED
    BY <1>1, <2>2, <2>4, <2>5, <2>6, <2>7
<1>3. CASE ~BeginsFlow(packet)
  <2> DEFINE old == flows[Len(flows)]
             new == Extend(old, packet)
  <2>1. /\ flows # <<>> /\ Len(flows) \in 1..Len(flows)
        /\ packet.kind = "syn" => old.isn \in {{}, {packet.sequence}}
    BY <1>1, <1>3 DEF BeginsFlow, Last
  <2>2. old \in Flows
    BY <1>1, <2>1
  <2>3. flows' = [flows EXCEPT ![Len(flows)] = new]
    BY <1>3 DEF ReplaceAt, Last
  <2> HIDE DEF old
  <2>4. /\ new \in Flows /\ old.segments \subseteq new.segments
        /\ packet.kind = "data" => <<packet.sequence, packet.data>> \in new.segments
        /\ new.isn = IF packet.kind = "syn" THEN {packet.sequence} ELSE old.isn
        /\ EndSeen(new) => EndSeen(old) \/ packet.kind \in {"fin", "rst"}
    BY <2>2, ExtendedFlow
  <2>5. \A isn : old.isn = {isn} => new.isn = {isn}
    BY <2>1, <2>4
  <2> HIDE DEF new
  <2>6. /\ flows' \in Seq(Flows) /\ Present = Len(flows) /\ flows'[Present] = new
        /\ \A j \in 1..Len(flows) : j # Len(flows) => flows'[j] = flows[j]
    BY <1>1, <2>1, <2>3, <2>4 DEF Present
  <2>7. flows[Len(flows)] = old
    BY DEF old
  <2>8. /\ \A j \in 1..Len(flows) : flows[j].segments \subseteq flows'[j].segments
        /\ \A j \in 1..Len(flows) : \A isn : flows[j].isn = {isn} => flows'[j].isn = {isn}
    <3> SUFFICES ASSUME NEW j \in 1..Len(flows)
                 PROVE  /\ flows[j].segments \subseteq flows'[j].segments
                        /\ \A isn : flows[j].isn = {isn} => flows'[j].isn = {isn}
      OBVIOUS
    <3>1. CASE j = Len(flows)
      BY <2>4, <2>5, <2>6, <2>7, <3>1
    <3>2. CASE j # Len(flows)
      BY <2>6, <3>2
    <3>3. QED
      BY <3>1, <3>2
  <2>9. \A j \in 1..Present : j # Present => j \in 1..Len(flows) /\ flows'[j] = flows[j]
    BY <2>6
  <2>10. packet.kind = "syn" => flows'[Present].isn = {packet.sequence}
    BY <2>4, <2>6
  <2>11. EndSeen(flows'[Present]) =>
           \/ Present \in 1..Len(flows) /\ EndSeen(flows[Present])
           \/ packet.kind \in {"fin", "rst"}
    BY <2>1, <2>4, <2>6, <2>7
  <2>12. /\ Present \in 1..Present /\ Len(flows) <= Present
         /\ packet.kind = "data" =>
              <<packet.sequence, packet.data>> \in flows'[Present].segments
    BY <1>1, <2>1, <2>4, <2>6
  <2>13. QED
    BY <1>1, <2>6, <2>8, <2>9, <2>10, <2>11, <2>12
<1>4. QED
  BY <1>2, <1>3

\* What the audit has been fed moves from the queue to the flows, and the queue moves up.
LEMMA FedOn ==
  ASSUME AuditTyped, queue # <<>>, queue' = Tail(queue), NEW packet, packet = Head(queue),
         flows' = IF BeginsFlow(packet) THEN Append(flows, Extend(NoFlow, packet))
                  ELSE ReplaceAt(flows, Len(flows), Extend(Last(flows), packet))
  PROVE  /\ \A unit : Held(unit) => Held(unit)'
         /\ \A isn : \/ \E p \in 1..Len(queue) : queue[p].kind = "syn" /\ queue[p].sequence = isn
                     \/ \E j \in 1..Len(flows) : flows[j].isn = {isn}
              => \/ \E p \in 1..Len(queue') : queue'[p].kind = "syn" /\ queue'[p].sequence = isn
                 \/ \E j \in 1..Len(flows') : flows'[j].isn = {isn}
         /\ \A p \in 1..Len(queue) : \A isn : Leads(p + 1, isn) => Leads(p, isn)'
<1>1. /\ Len(queue) \in Nat /\ 1 \in 1..Len(queue) /\ queue[1] = packet /\ packet \in Packets
      /\ Len(queue') = Len(queue) - 1
      /\ \A p \in 1..Len(queue') : queue'[p] = queue[p + 1]
  BY DEF AuditTyped
<1>2. \A p \in 1..Len(queue) : p = 1 \/ (p - 1 \in 1..Len(queue') /\ queue'[p - 1] = queue[p])
  BY <1>1
<1>3. /\ flows' \in Seq(Flows) /\ Present \in 1..Present
      /\ Len(flows) \in Nat /\ Len(flows) <= Present
      /\ \A j \in 1..Len(flows) : flows[j].segments \subseteq flows'[j].segments
      /\ packet.kind = "data" =>
           <<packet.sequence, packet.data>> \in flows'[Present].segments
      /\ packet.kind = "syn" => flows'[Present].isn = {packet.sequence}
      /\ \A j \in 1..Len(flows) : \A isn : flows[j].isn = {isn} => flows'[j].isn = {isn}
      /\ packet.kind # "syn" /\ flows # <<>> => Present = Len(flows)
  BY <1>1, Fed
<1>4. Present = Len(flows') /\ \A j \in 1..Len(flows) : j \in 1..Len(flows')
  BY <1>3 DEF Present
<1>5. ASSUME NEW unit, Held(unit) PROVE Held(unit)'
  <2>1. CASE \E p \in 1..Len(queue) : queue[p].kind = "data" /\ Carries(queue[p].data, unit)
    <3>1. PICK p \in 1..Len(queue) : queue[p].kind = "data" /\ Carries(queue[p].data, unit)
      BY <2>1
    <3>2. CASE p = 1
      <4>1. <<packet.sequence, packet.data>> \in flows'[Len(flows')].segments
        BY <1>1, <1>3, <1>4, <3>1, <3>2
      <4>2. <<packet.sequence, packet.data>>[2] = packet.data /\ Len(flows') \in 1..Len(flows')
        BY <1>3, <1>4
      <4>3. Carries(packet.data, unit)
        BY <1>1, <3>1, <3>2
      <4>4. \E s \in flows'[Len(flows')].segments : Carries(s[2], unit)
        BY <4>1, <4>2, <4>3
      <4>5. QED
        BY <4>2, <4>4 DEF Held
    <3>3. CASE p # 1
      BY <1>2, <3>1, <3>3 DEF Held
    <3>4. QED
      BY <3>2, <3>3
  <2>2. CASE \E j \in 1..Len(flows) : \E s \in flows[j].segments : Carries(s[2], unit)
    BY <1>3, <1>4, <2>2 DEF Held
  <2>3. QED
    BY <1>5, <2>1, <2>2 DEF Held
<1>6. ASSUME NEW isn,
             \/ \E p \in 1..Len(queue) : queue[p].kind = "syn" /\ queue[p].sequence = isn
             \/ \E j \in 1..Len(flows) : flows[j].isn = {isn}
      PROVE  \/ \E p \in 1..Len(queue') : queue'[p].kind = "syn" /\ queue'[p].sequence = isn
             \/ \E j \in 1..Len(flows') : flows'[j].isn = {isn}
  <2>1. CASE \E p \in 1..Len(queue) : queue[p].kind = "syn" /\ queue[p].sequence = isn
    <3>1. PICK p \in 1..Len(queue) : queue[p].kind = "syn" /\ queue[p].sequence = isn
      BY <2>1
    <3>2. CASE p = 1
      BY <1>1, <1>3, <1>4, <3>1, <3>2
    <3>3. CASE p # 1
      BY <1>2, <3>1, <3>3
    <3>4. QED
      BY <3>2, <3>3
  <2>2. CASE \E j \in 1..Len(flows) : flows[j].isn = {isn}
    BY <1>3, <1>4, <2>2
  <2>3. QED
    BY <1>6, <2>1, <2>2
<1>7. \A from \in Nat, p \in 1..Len(queue) : NoSyn(from + 1, p + 1) => NoSyn(from, p)'
  <2> SUFFICES ASSUME NEW from \in Nat, NEW p \in 1..Len(queue), NoSyn(from + 1, p + 1),
                      NEW q \in 1..Len(queue'), from <= q, q < p
               PROVE  queue'[q].kind # "syn"
    BY DEF NoSyn
  <2>1. q + 1 \in 1..Len(queue) /\ from + 1 <= q + 1 /\ q + 1 < p + 1
    BY <1>1
  <2>2. QED
    BY <1>1, <2>1 DEF NoSyn
<1>8. ASSUME NEW p \in 1..Len(queue), NEW isn, Leads(p + 1, isn) PROVE Leads(p, isn)'
  <2>1. CASE NoSyn(1, p + 1) /\ flows # <<>> /\ flows[Len(flows)].isn = {isn}
    <3>1. packet.kind # "syn"
      BY <1>1, <2>1 DEF NoSyn
    <3>2. Len(flows') = Len(flows) /\ Len(flows) \in 1..Len(flows)
      BY <1>3, <1>4, <2>1, <3>1
    <3>3. NoSyn(2, p + 1)
      BY <1>1, <2>1 DEF NoSyn
    <3>4. NoSyn(1, p)'
      BY <1>7, <3>3, 1 + 1 = 2
    <3>5. flows' # <<>> /\ flows'[Len(flows')].isn = {isn}
      <4>1. flows'[Len(flows)].isn = {isn}
        BY <1>3, <2>1, <3>2
      <4>2. Len(flows') # 0
        BY <1>3, <3>2
      <4>3. QED
        BY <3>2, <4>1, <4>2
    <3>6. QED
      BY <3>4, <3>5 DEF Leads
  <2>2. CASE \E q \in 1..Len(queue) : /\ q < p + 1 /\ queue[q].kind = "syn"
                                      /\ queue[q].sequence = isn /\ NoSyn(q + 1, p + 1)
    <3>1. PICK q \in 1..Len(queue) : /\ q < p + 1 /\ queue[q].kind = "syn"
                                     /\ queue[q].sequence = isn /\ NoSyn(q + 1, p + 1)
      BY <2>2
    <3>2. NoSyn(q, p)'
      BY <1>7, <3>1
    <3>3. CASE q = 1
      <4>1. flows'[Len(flows')].isn = {isn} /\ flows' # <<>>
        BY <1>1, <1>3, <1>4, <3>1, <3>3
      <4>2. QED
        BY <3>2, <3>3, <4>1 DEF Leads
    <3>4. CASE q # 1
      <4>1. q - 1 \in 1..Len(queue') /\ q - 1 < p /\ (q - 1) + 1 = q /\ queue'[q - 1] = queue[q]
        BY <1>1, <1>2, <3>1, <3>4
      <4>2. NoSyn((q - 1) + 1, p)'
        BY <3>2, <4>1
      <4>3. QED
        BY <3>1, <4>1, <4>2 DEF Leads
    <3>5. QED
      BY <3>3, <3>4
  <2>3. QED
    BY <1>8, <2>1, <2>2 DEF Leads
<1>9. QED
  BY <1>5, <1>6, <1>8

LEMMA ObserveKeeps == AuditInv /\ Observe => AuditInv'
<1> SUFFICES ASSUME AuditInv, Observe PROVE AuditInv'
  OBVIOUS
<1>1. /\ AuditTyped /\ Counted /\ Numbered /\ ShownHeld /\ StartHeld /\ LatestLeads
      /\ EndsWait /\ EndsFed /\ Reported
  BY DEF AuditInv
<1>2. /\ capture \in {"running", "draining"} /\ queue # <<>>
      /\ FeedPacket(Head(queue)) /\ queue' = Tail(queue)
      /\ capture' \in {"running", "draining", "drained"}
      /\ UNCHANGED <<connections, seenByKernel, drops, verdict>>
  BY DEF Observe
<1>3. PICK packet : packet = Head(queue)
  OBVIOUS
<1>4. /\ queue \in Seq(Packets) /\ Len(queue) \in Nat /\ Len(queue) # 0
      /\ packet \in Packets /\ queue[1] = packet
      /\ queue' \in Seq(Packets) /\ Len(queue') = Len(queue) - 1
      /\ \A p \in 1..Len(queue') : p + 1 \in 1..Len(queue) /\ queue'[p] = queue[p + 1]
  BY <1>1, <1>2, <1>3 DEF AuditTyped
<1>5. packets \in Nat /\ packets' = packets + 1
  BY <1>1, <1>2 DEF FeedPacket, AuditTyped
<1>6. Counted'
  BY <1>1, <1>2, <1>4, <1>5 DEF Counted, AuditTyped
<1>7. Numbered'
  <2>1. capture' # "before"
    BY <1>2
  <2>2. QED
    BY <1>1, <1>2, <2>1 DEF Numbered
<1>8. Reported'
  <2>1. verdict # "QUERY_ONLY_OBSERVED"
    BY <1>1, <1>2 DEF Reported
  <2>2. QED
    BY <1>2, <2>1 DEF Reported
<1>9. CASE packets' > MaxPackets
  <2>1. "budget" \in problems' /\ flows' = flows
    BY <1>2, <1>9 DEF FeedPacket
  <2>2. AuditTyped'
    BY <1>1, <1>2, <1>4, <1>5, <2>1 DEF AuditTyped
  <2>3. ~Complete'
    BY <2>1 DEF Complete
  <2>4. QED
    BY <1>6, <1>7, <1>8, <2>2, <2>3
       DEF AuditInv, ShownHeld, StartHeld, LatestLeads, EndsWait, EndsFed
<1>10. CASE ~(packets' > MaxPackets)
  <2>1. /\ problems \subseteq problems'
        /\ flows' = IF BeginsFlow(packet) THEN Append(flows, Extend(NoFlow, packet))
                    ELSE ReplaceAt(flows, Len(flows), Extend(Last(flows), packet))
    BY <1>2, <1>3, <1>10 DEF FeedPacket
  <2>2. /\ flows' \in Seq(Flows) /\ Present \in 1..Present
        /\ Len(flows) \in Nat /\ Len(flows) <= Present
        /\ \A j \in 1..Present : j # Present => j \in 1..Len(flows) /\ flows'[j] = flows[j]
        /\ \A j \in 1..Len(flows) : \A isn : flows[j].isn = {isn} => flows'[j].isn = {isn}
        /\ packet.kind # "syn" /\ flows # <<>> => Present = Len(flows)
        /\ EndSeen(flows'[Present]) =>
             \/ Present \in 1..Len(flows) /\ EndSeen(flows[Present])
             \/ packet.kind \in {"fin", "rst"}
    BY <1>1, <1>4, <2>1, Fed
  <2>3. /\ \A unit : Held(unit) => Held(unit)'
        /\ \A isn : \/ \E p \in 1..Len(queue) : queue[p].kind = "syn" /\ queue[p].sequence = isn
                    \/ \E j \in 1..Len(flows) : flows[j].isn = {isn}
             => \/ \E p \in 1..Len(queue') : queue'[p].kind = "syn" /\ queue'[p].sequence = isn
                \/ \E j \in 1..Len(flows') : flows'[j].isn = {isn}
        /\ \A p \in 1..Len(queue) : \A isn : Leads(p + 1, isn) => Leads(p, isn)'
    BY <1>1, <1>2, <1>3, <2>1, FedOn
  <2>4. Complete' => Complete
    BY <1>2, <2>1 DEF Complete
  <2>5. AuditTyped'
    BY <1>1, <1>2, <1>4, <1>5, <2>2 DEF AuditTyped
  <2>6. ShownHeld'
    BY <1>1, <1>2, <2>3, <2>4 DEF ShownHeld
  <2>7. StartHeld'
    BY <1>1, <1>2, <2>3, <2>4 DEF StartHeld
  <2>8. LatestLeads'
    <3> SUFFICES ASSUME Complete', connections' # <<>>, connections'[Len(connections')].opened
                 PROVE  Leads(Len(queue) + 1, connections[Len(connections)].isn)'
      BY DEF LatestLeads
    <3>1. Leads(Len(queue) + 1, connections[Len(connections)].isn)
      BY <1>1, <1>2, <2>4 DEF LatestLeads
    <3>2. Len(queue) \in 1..Len(queue) /\ Len(queue') + 1 = Len(queue)
      BY <1>4
    <3>3. PICK isn : isn = connections[Len(connections)].isn
      OBVIOUS
    <3>4. connections'[Len(connections')].isn = isn
      BY <1>2, <3>3
    <3>5. PICK place : place = Len(queue)
      OBVIOUS
    <3>6. Leads(place, isn)'
      BY <2>3, <3>1, <3>2, <3>3, <3>5
    <3>7. QED
      BY <3>2, <3>4, <3>5, <3>6
  <2>9. EndsWait'
    <3> SUFFICES ASSUME Complete', NEW p \in 1..Len(queue'), queue'[p].kind \in {"fin", "rst"}
                 PROVE  \E c \in 1..Len(connections) :
                          /\ connections[c].closed # "no"
                          /\ connections[c].opened => Leads(p, connections[c].isn)'
      BY <1>2 DEF EndsWait
    <3>1. p + 1 \in 1..Len(queue) /\ p \in 1..Len(queue) /\ queue[p + 1].kind \in {"fin", "rst"}
      BY <1>4
    <3>2. PICK c \in 1..Len(connections) :
            /\ connections[c].closed # "no"
            /\ connections[c].opened => Leads(p + 1, connections[c].isn)
      BY <1>1, <2>4, <3>1 DEF EndsWait
    <3>3. PICK isn : isn = connections[c].isn
      OBVIOUS
    <3>4. connections[c].opened => Leads(p, isn)'
      BY <2>3, <3>1, <3>2, <3>3
    <3>5. connections'[c].isn = isn
      BY <1>2, <3>3
    <3>6. QED
      BY <3>2, <3>4, <3>5
  <2>10. EndsFed'
    <3> SUFFICES ASSUME Complete', NEW j \in 1..Len(flows'), EndSeen(flows'[j])
                 PROVE  \E c \in 1..Len(connections) :
                          /\ connections[c].closed # "no"
                          /\ connections[c].opened => flows'[j].isn = {connections[c].isn}
      BY <1>2 DEF EndsFed, EndSeen
    <3>1. CASE j \in 1..Len(flows) /\ EndSeen(flows[j])
      <4>1. PICK c \in 1..Len(connections) :
              /\ connections[c].closed # "no"
              /\ connections[c].opened => flows[j].isn = {connections[c].isn}
        BY <1>1, <2>4, <3>1 DEF EndsFed
      <4>2. QED
        BY <2>2, <3>1, <4>1
    <3>2. CASE j = Present /\ packet.kind \in {"fin", "rst"}
      <4>1. 1 \in 1..Len(queue) /\ queue[1].kind \in {"fin", "rst"}
        BY <1>4, <3>2
      <4>2. PICK c \in 1..Len(connections) :
              /\ connections[c].closed # "no"
              /\ connections[c].opened => Leads(1, connections[c].isn)
        BY <1>1, <2>4, <4>1 DEF EndsWait
      <4>3. \A isn : Leads(1, isn) => flows # <<>> /\ flows[Len(flows)].isn = {isn}
        <5>1. ~\E q \in 1..Len(queue) : q < 1
          BY <1>4
        <5>2. QED
          BY <5>1 DEF Leads
      <4>4. packet.kind # "syn"
        BY <3>2
      <4>5. connections[c].opened => flows'[j].isn = {connections[c].isn}
        <5> SUFFICES ASSUME connections[c].opened PROVE flows'[j].isn = {connections[c].isn}
          OBVIOUS
        <5>1. flows # <<>> /\ flows[Len(flows)].isn = {connections[c].isn}
          BY <4>2, <4>3
        <5>2. Present = Len(flows) /\ Len(flows) \in 1..Len(flows)
          BY <2>2, <4>4, <5>1
        <5>3. QED
          BY <2>2, <3>2, <5>1, <5>2
      <4>6. QED
        BY <4>2, <4>5
    <3>3. j \in 1..Present
      BY DEF Present
    <3>4. CASE j # Present
      BY <2>2, <3>1, <3>3, <3>4
    <3>5. CASE j = Present
      BY <2>2, <3>1, <3>2, <3>5
    <3>6. QED
      BY <3>4, <3>5
  <2>11. QED
    BY <1>6, <1>7, <1>8, <2>5, <2>6, <2>7, <2>8, <2>9, <2>10 DEF AuditInv
<1>11. QED
  BY <1>9, <1>10

\* What a step leaves alone stays true.
LEMMA QuietKeeps ==
  ASSUME AuditInv, UNCHANGED <<connections, queue, seenByKernel, drops, flows, packets>>,
         Complete' => Complete,
         capture' = capture \/ capture' # "before",
         Reported'
  PROVE  AuditInv'
<1>1. AuditTyped' /\ Counted' /\ Numbered'
  BY DEF AuditInv, AuditTyped, Counted, Numbered
<1>2. /\ \A unit : Held(unit) => Held(unit)'
      /\ \A place, isn : Leads(place, isn) => Leads(place, isn)'
  BY DEF Held, Leads, NoSyn
<1>3. ShownHeld' /\ StartHeld'
  BY <1>2 DEF AuditInv, ShownHeld, StartHeld
<1>4. LatestLeads'
  <2> SUFFICES ASSUME Complete', connections' # <<>>, connections'[Len(connections')].opened
               PROVE  Leads(Len(queue) + 1, connections[Len(connections)].isn)'
    BY DEF LatestLeads
  <2>1. Leads(Len(queue) + 1, connections[Len(connections)].isn)
    BY DEF AuditInv, LatestLeads
  <2>2. QED
    BY <2>1 DEF Leads, NoSyn
<1>5. EndsWait'
  BY DEF AuditInv, EndsWait, Leads, NoSyn
<1>6. EndsFed'
  BY DEF AuditInv, EndsFed, EndSeen
<1>7. QED
  BY <1>1, <1>3, <1>4, <1>5, <1>6 DEF AuditInv

LEMMA StartCaptureKeeps == AuditInv /\ StartCapture => AuditInv'
<1> SUFFICES ASSUME AuditInv, StartCapture PROVE AuditInv'
  OBVIOUS
<1>1. Reported'
  BY DEF AuditInv, Reported, StartCapture
<1>2. Complete' => Complete
  BY DEF StartCapture, Complete
<1>3. UNCHANGED <<connections, queue, seenByKernel, drops, flows, packets>> /\ capture' # "before"
  BY DEF StartCapture
<1>4. QED
  BY <1>1, <1>2, <1>3, QuietKeeps

LEMMA StopCaptureKeeps == AuditInv /\ StopCapture => AuditInv'
<1> SUFFICES ASSUME AuditInv, StopCapture PROVE AuditInv'
  OBVIOUS
<1>1. Reported'
  BY DEF AuditInv, Reported, StopCapture
<1>2. Complete' => Complete
  BY DEF StopCapture, Complete
<1>3. UNCHANGED <<connections, queue, seenByKernel, drops, flows, packets>> /\ capture' # "before"
  BY DEF StopCapture
<1>4. QED
  BY <1>1, <1>2, <1>3, QuietKeeps

\* A judgement of nothing but queries: nothing was lost, nothing waits, and nothing is
\* unclear about any flow.
LEMMA Judged ==
  ASSUME AuditTyped, Counted, NEW found, Status(found) = "QUERY_ONLY_OBSERVED"
  PROVE  /\ found = {} /\ drops = 0 /\ queue = <<>>
         /\ \A j \in 1..Len(flows) : /\ flows[j].isn # {} /\ ~Unclear(flows[j], Values(flows[j]))
                                     /\ Commands(Values(flows[j])) \cap {Write, "other"} = {}
<1> DEFINE judged == {Assess(flows[i]) : i \in DOMAIN flows}
           seen == UNION {j.commands : j \in judged}
<1>1. flows \in Seq(Flows) /\ queue \in Seq(Packets) /\ DOMAIN flows = 1..Len(flows)
      /\ Len(queue) \in Nat /\ packets \in Nat /\ drops \in Nat /\ seenByKernel \in Nat
  BY DEF AuditTyped
<1>2. /\ Write \notin seen /\ "other" \notin seen /\ found = {} /\ ~(drops > 0)
      /\ seenByKernel = packets + drops /\ \A j \in judged : ~j.unclear
  <2> HIDE DEF judged, seen
  <2>1. \/ Write \in seen
        \/ Write \notin seen /\ "other" \in seen
        \/ {Write, "other"} \cap seen = {}
    OBVIOUS
  <2>2. Status(found) = CASE Write \in seen -> "WRITE_OBSERVED"
                          [] Write \notin seen /\ "other" \in seen -> "OTHER_COMMAND_OBSERVED"
                          [] {Write, "other"} \cap seen = {} ->
             IF \/ found # {}
                \/ drops > 0
                \/ seenByKernel # packets + drops
                \/ \E j \in judged : j.unclear
                \/ ~(Queries \subseteq seen)
                \/ \A i \in DOMAIN flows : ~flows[i].replied
             THEN "INCONCLUSIVE" ELSE "QUERY_ONLY_OBSERVED"
    BY DEF Status, judged, seen
  <2>3. ~(Write \in seen)
    BY <2>2
  <2>4. ~("other" \in seen)
    BY <2>2, <2>3
  <2>5. {Write, "other"} \cap seen = {}
    BY <2>3, <2>4
  <2>6. QED
    BY <2>2, <2>3, <2>4, <2>5
<1>3. drops = 0 /\ queue = <<>>
  <2>1. Len(queue) = 0
    BY <1>1, <1>2 DEF Counted
  <2>2. QED
    BY <1>1, <1>2, <2>1
<1>4. ASSUME NEW j \in 1..Len(flows)
      PROVE  /\ flows[j].isn # {} /\ ~Unclear(flows[j], Values(flows[j]))
             /\ Commands(Values(flows[j])) \cap {Write, "other"} = {}
  <2>1. Assess(flows[j]) \in judged
    BY <1>1
  <2>2. ~Assess(flows[j]).unclear /\ Assess(flows[j]).commands \subseteq seen
    BY <1>2, <2>1
  <2>3. flows[j].isn # {}
    BY <2>2 DEF Assess
  <2>4. /\ Assess(flows[j]).unclear = Unclear(flows[j], Values(flows[j]))
        /\ Assess(flows[j]).commands = Commands(Values(flows[j]))
    BY <2>3 DEF Assess
  <2>5. ~Unclear(flows[j], Values(flows[j])) /\ Commands(Values(flows[j])) \subseteq seen
    BY <2>2, <2>4
  <2>6. QED
    BY <1>2, <2>3, <2>5
<1>5. QED
  BY <1>2, <1>3, <1>4

LEMMA ReportKeeps == AuditInv /\ Report => AuditInv'
<1> SUFFICES ASSUME AuditInv, Report PROVE AuditInv'
  OBVIOUS
<1>1. /\ AuditTyped /\ Counted /\ Numbered /\ ShownHeld /\ StartHeld /\ LatestLeads
      /\ EndsWait /\ EndsFed /\ Reported
  BY DEF AuditInv
<1>2. /\ capture' = "over"
      /\ UNCHANGED <<connections, queue, seenByKernel, drops, flows, packets>>
  BY DEF Report
<1>3. problems \subseteq problems' /\ verdict' = Status(problems')
  BY DEF Report
<1>4. Complete' => Complete
  BY <1>2, <1>3 DEF Complete
<1>5. ASSUME verdict' = "QUERY_ONLY_OBSERVED" PROVE Truth
  <2>1. /\ problems' = {} /\ drops = 0 /\ queue = <<>>
        /\ \A j \in 1..Len(flows) :
             /\ flows[j].isn # {} /\ ~Unclear(flows[j], Values(flows[j]))
             /\ Commands(Values(flows[j])) \cap {Write, "other"} = {}
    BY <1>1, <1>3, <1>5, Judged
  <2>2. Complete /\ 1..Len(queue) = {}
    BY <1>3, <2>1 DEF Complete
  <2>3. connections \in Seq(Connections) /\ flows \in Seq(Flows) /\ Len(connections) \in Nat
    BY <1>1 DEF AuditTyped
  <2> SUFFICES ASSUME NEW i \in 1..Len(connections)
               PROVE  /\ OnlyQueriesShown(connections[i])
                      /\ connections[i].opened => connections[i].closed # "no" \/ Inherits(i)
    BY DEF Truth
  <2>4. ASSUME NEW n \in connections[i].shown PROVE Stream[n].command \in Queries
    <3>1. Held(Stream[n])
      BY <1>1, <2>2 DEF ShownHeld
    <3>2. PICK j \in 1..Len(flows) : \E t \in flows[j].segments : Carries(t[2], Stream[n])
      BY <2>2, <3>1 DEF Held
    <3> PICK s \in flows[j].segments : Carries(s[2], Stream[n])
      BY <3>2
    <3>3. PICK k \in DOMAIN s[2] : s[2][k] = Stream[n]
      BY DEF Carries
    <3>4. flows[j] \in Flows
      BY <2>3
    <3>5. s[2][k].command \in Queries
      BY <2>1, <3>4, ClearStream
    <3>6. QED
      BY <3>3, <3>5
  <2>5. ASSUME connections[i].opened PROVE connections[i].closed # "no" \/ Inherits(i)
    <3>1. PICK j \in 1..Len(flows) : flows[j].isn = {connections[i].isn}
      BY <1>1, <2>2, <2>5 DEF StartHeld
    <3>2. EndSeen(flows[j])
      BY <2>1 DEF Unclear
    <3>3. PICK c \in 1..Len(connections) :
            /\ connections[c].closed # "no"
            /\ connections[c].opened => flows[j].isn = {connections[c].isn}
      BY <1>1, <2>2, <3>2 DEF EndsFed
    <3>4. CASE connections[c].opened
      <4>1. connections[c].isn = connections[i].isn
        BY <3>1, <3>3, <3>4
      <4>2. Isns[c] = Isns[i] /\ c \in DOMAIN Isns /\ i \in DOMAIN Isns
        BY <1>1, <2>3, <4>1, AuditAssumption, SMTT(30) DEF Numbered
      <4>3. c = i
        BY <4>2, AuditAssumption DEF IsInjective
      <4>4. QED
        BY <3>3, <4>3
    <3>5. CASE ~connections[c].opened
      <4>1. ~(i < c) /\ i # c
        BY <1>1, <2>5, <3>5 DEF Numbered
      <4>2. c \in 1..(i - 1)
        BY <2>3, <4>1
      <4>3. QED
        BY <3>3, <3>5, <4>2 DEF Inherits
    <3>6. QED
      BY <3>4, <3>5
  <2>6. QED
    BY <2>4, <2>5 DEF OnlyQueriesShown
<1>6. Truth => Truth'
  BY <1>2 DEF Truth, OnlyQueriesShown, Inherits
<1>7. Reported'
  BY <1>2, <1>5, <1>6 DEF Reported
<1>8. capture' # "before"
  BY <1>2
<1>9. QED
  BY <1>2, <1>4, <1>7, <1>8, QuietKeeps

LEMMA AuditInvNext == AuditInv /\ [AuditNext]_auditVars => AuditInv'
<1> SUFFICES ASSUME AuditInv, [AuditNext]_auditVars PROVE AuditInv'
  OBVIOUS
<1>1. CASE AuditNext
  BY <1>1, ConnectKeeps, SendKeeps, AnswerKeeps, CloseKeeps, StartCaptureKeeps, ObserveKeeps,
     StopCaptureKeeps, ReportKeeps DEF AuditNext
<1>2. CASE UNCHANGED auditVars
  <2>1. UNCHANGED <<connections, queue, seenByKernel, drops, flows, packets>>
        /\ UNCHANGED <<capture, problems, verdict>>
    BY <1>2 DEF auditVars
  <2>2. Reported' /\ (Complete' => Complete)
    BY <2>1 DEF AuditInv, Reported, Truth, OnlyQueriesShown, Inherits, Complete
  <2>3. QED
    BY <2>1, <2>2, QuietKeeps
<1>3. QED
  BY <1>1, <1>2

\* When the passive audit says that nothing but queries was seen, nothing else was sent in the
\* captured time, and every connection opened in that time had its end, or has its address
\* from one that did: for every stream, every way to cut it, every loss at the queue, every
\* reuse of the address and every budget.
THEOREM QueryOnlyIsAlwaysTrue == AuditSpec => []QueryOnlyIsTrueOfOwn
<1>1. AuditInv => QueryOnlyIsTrueOfOwn
  <2>1. AuditTyped => DOMAIN connections = 1..Len(connections)
    BY DEF AuditTyped
  <2>2. QED
    BY <2>1 DEF AuditInv, Reported, Truth, QueryOnlyIsTrueOfOwn
<1>2. QED
  BY AuditInvInit, AuditInvNext, <1>1, PTL DEF AuditSpec

-----------------------------------------------------------------------------
(* Bytes and the frames among them. *)

LEMMA Slice ==
  ASSUME NEW S, NEW s \in Seq(S), NEW from \in Nat, NEW to \in Nat, from <= to, to <= Len(s)
  PROVE  /\ SubSeq(s, from + 1, to) \in Seq(S) /\ Len(SubSeq(s, from + 1, to)) = to - from
         /\ \A k \in 1..(to - from) : SubSeq(s, from + 1, to)[k] = s[from + k]
<1>1. Len(s) \in Nat /\ \A i \in (from + 1)..to : s[i] \in S
  OBVIOUS
<1>2. from + 1 \in Int /\ to \in Int
  OBVIOUS
<1> DEFINE part == SubSeq(s, from + 1, to)
<1>3. /\ part \in Seq(S) /\ Len(part) = IF from + 1 <= to THEN to - (from + 1) + 1 ELSE 0
      /\ \A i \in 1..(to - (from + 1) + 1) : part[i] = s[from + 1 + i - 1]
  <2> HIDE DEF part
  <2>1. QED
    BY <1>1, <1>2, SubSeqProperties DEF part
<1> HIDE DEF part
<1>4. Len(part) = to - from
  BY <1>3
<1>5. to - (from + 1) + 1 = to - from
  OBVIOUS
<1>6. \A i \in 1..(to - from) : from + 1 + i - 1 = from + i
  OBVIOUS
<1>7. QED
  BY <1>3, <1>4, <1>5, <1>6 DEF part

\* Bytes that begin no frame, whatever comes behind them.
NeverFrame(bytes) ==
  /\ bytes[1] = Core => CoreLength <= Len(bytes) /\ bytes[CoreLength] # End
  /\ bytes[1] = Header[1] => ~HeaderFits(bytes)
  /\ bytes[1] \notin Acks

LEMMA Lengths ==
  /\ CoreLength \in Nat /\ CoreLength > 1
  /\ Len(Header) \in Nat /\ Len(Header) >= 1 /\ Len(Trailer) \in Nat /\ Len(Trailer) >= 1
  /\ Overhead \in Nat /\ Overhead = Len(Header) + 1 + Len(Trailer)
  /\ \A b \in Bytes : Payload[b] \in Nat
  BY DecoderAssumption DEF Overhead

\* The header stands at the beginning of bytes.
LEMMA HeaderStands ==
  ASSUME NEW bytes \in Seq(Bytes), Len(Header) <= Len(bytes)
  PROVE  HeaderFits(bytes) <=> IsPrefix(Header, bytes)
<1>1. /\ Header \in Seq(Bytes) /\ Len(bytes) \in Nat /\ Len(Header) \in Nat
  BY DecoderAssumption
<1> DEFINE h == SubSeq(Header, 1, Len(Header))
           b == SubSeq(bytes, 1, Len(Header))
<1>2. /\ h \in Seq(Bytes) /\ Len(h) = Len(Header) /\ \A k \in 1..Len(Header) : h[k] = Header[k]
      /\ b \in Seq(Bytes) /\ Len(b) = Len(Header) /\ \A k \in 1..Len(Header) : b[k] = bytes[k]
  BY <1>1
<1> HIDE DEF h, b
<1>3. (\A k \in 1..Len(Header) : bytes[k] = Header[k]) <=> h = b
  <2>1. h = b => \A k \in 1..Len(Header) : bytes[k] = Header[k]
    BY <1>2
  <2>2. (\A k \in 1..Len(Header) : bytes[k] = Header[k]) => h = b
    BY <1>2, SeqEqual
  <2>3. QED
    BY <2>1, <2>2
<1>4. HeaderFits(bytes) <=> \A k \in 1..Len(Header) : bytes[k] = Header[k]
  BY <1>1 DEF HeaderFits
<1>5. IsPrefix(Header, bytes) <=> h = b
  BY DEF IsPrefix, h, b
<1>6. QED
  BY <1>3, <1>4, <1>5

\* What the decoders make of the beginning of an extended frame.
LEMMA ExtendedTakes ==
  ASSUME NEW bytes \in Seq(Bytes), HeaderFits(bytes), bytes # <<>>
  PROVE  /\ Extended(bytes) = Wait =>
              \/ IsPrefix(bytes, Header)
              \/ /\ IsStrictPrefix(Header, bytes)
                 /\ Len(bytes) < Overhead + Payload[bytes[Len(Header) + 1]]
         /\ Extended(bytes) # Wait /\ Extended(bytes) # Reject =>
              /\ Extended(bytes).kind = "extended" /\ Extended(bytes).size \in 1..Len(bytes)
              /\ Extended(bytes) = Take("extended", Extended(bytes).size)
              /\ WellFormed("extended", SubSeq(bytes, 1, Extended(bytes).size))
<1> DEFINE size == Overhead + Payload[bytes[Len(Header) + 1]]
<1>1. Len(bytes) \in Nat /\ Len(bytes) # 0
  OBVIOUS
<1>2. CASE Len(bytes) <= Len(Header)
  <2>1. Extended(bytes) = Wait
    BY <1>2 DEF Extended
  <2>2. IsPrefix(bytes, Header)
    <3> DEFINE h == SubSeq(Header, 1, Len(bytes))
               b == SubSeq(bytes, 1, Len(bytes))
    <3>1. /\ h \in Seq(Bytes) /\ Len(h) = Len(bytes) /\ \A k \in 1..Len(bytes) : h[k] = Header[k]
          /\ b \in Seq(Bytes) /\ Len(b) = Len(bytes) /\ \A k \in 1..Len(bytes) : b[k] = bytes[k]
      <4>1. Header \in Seq(Bytes) /\ Len(Header) \in Nat
        BY DecoderAssumption
      <4>2. QED
        BY <1>1, <1>2, <4>1
    <3> HIDE DEF h, b
    <3>2. \A k \in 1..Len(bytes) : bytes[k] = Header[k]
      BY <1>1, <1>2, Lengths DEF HeaderFits
    <3>3. b = h
      BY <3>1, <3>2, SeqEqual
    <3>4. QED
      BY <1>2, <3>3 DEF IsPrefix, h, b
  <2>3. QED
    BY <2>1, <2>2
<1>3. CASE ~(Len(bytes) <= Len(Header)) /\ Len(bytes) < size
  <2>1. Extended(bytes) = Wait
    BY <1>3 DEF Extended
  <2>2. IsPrefix(Header, bytes) /\ Header # bytes
    BY <1>1, <1>3, Lengths, HeaderStands
  <2>3. QED
    BY <1>3, <2>1, <2>2 DEF IsStrictPrefix
<1>4. CASE ~(Len(bytes) <= Len(Header)) /\ ~(Len(bytes) < size)
  <2>1. size \in Nat /\ size <= Len(bytes) /\ size > Len(Header) /\ size > Len(Trailer)
    <3>1. bytes[Len(Header) + 1] \in Bytes
      BY <1>1, <1>4, Lengths
    <3>2. Payload[bytes[Len(Header) + 1]] \in Nat
      BY <3>1, Lengths
    <3>3. QED
      BY <1>1, <1>4, <3>2, Lengths
  <2> DEFINE trailer == SubSeq(bytes, size - Len(Trailer) + 1, size)
  <2>2. Extended(bytes) = IF trailer # Trailer THEN Reject ELSE Take("extended", size)
    BY <1>4 DEF Extended
  <2>3. Wait.kind = "wait" /\ Reject.kind = "reject" /\ Take("extended", size).kind = "extended"
    BY DEF Wait, Reject, Take
  <2>4. CASE trailer # Trailer
    <3>1. Extended(bytes) = Reject
      BY <2>2, <2>4
    <3>2. Reject # Wait
      BY <2>3
    <3>3. QED
      BY <3>1, <3>2
  <2>5. CASE trailer = Trailer
    <3> DEFINE raw == SubSeq(bytes, 1, size)
    <3>1. Extended(bytes) = Take("extended", size) /\ Take("extended", size).size = size
      BY <2>2, <2>5 DEF Take
    <3>2. raw \in Seq(Bytes) /\ Len(raw) = size /\ \A k \in 1..size : raw[k] = bytes[k]
      BY <2>1, <1>1
    <3>3. SubSeq(raw, size - Len(Trailer) + 1, size) = trailer
      <4> DEFINE from == size - Len(Trailer)
                 t == SubSeq(raw, from + 1, size)
      <4>1. from \in Nat /\ from <= size /\ size <= Len(bytes) /\ size <= Len(raw)
        BY <2>1, <3>2, Lengths
      <4> HIDE DEF raw, size, from, t
      <4>2. /\ t \in Seq(Bytes) /\ Len(t) = size - from
            /\ \A k \in 1..(size - from) : t[k] = raw[from + k]
        BY <2>1, <3>2, <4>1, Slice DEF t
      <4>3. /\ SubSeq(bytes, from + 1, size) \in Seq(Bytes)
            /\ Len(SubSeq(bytes, from + 1, size)) = size - from
            /\ \A k \in 1..(size - from) : SubSeq(bytes, from + 1, size)[k] = bytes[from + k]
        BY <2>1, <4>1, Slice
      <4>4. \A k \in 1..(size - from) : from + k \in 1..size
        BY <2>1, <4>1
      <4>5. \A k \in 1..(size - from) : t[k] = SubSeq(bytes, from + 1, size)[k]
        <5>1. \A k \in 1..(size - from) : raw[from + k] = bytes[from + k]
          BY <3>2, <4>4
        <5>2. QED
          BY <4>2, <4>3, <5>1
      <4>6. t = SubSeq(bytes, from + 1, size)
        BY <4>2, <4>3, <4>5, SeqEqual
      <4>7. QED
        BY <4>6 DEF t, from
    <3>4. HeaderFits(raw) /\ raw[Len(Header) + 1] = bytes[Len(Header) + 1]
      <4>1. Len(Header) + 1 \in 1..size
        BY <2>1, Lengths
      <4> HIDE DEF raw, size
      <4>2. \A i \in 1..Len(Header) : i \in 1..size /\ i <= Len(bytes)
        BY <2>1, Lengths, <1>1
      <4>3. QED
        BY <3>2, <4>1, <4>2 DEF HeaderFits
    <3> HIDE DEF raw
    <3>5. IsPrefix(Header, raw)
      BY <2>1, <3>2, <3>4, HeaderStands
    <3>6. WellFormed("extended", raw)
      <4>1. Len(raw) > Len(Header) /\ Len(raw) = Overhead + Payload[raw[Len(Header) + 1]]
        BY <2>1, <3>2, <3>4
      <4>2. SubSeq(raw, Len(raw) - Len(Trailer) + 1, Len(raw)) = Trailer
        BY <2>5, <3>2, <3>3
      <4>3. QED
        BY <3>5, <4>1, <4>2 DEF WellFormed
    <3>7. size \in 1..Len(bytes)
      BY <2>1, Lengths
    <3>8. QED
      BY <2>3, <3>1, <3>6, <3>7 DEF raw
  <2>6. QED
    BY <2>4, <2>5
<1>5. QED
  BY <1>2, <1>3, <1>4

\* What StreamDecoder makes of the beginning of its buffer.
LEMMA ScanTakes ==
  ASSUME NEW bytes \in Seq(Bytes), bytes # <<>>, NEW next, next = Scan(bytes)
  PROVE  /\ next.kind \in {"wait", "reject", "junk"} \cup Kinds
         /\ next.kind \in Kinds =>
              /\ next.size \in 1..Len(bytes)
              /\ WellFormed(next.kind, SubSeq(bytes, 1, next.size))
         /\ next.kind = "junk" => next.size = 1 /\ 1 \in 1..Len(bytes) /\ NeverFrame(bytes)
         /\ next.kind = "wait" => FrameMayCome(bytes) /\ StrictScan(bytes).kind = "wait"
<1>1. Len(bytes) \in Nat /\ Len(bytes) # 0 /\ 1 \in 1..Len(bytes)
  OBVIOUS
<1>2. /\ Wait.kind = "wait" /\ Reject.kind = "reject"
      /\ \A kind, size : Take(kind, size).kind = kind /\ Take(kind, size).size = size
  BY DEF Wait, Reject, Take
<1>3. Core # Header[1] /\ Core \notin Acks /\ Header[1] \notin Acks
  BY DecoderAssumption
<1>4. CASE bytes[1] = Core
  <2>1. CASE Len(bytes) < CoreLength
    <3>1. next = Wait
      BY <1>3, <1>4, <2>1 DEF Scan
    <3>2. StrictScan(bytes) = Wait
      BY <1>3, <1>4, <2>1 DEF StrictScan
    <3>3. FrameMayCome(bytes)
      BY <1>4, <2>1 DEF FrameMayCome
    <3>4. QED
      BY <1>2, <3>1, <3>2, <3>3 DEF Kinds
  <2>2. CASE ~(Len(bytes) < CoreLength) /\ bytes[CoreLength] = End
    <3>1. next = Take("primary", CoreLength)
      BY <1>3, <1>4, <2>2 DEF Scan
    <3>2. CoreLength \in 1..Len(bytes)
      BY <1>1, <2>2, Lengths
    <3> DEFINE raw == SubSeq(bytes, 1, CoreLength)
    <3>3. Len(raw) = CoreLength /\ raw[1] = bytes[1] /\ raw[CoreLength] = bytes[CoreLength]
      BY <1>1, <3>2
    <3>4. WellFormed("primary", raw)
      <4> HIDE DEF raw
      <4>1. QED
        BY <1>4, <2>2, <3>3 DEF WellFormed
    <3>5. QED
      BY <1>2, <3>1, <3>2, <3>4 DEF Kinds
  <2>3. CASE ~(Len(bytes) < CoreLength) /\ bytes[CoreLength] # End
    <3>1. next = Take("junk", 1)
      BY <1>3, <1>4, <2>3 DEF Scan
    <3>2. CoreLength <= Len(bytes)
      BY <1>1, <2>3, Lengths
    <3>3. NeverFrame(bytes)
      BY <1>3, <1>4, <2>3, <3>2 DEF NeverFrame
    <3>4. QED
      BY <1>1, <1>2, <3>1, <3>3 DEF Kinds
  <2>4. QED
    BY <2>1, <2>2, <2>3
<1>5. CASE bytes[1] = Header[1] /\ HeaderFits(bytes)
  <2>1. bytes[1] # Core /\ bytes[1] \notin Acks
    BY <1>3, <1>5
  <2>2. next = Extended(bytes)
    BY <1>5, <2>1 DEF Scan
  <2>3. StrictScan(bytes) = Extended(bytes)
    BY <1>5, <2>1 DEF StrictScan
  <2>4. CASE next = Wait
    <3>1. FrameMayCome(bytes)
      BY <1>5, <2>2, <2>4, ExtendedTakes DEF FrameMayCome
    <3>2. QED
      BY <1>2, <2>2, <2>3, <2>4, <3>1 DEF Kinds
  <2>5. CASE next = Reject
    BY <1>2, <2>5 DEF Kinds
  <2>6. CASE next # Wait /\ next # Reject
    <3>1. /\ next.kind = "extended" /\ next.size \in 1..Len(bytes)
          /\ WellFormed("extended", SubSeq(bytes, 1, next.size))
      BY <1>5, <2>2, <2>6, ExtendedTakes
    <3>2. QED
      BY <3>1 DEF Kinds
  <2>7. QED
    BY <2>4, <2>5, <2>6
<1>6. CASE bytes[1] \in Acks
  <2>1. next = Take("ack", 1)
    BY <1>3, <1>6 DEF Scan
  <2> DEFINE raw == SubSeq(bytes, 1, 1)
  <2>2. Len(raw) = 1 /\ raw[1] = bytes[1]
    BY <1>1
  <2>3. WellFormed("ack", raw)
    <3> HIDE DEF raw
    <3>1. QED
      BY <1>6, <2>2 DEF WellFormed
  <2>4. QED
    BY <1>1, <1>2, <2>1, <2>3 DEF Kinds
<1>7. CASE /\ bytes[1] # Core /\ ~(bytes[1] = Header[1] /\ HeaderFits(bytes))
           /\ bytes[1] \notin Acks
  <2>1. next = Take("junk", 1)
    BY <1>7 DEF Scan
  <2>2. NeverFrame(bytes)
    BY <1>7 DEF NeverFrame
  <2>3. QED
    BY <1>1, <1>2, <2>1, <2>2 DEF Kinds
<1>8. QED
  BY <1>4, <1>5, <1>6, <1>7

\* Bytes that never begin a frame begin none; Decoder refuses them.
LEMMA NeverBegins ==
  ASSUME NEW bytes \in Seq(Bytes), bytes # <<>>, NeverFrame(bytes)
  PROVE  ~FrameBegins(bytes) /\ StrictScan(bytes).kind = "reject"
<1>1. Len(bytes) \in Nat /\ Len(bytes) # 0
  OBVIOUS
<1>2. ASSUME NEW kind \in Kinds, NEW size \in 1..Len(bytes), WellFormed(kind, SubSeq(bytes, 1, size))
      PROVE  FALSE
  <2> DEFINE raw == SubSeq(bytes, 1, size)
  <2>1. raw \in Seq(Bytes) /\ Len(raw) = size /\ \A k \in 1..size : raw[k] = bytes[k]
    BY <1>1
  <2> HIDE DEF raw
  <2>2. WellFormed(kind, raw) /\ 1 \in 1..size
    BY <1>2 DEF raw
  <2>3. CASE kind = "primary"
    <3>1. size = CoreLength /\ raw[1] = Core /\ raw[CoreLength] = End
      BY <2>1, <2>2, <2>3 DEF WellFormed
    <3>2. bytes[1] = Core /\ bytes[CoreLength] = End
      BY <2>1, <2>2, <3>1
    <3>3. QED
      BY <3>2 DEF NeverFrame
  <2>4. CASE kind = "extended"
    <3>1. Len(raw) > Len(Header) /\ IsPrefix(Header, raw)
      BY <2>2, <2>4 DEF WellFormed
    <3>2. HeaderFits(raw)
      BY <2>1, <3>1, Lengths, HeaderStands
    <3>3. \A i \in 1..Len(Header) : i \in 1..size /\ raw[i] = Header[i]
      BY <2>1, <3>1, <3>2, Lengths DEF HeaderFits
    <3>4. \A i \in 1..Len(Header) : bytes[i] = Header[i]
      BY <2>1, <3>3
    <3>5. HeaderFits(bytes) /\ bytes[1] = Header[1]
      BY <3>4, Lengths DEF HeaderFits
    <3>6. QED
      BY <3>5 DEF NeverFrame
  <2>5. CASE kind = "ack"
    <3>1. raw[1] \in Acks
      BY <2>2, <2>5 DEF WellFormed
    <3>2. QED
      BY <2>1, <2>2, <3>1 DEF NeverFrame
  <2>6. QED
    BY <2>3, <2>4, <2>5 DEF Kinds
<1>3. StrictScan(bytes).kind = "reject"
  <2>1. Reject.kind = "reject"
    BY DEF Reject, Take
  <2>2. CASE bytes[1] = Core
    <3>1. ~(Len(bytes) < CoreLength) /\ bytes[CoreLength] # End
      BY <1>1, <2>2, Lengths DEF NeverFrame
    <3>2. StrictScan(bytes) = Reject
      BY <2>2, <3>1, DecoderAssumption DEF StrictScan
    <3>3. QED
      BY <2>1, <3>2
  <2>3. CASE bytes[1] = Header[1] /\ bytes[1] # Core
    <3>1. ~HeaderFits(bytes) /\ bytes[1] \notin Acks
      BY <2>3 DEF NeverFrame
    <3>2. StrictScan(bytes) = Reject
      BY <2>3, <3>1 DEF StrictScan
    <3>3. QED
      BY <2>1, <3>2
  <2>4. CASE bytes[1] # Header[1] /\ bytes[1] # Core
    <3>1. bytes[1] \notin Acks
      BY DEF NeverFrame
    <3>2. StrictScan(bytes) = Reject
      BY <2>4, <3>1 DEF StrictScan
    <3>3. QED
      BY <2>1, <3>2
  <2>5. QED
    BY <2>2, <2>3, <2>4
<1>4. QED
  BY <1>2, <1>3 DEF FrameBegins

\* Where a frame stands, Decoder takes it.
LEMMA StrictTakes ==
  ASSUME NEW bytes \in Seq(Bytes), NEW size \in 1..Len(bytes), NEW kind \in Kinds,
         WellFormed(kind, SubSeq(bytes, 1, size))
  PROVE  StrictScan(bytes) = Take(kind, size)
<1> DEFINE raw == SubSeq(bytes, 1, size)
<1>1. Len(bytes) \in Nat /\ Len(bytes) # 0 /\ size \in Nat /\ size <= Len(bytes) /\ 1 \in 1..size
  OBVIOUS
<1>2. raw \in Seq(Bytes) /\ Len(raw) = size /\ \A k \in 1..size : raw[k] = bytes[k]
  BY <1>1
<1> HIDE DEF raw
<1>3. WellFormed(kind, raw)
  BY DEF raw
<1>4. Core # Header[1] /\ Core \notin Acks /\ Header[1] \notin Acks
  BY DecoderAssumption
<1>5. CASE kind = "primary"
  <2>1. size = CoreLength /\ raw[1] = Core /\ raw[CoreLength] = End
    BY <1>2, <1>3, <1>5 DEF WellFormed
  <2>2. bytes[1] = Core /\ bytes[CoreLength] = End /\ ~(Len(bytes) < CoreLength)
    BY <1>1, <1>2, <2>1
  <2>3. QED
    BY <1>4, <1>5, <2>1, <2>2 DEF StrictScan
<1>6. CASE kind = "extended"
  <2>1. /\ Len(raw) > Len(Header) /\ IsPrefix(Header, raw)
        /\ Len(raw) = Overhead + Payload[raw[Len(Header) + 1]]
        /\ SubSeq(raw, Len(raw) - Len(Trailer) + 1, Len(raw)) = Trailer
    BY <1>3, <1>6 DEF WellFormed
  <2>2. HeaderFits(raw)
    BY <1>2, <2>1, Lengths, HeaderStands
  <2>3. \A i \in 1..Len(Header) : i \in 1..size /\ raw[i] = Header[i]
    <3>1. Len(Header) \in Nat /\ Len(Header) < size
      BY <1>2, <2>1, Lengths
    <3>2. \A i \in 1..Len(Header) : i \in 1..size /\ i <= Len(raw)
      BY <1>1, <1>2, <3>1
    <3>3. QED
      BY <2>2, <3>2 DEF HeaderFits
  <2>4. \A i \in 1..Len(Header) : bytes[i] = Header[i]
    BY <1>2, <2>3
  <2>5. HeaderFits(bytes) /\ bytes[1] = Header[1] /\ bytes[1] # Core
    BY <1>4, <2>4, Lengths DEF HeaderFits
  <2>6. StrictScan(bytes) = Extended(bytes)
    BY <1>4, <2>5 DEF StrictScan
  <2>7. Len(Header) + 1 \in 1..size /\ ~(Len(bytes) <= Len(Header))
    <3>1. Len(Header) \in Nat /\ Len(Header) < size
      BY <1>2, <2>1, Lengths
    <3>2. QED
      BY <1>1, <3>1
  <2>8. size = Overhead + Payload[bytes[Len(Header) + 1]] /\ ~(Len(bytes) < size)
    BY <1>1, <1>2, <2>1, <2>7
  <2>9. SubSeq(bytes, size - Len(Trailer) + 1, size) = Trailer
    <3> DEFINE from == size - Len(Trailer)
               t == SubSeq(raw, from + 1, size)
               u == SubSeq(bytes, from + 1, size)
    <3>1. from \in Nat /\ from <= size
      <4>1. bytes[Len(Header) + 1] \in Bytes
        BY <1>1, <2>7
      <4>2. Payload[bytes[Len(Header) + 1]] \in Nat
        BY <4>1, Lengths
      <4>3. QED
        BY <1>1, <2>8, <4>2, Lengths
    <3> HIDE DEF from, t, u
    <3>2. /\ t \in Seq(Bytes) /\ Len(t) = size - from
          /\ \A k \in 1..(size - from) : t[k] = raw[from + k]
      BY <1>1, <1>2, <3>1, Slice DEF t
    <3>3. /\ u \in Seq(Bytes) /\ Len(u) = size - from
          /\ \A k \in 1..(size - from) : u[k] = bytes[from + k]
      BY <1>1, <3>1, Slice DEF u
    <3>4. \A k \in 1..(size - from) : from + k \in 1..size
      BY <1>1, <3>1
    <3>5. \A k \in 1..(size - from) : u[k] = t[k]
      BY <1>2, <3>2, <3>3, <3>4
    <3>6. u = t
      BY <3>2, <3>3, <3>5, SeqEqual
    <3>7. t = Trailer
      BY <1>2, <2>1 DEF t, from
    <3>8. QED
      BY <3>6, <3>7 DEF u, from
  <2>10. Extended(bytes) = Take("extended", size)
    BY <2>7, <2>8, <2>9 DEF Extended
  <2>11. QED
    BY <1>6, <2>6, <2>10
<1>7. CASE kind = "ack"
  <2>1. size = 1 /\ raw[1] \in Acks
    BY <1>2, <1>3, <1>7 DEF WellFormed
  <2>2. bytes[1] \in Acks
    BY <1>1, <1>2, <2>1
  <2>3. QED
    BY <1>4, <1>7, <2>1, <2>2 DEF StrictScan
<1>8. QED
  BY <1>5, <1>6, <1>7 DEF Kinds

-----------------------------------------------------------------------------
(* The invariant of the decoders. *)

Items == [kind : {"junk"} \cup Kinds, at : Nat, raw : Seq(Bytes)]
Decoders == [buffer : Seq(Bytes), items : Seq(Items), returned : Nat,
             phase : {"waits", "feeds", "failed"}]

\* A decoder is at a place of the stream, and what it keeps is what follows there.
Rest(at) == SubSeq(stream, at + 1, Len(stream))
Position(d) == Len(stream) - Len(d.buffer)
Keeps(d) == Len(d.buffer) <= Len(stream) /\ d.buffer = Rest(Position(d))

\* An item is what the stream has at its place; junk stays junk when more bytes come.
Right(item) ==
  /\ Len(item.raw) >= 1 /\ item.at + Len(item.raw) <= Len(stream)
  /\ item.raw = SubSeq(Rest(item.at), 1, Len(item.raw))
  /\ item.kind = "junk" => Len(item.raw) = 1 /\ NeverFrame(Rest(item.at))
  /\ item.kind # "junk" => WellFormed(item.kind, item.raw)

\* Items come in their order, and none reaches beyond the place of the decoder.
Ordered(d) ==
  /\ \A i \in 1..Len(d.items) : d.items[i].at + Len(d.items[i].raw) <= Position(d)
  /\ \A i, j \in 1..Len(d.items) :
       i < j => d.items[i].at + Len(d.items[i].raw) <= d.items[j].at

Tiled(items) == \A i \in 1..Len(items) : items[i].at = Behind(items, i) /\ Right(items[i])
DecoderRight ==
  decoder.phase # "failed" =>
    /\ decoder \in Decoders /\ Keeps(decoder) /\ Ordered(decoder) /\ Tiled(decoder.items)
    /\ Behind(decoder.items, Len(decoder.items) + 1) = Position(decoder)
    /\ decoder.phase = "waits" =>
         /\ decoder.returned = Len(decoder.items)
         /\ decoder.buffer # <<>> =>
              FrameMayCome(decoder.buffer) /\ StrictScan(decoder.buffer).kind = "wait"

\* The second decoder follows the first: it is where an item of the first begins, or where
\* the first is, and has taken the core frames up to there.
Listed(items) == {items[i] : i \in 1..Len(items)}
CoreBefore(items, place) ==
  {items[i] : i \in {j \in 1..Len(items) : items[j].kind = "primary" /\ items[j].at < place}}
StrictRight ==
  decoder.phase # "failed" /\ strict.phase # "failed" =>
    /\ strict \in Decoders /\ Keeps(strict) /\ Ordered(strict)
    /\ \/ Position(strict) = Position(decoder)
       \/ \E i \in 1..Len(decoder.items) : decoder.items[i].at = Position(strict)
    /\ Listed(strict.items) = CoreBefore(decoder.items, Position(strict))
    /\ strict.phase = "waits" =>
         /\ decoder.phase = "waits" /\ Position(strict) = Position(decoder)
         /\ strict.returned = Len(strict.items)

DecoderInv == stream \in Seq(Bytes) /\ DecoderRight /\ StrictRight

\* What follows at a place of the stream.
LEMMA RestFacts ==
  ASSUME stream \in Seq(Bytes), NEW at \in Nat, at <= Len(stream)
  PROVE  /\ Rest(at) \in Seq(Bytes) /\ Len(Rest(at)) = Len(stream) - at
         /\ \A k \in 1..(Len(stream) - at) : Rest(at)[k] = stream[at + k]
<1>1. Len(stream) \in Nat
  OBVIOUS
<1>2. QED
  BY <1>1, Slice DEF Rest

LEMMA RestTail ==
  ASSUME stream \in Seq(Bytes), NEW at \in Nat, NEW n \in Nat, at + n <= Len(stream)
  PROVE  SubSeq(Rest(at), n + 1, Len(Rest(at))) = Rest(at + n)
<1>1. Len(stream) \in Nat /\ at + n \in Nat /\ at <= Len(stream)
  OBVIOUS
<1>2. /\ Rest(at) \in Seq(Bytes) /\ Len(Rest(at)) = Len(stream) - at
      /\ \A k \in 1..(Len(stream) - at) : Rest(at)[k] = stream[at + k]
  BY <1>1, RestFacts
<1>3. /\ Rest(at + n) \in Seq(Bytes) /\ Len(Rest(at + n)) = Len(stream) - (at + n)
      /\ \A k \in 1..(Len(stream) - (at + n)) : Rest(at + n)[k] = stream[(at + n) + k]
  BY <1>1, RestFacts
<1> DEFINE length == Len(Rest(at))
           tail == SubSeq(Rest(at), n + 1, length)
<1>4. length \in Nat /\ n <= length
  BY <1>1, <1>2
<1> HIDE DEF tail
<1>5. /\ tail \in Seq(Bytes) /\ Len(tail) = length - n
      /\ \A k \in 1..(length - n) : tail[k] = Rest(at)[n + k]
  BY <1>2, <1>4, Slice DEF tail
<1>6. Len(tail) = Len(Rest(at + n)) /\ Len(tail) = Len(stream) - (at + n)
  <2>1. length = Len(stream) - at
    BY <1>2
  <2> HIDE DEF length
  <2>2. length - n = Len(stream) - (at + n)
    BY <1>1, <2>1
  <2>3. QED
    BY <1>3, <1>5, <2>2
<1>7. \A k \in 1..(length - n) : tail[k] = Rest(at + n)[k]
  <2> SUFFICES ASSUME NEW k \in 1..(length - n) PROVE tail[k] = Rest(at + n)[k]
    OBVIOUS
  <2>1. n + k \in 1..(Len(stream) - at) /\ k \in 1..(Len(stream) - (at + n))
    BY <1>1, <1>2, <1>4
  <2>2. at + (n + k) = (at + n) + k
    BY <2>1
  <2>3. QED
    BY <1>2, <1>3, <1>5, <2>1, <2>2
<1>8. tail = Rest(at + n)
  BY <1>3, <1>5, <1>6, <1>7, SeqEqual
<1>9. QED
  BY <1>8 DEF tail

\* More bytes come.
LEMMA RestGrows ==
  ASSUME stream \in Seq(Bytes), NEW piece \in Seq(Bytes), stream' = stream \o piece,
         NEW at \in Nat, at <= Len(stream)
  PROVE  /\ Rest(at)' = Rest(at) \o piece
         /\ \A n \in Nat : n <= Len(stream) - at =>
              SubSeq(Rest(at), 1, n)' = SubSeq(Rest(at), 1, n)
<1>1. /\ Len(stream) \in Nat /\ Len(piece) \in Nat /\ stream' \in Seq(Bytes)
      /\ Len(stream') = Len(stream) + Len(piece)
      /\ \A k \in 1..(Len(stream) + Len(piece)) :
           stream'[k] = IF k <= Len(stream) THEN stream[k] ELSE piece[k - Len(stream)]
  BY ConcatProperties
<1>2. /\ Rest(at) \in Seq(Bytes) /\ Len(Rest(at)) = Len(stream) - at
      /\ \A k \in 1..(Len(stream) - at) : Rest(at)[k] = stream[at + k]
  BY RestFacts
<1> DEFINE grown == SubSeq(stream', at + 1, Len(stream'))
           both == Rest(at) \o piece
<1>3. /\ grown \in Seq(Bytes) /\ Len(grown) = Len(stream') - at
      /\ \A k \in 1..(Len(stream') - at) : grown[k] = stream'[at + k]
  <2>1. at <= Len(stream') /\ Len(stream') \in Nat
    BY <1>1
  <2>2. QED
    BY <1>1, <2>1, Slice
<1> HIDE DEF grown, both
<1>4. /\ both \in Seq(Bytes) /\ Len(both) = Len(Rest(at)) + Len(piece)
      /\ \A k \in 1..(Len(Rest(at)) + Len(piece)) :
           both[k] = IF k <= Len(Rest(at)) THEN Rest(at)[k] ELSE piece[k - Len(Rest(at))]
  BY <1>2, ConcatProperties DEF both
<1>5. Len(grown) = Len(both) /\ Len(grown) = Len(stream) - at + Len(piece)
  BY <1>1, <1>2, <1>3, <1>4
<1>6. \A k \in 1..(Len(stream) - at + Len(piece)) : grown[k] = both[k]
  <2> SUFFICES ASSUME NEW k \in 1..(Len(stream) - at + Len(piece)) PROVE grown[k] = both[k]
    OBVIOUS
  <2>1. /\ k \in Nat /\ at + k \in 1..(Len(stream) + Len(piece)) /\ k \in 1..(Len(stream') - at)
        /\ k \in 1..(Len(Rest(at)) + Len(piece))
    BY <1>1, <1>2
  <2>2. CASE k <= Len(stream) - at
    <3>1. at + k <= Len(stream) /\ k \in 1..(Len(stream) - at) /\ k <= Len(Rest(at))
      BY <1>1, <1>2, <2>2
    <3>2. grown[k] = stream[at + k] /\ both[k] = Rest(at)[k]
      BY <1>1, <1>3, <1>4, <2>1, <3>1
    <3>3. QED
      BY <1>2, <3>1, <3>2
  <2>3. CASE ~(k <= Len(stream) - at)
    <3>1. ~(at + k <= Len(stream)) /\ ~(k <= Len(Rest(at))) /\ (at + k) - Len(stream) = k - Len(Rest(at))
      BY <1>1, <1>2, <2>1, <2>3
    <3>2. grown[k] = piece[(at + k) - Len(stream)] /\ both[k] = piece[k - Len(Rest(at))]
      BY <1>1, <1>3, <1>4, <2>1, <3>1
    <3>3. QED
      BY <3>1, <3>2
  <2>4. QED
    BY <2>2, <2>3
<1>7. grown = both
  BY <1>3, <1>4, <1>5, <1>6, SeqEqual
<1>8. Rest(at)' = grown
  BY DEF Rest, grown
<1>9. ASSUME NEW n \in Nat, n <= Len(stream) - at
      PROVE  SubSeq(grown, 1, n) = SubSeq(Rest(at), 1, n)
  <2> DEFINE a == SubSeq(grown, 0 + 1, n)
             b == SubSeq(Rest(at), 0 + 1, n)
  <2>1. 0 \in Nat /\ 0 <= n /\ n <= Len(grown) /\ n <= Len(Rest(at)) /\ n - 0 = n
    BY <1>1, <1>2, <1>5, <1>9
  <2> HIDE DEF a, b
  <2>2. a \in Seq(Bytes) /\ Len(a) = n - 0 /\ \A k \in 1..(n - 0) : a[k] = grown[0 + k]
    BY <1>3, <2>1, Slice DEF a
  <2>3. b \in Seq(Bytes) /\ Len(b) = n - 0 /\ \A k \in 1..(n - 0) : b[k] = Rest(at)[0 + k]
    BY <1>2, <2>1, Slice DEF b
  <2>4. \A k \in 1..n : a[k] = b[k]
    <3> SUFFICES ASSUME NEW k \in 1..n PROVE a[k] = b[k]
      OBVIOUS
    <3>1. k \in 1..(n - 0) /\ 0 + k = k /\ k <= Len(Rest(at)) /\ k \in 1..(Len(Rest(at)) + Len(piece))
      BY <1>1, <1>2, <1>9
    <3>2. grown[k] = Rest(at)[k]
      BY <1>4, <1>7, <3>1
    <3>3. QED
      BY <2>2, <2>3, <3>1, <3>2
  <2>5. a = b
    BY <2>2, <2>3, <2>4, SeqEqual
  <2>6. 0 + 1 = 1
    OBVIOUS
  <2>7. QED
    BY <2>5, <2>6 DEF a, b
<1>10. QED
  BY <1>7, <1>8, <1>9 DEF both

\* What is no frame stays none.
LEMMA NeverOn ==
  ASSUME NEW bytes \in Seq(Bytes), bytes # <<>>, NEW piece \in Seq(Bytes), NeverFrame(bytes)
  PROVE  NeverFrame(bytes \o piece)
<1> DEFINE more == bytes \o piece
<1>1. /\ Len(bytes) \in Nat /\ Len(bytes) # 0 /\ Len(piece) \in Nat
      /\ Len(more) = Len(bytes) + Len(piece)
      /\ \A k \in 1..Len(bytes) : more[k] = bytes[k]
  OBVIOUS
<1> HIDE DEF more
<1>2. more[1] = bytes[1]
  BY <1>1
<1>3. bytes[1] = Core => CoreLength <= Len(more) /\ more[CoreLength] # End
  BY <1>1, Lengths DEF NeverFrame
<1>4. ~HeaderFits(bytes) => ~HeaderFits(more)
  BY <1>1, Lengths DEF HeaderFits
<1>5. NeverFrame(more)
  BY <1>2, <1>3, <1>4 DEF NeverFrame
<1>6. QED
  BY <1>5 DEF more

LEMMA RightOn ==
  ASSUME stream \in Seq(Bytes), NEW piece \in Seq(Bytes), stream' = stream \o piece,
         NEW item \in Items, Right(item)
  PROVE  Right(item)'
<1>1. /\ item.at \in Nat /\ item.raw \in Seq(Bytes) /\ Len(item.raw) \in Nat
      /\ Len(stream) \in Nat /\ Len(stream') = Len(stream) + Len(piece) /\ Len(piece) \in Nat
  BY DEF Items
<1>2. /\ Len(item.raw) >= 1 /\ item.at + Len(item.raw) <= Len(stream)
      /\ item.raw = SubSeq(Rest(item.at), 1, Len(item.raw))
      /\ item.kind = "junk" => Len(item.raw) = 1 /\ NeverFrame(Rest(item.at))
      /\ item.kind # "junk" => WellFormed(item.kind, item.raw)
  BY DEF Right
<1>3. PICK at \in Nat : at = item.at
  BY <1>1
<1>4. at <= Len(stream) /\ Len(item.raw) <= Len(stream) - at
  BY <1>1, <1>2, <1>3
<1>5. /\ Rest(at)' = Rest(at) \o piece
      /\ \A n \in Nat : n <= Len(stream) - at =>
           SubSeq(Rest(at), 1, n)' = SubSeq(Rest(at), 1, n)
  BY <1>4, RestGrows
<1>6. Rest(at) \in Seq(Bytes) /\ Len(Rest(at)) = Len(stream) - at
  BY <1>4, RestFacts
<1>7. Rest(at) # <<>>
  BY <1>1, <1>2, <1>4, <1>6
<1>8. item.kind = "junk" => NeverFrame(Rest(at))'
  <2>1. NeverFrame(Rest(at)) => NeverFrame(Rest(at) \o piece)
    BY <1>6, <1>7, NeverOn
  <2>2. NeverFrame(Rest(at)') = NeverFrame(Rest(at))'
    BY DEF NeverFrame, HeaderFits
  <2>3. QED
    BY <1>2, <1>3, <1>5, <2>1, <2>2
<1>9. item.raw = SubSeq(Rest(at), 1, Len(item.raw))'
  <2>1. PICK n \in Nat : n = Len(item.raw)
    BY <1>1
  <2>2. SubSeq(Rest(at), 1, n)' = SubSeq(Rest(at), 1, n)
    BY <1>4, <1>5, <2>1
  <2>3. QED
    BY <1>2, <1>3, <2>1, <2>2
<1>10. item.at + Len(item.raw) <= Len(stream')
  BY <1>1, <1>2
<1>11. QED
  BY <1>2, <1>3, <1>8, <1>9, <1>10 DEF Right, NeverFrame, HeaderFits

LEMMA DecoderInvInit == DecoderInit => DecoderInv
<1> SUFFICES ASSUME DecoderInit PROVE DecoderInv
  OBVIOUS
<1>1. /\ stream = <<>> /\ Fresh.buffer = <<>> /\ Fresh.items = <<>> /\ Fresh.returned = 0
      /\ Fresh.phase = "waits" /\ decoder = Fresh /\ strict = Fresh
  BY DEF DecoderInit, Fresh
<1>2. /\ <<>> \in Seq(Bytes) /\ <<>> \in Seq(Items) /\ Len(<<>>) = 0 /\ 0 + 1 = 1 /\ 0 - 0 = 0
      /\ 1..0 = {}
  OBVIOUS
<1>3. Fresh \in Decoders
  BY <1>2 DEF Fresh, Decoders
<1>4. Rest(0) = <<>>
  BY <1>1 DEF Rest
<1>5. Position(Fresh) = 0
  BY <1>1, <1>2 DEF Position
<1>6. Keeps(Fresh) /\ Ordered(Fresh) /\ Tiled(Fresh.items) /\ Listed(Fresh.items) = {}
  BY <1>1, <1>2, <1>4, <1>5 DEF Keeps, Ordered, Tiled, Listed
<1>7. CoreBefore(Fresh.items, 0) = {} /\ Behind(Fresh.items, Len(Fresh.items) + 1) = 0
  BY <1>1, <1>2 DEF CoreBefore, Behind
<1>8. DecoderRight
  BY <1>1, <1>2, <1>3, <1>5, <1>6, <1>7 DEF DecoderRight
<1>9. StrictRight
  BY <1>1, <1>2, <1>3, <1>5, <1>6, <1>7 DEF StrictRight
<1>10. QED
  BY <1>1, <1>2, <1>8, <1>9 DEF DecoderInv

\* The place of a decoder is one of the stream.
LEMMA PositionFacts ==
  ASSUME stream \in Seq(Bytes), NEW d \in Decoders, Keeps(d)
  PROVE  /\ Position(d) \in Nat /\ Position(d) <= Len(stream) /\ Len(d.buffer) \in Nat
         /\ d.buffer \in Seq(Bytes) /\ Len(d.buffer) = Len(stream) - Position(d)
         /\ d.items \in Seq(Items) /\ Len(d.items) \in Nat
         /\ \A i \in 1..Len(d.items) : /\ d.items[i] \in Items /\ d.items[i].at \in Nat
                                       /\ Len(d.items[i].raw) \in Nat
<1>1. d.buffer \in Seq(Bytes) /\ d.items \in Seq(Items)
  BY DEF Decoders
<1>2. Len(d.buffer) \in Nat /\ Len(stream) \in Nat /\ Len(d.buffer) <= Len(stream)
  BY <1>1 DEF Keeps
<1>3. \A item \in Items : item.at \in Nat /\ Len(item.raw) \in Nat
  BY DEF Items
<1>4. Len(d.items) \in Nat /\ \A i \in 1..Len(d.items) : d.items[i] \in Items
  BY <1>1
<1>5. QED
  BY <1>1, <1>2, <1>3, <1>4 DEF Position

\* A piece is offered and fits.
LEMMA Offered ==
  ASSUME stream \in Seq(Bytes), NEW piece \in Seq(Bytes), stream' = stream \o piece,
         NEW d \in Decoders, Keeps(d), NEW more, more = d.buffer \o piece
  PROVE  /\ more \in Seq(Bytes) /\ Len(more) <= Len(stream')
         /\ Len(stream') - Len(more) = Position(d)
         /\ more = SubSeq(stream', Position(d) + 1, Len(stream'))
<1>1. /\ Position(d) \in Nat /\ Position(d) <= Len(stream) /\ d.buffer \in Seq(Bytes)
      /\ Len(d.buffer) = Len(stream) - Position(d) /\ Len(d.buffer) \in Nat
  BY PositionFacts
<1>2. more \in Seq(Bytes) /\ Len(more) = Len(d.buffer) + Len(piece)
  BY <1>1
<1>3. /\ Len(stream) \in Nat /\ Len(piece) \in Nat /\ Len(stream') = Len(stream) + Len(piece)
  OBVIOUS
<1>4. PICK place \in Nat : place = Position(d)
  BY <1>1
<1>5. Rest(place)' = Rest(place) \o piece
  BY <1>1, <1>4, RestGrows
<1>6. d.buffer = Rest(place)
  BY <1>4 DEF Keeps
<1>7. more = SubSeq(stream', place + 1, Len(stream'))
  BY <1>5, <1>6 DEF Rest
<1>8. Len(more) = Len(stream') - place
  BY <1>1, <1>2, <1>3, <1>4
<1>9. Len(more) <= Len(stream') /\ Len(stream') - Len(more) = place
  BY <1>1, <1>2, <1>3, <1>4, <1>8
<1>10. QED
  BY <1>2, <1>4, <1>7, <1>9

\* Two decoders at one place keep the same.
LEMMA SamePlace ==
  ASSUME stream \in Seq(Bytes), NEW d \in Decoders, NEW e \in Decoders, Keeps(d), Keeps(e),
         Position(d) = Position(e)
  PROVE  d.buffer = e.buffer
  BY DEF Keeps

LEMMA ReceiveKeeps == DecoderInv /\ Receive => DecoderInv'
<1> SUFFICES ASSUME DecoderInv, Receive PROVE DecoderInv'
  OBVIOUS
<1>1. PICK piece \in Seq(Bytes) :
        /\ decoder.phase = "waits" /\ strict.phase # "feeds" /\ stream' = stream \o piece
        /\ decoder' = Offer(decoder, piece, <<>>)
        /\ strict' = IF strict.phase = "failed" THEN strict ELSE Offer(strict, piece, strict.buffer)
  <2>1. \A size \in 1..MaxPiece : [1..size -> Bytes] \subseteq Seq(Bytes)
    OBVIOUS
  <2>2. QED
    BY <2>1 DEF Receive
<1>2. stream \in Seq(Bytes) /\ stream' \in Seq(Bytes)
  BY <1>1 DEF DecoderInv
<1>3. /\ decoder \in Decoders /\ Keeps(decoder) /\ Ordered(decoder) /\ Tiled(decoder.items)
      /\ Behind(decoder.items, Len(decoder.items) + 1) = Position(decoder)
  BY <1>1 DEF DecoderInv, DecoderRight
<1>4. CASE Len(decoder.buffer) + Len(piece) > MaxBuffer
  <2>1. decoder'.phase = "failed"
    BY <1>1, <1>3, <1>4 DEF Offer, GiveUp, Decoders
  <2>2. QED
    BY <1>2, <2>1 DEF DecoderInv, DecoderRight, StrictRight
<1>5. CASE ~(Len(decoder.buffer) + Len(piece) > MaxBuffer)
  <2>1. decoder' = [decoder EXCEPT !.buffer = @ \o piece, !.phase = "feeds"]
    BY <1>1, <1>5 DEF Offer
  <2>2. /\ decoder' \in Decoders /\ decoder'.phase = "feeds" /\ decoder'.items = decoder.items
        /\ Len(decoder'.buffer) <= Len(stream')
        /\ Len(stream') - Len(decoder'.buffer) = Position(decoder)
        /\ decoder'.buffer = SubSeq(stream', Position(decoder) + 1, Len(stream'))
    <3>1. PICK more : more = decoder.buffer \o piece
      OBVIOUS
    <3>2. /\ more \in Seq(Bytes) /\ Len(more) <= Len(stream')
          /\ Len(stream') - Len(more) = Position(decoder)
          /\ more = SubSeq(stream', Position(decoder) + 1, Len(stream'))
      BY <1>1, <1>2, <1>3, <3>1, Offered
    <3>3. decoder' = [decoder EXCEPT !.buffer = more, !.phase = "feeds"]
      BY <2>1, <3>1
    <3>4. /\ decoder' \in Decoders /\ decoder'.phase = "feeds" /\ decoder'.items = decoder.items
          /\ decoder'.buffer = more
      BY <1>3, <3>2, <3>3 DEF Decoders
    <3>5. QED
      BY <3>2, <3>4
  <2>3. Position(decoder)' = Position(decoder)
    BY <2>2 DEF Position
  <2>4. Keeps(decoder)'
    BY <2>2, <2>3 DEF Keeps, Rest
  <2>5. Ordered(decoder)'
    BY <1>3, <2>2, <2>3 DEF Ordered
  <2>6. Tiled(decoder.items)'
    <3> SUFFICES ASSUME NEW i \in 1..Len(decoder.items)
                 PROVE  decoder.items[i].at = Behind(decoder.items, i) /\ Right(decoder.items[i])'
      BY <2>2 DEF Tiled, Behind
    <3>1. PICK item \in Items : item = decoder.items[i]
      BY <1>3, <1>2, PositionFacts
    <3>2. Right(item)
      BY <1>3, <3>1 DEF Tiled
    <3>3. Right(item)'
      BY <1>1, <1>2, <3>2, RightOn
    <3>4. decoder'.items[i] = item
      BY <2>2, <3>1
    <3>5. Right(decoder.items[i])'
      BY <3>3, <3>4 DEF Right
    <3>6. QED
      BY <1>3, <3>5 DEF Tiled
  <2>7. Behind(decoder.items, Len(decoder.items) + 1)' = Position(decoder)'
    BY <1>3, <2>2, <2>3 DEF Behind
  <2>8. DecoderRight'
    BY <2>2, <2>4, <2>5, <2>6, <2>7 DEF DecoderRight
  <2>9. CASE strict.phase = "failed"
    BY <1>1, <1>2, <2>8, <2>9 DEF DecoderInv, StrictRight
  <2>10. CASE strict.phase # "failed"
    <3>1. /\ strict \in Decoders /\ Keeps(strict) /\ Ordered(strict)
          /\ Listed(strict.items) = CoreBefore(decoder.items, Position(strict))
          /\ strict.phase = "waits" => Position(strict) = Position(decoder)
      BY <1>1, <2>10 DEF DecoderInv, StrictRight
    <3>2. Position(strict) = Position(decoder)
      BY <1>1, <2>10, <3>1 DEF Decoders
    <3>3. strict.buffer = decoder.buffer
      BY <1>2, <1>3, <3>1, <3>2, SamePlace
    <3>4. strict' = [strict EXCEPT !.buffer = @ \o piece, !.phase = "feeds"]
      BY <1>1, <1>5, <2>10, <3>3 DEF Offer
    <3>5. /\ strict' \in Decoders /\ strict'.phase = "feeds" /\ strict'.items = strict.items
          /\ Len(strict'.buffer) <= Len(stream')
          /\ Len(stream') - Len(strict'.buffer) = Position(strict)
          /\ strict'.buffer = SubSeq(stream', Position(strict) + 1, Len(stream'))
      <4>1. PICK more : more = strict.buffer \o piece
        OBVIOUS
      <4>2. /\ more \in Seq(Bytes) /\ Len(more) <= Len(stream')
            /\ Len(stream') - Len(more) = Position(strict)
            /\ more = SubSeq(stream', Position(strict) + 1, Len(stream'))
        BY <1>1, <1>2, <3>1, <4>1, Offered
      <4>3. strict' = [strict EXCEPT !.buffer = more, !.phase = "feeds"]
        BY <3>4, <4>1
      <4>4. /\ strict' \in Decoders /\ strict'.phase = "feeds" /\ strict'.items = strict.items
            /\ strict'.buffer = more
        BY <3>1, <4>2, <4>3 DEF Decoders
      <4>5. QED
        BY <4>2, <4>4
    <3>6. Position(strict)' = Position(strict)
      BY <3>5 DEF Position
    <3>7. Keeps(strict)'
      BY <3>5, <3>6 DEF Keeps, Rest
    <3>8. Ordered(strict)'
      BY <3>1, <3>5, <3>6 DEF Ordered
    <3>9. Listed(strict.items)' = CoreBefore(decoder.items, Position(strict))'
      <4>1. Listed(strict.items)' = Listed(strict.items)
        BY <3>5 DEF Listed
      <4>2. CoreBefore(decoder.items, Position(strict))' = CoreBefore(decoder.items, Position(strict))
        BY <2>2, <3>6 DEF CoreBefore
      <4>3. QED
        BY <3>1, <4>1, <4>2
    <3>10. Position(strict)' = Position(decoder)'
      BY <2>3, <3>2, <3>6
    <3>11. StrictRight'
      BY <3>5, <3>7, <3>8, <3>9, <3>10 DEF StrictRight
    <3>12. QED
      BY <1>2, <2>8, <3>11 DEF DecoderInv
  <2>11. QED
    BY <2>9, <2>10
<1>6. QED
  BY <1>4, <1>5

\* A decoder takes some bytes from the beginning of its buffer.
LEMMA Advanced ==
  ASSUME stream \in Seq(Bytes), NEW place \in Nat, place <= Len(stream),
         NEW size \in 1..Len(Rest(place))
  PROVE  /\ size \in Nat /\ size >= 1 /\ place + size <= Len(stream)
         /\ SubSeq(Rest(place), 1, size) \in Seq(Bytes) /\ Len(SubSeq(Rest(place), 1, size)) = size
         /\ SubSeq(Rest(place), size + 1, Len(Rest(place))) = Rest(place + size)
         /\ Rest(place + size) \in Seq(Bytes) /\ Len(Rest(place + size)) <= Len(stream)
         /\ Len(stream) - Len(Rest(place + size)) = place + size
<1>1. Rest(place) \in Seq(Bytes) /\ Len(Rest(place)) = Len(stream) - place /\ Len(stream) \in Nat
  BY RestFacts
<1>2. size \in Nat /\ size >= 1 /\ size <= Len(Rest(place)) /\ place + size <= Len(stream)
  BY <1>1
<1>3. PICK end \in Nat : end = place + size
  BY <1>2
<1>4. SubSeq(Rest(place), size + 1, Len(Rest(place))) = Rest(place + size)
  BY <1>2, RestTail
<1>5. Rest(end) \in Seq(Bytes) /\ Len(Rest(end)) = Len(stream) - end
  BY <1>2, <1>3, RestFacts
<1>6. Len(Rest(end)) <= Len(stream) /\ Len(stream) - Len(Rest(end)) = end
  BY <1>1, <1>2, <1>3, <1>5, SMTT(30)
<1>7. SubSeq(Rest(place), 1, size) \in Seq(Bytes) /\ Len(SubSeq(Rest(place), 1, size)) = size
  BY <1>1, <1>2
<1>8. QED
  BY <1>2, <1>3, <1>4, <1>5, <1>6, <1>7

\* A list of items with one more.
LEMMA Appended ==
  ASSUME NEW items \in Seq(Items), NEW item \in Items
  PROVE  LET longer == Append(items, item)
         IN  /\ longer \in Seq(Items) /\ Len(items) \in Nat /\ Len(longer) = Len(items) + 1
             /\ \A i \in 1..Len(items) : longer[i] = items[i]
             /\ longer[Len(items) + 1] = item
             /\ \A i \in 1..Len(longer) : i \in 1..Len(items) \/ i = Len(items) + 1
             /\ \A i \in 1..(Len(items) + 1) : Behind(longer, i) = Behind(items, i)
             /\ Behind(longer, Len(longer) + 1) = item.at + Len(item.raw)
<1> DEFINE longer == Append(items, item)
<1>1. /\ longer \in Seq(Items) /\ Len(items) \in Nat /\ Len(longer) = Len(items) + 1
      /\ \A i \in 1..Len(items) : longer[i] = items[i]
      /\ longer[Len(items) + 1] = item
  OBVIOUS
<1> HIDE DEF longer
<1>2. \A i \in 1..Len(longer) : i \in 1..Len(items) \/ i = Len(items) + 1
  BY <1>1
<1>3. \A i \in 1..(Len(items) + 1) : i = 1 \/ i - 1 \in 1..Len(items)
  BY <1>1
<1>4. \A i \in 1..(Len(items) + 1) : Behind(longer, i) = Behind(items, i)
  BY <1>1, <1>3 DEF Behind
<1>5. Len(longer) + 1 # 1 /\ (Len(longer) + 1) - 1 = Len(items) + 1
  BY <1>1
<1>6. Behind(longer, Len(longer) + 1) = item.at + Len(item.raw)
  BY <1>1, <1>5 DEF Behind
<1>7. QED
  BY <1>1, <1>2, <1>4, <1>6 DEF longer

\* An item behind all others of a list: the list stays in order.
LEMMA OrderedOn ==
  ASSUME NEW items \in Seq(Items), NEW item \in Items, NEW place \in Nat, item.at = place,
         \A i \in 1..Len(items) : items[i].at + Len(items[i].raw) <= place,
         \A i, j \in 1..Len(items) : i < j => items[i].at + Len(items[i].raw) <= items[j].at
  PROVE  LET longer == Append(items, item)
         IN  /\ \A i \in 1..Len(longer) : longer[i].at + Len(longer[i].raw) <= place + Len(item.raw)
             /\ \A i, j \in 1..Len(longer) :
                  i < j => longer[i].at + Len(longer[i].raw) <= longer[j].at
             /\ Listed(longer) = Listed(items) \cup {item}
<1> DEFINE longer == Append(items, item)
<1>1. /\ longer \in Seq(Items) /\ Len(items) \in Nat /\ Len(longer) = Len(items) + 1
      /\ \A i \in 1..Len(items) : longer[i] = items[i]
      /\ longer[Len(items) + 1] = item
      /\ \A i \in 1..Len(longer) : i \in 1..Len(items) \/ i = Len(items) + 1
  BY Appended
<1> HIDE DEF longer
<1>2. \A one \in Items : one.at \in Nat /\ Len(one.raw) \in Nat
  BY DEF Items
<1>3. \A i \in 1..Len(items) : items[i].at + Len(items[i].raw) \in Nat
  BY <1>2
<1>4. \A i \in 1..Len(items) : i \in 1..Len(longer) /\ i < Len(items) + 1
  BY <1>1
<1>5. ASSUME NEW i \in 1..Len(longer)
      PROVE  longer[i].at + Len(longer[i].raw) <= place + Len(item.raw)
  <2>1. Len(item.raw) \in Nat
    BY <1>2
  <2>2. CASE i \in 1..Len(items)
    <3>1. PICK behind \in Nat : behind = items[i].at + Len(items[i].raw)
      BY <1>3, <2>2
    <3>2. behind <= place
      BY <2>2, <3>1
    <3>3. behind <= place + Len(item.raw)
      BY <2>1, <3>1, <3>2
    <3>4. QED
      BY <1>1, <2>2, <3>1, <3>3
  <2>3. CASE i = Len(items) + 1
    BY <1>1, <2>1, <2>3
  <2>4. QED
    BY <1>1, <2>2, <2>3
<1>6. ASSUME NEW i \in 1..Len(longer), NEW j \in 1..Len(longer), i < j
      PROVE  longer[i].at + Len(longer[i].raw) <= longer[j].at
  <2>1. i \in 1..Len(items)
    BY <1>1, <1>6
  <2>2. CASE j \in 1..Len(items)
    BY <1>1, <1>6, <2>1, <2>2
  <2>3. CASE j = Len(items) + 1
    BY <1>1, <2>1, <2>3
  <2>4. QED
    BY <1>1, <2>2, <2>3
<1>7. Listed(longer) = Listed(items) \cup {item}
  <2>1. Len(items) + 1 \in 1..Len(longer)
    BY <1>1
  <2>2. QED
    BY <1>1, <1>4, <2>1 DEF Listed
<1>8. QED
  BY <1>5, <1>6, <1>7 DEF longer

LEMMA LoopKeeps == DecoderInv /\ Loop => DecoderInv'
<1> SUFFICES ASSUME DecoderInv, Loop PROVE DecoderInv'
  OBVIOUS
<1>1. PICK next : next = IF decoder.buffer = <<>> THEN Wait ELSE Scan(decoder.buffer)
  OBVIOUS
<1>2. /\ decoder.phase = "feeds" /\ decoder' = Around(decoder, next, TRUE, <<>>)
      /\ stream' = stream /\ strict' = strict
  BY <1>1 DEF Loop
<1>3. /\ stream \in Seq(Bytes) /\ decoder \in Decoders /\ Keeps(decoder) /\ Ordered(decoder)
      /\ Tiled(decoder.items)
      /\ Behind(decoder.items, Len(decoder.items) + 1) = Position(decoder)
  BY <1>2 DEF DecoderInv, DecoderRight
<1>4. /\ Position(decoder) \in Nat /\ decoder.items \in Seq(Items) /\ Len(decoder.items) \in Nat
      /\ decoder.buffer \in Seq(Bytes)
      /\ \A i \in 1..Len(decoder.items) :
           decoder.items[i].at \in Nat /\ Len(decoder.items[i].raw) \in Nat
  BY <1>3, PositionFacts
<1>5. strict.phase # "failed" =>
        /\ strict \in Decoders /\ Keeps(strict) /\ Ordered(strict)
        /\ \/ Position(strict) = Position(decoder)
           \/ \E i \in 1..Len(decoder.items) : decoder.items[i].at = Position(strict)
        /\ Listed(strict.items) = CoreBefore(decoder.items, Position(strict))
        /\ strict.phase # "waits"
  BY <1>2 DEF DecoderInv, StrictRight
<1>6. /\ Wait.kind = "wait"
      /\ decoder.buffer # <<>> =>
           /\ next.kind \in {"wait", "reject", "junk"} \cup Kinds
           /\ next.kind \in Kinds =>
                /\ next.size \in 1..Len(decoder.buffer)
                /\ WellFormed(next.kind, SubSeq(decoder.buffer, 1, next.size))
           /\ next.kind = "junk" => /\ next.size = 1 /\ 1 \in 1..Len(decoder.buffer)
                                    /\ NeverFrame(decoder.buffer)
           /\ next.kind = "wait" =>
                FrameMayCome(decoder.buffer) /\ StrictScan(decoder.buffer).kind = "wait"
  <2>1. Wait.kind = "wait"
    BY DEF Wait, Take
  <2>2. decoder.buffer # <<>> => next = Scan(decoder.buffer)
    BY <1>1
  <2>3. QED
    BY <1>4, <2>1, <2>2, ScanTakes
<1>7. CASE next.kind = "wait"
  <2>1. /\ decoder' \in Decoders /\ decoder'.phase = "waits" /\ decoder'.buffer = decoder.buffer
        /\ decoder'.items = decoder.items /\ decoder'.returned = Len(decoder.items)
    <3>1. decoder' = [decoder EXCEPT !.returned = Len(decoder.items), !.phase = "waits"]
      BY <1>2, <1>7 DEF Around
    <3>2. QED
      BY <1>3, <1>4, <3>1 DEF Decoders
  <2>2. Position(decoder)' = Position(decoder)
    BY <1>2, <2>1 DEF Position
  <2>3. Keeps(decoder)' /\ Ordered(decoder)' /\ Tiled(decoder.items)'
    <3>1. Keeps(decoder)'
      BY <1>2, <1>3, <2>1, <2>2 DEF Keeps, Rest
    <3>2. Ordered(decoder)'
      BY <1>3, <2>1, <2>2 DEF Ordered
    <3>3. Tiled(decoder.items)'
      <4> SUFFICES ASSUME NEW i \in 1..Len(decoder.items)
                   PROVE  decoder.items[i].at = Behind(decoder.items, i) /\ Right(decoder.items[i])'
        BY <2>1 DEF Tiled, Behind
      <4>1. decoder.items[i].at = Behind(decoder.items, i) /\ Right(decoder.items[i])
        BY <1>3 DEF Tiled
      <4>2. decoder'.items[i] = decoder.items[i]
        BY <2>1
      <4>3. QED
        BY <1>2, <4>1, <4>2 DEF Right, Rest
    <3>4. QED
      BY <3>1, <3>2, <3>3
  <2>4. Behind(decoder.items, Len(decoder.items) + 1)' = Position(decoder)'
    BY <1>3, <2>1, <2>2 DEF Behind
  <2>5. DecoderRight'
    BY <1>6, <1>7, <2>1, <2>3, <2>4 DEF DecoderRight
  <2>6. StrictRight'
    BY <1>2, <1>5, <2>1, <2>2 DEF StrictRight, Keeps, Ordered, Rest, Position
  <2>7. QED
    BY <1>2, <1>3, <2>5, <2>6 DEF DecoderInv
<1>8. CASE next.kind = "reject"
  <2>1. decoder'.phase = "failed"
    BY <1>2, <1>3, <1>8 DEF Around, GiveUp, Decoders
  <2>2. QED
    BY <1>2, <1>3, <2>1 DEF DecoderInv, DecoderRight, StrictRight
<1>9. CASE next.kind \in {"junk"} \cup Kinds
  <2>1. decoder.buffer # <<>>
    BY <1>1, <1>6, <1>9 DEF Kinds
  <2>2. next.size \in 1..Len(decoder.buffer)
    BY <1>6, <1>9, <2>1
  <2> DEFINE size == next.size
  <2>3. PICK raw, left, at, item : /\ raw = SubSeq(decoder.buffer, 1, size)
                                   /\ left = SubSeq(decoder.buffer, size + 1, Len(decoder.buffer))
                                   /\ at = Len(stream) - Len(decoder.buffer)
                                   /\ item = [kind |-> next.kind, at |-> at, raw |-> raw]
    OBVIOUS
  <2>4. PICK place \in Nat : place = Position(decoder)
    BY <1>4
  <2> HIDE DEF size
  <2>5. /\ size \in Nat /\ size >= 1 /\ place + size <= Len(stream) /\ Len(stream) \in Nat
        /\ raw \in Seq(Bytes) /\ Len(raw) = size /\ raw = SubSeq(Rest(place), 1, size)
        /\ left \in Seq(Bytes) /\ Len(left) <= Len(stream)
        /\ Len(stream) - Len(left) = place + size /\ left = Rest(place + size)
    <3>1. decoder.buffer = Rest(place) /\ place <= Len(stream) /\ Len(stream) \in Nat
      BY <1>3, <2>4, PositionFacts DEF Keeps
    <3>2. size \in 1..Len(Rest(place))
      BY <2>2, <3>1 DEF size
    <3>3. raw = SubSeq(Rest(place), 1, size) /\ left = SubSeq(Rest(place), size + 1, Len(Rest(place)))
      BY <2>3, <3>1
    <3>4. /\ size \in Nat /\ size >= 1 /\ place + size <= Len(stream)
          /\ SubSeq(Rest(place), 1, size) \in Seq(Bytes) /\ Len(SubSeq(Rest(place), 1, size)) = size
          /\ SubSeq(Rest(place), size + 1, Len(Rest(place))) = Rest(place + size)
          /\ Rest(place + size) \in Seq(Bytes) /\ Len(Rest(place + size)) <= Len(stream)
          /\ Len(stream) - Len(Rest(place + size)) = place + size
      BY <1>3, <2>4, <3>1, <3>2, Advanced
    <3>5. left = Rest(place + size)
      BY <3>3, <3>4
    <3>6. QED
      BY <3>1, <3>3, <3>4, <3>5
  <2>6. at = place /\ decoder.buffer = Rest(place)
    BY <1>3, <2>3, <2>4 DEF Position, Keeps
  <2>7. item \in Items /\ item.kind = next.kind /\ item.at = place /\ item.raw = raw
    BY <1>9, <2>3, <2>5, <2>6 DEF Items
  <2>8. decoder' = [decoder EXCEPT !.buffer = left, !.items = Append(decoder.items, item)]
    <3>1. next.kind # "wait" /\ next.kind # "reject"
      BY <1>9 DEF Kinds
    <3>2. QED
      BY <1>2, <2>3, <3>1 DEF Around, size
  <2>9. PICK longer : longer = Append(decoder.items, item)
    OBVIOUS
  <2>10. /\ longer \in Seq(Items) /\ Len(longer) = Len(decoder.items) + 1
         /\ \A i \in 1..Len(decoder.items) : longer[i] = decoder.items[i]
         /\ longer[Len(decoder.items) + 1] = item
         /\ \A i \in 1..Len(longer) : i \in 1..Len(decoder.items) \/ i = Len(decoder.items) + 1
         /\ \A i \in 1..(Len(decoder.items) + 1) : Behind(longer, i) = Behind(decoder.items, i)
         /\ Behind(longer, Len(longer) + 1) = item.at + Len(item.raw)
    <3>1. PICK items \in Seq(Items) : items = decoder.items
      BY <1>4
    <3>2. longer = Append(items, item) /\ item \in Items
      BY <2>7, <2>9, <3>1
    <3>3. /\ longer \in Seq(Items) /\ Len(longer) = Len(items) + 1
          /\ \A i \in 1..Len(items) : longer[i] = items[i]
          /\ longer[Len(items) + 1] = item
          /\ \A i \in 1..Len(longer) : i \in 1..Len(items) \/ i = Len(items) + 1
          /\ \A i \in 1..(Len(items) + 1) : Behind(longer, i) = Behind(items, i)
          /\ Behind(longer, Len(longer) + 1) = item.at + Len(item.raw)
      <4>1. item \in Items
        BY <3>2
      <4> DEFINE more == Append(items, item)
      <4>2. /\ more \in Seq(Items) /\ Len(more) = Len(items) + 1
            /\ \A i \in 1..Len(items) : more[i] = items[i]
            /\ more[Len(items) + 1] = item
            /\ \A i \in 1..Len(more) : i \in 1..Len(items) \/ i = Len(items) + 1
            /\ \A i \in 1..(Len(items) + 1) : Behind(more, i) = Behind(items, i)
            /\ Behind(more, Len(more) + 1) = item.at + Len(item.raw)
        BY <4>1, Appended
      <4>3. more = longer
        BY <3>2
      <4> HIDE DEF more
      <4>4. QED
        BY <4>2, <4>3
    <3>4. QED
      BY <3>1, <3>3
  <2>11. /\ decoder' \in Decoders /\ decoder'.phase = "feeds" /\ decoder'.buffer = left
         /\ decoder'.items = longer
    BY <1>2, <1>3, <2>5, <2>8, <2>9, <2>10 DEF Decoders
  <2>12. Position(decoder)' = place + size
    BY <1>2, <2>5, <2>11 DEF Position
  <2>13. Keeps(decoder)'
    BY <1>2, <2>5, <2>11, <2>12 DEF Keeps, Rest
  <2>14. Ordered(decoder)'
    <3>1. PICK items \in Seq(Items) : items = decoder.items
      BY <1>4
    <3>2. /\ \A i \in 1..Len(items) : items[i].at + Len(items[i].raw) <= place
          /\ \A i, j \in 1..Len(items) : i < j => items[i].at + Len(items[i].raw) <= items[j].at
      BY <1>3, <2>4, <3>1 DEF Ordered
    <3> DEFINE more == Append(items, item)
    <3>3. /\ \A i \in 1..Len(more) : more[i].at + Len(more[i].raw) <= place + Len(item.raw)
          /\ \A i, j \in 1..Len(more) : i < j => more[i].at + Len(more[i].raw) <= more[j].at
      BY <2>7, <3>2, OrderedOn
    <3> HIDE DEF more
    <3>4. more = longer /\ Len(item.raw) = size
      BY <2>5, <2>7, <2>9, <3>1 DEF more
    <3>5. QED
      BY <2>11, <2>12, <3>3, <3>4 DEF Ordered
  <2>15. Right(item)
    <3>1. /\ next.kind = "junk" => size = 1 /\ NeverFrame(Rest(place))
          /\ next.kind # "junk" => WellFormed(next.kind, raw)
      BY <1>6, <1>9, <2>1, <2>3, <2>6 DEF size
    <3>2. QED
      BY <2>5, <2>7, <3>1 DEF Right
  <2>16. Tiled(longer)
    <3> SUFFICES ASSUME NEW i \in 1..Len(longer)
                 PROVE  longer[i].at = Behind(longer, i) /\ Right(longer[i])
      BY DEF Tiled
    <3>1. CASE i \in 1..Len(decoder.items)
      <4>1. i \in 1..(Len(decoder.items) + 1)
        BY <1>4, <3>1
      <4>2. decoder.items[i].at = Behind(decoder.items, i) /\ Right(decoder.items[i])
        BY <1>3, <3>1 DEF Tiled
      <4>3. QED
        BY <2>10, <3>1, <4>1, <4>2
    <3>2. CASE i = Len(decoder.items) + 1
      <4>1. i \in 1..(Len(decoder.items) + 1)
        BY <1>4, <3>2
      <4>2. QED
        BY <1>3, <2>4, <2>7, <2>10, <2>15, <3>2, <4>1
    <3>3. QED
      BY <2>10, <3>1, <3>2
  <2>17. Tiled(decoder.items)' /\ Behind(decoder.items, Len(decoder.items) + 1)' = Position(decoder)'
    <3>1. Tiled(decoder.items)'
      BY <1>2, <2>11, <2>16 DEF Tiled, Right, Rest, Behind
    <3>2. Behind(longer, Len(longer) + 1) = place + size
      BY <2>5, <2>7, <2>10
    <3>3. Behind(decoder.items, Len(decoder.items) + 1)' = Behind(longer, Len(longer) + 1)
      BY <2>11 DEF Behind
    <3>4. QED
      BY <2>12, <3>1, <3>2, <3>3
  <2>18. DecoderRight'
    BY <2>11, <2>13, <2>14, <2>17 DEF DecoderRight
  <2>19. StrictRight'
    <3> SUFFICES ASSUME strict.phase # "failed" PROVE StrictRight'
      BY <1>2 DEF StrictRight
    <3>1. Position(strict)' = Position(strict)
      BY <1>2 DEF Position
    <3>2. Keeps(strict)' /\ Ordered(strict)'
      BY <1>2, <1>5, <3>1 DEF Keeps, Ordered, Rest
    <3>3. \E i \in 1..Len(longer) : longer[i].at = Position(strict)
      <4>1. CASE Position(strict) = Position(decoder)
        <5>1. Len(decoder.items) + 1 \in 1..Len(longer)
          BY <1>4, <2>10
        <5>2. QED
          BY <2>4, <2>7, <2>10, <4>1, <5>1
      <4>2. CASE \E i \in 1..Len(decoder.items) : decoder.items[i].at = Position(strict)
        <5>1. \A i \in 1..Len(decoder.items) : i \in 1..Len(longer)
          BY <1>4, <2>10
        <5>2. QED
          BY <2>10, <4>2, <5>1
      <4>3. QED
        BY <1>5, <4>1, <4>2
    <3>4. Position(strict) <= place /\ Position(strict) \in Nat
      <4>1. CASE Position(strict) = Position(decoder)
        BY <2>4, <4>1
      <4>2. CASE \E i \in 1..Len(decoder.items) : decoder.items[i].at = Position(strict)
        <5>1. PICK i \in 1..Len(decoder.items) : decoder.items[i].at = Position(strict)
          BY <4>2
        <5>2. /\ decoder.items[i].at \in Nat /\ Len(decoder.items[i].raw) \in Nat
              /\ decoder.items[i].at + Len(decoder.items[i].raw) <= place
          BY <1>3, <1>4, <2>4 DEF Ordered
        <5>3. PICK a \in Nat, b \in Nat :
                a = decoder.items[i].at /\ b = Len(decoder.items[i].raw) /\ a + b <= place
          BY <5>2
        <5>4. a <= place
          BY <2>4, <5>3
        <5>5. QED
          BY <5>1, <5>3, <5>4
      <4>3. QED
        BY <1>5, <4>1, <4>2
    <3>5. CoreBefore(longer, Position(strict)) = CoreBefore(decoder.items, Position(strict))
      <4>1. ~(item.at < Position(strict))
        BY <2>7, <3>4
      <4>2. \A i \in 1..Len(longer) : longer[i].kind = "primary" /\ longer[i].at < Position(strict)
              => i \in 1..Len(decoder.items)
        BY <2>10, <4>1
      <4>3. \A i \in 1..Len(decoder.items) : i \in 1..Len(longer)
        BY <1>4, <2>10
      <4>4. QED
        BY <2>10, <4>2, <4>3 DEF CoreBefore
    <3>6. Listed(strict.items)' = CoreBefore(decoder.items, Position(strict))'
      <4>1. Listed(strict.items)' = Listed(strict.items)
        BY <1>2 DEF Listed
      <4>2. CoreBefore(decoder.items, Position(strict))' = CoreBefore(longer, Position(strict))
        BY <2>11, <3>1 DEF CoreBefore
      <4>3. QED
        BY <1>5, <3>5, <4>1, <4>2
    <3>7. QED
      BY <1>2, <1>5, <2>11, <3>1, <3>2, <3>3, <3>6 DEF StrictRight
  <2>20. QED
    BY <1>2, <1>3, <2>18, <2>19 DEF DecoderInv
<1>10. QED
  BY <1>1, <1>6, <1>7, <1>8, <1>9

\* The core frames up to the end of an item.
LEMMA CoreUpTo ==
  ASSUME stream \in Seq(Bytes), NEW d \in Decoders, Keeps(d), Ordered(d), Tiled(d.items),
         NEW i \in 1..Len(d.items), NEW item, item = d.items[i]
  PROVE  CoreBefore(d.items, item.at + Len(item.raw))
           = CoreBefore(d.items, item.at) \cup (IF item.kind = "primary" THEN {item} ELSE {})
<1>1. PICK items \in Seq(Items) : items = d.items
  BY DEF Decoders
<1>2. \A one \in Items : one.at \in Nat /\ Len(one.raw) \in Nat
  BY DEF Items
<1>3. i \in 1..Len(items) /\ item = items[i] /\ Len(items) \in Nat
  BY <1>1
<1>4. \A j \in 1..Len(items) : items[j].at \in Nat /\ Len(items[j].raw) \in Nat /\ Len(items[j].raw) >= 1
  <2>1. \A j \in 1..Len(items) : items[j] \in Items
    OBVIOUS
  <2>2. \A j \in 1..Len(items) : Len(items[j].raw) >= 1
    BY <1>1 DEF Tiled, Right
  <2>3. QED
    BY <1>2, <2>1, <2>2
<1>5. \A j, k \in 1..Len(items) : j < k => items[j].at + Len(items[j].raw) <= items[k].at
  BY <1>1 DEF Ordered
<1>6. ASSUME NEW j \in 1..Len(items)
      PROVE  items[j].at < item.at + Len(item.raw) <=> items[j].at < item.at \/ j = i
  <2>1. PICK a \in Nat, b \in Nat, p \in Nat, q \in Nat :
          a = items[j].at /\ b = Len(items[j].raw) /\ p = item.at /\ q = Len(item.raw)
          /\ b >= 1 /\ q >= 1
    BY <1>3, <1>4
  <2>2. j < i => a + b <= p
    BY <1>3, <1>5, <2>1
  <2>3. i < j => p + q <= a
    BY <1>3, <1>5, <2>1
  <2>4. j = i => a = p
    BY <1>3, <2>1
  <2>5. j < i \/ i < j \/ j = i
    BY <1>3
  <2>6. a < p + q <=> a < p \/ j = i
    <3>1. CASE j < i
      <4>1. a < p /\ a < p + q
        <5>1. \A m, n, k, l \in Nat : n >= 1 /\ m + n <= k => m < k /\ m < k + l
          OBVIOUS
        <5>2. a + b <= p
          BY <2>2, <3>1
        <5>3. QED
          BY <2>1, <5>1, <5>2
      <4>2. QED
        BY <4>1
    <3>2. CASE i < j
      <4>1. ~(a < p) /\ ~(a < p + q) /\ j # i
        BY <1>3, <2>1, <2>3, <3>2, SMTT(30)
      <4>2. QED
        BY <4>1
    <3>3. CASE j = i
      BY <2>1, <2>4, <3>3
    <3>4. QED
      BY <2>5, <3>1, <3>2, <3>3
  <2>7. QED
    BY <2>1, <2>6
<1>7. CoreBefore(items, item.at + Len(item.raw))
        = CoreBefore(items, item.at) \cup (IF item.kind = "primary" THEN {item} ELSE {})
  <2> DEFINE J == {j \in 1..Len(items) :
                     items[j].kind = "primary" /\ items[j].at < item.at + Len(item.raw)}
             K == {j \in 1..Len(items) : items[j].kind = "primary" /\ items[j].at < item.at}
  <2>1. J = K \cup (IF item.kind = "primary" THEN {i} ELSE {})
    BY <1>3, <1>6
  <2>2. CoreBefore(items, item.at + Len(item.raw)) = {items[j] : j \in J}
    BY DEF CoreBefore
  <2>3. CoreBefore(items, item.at) = {items[j] : j \in K}
    BY DEF CoreBefore
  <2> HIDE DEF J, K
  <2>4. QED
    BY <1>3, <2>1, <2>2, <2>3
<1>8. QED
  BY <1>1, <1>7

LEMMA StrictLoopKeeps == DecoderInv /\ StrictLoop => DecoderInv'
<1> SUFFICES ASSUME DecoderInv, StrictLoop PROVE DecoderInv'
  OBVIOUS
<1>1. PICK next : next = IF strict.buffer = <<>> THEN Wait ELSE StrictScan(strict.buffer)
  OBVIOUS
<1>2. /\ strict.phase = "feeds" /\ decoder.phase # "feeds"
      /\ strict' = Around(strict, next, next.kind = "primary", strict.buffer)
      /\ stream' = stream /\ decoder' = decoder /\ stream \in Seq(Bytes)
  BY <1>1 DEF StrictLoop, DecoderInv
<1>3. DecoderRight'
  <2>1. /\ Keeps(decoder)' = Keeps(decoder) /\ Ordered(decoder)' = Ordered(decoder)
        /\ Position(decoder)' = Position(decoder)
    BY <1>2 DEF Keeps, Ordered, Position, Rest
  <2>2. Tiled(decoder.items)' = Tiled(decoder.items)
    BY <1>2 DEF Tiled, Right, Rest, Behind
  <2>3. Behind(decoder.items, Len(decoder.items) + 1)' = Behind(decoder.items, Len(decoder.items) + 1)
    BY <1>2 DEF Behind
  <2>4. QED
    BY <1>2, <2>1, <2>2, <2>3 DEF DecoderInv, DecoderRight
<1>4. CASE decoder.phase = "failed"
  BY <1>2, <1>3, <1>4 DEF DecoderInv, StrictRight
<1>5. CASE decoder.phase # "failed"
  <2>1. /\ decoder \in Decoders /\ Keeps(decoder) /\ Ordered(decoder) /\ Tiled(decoder.items)
        /\ Behind(decoder.items, Len(decoder.items) + 1) = Position(decoder)
        /\ decoder.phase = "waits"
        /\ decoder.buffer # <<>> => StrictScan(decoder.buffer).kind = "wait"
    BY <1>2, <1>5 DEF DecoderInv, DecoderRight, Decoders
  <2>2. /\ strict \in Decoders /\ Keeps(strict) /\ Ordered(strict)
        /\ \/ Position(strict) = Position(decoder)
           \/ \E i \in 1..Len(decoder.items) : decoder.items[i].at = Position(strict)
        /\ Listed(strict.items) = CoreBefore(decoder.items, Position(strict))
    BY <1>2, <1>5 DEF DecoderInv, StrictRight
  <2>3. /\ strict.items \in Seq(Items) /\ Len(strict.items) \in Nat /\ strict.buffer \in Seq(Bytes)
        /\ Position(strict) \in Nat /\ Position(strict) <= Len(stream)
    BY <1>2, <2>2, PositionFacts
  <2>4. CASE Position(strict) = Position(decoder)
    <3>1. strict.buffer = decoder.buffer
      BY <1>2, <2>1, <2>2, <2>4, SamePlace
    <3>2. next.kind = "wait"
      <4>1. Wait.kind = "wait"
        BY DEF Wait, Take
      <4>2. QED
        BY <1>1, <2>1, <3>1, <4>1
    <3>3. strict' = [strict EXCEPT !.returned = Len(strict.items), !.phase = "waits"]
      BY <1>2, <3>2 DEF Around
    <3>4. /\ strict' \in Decoders /\ strict'.phase = "waits" /\ strict'.buffer = strict.buffer
          /\ strict'.items = strict.items /\ strict'.returned = Len(strict.items)
      BY <2>2, <2>3, <3>3 DEF Decoders
    <3>5. Position(strict)' = Position(strict) /\ Position(decoder)' = Position(decoder)
      BY <1>2, <3>4 DEF Position
    <3>6. Keeps(strict)' /\ Ordered(strict)'
      <4>1. Keeps(strict)'
        BY <1>2, <2>2, <3>4, <3>5 DEF Keeps, Rest
      <4>2. Ordered(strict)'
        BY <2>2, <3>4, <3>5 DEF Ordered
      <4>3. QED
        BY <4>1, <4>2
    <3>7. Listed(strict.items)' = CoreBefore(decoder.items, Position(strict))'
      <4>1. Listed(strict.items)' = Listed(strict.items)
        BY <3>4 DEF Listed
      <4>2. CoreBefore(decoder.items, Position(strict))' = CoreBefore(decoder.items, Position(strict))
        BY <1>2, <3>5 DEF CoreBefore
      <4>3. QED
        BY <2>2, <4>1, <4>2
    <3>8. StrictRight'
      BY <1>2, <2>1, <2>4, <3>4, <3>5, <3>6, <3>7 DEF StrictRight
    <3>9. QED
      BY <1>2, <1>3, <3>8 DEF DecoderInv
  <2>5. CASE Position(strict) # Position(decoder)
    <3>1. PICK i \in 1..Len(decoder.items) : decoder.items[i].at = Position(strict)
      BY <2>2, <2>5
    <3>2. PICK item \in Items : item = decoder.items[i]
      BY <1>2, <2>1, PositionFacts
    <3>3. Right(item) /\ item.at = Position(strict) /\ item.at \in Nat /\ Len(item.raw) \in Nat
      BY <2>1, <3>1, <3>2 DEF Tiled, Items
    <3>4. PICK place \in Nat, size \in Nat : place = item.at /\ size = Len(item.raw)
      BY <3>3
    <3>5. /\ place = Position(strict) /\ place <= Len(stream) /\ strict.buffer = Rest(place)
          /\ Rest(place) \in Seq(Bytes) /\ Len(Rest(place)) = Len(stream) - place
          /\ Len(stream) \in Nat
      BY <1>2, <2>2, <2>3, <3>3, <3>4, RestFacts DEF Keeps
    <3>6. /\ size >= 1 /\ place + size <= Len(stream) /\ item.raw = SubSeq(Rest(place), 1, size)
          /\ item.kind = "junk" => NeverFrame(Rest(place))
          /\ item.kind # "junk" => WellFormed(item.kind, item.raw)
      BY <3>3, <3>4 DEF Right
    <3>7. size \in 1..Len(Rest(place)) /\ Rest(place) # <<>>
      BY <3>4, <3>5, <3>6
    <3>8. next = StrictScan(Rest(place))
      BY <1>1, <3>5, <3>7
    <3>9. CASE item.kind = "junk"
      <4>1. next.kind = "reject"
        BY <3>5, <3>6, <3>7, <3>8, <3>9, NeverBegins
      <4>2. strict'.phase = "failed"
        BY <1>2, <2>2, <4>1 DEF Around, GiveUp, Decoders
      <4>3. QED
        BY <1>2, <1>3, <4>2 DEF DecoderInv, StrictRight
    <3>10. CASE item.kind # "junk"
      <4>1. item.kind \in Kinds
        BY <3>2, <3>10 DEF Items
      <4>2. next = Take(item.kind, size)
        BY <3>5, <3>6, <3>7, <3>8, <3>10, <4>1, StrictTakes
      <4>3. next.kind = item.kind /\ next.size = size /\ next.kind # "wait" /\ next.kind # "reject"
        BY <4>1, <4>2 DEF Take, Kinds
      <4>4. /\ SubSeq(Rest(place), size + 1, Len(Rest(place))) = Rest(place + size)
            /\ Rest(place + size) \in Seq(Bytes) /\ Len(Rest(place + size)) <= Len(stream)
            /\ Len(stream) - Len(Rest(place + size)) = place + size
        BY <1>2, <3>4, <3>5, <3>7, Advanced
      <4>5. PICK left : left = Rest(place + size)
        OBVIOUS
      <4>6. PICK taken \in Seq(Items) :
              taken = IF item.kind = "primary" THEN Append(strict.items, item) ELSE strict.items
        <5>1. Append(strict.items, item) \in Seq(Items)
          BY <2>3, <3>2, AppendProperties
        <5>2. QED
          BY <2>3, <5>1
      <4>7. strict' = [strict EXCEPT !.buffer = left, !.items = taken]
        <5>1. item = [kind |-> next.kind, at |-> Len(stream) - Len(strict.buffer),
                      raw |-> SubSeq(strict.buffer, 1, next.size)]
          BY <3>2, <3>4, <3>5, <3>6, <4>3 DEF Items, Position
        <5>2. left = SubSeq(strict.buffer, next.size + 1, Len(strict.buffer))
          BY <3>5, <4>3, <4>4, <4>5
        <5>3. QED
          BY <1>2, <4>3, <4>6, <5>1, <5>2 DEF Around
      <4>8. /\ strict' \in Decoders /\ strict'.phase = "feeds" /\ strict'.buffer = left
            /\ strict'.items = taken
        BY <1>2, <2>2, <4>4, <4>5, <4>6, <4>7 DEF Decoders
      <4>9. Position(strict)' = place + size /\ Position(decoder)' = Position(decoder)
        BY <1>2, <4>4, <4>5, <4>8 DEF Position
      <4>10. Keeps(strict)'
        BY <1>2, <4>4, <4>5, <4>8, <4>9 DEF Keeps, Rest
      <4>11. /\ \A j \in 1..Len(taken) : taken[j].at + Len(taken[j].raw) <= place + size
             /\ \A j, k \in 1..Len(taken) : j < k => taken[j].at + Len(taken[j].raw) <= taken[k].at
             /\ Listed(taken) = Listed(strict.items)
                                  \cup (IF item.kind = "primary" THEN {item} ELSE {})
        <5>1. PICK items \in Seq(Items) : items = strict.items
          BY <2>3
        <5>2. /\ \A j \in 1..Len(items) : items[j].at + Len(items[j].raw) <= place
              /\ \A j, k \in 1..Len(items) : j < k => items[j].at + Len(items[j].raw) <= items[k].at
          BY <2>2, <3>5, <5>1 DEF Ordered
        <5>3. CASE item.kind = "primary"
          <6>1. taken = Append(items, item)
            BY <4>6, <5>1, <5>3
          <6> DEFINE longer == Append(items, item)
          <6>2. /\ \A j \in 1..Len(longer) :
                     longer[j].at + Len(longer[j].raw) <= place + Len(item.raw)
                /\ \A j, k \in 1..Len(longer) :
                     j < k => longer[j].at + Len(longer[j].raw) <= longer[k].at
                /\ Listed(longer) = Listed(items) \cup {item}
            BY <3>4, <5>2, OrderedOn
          <6> HIDE DEF longer
          <6>3. longer = taken
            BY <6>1 DEF longer
          <6>4. QED
            BY <3>4, <5>1, <5>3, <6>2, <6>3
        <5>4. CASE item.kind # "primary"
          <6>1. taken = items
            BY <4>6, <5>1, <5>4
          <6>2. \A j \in 1..Len(items) : items[j].at + Len(items[j].raw) <= place + size
            <7> SUFFICES ASSUME NEW j \in 1..Len(items)
                         PROVE  items[j].at + Len(items[j].raw) <= place + size
              OBVIOUS
            <7>1. items[j] \in Items
              OBVIOUS
            <7>2. PICK behind \in Nat : behind = items[j].at + Len(items[j].raw)
              BY <7>1, SMTT(30) DEF Items
            <7>3. behind <= place
              BY <5>2, <7>2
            <7>4. QED
              BY <3>4, <7>2, <7>3
          <6>3. QED
            BY <5>1, <5>2, <5>4, <6>1, <6>2
        <5>5. QED
          BY <5>3, <5>4
      <4>12. Ordered(strict)'
        BY <4>8, <4>9, <4>11 DEF Ordered
      <4>13. CoreBefore(decoder.items, place + size)
               = CoreBefore(decoder.items, place) \cup (IF item.kind = "primary" THEN {item} ELSE {})
        BY <1>2, <2>1, <3>2, <3>4, CoreUpTo
      <4>14. Listed(strict.items)' = CoreBefore(decoder.items, Position(strict))'
        <5>1. Listed(strict.items)' = Listed(taken)
          BY <4>8 DEF Listed
        <5>2. CoreBefore(decoder.items, Position(strict))' = CoreBefore(decoder.items, place + size)
          BY <1>2, <4>9, SMTT(30) DEF CoreBefore
        <5>3. QED
          BY <2>2, <3>5, <4>11, <4>13, <5>1, <5>2
      <4>15. \/ Position(strict)' = Position(decoder)'
             \/ \E j \in 1..Len(decoder.items) : decoder.items[j].at = Position(strict)'
        <5>1. Behind(decoder.items, i + 1) = place + size
          <6>1. i + 1 # 1 /\ (i + 1) - 1 = i
            BY <3>1
          <6>2. QED
            BY <3>2, <3>4, <6>1 DEF Behind
        <5>2. Len(decoder.items) \in Nat
          BY <1>2, <2>1, PositionFacts
        <5>3. CASE i = Len(decoder.items)
          BY <2>1, <4>9, <5>1, <5>3
        <5>4. CASE i # Len(decoder.items)
          <6>1. i + 1 \in 1..Len(decoder.items)
            BY <3>1, <5>2, <5>4
          <6>2. decoder.items[i + 1].at = place + size
            BY <2>1, <5>1, <6>1 DEF Tiled
          <6>3. QED
            BY <4>9, <6>1, <6>2
        <5>5. QED
          BY <5>3, <5>4
      <4>16. StrictRight'
        BY <1>2, <4>8, <4>10, <4>12, <4>14, <4>15 DEF StrictRight
      <4>17. QED
        BY <1>2, <1>3, <4>16 DEF DecoderInv
    <3>11. QED
      BY <3>9, <3>10
  <2>6. QED
    BY <2>4, <2>5
<1>6. QED
  BY <1>4, <1>5

LEMMA DecoderInvNext == DecoderInv /\ [DecoderNext]_decoderVars => DecoderInv'
<1> SUFFICES ASSUME DecoderInv, [DecoderNext]_decoderVars PROVE DecoderInv'
  OBVIOUS
<1>1. CASE DecoderNext
  BY <1>1, ReceiveKeeps, LoopKeeps, StrictLoopKeeps DEF DecoderNext
<1>2. CASE UNCHANGED decoderVars
  <2>1. stream' = stream /\ decoder' = decoder /\ strict' = strict
    BY <1>2 DEF decoderVars
  <2>2. /\ Keeps(decoder)' = Keeps(decoder) /\ Ordered(decoder)' = Ordered(decoder)
        /\ Position(decoder)' = Position(decoder) /\ Keeps(strict)' = Keeps(strict)
        /\ Ordered(strict)' = Ordered(strict) /\ Position(strict)' = Position(strict)
    BY <2>1 DEF Keeps, Ordered, Position, Rest
  <2>3. Tiled(decoder.items)' = Tiled(decoder.items)
    BY <2>1 DEF Tiled, Right, Rest, Behind
  <2>4. /\ Behind(decoder.items, Len(decoder.items) + 1)' = Behind(decoder.items, Len(decoder.items) + 1)
        /\ Listed(strict.items)' = Listed(strict.items)
    BY <2>1 DEF Behind, Listed
  <2>5. CoreBefore(decoder.items, Position(strict))' = CoreBefore(decoder.items, Position(strict))
    BY <2>1, <2>2 DEF CoreBefore
  <2>6. DecoderRight'
    BY <2>1, <2>2, <2>3, <2>4 DEF DecoderInv, DecoderRight
  <2>7. StrictRight'
    BY <2>1, <2>2, <2>4, <2>5 DEF DecoderInv, StrictRight
  <2>8. QED
    BY <2>1, <2>6, <2>7 DEF DecoderInv
<1>3. QED
  BY <1>1, <1>2

\* The invariant says what is asked of the decoders between two pieces.
LEMMA DecoderInvExact == DecoderInv => FramesExact
<1> SUFFICES ASSUME DecoderInv, decoder.phase = "waits" PROVE FramesExact
  BY DEF FramesExact
<1>1. /\ stream \in Seq(Bytes) /\ decoder \in Decoders /\ Keeps(decoder) /\ Ordered(decoder)
      /\ Tiled(decoder.items) /\ decoder.returned = Len(decoder.items)
      /\ Behind(decoder.items, Len(decoder.items) + 1) = Position(decoder)
      /\ decoder.buffer # <<>> => FrameMayCome(decoder.buffer)
  BY DEF DecoderInv, DecoderRight
<1>2. PICK items \in Seq(Items) : items = decoder.items
  BY <1>1, PositionFacts
<1>3. DOMAIN items = 1..Len(items) /\ Len(items) \in Nat /\ Len(stream) \in Nat
  BY <1>1
<1>4. decoder.buffer = SubSeq(stream, Behind(items, Len(items) + 1) + 1, Len(stream))
  BY <1>1, <1>2 DEF Keeps, Rest
<1>5. ASSUME NEW i \in 1..Len(items)
      PROVE  /\ items[i].at = Behind(items, i)
             /\ items[i].raw = SubSeq(stream, items[i].at + 1, items[i].at + Len(items[i].raw))
             /\ IF items[i].kind = "junk"
                THEN /\ Len(items[i].raw) = 1
                     /\ ~FrameBegins(SubSeq(stream, items[i].at + 1, Len(stream)))
                ELSE WellFormed(items[i].kind, items[i].raw)
  <2>1. PICK item \in Items : item = items[i]
    BY <1>2
  <2>2. item.at = Behind(items, i) /\ Right(item)
    BY <1>1, <1>2, <2>1 DEF Tiled
  <2>3. PICK at \in Nat, size \in Nat : at = item.at /\ size = Len(item.raw)
    <3>1. item.at \in Nat /\ Len(item.raw) \in Nat
      BY DEF Items
    <3>2. QED
      BY <3>1
  <2>4. /\ size >= 1 /\ at + size <= Len(stream) /\ item.raw = SubSeq(Rest(at), 1, size)
        /\ item.kind = "junk" => size = 1 /\ NeverFrame(Rest(at))
        /\ item.kind # "junk" => WellFormed(item.kind, item.raw)
    BY <2>2, <2>3 DEF Right
  <2>5. at <= Len(stream) /\ at <= at + size
    BY <1>3, <2>3, <2>4
  <2>6. /\ Rest(at) \in Seq(Bytes) /\ Len(Rest(at)) = Len(stream) - at
        /\ \A k \in 1..(Len(stream) - at) : Rest(at)[k] = stream[at + k]
    BY <1>1, <2>3, <2>5, RestFacts
  <2>7. item.raw = SubSeq(stream, at + 1, at + size)
    <3>1. PICK none \in Nat, end \in Nat : none = 0 /\ end = at + size
      BY <2>3
    <3> DEFINE a == SubSeq(Rest(at), none + 1, size)
               b == SubSeq(stream, at + 1, end)
    <3>2. /\ size <= Len(Rest(at)) /\ none <= size /\ at <= end /\ end <= Len(stream)
          /\ none + 1 = 1 /\ size - none = size /\ end - at = size
      BY <1>3, <2>3, <2>4, <2>6, <3>1, SMTT(30)
    <3> HIDE DEF a, b
    <3>3. Rest(at) \in Seq(Bytes) /\ size \in Nat /\ at \in Nat /\ none \in Nat /\ end \in Nat
      BY <2>3, <2>6, <3>1
    <3>4. a \in Seq(Bytes) /\ Len(a) = size - none /\ \A k \in 1..(size - none) : a[k] = Rest(at)[none + k]
      BY <3>2, <3>3, Slice DEF a
    <3>5. b \in Seq(Bytes) /\ Len(b) = end - at /\ \A k \in 1..(end - at) : b[k] = stream[at + k]
      <4>1. stream \in Seq(Bytes) /\ at <= end /\ end <= Len(stream)
        BY <1>1, <3>2
      <4>2. QED
        BY <3>3, <4>1, Slice DEF b
    <3>6. \A k \in 1..size : none + k = k /\ k \in 1..(Len(stream) - at)
      BY <1>3, <2>3, <2>4, <3>1
    <3>7. \A k \in 1..size : a[k] = b[k]
      BY <2>6, <3>2, <3>4, <3>5, <3>6, SMTT(30)
    <3>8. a = b
      <4>1. a \in Seq(Bytes) /\ b \in Seq(Bytes) /\ Len(a) = size /\ Len(b) = size
        BY <3>2, <3>4, <3>5
      <4>2. \A k \in 1..Len(a) : a[k] = b[k]
        BY <3>7, <4>1
      <4>3. QED
        BY <4>1, <4>2, SeqEqual
    <3>9. item.raw = a
      BY <2>4, <3>2 DEF a
    <3>10. QED
      BY <3>1, <3>8, <3>9 DEF b
  <2>8. item.kind = "junk" => size = 1 /\ ~FrameBegins(SubSeq(stream, at + 1, Len(stream)))
    <3>1. Rest(at) # <<>>
      BY <1>3, <2>3, <2>4, <2>6
    <3>2. NeverFrame(Rest(at)) => ~FrameBegins(Rest(at))
      BY <2>6, <3>1, NeverBegins
    <3>3. QED
      BY <2>4, <3>2 DEF Rest
  <2>9. QED
    BY <2>1, <2>2, <2>3, <2>4, <2>7, <2>8
<1>6. strict.phase = "waits" =>
        /\ strict.buffer = decoder.buffer /\ strict.returned = Len(strict.items)
        /\ {strict.items[i] : i \in DOMAIN strict.items} = CoreFrames(items)
        /\ \A i, j \in DOMAIN strict.items : i < j => strict.items[i].at < strict.items[j].at
  <2> SUFFICES ASSUME strict.phase = "waits"
               PROVE  /\ strict.buffer = decoder.buffer /\ strict.returned = Len(strict.items)
                      /\ {strict.items[i] : i \in DOMAIN strict.items} = CoreFrames(items)
                      /\ \A i, j \in DOMAIN strict.items :
                           i < j => strict.items[i].at < strict.items[j].at
    OBVIOUS
  <2>1. /\ strict \in Decoders /\ Keeps(strict) /\ Ordered(strict)
        /\ Position(strict) = Position(decoder) /\ strict.returned = Len(strict.items)
        /\ Listed(strict.items) = CoreBefore(decoder.items, Position(strict))
    BY DEF DecoderInv, StrictRight
  <2>2. strict.buffer = decoder.buffer
    BY <1>1, <2>1, SamePlace
  <2>3. DOMAIN strict.items = 1..Len(strict.items)
    BY <2>1 DEF Decoders
  <2>4. CoreBefore(items, Position(decoder)) = CoreFrames(items)
    <3>1. \A j \in 1..Len(items) : items[j].at < Position(decoder)
      <4> SUFFICES ASSUME NEW j \in 1..Len(items) PROVE items[j].at < Position(decoder)
        OBVIOUS
      <4>1. Right(items[j]) /\ items[j].at + Len(items[j].raw) <= Position(decoder)
        BY <1>1, <1>2 DEF Tiled, Ordered
      <4>2. PICK place \in Nat : place = Position(decoder)
        BY <1>1, PositionFacts
      <4>3. items[j] \in Items
        OBVIOUS
      <4>4. PICK a \in Nat, b \in Nat : a = items[j].at /\ b = Len(items[j].raw)
        BY <4>3 DEF Items
      <4>5. b >= 1 /\ a + b <= place
        BY <4>1, <4>2, <4>4 DEF Right
      <4>6. \A m, n, k \in Nat : n >= 1 /\ m + n <= k => m < k
        OBVIOUS
      <4>7. QED
        BY <4>2, <4>4, <4>5, <4>6
    <3>2. QED
      BY <1>3, <3>1 DEF CoreBefore, CoreFrames
  <2>5. \A i, j \in 1..Len(strict.items) : i < j => strict.items[i].at < strict.items[j].at
    <3> SUFFICES ASSUME NEW i \in 1..Len(strict.items), NEW j \in 1..Len(strict.items), i < j
                 PROVE  strict.items[i].at < strict.items[j].at
      OBVIOUS
    <3>1. strict.items[i].at + Len(strict.items[i].raw) <= strict.items[j].at
      BY <2>1 DEF Ordered
    <3>2. strict.items[i] \in CoreFrames(items) /\ strict.items[j] \in Items
      BY <1>2, <2>1, <2>4 DEF Listed, Decoders
    <3>3. \E k \in 1..Len(items) : strict.items[i] = items[k]
      BY <1>3, <3>2 DEF CoreFrames
    <3>4. PICK item \in Items : item = strict.items[i] /\ Right(item)
      BY <1>1, <1>2, <3>3 DEF Tiled
    <3>5. PICK a \in Nat, b \in Nat, c \in Nat :
            a = item.at /\ b = Len(item.raw) /\ c = strict.items[j].at
      BY <3>2 DEF Items
    <3>6. b >= 1 /\ a + b <= c
      BY <3>1, <3>4, <3>5 DEF Right
    <3>7. \A m, n, k \in Nat : n >= 1 /\ m + n <= k => m < k
      OBVIOUS
    <3>8. QED
      BY <3>4, <3>5, <3>6, <3>7
  <2>6. QED
    BY <1>2, <2>1, <2>2, <2>3, <2>4, <2>5 DEF Listed
<1>7. QED
  <2>1. /\ decoder.returned = Len(items) /\ (decoder.buffer # <<>> => FrameMayCome(decoder.buffer))
        /\ \A i \in DOMAIN items :
             /\ items[i].at = Behind(items, i)
             /\ items[i].raw = SubSeq(stream, items[i].at + 1, items[i].at + Len(items[i].raw))
             /\ IF items[i].kind = "junk"
                THEN /\ Len(items[i].raw) = 1
                     /\ ~FrameBegins(SubSeq(stream, items[i].at + 1, Len(stream)))
                ELSE WellFormed(items[i].kind, items[i].raw)
    BY <1>1, <1>2, <1>3, <1>5
  <2>2. QED
    BY <1>2, <1>4, <1>6, <2>1 DEF FramesExact

\* The decoders are exact (FramesExact; protocol.py:158-206, aquarius_validation.py:172-203),
\* for every stream of bytes, every way to cut it, every set of markers, header and trailer
\* and every payload an extended frame may announce: what StreamDecoder has returned are the
\* frames of the stream where they stand, nothing is lost, doubled or reordered, no complete
\* frame is held back, and what the strict Decoder returns are the core frames among them.
THEOREM FramesAlwaysExact == DecoderSpec => []FramesExact
<1>1. DecoderInit => DecoderInv
  BY DecoderInvInit
<1>2. DecoderInv /\ [DecoderNext]_decoderVars => DecoderInv'
  BY DecoderInvNext
<1>3. DecoderInv => FramesExact
  BY DecoderInvExact
<1>4. QED
  BY <1>1, <1>2, <1>3, PTL DEF DecoderSpec
=================================================================================
