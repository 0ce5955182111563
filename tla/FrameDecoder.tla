------------------------------ MODULE FrameDecoder ------------------------------
(***************************************************************************)
(* StreamDecoder of the integration (protocol.py) and Decoder of the       *)
(* native workers (aquarius_validation.py): the bytes of a connection come *)
(* in pieces cut anywhere, and frames are found in them again.  A core     *)
(* frame has a fixed length between two markers, an extended frame says    *)
(* its own length behind a header; markers inside a frame mean nothing.    *)
(* The first decoder skips what it cannot place, the second refuses it.    *)
(* Both are fed the same pieces here; the loop of feed is a step each      *)
(* time around, and nothing else moves before it ends.                     *)
(***************************************************************************)
EXTENDS Naturals, Sequences, SequencesExt

CONSTANTS
  Bytes,            \* the bytes that occur
  Core, End,        \* 0xF1, 0xF3: the markers of a core frame
  CoreLength,       \* 20
  Header, Trailer,  \* 01 FE 68 and 67 FD 02, around an extended frame
  Payload,          \* [Bytes -> Nat]: what a length byte says
  Acks,             \* 0xF5, 0xF6
  MaxBuffer,        \* 4096
  MaxStreamBytes,        \* bound: bytes of a connection
  MaxPiece          \* bound: bytes of a piece

Overhead == Len(Header) + 1 + Len(Trailer)
ASSUME DecoderAssumption ==
  /\ CoreLength \in Nat \ {0, 1}
  /\ Header \in Seq(Bytes) /\ Len(Header) > 0 /\ Trailer \in Seq(Bytes) /\ Len(Trailer) > 0
  /\ Payload \in [Bytes -> Nat]
  /\ Core # Header[1] /\ {Core, Header[1]} \cap Acks = {}
  /\ \A b \in Bytes : MaxBuffer >= Overhead + Payload[b]    \* "must hold a 262-byte frame"

\* A decoder keeps a buffer; `items' are what its loop took from the stream so far and
\* where each began (the junk it skipped included), `returned' how many of them feed has
\* given to its caller.
VARIABLES
  stream,           \* the bytes that have come
  decoder,          \* StreamDecoder
  strict            \* Decoder, which returns core frames only
decoderVars == <<stream, decoder, strict>>

Fresh == [buffer |-> <<>>, items |-> <<>>, returned |-> 0, phase |-> "waits"]
DecoderInit == stream = <<>> /\ decoder = Fresh /\ strict = Fresh

-----------------------------------------------------------------------------
\* What a decoder makes of the beginning of its buffer: it takes `size' bytes as an
\* item, waits for more, or refuses them.
Take(kind, size) == [kind |-> kind, size |-> size]
Wait == Take("wait", 0)
Reject == Take("reject", 0)

\* An extended frame whose header fits as far as it is there.
Extended(bytes) ==
  IF Len(bytes) <= Len(Header) THEN Wait
  ELSE LET size == Overhead + Payload[bytes[Len(Header) + 1]]
       IN  IF Len(bytes) < size THEN Wait
           ELSE IF SubSeq(bytes, size - Len(Trailer) + 1, size) # Trailer THEN Reject
           ELSE Take("extended", size)

\* Faulty HeaderFits: a header is recognized only when it is complete.
HeaderComplete(bytes) == Len(bytes) >= Len(Header) /\ SubSeq(bytes, 1, Len(Header)) = Header

HeaderFits(bytes) ==
  \A i \in 1..Len(Header) : i <= Len(bytes) => bytes[i] = Header[i]

\* StreamDecoder.feed: what is no frame loses its first byte.
Scan(bytes) ==
  CASE bytes[1] = Core ->
         IF Len(bytes) < CoreLength THEN Wait
         ELSE IF bytes[CoreLength] = End THEN Take("primary", CoreLength)
         ELSE Take("junk", 1)
    [] bytes[1] = Header[1] /\ HeaderFits(bytes) -> Extended(bytes)
    [] bytes[1] \in Acks -> Take("ack", 1)
    [] OTHER -> Take("junk", 1)

\* Decoder.feed: what is no frame is refused.
StrictScan(bytes) ==
  CASE bytes[1] = Core ->
         IF Len(bytes) < CoreLength THEN Wait
         ELSE IF bytes[CoreLength] = End THEN Take("primary", CoreLength)
         ELSE Reject
    [] bytes[1] = Header[1] -> IF HeaderFits(bytes) THEN Extended(bytes) ELSE Reject
    [] bytes[1] \in Acks -> Take("ack", 1)
    [] OTHER -> Reject

\* An error ends the connection, and what the same piece had completed is not returned.
\* The first decoder clears its buffer then, the second leaves what it has: `left'.
GiveUp(d, left) == [d EXCEPT !.buffer = left, !.phase = "failed"]

\* feed begins: the piece must fit in the buffer.
Offer(d, piece, left) ==
  IF Len(d.buffer) + Len(piece) > MaxBuffer THEN GiveUp(d, left)
  ELSE [d EXCEPT !.buffer = @ \o piece, !.phase = "feeds"]

\* Once around the loop, with what the decoder makes of its buffer: it returns what it took,
\* fails, or takes an item; `kept' says whether that is among the messages (or, for the
\* first decoder, the bytes it counts as discarded).
Around(d, next, kept, left) ==
  IF next.kind = "wait" THEN [d EXCEPT !.returned = Len(d.items), !.phase = "waits"]
  ELSE IF next.kind = "reject" THEN GiveUp(d, left)
  ELSE LET item == [kind |-> next.kind, at |-> Len(stream) - Len(d.buffer),
                    raw |-> SubSeq(d.buffer, 1, next.size)]
       IN  [d EXCEPT !.buffer = SubSeq(@, next.size + 1, Len(@)),
                     !.items = IF kept THEN Append(@, item) ELSE @]

Receive ==
  \E size \in 1..MaxPiece : \E piece \in [1..size -> Bytes] :
    /\ decoder.phase = "waits" /\ strict.phase # "feeds"
    /\ Len(stream) + size <= MaxStreamBytes
    /\ stream' = stream \o piece
    /\ decoder' = Offer(decoder, piece, <<>>)
    /\ strict' = IF strict.phase = "failed" THEN strict ELSE Offer(strict, piece, strict.buffer)

Loop ==
  LET next == IF decoder.buffer = <<>> THEN Wait ELSE Scan(decoder.buffer)
  IN  /\ decoder.phase = "feeds" /\ decoder' = Around(decoder, next, TRUE, <<>>)
      /\ UNCHANGED <<stream, strict>>

StrictLoop ==
  LET next == IF strict.buffer = <<>> THEN Wait ELSE StrictScan(strict.buffer)
  IN  /\ strict.phase = "feeds" /\ decoder.phase # "feeds"
      /\ strict' = Around(strict, next, next.kind = "primary", strict.buffer)
      /\ UNCHANGED <<stream, decoder>>

DecoderNext == Receive \/ Loop \/ StrictLoop
DecoderSpec == DecoderInit /\ [][DecoderNext]_decoderVars

-----------------------------------------------------------------------------
(* What a frame is, whatever a decoder does. *)

WellFormed(kind, raw) ==
  CASE kind = "primary" -> Len(raw) = CoreLength /\ raw[1] = Core /\ raw[CoreLength] = End
    [] kind = "extended" ->
         /\ Len(raw) > Len(Header) /\ IsPrefix(Header, raw)
         /\ Len(raw) = Overhead + Payload[raw[Len(Header) + 1]]
         /\ SubSeq(raw, Len(raw) - Len(Trailer) + 1, Len(raw)) = Trailer
    [] kind = "ack" -> Len(raw) = 1 /\ raw[1] \in Acks
Kinds == {"primary", "extended", "ack"}

FrameBegins(bytes) ==
  \E kind \in Kinds, size \in 1..Len(bytes) : WellFormed(kind, SubSeq(bytes, 1, size))
\* More bytes may still make it a frame.
FrameMayCome(bytes) ==
  \/ bytes[1] = Core /\ Len(bytes) < CoreLength
  \/ IsPrefix(bytes, Header)
  \/ /\ IsStrictPrefix(Header, bytes)
     /\ Len(bytes) < Overhead + Payload[bytes[Len(Header) + 1]]

\* Where the next item of a list of them would begin.
Behind(items, i) == IF i = 1 THEN 0 ELSE items[i - 1].at + Len(items[i - 1].raw)
CoreFrames(items) == {items[i] : i \in {j \in DOMAIN items : items[j].kind = "primary"}}

\* However the bytes were cut: nothing is lost, doubled or reordered, a frame is
\* taken exactly where the whole stream has one and never from inside another,
\* only bytes that begin no frame are skipped, and a complete frame is not held
\* back (protocol.py:158-206).  What the strict decoder accepts, both read alike
\* (aquarius_validation.py:172-203).
FramesExact ==
  decoder.phase = "waits" =>
    LET items == decoder.items
        buffer == decoder.buffer
        end == Behind(items, Len(items) + 1)
    IN  /\ decoder.returned = Len(items)
        /\ buffer = SubSeq(stream, end + 1, Len(stream))
        /\ buffer # <<>> => FrameMayCome(buffer)
        /\ \A i \in DOMAIN items :
             /\ items[i].at = Behind(items, i)
             /\ items[i].raw = SubSeq(stream, items[i].at + 1, items[i].at + Len(items[i].raw))
             /\ IF items[i].kind = "junk"
                THEN /\ Len(items[i].raw) = 1
                     /\ ~FrameBegins(SubSeq(stream, items[i].at + 1, Len(stream)))
                ELSE WellFormed(items[i].kind, items[i].raw)
        /\ strict.phase = "waits" =>
             /\ strict.buffer = buffer /\ strict.returned = Len(strict.items)
             /\ {strict.items[i] : i \in DOMAIN strict.items} = CoreFrames(items)
             /\ \A i, j \in DOMAIN strict.items :
                  i < j => strict.items[i].at < strict.items[j].at
=============================================================================
