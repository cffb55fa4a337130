----------------------------- MODULE StreamTap -----------------------------
(***************************************************************************)
(* The sse-tap example: a response observer that keeps the first and the   *)
(* last bytes of an event stream (buffer.HeadTail over buffer.Ring) and    *)
(* reads the token usage out of them when the stream ends.  Envoy cuts the *)
(* stream into chunks anywhere.                                            *)
(*                                                                         *)
(* A byte here is one of a few characters.  "E" and "D" stand for the      *)
(* prefixes of an event and of a data line, "n" for the newline; behind E, *)
(* "s" is message_start and "t" message_delta; behind D, "i" is a message  *)
(* with input tokens, "o" a usage with output tokens, "u" one with both,   *)
(* "x" anything else.  A count is the character it was read from.          *)
(***************************************************************************)
EXTENDS Naturals, SequencesExt

CONSTANTS
    Bodies,     \* the response bodies
    HeadSize,   \* bytes kept of the beginning
    TailSize    \* bytes kept of the end

ASSUME TapAssumption == HeadSize \in Nat \ {0} /\ TailSize \in Nat \ {0}

VARIABLES
    tapped,   \* the observer: "new", "skip", "open", "done" or, uncounted, "over"
    stream,   \* the body of the response
    seen,     \* bytes of it the observer was given
    head,     \* HeadTail.head[:headN]
    ring,     \* HeadTail.tail
    usage     \* what was counted

tapVars == <<tapped, stream, seen, head, ring, usage>>

Zero == "0"

-----------------------------------------------------------------------------
(* buffer.Ring and buffer.HeadTail.                                         *)

NewRing == [data |-> [i \in 1 .. TailSize |-> Zero], pos |-> 0, full |-> FALSE]

\* The ring is full only when a write goes past its end.
WriteByteLate(r, b) ==
    IF r.pos = TailSize
      THEN [data |-> [r.data EXCEPT ![1] = b], pos |-> 1, full |-> TRUE]
      ELSE [r EXCEPT !.data[r.pos + 1] = b, !.pos = (r.pos + 1) % TailSize]

\* Ring.Write, one byte of its copy.
WriteByte(r, b) ==
    [data |-> [r.data EXCEPT ![r.pos + 1] = b],
     pos  |-> (r.pos + 1) % TailSize,
     full |-> r.full \/ r.pos + 1 = TailSize]

RingWrite(r, p) == FoldLeft(WriteByte, r, p)

\* Ring.Bytes: three reversals bring the oldest byte to the front.
Bytes(r) ==
    IF ~r.full THEN SubSeq(r.data, 1, r.pos)
    ELSE Reverse(Reverse(SubSeq(r.data, 1, r.pos)) \o Reverse(SubSeq(r.data, r.pos + 1, TailSize)))

\* HeadTail.Write: what fits goes to the head, all of it to the tail.
HeadWrite(h, p) == SubSeq(h \o p, 1, IF Len(h \o p) < HeadSize THEN Len(h \o p) ELSE HeadSize)

-----------------------------------------------------------------------------
(* ExtractUsage.                                                            *)

\* scanLines: the lines that end in a newline.
scanLines(data) ==
    LET ends == SetToSortSeq({i \in 1 .. Len(data) : data[i] = "n"}, <)
    IN  [k \in 1 .. Len(ends) |->
            SubSeq(data, IF k = 1 THEN 1 ELSE ends[k - 1] + 1, ends[k] - 1)]

\* In the head, only the data of message_start counts.
ScanHead(u, line) ==
    CASE Head(line \o <<Zero>>) = "E" -> [u EXCEPT !.event = line[2]]
      [] line = <<"D", "i">> /\ u.event = "s" /\ u.input = Zero -> [u EXCEPT !.input = "i"]
      [] OTHER -> u

\* In the tail, the first usage gives what is still missing.
ScanTail(u, line) ==
    CASE line = <<"D", "u">> -> [u EXCEPT !.input = IF @ = Zero THEN "u" ELSE @,
                                          !.output = IF @ = Zero THEN "u" ELSE @]
      [] line = <<"D", "o">> -> [u EXCEPT !.output = IF @ = Zero THEN "o" ELSE @]
      [] OTHER -> u

ExtractUsage(h, t) ==
    LET u == FoldLeft(ScanHead, [event |-> Zero, input |-> Zero, output |-> Zero], scanLines(h))
        v == FoldLeft(ScanTail, u, scanLines(t))
    IN  [input |-> v.input, output |-> v.output]

-----------------------------------------------------------------------------
(* tapResponse.                                                             *)

TapInit ==
    /\ tapped = "new" /\ stream \in Bodies /\ seen = 0
    /\ head = <<>> /\ ring = NewRing
    /\ usage = [input |-> Zero, output |-> Zero]

\* Response headers: an event stream, something the tap leaves alone, or a response
\* that ends with them, of which the tap allocates nothing.
TapHeaders ==
    /\ tapped = "new"
    /\ tapped' \in {"open", "skip"} \cup (IF stream = <<>> THEN {"over"} ELSE {})
    /\ UNCHANGED <<stream, seen, head, ring, usage>>

\* A chunk of n bytes; the last one ends the stream.  When the upstream never ends
\* it, OnStreamComplete does, with no bytes.
TapChunk(n, last) ==
    LET p == SubSeq(stream, seen + 1, seen + n) IN
    /\ tapped \in {"open", "skip"}
    /\ last => n = 0 \/ seen + n = Len(stream)
    /\ seen' = seen + n
    /\ \/ /\ tapped = "skip"
          /\ tapped' = IF last THEN "over" ELSE "skip"
          /\ UNCHANGED <<head, ring, usage>>
       \/ /\ tapped = "open"
          /\ head' = HeadWrite(head, p)
          /\ ring' = RingWrite(ring, p)
          /\ usage' = IF last THEN ExtractUsage(head', Bytes(ring')) ELSE usage
          /\ tapped' = IF last THEN "done" ELSE "open"
    /\ UNCHANGED stream

TapOver == tapped \in {"done", "over"} /\ UNCHANGED tapVars

TapNext ==
    \/ TapHeaders
    \/ \E n \in 0 .. Len(stream) - seen, last \in BOOLEAN : TapChunk(n, last)
    \/ TapOver

TapSpec == TapInit /\ [][TapNext]_tapVars

-----------------------------------------------------------------------------
(* Property.                                                                *)

\* However the body is cut into chunks and however often the ring wraps, head and
\* tail are its first and its last bytes, and when the beginning of the message and
\* its final usage lie in them, the usage counted is the one of the whole stream.
TapSeesBothEnds ==
    LET n == Len(stream)
        least(a, b) == IF a < b THEN a ELSE b
        begins == SubSeq(stream, 1, least(n, 6)) = <<"E", "s", "n", "D", "i", "n">> \/ ~Contains(stream, "i")
        ends == n >= 3 /\ stream[n] = "n" /\ stream[n - 1] \in {"o", "u"}
    IN  tapped \in {"open", "done"} =>
        /\ head = SubSeq(stream, 1, least(seen, HeadSize))
        /\ Bytes(ring) = SubSeq(stream, seen - least(seen, TailSize) + 1, seen)
        /\ tapped = "done" /\ seen = n /\ begins /\ ends =>
             usage = ExtractUsage(stream, stream)
=============================================================================
