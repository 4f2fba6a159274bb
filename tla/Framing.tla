-------------------------------- MODULE Framing --------------------------------
(***************************************************************************)
(* From the bytes of a box's answer to its frames                          *)
(* (crates/connector/src/http.rs, events.rs; crates/frame/src/lib.rs):     *)
(* reads cut anywhere, the chunks of the body within them, and frames with *)
(* a length before each within the body. Every turn of the two decoding    *)
(* loops is a step.                                                        *)
(*                                                                         *)
(* Bytes are numbers below 2 * Radix: Radix stands for the 128 values a    *)
(* byte of a varint carries, and the upper half for its continuation bit.  *)
(* The digit d of a size line is the byte Radix + d; so a byte of a frame  *)
(* may be one of a line end, of a size or of a length, as real bytes may.  *)
(* The box is external: it sends the body in chunks of its own choice.     *)
(***************************************************************************)
EXTENDS Integers, Sequences

CONSTANTS
  Radix,            \* 128
  MaxVarintBytes,   \* MAX_VARINT_BYTES
  MaxTop,           \* what the last byte of the longest varint may carry: 1
  MaxBoxFrame,      \* MAX_BOX_FRAME_BYTES
  MaxChunk,         \* MAX_CHUNK_BYTES
  MaxSizeLine,      \* 64
  CR, LF,
  Bodies            \* what a box may have to send: sequences of frames

ASSUME FramingAssumption ==
  /\ {Radix, MaxVarintBytes, MaxTop, MaxBoxFrame, MaxChunk, MaxSizeLine} \subseteq Nat /\ Radix > 1
  /\ {CR, LF} \subseteq 0..(Radix - 1) /\ CR # LF
  /\ Bodies \subseteq Seq(Seq(0..(2 * Radix - 1)))

VARIABLES
  body,         \* the frames of this answer
  chunks,       \* whether it is chunked
  unsent, over, \* bytes of the body the box has not sent; whether it has sent the last chunk
  line,         \* bytes on the way
  where,        \* in Events: "idle", "chunks", "push" or "frames"; or "failed", "ended"
  raw, left, done,    \* Chunked
  decoded,      \* what Chunked::push has decoded so far
  buf, start,   \* FrameReader
  cut,          \* what FrameReader::push has taken so far
  ready,        \* Events::ready
  handed        \* frames next_frame has returned

framingVars ==
  <<body, chunks, unsent, over, line, where, raw, left, done, decoded, buf, start, cut, ready, handed>>

\* write_varint: a byte with the continuation bit for every digit but the last.
WriteVarint(n) ==
  LET bytes[v \in 0..n] == IF v < Radix THEN <<v>> ELSE <<Radix + (v % Radix)>> \o bytes[v \div Radix]
  IN  bytes[n]

\* write_frame.
WriteFrame(m) == WriteVarint(Len(m)) \o m

\* The frames after the first n, as they are written.
WrittenAfter(frames, n) ==
  LET last[k \in 0..Len(frames)] == IF k = 0 THEN <<>> ELSE WriteFrame(frames[Len(frames) - k + 1]) \o last[k - 1]
  IN  last[Len(frames) - n]

\* A length within the limit takes 3 of the 10 bytes a varint may have, a size line fewer
\* than 64; the box keeps its chunks within the limit.
ASSUME LimitsFit ==
  /\ \A n \in 0..MaxBoxFrame : Len(WriteVarint(n)) < MaxVarintBytes
  /\ MaxSizeLine >= 3 /\ MaxChunk >= Radix - 1

FramingInit ==
  /\ body \in Bodies /\ chunks \in BOOLEAN
  /\ unsent = WrittenAfter(body, 0) /\ over = FALSE /\ line = <<>>
  /\ where = "idle" /\ raw = <<>> /\ left = 0 /\ done = FALSE /\ decoded = <<>>
  /\ buf = <<>> /\ start = 0 /\ cut = <<>> /\ ready = <<>> /\ handed = <<>>

Drop(s, n) == SubSeq(s, n + 1, Len(s))

First(s, n) == SubSeq(s, 1, n)

Crlf == <<CR, LF>>

StartsWithCrlf(s) == Len(s) >= 2 /\ First(s, 2) = Crlf

\* find: where the first CRLF starts, counted from 0, or -1.
FindCrlf(s) ==
  LET at == {i \in 0..(Len(s) - 2) : SubSeq(s, i + 1, i + 2) = Crlf}
  IN  IF at = {} THEN -1 ELSE CHOOSE i \in at : \A j \in at : i <= j

\* from_str_radix over a size line, or -1.
SizeOf(text) ==
  LET size[k \in 0..Len(text)] == IF k = 0 THEN 0 ELSE Radix * size[k - 1] + (text[k] - Radix)
  IN  IF text # <<>> /\ \A i \in DOMAIN text : text[i] >= Radix THEN size[Len(text)] ELSE -1

---------------------------------------------------------------------------
\* The box.

BoxSends ==
  \E n \in 1..Len(unsent) :
    /\ n < Radix /\ unsent' = Drop(unsent, n)
    /\ line' = line \o IF chunks THEN <<Radix + n>> \o Crlf \o First(unsent, n) \o Crlf
                                 ELSE First(unsent, n)
    /\ UNCHANGED <<body, chunks, over, where, raw, left, done, decoded, buf, start, cut, ready, handed>>

\* The last chunk has no bytes, and may be told with more zeros than one.
LastChunk == <<Radix, Radix>> \o Crlf \o Crlf

BoxEnds ==
  /\ unsent = <<>> /\ chunks /\ ~over
  /\ over' = TRUE /\ line' = line \o LastChunk
  /\ UNCHANGED <<body, chunks, unsent, where, raw, left, done, decoded, buf, start, cut, ready, handed>>

---------------------------------------------------------------------------
\* next_frame.

PopReady ==
  /\ where = "idle" /\ ready # <<>>
  /\ handed' = Append(handed, Head(ready)) /\ ready' = Tail(ready)
  /\ UNCHANGED <<body, chunks, unsent, over, line, where, raw, left, done, decoded, buf, start, cut>>

BodyEnded ==
  /\ where = "idle" /\ ready = <<>> /\ done
  /\ where' = "ended"
  /\ UNCHANGED <<body, chunks, unsent, over, line, raw, left, done, decoded, buf, start, cut, ready, handed>>

\* read_into and the start of feed: any part of what has arrived.
ReadInto ==
  /\ where = "idle" /\ ready = <<>> /\ ~done
  /\ \E n \in 1..Len(line) :
       /\ line' = Drop(line, n)
       /\ IF chunks THEN raw' = raw \o First(line, n) /\ decoded' = <<>> /\ where' = "chunks"
                    ELSE raw' = raw /\ decoded' = First(line, n) /\ where' = "push"
  /\ UNCHANGED <<body, chunks, unsent, over, left, done, buf, start, cut, ready, handed>>

---------------------------------------------------------------------------
\* Chunked::push, a turn of its loop each.

\* Within a chunk: as much of it as is there.
TakeChunk ==
  /\ where = "chunks" /\ left > 0
  /\ LET take == IF left < Len(raw) THEN left ELSE Len(raw) IN
     /\ decoded' = decoded \o First(raw, take) /\ raw' = Drop(raw, take)
     /\ left' = left - take
     /\ where' = IF left' > 0 THEN "push" ELSE "chunks"
  /\ UNCHANGED <<body, chunks, unsent, over, line, done, buf, start, cut, ready, handed>>

\* Wrong: a CRLF is skipped wherever a turn begins with one.
AtLineEndAnywhere == StartsWithCrlf(raw)

\* Between chunks: the CRLF that ended the last.
AtLineEnd == left = 0 /\ StartsWithCrlf(raw)

SkipCrlf ==
  /\ where = "chunks" /\ AtLineEnd
  /\ raw' = Drop(raw, 2)
  /\ UNCHANGED <<body, chunks, unsent, over, line, where, left, done, decoded, buf, start, cut, ready, handed>>

\* Between chunks: a size line, once all of it is there.
SizeLine ==
  /\ where = "chunks" /\ left = 0 /\ ~AtLineEnd
  /\ LET end == FindCrlf(raw)
         size == SizeOf(First(raw, end))
     IN  IF end = -1
         THEN /\ where' = IF Len(raw) > MaxSizeLine THEN "failed" ELSE "push"
              /\ UNCHANGED <<raw, left, done>>
         ELSE IF size = -1 \/ size > MaxChunk THEN where' = "failed" /\ UNCHANGED <<raw, left, done>>
         ELSE /\ raw' = Drop(raw, end + 2) /\ left' = size /\ done' = (size = 0)
              /\ where' = IF size = 0 THEN "push" ELSE "chunks"
  /\ UNCHANGED <<body, chunks, unsent, over, line, decoded, buf, start, cut, ready, handed>>

---------------------------------------------------------------------------
\* FrameReader::push.

\* Wrong: what was handed out is dropped and still counted.
CompactedTwice == IF start > 0 /\ 2 * start >= Len(buf) THEN <<Drop(buf, start), start>> ELSE <<buf, start>>

\* What was handed out goes once it is half of what is held.
Compacted == IF start > 0 /\ 2 * start >= Len(buf) THEN <<Drop(buf, start), 0>> ELSE <<buf, start>>

\* The rest of feed: no call with nothing decoded.
PushFrames ==
  /\ where = "push"
  /\ IF decoded = <<>> THEN where' = "idle" /\ UNCHANGED <<buf, start, cut>>
     ELSE /\ buf' = Compacted[1] \o decoded /\ start' = Compacted[2]
          /\ cut' = <<>> /\ where' = "frames"
  /\ UNCHANGED <<body, chunks, unsent, over, line, raw, left, done, decoded, ready, handed>>

\* What the first n bytes carry, the lowest digit first.
VarintValue(s, n) ==
  LET value[k \in 0..n] == IF k = 0 THEN 0 ELSE Radix * value[k - 1] + (s[n - k + 1] % Radix)
  IN  value[n]

\* read_varint: its value and the bytes it took; "more" if it is not whole yet, "long" if it
\* is longer than a varint may be or carries more than its last byte may.
ReadVarint(s) ==
  LET ends == {i \in DOMAIN s : s[i] < Radix}
      n == CHOOSE i \in ends : \A j \in ends : i <= j
      last == MaxVarintBytes
  IN  IF Len(s) >= last /\ (s[last] % Radix > MaxTop \/ s[last] >= Radix) /\ (ends = {} \/ n >= last)
      THEN [is |-> "long"]
      ELSE IF ends = {} THEN [is |-> "more"]
      ELSE [is |-> "whole", head |-> n, value |-> VarintValue(s, n)]

\* A turn of the loop: one more frame; or there is no whole one; or push fails, and what it
\* had taken is lost with the reader.
NextFrame ==
  /\ where = "frames"
  /\ LET rest == Drop(buf, start)
         v == ReadVarint(rest)
     IN  IF v.is = "long" THEN where' = "failed" /\ UNCHANGED <<start, cut, ready>>
         ELSE IF v.is = "more" THEN where' = "idle" /\ ready' = ready \o cut /\ UNCHANGED <<start, cut>>
         ELSE IF v.value > MaxBoxFrame THEN where' = "failed" /\ UNCHANGED <<start, cut, ready>>
         ELSE IF Len(rest) < v.head + v.value
              THEN where' = "idle" /\ ready' = ready \o cut /\ UNCHANGED <<start, cut>>
         ELSE /\ cut' = Append(cut, SubSeq(rest, v.head + 1, v.head + v.value))
              /\ start' = start + v.head + v.value
              /\ UNCHANGED <<where, ready>>
  /\ UNCHANGED <<body, chunks, unsent, over, line, raw, left, done, decoded, buf, handed>>

FramingNext ==
  \/ BoxSends \/ BoxEnds
  \/ PopReady \/ BodyEnded \/ ReadInto
  \/ TakeChunk \/ SkipCrlf \/ SizeLine
  \/ PushFrames \/ NextFrame

FramingSpec == FramingInit /\ [][FramingNext]_framingVars

---------------------------------------------------------------------------
\* How many frames of the body the box has sent to their last byte.
WhollySent ==
  LET whole == {n \in 0..Len(body) : Len(unsent) <= Len(WrittenAfter(body, n))}
  IN  CHOOSE n \in whole : \A m \in whole : m <= n

\* Wherever reads and chunks are cut, and whatever bytes the frames hold, next_frame
\* returns the box's frames, whole and in order; when all that was sent is read, every
\* whole frame is out and none is held back; and only a frame over the limit fails an
\* answer, before which nothing but its own read's frames is lost.
FramesIntact ==
  LET found == handed \o ready IN
  /\ \E n \in 0..Len(body) : found = First(body, n)
  /\ where = "idle" /\ line = <<>> => Len(found) = WhollySent
  /\ where = "ended" => found = body
  /\ where = "failed" => \E i \in DOMAIN body : Len(body[i]) > MaxBoxFrame /\ Len(found) < i
=============================================================================
