--------------------------- MODULE DeliveryProofs ---------------------------
(***************************************************************************)
(* What a subscriber is sent, for every number of accounts, principals,    *)
(* channels and keys and for all limits: its queue is in order and is what *)
(* its counters say, what it is told of who is online is so, nothing it    *)
(* was to be sent goes missing unaccounted for, and no plain frame goes    *)
(* missing at all.                                                         *)
(***************************************************************************)
EXTENDS RelayProofs

-----------------------------------------------------------------------------
\* What a publish does to the head of every ring.

\* The same stream, however much of it is retained.
SameHead(r, s) == r.seq = s.seq /\ r.epoch = s.epoch /\ r.kind = s.kind

\* Every entry of r is one of s, or is the new one.
EntriesFrom(r, s) == \A i \in DOMAIN r.entries : \E j \in DOMAIN s.entries : r.entries[i] = s.entries[j]
NewOrFrom(r, s, new) ==
  \A i \in DOMAIN r.entries : r.entries[i] = new \/ \E j \in DOMAIN s.entries : r.entries[i] = s.entries[j]

LEMMA PublishHeads ==
  ASSUME IInv, NEW c, NEW k \in Streams, NEW kind \in Published, NEW key \in Keys \cup {NoKey},
         NEW victim \in Evictable(k), PublishTo(c, k, kind, key, victim)
  PROVE  /\ SameHead(ring'[k], NewerRing(k, kind, key)) /\ ring'[k] # NoRing
         /\ NewOrFrom(ring'[k], ring[k], [seq |-> ring[k].seq + 1, key |-> key])
         /\ \A j \in Streams \ {k, victim} :
              SameHead(ring'[j], ring[j]) /\ (ring'[j] = NoRing <=> ring[j] = NoRing)
              /\ EntriesFrom(ring'[j], ring[j])
<1> DEFINE new   == NewerRing(k, kind, key)
           entry == [seq |-> ring[k].seq + 1, key |-> key]
           rings == RingsAfter(k, kind, key, victim)
           frames == FramesAfter(k, kind, key, victim)
<1>1. TypeOK BY DEF IInv
<1>2. victim # k /\ RingsWithout(victim) \in [Streams -> Rings \cup {NoRing}] BY <1>1, EvictableParts
<1>3. rings \in [Streams -> Rings \cup {NoRing}] BY PublishToParts, Zenon
<1>4. Settled(k[1], rings, frames) BY PublishToParts, Zenon
<1>5. ring[k] \in Rings \cup {NoRing} /\ ring[k].entries \in Seq(Entries)
  <2>1. ring[k] \in Rings \cup {NoRing} BY <1>1 DEF TypeOK
  <2> QED BY <2>1, RingOrNone
<1>6. NewOrFrom(new, ring[k], entry)
  <2>1. \/ new.entries = ring[k].entries
        \/ new.entries = Append(ring[k].entries, entry)
        \/ new.entries = Tail(Append(ring[k].entries, entry))
    BY <1>1, NewerRingParts
  <2>2. entry \in Entries BY <1>5, RingOrNone DEF Entries
  <2> DEFINE a == Append(ring[k].entries, entry)
  <2> HIDE DEF entry, new
  <2>3. /\ Len(ring[k].entries) \in Nat /\ DOMAIN ring[k].entries = 1..Len(ring[k].entries)
        /\ a \in Seq(Entries) /\ Len(a) = Len(ring[k].entries) + 1 /\ DOMAIN a = 1..Len(a)
        /\ \A i \in 1..Len(a) : a[i] = IF i = Len(a) THEN entry ELSE ring[k].entries[i]
    BY <1>5, <2>2
  <2> HIDE DEF a
  <2>4. \A i \in DOMAIN a : a[i] = entry \/ \E j \in DOMAIN ring[k].entries : a[i] = ring[k].entries[j]
    BY <2>3
  <2>5. DOMAIN Tail(a) = 1..(Len(a) - 1) /\ \A i \in 1..(Len(a) - 1) : Tail(a)[i] = a[i + 1] /\ i + 1 \in DOMAIN a
    BY <2>3
  <2> QED BY <2>1, <2>4, <2>5 DEF NewOrFrom, a
<1>7. rings = [RingsWithout(victim) EXCEPT ![k] = new] BY DEF RingsAfter
<1>8. \A j \in Streams : RingsWithout(victim)[j] = IF j = victim THEN NoRing ELSE ring[j] BY DEF RingsWithout
<1>9. /\ ring'[k] # NoRing
      /\ \A j \in Streams \ {k, victim} : ring'[j] = NoRing <=> ring[j] = NoRing
  BY PublishHolds
<1> HIDE DEF new, rings, frames, entry
<1>10. \A j \in Streams \ {k, victim} : rings[j] = ring[j] BY <1>2, <1>7, <1>8
<1>11. rings[k] = new BY <1>2, <1>7
<1>12. \A j \in Streams : SameHead(ring'[j], rings[j]) /\ EntriesFrom(ring'[j], rings[j])
  <2>1. CASE ring' = rings BY <2>1 DEF SameHead, EntriesFrom
  <2>2. ASSUME NEW r \in Streams, rings[r].entries # <<>>, ring' = [rings EXCEPT ![r] = EvictOldest(@)]
        PROVE  \A j \in Streams : SameHead(ring'[j], rings[j]) /\ EntriesFrom(ring'[j], rings[j])
    <3> SUFFICES ASSUME NEW j \in Streams PROVE SameHead(ring'[j], rings[j]) /\ EntriesFrom(ring'[j], rings[j])
      OBVIOUS
    <3>1. CASE j # r
      <4>1. ring'[j] = rings[j] BY <1>3, <2>2, <3>1
      <4> QED BY <4>1 DEF SameHead, EntriesFrom
    <3>2. CASE j = r
      <4>1. ring'[j] = EvictOldest(rings[r]) BY <1>3, <2>2, <3>2
      <4>2. /\ EvictOldest(rings[r]).seq = rings[r].seq /\ EvictOldest(rings[r]).epoch = rings[r].epoch
            /\ EvictOldest(rings[r]).kind = rings[r].kind /\ EvictOldest(rings[r]).entries = Tail(rings[r].entries)
        BY <1>3, <2>2, EvictOldestParts
      <4>3. rings[r].entries \in Seq(Entries) BY <1>3, RingOrNone
      <4>4. \A i \in DOMAIN Tail(rings[r].entries) :
              i + 1 \in DOMAIN rings[r].entries /\ Tail(rings[r].entries)[i] = rings[r].entries[i + 1]
        BY <2>2, <4>3
      <4> QED BY <3>2, <4>1, <4>2, <4>4 DEF SameHead, EntriesFrom
    <3> QED BY <3>1, <3>2
  <2> QED BY <1>4, <2>1, <2>2 DEF Settled
<1>13. NewOrFrom(ring'[k], ring[k], entry)
  BY <1>6, <1>11, <1>12 DEF EntriesFrom, NewOrFrom
<1> QED BY <1>9, <1>10, <1>11, <1>12, <1>13 DEF new, entry

\* The newer ring is at the next seq, of the kind published, and in its own epoch.
LEMMA NewerHead ==
  ASSUME TypeOK, NEW k \in Streams, NEW kind \in Published, NEW key \in Keys \cup {NoKey},
         ring[k] = NoRing \/ ring[k].kind = kind
  PROVE  /\ NewerRing(k, kind, key).seq = ring[k].seq + 1 /\ NewerRing(k, kind, key).kind = kind
         /\ ring[k] # NoRing => NewerRing(k, kind, key).epoch = ring[k].epoch
         /\ NewerRing(k, kind, key) \in Rings
<1>1. /\ NewerRing(k, kind, key).seq = ring[k].seq + 1 /\ NewerRing(k, kind, key).kind = OldRing(k, kind).kind
      /\ NewerRing(k, kind, key).epoch = OldRing(k, kind).epoch /\ NewerRing(k, kind, key) \in Rings
  BY NewerRingParts
<1>2. OldRing(k, kind).kind = kind BY DEF OldRing, NewRing
<1>3. ring[k] # NoRing => OldRing(k, kind) = ring[k] BY DEF OldRing
<1> QED BY <1>1, <1>2, <1>3

-----------------------------------------------------------------------------
\* What a backfill sends.

\* Retaining the end of a sequence.
EndOf(s, t, m) == Len(t) = Len(s) - m /\ \A j \in 1..(Len(s) - m) : t[j] = s[m + j]

LEMMA AtTheEnd ==
  ASSUME NEW S, NEW s \in Seq(S), NEW m \in 0..Len(s), NEW I, I = (m + 1)..Len(s)
  PROVE  AtIndices(s, I) \in Seq(S) /\ EndOf(s, AtIndices(s, I), m)
<1>1. Len(s) \in Nat /\ m \in Nat /\ m <= Len(s) /\ I \in SUBSET DOMAIN s OBVIOUS
<1>2. Cardinality(I) = Len(s) - m
  <2>1. m + 1 \in Int /\ Len(s) \in Int BY <1>1
  <2>2. Cardinality((m + 1)..Len(s)) = IF m + 1 > Len(s) THEN 0 ELSE Len(s) - (m + 1) + 1
    BY ONLY <2>1, FS_Interval
  <2> QED BY <1>1, <2>2
<1>3. AtIndices(s, I) \in Seq(S) BY <1>1, AtIndicesIsSeq
<1>4. AtIndices(s, I) = [j \in 1..Cardinality(I) |-> s[CHOOSE i \in I : Cardinality({x \in I : x <= i}) = j]]
  BY DEF AtIndices
<1>5. ASSUME NEW i \in I PROVE Cardinality({x \in I : x <= i}) = i - m
  <2>1. m + 1 \in Int /\ i \in Int /\ m + 1 <= i BY <1>1
  <2>2. {x \in I : x <= i} = (m + 1)..i BY <1>1
  <2>3. Cardinality((m + 1)..i) = IF m + 1 > i THEN 0 ELSE i - (m + 1) + 1 BY ONLY <2>1, FS_Interval
  <2>4. Cardinality((m + 1)..i) = i - m BY <1>1, <2>1, <2>3
  <2> QED BY <2>2, <2>4, Zenon
<1>6. ASSUME NEW j \in 1..(Len(s) - m) PROVE AtIndices(s, I)[j] = s[m + j]
  <2> DEFINE P(i) == Cardinality({x \in I : x <= i}) = j
  <2>1. m + j \in I /\ \A i \in I : i - m = j <=> i = m + j BY <1>1
  <2>2. \A i \in I : P(i) <=> i = m + j BY <1>5, <2>1
  <2> HIDE DEF P
  <2>3. (CHOOSE i \in I : P(i)) = m + j BY <2>1, <2>2
  <2> QED BY <1>2, <1>4, <2>3 DEF P
<1>7. DOMAIN AtIndices(s, I) = 1..(Len(s) - m) BY <1>2, <1>4
<1>8. Len(AtIndices(s, I)) = Len(s) - m BY <1>1, <1>3, <1>7
<1> QED BY <1>3, <1>6, <1>8 DEF EndOf

\* A backfill is the end of the stream past the cursor, unbroken.
LEMMA BackfillTail ==
  ASSUME NEW r \in Rings \cup {NoRing}, Consecutive(r), Len(r.entries) <= r.seq, NEW since, since.seq \in Nat,
         r # NoRing /\ since.given /\ since.epoch = r.epoch => since.seq <= r.seq
  PROVE  /\ BackfillEntries(r, since) \in Seq(Entries) /\ Len(BackfillEntries(r, since)) <= r.seq
         /\ CursorAfter(r, since) = r.seq - Len(BackfillEntries(r, since))
         /\ \A i \in 1..Len(BackfillEntries(r, since)) :
              /\ BackfillEntries(r, since)[i].seq = r.seq - Len(BackfillEntries(r, since)) + i
              /\ \E j \in DOMAIN r.entries : BackfillEntries(r, since)[i] = r.entries[j]
<1> DEFINE b == BackfillEntries(r, since)
           n == Len(r.entries)
           base == r.seq - n
           a == After(r, since)
           I == {i \in DOMAIN r.entries : r.entries[i].seq > a}
           m == IF a <= base THEN 0 ELSE a - base
<1>1. r.entries \in Seq(Entries) /\ n \in Nat /\ r.seq \in Nat /\ DOMAIN r.entries = 1..n BY RingOrNone
<1>2. base \in Nat /\ r.seq = base + n BY <1>1
<1>3. \A i \in 1..n : r.entries[i].seq = base + i BY <1>1 DEF Consecutive
<1>4. b = AtIndices(r.entries, I) BY DEF BackfillEntries
<1>5. CASE r = NoRing
  <2>1. n = 0 /\ r.seq = 0 BY <1>5 DEF NoRing
  <2>2. b = <<>> BY <1>5, BackfillType
  <2>3. CursorAfter(r, since) = 0 BY <1>5 DEF CursorAfter
  <2>4. b \in Seq(Entries) BY BackfillType
  <2> HIDE DEF b
  <2>5. Len(b) = 0 /\ 1..0 = {} BY <2>2
  <2>6. /\ Len(b) <= r.seq /\ CursorAfter(r, since) = r.seq - Len(b) /\ 1..Len(b) = {}
    BY <2>1, <2>3, <2>5
  <2> QED BY <2>4, <2>6 DEF b
<1>6. CASE r # NoRing
  <2>1. a \in Nat /\ a <= r.seq BY <1>1, <1>6 DEF After
  <2>2. m \in 0..n BY <1>1, <1>2, <2>1
  <2>3. I = (m + 1)..n
    <3> HIDE DEF base, a, n
    <3>1. \A i \in 1..n : i \in I <=> base + i > a BY <1>1, <1>3
    <3>2. \A i \in 1..n : base + i > a <=> m + 1 <= i BY <1>1, <1>2, <2>1
    <3>3. \A i \in I : i \in 1..n BY <1>1
    <3>4. \A i \in (m + 1)..n : i \in 1..n BY <1>1, <2>2
    <3>5. \A i : i \in I <=> i \in (m + 1)..n
      <4> HIDE DEF I
      <4> QED BY <1>1, <2>2, <3>1, <3>2, <3>3, <3>4
    <3> HIDE DEF I
    <3> QED BY <3>5
  <2> HIDE DEF I
  <2>4. /\ AtIndices(r.entries, I) \in Seq(Entries) /\ Len(AtIndices(r.entries, I)) = n - m
        /\ \A j \in 1..(n - m) : AtIndices(r.entries, I)[j] = r.entries[m + j]
    <3> DEFINE s == r.entries
    <3>1. s \in Seq(Entries) /\ m \in 0..Len(s) /\ I = (m + 1)..Len(s) BY <1>1, <2>2, <2>3
    <3> HIDE DEF m, s
    <3>2. AtIndices(s, I) \in Seq(Entries) /\ EndOf(s, AtIndices(s, I), m) BY <3>1, AtTheEnd
    <3> QED BY <3>2 DEF s, EndOf
  <2>5. b \in Seq(Entries) /\ Len(b) = n - m /\ \A j \in 1..(n - m) : b[j] = r.entries[m + j]
    BY <1>4, <2>4
  <2>6. FirstRetained(r) = base + 1
    <3>1. CASE r.entries = <<>> BY <1>1, <3>1 DEF FirstRetained
    <3>2. CASE r.entries # <<>>
      <4>1. 1 \in 1..n BY <1>1, <3>2
      <4> QED BY <1>3, <3>2, <4>1 DEF FirstRetained
    <3> QED BY <3>1, <3>2
  <2>7. CursorAfter(r, since) = base + m
    <3>1. CASE Truncated(r, since)
      <4>1. base + 1 > a + 1 \/ (since.given /\ since.epoch # r.epoch) BY <1>6, <2>6, <3>1 DEF Truncated
      <4>2. since.epoch # r.epoch => a = 0 BY DEF After
      <4>3. a <= base BY <1>2, <2>1, <4>1, <4>2
      <4>4. CursorAfter(r, since) = FirstRetained(r) - 1 BY <1>6, <3>1 DEF CursorAfter
      <4> QED BY <1>2, <2>6, <4>3, <4>4
    <3>2. CASE ~Truncated(r, since)
      <4>1. ~(base + 1 > a + 1) BY <1>6, <2>6, <3>2 DEF Truncated
      <4>2. CursorAfter(r, since) = a BY <1>6, <3>2 DEF CursorAfter
      <4> HIDE DEF a, base
      <4> QED BY <1>2, <2>1, <4>1, <4>2
    <3> QED BY <3>1, <3>2
  <2> HIDE DEF b, m, base, n, a
  <2>8. \A j \in 1..Len(b) : b[j] = r.entries[m + j] /\ m + j \in 1..n /\ base + (m + j) = r.seq - Len(b) + j
    <3> SUFFICES ASSUME NEW j \in 1..Len(b)
                 PROVE  b[j] = r.entries[m + j] /\ m + j \in 1..n /\ base + (m + j) = r.seq - Len(b) + j
      OBVIOUS
    <3>1. j \in 1..(n - m) BY <2>5
    <3>2. b[j] = r.entries[m + j] BY <2>5, <3>1
    <3>3. m + j \in 1..n BY <1>1, <2>2, <3>1
    <3>4. base + (m + j) = (base + n) - (n - m) + j BY <1>1, <1>2, <2>2, <3>1
    <3> QED BY <1>2, <2>5, <3>2, <3>3, <3>4
  <2>9. base + m = r.seq - Len(b) /\ Len(b) <= r.seq BY <1>1, <1>2, <2>2, <2>5
  <2>10. \A j \in 1..Len(b) : b[j].seq = r.seq - Len(b) + j /\ \E i \in DOMAIN r.entries : b[j] = r.entries[i]
    BY <1>1, <1>3, <2>8
  <2> QED BY <2>5, <2>7, <2>9, <2>10 DEF b
<1> QED BY <1>5, <1>6

-----------------------------------------------------------------------------
\* The invariant.

\* A ring remembers the key of each envelope, and has an epoch of its own.
Keyed(r, keys) ==
  /\ r.epoch # 0 /\ Len(keys) = r.seq
  /\ \A i \in DOMAIN r.entries : r.entries[i].key = keys[r.entries[i].seq]

RingsKeyed == \A k \in Streams : ring[k] # NoRing => Keyed(ring[k], published[k])

\* A backfill has left the end of the stream.
TailLeft(r, s, from, keys) ==
  /\ Len(s) <= r.seq /\ from <= r.seq - Len(s)
  /\ \A i \in 1..Len(s) : s[i].seq = r.seq - Len(s) + i /\ s[i].key = keys[s[i].seq]

FillIsTail ==
  filling # NoFill =>
    LET k == filling.stream IN
    closing = {} /\ TailLeft(ring[k], filling.rest, cursor[filling.conn][k], published[k])

\* The envelopes that may be queued for c: of a subscribed stream as it is now, past
\* what was delivered and before what its backfill has left.
DueTo(c) ==
  {x \in Item :
     /\ x.kind \in Published /\ x.stream \in subs[c]
     /\ x.epoch = ring[x.stream].epoch /\ x.kind = ring[x.stream].kind
     /\ cursor[c][x.stream] < x.seq /\ x.seq <= ring[x.stream].seq
     /\ x.key = published[x.stream][x.seq]
     /\ \A n \in FillSeqs(c, x.stream) : x.seq < n}

\* A queue that is what its counters say, in order, with envelopes of W only.
Serves(q, W) ==
  /\ Bounded(q) /\ Ordered(q)
  /\ \A x \in Queued(q) : x.kind \in Published => x \in W

CursorsWithin(c) == \A k \in subs[c] : cursor[c][k] <= ring[k].seq

Served(c) ==
  /\ Serves(out[c], DueTo(c)) /\ CursorsWithin(c)
  /\ c \notin closing => out[c].frames <= QueueFrames

DeliveryInv ==
  /\ KeepInv /\ RingsKeyed /\ FillIsTail
  /\ \A c \in conns : Served(c)

\* What each queue operation does to Serves.
LEMMA ServesMore ==
  ASSUME NEW q, NEW W, NEW V, Serves(q, W), W \subseteq V
  PROVE  Serves(q, V)
BY DEF Serves

LEMMA PushServes ==
  ASSUME NEW q \in Queues, NEW W, Serves(q, W), NEW it \in Item,
         it.kind \in Published => it \in W /\ \A x \in Queued(q) : x.stream = it.stream => x.seq < it.seq
  PROVE  Serves(Push(q, it), W)
<1>1. Bounded(Push(q, it)) BY PushBounded DEF Serves
<1>2. Queued(Push(q, it)) \subseteq Queued(q) \cup {it} BY PushOrder
<1>3. Ordered(Push(q, it)) BY PushOrder DEF Serves
<1> QED BY <1>1, <1>2, <1>3 DEF Serves

LEMMA PushPlainServes ==
  ASSUME NEW q \in Queues, NEW W, Serves(q, W), NEW it \in Item, it.kind \in Plain
  PROVE  Serves(Push(q, it), W)
<1>1. it.kind \notin Published BY DEF Published, Plain
<1> QED BY <1>1, PushServes

\* An envelope not of stream k is still due when only k is purged.
LEMMA PurgeServes ==
  ASSUME NEW q \in Queues, NEW W, NEW V, Serves(q, W), NEW k \in Streams, {x \in W : x.stream # k} \subseteq V
  PROVE  Serves(PurgeStream(q, k), V) /\ PurgeStream(q, k).frames <= q.frames
<1>1. Bounded(PurgeStream(q, k)) /\ PurgeStream(q, k).frames <= q.frames BY PurgeBounded DEF Serves
<1>2. Queued(PurgeStream(q, k)) = {x \in Queued(q) : x.stream # k} BY PurgeOrder
<1>3. Ordered(PurgeStream(q, k)) BY PurgeOrder DEF Serves
<1> QED BY <1>1, <1>2, <1>3 DEF Serves

LEMMA EmptyServes ==
  ASSUME NEW W
  PROVE  Serves(EmptyQueue, W) /\ EmptyQueue.frames = 0 /\ Queued(EmptyQueue) = {}
<1>1. /\ EmptyQueue.items = <<>> /\ EmptyQueue.frames = 0 /\ EmptyQueue.session = 0 /\ EmptyQueue.telemetry = 0
  BY DEF EmptyQueue
<1>2. DOMAIN EmptyQueue.items = {} /\ Len(EmptyQueue.items) = 0 BY <1>1
<1>3. \A kind : IndicesOf(EmptyQueue, kind) = {} BY <1>2 DEF IndicesOf
<1>4. Counted(EmptyQueue) BY <1>1, <1>2, <1>3, FS_EmptySet DEF Counted
<1>5. Bounded(EmptyQueue) BY <1>1, <1>4, LimitsAreNaturals DEF Bounded, TelemetryBound
<1>6. Queued(EmptyQueue) = {} BY <1>2 DEF Queued
<1>7. Ordered(EmptyQueue) BY <1>2 DEF Ordered
<1> QED BY <1>1, <1>5, <1>6, <1>7 DEF Serves

-----------------------------------------------------------------------------
\* Steps that publish nothing.

LEMMA StillDue ==
  ASSUME NEW c, subs'[c] = subs[c], cursor'[c] = cursor[c],
         \A k \in subs[c] : ring'[k] = ring[k] /\ published'[k] = published[k] /\ FillSeqs(c, k)' \subseteq FillSeqs(c, k)
  PROVE  DueTo(c) \subseteq DueTo(c)' /\ (CursorsWithin(c) => CursorsWithin(c)')
<1>1. CursorsWithin(c) => CursorsWithin(c)' BY DEF CursorsWithin
<1>2. ASSUME NEW x \in DueTo(c) PROVE x \in DueTo(c)'
  <2>1. x.stream \in subs[c] BY DEF DueTo
  <2>2. /\ ring'[x.stream] = ring[x.stream] /\ published'[x.stream] = published[x.stream]
        /\ FillSeqs(c, x.stream)' \subseteq FillSeqs(c, x.stream)
    BY <2>1
  <2> QED BY <2>1, <2>2 DEF DueTo
<1> QED BY <1>1, <1>2

\* What a delivery means to one connection.
LEMMA Delivered ==
  ASSUME NEW q, NEW D, NEW it, NEW fresh, NEW gone, Deliver(q, D, it, fresh, gone), NEW c \in Conns, c \notin gone
  PROVE  /\ out'[c] = IF c \in D THEN Push(q[c], it) ELSE q[c]
         /\ c \notin closing' => c \notin closing /\ (c \in D => Takes(q[c], it))
BY DEF Deliver

LEMMA PlainServed ==
  ASSUME TypeOK, NEW c \in conns, Served(c), NEW q, q[c] = out[c], NEW D, NEW it \in Item, it.kind \in Plain,
         NEW fresh, NEW gone, Deliver(q, D, it, fresh, gone), c \notin gone,
         DueTo(c) \subseteq DueTo(c)', CursorsWithin(c) => CursorsWithin(c)'
  PROVE  Served(c)'
<1>1. c \in Conns /\ out[c] \in Queues BY DEF TypeOK
<1>2. /\ out'[c] = IF c \in D THEN Push(out[c], it) ELSE out[c]
      /\ c \notin closing' => c \notin closing /\ (c \in D => Takes(out[c], it))
  BY <1>1, Delivered
<1>3. Serves(out[c], DueTo(c)') BY ServesMore DEF Served
<1>4. Serves(Push(out[c], it), DueTo(c)') BY <1>1, <1>3, PushPlainServes
<1>5. Serves(out'[c], DueTo(c)') BY <1>2, <1>3, <1>4
<1>6. c \notin closing' => out'[c].frames <= QueueFrames BY <1>2 DEF Served, Takes
<1> QED BY <1>5, <1>6 DEF Served

\* One frame for one connection, and nothing else but perhaps the end of a backfill.
LEMMA EnqueueServed ==
  ASSUME IInv, NEW d \in conns, NEW kind \in Plain, NEW p \in Principals, Enqueue(d, kind, p),
         UNCHANGED <<conns, subs, cursor, ring, published>>, filling' = filling \/ filling' = NoFill,
         NEW c \in conns, Served(c)
  PROVE  Served(c)'
<1>1. TypeOK /\ c \in Conns BY DEF IInv, TypeOK
<1>2. Deliver(out, {d}, Frame(kind, p), {}, {}) BY DEF Enqueue
<1>3. Frame(kind, p) \in Item /\ Frame(kind, p).kind = kind BY FrameIsItem DEF Frame
<1>4. \A k : FillSeqs(c, k)' \subseteq FillSeqs(c, k)
  <2>1. filling' = NoFill => \A k : FillSeqs(c, k)' = {}
    BY <1>1 DEF FillSeqs, NoFill, NoConn, Conns
  <2> QED BY <2>1 DEF FillSeqs
<1>5. DueTo(c) \subseteq DueTo(c)' /\ (CursorsWithin(c) => CursorsWithin(c)') BY <1>4, StillDue
<1> QED BY <1>1, <1>2, <1>3, <1>5, PlainServed

LEMMA AnswerServed ==
  ASSUME IInv, NEW d \in Conns, Answer(d), NEW c \in conns, Served(c)
  PROVE  Served(c)'
<1>1. d \in conns /\ Enqueue(d, "answer", PrincipalOf(d)) BY DEF Answer
<1>2. UNCHANGED <<conns, subs, cursor, ring, published, filling>> BY DEF Answer, connVars, streamVars
<1>3. PrincipalOf(d) \in Principals BY <1>1, PeerParts DEF IInv
<1> QED BY <1>1, <1>2, <1>3, EnqueueServed DEF Plain

LEMMA OffendServed ==
  ASSUME IInv, NEW d \in Conns, Offend(d), NEW c \in conns, Served(c)
  PROVE  Served(c)'
<1>1. closing' = closing \cup {d} /\ UNCHANGED <<conns, out, subs, cursor, ring, published, filling>>
  BY DEF Offend, CloseConn, connVars, streamVars
<1>2. \A k : FillSeqs(c, k)' = FillSeqs(c, k) BY <1>1 DEF FillSeqs
<1>3. DueTo(c) \subseteq DueTo(c)' /\ (CursorsWithin(c) => CursorsWithin(c)') BY <1>1, <1>2, StillDue
<1>4. Serves(out'[c], DueTo(c)') BY <1>1, <1>3, ServesMore DEF Served
<1> QED BY <1>1, <1>3, <1>4 DEF Served

\* A direct message, and the error when its recipient cannot take it: both, to one
\* connection, when that is the sender.
LEMMA DirectServed ==
  ASSUME IInv, NEW d \in Conns, NEW p \in Principals, Direct(d, p), NEW c \in conns, Served(c)
  PROVE  Served(c)'
<1> DEFINE target == online[<<AccountOf(d), p>>]
           it     == Frame("direct", PrincipalOf(d))
           answer == Frame("answer", PrincipalOf(d))
           after  == [out EXCEPT ![target] = Push(@, it)]
           told   == IF Takes(after[d], answer) THEN {d} ELSE {}
<1>1. TypeOK /\ c \in Conns /\ d \in conns /\ closing = {} BY DEF IInv, TypeOK, Direct, Idle
<1>2. UNCHANGED <<conns, subs, cursor, ring, published, filling>> BY DEF Direct, connVars, streamVars
<1>3. PrincipalOf(d) \in Principals /\ AccountOf(d) \in Accounts BY <1>1, PeerParts
<1>4. it \in Item /\ answer \in Item /\ it.kind \in Plain /\ answer.kind \in Plain
  BY <1>3, FrameIsItem DEF Plain, Frame
<1>5. \A k : FillSeqs(c, k)' = FillSeqs(c, k) BY <1>2 DEF FillSeqs
<1>6. DueTo(c) \subseteq DueTo(c)' /\ (CursorsWithin(c) => CursorsWithin(c)') BY <1>2, <1>5, StillDue
<1>7. \/ target = NoConn /\ Deliver(out, {d}, answer, {}, {})
      \/ target # NoConn /\ Deliver(out, {target}, it, {}, {})
      \/ /\ target # NoConn /\ ~Takes(out[target], it)
         /\ out' = [after EXCEPT ![d] = Push(@, answer)]
         /\ closing' = {target} \cup ({d} \ told)
  BY DEF Direct
<1>8. target # NoConn => target \in Conns BY <1>1, <1>3 DEF TypeOK
<1> HIDE DEF it, answer, target
<1>9. CASE \E D, f : f \in {it, answer} /\ Deliver(out, D, f, {}, {})
  <2>1. PICK D, f : f \in {it, answer} /\ Deliver(out, D, f, {}, {}) BY <1>9
  <2>2. f \in Item /\ f.kind \in Plain BY <1>4, <2>1
  <2> QED BY <1>1, <1>6, <2>1, <2>2, PlainServed
<1>10. CASE /\ target # NoConn /\ ~Takes(out[target], it)
            /\ out' = [after EXCEPT ![d] = Push(@, answer)]
            /\ closing' = {target} \cup ({d} \ told)
  <2>1. out \in [Conns -> Queues] /\ target \in Conns BY <1>1, <1>8, <1>10 DEF TypeOK
  <2>2. Push(out[target], it) \in Queues BY <1>4, <2>1, PushType
  <2>3. after \in [Conns -> Queues] BY <2>1, <2>2
  <2>4. Serves(out[c], DueTo(c)') BY <1>6, ServesMore DEF Served
  <2>5. Serves(after[c], DueTo(c)')
    <3>1. CASE c = target
      <4>1. Serves(Push(out[c], it), DueTo(c)') BY <1>1, <1>4, <2>1, <2>4, PushPlainServes
      <4> QED BY <2>1, <3>1, <4>1
    <3>2. CASE c # target BY <1>1, <2>1, <2>4, <3>2
    <3> QED BY <3>1, <3>2
  <2>6. out'[c] = IF c = d THEN Push(after[c], answer) ELSE after[c] BY <1>1, <1>10, <2>3
  <2>7. c \notin closing' => c # target /\ (c = d => Takes(after[c], answer)) BY <1>10
  <2>8. c # target => after[c] = out[c] BY <1>1, <2>1
  <2> HIDE DEF after, told
  <2>9. Serves(Push(after[c], answer), DueTo(c)') BY <1>1, <1>4, <2>3, <2>5, PushPlainServes
  <2>10. Serves(out'[c], DueTo(c)') BY <2>5, <2>6, <2>9
  <2>11. c \notin closing' => out'[c].frames <= QueueFrames
    BY <1>1, <2>6, <2>7, <2>8 DEF Takes, Served
  <2> QED BY <1>6, <2>10, <2>11 DEF Served
<1> QED BY <1>7, <1>9, <1>10

\* The queue of a newcomer: the welcome, then everyone online.
LEMMA WelcomeParts ==
  ASSUME NEW p \in Principals, NEW S \in SUBSET Principals, NEW order \in Orders(S)
  PROVE  LET q == WelcomeQueue(p, order) IN
         /\ Len(q.items) = 1 + Cardinality(S) /\ DOMAIN q.items = 1..(1 + Cardinality(S)) /\ Cardinality(S) \in Nat
         /\ q.items[1] = Frame("welcome", p)
         /\ \A i \in 1..Cardinality(S) : q.items[i + 1] = Frame("online", order[i])
         /\ q.frames = 1 + Cardinality(S) /\ q.session = 0 /\ q.telemetry = 0
         /\ q.dropped = [k \in Streams |-> 0]
         /\ \A i \in DOMAIN q.items : q.items[i].kind \in Plain
<1> DEFINE names == [i \in DOMAIN order |-> Frame("online", order[i])]
           head  == <<Frame("welcome", p)>>
           items == head \o names
           q == WelcomeQueue(p, order)
           n == 1 + Len(order)
<1>1. Cardinality(S) \in Nat
  <2>1. IsFiniteSet(S) BY FinitelyMany, FS_Subset
  <2> QED BY <2>1, FS_CardinalityType
<1>2. order \in [1..Cardinality(S) -> S] BY DEF Orders
<1>3. order \in Seq(Principals) /\ Len(order) = Cardinality(S) /\ DOMAIN order = 1..Cardinality(S) BY <1>1, <1>2
<1>4. \A i \in 1..Cardinality(S) : names[i] = Frame("online", order[i]) /\ Frame("online", order[i]) \in Item
  BY <1>2, <1>3, FrameIsItem DEF Plain
<1>5. names \in Seq(Item) /\ Len(names) = Cardinality(S) BY <1>1, <1>3, <1>4
<1>6. head \in Seq(Item) /\ Len(head) = 1 /\ head[1] = Frame("welcome", p) BY FrameIsItem DEF Plain
<1>7. q = [EmptyQueue EXCEPT !.items = items, !.frames = n] BY DEF WelcomeQueue
<1> HIDE DEF names, head
<1>8. /\ items \in Seq(Item) /\ Len(items) = 1 + Cardinality(S)
      /\ \A i \in 1..(1 + Cardinality(S)) : items[i] = IF i <= 1 THEN head[i] ELSE names[i - 1]
  <2>1. items \in Seq(Item) BY <1>5, <1>6, ConcatProperties
  <2>2. Len(items) = Len(head) + Len(names) BY <1>5, <1>6, ConcatProperties
  <2>3. \A i \in 1..(Len(head) + Len(names)) : items[i] = IF i <= Len(head) THEN head[i] ELSE names[i - Len(head)]
    BY <1>5, <1>6, ConcatProperties
  <2> HIDE DEF items
  <2> QED BY <1>5, <1>6, <2>1, <2>2, <2>3
<1> HIDE DEF items
<1>9. /\ q.items = items /\ q.frames = n /\ q.session = 0 /\ q.telemetry = 0 /\ q.dropped = [k \in Streams |-> 0]
  BY <1>7 DEF EmptyQueue
<1> HIDE DEF q
<1>10. DOMAIN items = 1..(1 + Cardinality(S)) BY <1>1, <1>8
<1>11. items[1] = Frame("welcome", p) BY <1>1, <1>6, <1>8
<1>12. \A i \in 1..Cardinality(S) : items[i + 1] = Frame("online", order[i])
  <2> SUFFICES ASSUME NEW i \in 1..Cardinality(S) PROVE items[i + 1] = Frame("online", order[i]) OBVIOUS
  <2>1. i + 1 \in 1..(1 + Cardinality(S)) /\ ~(i + 1 <= 1) /\ (i + 1) - 1 = i BY <1>1
  <2>2. items[i + 1] = names[(i + 1) - 1] BY <1>8, <2>1
  <2> QED BY <1>4, <2>1, <2>2
<1>13. \A i \in DOMAIN items : items[i].kind \in Plain
  <2> SUFFICES ASSUME NEW i \in DOMAIN items PROVE items[i].kind \in Plain OBVIOUS
  <2>1. i = 1 \/ (i - 1 \in 1..Cardinality(S) /\ (i - 1) + 1 = i) BY <1>1, <1>10
  <2>2. CASE i = 1 BY <1>11, <2>2 DEF Frame, Plain
  <2>3. CASE i - 1 \in 1..Cardinality(S) /\ (i - 1) + 1 = i
    <3>1. items[(i - 1) + 1] = Frame("online", order[i - 1]) BY <1>12, <2>3
    <3> QED BY <2>3, <3>1 DEF Frame, Plain
  <2> QED BY <2>1, <2>2, <2>3
<1> QED BY <1>1, <1>3, <1>8, <1>9, <1>10, <1>11, <1>12, <1>13 DEF q

LEMMA WelcomeServes ==
  ASSUME NEW p \in Principals, NEW S \in SUBSET Principals, NEW order \in Orders(S), NEW W
  PROVE  Serves(WelcomeQueue(p, order), W)
<1> DEFINE q == WelcomeQueue(p, order)
<1>1. /\ Len(q.items) = 1 + Cardinality(S) /\ q.frames = 1 + Cardinality(S) /\ q.session = 0 /\ q.telemetry = 0
      /\ \A i \in DOMAIN q.items : q.items[i].kind \in Plain
  BY WelcomeParts
<1> HIDE DEF q
<1>2. \A i \in DOMAIN q.items : q.items[i].kind \notin Published /\ q.items[i].kind \notin {"session", "telemetry"}
  BY <1>1 DEF Plain, Published
<1>3. IndicesOf(q, "session") = {} /\ IndicesOf(q, "telemetry") = {} BY <1>2 DEF IndicesOf
<1>4. Bounded(q)
  <2>1. Counted(q) BY <1>1, <1>3, FS_EmptySet DEF Counted
  <2>2. 0 <= QueueSessionEvents /\ 0 <= TelemetryBound BY LimitsAreNaturals DEF TelemetryBound
  <2> QED BY <1>1, <2>1, <2>2 DEF Bounded
<1>5. Ordered(q) BY <1>2 DEF Ordered
<1>6. \A x \in Queued(q) : x.kind \notin Published BY <1>2 DEF Queued
<1> QED BY <1>4, <1>5, <1>6 DEF Serves, q

\* No more principals of an account are online than it has connections.
LEMMA OnlineAreConnected ==
  ASSUME IInv, NEW a \in Accounts
  PROVE  Cardinality(OnlineIn(a)) <= Cardinality(ConnsOf(a)) /\ Cardinality(OnlineIn(a)) \in Nat
         /\ Cardinality(ConnsOf(a)) \in Nat
<1> DEFINE P == OnlineIn(a)
           C == ConnsOf(a)
           f == [p \in P |-> online[<<a, p>>]]
<1>1. TypeOK /\ RegistryAgrees BY DEF IInv
<1>2. P \in SUBSET Principals /\ C \in SUBSET Conns BY <1>1 DEF OnlineIn, ConnsOf, TypeOK
<1>3. IsFiniteSet(Conns) BY BoundsAreNaturals, FS_Interval DEF Conns
<1>4. IsFiniteSet(P) /\ IsFiniteSet(C) BY <1>2, <1>3, FinitelyMany, FS_Subset
<1>5. ASSUME NEW p \in P PROVE online[<<a, p>>] \in C /\ peer[online[<<a, p>>]] = <<a, p>>
  <2>1. <<a, p>> \in Accounts \X Principals /\ online[<<a, p>>] # NoConn BY <1>2 DEF OnlineIn
  <2>2. online[<<a, p>>] \in conns /\ peer[online[<<a, p>>]] = <<a, p>> BY <1>1, <2>1 DEF RegistryAgrees
  <2> QED BY <2>2 DEF ConnsOf, AccountOf
<1>6. f \in [P -> C] BY <1>5
<1>7. \A p, r \in P : f[p] = f[r] => p = r
  <2> SUFFICES ASSUME NEW p \in P, NEW r \in P, f[p] = f[r] PROVE p = r OBVIOUS
  <2>1. online[<<a, p>>] = online[<<a, r>>] OBVIOUS
  <2>2. <<a, p>> = <<a, r>> BY <1>5, <2>1
  <2> QED BY <2>2
<1> HIDE DEF P, C, f
<1>8. f \in Injection(P, C) BY <1>6, <1>7 DEF Injection, IsInjective
<1>9. Cardinality(P) <= Cardinality(C) BY <1>4, <1>8, FS_Injection
<1> QED BY <1>4, <1>9, FS_CardinalityType DEF P, C

LEMMA ConnectServed ==
  ASSUME DeliveryInv, NEW a \in Accounts, NEW p \in Principals, Connect(a, p), NEW c \in conns'
  PROVE  Served(c)'
<1>1. IInv /\ TypeOK /\ RegistryAgrees BY DEF DeliveryInv, KeepInv, IInv
<1>2. /\ nextConn \in Conns /\ nextConn \notin conns /\ conns' = conns \cup {nextConn}
      /\ Cardinality(ConnsOf(a)) < MaxConnectionsPerAccount
      /\ UNCHANGED <<subs, cursor, ring, published, filling>>
  BY <1>1, BoundsAreNaturals DEF TypeOK, Connect, MayConnect, Conns, streamVars
<1>3. PICK order \in Orders(OnlineIn(a)) :
        Deliver([out EXCEPT ![nextConn] = WelcomeQueue(p, order)], ConnsOf(a), Frame("online", p), {nextConn}, {})
  BY DEF Connect
<1> DEFINE q == [out EXCEPT ![nextConn] = WelcomeQueue(p, order)]
           it == Frame("online", p)
<1>4. it \in Item /\ it.kind \in Plain BY FrameIsItem DEF Plain, Frame
<1>5. Deliver(q, ConnsOf(a), it, {nextConn}, {}) BY <1>3
<1>6. out \in [Conns -> Queues] BY <1>1 DEF TypeOK
<1>7. OnlineIn(a) \in SUBSET Principals BY DEF OnlineIn
<1>8. CASE c \in conns
  <2>1. q[c] = out[c] BY <1>1, <1>2, <1>6, <1>8 DEF TypeOK
  <2>2. \A k : FillSeqs(c, k)' = FillSeqs(c, k) BY <1>2 DEF FillSeqs
  <2>3. DueTo(c) \subseteq DueTo(c)' /\ (CursorsWithin(c) => CursorsWithin(c)') BY <1>2, <2>2, StillDue
  <2>4. Served(c) BY <1>8 DEF DeliveryInv
  <2> HIDE DEF q, it
  <2> QED BY <1>1, <1>4, <1>5, <1>8, <2>1, <2>3, <2>4, PlainServed
<1>9. CASE c = nextConn
  <2>1. q[c] = WelcomeQueue(p, order) BY <1>2, <1>6, <1>9
  <2>2. c \notin ConnsOf(a) BY <1>2, <1>9 DEF ConnsOf
  <2> HIDE DEF q, it
  <2>3. out'[c] = WelcomeQueue(p, order) BY <1>2, <1>5, <1>9, <2>1, <2>2, Delivered
  <2>4. Serves(out'[c], DueTo(c)') BY <1>7, <2>3, WelcomeServes
  <2>5. out'[c].frames <= QueueFrames
    <3>1. WelcomeQueue(p, order).frames = 1 + Cardinality(OnlineIn(a)) BY <1>7, WelcomeParts
    <3>2. Cardinality(OnlineIn(a)) <= Cardinality(ConnsOf(a)) /\ Cardinality(OnlineIn(a)) \in Nat
          /\ Cardinality(ConnsOf(a)) \in Nat
      BY <1>1, OnlineAreConnected
    <3> QED BY <1>2, <2>3, <3>1, <3>2, WelcomeFits, LimitsAreNaturals
  <2>6. subs'[c] = {} BY <1>1, <1>2, <1>9 DEF RegistryAgrees
  <2> QED BY <2>4, <2>5, <2>6 DEF Served, CursorsWithin
<1> QED BY <1>2, <1>8, <1>9

LEMMA ForgetServed ==
  ASSUME DeliveryInv, NEW d \in conns, Forget(d), NEW c \in conns'
  PROVE  Served(c)'
<1>1. IInv /\ TypeOK /\ Served(c) /\ c \in conns /\ c # d BY DEF DeliveryInv, KeepInv, IInv, Forget
<1> DEFINE others == ConnsOf(AccountOf(d)) \ {d}
           q == [out EXCEPT ![d] = EmptyQueue]
           it == Frame("offline", PrincipalOf(d))
<1>2. /\ Deliver(q, others, it, {}, {d})
      /\ subs' = [subs EXCEPT ![d] = {}] /\ cursor' = [cursor EXCEPT ![d] = [k \in Streams |-> 0]]
      /\ UNCHANGED <<ring, published, filling>>
  BY DEF Forget
<1>3. it \in Item /\ it.kind \in Plain
  <2>1. PrincipalOf(d) \in Principals BY <1>1, PeerParts
  <2> QED BY <2>1, FrameIsItem DEF Plain, Frame
<1>4. q[c] = out[c] /\ subs'[c] = subs[c] /\ cursor'[c] = cursor[c] BY <1>1, <1>2 DEF TypeOK
<1>5. \A k : FillSeqs(c, k)' = FillSeqs(c, k) BY <1>2 DEF FillSeqs
<1>6. DueTo(c) \subseteq DueTo(c)' /\ (CursorsWithin(c) => CursorsWithin(c)') BY <1>2, <1>4, <1>5, StillDue
<1>7. c \notin {d} BY <1>1
<1> HIDE DEF q, it, others
<1> QED BY <1>1, <1>2, <1>3, <1>4, <1>6, <1>7, PlainServed

-----------------------------------------------------------------------------
\* Backfilling and draining.

LEMMA InitDelivery == Init => DeliveryInv
<1> SUFFICES ASSUME Init PROVE DeliveryInv OBVIOUS
<1>1. KeepInv BY InitKeep
<1>2. conns = {} /\ filling = NoFill /\ ring = [k \in Streams |-> NoRing] BY DEF Init
<1> QED BY <1>1, <1>2 DEF DeliveryInv, RingsKeyed, FillIsTail

\* The next entry of a backfill, and what it leaves.
LEMMA TailStep ==
  ASSUME NEW r, r.seq \in Nat, NEW s \in Seq(Entries), s # <<>>, NEW from \in Nat, NEW keys, TailLeft(r, s, from, keys)
  PROVE  /\ TailLeft(r, Tail(s), from, keys)
         /\ Head(s) = s[1] /\ from < s[1].seq /\ s[1].seq <= r.seq /\ s[1].key = keys[s[1].seq]
         /\ \A i \in DOMAIN Tail(s) : s[1].seq < Tail(s)[i].seq
         /\ 1 \in DOMAIN s
<1>1. /\ Len(s) \in Nat /\ Len(s) # 0 /\ DOMAIN s = 1..Len(s) /\ Tail(s) \in Seq(Entries) /\ Len(Tail(s)) = Len(s) - 1
      /\ Head(s) = s[1] /\ DOMAIN Tail(s) = 1..(Len(s) - 1) /\ \A i \in 1..(Len(s) - 1) : Tail(s)[i] = s[i + 1]
  OBVIOUS
<1> DEFINE n == Len(s)
           t == Tail(s)
<1>2. n <= r.seq /\ from <= r.seq - n /\ \A i \in 1..n : s[i].seq = r.seq - n + i /\ s[i].key = keys[s[i].seq]
  BY DEF TailLeft
<1> HIDE DEF n, t
<1>3. n \in Nat /\ n # 0 BY <1>1 DEF n
<1>4. 1 \in 1..n /\ s[1].seq = r.seq - n + 1 BY <1>2, <1>3
<1>5. \A i \in 1..(n - 1) : t[i] = s[i + 1] /\ i + 1 \in 1..n BY <1>1, <1>3 DEF n, t
<1>6. \A i \in 1..(n - 1) : t[i].seq = r.seq - n + (i + 1) /\ t[i].key = keys[t[i].seq] BY <1>2, <1>5
<1>7. TailLeft(r, t, from, keys)
  <2>1. Len(t) = n - 1 BY <1>1 DEF n, t
  <2>2. ASSUME NEW i \in 1..(n - 1) PROVE t[i].seq = r.seq - (n - 1) + i
    <3>1. PICK q \in Nat : q = r.seq OBVIOUS
    <3>2. i \in Nat /\ q - n + (i + 1) = q - (n - 1) + i BY <1>3
    <3>3. t[i].seq = r.seq - n + (i + 1) BY <1>6
    <3> QED BY <3>1, <3>2, <3>3
  <2>3. n - 1 <= r.seq /\ from <= r.seq - (n - 1) BY <1>2, <1>3
  <2>4. \A i \in 1..Len(t) : t[i].seq = r.seq - Len(t) + i /\ t[i].key = keys[t[i].seq] BY <1>6, <2>1, <2>2
  <2> QED BY <2>1, <2>3, <2>4, SMTT(30) DEF TailLeft
<1>8. \A i \in 1..(n - 1) : s[1].seq < t[i].seq BY <1>3, <1>4, <1>6
<1>9. from < s[1].seq /\ s[1].seq <= r.seq /\ s[1].key = keys[s[1].seq] BY <1>2, <1>3, <1>4
<1> QED BY <1>1, <1>4, <1>7, <1>8, <1>9 DEF n, t

LEMMA BackfilledServed ==
  ASSUME DeliveryInv, Backfilled, NEW c \in conns
  PROVE  Served(c)'
<1>1. IInv /\ Served(c) BY DEF DeliveryInv, KeepInv
<1>2. /\ filling # NoFill /\ Enqueue(filling.conn, "backfilled", filling.stream[2]) /\ filling' = NoFill
      /\ UNCHANGED <<conns, subs, cursor, ring, published>>
  BY DEF Backfilled, connVars, streamVars
<1>3. filling.conn \in conns /\ filling.stream[2] \in Principals BY <1>1, <1>2, FillingParts, StreamParts
<1> QED BY <1>1, <1>2, <1>3, EnqueueServed DEF Plain

LEMMA BackfillEntryServed ==
  ASSUME DeliveryInv, BackfillEntry, NEW c \in conns
  PROVE  Served(c)' /\ FillIsTail'
<1> DEFINE d == filling.conn
           k == filling.stream
           s == filling.rest
           r == ring[k]
           it == PublishedItem(k, r, Head(s))
<1>1. IInv /\ TypeOK /\ RegistryAgrees /\ FillIsTail /\ Served(c) BY DEF DeliveryInv, KeepInv, IInv
<1>2. /\ filling # NoFill /\ s # <<>> /\ out' = [out EXCEPT ![d] = Push(@, it)]
      /\ UNCHANGED <<conns, subs, cursor, ring, published>>
  BY DEF BackfillEntry, connVars, streamVars
<1>3. \/ Takes(out[d], it) /\ filling' = [filling EXCEPT !.rest = Tail(@)] /\ closing' = closing
      \/ filling' = NoFill /\ closing' = closing \cup {d}
  BY DEF BackfillEntry
<1>4. /\ filling \in [conn : Conns, stream : Streams, rest : Seq(Entries)]
      /\ d \in conns /\ k \in Streams /\ s \in Seq(Entries) /\ r \in Rings /\ d \in Conns /\ k \in subs[d]
  BY <1>1, <1>2, FillingParts DEF RegistryAgrees
<1>5. r.seq \in Nat /\ r.kind \in Published /\ cursor[d][k] \in Nat /\ out \in [Conns -> Queues] /\ c \in Conns
  <2>1. r.seq \in Nat /\ r.kind \in Published BY <1>4, RingParts DEF Published
  <2> QED BY <1>1, <1>4, <2>1 DEF TypeOK
<1>6. closing = {} /\ TailLeft(r, s, cursor[d][k], published[k]) BY <1>1, <1>2 DEF FillIsTail
<1>7. /\ TailLeft(r, Tail(s), cursor[d][k], published[k])
      /\ Head(s) = s[1] /\ cursor[d][k] < s[1].seq /\ s[1].seq <= r.seq /\ s[1].key = published[k][s[1].seq]
      /\ \A i \in DOMAIN Tail(s) : s[1].seq < Tail(s)[i].seq
      /\ 1 \in DOMAIN s
  BY <1>2, <1>4, <1>5, <1>6, TailStep
<1>8. Head(s) \in Entries BY <1>4, <1>7
<1>9. /\ it \in Item /\ it.kind = r.kind /\ it.stream = k /\ it.epoch = r.epoch /\ it.seq = s[1].seq
      /\ it.key = s[1].key
  BY <1>4, <1>7, <1>8, PublishedIsItem DEF PublishedItem
<1> HIDE DEF it, r
<1>10. /\ \A b \in Conns : \A j : FillSeqs(b, j)' \subseteq FillSeqs(b, j)
       /\ \A b \in Conns : \A j : b = d /\ j = k => \A n \in FillSeqs(b, j)' : it.seq < n
       /\ it.seq \in FillSeqs(d, k)
       /\ FillIsTail'
  <2>1. \A b, j : FillSeqs(b, j) = IF d = b /\ k = j THEN {s[i].seq : i \in DOMAIN s} ELSE {}
    BY DEF FillSeqs
  <2>2. it.seq \in FillSeqs(d, k) BY <1>7, <1>9, <2>1
  <2>3. CASE filling' = NoFill
    <3>1. \A b \in Conns : \A j : FillSeqs(b, j)' = {} BY <2>3 DEF FillSeqs, NoFill, NoConn, Conns
    <3>2. FillIsTail' BY <2>3 DEF FillIsTail
    <3> QED BY <1>4, <2>2, <3>1, <3>2
  <2>4. CASE Takes(out[d], it) /\ filling' = [filling EXCEPT !.rest = Tail(@)] /\ closing' = closing
    <3>1. filling'.conn = d /\ filling'.stream = k /\ filling'.rest = Tail(s) BY <1>4, <2>4
    <3>2. \A b, j : FillSeqs(b, j)' = IF d = b /\ k = j THEN {Tail(s)[i].seq : i \in DOMAIN Tail(s)} ELSE {}
      BY <3>1 DEF FillSeqs
    <3>3. \A i \in DOMAIN Tail(s) : i + 1 \in DOMAIN s /\ Tail(s)[i] = s[i + 1] BY <1>2, <1>4
    <3>4. FillIsTail' BY <1>2, <1>6, <1>7, <2>4, <3>1 DEF FillIsTail, r
    <3> QED BY <1>7, <1>9, <2>1, <2>2, <3>2, <3>3, <3>4
  <2> QED BY <1>3, <2>3, <2>4
<1>11. DueTo(c) \subseteq DueTo(c)' /\ (CursorsWithin(c) => CursorsWithin(c)') BY <1>2, <1>5, <1>10, StillDue
<1>12. Serves(out[c], DueTo(c)') BY <1>1, <1>11, ServesMore DEF Served
<1>13. CASE c # d
  <2>1. out'[c] = out[c] BY <1>2, <1>5, <1>13
  <2>2. c \notin closing' => c \notin closing BY <1>6
  <2> QED BY <1>1, <1>10, <1>11, <1>12, <2>1, <2>2 DEF Served
<1>14. CASE c = d
  <2>1. out'[c] = Push(out[c], it) /\ out[c] \in Queues BY <1>2, <1>5, <1>14
  <2>2. it \in DueTo(c)'
    <3>1. UNCHANGED <<subs, cursor, ring, published>> BY <1>2
    <3>2. /\ it.kind \in Published /\ it.stream \in subs[c]
          /\ it.epoch = ring[it.stream].epoch /\ it.kind = ring[it.stream].kind
          /\ cursor[c][it.stream] < it.seq /\ it.seq <= ring[it.stream].seq
          /\ it.key = published[it.stream][it.seq]
      BY <1>4, <1>5, <1>7, <1>9, <1>14 DEF r
    <3>3. \A j : j = it.stream => \A n \in FillSeqs(c, j)' : it.seq < n BY <1>5, <1>9, <1>10, <1>14
    <3> QED BY <1>9, <3>1, <3>2, <3>3 DEF DueTo
  <2>3. \A x \in Queued(out[c]) : x.stream = it.stream => x.seq < it.seq
    <3> SUFFICES ASSUME NEW x \in Queued(out[c]), x.stream = it.stream PROVE x.seq < it.seq OBVIOUS
    <3>1. x \in Item BY <2>1, QueuedAreItems
    <3>2. x.kind \in Published BY <1>4, <1>9, <3>1, PublishedHasStream, NoStreamIsNone
    <3>3. x \in DueTo(c) BY <1>1, <3>2 DEF Served, Serves
    <3> QED BY <1>9, <1>10, <1>14, <3>3 DEF DueTo
  <2>4. Serves(Push(out[c], it), DueTo(c)') BY <1>9, <1>12, <2>1, <2>2, <2>3, PushServes
  <2>5. c \notin closing' => out'[c].frames <= QueueFrames BY <1>3, <1>14, <2>1 DEF Takes
  <2> QED BY <1>1, <1>10, <1>11, <2>1, <2>4, <2>5 DEF Served
<1> QED BY <1>13, <1>14

LEMMA TakeOutboundServed ==
  ASSUME DeliveryInv, NEW d \in Conns, TakeOutbound(d), NEW c \in conns
  PROVE  Served(c)'
<1> DEFINE q == out[d]
           it == Head(q.items)
<1>1. IInv /\ TypeOK /\ Served(c) /\ c \in Conns BY DEF DeliveryInv, KeepInv, IInv, TypeOK
<1>2. UNCHANGED <<conns, subs, ring, published, closing, filling>> BY DEF TakeOutbound, connVars, streamVars
<1>3. \A k : FillSeqs(c, k)' = FillSeqs(c, k) BY <1>2 DEF FillSeqs
<1>4. out \in [Conns -> Queues] /\ cursor \in [Conns -> [Streams -> Nat]] /\ subs[c] \subseteq Streams
  BY <1>1 DEF TypeOK
<1>5. CASE out'[c] = out[c] /\ cursor'[c] = cursor[c]
  <2>1. DueTo(c) \subseteq DueTo(c)' /\ (CursorsWithin(c) => CursorsWithin(c)') BY <1>2, <1>3, <1>5, StillDue
  <2>2. Serves(out'[c], DueTo(c)') BY <1>1, <1>5, <2>1, ServesMore DEF Served
  <2> QED BY <1>1, <1>2, <1>5, <2>1, <2>2 DEF Served
<1>6. CASE q.items # <<>> /\ c = d
  <2>1. /\ out' = [out EXCEPT ![d] = TakeFrame(q)]
        /\ cursor' = IF it.kind \in Published THEN [cursor EXCEPT ![d][it.stream] = it.seq] ELSE cursor
    BY <1>6 DEF TakeOutbound
  <2>2. out'[c] = TakeFrame(q) /\ q \in Queues BY <1>4, <1>6, <2>1
  <2>3. /\ Queued(TakeFrame(q)) = {q.items[j] : j \in DOMAIN q.items \ {1}}
        /\ it \in Queued(q) /\ it \in Item
        /\ Ordered(q) => Ordered(TakeFrame(q))
        /\ Ordered(q) => \A x \in Queued(TakeFrame(q)) : it.kind \in Published /\ x.stream = it.stream => it.seq < x.seq
    BY <1>6, <2>2, TakeOrder
  <2>4. Serves(q, DueTo(c)) /\ CursorsWithin(c) /\ (c \notin closing => q.frames <= QueueFrames)
    BY <1>1, <1>6 DEF Served
  <2>5. Bounded(TakeFrame(q)) /\ TakeFrame(q).frames <= q.frames BY <1>6, <2>2, <2>4, TakeBounded DEF Serves
  <2>6. it.kind \in Published => it \in DueTo(c) BY <2>3, <2>4 DEF Serves
  <2>7. \A k \in Streams : cursor'[c][k] = IF it.kind \in Published /\ k = it.stream THEN it.seq ELSE cursor[c][k]
    BY <1>4, <1>6, <2>1
  <2> HIDE DEF it, q
  <2>8. CursorsWithin(c)'
    <3> SUFFICES ASSUME NEW k \in subs[c] PROVE cursor'[c][k] <= ring[k].seq BY <1>2 DEF CursorsWithin
    <3>1. cursor[c][k] <= ring[k].seq BY <2>4 DEF CursorsWithin
    <3>2. it.kind \in Published /\ k = it.stream => it.seq <= ring[k].seq BY <2>6 DEF DueTo
    <3> QED BY <1>4, <2>7, <3>1, <3>2
  <2>9. ASSUME NEW x \in Queued(TakeFrame(q)), x.kind \in Published PROVE x \in DueTo(c)'
    <3>1. x \in DueTo(c) BY <2>3, <2>4, <2>9 DEF Serves, Queued
    <3>2. it.kind \in Published /\ x.stream = it.stream => it.seq < x.seq BY <2>3, <2>4, <2>9 DEF Serves
    <3>3. x.stream \in Streams BY <1>4, <3>1 DEF DueTo
    <3>4. cursor'[c][x.stream] < x.seq BY <2>7, <3>1, <3>2, <3>3 DEF DueTo
    <3> QED BY <1>2, <1>3, <3>1, <3>4 DEF DueTo
  <2>10. Serves(TakeFrame(q), DueTo(c)') BY <2>3, <2>4, <2>5, <2>9 DEF Serves
  <2>11. TakeFrame(q).frames \in Int /\ q.frames \in Int /\ QueueFrames \in Nat
    BY <1>6, <2>2, TakeFrameType, QueueParts, LimitsAreNaturals
  <2>12. c \notin closing' => out'[c].frames <= QueueFrames BY <1>2, <2>2, <2>4, <2>5, <2>11
  <2> QED BY <2>2, <2>8, <2>10, <2>12 DEF Served
<1>7. CASE q.items = <<>> BY <1>5, <1>7 DEF TakeOutbound
<1>8. CASE q.items # <<>> /\ c # d
  <2>1. out' = [out EXCEPT ![d] = TakeFrame(q)] BY <1>8 DEF TakeOutbound
  <2>2. cursor' = cursor \/ cursor' = [cursor EXCEPT ![d][it.stream] = it.seq] BY <1>8 DEF TakeOutbound
  <2> HIDE DEF it, q
  <2>3. out'[c] = out[c] BY <1>1, <1>4, <1>8, <2>1
  <2>4. cursor'[c] = cursor[c] BY <1>1, <1>4, <1>8, <2>2
  <2> QED BY <1>5, <2>3, <2>4
<1> QED BY <1>6, <1>7, <1>8

LEMMA UnsubscribeServed ==
  ASSUME DeliveryInv, NEW d \in Conns, NEW k \in Streams, Unsubscribe(d, k), NEW c \in conns
  PROVE  Served(c)'
<1>1. IInv /\ TypeOK /\ Served(c) /\ c \in Conns BY DEF DeliveryInv, KeepInv, IInv, TypeOK
<1>2. /\ subs' = [subs EXCEPT ![d] = @ \ {k}] /\ out' = [out EXCEPT ![d] = PurgeStream(@, k)]
      /\ cursor' = [cursor EXCEPT ![d][k] = 0]
      /\ UNCHANGED <<conns, ring, published, closing, filling>>
  BY DEF Unsubscribe, connVars
<1>3. \A j : FillSeqs(c, j)' = FillSeqs(c, j) BY <1>2 DEF FillSeqs
<1>4. /\ out \in [Conns -> Queues] /\ cursor \in [Conns -> [Streams -> Nat]] /\ subs \in [Conns -> SUBSET Streams]
      /\ subs[c] \subseteq Streams
  BY <1>1 DEF TypeOK
<1>5. CASE c # d
  <2>1. out'[c] = out[c] /\ cursor'[c] = cursor[c] /\ subs'[c] = subs[c] BY <1>1, <1>2, <1>4, <1>5
  <2>2. DueTo(c) \subseteq DueTo(c)' /\ (CursorsWithin(c) => CursorsWithin(c)') BY <1>2, <1>3, <2>1, StillDue
  <2>3. Serves(out'[c], DueTo(c)') BY <1>1, <2>1, <2>2, ServesMore DEF Served
  <2> QED BY <1>1, <1>2, <2>1, <2>2, <2>3 DEF Served
<1>6. CASE c = d
  <2>1. out'[c] = PurgeStream(out[c], k) /\ out[c] \in Queues /\ subs'[c] = subs[c] \ {k} BY <1>2, <1>4, <1>6
  <2>2. \A j \in Streams \ {k} : cursor'[c][j] = cursor[c][j] BY <1>2, <1>4, <1>6
  <2>3. CursorsWithin(c)' BY <1>1, <1>2, <1>4, <2>1, <2>2 DEF CursorsWithin, Served
  <2>4. {x \in DueTo(c) : x.stream # k} \subseteq DueTo(c)'
    <3> SUFFICES ASSUME NEW x \in DueTo(c), x.stream # k PROVE x \in DueTo(c)' OBVIOUS
    <3>1. x.stream \in Streams \ {k} /\ x.stream \in subs'[c] BY <1>4, <2>1 DEF DueTo
    <3>2. cursor'[c][x.stream] = cursor[c][x.stream] BY <2>2, <3>1
    <3> QED BY <1>2, <1>3, <3>1, <3>2 DEF DueTo
  <2>5. Serves(PurgeStream(out[c], k), DueTo(c)') /\ PurgeStream(out[c], k).frames <= out[c].frames
    BY <1>1, <2>1, <2>4, PurgeServes DEF Served
  <2>6. PurgeStream(out[c], k).frames \in Int /\ out[c].frames \in Int /\ QueueFrames \in Nat
    BY <2>1, PurgeStreamType, QueueParts, LimitsAreNaturals
  <2>7. c \notin closing' => out'[c].frames <= QueueFrames BY <1>1, <1>2, <2>1, <2>5, <2>6 DEF Served
  <2> QED BY <2>1, <2>3, <2>5, <2>7 DEF Served
<1> QED BY <1>5, <1>6

-----------------------------------------------------------------------------
\* Subscribing.

\* A position a client holds is not past the ring it is of.
LEMMA SinceWithin ==
  ASSUME TypeOK, RingsKeyed, NEW k \in Streams, NEW since \in Sinces(k), ring[k] # NoRing,
         since.given, since.epoch = ring[k].epoch
  PROVE  since.seq <= ring[k].seq
<1>1. ring[k].epoch # 0 BY DEF RingsKeyed, Keyed
<1>2. ring[k].seq \in Nat BY RingOrNone DEF TypeOK
<1>3. CASE since = NoPosition BY <1>3 DEF NoPosition
<1>4. CASE since \in {Position(0, n) : n \in {0, 1}} BY <1>1, <1>4 DEF Position
<1>5. CASE since \in {Position(ring[k].epoch, n) : n \in 0..ring[k].seq} BY <1>2, <1>5 DEF Position
<1> QED BY <1>3, <1>4, <1>5 DEF Sinces

\* What the backfill of a new subscription has left, all of it.
LEMMA WholeTail ==
  ASSUME KeepInv, RingsKeyed, NEW k \in Streams, NEW since \in Sinces(k)
  PROVE  /\ TailLeft(ring[k], BackfillEntries(ring[k], since), CursorAfter(ring[k], since), published[k])
         /\ CursorAfter(ring[k], since) = ring[k].seq - Len(BackfillEntries(ring[k], since))
         /\ CursorAfter(ring[k], since) <= ring[k].seq /\ CursorAfter(ring[k], since) \in Nat
<1> DEFINE r == ring[k]
           b == BackfillEntries(r, since)
<1>1. TypeOK /\ RingsKept BY DEF KeepInv, IInv
<1>2. r \in Rings \cup {NoRing} /\ r.seq \in Nat BY <1>1, RingOrNone DEF TypeOK
<1>3. Consecutive(r) /\ Len(r.entries) <= r.seq BY <1>1 DEF RingsKept, Retains
<1>4. since.seq \in Nat BY <1>1, SinceParts
<1>5. r # NoRing /\ since.given /\ since.epoch = r.epoch => since.seq <= r.seq BY <1>1, SinceWithin
<1>6. /\ b \in Seq(Entries) /\ Len(b) <= r.seq /\ CursorAfter(r, since) = r.seq - Len(b)
      /\ \A i \in 1..Len(b) : b[i].seq = r.seq - Len(b) + i /\ \E j \in DOMAIN r.entries : b[i] = r.entries[j]
  BY <1>2, <1>3, <1>4, <1>5, BackfillTail, SMTT(30)
<1> HIDE DEF b
<1>7. Len(b) \in Nat BY <1>6
<1>8. \A i \in 1..Len(b) : b[i].key = published[k][b[i].seq]
  <2> SUFFICES ASSUME NEW i \in 1..Len(b) PROVE b[i].key = published[k][b[i].seq] OBVIOUS
  <2>1. PICK j \in DOMAIN r.entries : b[i] = r.entries[j] BY <1>6
  <2>2. r # NoRing BY <2>1 DEF NoRing
  <2> QED BY <2>1, <2>2 DEF RingsKeyed, Keyed
<1>9. CursorAfter(r, since) \in Nat /\ CursorAfter(r, since) <= r.seq - Len(b) /\ CursorAfter(r, since) <= r.seq
  BY <1>2, <1>6, <1>7
<1>10. TailLeft(r, b, CursorAfter(r, since), published[k]) BY <1>6, <1>8, <1>9 DEF TailLeft
<1> QED BY <1>6, <1>9, <1>10 DEF b

\* A stream someone subscribes to is not the victim.
LEMMA WatchedIsNoVictim ==
  ASSUME IInv, NEW k \in Streams, NEW victim \in Evictable(k), NEW c \in conns, NEW j \in subs[c]
  PROVE  j # victim /\ j \in Streams /\ subscribers[j] # {}
<1>1. TypeOK /\ RegistryAgrees /\ c \in Conns BY DEF IInv, TypeOK
<1>2. j \in Streams BY <1>1 DEF TypeOK
<1>3. c \in subscribers[j] BY <1>1, <1>2 DEF RegistryAgrees
<1>4. victim # NoStream => subscribers[victim] = {} BY <1>1, EvictableParts
<1> QED BY <1>2, <1>3, <1>4, NoStreamIsNone

LEMMA SubscribeServed ==
  ASSUME DeliveryInv, NEW d \in Conns, NEW k \in Streams, NEW since \in Sinces(k), Subscribe(d, k, since), NEW c \in conns
  PROVE  Served(c)' /\ FillIsTail' /\ RingsKeyed'
<1>1. IInv /\ TypeOK /\ KeepInv /\ RingsKeyed /\ FillIsTail /\ Served(c) /\ c \in Conns
  BY DEF DeliveryInv, KeepInv, IInv, TypeOK
<1>2. /\ out \in [Conns -> Queues] /\ cursor \in [Conns -> [Streams -> Nat]] /\ subs \in [Conns -> SUBSET Streams]
      /\ subs[c] \subseteq Streams /\ d \in conns
  BY <1>1 DEF TypeOK, Subscribe
<1>3. CASE CloseConn(d) /\ UNCHANGED <<subs, streamVars, filling, cursor>>
  <2>1. closing' = closing \cup {d} /\ UNCHANGED <<out, subs, cursor, ring, published, filling>>
    BY <1>3 DEF CloseConn, streamVars
  <2>2. \A j : FillSeqs(c, j)' = FillSeqs(c, j) BY <2>1 DEF FillSeqs
  <2>3. DueTo(c) \subseteq DueTo(c)' /\ (CursorsWithin(c) => CursorsWithin(c)') BY <2>1, <2>2, StillDue
  <2>4. Serves(out'[c], DueTo(c)') BY <1>1, <2>1, <2>3, ServesMore DEF Served
  <2>5. filling' = NoFill BY <2>1 DEF Subscribe, Idle
  <2> QED BY <1>1, <2>1, <2>3, <2>4, <2>5 DEF Served, RingsKeyed, FillIsTail
<1>4. ASSUME NEW victim \in Evictable(k), ring' = RingsWithout(victim),
             subs' = [subs EXCEPT ![d] = @ \cup {k}], out' = [out EXCEPT ![d] = PurgeStream(@, k)],
             filling' = [conn |-> d, stream |-> k, rest |-> BackfillEntries(ring[k], since)],
             cursor' = [cursor EXCEPT ![d][k] = CursorAfter(ring[k], since)],
             UNCHANGED <<closing, published>>
      PROVE  Served(c)' /\ FillIsTail' /\ RingsKeyed'
  <2> DEFINE b == BackfillEntries(ring[k], since)
             a == CursorAfter(ring[k], since)
  <2>1. TailLeft(ring[k], b, a, published[k]) /\ a <= ring[k].seq /\ a \in Nat BY <1>1, WholeTail
  <2>2. \A j \in Streams : ring'[j] = IF j = victim THEN NoRing ELSE ring[j] BY <1>4 DEF RingsWithout
  <2>3. victim # k BY <1>1, <1>4, EvictableParts
  <2>4. RingsKeyed' BY <1>1, <1>4, <2>2 DEF RingsKeyed
  <2> HIDE DEF a, b
  <2>5. FillIsTail'
    <3>1. filling'.conn = d /\ filling'.stream = k /\ filling'.rest = b /\ closing' = {}
      BY <1>4 DEF b, Subscribe, Idle
    <3>2. cursor'[d][k] = a /\ ring'[k] = ring[k] /\ published'[k] = published[k] BY <1>2, <1>4, <2>2, <2>3 DEF a
    <3> QED BY <2>1, <3>1, <3>2 DEF FillIsTail
  <2>6. \A j \in subs[c] : ring'[j] = ring[j] BY <1>1, <1>2, <1>4, <2>2, WatchedIsNoVictim
  <2>7. \A j : FillSeqs(c, j)' = IF c = d /\ j = k THEN {b[i].seq : i \in DOMAIN b} ELSE {}
    BY <1>4 DEF FillSeqs, b
  <2>8. CASE c # d
    <3>1. out'[c] = out[c] /\ cursor'[c] = cursor[c] /\ subs'[c] = subs[c] BY <1>1, <1>2, <1>4, <2>8
    <3>2. DueTo(c) \subseteq DueTo(c)' /\ (CursorsWithin(c) => CursorsWithin(c)')
      BY <1>4, <2>6, <2>7, <2>8, <3>1, StillDue
    <3>3. Serves(out'[c], DueTo(c)') BY <1>1, <3>1, <3>2, ServesMore DEF Served
    <3>4. Served(c)' BY <1>1, <1>4, <3>1, <3>2, <3>3 DEF Served
    <3> QED BY <2>4, <2>5, <3>4
  <2>9. CASE c = d
    <3>1. out'[c] = PurgeStream(out[c], k) /\ out[c] \in Queues /\ subs'[c] = subs[c] \cup {k} BY <1>2, <1>4, <2>9
    <3>2. cursor'[c][k] = a /\ \A j \in Streams \ {k} : cursor'[c][j] = cursor[c][j] BY <1>2, <1>4, <2>9 DEF a
    <3>3. ring'[k] = ring[k] BY <2>2, <2>3
    <3>4. CursorsWithin(c)'
      <4> SUFFICES ASSUME NEW j \in subs'[c] PROVE cursor'[c][j] <= ring'[j].seq BY DEF CursorsWithin
      <4>1. CASE j = k BY <2>1, <3>2, <3>3, <4>1
      <4>2. CASE j # k
        <5>1. j \in subs[c] BY <3>1, <4>2
        <5> QED BY <1>1, <1>2, <2>6, <3>2, <4>2, <5>1 DEF Served, CursorsWithin
      <4> QED BY <4>1, <4>2
    <3>5. {x \in DueTo(c) : x.stream # k} \subseteq DueTo(c)'
      <4> SUFFICES ASSUME NEW x \in DueTo(c), x.stream # k PROVE x \in DueTo(c)' OBVIOUS
      <4>1. x.stream \in subs[c] /\ x.stream \in Streams \ {k} /\ x.stream \in subs'[c] BY <1>2, <3>1 DEF DueTo
      <4>2. cursor'[c][x.stream] = cursor[c][x.stream] /\ ring'[x.stream] = ring[x.stream] BY <2>6, <3>2, <4>1
      <4>3. FillSeqs(c, x.stream)' = {} BY <2>7
      <4> QED BY <1>4, <4>1, <4>2, <4>3 DEF DueTo
    <3>6. Serves(PurgeStream(out[c], k), DueTo(c)') /\ PurgeStream(out[c], k).frames <= out[c].frames
      BY <1>1, <3>1, <3>5, PurgeServes DEF Served
    <3>7. PurgeStream(out[c], k).frames \in Int /\ out[c].frames \in Int /\ QueueFrames \in Nat
      BY <3>1, PurgeStreamType, QueueParts, LimitsAreNaturals
    <3>8. c \notin closing' => out'[c].frames <= QueueFrames BY <1>1, <1>4, <3>1, <3>6, <3>7 DEF Served
    <3>9. Served(c)' BY <3>1, <3>4, <3>6, <3>8 DEF Served
    <3> QED BY <2>4, <2>5, <3>9
  <2> QED BY <2>8, <2>9
<1> QED BY <1>3, <1>4 DEF Subscribe

-----------------------------------------------------------------------------
\* Publishing.

\* The envelope published, and where every stream stands after it.
Advances(k, kind, key) ==
  /\ ring'[k].seq = ring[k].seq + 1 /\ ring'[k].kind = kind /\ ring'[k].epoch # 0
  /\ ring[k] # NoRing => ring'[k].epoch = ring[k].epoch /\ ring[k].kind = kind
  /\ Len(published'[k]) = ring[k].seq + 1 /\ published'[k][ring[k].seq + 1] = key
  /\ \A n \in 1..ring[k].seq : published'[k][n] = published[k][n]

IsEnvelope(it, k, kind, key) ==
  /\ it \in Item /\ it.kind = kind /\ it.stream = k /\ it.seq = ring[k].seq + 1 /\ it.key = key
  /\ it.epoch = ring'[k].epoch

LEMMA PublishAdvances ==
  ASSUME KeepInv, RingsKeyed, NEW c, NEW k \in Streams, NEW kind \in Published, NEW key \in Keys \cup {NoKey},
         NEW victim \in Evictable(k), PublishTo(c, k, kind, key, victim), ring[k] = NoRing \/ ring[k].kind = kind
  PROVE  /\ Advances(k, kind, key) /\ IsEnvelope(Envelope(k, kind, key), k, kind, key) /\ RingsKeyed'
         /\ \A j \in Streams \ {k, victim} : SameHead(ring'[j], ring[j]) /\ published'[j] = published[j]
<1> DEFINE new == NewerRing(k, kind, key)
           it  == Envelope(k, kind, key)
           e   == [seq |-> ring[k].seq + 1, key |-> key]
<1>1. IInv /\ TypeOK BY DEF KeepInv, IInv
<1>2. published' = [published EXCEPT ![k] = IF ring[k] = NoRing THEN <<key>> ELSE Append(@, key)]
  BY <1>1, PublishToParts, Zenon
<1>3. ring[k].seq \in Nat /\ published \in [Streams -> Seq(Keys \cup {NoKey})] /\ nextEpoch \in Nat \ {0}
  BY <1>1, RingOrNone DEF TypeOK
<1>4. /\ SameHead(ring'[k], new) /\ ring'[k] # NoRing /\ NewOrFrom(ring'[k], ring[k], e)
      /\ \A j \in Streams \ {k, victim} :
           SameHead(ring'[j], ring[j]) /\ (ring'[j] = NoRing <=> ring[j] = NoRing) /\ EntriesFrom(ring'[j], ring[j])
  BY <1>1, PublishHeads
<1>5. new.seq = ring[k].seq + 1 /\ new.kind = kind /\ (ring[k] # NoRing => new.epoch = ring[k].epoch) /\ new \in Rings
  BY <1>1, NewerHead
<1>6. new.epoch # 0
  <2>1. CASE ring[k] # NoRing BY <1>5, <2>1 DEF RingsKeyed, Keyed
  <2>2. CASE ring[k] = NoRing
    <3>1. new.epoch = OldRing(k, kind).epoch BY <1>1, NewerRingParts
    <3> QED BY <1>3, <2>2, <3>1 DEF OldRing, NewRing
  <2> QED BY <2>1, <2>2
<1>7. /\ Len(published'[k]) = ring[k].seq + 1 /\ published'[k][ring[k].seq + 1] = key
      /\ \A n \in 1..ring[k].seq : published'[k][n] = published[k][n]
  <2>1. CASE ring[k] = NoRing
    <3>1. published'[k] = <<key>> BY <1>2, <1>3, <2>1
    <3>2. ring[k].seq = 0 BY <2>1 DEF NoRing
    <3> QED BY <3>1, <3>2
  <2>2. CASE ring[k] # NoRing
    <3>1. published'[k] = Append(published[k], key) BY <1>2, <1>3, <2>2
    <3>2. Len(published[k]) = ring[k].seq /\ published[k] \in Seq(Keys \cup {NoKey})
      BY <1>3, <2>2 DEF RingsKeyed, Keyed
    <3> QED BY <1>3, <3>1, <3>2
  <2> QED BY <2>1, <2>2
<1> HIDE DEF new
<1>8. Advances(k, kind, key) BY <1>4, <1>5, <1>6, <1>7 DEF Advances, SameHead
<1>9. IsEnvelope(it, k, kind, key)
  <2>1. it = PublishedItem(k, new, [seq |-> new.seq, key |-> key]) BY DEF Envelope, new
  <2>2. [seq |-> new.seq, key |-> key] \in Entries BY <1>3, <1>5 DEF Entries
  <2>3. it \in Item BY <1>5, <2>1, <2>2, PublishedIsItem
  <2> HIDE DEF it
  <2> QED BY <1>4, <1>5, <2>1, <2>3 DEF IsEnvelope, PublishedItem, SameHead
<1>10. \A j \in Streams \ {k} : published'[j] = published[j] BY <1>2, <1>3
<1>11. RingsKeyed'
  <2> SUFFICES ASSUME NEW j \in Streams, ring'[j] # NoRing PROVE Keyed(ring'[j], published'[j]) BY DEF RingsKeyed
  <2>1. CASE j = k
    <3>1. \A i \in DOMAIN ring'[k].entries : ring'[k].entries[i].key = published'[k][ring'[k].entries[i].seq]
      <4> SUFFICES ASSUME NEW i \in DOMAIN ring'[k].entries
                   PROVE  ring'[k].entries[i].key = published'[k][ring'[k].entries[i].seq]
        OBVIOUS
      <4>1. CASE ring'[k].entries[i] = e BY <1>7, <4>1
      <4>2. CASE \E n \in DOMAIN ring[k].entries : ring'[k].entries[i] = ring[k].entries[n]
        <5>1. PICK n \in DOMAIN ring[k].entries : ring'[k].entries[i] = ring[k].entries[n] BY <4>2
        <5>2. ring[k] # NoRing BY <5>1 DEF NoRing
        <5>3. ring[k].entries[n].key = published[k][ring[k].entries[n].seq] BY <5>1, <5>2 DEF RingsKeyed, Keyed
        <5>4. ring[k].entries[n].seq \in 1..ring[k].seq
          <6>1. Consecutive(ring[k]) /\ Len(ring[k].entries) <= ring[k].seq BY DEF KeepInv, RingsKept, Retains
          <6>2. ring[k].entries \in Seq(Entries) BY <1>1, RingOrNone DEF TypeOK
          <6>3. ring[k].entries[n].seq = ring[k].seq - Len(ring[k].entries) + n BY <5>1, <6>1 DEF Consecutive
          <6>4. n \in 1..Len(ring[k].entries) /\ Len(ring[k].entries) \in Nat BY <5>1, <6>2
          <6> QED BY <1>3, <6>1, <6>3, <6>4
        <5> QED BY <1>7, <5>1, <5>3, <5>4
      <4> QED BY <1>4, <4>1, <4>2 DEF NewOrFrom
    <3> QED BY <1>8, <2>1, <3>1 DEF Advances, Keyed
  <2>2. CASE j # k
    <3>1. j # victim
      <4>1. victim \in Streams => ring'[victim] = NoRing BY <1>1, PublishHolds
      <4> QED BY <4>1
    <3>2. SameHead(ring'[j], ring[j]) /\ ring[j] # NoRing /\ EntriesFrom(ring'[j], ring[j]) /\ published'[j] = published[j]
      BY <1>4, <1>10, <2>2, <3>1
    <3>3. Keyed(ring[j], published[j]) BY <3>2 DEF RingsKeyed
    <3> QED BY <3>2, <3>3 DEF Keyed, SameHead, EntriesFrom
  <2> QED BY <2>1, <2>2
<1> QED BY <1>4, <1>8, <1>9, <1>10, <1>11

LEMMA PublishToServed ==
  ASSUME DeliveryInv, NEW d, NEW k \in Streams, NEW kind \in Published, NEW key \in Keys \cup {NoKey},
         NEW victim \in Evictable(k), PublishTo(d, k, kind, key, victim), ring[k] = NoRing \/ ring[k].kind = kind,
         UNCHANGED <<conns, subs, cursor, filling>>, filling = NoFill, NEW c \in conns
  PROVE  Served(c)'
<1> DEFINE it == Envelope(k, kind, key)
<1>1. IInv /\ TypeOK /\ KeepInv /\ RegistryAgrees /\ RingsKeyed /\ Served(c) /\ c \in Conns
  BY DEF DeliveryInv, KeepInv, IInv, TypeOK
<1>2. /\ Advances(k, kind, key) /\ IsEnvelope(it, k, kind, key)
      /\ \A j \in Streams \ {k, victim} : SameHead(ring'[j], ring[j]) /\ published'[j] = published[j]
  BY <1>1, PublishAdvances
<1>3. Deliver(out, subscribers[k], it, {}, {}) BY <1>1, PublishToParts, Zenon
<1> HIDE DEF it
<1>4. out[c] \in Queues /\ ring[k].seq \in Nat /\ cursor[c] \in [Streams -> Nat] BY <1>1, RingOrNone DEF TypeOK
<1>5. k \in subs[c] <=> c \in subscribers[k] BY <1>1 DEF RegistryAgrees
<1>6. \A j : FillSeqs(c, j)' = {} BY <1>1 DEF FillSeqs, NoFill, NoConn, Conns
<1>7. \A j \in subs[c] \ {k} : j \in Streams /\ SameHead(ring'[j], ring[j]) /\ published'[j] = published[j]
  BY <1>1, <1>2, WatchedIsNoVictim
<1>8. \A x \in DueTo(c) : x.stream = k => x.seq \in 1..ring[k].seq /\ ring[k] # NoRing
  <2> SUFFICES ASSUME NEW x \in DueTo(c), x.stream = k PROVE x.seq \in 1..ring[k].seq /\ ring[k] # NoRing OBVIOUS
  <2>1. x \in Item /\ x.kind \in Published /\ x.kind = ring[k].kind /\ cursor[c][k] < x.seq /\ x.seq <= ring[k].seq
    BY DEF DueTo
  <2>2. x.seq \in Nat BY <2>1, PublishedHasStream
  <2>3. ring[k] # NoRing BY <2>1 DEF NoRing, Published
  <2> QED BY <1>4, <2>1, <2>2, <2>3
<1>9. DueTo(c) \subseteq DueTo(c)'
  <2> SUFFICES ASSUME NEW x \in DueTo(c) PROVE x \in DueTo(c)' OBVIOUS
  <2>1. /\ x \in Item /\ x.kind \in Published /\ x.stream \in subs[c]
        /\ x.epoch = ring[x.stream].epoch /\ x.kind = ring[x.stream].kind
        /\ cursor[c][x.stream] < x.seq /\ x.seq <= ring[x.stream].seq
        /\ x.key = published[x.stream][x.seq]
    BY DEF DueTo
  <2>2. /\ x.epoch = ring'[x.stream].epoch /\ x.kind = ring'[x.stream].kind /\ x.seq <= ring'[x.stream].seq
        /\ x.key = published'[x.stream][x.seq]
    <3>1. CASE x.stream = k
      <4>1. x.seq \in 1..ring[k].seq /\ ring[k] # NoRing BY <1>8, <3>1
      <4> QED BY <1>2, <1>4, <2>1, <3>1, <4>1 DEF Advances
    <3>2. CASE x.stream # k BY <1>7, <2>1, <3>2 DEF SameHead
    <3> QED BY <3>1, <3>2
  <2> QED BY <1>6, <2>1, <2>2 DEF DueTo
<1>10. CursorsWithin(c)'
  <2> SUFFICES ASSUME NEW j \in subs[c] PROVE cursor[c][j] <= ring'[j].seq BY DEF CursorsWithin
  <2>1. cursor[c][j] <= ring[j].seq BY <1>1 DEF Served, CursorsWithin
  <2>2. CASE j = k BY <1>2, <1>4, <2>1, <2>2 DEF Advances
  <2>3. CASE j # k BY <1>7, <2>1, <2>3 DEF SameHead
  <2> QED BY <2>2, <2>3
<1>11. /\ out'[c] = IF c \in subscribers[k] THEN Push(out[c], it) ELSE out[c]
       /\ c \notin closing' => c \notin closing /\ (c \in subscribers[k] => Takes(out[c], it))
  BY <1>1, <1>3, Delivered
<1>12. Serves(out[c], DueTo(c)') BY <1>1, <1>9, ServesMore DEF Served
<1>13. CASE c \notin subscribers[k] BY <1>1, <1>10, <1>11, <1>12, <1>13 DEF Served
<1>14. CASE c \in subscribers[k]
  <2>1. it \in DueTo(c)'
    <3>1. cursor[c][k] <= ring[k].seq BY <1>1, <1>5, <1>14 DEF Served, CursorsWithin
    <3>2. /\ it \in Item /\ it.kind \in Published /\ it.stream = k /\ it.stream \in subs[c]
          /\ it.epoch = ring'[k].epoch /\ it.kind = ring'[k].kind /\ it.seq = ring'[k].seq
          /\ cursor[c][k] < it.seq /\ it.key = published'[k][it.seq]
      BY <1>2, <1>4, <1>5, <1>14, <3>1 DEF Advances, IsEnvelope
    <3>3. it.seq <= ring'[k].seq BY <1>2, <1>4, <3>2 DEF Advances
    <3> QED BY <1>6, <3>2, <3>3 DEF DueTo
  <2>2. \A x \in Queued(out[c]) : x.stream = it.stream => x.seq < it.seq
    <3> SUFFICES ASSUME NEW x \in Queued(out[c]), x.stream = it.stream PROVE x.seq < it.seq OBVIOUS
    <3>1. x \in Item BY <1>4, QueuedAreItems
    <3>2. x.stream = k /\ it.seq = ring[k].seq + 1 BY <1>2 DEF IsEnvelope
    <3>3. x.kind \in Published BY <3>1, <3>2, PublishedHasStream, NoStreamIsNone
    <3>4. x \in DueTo(c) BY <1>1, <3>3 DEF Served, Serves
    <3> QED BY <1>4, <1>8, <3>2, <3>4
  <2>3. it \in Item BY <1>2 DEF IsEnvelope
  <2>4. Serves(Push(out[c], it), DueTo(c)') BY <1>4, <1>12, <2>1, <2>2, <2>3, PushServes
  <2> QED BY <1>10, <1>11, <1>14, <2>4 DEF Served, Takes
<1> QED BY <1>13, <1>14

LEMMA PublishServed ==
  ASSUME DeliveryInv, NEW d \in Conns, NEW ch \in Channels, NEW kind \in Published, NEW key \in Keys \cup {NoKey},
         Publish(d, ch, kind, key), NEW c \in conns
  PROVE  Served(c)' /\ RingsKeyed'
<1> DEFINE k == <<AccountOf(d), PrincipalOf(d), ch>>
<1>1. IInv /\ TypeOK /\ KeepInv /\ RingsKeyed /\ Served(c) /\ d \in conns
  BY DEF DeliveryInv, KeepInv, IInv, Publish
<1>2. k \in Streams /\ PrincipalOf(d) \in Principals BY <1>1, PeerParts DEF Streams, AccountOf, PrincipalOf
<1>3. UNCHANGED <<conns, subs, cursor, filling>> /\ filling = NoFill BY DEF Publish, connVars, Idle
<1>4. CASE CloseConn(d) /\ UNCHANGED streamVars
  <2>1. closing' = closing \cup {d} /\ UNCHANGED <<out, ring, published>> BY <1>4 DEF CloseConn, streamVars
  <2>2. \A j : FillSeqs(c, j)' = FillSeqs(c, j) BY <1>3 DEF FillSeqs
  <2>3. DueTo(c) \subseteq DueTo(c)' /\ (CursorsWithin(c) => CursorsWithin(c)') BY <1>3, <2>1, <2>2, StillDue
  <2>4. Serves(out'[c], DueTo(c)') BY <1>1, <2>1, <2>3, ServesMore DEF Served
  <2> QED BY <1>1, <2>1, <2>3, <2>4 DEF Served, RingsKeyed
<1>5. CASE Enqueue(d, "answer", PrincipalOf(d)) /\ UNCHANGED streamVars
  <2>1. UNCHANGED <<ring, published>> BY <1>5 DEF streamVars
  <2>2. Served(c)' BY <1>1, <1>2, <1>3, <1>5, <2>1, EnqueueServed DEF Plain
  <2> QED BY <1>1, <2>1, <2>2 DEF RingsKeyed
<1>6. ASSUME NEW victim \in Evictable(k), PublishTo(d, k, kind, key, victim), ring[k] = NoRing \/ ring[k].kind = kind
      PROVE  Served(c)' /\ RingsKeyed'
  <2> HIDE DEF k
  <2>1. Served(c)' BY <1>2, <1>3, <1>6, PublishToServed
  <2>2. RingsKeyed' BY <1>1, <1>2, <1>6, PublishAdvances
  <2> QED BY <2>1, <2>2
<1> QED BY <1>4, <1>5, <1>6 DEF Publish

-----------------------------------------------------------------------------
LEMMA NextDelivery == DeliveryInv /\ [Next]_vars => DeliveryInv'
<1> SUFFICES ASSUME DeliveryInv, [Next]_vars PROVE DeliveryInv' OBVIOUS
<1> DEFINE Done == RingsKeyed' /\ FillIsTail' /\ \A c \in conns' : Served(c)'
<1>0. IInv /\ TypeOK /\ KeepInv /\ RingsKeyed /\ FillIsTail /\ KeepInv' /\ conns \subseteq Conns
  BY NextKeeps DEF DeliveryInv, KeepInv, IInv, TypeOK
<1> SUFFICES Done BY <1>0 DEF DeliveryInv
<1>a. UNCHANGED <<ring, published>> => RingsKeyed' BY <1>0 DEF RingsKeyed
<1>b. filling' = NoFill => FillIsTail' BY DEF FillIsTail
<1>1. ASSUME NEW a \in Accounts, NEW p \in Principals, Connect(a, p) PROVE Done
  <2>1. UNCHANGED <<ring, published>> /\ filling' = NoFill BY <1>1 DEF Connect, streamVars, Idle
  <2> QED BY <1>1, <1>a, <1>b, <2>1, ConnectServed
<1>2. ASSUME NEW d \in Conns, Disconnect(d) \/ FinishClose(d) PROVE Done
  <2>1. d \in conns /\ Forget(d) /\ filling = NoFill BY <1>0, <1>2 DEF Disconnect, FinishClose, TypeOK, Idle
  <2>2. UNCHANGED <<ring, published, filling>> BY <2>1 DEF Forget
  <2> QED BY <1>a, <1>b, <2>1, <2>2, ForgetServed
<1>3. ASSUME NEW d \in Conns, Answer(d) PROVE Done
  <2>1. UNCHANGED <<conns, ring, published>> /\ filling' = NoFill BY <1>3 DEF Answer, connVars, streamVars, Idle
  <2> QED BY <1>0, <1>3, <1>a, <1>b, <2>1, AnswerServed DEF DeliveryInv
<1>4. ASSUME NEW d \in Conns, Offend(d) PROVE Done
  <2>1. UNCHANGED <<conns, ring, published>> /\ filling' = NoFill BY <1>4 DEF Offend, connVars, streamVars, Idle
  <2> QED BY <1>0, <1>4, <1>a, <1>b, <2>1, OffendServed DEF DeliveryInv
<1>5. ASSUME NEW d \in Conns, NEW p \in Principals, Direct(d, p) PROVE Done
  <2>1. UNCHANGED <<conns, ring, published>> /\ filling' = NoFill BY <1>5 DEF Direct, connVars, streamVars, Idle
  <2> QED BY <1>0, <1>5, <1>a, <1>b, <2>1, DirectServed DEF DeliveryInv
<1>6. ASSUME NEW d \in Conns, NEW ch \in Channels, NEW kind \in Published, NEW key \in Keys \cup {NoKey},
             Publish(d, ch, kind, key)
      PROVE  Done
  <2>1. conns' = conns /\ filling' = NoFill /\ d \in conns BY <1>6 DEF Publish, connVars, Idle
  <2> QED BY <1>6, <1>b, <2>1, PublishServed
<1>7. ASSUME NEW d \in Conns, NEW k \in Streams, NEW since \in Sinces(k), Subscribe(d, k, since) PROVE Done
  <2>1. conns' = conns /\ d \in conns BY <1>7 DEF Subscribe, connVars
  <2> QED BY <1>7, <2>1, SubscribeServed
<1>8. ASSUME NEW d \in Conns, NEW k \in Streams, Unsubscribe(d, k) PROVE Done
  <2>1. UNCHANGED <<conns, ring, published>> /\ filling' = NoFill BY <1>8 DEF Unsubscribe, connVars, Idle
  <2> QED BY <1>8, <1>a, <1>b, <2>1, UnsubscribeServed
<1>9. ASSUME NEW d \in Conns, TakeOutbound(d) PROVE Done
  <2>1. UNCHANGED <<conns, ring, published>> /\ filling' = NoFill BY <1>9 DEF TakeOutbound, connVars, streamVars, Idle
  <2> QED BY <1>9, <1>a, <1>b, <2>1, TakeOutboundServed
<1>10. CASE BackfillEntry
  <2>1. UNCHANGED <<conns, ring, published>> /\ filling # NoFill BY <1>10 DEF BackfillEntry, connVars, streamVars
  <2>2. filling.conn \in conns BY <1>0, <2>1, FillingParts
  <2> QED BY <1>10, <1>a, <2>1, <2>2, BackfillEntryServed
<1>11. CASE Backfilled
  <2>1. UNCHANGED <<conns, ring, published>> /\ filling' = NoFill BY <1>11 DEF Backfilled, connVars, streamVars
  <2> QED BY <1>11, <1>a, <1>b, <2>1, BackfilledServed
<1>12. CASE UNCHANGED vars
  <2>1. UNCHANGED <<conns, closing, out, subs, cursor, ring, published, filling>>
    BY <1>12 DEF vars, connVars, queueVars, streamVars
  <2>2. FillIsTail' BY <1>0, <2>1 DEF FillIsTail
  <2>3. ASSUME NEW c \in conns PROVE Served(c)'
    <3>1. Served(c) BY DEF DeliveryInv
    <3>2. \A j : FillSeqs(c, j)' = FillSeqs(c, j) BY <2>1 DEF FillSeqs
    <3>3. DueTo(c) \subseteq DueTo(c)' /\ (CursorsWithin(c) => CursorsWithin(c)') BY <2>1, <3>2, StillDue
    <3>4. Serves(out'[c], DueTo(c)') BY <2>1, <3>1, <3>3, ServesMore DEF Served
    <3> QED BY <2>1, <3>1, <3>3, <3>4 DEF Served
  <2> QED BY <1>a, <2>1, <2>2, <2>3
<1> QED BY <1>1, <1>2, <1>3, <1>4, <1>5, <1>6, <1>7, <1>8, <1>9, <1>10, <1>11, <1>12 DEF Next

\* Every queue is in order and is what its counters say, for any number of
\* connections and streams and all limits: an envelope queued is of a stream still
\* subscribed to, of the ring as it is, past what was delivered, before what a
\* backfill has left and in seq order; the counters beside the queue count it, and
\* only a connection being closed is over its bound.
THEOREM QueuesAreSound == Spec => []QueueSound
<1>1. Init => DeliveryInv BY InitDelivery
<1>2. DeliveryInv /\ [Next]_vars => DeliveryInv' BY NextDelivery
<1>3. DeliveryInv => QueueSound
  <2> SUFFICES ASSUME DeliveryInv PROVE QueueSound OBVIOUS
  <2>1. \A c \in conns : Served(c) BY DEF DeliveryInv
  <2>2. QueueAccounted BY <2>1 DEF QueueAccounted, Served, Serves, Bounded, Counted, Steady
  <2>3. InSeqOrder
    <3> SUFFICES ASSUME NEW c \in conns
                 PROVE  LET it == out[c].items IN
                        /\ \A i \in DOMAIN it : it[i].kind \in Published =>
                             LET k == it[i].stream IN
                             /\ k \in subs[c] /\ it[i].epoch = ring[k].epoch /\ it[i].kind = ring[k].kind
                             /\ cursor[c][k] < it[i].seq /\ it[i].seq <= ring[k].seq
                             /\ \A n \in FillSeqs(c, k) : it[i].seq < n
                        /\ \A i, j \in DOMAIN it :
                             i < j /\ it[i].kind \in Published /\ it[j].stream = it[i].stream => it[i].seq < it[j].seq
      BY DEF InSeqOrder
    <3>1. Ordered(out[c]) BY <2>1 DEF Served, Serves
    <3>2. \A i \in DOMAIN out[c].items : out[c].items[i].kind \in Published => out[c].items[i] \in DueTo(c)
      BY <2>1 DEF Served, Serves, Queued
    <3> QED BY <3>1, <3>2 DEF Ordered, DueTo
  <2> QED BY <2>2, <2>3 DEF QueueSound
<1> QED BY <1>1, <1>2, <1>3, PTL DEF Spec

-----------------------------------------------------------------------------
\* What a queue says of who is online.

Presence(it, p) == it.kind \in {"online", "offline"} /\ it.about = p
Said(q, p) == {i \in DOMAIN q.items : Presence(q.items[i], p)}

\* What a peer with this view, and this queue still to come, ends up with.
Told(q, view, p) ==
  IF Said(q, p) = {} THEN p \in view
  ELSE q.items[CHOOSE i \in Said(q, p) : \A j \in Said(q, p) : j <= i].kind = "online"

LEMMA LastWordIsTold == \A c, p : LastWord(c, p) <=> Told(out[c], directory[c], p)
<1> SUFFICES ASSUME NEW c, NEW p PROVE LastWord(c, p) <=> Told(out[c], directory[c], p) OBVIOUS
<1>1. Said(out[c], p) = {i \in DOMAIN out[c].items : /\ out[c].items[i].kind \in {"online", "offline"}
                                                     /\ out[c].items[i].about = p}
  BY DEF Said, Presence
<1> QED BY <1>1, Zenon DEF LastWord, Told

\* The last of some indices exists, and is what the word is.
LEMMA LastSaid ==
  ASSUME NEW q \in Queues, NEW p, Said(q, p) # {}
  PROVE  \E n \in Said(q, p) : \A j \in Said(q, p) : j <= n
<1>1. Len(q.items) \in Nat /\ DOMAIN q.items = 1..Len(q.items) BY QueueParts
<1>2. \A i \in Said(q, p) : i \in 1..Len(q.items) BY <1>1 DEF Said
<1> DEFINE T == {Len(q.items) - i : i \in Said(q, p)}
<1>3. T \in SUBSET Nat /\ T # {} BY <1>1, <1>2
<1>4. PICK m \in T : \A n \in T : m <= n BY <1>3, LeastNatural
<1>5. PICK i \in Said(q, p) : m = Len(q.items) - i BY <1>4
<1>6. \A j \in Said(q, p) : Len(q.items) - j \in T OBVIOUS
<1>7. \A j \in Said(q, p) : m <= Len(q.items) - j BY <1>4, <1>6
<1>8. \A j \in Said(q, p) : j <= i
  <2> HIDE DEF T
  <2> QED BY <1>1, <1>2, <1>5, <1>7
<1> QED BY <1>8

LEMMA SaysLast ==
  ASSUME NEW q \in Queues, NEW p, NEW view, NEW n \in Said(q, p), \A j \in Said(q, p) : j <= n
  PROVE  Told(q, view, p) <=> q.items[n].kind = "online"
<1>1. \A i \in Said(q, p) : i \in Nat BY QueueParts DEF Said
<1> DEFINE P(i) == \A j \in Said(q, p) : j <= i
<1>2. \A i \in Said(q, p) : P(i) => i = n BY <1>1
<1>3. P(n) OBVIOUS
<1>4. (CHOOSE i \in Said(q, p) : P(i)) = n
  <2> HIDE DEF P
  <2> QED BY <1>2, <1>3
<1> QED BY <1>4 DEF Told

\* Taking out what says nothing of p leaves the last word.
LEMMA ToldThins ==
  ASSUME NEW q \in Queues, NEW r \in Queues, NEW p, NEW view, NEW I \in SUBSET DOMAIN q.items, NEW f,
         Thins(q.items, r.items, I, f), Said(q, p) \subseteq I
  PROVE  Told(r, view, p) <=> Told(q, view, p)
<1>1. /\ f \in [DOMAIN r.items -> I]
      /\ \A i, j \in DOMAIN r.items : i < j => f[i] < f[j]
      /\ \A n \in I : \E i \in DOMAIN r.items : f[i] = n
      /\ \A i \in DOMAIN r.items : r.items[i] = q.items[f[i]]
  BY DEF Thins
<1>2. \A i \in DOMAIN r.items : i \in Said(r, p) <=> f[i] \in Said(q, p) BY <1>1 DEF Said
<1>3. CASE Said(q, p) = {}
  <2>1. Said(r, p) = {} BY <1>2, <1>3 DEF Said
  <2> QED BY <1>3, <2>1 DEF Told
<1>4. CASE Said(q, p) # {}
  <2>1. PICK n \in Said(q, p) : \A j \in Said(q, p) : j <= n BY <1>4, LastSaid
  <2>2. PICK i \in DOMAIN r.items : f[i] = n BY <1>1, <2>1
  <2>3. i \in Said(r, p) BY <1>2, <2>1, <2>2
  <2>4. \A j \in Said(r, p) : j <= i
    <3> SUFFICES ASSUME NEW j \in Said(r, p), ~(j <= i) PROVE FALSE OBVIOUS
    <3>1. j \in DOMAIN r.items /\ j \in Nat /\ i \in Nat BY QueueParts DEF Said
    <3>2. f[i] < f[j] /\ f[j] \in Said(q, p) BY <1>1, <1>2, <3>1
    <3>3. f[j] <= n /\ f[j] \in Nat /\ n \in Nat BY <2>1, <3>2, QueueParts DEF Said
    <3> QED BY <2>2, <3>2, <3>3
  <2>5. Told(q, view, p) <=> q.items[n].kind = "online" BY <2>1, SaysLast
  <2>6. Told(r, view, p) <=> r.items[i].kind = "online" BY <2>3, <2>4, SaysLast
  <2> QED BY <1>1, <2>2, <2>5, <2>6
<1> QED BY <1>3, <1>4

LEMMA ToldAdd ==
  ASSUME NEW q \in Queues, NEW it \in Item, NEW view, NEW p
  PROVE  Told(Add(q, it), view, p) <=> IF Presence(it, p) THEN it.kind = "online" ELSE Told(q, view, p)
<1> DEFINE r == Add(q, it)
           n == Len(q.items) + 1
<1>1. r \in Queues /\ q.items \in Seq(Item) /\ r.items = Append(q.items, it) BY AddType, AddParts, QueueParts
<1> HIDE DEF r
<1>2. /\ Len(q.items) \in Nat /\ DOMAIN q.items = 1..Len(q.items) /\ DOMAIN r.items = 1..n
      /\ \A i \in 1..n : r.items[i] = IF i = n THEN it ELSE q.items[i]
  BY <1>1
<1>3. n \in DOMAIN r.items /\ r.items[n] = it /\ \A i \in DOMAIN r.items : i <= n BY <1>2
<1>4. CASE Presence(it, p)
  <2>1. n \in Said(r, p) /\ \A j \in Said(r, p) : j <= n BY <1>3, <1>4 DEF Said
  <2>2. Told(r, view, p) <=> r.items[n].kind = "online" BY <1>1, <2>1, SaysLast
  <2> QED BY <1>3, <1>4, <2>2 DEF r
<1>5. CASE ~Presence(it, p)
  <2>1. \A i \in DOMAIN q.items : i \in DOMAIN r.items /\ r.items[i] = q.items[i] BY <1>2
  <2>2. \A i \in DOMAIN r.items : i = n \/ i \in DOMAIN q.items BY <1>2
  <2>3. Said(r, p) = Said(q, p)
    <3> HIDE DEF n
    <3> QED BY <1>3, <1>5, <2>1, <2>2 DEF Said
  <2>4. CASE Said(q, p) = {} BY <1>5, <2>3, <2>4 DEF Told, r
  <2>5. CASE Said(q, p) # {}
    <3>1. PICK m \in Said(q, p) : \A j \in Said(q, p) : j <= m BY <2>5, LastSaid
    <3>2. Told(q, view, p) <=> q.items[m].kind = "online" BY <3>1, SaysLast
    <3>3. Told(r, view, p) <=> r.items[m].kind = "online" BY <1>1, <2>3, <3>1, SaysLast
    <3>4. r.items[m] = q.items[m] BY <2>1, <3>1 DEF Said
    <3> QED BY <1>5, <3>2, <3>3, <3>4 DEF r
  <2> QED BY <2>4, <2>5
<1> QED BY <1>4, <1>5

LEMMA ToldRemove ==
  ASSUME NEW q \in Queues, NEW r \in Queues, NEW i \in DOMAIN q.items, q.items[i].kind = "telemetry",
         r.items = RemoveItem(q, i).items, NEW view, NEW p
  PROVE  Told(r, view, p) <=> Told(q, view, p)
<1>1. PICK f : Thins(q.items, RemoveItem(q, i).items, DOMAIN q.items \ {i}, f) BY RemoveItemThins
<1>2. Said(q, p) \subseteq DOMAIN q.items \ {i} BY DEF Said, Presence
<1> QED BY <1>1, <1>2, ToldThins

\* So a push tells what it pushes, if it is presence, and nothing else.
LEMMA ToldPush ==
  ASSUME NEW q \in Queues, NEW it \in Item, NEW view, NEW p
  PROVE  Told(Push(q, it), view, p) <=> IF Presence(it, p) THEN it.kind = "online" ELSE Told(q, view, p)
<1>1. CASE SessionFull(q, it)
  <2>1. Push(q, it) = q /\ ~Presence(it, p) BY <1>1 DEF Push, SessionFull, Presence
  <2> QED BY <2>1
<1>2. CASE ~SessionFull(q, it) /\ it.kind # "telemetry"
  <2>1. Push(q, it) = Add(q, it) BY <1>2 DEF Push
  <2> QED BY <2>1, ToldAdd
<1>3. CASE it.kind = "telemetry"
  <2> DEFINE c == Coalesce(q, it)
             m == MakeRoom(c)
  <2>1. c \in Queues BY MakeRoomType
  <2>2. Told(c, view, p) <=> Told(q, view, p)
    <3>1. CASE c = q BY <3>1
    <3>2. ASSUME NEW i \in CoalesceTargets(q, it), i \in DOMAIN q.items, c = RemoveItem(q, i)
          PROVE  Told(c, view, p) <=> Told(q, view, p)
      <4>1. q.items[i].kind = "telemetry" BY <3>2 DEF CoalesceTargets
      <4> QED BY <2>1, <3>2, <4>1, ToldRemove
    <3> QED BY <3>1, <3>2, CoalesceShape
  <2> HIDE DEF c
  <2>3. m \in Queues BY <2>1, MakeRoomType
  <2>4. Told(m, view, p) <=> Told(c, view, p)
    <3>1. CASE m = c BY <3>1
    <3>2. ASSUME NEW i \in DOMAIN c.items, Dropped(c, m, i) PROVE Told(m, view, p) <=> Told(c, view, p)
      <4>1. m.items = RemoveItem(c, i).items /\ c.items[i].kind = "telemetry" BY <3>2 DEF Dropped, IndicesOf
      <4> HIDE DEF m
      <4> QED BY <2>1, <2>3, <4>1, ToldRemove
    <3> QED BY <2>1, <3>1, <3>2, MakeRoomShape
  <2>5. Push(q, it) = Add(m, it) BY <1>3 DEF Push, SessionFull, c
  <2> HIDE DEF m
  <2> QED BY <2>2, <2>3, <2>4, <2>5, ToldAdd
<1> QED BY <1>1, <1>2, <1>3

LEMMA ToldPurge ==
  ASSUME NEW q \in Queues, NEW k \in Streams, NEW view, NEW p
  PROVE  Told(PurgeStream(q, k), view, p) <=> Told(q, view, p)
<1> DEFINE I == {i \in DOMAIN q.items : q.items[i].stream # k}
<1>1. PurgeStream(q, k) \in Queues /\ I \in SUBSET DOMAIN q.items BY PurgeStreamType
<1>2. PICK f : Thins(q.items, PurgeStream(q, k).items, I, f) BY PurgeThins
<1>3. Said(q, p) \subseteq I
  <2> SUFFICES ASSUME NEW i \in Said(q, p) PROVE i \in I OBVIOUS
  <2>1. i \in DOMAIN q.items /\ q.items[i] \in Item /\ q.items[i].kind \in {"online", "offline"}
    BY QueueParts DEF Said, Presence
  <2>2. q.items[i].kind \notin Published BY <2>1 DEF Published
  <2> QED BY <2>1, <2>2, PublishedHasStream, NoStreamIsNone
<1> HIDE DEF I
<1> QED BY <1>1, <1>2, <1>3, ToldThins

\* What is taken is learnt, which leaves the last word where it was.
LEMMA ToldTake ==
  ASSUME NEW q \in Queues, q.items # <<>>, NEW view, NEW p
  PROVE  Told(TakeFrame(q), Learn(view, Head(q.items)), p) <=> Told(q, view, p)
<1> DEFINE r == TakeFrame(q)
           it == q.items[1]
           I == DOMAIN q.items \ {1}
           learnt == Learn(view, it)
<1>1. 1 \in DOMAIN q.items /\ r.items = RemoveItem(q, 1).items /\ Head(q.items) = it BY TakeFrameParts
<1>2. r \in Queues BY TakeFrameType
<1>3. PICK f : Thins(q.items, r.items, I, f) BY <1>1, RemoveItemThins
<1>4. /\ f \in [DOMAIN r.items -> I]
      /\ \A n \in I : \E i \in DOMAIN r.items : f[i] = n
      /\ \A i \in DOMAIN r.items : r.items[i] = q.items[f[i]]
  BY <1>3 DEF Thins
<1>5. p \in learnt <=> IF Presence(it, p) THEN it.kind = "online" ELSE p \in view
  <2>1. CASE it.kind = "online" BY <2>1 DEF Learn, Presence
  <2>2. CASE it.kind = "offline" BY <2>2 DEF Learn, Presence
  <2>3. CASE it.kind \notin {"online", "offline"} BY <2>3 DEF Learn, Presence
  <2> QED BY <2>1, <2>2, <2>3
<1> HIDE DEF r, learnt
<1>6. CASE 1 \notin Said(q, p)
  <2>1. Said(q, p) \subseteq I BY <1>6 DEF Said
  <2>2. Told(r, learnt, p) <=> Told(q, learnt, p) BY <1>2, <1>3, <2>1, ToldThins
  <2>3. p \in learnt <=> p \in view BY <1>1, <1>5, <1>6 DEF Said
  <2>4. Told(q, learnt, p) <=> Told(q, view, p) BY <2>3 DEF Told
  <2> QED BY <1>1, <2>2, <2>4 DEF r, learnt
<1>7. CASE Said(q, p) = {1}
  <2>1. Said(r, p) = {} BY <1>4, <1>7 DEF Said
  <2>2. Told(r, learnt, p) <=> it.kind = "online" BY <1>5, <1>7, <2>1 DEF Told, Said
  <2>3. Told(q, view, p) <=> it.kind = "online" BY <1>7, SaysLast
  <2> QED BY <1>1, <2>2, <2>3 DEF r, learnt
<1>8. CASE 1 \in Said(q, p) /\ Said(q, p) # {1}
  <2>1. PICK n \in Said(q, p) : \A j \in Said(q, p) : j <= n BY <1>8, LastSaid
  <2>2. n # 1 /\ n \in I
    <3>1. PICK m \in Said(q, p) : m # 1 BY <1>8
    <3>2. m \in Nat /\ 1 <= m /\ n \in Nat /\ m <= n BY <2>1, <3>1, QueueParts DEF Said
    <3> QED BY <3>1, <3>2 DEF Said
  <2>3. PICK i \in DOMAIN r.items : f[i] = n BY <1>4, <2>2
  <2>4. i \in Said(r, p) BY <1>4, <2>1, <2>3 DEF Said
  <2>5. \A j \in Said(r, p) : j <= i
    <3> SUFFICES ASSUME NEW j \in Said(r, p), ~(j <= i) PROVE FALSE OBVIOUS
    <3>1. j \in DOMAIN r.items /\ j \in Nat /\ i \in Nat BY <1>2, <2>4, QueueParts DEF Said
    <3>2. f[i] < f[j] BY <1>3, <3>1 DEF Thins
    <3>3. f[j] \in Said(q, p) BY <1>4, <3>1 DEF Said
    <3>4. f[j] <= n /\ f[j] \in Nat /\ n \in Nat BY <2>1, <3>3, QueueParts DEF Said
    <3> QED BY <2>3, <3>2, <3>4
  <2>6. Told(q, view, p) <=> q.items[n].kind = "online" BY <2>1, SaysLast
  <2>7. Told(r, learnt, p) <=> r.items[i].kind = "online" BY <1>2, <2>4, <2>5, SaysLast
  <2>8. r.items[i] = q.items[n] BY <1>4, <2>3
  <2> QED BY <1>1, <2>6, <2>7, <2>8 DEF r, learnt
<1> QED BY <1>6, <1>7, <1>8

\* The welcome tells of everyone it lists.
LEMMA WelcomeTells ==
  ASSUME NEW p \in Principals, NEW S \in SUBSET Principals, NEW order \in Orders(S), NEW x
  PROVE  Told(WelcomeQueue(p, order), {}, x) <=> x \in S
<1> DEFINE q == WelcomeQueue(p, order)
           n == Cardinality(S)
<1>1. /\ DOMAIN q.items = 1..(1 + n) /\ n \in Nat /\ q.items[1] = Frame("welcome", p)
      /\ \A i \in 1..n : q.items[i + 1] = Frame("online", order[i])
  BY WelcomeParts
<1>2. q \in Queues BY WelcomeQueueType
<1>3. order \in [1..n -> S] /\ \A i, j \in 1..n : order[i] = order[j] => i = j
  <2>1. order \in [1..n -> S] BY DEF Orders
  <2>2. \A i, j \in DOMAIN order : order[i] = order[j] => i = j BY DEF Orders
  <2> QED BY <2>1, <2>2
<1>4. IsFiniteSet(S) BY FinitelyMany, FS_Subset
<1>5. \A y \in S : \E i \in 1..n : order[i] = y
  <2>1. order \in Injection(1..n, S) BY <1>3 DEF Injection, IsInjective
  <2>2. Cardinality(1..n) = n
    <3>1. 1 \in Int /\ n \in Int BY <1>1
    <3>2. Cardinality(1..n) = IF 1 > n THEN 0 ELSE n - 1 + 1 BY ONLY <3>1, FS_Interval
    <3> HIDE DEF n
    <3> QED BY <1>1, <3>2
  <2>3. order \in Surjection(1..n, S) BY <1>4, <2>1, <2>2, FS_Injection
  <2> QED BY <2>3 DEF Surjection
<1> HIDE DEF q, n
<1>6. \A i \in Said(q, x) : i - 1 \in 1..n /\ order[i - 1] = x /\ q.items[i].kind = "online"
  <2> SUFFICES ASSUME NEW i \in Said(q, x) PROVE i - 1 \in 1..n /\ order[i - 1] = x /\ q.items[i].kind = "online"
    OBVIOUS
  <2>1. i \in 1..(1 + n) /\ q.items[i].kind \in {"online", "offline"} /\ q.items[i].about = x BY <1>1 DEF Said, Presence
  <2>2. i # 1 BY <1>1, <2>1 DEF Frame
  <2>3. i - 1 \in 1..n /\ (i - 1) + 1 = i BY <1>1, <2>1, <2>2
  <2>4. q.items[(i - 1) + 1] = Frame("online", order[i - 1]) BY <1>1, <2>3
  <2>5. q.items[i] = Frame("online", order[i - 1]) BY <2>3, <2>4
  <2> QED BY <2>1, <2>3, <2>5 DEF Frame
<1>7. CASE x \in S
  <2>1. PICK i \in 1..n : order[i] = x BY <1>5, <1>7
  <2>2. i + 1 \in DOMAIN q.items BY <1>1
  <2>3. q.items[i + 1].kind = "online" /\ q.items[i + 1].about = x
    <3>1. q.items[i + 1] = Frame("online", x) BY <1>1, <2>1
    <3> QED BY <3>1 DEF Frame
  <2>4. i + 1 \in Said(q, x) BY <2>2, <2>3 DEF Said, Presence
  <2>5. PICK m \in Said(q, x) : \A j \in Said(q, x) : j <= m BY <1>2, <2>4, LastSaid
  <2>6. Told(q, {}, x) <=> q.items[m].kind = "online" BY <1>2, <2>5, SaysLast
  <2> QED BY <1>6, <1>7, <2>5, <2>6 DEF q
<1>8. CASE x \notin S
  <2>1. Said(q, x) = {} BY <1>3, <1>6, <1>8
  <2> QED BY <1>8, <2>1 DEF Told, q
<1> QED BY <1>7, <1>8

-----------------------------------------------------------------------------
\* The directories of the peers.

KnowsWho(c) ==
  \A p \in Principals \ {PrincipalOf(c)} :
    Told(out[c], directory[c], p) <=> online[<<AccountOf(c), p>>] # NoConn

DirectoryInv ==
  /\ IInv
  /\ \A c \in Conns \ conns : directory[c] = {}
  /\ \A c \in conns \ closing : KnowsWho(c)

\* A step that changes neither who is online nor the last word on anyone.
Undisturbed(c) ==
  /\ UNCHANGED <<peer, online>>
  /\ \A p : Told(out'[c], directory'[c], p) <=> Told(out[c], directory[c], p)
  /\ c \in closing => c \in closing'

LEMMA StillKnows ==
  ASSUME NEW c, Undisturbed(c), c \notin closing => KnowsWho(c), c \notin closing'
  PROVE  KnowsWho(c)'
<1>1. KnowsWho(c) /\ UNCHANGED <<peer, online>> BY DEF Undisturbed
<1>2. \A p : Told(out'[c], directory'[c], p) <=> Told(out[c], directory[c], p) BY DEF Undisturbed
<1>3. PrincipalOf(c)' = PrincipalOf(c) /\ AccountOf(c)' = AccountOf(c) BY <1>1 DEF PrincipalOf, AccountOf
<1> SUFFICES ASSUME NEW p \in Principals \ {PrincipalOf(c)}
             PROVE  Told(out'[c], directory'[c], p) <=> online'[<<AccountOf(c), p>>] # NoConn
  BY <1>3 DEF KnowsWho
<1>4. Told(out[c], directory[c], p) <=> online[<<AccountOf(c), p>>] # NoConn BY <1>1 DEF KnowsWho
<1> QED BY <1>1, <1>2, <1>4

\* Frames that are not presence disturb nobody.
LEMMA DeliverUndisturbed ==
  ASSUME TypeOK, NEW c \in conns, NEW D, NEW it \in Item, it.kind \notin {"online", "offline"},
         Deliver(out, D, it, {}, {}), UNCHANGED <<peer, online, directory>>
  PROVE  Undisturbed(c)
<1>1. c \in Conns /\ out[c] \in Queues BY DEF TypeOK
<1>2. out'[c] = IF c \in D THEN Push(out[c], it) ELSE out[c] BY <1>1, Delivered
<1>3. \A p : ~Presence(it, p) BY DEF Presence
<1>4. \A p : Told(Push(out[c], it), directory[c], p) <=> Told(out[c], directory[c], p) BY <1>1, <1>3, ToldPush
<1>5. c \in closing => c \in closing' BY DEF Deliver
<1>6. \A p : Told(out'[c], directory'[c], p) <=> Told(out[c], directory[c], p) BY <1>2, <1>4
<1> QED BY <1>5, <1>6 DEF Undisturbed

LEMMA EnqueueUndisturbed ==
  ASSUME TypeOK, NEW c \in conns, NEW d, NEW kind \in {"answer", "backfilled"}, NEW p \in Principals, Enqueue(d, kind, p),
         UNCHANGED <<peer, online, directory>>
  PROVE  Undisturbed(c)
<1>1. Frame(kind, p) \in Item /\ Frame(kind, p).kind = kind BY FrameIsItem DEF Frame, Plain
<1> QED BY <1>1, DeliverUndisturbed DEF Enqueue

LEMMA SameQueueUndisturbed ==
  ASSUME NEW c, out'[c] = out[c], closing \subseteq closing', UNCHANGED <<peer, online, directory>>
  PROVE  Undisturbed(c)
BY DEF Undisturbed

LEMMA DirectUndisturbed ==
  ASSUME TypeOK, NEW d \in Conns, NEW p \in Principals, Direct(d, p), NEW c \in conns
  PROVE  Undisturbed(c)
<1> DEFINE target == online[<<AccountOf(d), p>>]
           it     == Frame("direct", PrincipalOf(d))
           answer == Frame("answer", PrincipalOf(d))
           after  == [out EXCEPT ![target] = Push(@, it)]
<1>1. c \in Conns /\ d \in conns /\ closing = {} /\ out \in [Conns -> Queues] BY DEF TypeOK, Direct, Idle
<1>2. UNCHANGED <<peer, online, directory>> BY DEF Direct, connVars
<1>3. PrincipalOf(d) \in Principals /\ AccountOf(d) \in Accounts BY <1>1, PeerParts
<1>4. /\ it \in Item /\ answer \in Item
      /\ it.kind \notin {"online", "offline"} /\ answer.kind \notin {"online", "offline"}
  BY <1>3, FrameIsItem DEF Plain, Frame
<1>5. \/ target = NoConn /\ Deliver(out, {d}, answer, {}, {})
      \/ target # NoConn /\ Deliver(out, {target}, it, {}, {})
      \/ target # NoConn /\ out' = [after EXCEPT ![d] = Push(@, answer)]
  BY DEF Direct
<1>6. target # NoConn => target \in Conns BY <1>3 DEF TypeOK
<1> HIDE DEF it, answer, target
<1>7. CASE \E D, f : f \in {it, answer} /\ Deliver(out, D, f, {}, {})
  <2>1. PICK D, f : f \in {it, answer} /\ Deliver(out, D, f, {}, {}) BY <1>7
  <2>2. f \in Item /\ f.kind \notin {"online", "offline"} BY <1>4, <2>1
  <2> QED BY <1>2, <2>1, <2>2, DeliverUndisturbed
<1>8. CASE target # NoConn /\ out' = [after EXCEPT ![d] = Push(@, answer)]
  <2>1. target \in Conns /\ Push(out[target], it) \in Queues BY <1>1, <1>4, <1>6, <1>8, PushType
  <2>2. after \in [Conns -> Queues] BY <1>1, <2>1
  <2>3. after[c] = IF c = target THEN Push(out[c], it) ELSE out[c] BY <1>1
  <2>4. out'[c] = IF c = d THEN Push(after[c], answer) ELSE after[c] BY <1>1, <1>8, <2>2
  <2>5. \A x : ~Presence(it, x) /\ ~Presence(answer, x) BY <1>4 DEF Presence
  <2>6. \A x : Told(Push(out[c], it), directory[c], x) <=> Told(out[c], directory[c], x)
    BY <1>1, <1>4, <2>5, ToldPush
  <2>7. after[c] \in Queues BY <1>1, <2>2
  <2> HIDE DEF after
  <2>8. \A x : Told(Push(after[c], answer), directory[c], x) <=> Told(after[c], directory[c], x)
    BY <1>4, <2>5, <2>7, ToldPush
  <2>9. \A x : Told(out'[c], directory'[c], x) <=> Told(out[c], directory[c], x)
    BY <1>2, <2>3, <2>4, <2>6, <2>8
  <2> QED BY <1>1, <1>2, <2>9 DEF Undisturbed
<1> QED BY <1>5, <1>7, <1>8

LEMMA PublishUndisturbed ==
  ASSUME IInv, NEW d \in Conns, NEW ch \in Channels, NEW kind \in Published, NEW key \in Keys \cup {NoKey},
         Publish(d, ch, kind, key), NEW c \in conns
  PROVE  Undisturbed(c)
<1> DEFINE k == <<AccountOf(d), PrincipalOf(d), ch>>
<1>1. TypeOK /\ d \in conns BY DEF IInv, Publish
<1>2. k \in Streams /\ PrincipalOf(d) \in Principals BY <1>1, PeerParts DEF Streams, AccountOf, PrincipalOf
<1>3. UNCHANGED <<peer, online, directory>> BY DEF Publish, connVars
<1>4. CASE CloseConn(d) BY <1>3, <1>4, SameQueueUndisturbed DEF CloseConn
<1>5. CASE Enqueue(d, "answer", PrincipalOf(d)) BY <1>1, <1>2, <1>3, <1>5, EnqueueUndisturbed
<1>6. ASSUME NEW victim \in Evictable(k), PublishTo(d, k, kind, key, victim), ring[k] = NoRing \/ ring[k].kind = kind
      PROVE  Undisturbed(c)
  <2> HIDE DEF k
  <2> DEFINE it == Envelope(k, kind, key)
             new == NewerRing(k, kind, key)
  <2>1. Deliver(out, subscribers[k], it, {}, {}) BY <1>2, <1>6, PublishToParts, Zenon
  <2>2. new \in Rings /\ new.kind = kind /\ new.seq = ring[k].seq + 1 BY <1>1, <1>2, <1>6, NewerHead
  <2>3. ring[k].seq \in Nat BY <1>1, <1>2, RingOrNone DEF TypeOK
  <2>4. [seq |-> new.seq, key |-> key] \in Entries BY <2>2, <2>3 DEF Entries
  <2>5. it = PublishedItem(k, new, [seq |-> new.seq, key |-> key]) BY DEF Envelope
  <2> HIDE DEF new, it
  <2>6. it \in Item BY <1>2, <2>2, <2>4, <2>5, PublishedIsItem
  <2>7. it.kind \notin {"online", "offline"} BY <2>2, <2>5 DEF PublishedItem, Published
  <2> QED BY <1>1, <1>3, <2>1, <2>6, <2>7, DeliverUndisturbed
<1> QED BY <1>4, <1>5, <1>6 DEF Publish

LEMMA PurgeUndisturbed ==
  ASSUME TypeOK, NEW c \in conns, NEW d, NEW k \in Streams, out' = [out EXCEPT ![d] = PurgeStream(@, k)],
         UNCHANGED <<peer, online, directory, closing>>
  PROVE  Undisturbed(c)
<1>1. out \in [Conns -> Queues] /\ c \in Conns BY DEF TypeOK
<1>2. out'[c] = IF c = d THEN PurgeStream(out[c], k) ELSE out[c] BY <1>1
<1>3. \A p : Told(PurgeStream(out[c], k), directory[c], p) <=> Told(out[c], directory[c], p) BY <1>1, ToldPurge
<1>4. \A p : Told(out'[c], directory'[c], p) <=> Told(out[c], directory[c], p) BY <1>2, <1>3
<1> QED BY <1>4 DEF Undisturbed

LEMMA TakeUndisturbed ==
  ASSUME TypeOK, NEW d \in Conns, TakeOutbound(d), NEW c \in conns
  PROVE  Undisturbed(c) /\ \A b \in Conns \ conns : directory'[b] = directory[b]
<1> DEFINE q == out[d]
<1>1. /\ out \in [Conns -> Queues] /\ c \in Conns /\ directory \in [Conns -> SUBSET Principals]
      /\ d \in conns /\ UNCHANGED <<peer, online, closing>>
  BY DEF TypeOK, TakeOutbound, connVars
<1>2. CASE q.items = <<>>
  <2>1. UNCHANGED <<out, directory>> BY <1>2 DEF TakeOutbound
  <2> QED BY <1>1, <2>1, SameQueueUndisturbed
<1>3. CASE q.items # <<>>
  <2>1. /\ out' = [out EXCEPT ![d] = TakeFrame(q)]
        /\ directory' = [directory EXCEPT ![d] = Learn(@, Head(q.items))]
    BY <1>3 DEF TakeOutbound
  <2>2. \A b \in Conns \ conns : directory'[b] = directory[b] BY <1>1, <2>1
  <2>3. CASE c = d
    <3>1. out'[c] = TakeFrame(q) /\ directory'[c] = Learn(directory[c], Head(q.items)) /\ q \in Queues
      BY <1>1, <2>1, <2>3
    <3>2. \A p : Told(TakeFrame(q), Learn(directory[c], Head(q.items)), p) <=> Told(q, directory[c], p)
      BY <1>3, <3>1, ToldTake
    <3>3. \A p : Told(out'[c], directory'[c], p) <=> Told(out[c], directory[c], p) BY <2>3, <3>1, <3>2
    <3> QED BY <1>1, <2>2, <3>3 DEF Undisturbed
  <2>4. CASE c # d
    <3>1. out'[c] = out[c] /\ directory'[c] = directory[c] BY <1>1, <2>1, <2>4
    <3> QED BY <1>1, <2>2, <3>1 DEF Undisturbed
  <2> QED BY <2>3, <2>4
<1> QED BY <1>2, <1>3

LEMMA BackfillEntryUndisturbed ==
  ASSUME IInv, BackfillEntry, NEW c \in conns
  PROVE  Undisturbed(c)
<1> DEFINE d == filling.conn
           r == ring[filling.stream]
           it == PublishedItem(filling.stream, r, Head(filling.rest))
<1>1. /\ TypeOK /\ filling # NoFill /\ filling.rest # <<>> /\ out' = [out EXCEPT ![d] = Push(@, it)]
      /\ UNCHANGED <<peer, online, directory>> /\ closing \subseteq closing'
  BY DEF IInv, BackfillEntry, connVars
<1>2. filling.stream \in Streams /\ filling.rest \in Seq(Entries) /\ r \in Rings BY <1>1, FillingParts
<1>3. Head(filling.rest) \in Entries BY <1>1, <1>2
<1>4. it \in Item /\ it.kind = r.kind /\ r.kind \in Published
  BY <1>2, <1>3, PublishedIsItem, RingParts DEF PublishedItem, Published
<1> HIDE DEF it, d, r
<1>5. out \in [Conns -> Queues] /\ c \in Conns BY <1>1 DEF TypeOK
<1>6. out'[c] = IF c = d THEN Push(out[c], it) ELSE out[c] BY <1>1, <1>5
<1>7. \A p : ~Presence(it, p) BY <1>4 DEF Presence, Published
<1>8. \A p : Told(Push(out[c], it), directory[c], p) <=> Told(out[c], directory[c], p) BY <1>4, <1>5, <1>7, ToldPush
<1>9. \A p : Told(out'[c], directory'[c], p) <=> Told(out[c], directory[c], p) BY <1>1, <1>6, <1>8
<1> QED BY <1>1, <1>9 DEF Undisturbed

\* A newcomer knows who was online, and the others learn of it.
LEMMA ConnectKnows ==
  ASSUME DirectoryInv, NEW a \in Accounts, NEW p \in Principals, Connect(a, p), NEW c \in conns' \ closing'
  PROVE  KnowsWho(c)'
<1>1. IInv /\ TypeOK BY DEF DirectoryInv, IInv
<1>2. /\ nextConn \in Conns /\ nextConn \notin conns /\ conns' = conns \cup {nextConn}
      /\ peer' = [peer EXCEPT ![nextConn] = <<a, p>>] /\ online' = [online EXCEPT ![<<a, p>>] = nextConn]
      /\ UNCHANGED directory
  BY <1>1, BoundsAreNaturals DEF TypeOK, Connect, Conns
<1>3. PICK order \in Orders(OnlineIn(a)) :
        Deliver([out EXCEPT ![nextConn] = WelcomeQueue(p, order)], ConnsOf(a), Frame("online", p), {nextConn}, {})
  BY DEF Connect
<1> DEFINE q == [out EXCEPT ![nextConn] = WelcomeQueue(p, order)]
           it == Frame("online", p)
<1>4. it \in Item /\ it.kind = "online" /\ it.about = p BY FrameIsItem DEF Plain, Frame
<1>5. Deliver(q, ConnsOf(a), it, {nextConn}, {}) BY <1>3
<1>6. /\ out \in [Conns -> Queues] /\ peer \in [Conns -> (Accounts \X Principals) \cup {<<>>}]
      /\ online \in [Accounts \X Principals -> Conns \cup {NoConn}] /\ nextConn # NoConn /\ c \in Conns
  BY <1>1, <1>2 DEF TypeOK, Conns, NoConn
<1>7. \A b \in Accounts, x \in Principals :
        online'[<<b, x>>] # NoConn <=> (online[<<b, x>>] # NoConn \/ (b = a /\ x = p))
  BY <1>2, <1>6
<1>8. CASE c \in conns
  <2>1. q[c] = out[c] /\ peer'[c] = peer[c] BY <1>2, <1>6, <1>8
  <2> HIDE DEF q, it
  <2>2. /\ out'[c] = IF c \in ConnsOf(a) THEN Push(out[c], it) ELSE out[c]
        /\ c \notin closing
    BY <1>5, <1>6, <2>1, Delivered
  <2>3. KnowsWho(c) BY <1>8, <2>2 DEF DirectoryInv
  <2>4. AccountOf(c) \in Accounts /\ PrincipalOf(c)' = PrincipalOf(c) /\ AccountOf(c)' = AccountOf(c)
        /\ (c \in ConnsOf(a) <=> AccountOf(c) = a)
    BY <1>1, <1>8, <2>1, PeerParts DEF PrincipalOf, AccountOf, ConnsOf
  <2> SUFFICES ASSUME NEW x \in Principals \ {PrincipalOf(c)}
               PROVE  Told(out'[c], directory[c], x) <=> online'[<<AccountOf(c), x>>] # NoConn
    BY <1>2, <2>4 DEF KnowsWho
  <2>5. Told(out[c], directory[c], x) <=> online[<<AccountOf(c), x>>] # NoConn BY <2>3 DEF KnowsWho
  <2>6. online'[<<AccountOf(c), x>>] # NoConn <=> (online[<<AccountOf(c), x>>] # NoConn \/ (AccountOf(c) = a /\ x = p))
    BY <1>7, <2>4
  <2>7. Told(Push(out[c], it), directory[c], x) <=> IF x = p THEN TRUE ELSE Told(out[c], directory[c], x)
    <3>1. Presence(it, x) <=> x = p BY <1>4 DEF Presence
    <3> QED BY <1>4, <1>6, <3>1, ToldPush
  <2> QED BY <2>2, <2>4, <2>5, <2>6, <2>7
<1>9. CASE c = nextConn
  <2>1. q[c] = WelcomeQueue(p, order) /\ peer'[c] = <<a, p>> BY <1>2, <1>6, <1>9
  <2>2. c \notin ConnsOf(a) BY <1>2, <1>9 DEF ConnsOf
  <2> HIDE DEF q, it
  <2>3. out'[c] = WelcomeQueue(p, order) BY <1>5, <1>6, <2>1, <2>2, Delivered
  <2>4. directory'[c] = {} BY <1>2, <1>9 DEF DirectoryInv
  <2>5. PrincipalOf(c)' = p /\ AccountOf(c)' = a BY <2>1 DEF PrincipalOf, AccountOf
  <2> SUFFICES ASSUME NEW x \in Principals \ {p}
               PROVE  Told(out'[c], {}, x) <=> online'[<<a, x>>] # NoConn
    BY <2>4, <2>5 DEF KnowsWho
  <2>6. OnlineIn(a) \in SUBSET Principals /\ (x \in OnlineIn(a) <=> online[<<a, x>>] # NoConn) BY DEF OnlineIn
  <2>7. Told(WelcomeQueue(p, order), {}, x) <=> x \in OnlineIn(a) BY <2>6, WelcomeTells
  <2> QED BY <1>7, <2>3, <2>6, <2>7
<1> QED BY <1>2, <1>8, <1>9

\* The others of its account learn that a connection is gone.
LEMMA ForgetKnows ==
  ASSUME DirectoryInv, NEW d \in conns, Forget(d), NEW c \in conns' \ closing'
  PROVE  KnowsWho(c)'
<1> DEFINE others == ConnsOf(AccountOf(d)) \ {d}
           q == [out EXCEPT ![d] = EmptyQueue]
           it == Frame("offline", PrincipalOf(d))
<1>1. IInv /\ TypeOK /\ RegistryAgrees /\ c \in conns /\ c # d /\ c \in Conns BY DEF DirectoryInv, IInv, TypeOK, Forget
<1>2. /\ Deliver(q, others, it, {}, {d})
      /\ online' = [online EXCEPT ![peer[d]] = IF @ = d THEN NoConn ELSE @]
      /\ directory' = [directory EXCEPT ![d] = {}] /\ peer' = peer
  BY DEF Forget
<1>3. /\ PrincipalOf(d) \in Principals /\ AccountOf(d) \in Accounts /\ AccountOf(c) \in Accounts
      /\ peer[d] = <<AccountOf(d), PrincipalOf(d)>>
  BY <1>1, PeerParts DEF TypeOK, AccountOf, PrincipalOf
<1>4. it \in Item /\ it.kind = "offline" /\ it.about = PrincipalOf(d) BY <1>3, FrameIsItem DEF Plain, Frame
<1>5. q[c] = out[c] /\ directory'[c] = directory[c] /\ out[c] \in Queues BY <1>1, <1>2 DEF TypeOK
<1>6. online[peer[d]] = d /\ online \in [Accounts \X Principals -> Conns \cup {NoConn}] BY <1>1 DEF RegistryAgrees, TypeOK
<1>7. \A b \in Accounts, x \in Principals :
        online'[<<b, x>>] # NoConn <=> (online[<<b, x>>] # NoConn /\ ~(b = AccountOf(d) /\ x = PrincipalOf(d)))
  BY <1>2, <1>3, <1>6
<1>8. c \in others <=> AccountOf(c) = AccountOf(d) BY <1>1 DEF ConnsOf
<1>9. c \notin {d} BY <1>1
<1> HIDE DEF q, it, others
<1>10. out'[c] = (IF c \in others THEN Push(out[c], it) ELSE out[c]) /\ c \notin closing
  BY <1>1, <1>2, <1>5, <1>9, Delivered
<1>11. KnowsWho(c) BY <1>1, <1>10 DEF DirectoryInv
<1>12. PrincipalOf(c)' = PrincipalOf(c) /\ AccountOf(c)' = AccountOf(c) BY <1>2 DEF PrincipalOf, AccountOf
<1> SUFFICES ASSUME NEW x \in Principals \ {PrincipalOf(c)}
             PROVE  Told(out'[c], directory[c], x) <=> online'[<<AccountOf(c), x>>] # NoConn
  BY <1>5, <1>12 DEF KnowsWho
<1>13. Told(out[c], directory[c], x) <=> online[<<AccountOf(c), x>>] # NoConn BY <1>11 DEF KnowsWho
<1>14. online'[<<AccountOf(c), x>>] # NoConn <=>
         (online[<<AccountOf(c), x>>] # NoConn /\ ~(AccountOf(c) = AccountOf(d) /\ x = PrincipalOf(d)))
  BY <1>3, <1>7
<1>15. Told(Push(out[c], it), directory[c], x) <=> IF x = PrincipalOf(d) THEN FALSE ELSE Told(out[c], directory[c], x)
  <2>1. Presence(it, x) <=> x = PrincipalOf(d) BY <1>4 DEF Presence
  <2> QED BY <1>4, <1>5, <2>1, ToldPush
<1> QED BY <1>8, <1>10, <1>13, <1>14, <1>15

LEMMA InitDirectory == Init => DirectoryInv
<1> SUFFICES ASSUME Init PROVE DirectoryInv OBVIOUS
<1>1. IInv BY InitInv
<1> QED BY <1>1 DEF Init, DirectoryInv

LEMMA NextDirectory == DirectoryInv /\ [Next]_vars => DirectoryInv'
<1> SUFFICES ASSUME DirectoryInv, [Next]_vars PROVE DirectoryInv' OBVIOUS
<1> DEFINE Unset == \A c \in Conns \ conns' : directory'[c] = {}
           Known == \A c \in conns' \ closing' : KnowsWho(c)'
<1>0. IInv /\ TypeOK /\ IInv' /\ directory \in [Conns -> SUBSET Principals] BY NextInv DEF DirectoryInv, IInv, TypeOK
<1> SUFFICES Unset /\ Known BY <1>0 DEF DirectoryInv
<1>a. ASSUME \A c \in conns : Undisturbed(c), conns' = conns, \A b \in Conns \ conns : directory'[b] = directory[b]
      PROVE  Unset /\ Known
  <2>1. Unset BY <1>a DEF DirectoryInv
  <2>2. ASSUME NEW c \in conns' \ closing' PROVE KnowsWho(c)'
    <3>1. Undisturbed(c) /\ (c \notin closing => KnowsWho(c)) BY <1>a DEF DirectoryInv
    <3> QED BY <3>1, StillKnows
  <2> QED BY <2>1, <2>2
<1>1. ASSUME NEW a \in Accounts, NEW p \in Principals, Connect(a, p) PROVE Unset /\ Known
  <2>1. conns \subseteq conns' /\ directory' = directory BY <1>1 DEF Connect
  <2>2. Unset BY <2>1 DEF DirectoryInv
  <2> QED BY <1>1, <2>2, ConnectKnows
<1>2. ASSUME NEW d \in Conns, Disconnect(d) \/ FinishClose(d) PROVE Unset /\ Known
  <2>1. d \in conns /\ Forget(d) BY <1>0, <1>2 DEF Disconnect, FinishClose, TypeOK
  <2>2. conns' = conns \ {d} /\ directory' = [directory EXCEPT ![d] = {}] BY <2>1 DEF Forget
  <2>3. Unset BY <1>0, <2>2 DEF DirectoryInv
  <2> QED BY <2>1, <2>3, ForgetKnows
<1>3. ASSUME NEW d \in Conns, Answer(d) PROVE Unset /\ Known
  <2>1. UNCHANGED <<conns, peer, online, directory>> /\ d \in conns /\ Enqueue(d, "answer", PrincipalOf(d))
    BY <1>3 DEF Answer, connVars
  <2>2. PrincipalOf(d) \in Principals BY <1>0, <2>1, PeerParts
  <2> QED BY <1>0, <1>a, <2>1, <2>2, EnqueueUndisturbed
<1>4. ASSUME NEW d \in Conns, Offend(d) PROVE Unset /\ Known
  <2>1. UNCHANGED <<conns, peer, online, directory, out>> /\ closing \subseteq closing'
    BY <1>4 DEF Offend, CloseConn, connVars
  <2> QED BY <1>a, <2>1, SameQueueUndisturbed
<1>5. ASSUME NEW d \in Conns, NEW p \in Principals, Direct(d, p) PROVE Unset /\ Known
  <2>1. UNCHANGED <<conns, directory>> BY <1>5 DEF Direct, connVars
  <2> QED BY <1>0, <1>5, <1>a, <2>1, DirectUndisturbed
<1>6. ASSUME NEW d \in Conns, NEW ch \in Channels, NEW kind \in Published, NEW key \in Keys \cup {NoKey},
             Publish(d, ch, kind, key)
      PROVE  Unset /\ Known
  <2>1. UNCHANGED <<conns, directory>> BY <1>6 DEF Publish, connVars
  <2> QED BY <1>0, <1>6, <1>a, <2>1, PublishUndisturbed
<1>7. ASSUME NEW d \in Conns, NEW k \in Streams, NEW since \in Sinces(k), Subscribe(d, k, since) PROVE Unset /\ Known
  <2>1. UNCHANGED <<conns, peer, online, directory>> BY <1>7 DEF Subscribe, connVars
  <2>2. CASE CloseConn(d) BY <1>a, <2>1, <2>2, SameQueueUndisturbed DEF CloseConn
  <2>3. CASE out' = [out EXCEPT ![d] = PurgeStream(@, k)] /\ closing' = closing
    BY <1>0, <1>a, <2>1, <2>3, PurgeUndisturbed
  <2> QED BY <1>7, <2>2, <2>3 DEF Subscribe
<1>8. ASSUME NEW d \in Conns, NEW k \in Streams, Unsubscribe(d, k) PROVE Unset /\ Known
  <2>1. UNCHANGED <<conns, peer, online, directory, closing>> /\ out' = [out EXCEPT ![d] = PurgeStream(@, k)]
    BY <1>8 DEF Unsubscribe, connVars
  <2> QED BY <1>0, <1>a, <2>1, PurgeUndisturbed
<1>9. ASSUME NEW d \in Conns, TakeOutbound(d) PROVE Unset /\ Known
  <2>1. conns' = conns /\ d \in conns BY <1>0, <1>9 DEF TakeOutbound, connVars, TypeOK
  <2> QED BY <1>0, <1>9, <1>a, <2>1, TakeUndisturbed
<1>10. CASE BackfillEntry
  <2>1. UNCHANGED <<conns, directory>> BY <1>10 DEF BackfillEntry, connVars
  <2> QED BY <1>0, <1>10, <1>a, <2>1, BackfillEntryUndisturbed
<1>11. CASE Backfilled
  <2>1. /\ UNCHANGED <<conns, peer, online, directory>> /\ filling # NoFill
        /\ Enqueue(filling.conn, "backfilled", filling.stream[2])
    BY <1>11 DEF Backfilled, connVars
  <2>2. filling.stream[2] \in Principals BY <1>0, <2>1, FillingParts, StreamParts
  <2> QED BY <1>0, <1>a, <2>1, <2>2, EnqueueUndisturbed
<1>12. CASE UNCHANGED vars
  <2>1. UNCHANGED <<conns, peer, online, directory, out, closing>> BY <1>12 DEF vars, connVars, queueVars
  <2> QED BY <1>a, <2>1, SameQueueUndisturbed
<1> QED BY <1>1, <1>2, <1>3, <1>4, <1>5, <1>6, <1>7, <1>8, <1>9, <1>10, <1>11, <1>12 DEF Next

\* A peer that plays what it received and what is queued for it knows who else of its
\* account is online, for any number of principals and connections and all limits:
\* through connects, closes and the closes that presence itself causes, and whatever
\* the queue coalesces, drops or purges.
THEOREM DirectoriesConverge == Spec => []DirectoryConverges
<1>1. Init => DirectoryInv BY InitDirectory
<1>2. DirectoryInv /\ [Next]_vars => DirectoryInv' BY NextDirectory
<1>3. DirectoryInv => DirectoryConverges
  BY LastWordIsTold DEF DirectoryInv, KnowsWho, DirectoryConverges, Steady
<1> QED BY <1>1, <1>2, <1>3, PTL DEF Spec


-----------------------------------------------------------------------------
\* What is missing of one stream between two positions, and what is owed for it.

\* Past lo and up to hi, all but the seqs S are gone.
Gone(lo, hi, S) == ((lo + 1)..hi) \ S

\* Nothing of a session stream is gone. Of any other, what is gone and not in V (not
\* superseded) is at most the d counted, d is at most what is gone, and whatever is gone
\* past something still queued is superseded.
Ledger(kind, lo, hi, S, d, V) ==
  /\ kind = "session" => Gone(lo, hi, S) = {}
  /\ kind # "session" =>
       /\ Cardinality(Gone(lo, hi, S) \ V) <= d /\ d <= Cardinality(Gone(lo, hi, S))
       /\ \A n \in Gone(lo, hi, S) : \A s \in S : s < n => n \in V

LEMMA GoneIsFinite ==
  ASSUME NEW lo \in Nat, NEW hi \in Nat, NEW S, NEW V
  PROVE  /\ IsFiniteSet(Gone(lo, hi, S)) /\ Cardinality(Gone(lo, hi, S)) \in Nat
         /\ IsFiniteSet(Gone(lo, hi, S) \ V) /\ Cardinality(Gone(lo, hi, S) \ V) \in Nat
<1>1. IsFiniteSet((lo + 1)..hi) BY FS_Interval
<1>2. Gone(lo, hi, S) \in SUBSET ((lo + 1)..hi) /\ Gone(lo, hi, S) \ V \in SUBSET ((lo + 1)..hi) BY DEF Gone
<1> HIDE DEF Gone
<1>3. IsFiniteSet(Gone(lo, hi, S)) /\ IsFiniteSet(Gone(lo, hi, S) \ V) BY <1>1, <1>2, FS_Subset
<1> QED BY <1>3, FS_CardinalityType

LEMMA LedgerFresh ==
  ASSUME NEW kind, NEW lo \in Nat, NEW V
  PROVE  Ledger(kind, lo, lo, {}, 0, V)
<1>1. Gone(lo, lo, {}) = {} BY DEF Gone
<1>2. Gone(lo, lo, {}) \ V = {} BY <1>1
<1> QED BY <1>1, <1>2, FS_EmptySet DEF Ledger

\* More may be superseded.
LEMMA LedgerWider ==
  ASSUME NEW kind, NEW lo \in Nat, NEW hi \in Nat, NEW S, NEW d \in Nat, NEW V, NEW W, V \subseteq W,
         Ledger(kind, lo, hi, S, d, V)
  PROVE  Ledger(kind, lo, hi, S, d, W)
<1> DEFINE G == Gone(lo, hi, S)
<1>1. IsFiniteSet(G \ V) /\ Cardinality(G \ V) \in Nat /\ Cardinality(G \ W) \in Nat BY GoneIsFinite
<1>2. G \ W \in SUBSET (G \ V) OBVIOUS
<1>3. Cardinality(G \ W) <= Cardinality(G \ V) BY <1>1, <1>2, FS_Subset
<1> QED BY <1>1, <1>3 DEF Ledger

\* The newest is queued.
LEMMA LedgerAdd ==
  ASSUME NEW kind, NEW lo \in Nat, NEW hi \in Nat, NEW S, NEW d \in Nat, NEW V, lo <= hi,
         Ledger(kind, lo, hi, S, d, V)
  PROVE  Ledger(kind, lo, hi + 1, S \cup {hi + 1}, d, V)
<1>1. Gone(lo, hi + 1, S \cup {hi + 1}) = Gone(lo, hi, S) BY DEF Gone
<1>2. \A n \in Gone(lo, hi, S) : n <= hi /\ n \in Nat BY DEF Gone
<1> QED BY <1>1, <1>2 DEF Ledger

\* One leaves the queue without being sent: what is gone grows by it.
LEMMA GoneGrows ==
  ASSUME NEW lo \in Nat, NEW hi \in Nat, NEW S \in SUBSET ((lo + 1)..hi), NEW m \in S
  PROVE  /\ Gone(lo, hi, S \ {m}) = Gone(lo, hi, S) \cup {m} /\ m \notin Gone(lo, hi, S)
         /\ Cardinality(Gone(lo, hi, S \ {m})) = Cardinality(Gone(lo, hi, S)) + 1
<1>1. Gone(lo, hi, S \ {m}) = Gone(lo, hi, S) \cup {m} /\ m \notin Gone(lo, hi, S) BY DEF Gone
<1>2. IsFiniteSet(Gone(lo, hi, S)) BY GoneIsFinite
<1> QED BY <1>1, <1>2, FS_AddElement

\* Superseded: uncounted.
LEMMA LedgerSupersede ==
  ASSUME NEW kind, kind # "session", NEW lo \in Nat, NEW hi \in Nat, NEW S \in SUBSET ((lo + 1)..hi),
         NEW d \in Nat, NEW V, NEW m \in S, m \in V, Ledger(kind, lo, hi, S, d, V)
  PROVE  Ledger(kind, lo, hi, S \ {m}, d, V)
<1> DEFINE G == Gone(lo, hi, S)
           H == Gone(lo, hi, S \ {m})
<1>0. S \in SUBSET ((lo + 1)..hi) /\ m \in S OBVIOUS
<1>1. H = G \cup {m} /\ Cardinality(H) = Cardinality(G) + 1 /\ m \notin G BY ONLY <1>0, lo \in Nat, hi \in Nat, GoneGrows
<1>2. H \ V = G \ V BY <1>1
<1>3. Cardinality(G) \in Nat BY GoneIsFinite
<1>4. Cardinality(G \ V) <= d /\ d <= Cardinality(G) /\ \A n \in G : \A s \in S : s < n => n \in V BY DEF Ledger
<1> HIDE DEF G, H
<1>5. Cardinality(H \ V) <= d /\ d <= Cardinality(H) BY <1>1, <1>2, <1>3, <1>4
<1>6. \A n \in H : \A s \in S \ {m} : s < n => n \in V BY <1>1, <1>4
<1> QED BY <1>5, <1>6 DEF Ledger, H

\* Dropped, the oldest of its stream: counted.
LEMMA LedgerDrop ==
  ASSUME NEW kind, kind # "session", NEW lo \in Nat, NEW hi \in Nat, NEW S \in SUBSET ((lo + 1)..hi),
         NEW d \in Nat, NEW V, NEW m \in S, \A s \in S : m <= s, Ledger(kind, lo, hi, S, d, V)
  PROVE  Ledger(kind, lo, hi, S \ {m}, d + 1, V)
<1> DEFINE G == Gone(lo, hi, S)
           H == Gone(lo, hi, S \ {m})
<1>1. H = G \cup {m} /\ Cardinality(H) = Cardinality(G) + 1 /\ m \notin G BY GoneGrows
<1>2. Cardinality(G) \in Nat /\ IsFiniteSet(G \ V) /\ Cardinality(G \ V) \in Nat BY GoneIsFinite
<1>3. Cardinality(G \ V) <= d /\ d <= Cardinality(G) /\ \A n \in G : \A s \in S : s < n => n \in V BY DEF Ledger
<1> HIDE DEF G, H
<1>4. Cardinality(H \ V) <= Cardinality(G \ V) + 1
  <2>1. CASE m \in V
    <3>1. H \ V = G \ V BY <1>1, <2>1
    <3> QED BY <1>2, <3>1
  <2>2. CASE m \notin V
    <3>1. H \ V = (G \ V) \cup {m} BY <1>1, <2>2
    <3>2. Cardinality((G \ V) \cup {m}) = Cardinality(G \ V) + 1
      <4>1. m \notin G \ V BY <1>1
      <4> QED BY <1>2, <4>1, FS_AddElement
    <3> QED BY <1>2, <3>1, <3>2
  <2> QED BY <2>1, <2>2
<1>5. Cardinality(H \ V) \in Nat BY GoneIsFinite DEF H
<1>6. Cardinality(H \ V) <= d + 1 /\ d + 1 <= Cardinality(H) BY <1>1, <1>2, <1>3, <1>4, <1>5
<1>7. \A n \in H : \A s \in S \ {m} : s < n => n \in V
  <2>1. \A s \in S : s \in Nat OBVIOUS
  <2>2. \A s \in S \ {m} : ~(s < m) BY <2>1
  <2> QED BY <1>1, <1>3, <2>2
<1> QED BY <1>6, <1>7 DEF Ledger, H

\* The oldest is sent: what was gone before it was told with it.
LEMMA LedgerTake ==
  ASSUME NEW kind, NEW lo \in Nat, NEW hi \in Nat, NEW S \in SUBSET ((lo + 1)..hi), NEW d \in Nat, NEW e \in Nat,
         kind # "session" => e = 0,
         NEW V, NEW m \in S, \A s \in S : m <= s, Ledger(kind, lo, hi, S, d, V)
  PROVE  Ledger(kind, m, hi, S \ {m}, e, V)
<1> DEFINE G == Gone(lo, hi, S)
           H == Gone(m, hi, S \ {m})
<1>1. m \in Nat /\ lo < m /\ m <= hi OBVIOUS
<1>2. \A n \in H : n \in G /\ m < n BY <1>1 DEF Gone
<1>3. CASE kind = "session"
  <2>1. G = {} BY <1>3 DEF Ledger
  <2>2. H = {} BY <1>2, <2>1
  <2> QED BY <1>3, <2>2 DEF Ledger
<1>4. CASE kind # "session"
  <2>1. \A n \in G : \A s \in S : s < n => n \in V BY <1>4 DEF Ledger
  <2>2. \A n \in H : n \in V BY <1>2, <2>1
  <2> HIDE DEF G, H
  <2>3. H \ V = {} BY <2>2
  <2>4. Cardinality(H) \in Nat BY <1>1, GoneIsFinite DEF H
  <2>5. Cardinality(H \ V) = 0 BY <2>3, FS_EmptySet
  <2> QED BY <1>4, <2>2, <2>4, <2>5 DEF Ledger, H
<1> QED BY <1>3, <1>4

-----------------------------------------------------------------------------
\* What each queue operation does to the seqs queued of a stream.

Seqs(q, k) == {x.seq : x \in {y \in Queued(q) : y.stream = k}}

\* r is q less one item x, of which there is no other of its stream and seq.
Less(q, r, x) ==
  /\ x \in Queued(q)
  /\ \A k \in Streams : Seqs(r, k) = IF k = x.stream THEN Seqs(q, k) \ {x.seq} ELSE Seqs(q, k)

LEMMA RemoveSeqs ==
  ASSUME NEW q \in Queues, NEW r \in Queues, NEW i \in DOMAIN q.items, r.items = RemoveItem(q, i).items, Ordered(q),
         q.items[i].kind \in Published
  PROVE  Less(q, r, q.items[i])
<1> DEFINE x == q.items[i]
<1>1. x \in Queued(q) /\ x \in Item BY QueueParts DEF Queued
<1>2. Queued(r) = {q.items[j] : j \in DOMAIN q.items \ {i}}
  <2>1. Queued(r) = Queued(RemoveItem(q, i)) BY DEF Queued
  <2> QED BY <2>1, RemoveOrder
<1>3. ASSUME NEW j \in DOMAIN q.items \ {i}, q.items[j].stream = x.stream PROVE q.items[j].seq # x.seq
  <2>1. i \in Nat /\ j \in Nat /\ i # j BY QueueParts
  <2>2. q.items[j] \in Item BY QueueParts
  <2>3. x.stream # NoStream BY <1>1, PublishedHasStream
  <2>4. q.items[j].kind \in Published BY <1>3, <2>2, <2>3, PublishedHasStream
  <2>5. q.items[j].seq \in Nat /\ x.seq \in Nat BY <1>1, <2>2, <2>4, PublishedHasStream
  <2>6. q.items[i].seq < q.items[j].seq \/ q.items[j].seq < q.items[i].seq BY <1>3, <2>1, <2>4 DEF Ordered
  <2> QED BY <2>5, <2>6
<1>4. ASSUME NEW k \in Streams PROVE Seqs(r, k) = IF k = x.stream THEN Seqs(q, k) \ {x.seq} ELSE Seqs(q, k)
  <2>1. \A n : n \in Seqs(r, k) <=> \E j \in DOMAIN q.items \ {i} : q.items[j].stream = k /\ n = q.items[j].seq
    BY <1>2 DEF Seqs
  <2>2. \A n : n \in Seqs(q, k) <=> \E j \in DOMAIN q.items : q.items[j].stream = k /\ n = q.items[j].seq
    BY DEF Seqs, Queued
  <2>3. CASE k = x.stream
    <3>1. \A n : n \in Seqs(r, k) <=> n \in Seqs(q, k) \ {x.seq} BY <1>3, <2>1, <2>2, <2>3
    <3> QED BY <2>3, <3>1
  <2>4. CASE k # x.stream
    <3>1. \A n : n \in Seqs(r, k) <=> n \in Seqs(q, k) BY <2>1, <2>2, <2>4
    <3> QED BY <2>4, <3>1
  <2> QED BY <2>3, <2>4
<1> QED BY <1>1, <1>4 DEF Less

LEMMA AddSeqs ==
  ASSUME NEW q \in Queues, NEW it \in Item, NEW k \in Streams
  PROVE  /\ Seqs(Add(q, it), k) = IF it.stream = k THEN Seqs(q, k) \cup {it.seq} ELSE Seqs(q, k)
         /\ Add(q, it).dropped = q.dropped
<1>1. Queued(Add(q, it)) = Queued(q) \cup {it} BY AddOrder
<1>2. Add(q, it).dropped = q.dropped BY AddParts
<1> QED BY <1>1, <1>2 DEF Seqs

\* Everything queued of stream k is of one kind, between lo and hi.
Within(q, k, kind, lo, hi) ==
  /\ Seqs(q, k) \subseteq (lo + 1)..hi
  /\ \A x \in Queued(q) : x.stream = k => x.kind = kind

\* The books of stream k in queue q.
Balanced(q, k, kind, lo, hi, V) == Within(q, k, kind, lo, hi) /\ Ledger(kind, lo, hi, Seqs(q, k), q.dropped[k], V)

LEMMA DroppedIsNatural == \A q \in Queues : \A k \in Streams : q.dropped[k] \in Nat
BY DEF Queues

LEMMA StreamItem ==
  ASSUME NEW q \in Queues, NEW x \in Queued(q), x.stream \in Streams
  PROVE  x \in Item /\ x.kind \in Published /\ x.seq \in Nat
<1>1. x \in Item BY QueuedAreItems
<1>2. x.stream # NoStream BY NoStreamIsNone
<1> QED BY <1>1, <1>2, PublishedHasStream

\* Coalescing takes out what the new envelope supersedes.
LEMMA CoalesceBalanced ==
  ASSUME NEW q \in Queues, Ordered(q), NEW it \in Item, it.kind = "telemetry", NEW k \in Streams, NEW kind,
         NEW lo \in Nat, NEW hi \in Nat, NEW V, Balanced(q, k, kind, lo, hi, V),
         it.stream = k => \A x \in Queued(q) : x.stream = k /\ it.key # NoKey /\ x.key = it.key => x.seq \in V
  PROVE  Balanced(Coalesce(q, it), k, kind, lo, hi, V)
<1> DEFINE c == Coalesce(q, it)
<1>1. c \in Queues BY MakeRoomType
<1>2. ASSUME NEW i \in CoalesceTargets(q, it), i \in DOMAIN q.items, c = RemoveItem(q, i)
      PROVE  Balanced(c, k, kind, lo, hi, V)
  <2> DEFINE x == q.items[i]
  <2>1. x.kind = "telemetry" /\ x.stream = it.stream /\ it.key # NoKey /\ x.key = it.key BY <1>2 DEF CoalesceTargets
  <2>2. Less(q, c, x) BY <1>1, <1>2, <2>1, RemoveSeqs DEF Published
  <2>3. Queued(c) \subseteq Queued(q) /\ c.dropped = q.dropped BY <1>2, RemoveOrder, RemoveItemParts
  <2> HIDE DEF x, c
  <2>4. x \in Queued(q) BY <2>2 DEF Less
  <2>5. CASE k # x.stream
    <3>1. Seqs(c, k) = Seqs(q, k) BY <2>2, <2>5 DEF Less
    <3> QED BY <2>3, <3>1 DEF Balanced, Within
  <2>6. CASE k = x.stream
    <3>1. Seqs(c, k) = Seqs(q, k) \ {x.seq} BY <2>2, <2>6 DEF Less
    <3>2. x.seq \in Seqs(q, k) BY <2>4, <2>6 DEF Seqs
    <3>3. x.seq \in V BY <2>1, <2>4, <2>6
    <3>4. kind # "session" BY <2>1, <2>4, <2>6 DEF Balanced, Within
    <3>5. q.dropped[k] \in Nat BY DroppedIsNatural
    <3>6. Seqs(q, k) \in SUBSET ((lo + 1)..hi) /\ Ledger(kind, lo, hi, Seqs(q, k), q.dropped[k], V)
      BY DEF Balanced, Within
    <3>7. Ledger(kind, lo, hi, Seqs(q, k) \ {x.seq}, q.dropped[k], V) BY <3>2, <3>3, <3>4, <3>5, <3>6, LedgerSupersede
    <3> QED BY <2>3, <3>1, <3>7 DEF Balanced, Within
  <2> QED BY <2>5, <2>6
<1> QED BY <1>2, CoalesceShape

\* A drop takes out the oldest telemetry, and counts it for its stream.
LEMMA MakeRoomBalanced ==
  ASSUME NEW q \in Queues, Ordered(q), NEW k \in Streams, NEW kind, NEW lo \in Nat, NEW hi \in Nat, NEW V,
         Balanced(q, k, kind, lo, hi, V)
  PROVE  Balanced(MakeRoom(q), k, kind, lo, hi, V)
<1> DEFINE m == MakeRoom(q)
<1>1. m \in Queues BY MakeRoomType
<1>2. ASSUME NEW i \in DOMAIN q.items, Dropped(q, m, i) PROVE Balanced(m, k, kind, lo, hi, V)
  <2> DEFINE x == q.items[i]
  <2>1. /\ x.kind = "telemetry" /\ m.items = RemoveItem(q, i).items
        /\ m.dropped = [q.dropped EXCEPT ![x.stream] = @ + 1]
        /\ \A j \in IndicesOf(q, "telemetry") : i <= j
    BY <1>2 DEF Dropped, IndicesOf
  <2>2. Less(q, m, x) BY <1>1, <2>1, RemoveSeqs DEF Published
  <2>3. Queued(m) \subseteq Queued(q)
    <3>1. Queued(m) = Queued(RemoveItem(q, i)) BY <2>1 DEF Queued
    <3> QED BY <3>1, RemoveOrder
  <2>4. q.dropped \in [Streams -> Nat] BY DEF Queues
  <2> HIDE DEF m
  <2>5. CASE k # x.stream
    <3>1. Seqs(m, k) = Seqs(q, k) BY <2>2, <2>5 DEF Less
    <3>2. m.dropped[k] = q.dropped[k] BY <2>1, <2>4, <2>5
    <3> QED BY <2>3, <3>1, <3>2 DEF Balanced, Within, m
  <2>6. CASE k = x.stream
    <3>1. Seqs(m, k) = Seqs(q, k) \ {x.seq} BY <2>2, <2>6 DEF Less
    <3>2. x.seq \in Seqs(q, k) /\ x \in Queued(q) BY <2>2, <2>6 DEF Seqs, Less
    <3>3. kind = "telemetry" BY <2>1, <2>6, <3>2 DEF Balanced, Within
    <3>4. m.dropped[k] = q.dropped[k] + 1 /\ q.dropped[k] \in Nat BY <2>1, <2>4, <2>6
    <3>5. \A s \in Seqs(q, k) : x.seq <= s
      <4> SUFFICES ASSUME NEW j \in DOMAIN q.items, q.items[j].stream = k PROVE x.seq <= q.items[j].seq
        BY DEF Seqs, Queued
      <4>1. q.items[j] \in Queued(q) BY DEF Queued
      <4>2. q.items[j].kind = "telemetry" BY <3>3, <4>1 DEF Balanced, Within
      <4>3. i <= j BY <2>1, <4>2 DEF IndicesOf
      <4>4. i \in Nat /\ j \in Nat BY QueueParts
      <4>5. x.seq \in Nat BY <2>6, <3>2, StreamItem
      <4>6. CASE i = j BY <4>5, <4>6
      <4>7. CASE i < j
        <5>1. x.seq < q.items[j].seq BY <2>1, <2>6, <4>7 DEF Ordered, Published
        <5>2. q.items[j].seq \in Nat BY <4>1, StreamItem
        <5> QED BY <4>5, <5>1, <5>2
      <4> QED BY <4>3, <4>4, <4>6, <4>7
    <3>6. Seqs(q, k) \in SUBSET ((lo + 1)..hi) /\ Ledger(kind, lo, hi, Seqs(q, k), q.dropped[k], V)
      BY DEF Balanced, Within
    <3> HIDE DEF x
    <3>7. Ledger(kind, lo, hi, Seqs(q, k) \ {x.seq}, q.dropped[k] + 1, V)
      BY <3>2, <3>3, <3>4, <3>5, <3>6, LedgerDrop
    <3> QED BY <2>3, <3>1, <3>4, <3>6, <3>7 DEF Balanced, Within, m
  <2> QED BY <2>5, <2>6
<1> QED BY <1>2, MakeRoomShape

\* The newest of stream k, or a frame of no stream or another, is added.
LEMMA AddBalanced ==
  ASSUME NEW q \in Queues, NEW it \in Item, NEW k \in Streams, NEW kind, NEW lo \in Nat, NEW hi \in Nat, lo <= hi, NEW V,
         Balanced(q, k, kind, lo, hi, V), it.stream = k => it.seq = hi + 1 /\ it.kind = kind
  PROVE  Balanced(Add(q, it), k, kind, lo, IF it.stream = k THEN hi + 1 ELSE hi, V)
<1>1. /\ Seqs(Add(q, it), k) = IF it.stream = k THEN Seqs(q, k) \cup {it.seq} ELSE Seqs(q, k)
      /\ Add(q, it).dropped = q.dropped
  BY AddSeqs
<1>2. Queued(Add(q, it)) = Queued(q) \cup {it} BY AddOrder
<1>3. q.dropped[k] \in Nat BY DroppedIsNatural
<1>4. CASE it.stream # k BY <1>1, <1>2, <1>4 DEF Balanced, Within
<1>5. CASE it.stream = k
  <2>1. Ledger(kind, lo, hi + 1, Seqs(q, k) \cup {hi + 1}, q.dropped[k], V) BY <1>3, LedgerAdd DEF Balanced
  <2>2. Seqs(q, k) \cup {hi + 1} \subseteq (lo + 1)..(hi + 1) BY DEF Balanced, Within
  <2> QED BY <1>1, <1>2, <1>5, <2>1, <2>2 DEF Balanced, Within
<1> QED BY <1>4, <1>5

\* So a push that is not refused keeps the books of every stream.
LEMMA PushBalanced ==
  ASSUME NEW q \in Queues, Ordered(q), NEW it \in Item, ~SessionFull(q, it), NEW k \in Streams, NEW kind,
         NEW lo \in Nat, NEW hi \in Nat, lo <= hi, NEW V, Balanced(q, k, kind, lo, hi, V),
         it.stream = k =>
           /\ it.seq = hi + 1 /\ it.kind = kind
           /\ \A x \in Queued(q) : x.stream = k /\ it.key # NoKey /\ x.key = it.key => x.seq \in V
  PROVE  Balanced(Push(q, it), k, kind, lo, IF it.stream = k THEN hi + 1 ELSE hi, V)
<1>1. CASE it.kind # "telemetry"
  <2>1. Push(q, it) = Add(q, it) BY <1>1 DEF Push
  <2> QED BY <2>1, AddBalanced
<1>2. CASE it.kind = "telemetry"
  <2> DEFINE c == Coalesce(q, it)
             m == MakeRoom(c)
  <2>1. c \in Queues /\ Ordered(c)
    <3>1. c \in Queues BY MakeRoomType
    <3> QED BY <3>1, CoalesceShape, RemoveOrder
  <2>2. Balanced(c, k, kind, lo, hi, V) BY <1>2, CoalesceBalanced
  <2>3. Push(q, it) = Add(m, it) BY <1>2 DEF Push
  <2> HIDE DEF c
  <2>4. m \in Queues BY <2>1, MakeRoomType
  <2>5. Balanced(m, k, kind, lo, hi, V) BY <2>1, <2>2, MakeRoomBalanced
  <2> HIDE DEF m
  <2> QED BY <2>3, <2>4, <2>5, AddBalanced
<1> QED BY <1>1, <1>2

LEMMA PurgeBalanced ==
  ASSUME NEW q \in Queues, NEW j \in Streams, NEW k \in Streams, NEW kind, NEW lo, NEW hi, NEW V
  PROVE  /\ j # k /\ Balanced(q, k, kind, lo, hi, V) => Balanced(PurgeStream(q, j), k, kind, lo, hi, V)
         /\ j = k /\ lo = hi /\ lo \in Nat => Balanced(PurgeStream(q, j), k, kind, lo, hi, V)
<1>1. Queued(PurgeStream(q, j)) = {x \in Queued(q) : x.stream # j} BY PurgeOrder
<1>2. PurgeStream(q, j).dropped = [q.dropped EXCEPT ![j] = 0] BY DEF PurgeStream
<1>3. q.dropped \in [Streams -> Nat] BY DEF Queues
<1> DEFINE r == PurgeStream(q, j)
<1> HIDE DEF r
<1>4. CASE j # k
  <2>1. Seqs(r, k) = Seqs(q, k) BY <1>1, <1>4 DEF Seqs, r
  <2>2. r.dropped[k] = q.dropped[k] BY <1>2, <1>3, <1>4 DEF r
  <2> QED BY <1>1, <1>4, <2>1, <2>2 DEF Balanced, Within, r
<1>5. CASE j = k
  <2> SUFFICES ASSUME lo = hi, lo \in Nat PROVE Balanced(r, k, kind, lo, hi, V) BY <1>5 DEF r
  <2>1. Seqs(r, k) = {} BY <1>1, <1>5 DEF Seqs, r
  <2>2. r.dropped[k] = 0 BY <1>2, <1>3, <1>5 DEF r
  <2>3. Ledger(kind, lo, lo, {}, 0, V) BY LedgerFresh
  <2> QED BY <1>1, <1>5, <2>1, <2>2, <2>3 DEF Balanced, Within, r
<1> QED BY <1>4, <1>5

LEMMA TakeBalanced ==
  ASSUME NEW q \in Queues, q.items # <<>>, Ordered(q), NEW k \in Streams, NEW kind, NEW lo \in Nat, NEW hi \in Nat, NEW V,
         Balanced(q, k, kind, lo, hi, V)
  PROVE  Balanced(TakeFrame(q), k, kind, IF Head(q.items).stream = k THEN Head(q.items).seq ELSE lo, hi, V)
<1> DEFINE it == q.items[1]
           t == TakeFrame(q)
<1>1. /\ 1 \in DOMAIN q.items /\ Head(q.items) = it /\ t.items = RemoveItem(q, 1).items
      /\ t.dropped = [j \in Streams |-> IF it.kind = "telemetry" /\ it.stream = j THEN 0 ELSE q.dropped[j]]
  <2>1. 1 \in DOMAIN q.items /\ Head(q.items) = it BY TakeFrameParts
  <2>2. t.items = RemoveItem(q, 1).items BY TakeFrameParts
  <2>3. t.dropped = [j \in Streams |-> IF Head(q.items).kind = "telemetry" /\ Head(q.items).stream = j
                                       THEN 0 ELSE q.dropped[j]]
    BY TakeFrameParts
  <2> QED BY <2>1, <2>2, <2>3
<1>2. t \in Queues /\ it \in Queued(q) BY <1>1, TakeFrameType DEF Queued
<1>3. Queued(t) = {q.items[j] : j \in DOMAIN q.items \ {1}} BY TakeOrder
<1>4. Queued(t) \subseteq Queued(q) BY <1>3 DEF Queued
<1> HIDE DEF t
<1>5. CASE it.stream # k
  <2>1. Seqs(t, k) = Seqs(q, k)
    <3>1. \A n : n \in Seqs(t, k) <=> \E j \in DOMAIN q.items \ {1} : q.items[j].stream = k /\ n = q.items[j].seq
      BY <1>3 DEF Seqs
    <3>2. \A n : n \in Seqs(q, k) <=> \E j \in DOMAIN q.items : q.items[j].stream = k /\ n = q.items[j].seq
      BY DEF Seqs, Queued
    <3>3. \A n : n \in Seqs(t, k) <=> n \in Seqs(q, k) BY <1>5, <3>1, <3>2
    <3> QED BY <3>3
  <2>2. t.dropped[k] = q.dropped[k] BY <1>1, <1>5
  <2> QED BY <1>1, <1>4, <1>5, <2>1, <2>2 DEF Balanced, Within, t
<1>6. CASE it.stream = k
  <2>1. it.kind \in Published /\ it.seq \in Nat /\ it.kind = kind BY <1>2, <1>6, StreamItem DEF Balanced, Within
  <2>2. Less(q, t, it) BY <1>1, <1>2, <2>1, RemoveSeqs
  <2>3. Seqs(t, k) = Seqs(q, k) \ {it.seq} BY <1>6, <2>2 DEF Less
  <2>4. it.seq \in Seqs(q, k) BY <1>2, <1>6 DEF Seqs
  <2>5. \A s \in Seqs(q, k) : it.seq <= s
    <3> SUFFICES ASSUME NEW j \in DOMAIN q.items, q.items[j].stream = k PROVE it.seq <= q.items[j].seq
      BY DEF Seqs, Queued
    <3>1. q.items[j] \in Queued(q) BY DEF Queued
    <3>2. q.items[j].seq \in Nat BY <3>1, StreamItem
    <3>3. j = 1 \/ 1 < j BY QueueParts
    <3>4. CASE j = 1 BY <2>1, <3>4
    <3>5. CASE 1 < j
      <4>1. it.seq < q.items[j].seq BY <1>1, <1>6, <2>1, <3>5 DEF Ordered
      <4> QED BY <2>1, <3>2, <4>1
    <3> QED BY <3>3, <3>4, <3>5
  <2>6. q.dropped[k] \in Nat /\ t.dropped[k] \in Nat BY <1>2, DroppedIsNatural
  <2>7. kind # "session" => t.dropped[k] = 0 BY <1>1, <1>6, <2>1 DEF Published
  <2>8. Seqs(q, k) \in SUBSET ((lo + 1)..hi) /\ Ledger(kind, lo, hi, Seqs(q, k), q.dropped[k], V)
    BY DEF Balanced, Within
  <2> HIDE DEF it
  <2>9. Ledger(kind, it.seq, hi, Seqs(q, k) \ {it.seq}, t.dropped[k], V)
    BY <2>4, <2>5, <2>6, <2>7, <2>8, LedgerTake
  <2>10. Seqs(t, k) \subseteq (it.seq + 1)..hi
    <3> SUFFICES ASSUME NEW s \in Seqs(q, k), s # it.seq PROVE s \in (it.seq + 1)..hi BY <2>3
    <3>1. s \in (lo + 1)..hi /\ it.seq <= s BY <2>5, <2>8
    <3> QED BY <2>1, <3>1
  <2>11. \A x \in Queued(t) : x.stream = k => x.kind = kind BY <1>4 DEF Balanced, Within
  <2> QED BY <1>1, <1>6, <2>3, <2>9, <2>10, <2>11 DEF Balanced, Within, t
<1> QED BY <1>5, <1>6

-----------------------------------------------------------------------------
\* The books of every subscription.

\* How much of k a backfill has still to push to c, the seq everything up to which has
\* been pushed to it, and what of k newer envelopes supersede.
LeftOf(c, k) == IF filling.conn = c /\ filling.stream = k THEN Len(filling.rest) ELSE 0
PushedTo(c, k) == ring[k].seq - LeftOf(c, k)
SupersededOf(k) == {n \in 1..ring[k].seq : Superseded(k, n)}

Book(c, k) == Balanced(out[c], k, ring[k].kind, cursor[c][k], PushedTo(c, k), SupersededOf(k))

Booked(c) == \A k \in subs[c] : Book(c, k)

LossInv == DeliveryInv /\ \A c \in conns \ closing : Booked(c)

LEMMA InitLoss == Init => LossInv
<1> SUFFICES ASSUME Init PROVE LossInv OBVIOUS
<1>1. conns = {} BY DEF Init
<1> QED BY <1>1, InitDelivery DEF LossInv

\* The other types of a book.
LEMMA BookParts ==
  ASSUME DeliveryInv, NEW c \in conns, NEW k \in subs[c]
  PROVE  /\ c \in Conns /\ k \in Streams /\ out[c] \in Queues /\ Ordered(out[c])
         /\ ring[k].seq \in Nat /\ LeftOf(c, k) \in Nat
         /\ cursor[c][k] \in Nat /\ PushedTo(c, k) \in Nat /\ cursor[c][k] <= PushedTo(c, k)
<1>1. TypeOK /\ IInv /\ Served(c) /\ FillIsTail BY DEF DeliveryInv, KeepInv, IInv
<1>2. c \in Conns /\ k \in Streams BY <1>1 DEF TypeOK
<1>3. out[c] \in Queues /\ cursor[c][k] \in Nat /\ ring[k].seq \in Nat BY <1>1, <1>2, RingOrNone DEF TypeOK
<1>4. Ordered(out[c]) /\ cursor[c][k] <= ring[k].seq BY <1>1 DEF Served, Serves, CursorsWithin
<1>5. CASE filling.conn = c /\ filling.stream = k
  <2>1. filling # NoFill BY <1>2, <1>5 DEF NoFill, NoConn, Conns
  <2>2. filling.rest \in Seq(Entries) BY <1>1, <2>1, FillingParts
  <2>3. TailLeft(ring[k], filling.rest, cursor[c][k], published[k]) BY <1>1, <1>5, <2>1 DEF FillIsTail
  <2>4. LeftOf(c, k) = Len(filling.rest) /\ Len(filling.rest) \in Nat BY <1>5, <2>2 DEF LeftOf
  <2>5. LeftOf(c, k) <= ring[k].seq /\ cursor[c][k] <= ring[k].seq - LeftOf(c, k) BY <2>3, <2>4 DEF TailLeft
  <2> QED BY <1>2, <1>3, <1>4, <2>4, <2>5 DEF PushedTo
<1>6. CASE ~(filling.conn = c /\ filling.stream = k)
  <2>1. LeftOf(c, k) = 0 BY <1>6 DEF LeftOf
  <2> QED BY <1>2, <1>3, <1>4, <2>1 DEF PushedTo
<1> QED BY <1>5, <1>6

\* What the relay keeps of k for c, but for the queue, is as it was.
SamePlace(c, k) ==
  /\ ring'[k].seq = ring[k].seq /\ ring'[k].kind = ring[k].kind /\ published'[k] = published[k]
  /\ cursor'[c][k] = cursor[c][k] /\ LeftOf(c, k)' = LeftOf(c, k)

LEMMA SameBook ==
  ASSUME NEW c, NEW k, SamePlace(c, k), Balanced(out'[c], k, ring[k].kind, cursor[c][k], PushedTo(c, k), SupersededOf(k))
  PROVE  Book(c, k)'
<1>1. PushedTo(c, k)' = PushedTo(c, k) BY DEF SamePlace, PushedTo
<1>2. SupersededOf(k)' = SupersededOf(k) BY DEF SamePlace, SupersededOf, Superseded
<1>3. ring'[k].kind = ring[k].kind /\ cursor'[c][k] = cursor[c][k] BY DEF SamePlace
<1> QED BY <1>1, <1>2, <1>3 DEF Book

LEMMA BookStays ==
  ASSUME NEW c, NEW k, SamePlace(c, k), out'[c] = out[c], Book(c, k)
  PROVE  Book(c, k)'
BY SameBook DEF Book

\* Something of another stream, or of none, is pushed.
LEMMA OtherPushed ==
  ASSUME DeliveryInv, NEW c \in conns, NEW k \in subs[c], SamePlace(c, k), NEW it \in Item, it.stream # k,
         ~SessionFull(out[c], it), out'[c] = Push(out[c], it), Book(c, k)
  PROVE  Book(c, k)'
<1>1. /\ k \in Streams /\ out[c] \in Queues /\ Ordered(out[c])
      /\ cursor[c][k] \in Nat /\ PushedTo(c, k) \in Nat /\ cursor[c][k] <= PushedTo(c, k)
  BY BookParts
<1> DEFINE kind == ring[k].kind
           lo == cursor[c][k]
           hi == PushedTo(c, k)
           V  == SupersededOf(k)
<1>2. Balanced(out[c], k, kind, lo, hi, V) BY DEF Book
<1>3. lo \in Nat /\ hi \in Nat /\ lo <= hi BY <1>1
<1> HIDE DEF kind, lo, hi, V
<1>4. Balanced(Push(out[c], it), k, kind, lo, IF it.stream = k THEN hi + 1 ELSE hi, V)
  BY <1>1, <1>2, <1>3, PushBalanced
<1>5. Balanced(out'[c], k, kind, lo, hi, V) BY <1>4
<1> QED BY <1>5, SameBook DEF kind, lo, hi, V

LEMMA PlainPushed ==
  ASSUME DeliveryInv, NEW c \in conns, NEW k \in subs[c], SamePlace(c, k), NEW it \in Item, it.kind \in Plain,
         out'[c] = Push(out[c], it), Book(c, k)
  PROVE  Book(c, k)'
<1>1. k \in Streams BY BookParts
<1>2. it.kind \notin Published BY DEF Plain, Published
<1>3. it.stream # k BY <1>1, <1>2, PublishedHasStream, NoStreamIsNone
<1>4. ~SessionFull(out[c], it) BY <1>2 DEF SessionFull, Published
<1> QED BY <1>3, <1>4, OtherPushed

LEMMA PlainBooked ==
  ASSUME DeliveryInv, NEW c \in conns, NEW k \in subs[c], SamePlace(c, k), Book(c, k),
         NEW q, q[c] = out[c], NEW D, NEW it \in Item, it.kind \in Plain,
         NEW fresh, NEW gone, Deliver(q, D, it, fresh, gone), c \notin gone
  PROVE  Book(c, k)'
<1>1. c \in Conns BY BookParts
<1>2. out'[c] = IF c \in D THEN Push(out[c], it) ELSE out[c] BY <1>1, Delivered
<1>3. CASE c \in D BY <1>2, <1>3, PlainPushed
<1>4. CASE c \notin D BY <1>2, <1>4, BookStays
<1> QED BY <1>3, <1>4

LEMMA EnqueueBooked ==
  ASSUME DeliveryInv, NEW d \in conns, NEW kind \in Plain, NEW p \in Principals, Enqueue(d, kind, p),
         NEW c \in conns, NEW k \in subs[c], SamePlace(c, k), Book(c, k)
  PROVE  Book(c, k)'
<1>1. Deliver(out, {d}, Frame(kind, p), {}, {}) BY DEF Enqueue
<1>2. Frame(kind, p) \in Item /\ Frame(kind, p).kind = kind BY FrameIsItem DEF Frame
<1> QED BY <1>1, <1>2, PlainBooked

LEMMA SamePlaces ==
  ASSUME UNCHANGED <<ring, published, cursor, filling>>, NEW c, NEW k
  PROVE  SamePlace(c, k)
BY DEF SamePlace, LeftOf

LEMMA AnswerBooked ==
  ASSUME DeliveryInv, NEW d \in Conns, Answer(d), NEW c \in conns, Booked(c)
  PROVE  Booked(c)'
<1>1. d \in conns /\ Enqueue(d, "answer", PrincipalOf(d)) BY DEF Answer
<1>2. UNCHANGED <<subs, ring, published, cursor, filling>> BY DEF Answer, streamVars
<1>3. PrincipalOf(d) \in Principals BY <1>1, PeerParts DEF DeliveryInv, KeepInv, IInv
<1> SUFFICES ASSUME NEW k \in subs[c] PROVE Book(c, k)' BY <1>2 DEF Booked
<1>4. SamePlace(c, k) BY <1>2, SamePlaces
<1> QED BY <1>1, <1>3, <1>4, EnqueueBooked DEF Plain, Booked

LEMMA DirectBooked ==
  ASSUME DeliveryInv, NEW d \in Conns, NEW p \in Principals, Direct(d, p), NEW c \in conns, c \notin closing', Booked(c)
  PROVE  Booked(c)'
<1> DEFINE target == online[<<AccountOf(d), p>>]
           it     == Frame("direct", PrincipalOf(d))
           answer == Frame("answer", PrincipalOf(d))
           after  == [out EXCEPT ![target] = Push(@, it)]
<1>1. TypeOK /\ c \in Conns /\ d \in conns BY DEF DeliveryInv, KeepInv, IInv, TypeOK, Direct
<1>2. UNCHANGED <<subs, ring, published, cursor, filling>> BY DEF Direct, streamVars
<1>3. PrincipalOf(d) \in Principals BY <1>1, PeerParts
<1>4. it \in Item /\ answer \in Item /\ it.kind \in Plain /\ answer.kind \in Plain
  BY <1>3, FrameIsItem DEF Plain, Frame
<1>5. \/ Deliver(out, {d}, answer, {}, {})
      \/ Deliver(out, {target}, it, {}, {})
      \/ c # target /\ out' = [after EXCEPT ![d] = Push(@, answer)]
  BY DEF Direct
<1>6. out \in [Conns -> Queues] BY <1>1 DEF TypeOK
<1> HIDE DEF it, answer, target
<1> SUFFICES ASSUME NEW k \in subs[c] PROVE Book(c, k)' BY <1>2 DEF Booked
<1>7. SamePlace(c, k) /\ Book(c, k) BY <1>2, SamePlaces DEF Booked
<1>8. CASE \E D, f : f \in {it, answer} /\ Deliver(out, D, f, {}, {})
  <2>1. PICK D, f : f \in {it, answer} /\ Deliver(out, D, f, {}, {}) BY <1>8
  <2>2. f \in Item /\ f.kind \in Plain BY <1>4, <2>1
  <2> QED BY <1>7, <2>1, <2>2, PlainBooked
<1>9. CASE c # target /\ out' = [after EXCEPT ![d] = Push(@, answer)]
  <2>1. after[c] = out[c] /\ DOMAIN after = Conns BY <1>1, <1>6, <1>9
  <2>2. out'[c] = IF c = d THEN Push(out[c], answer) ELSE out[c] BY <1>1, <1>9, <2>1
  <2>3. CASE c = d BY <1>4, <1>7, <2>2, <2>3, PlainPushed
  <2>4. CASE c # d BY <1>7, <2>2, <2>4, BookStays
  <2> QED BY <2>3, <2>4
<1> QED BY <1>5, <1>8, <1>9

LEMMA ConnectBooked ==
  ASSUME DeliveryInv, NEW a \in Accounts, NEW p \in Principals, Connect(a, p), NEW c \in conns', c \in conns => Booked(c)
  PROVE  Booked(c)'
<1>1. IInv /\ TypeOK /\ RegistryAgrees BY DEF DeliveryInv, KeepInv, IInv
<1>2. /\ nextConn \in Conns /\ nextConn \notin conns /\ conns' = conns \cup {nextConn}
      /\ UNCHANGED <<subs, cursor, ring, published, filling>>
  BY <1>1, BoundsAreNaturals DEF TypeOK, Connect, Conns, streamVars
<1>3. PICK order \in Orders(OnlineIn(a)) :
        Deliver([out EXCEPT ![nextConn] = WelcomeQueue(p, order)], ConnsOf(a), Frame("online", p), {nextConn}, {})
  BY DEF Connect
<1> DEFINE q == [out EXCEPT ![nextConn] = WelcomeQueue(p, order)]
           it == Frame("online", p)
<1>4. it \in Item /\ it.kind \in Plain BY FrameIsItem DEF Plain, Frame
<1>5. Deliver(q, ConnsOf(a), it, {nextConn}, {}) BY <1>3
<1>6. CASE c \in conns
  <2>1. q[c] = out[c] BY <1>1, <1>2, <1>6 DEF TypeOK
  <2> HIDE DEF q, it
  <2> SUFFICES ASSUME NEW k \in subs[c] PROVE Book(c, k)' BY <1>2 DEF Booked
  <2>2. SamePlace(c, k) BY <1>2, SamePlaces
  <2> QED BY <1>4, <1>5, <1>6, <2>1, <2>2, PlainBooked DEF Booked
<1>7. CASE c = nextConn
  <2>1. subs'[c] = {} BY <1>1, <1>2, <1>7 DEF RegistryAgrees
  <2> QED BY <2>1 DEF Booked
<1> QED BY <1>2, <1>6, <1>7

LEMMA ForgetBooked ==
  ASSUME DeliveryInv, NEW d \in conns, Forget(d), NEW c \in conns', Booked(c)
  PROVE  Booked(c)'
<1>1. TypeOK /\ c \in conns /\ c # d /\ c \in Conns BY DEF DeliveryInv, KeepInv, IInv, Forget, TypeOK
<1> DEFINE others == ConnsOf(AccountOf(d)) \ {d}
           q == [out EXCEPT ![d] = EmptyQueue]
           it == Frame("offline", PrincipalOf(d))
<1>2. /\ Deliver(q, others, it, {}, {d})
      /\ subs' = [subs EXCEPT ![d] = {}] /\ cursor' = [cursor EXCEPT ![d] = [k \in Streams |-> 0]]
      /\ UNCHANGED <<ring, published, filling>>
  BY DEF Forget
<1>3. it \in Item /\ it.kind \in Plain
  <2>1. PrincipalOf(d) \in Principals BY <1>1, PeerParts
  <2> QED BY <2>1, FrameIsItem DEF Plain, Frame
<1>4. q[c] = out[c] /\ subs'[c] = subs[c] /\ cursor'[c] = cursor[c] BY <1>1, <1>2 DEF TypeOK
<1>5. c \notin {d} BY <1>1
<1> HIDE DEF q, it, others
<1> SUFFICES ASSUME NEW k \in subs[c] PROVE Book(c, k)' BY <1>4 DEF Booked
<1>6. SamePlace(c, k) BY <1>2, <1>4 DEF SamePlace, LeftOf
<1> QED BY <1>1, <1>2, <1>3, <1>4, <1>5, <1>6, PlainBooked DEF Booked

LEMMA BackfilledBooked ==
  ASSUME DeliveryInv, Backfilled, NEW c \in conns, Booked(c)
  PROVE  Booked(c)'
<1>1. IInv BY DEF DeliveryInv, KeepInv
<1>2. /\ filling # NoFill /\ Enqueue(filling.conn, "backfilled", filling.stream[2]) /\ filling' = NoFill
      /\ UNCHANGED <<subs, cursor, ring, published>> /\ filling.rest = <<>>
  BY DEF Backfilled, streamVars
<1>3. filling.conn \in conns /\ filling.stream[2] \in Principals BY <1>1, <1>2, FillingParts, StreamParts
<1> SUFFICES ASSUME NEW k \in subs[c] PROVE Book(c, k)' BY <1>2 DEF Booked
<1>4. c \in Conns BY BookParts
<1>5. LeftOf(c, k) = 0 BY <1>2 DEF LeftOf
<1>6. LeftOf(c, k)' = 0 BY <1>2, <1>4 DEF LeftOf, NoFill, NoConn, Conns
<1>7. SamePlace(c, k) BY <1>2, <1>5, <1>6 DEF SamePlace
<1> DEFINE d == filling.conn
           p == filling.stream[2]
<1>8. d \in conns /\ p \in Principals /\ Enqueue(d, "backfilled", p) BY <1>2, <1>3
<1> HIDE DEF d, p
<1> QED BY <1>7, <1>8, EnqueueBooked DEF Plain, Booked

-----------------------------------------------------------------------------
\* An older envelope of k with the key of a newer one is superseded.
LEMMA Supersedes ==
  ASSUME NEW k, ring[k].seq \in Nat, NEW n \in Nat, NEW m \in Nat, 0 < n, n < m, m <= ring[k].seq,
         published[k][n] = published[k][m], published[k][m] # NoKey
  PROVE  n \in SupersededOf(k)
<1>1. n \in 1..ring[k].seq /\ m \in (n + 1)..ring[k].seq OBVIOUS
<1> QED BY <1>1 DEF SupersededOf, Superseded

\* What of k is queued for c has the key it was published with.
LEMMA QueuedKeys ==
  ASSUME DeliveryInv, NEW c \in conns, NEW k \in subs[c], NEW x \in Queued(out[c]), x.stream = k
  PROVE  /\ x.seq \in Nat /\ 0 < x.seq /\ x.seq <= ring[k].seq /\ x.key = published[k][x.seq]
         /\ \A n \in FillSeqs(c, k) : x.seq < n
         /\ ring[k] # NoRing
<1>1. k \in Streams /\ out[c] \in Queues /\ cursor[c][k] \in Nat BY BookParts
<1>2. x.kind \in Published /\ x.seq \in Nat BY <1>1, StreamItem
<1>3. x \in DueTo(c) BY <1>2 DEF DeliveryInv, Served, Serves
<1>4. x.kind = ring[k].kind /\ cursor[c][k] < x.seq BY <1>3 DEF DueTo
<1>5. ring[k] # NoRing BY <1>2, <1>4 DEF NoRing, Published
<1> QED BY <1>1, <1>2, <1>3, <1>4, <1>5 DEF DueTo

LEMMA BackfillEntryBooked ==
  ASSUME DeliveryInv, BackfillEntry, NEW c \in conns, c \notin closing', Booked(c)
  PROVE  Booked(c)'
<1> DEFINE d == filling.conn
           k == filling.stream
           s == filling.rest
           r == ring[k]
           it == PublishedItem(k, r, Head(s))
<1>1. IInv /\ TypeOK /\ RegistryAgrees /\ FillIsTail BY DEF DeliveryInv, KeepInv, IInv
<1>2. /\ filling # NoFill /\ s # <<>> /\ out' = [out EXCEPT ![d] = Push(@, it)]
      /\ UNCHANGED <<subs, cursor, ring, published>>
  BY DEF BackfillEntry, streamVars
<1>3. \/ Takes(out[d], it) /\ filling' = [filling EXCEPT !.rest = Tail(@)]
      \/ filling' = NoFill /\ closing' = closing \cup {d}
  BY DEF BackfillEntry
<1>4. /\ filling \in [conn : Conns, stream : Streams, rest : Seq(Entries)]
      /\ d \in conns /\ k \in Streams /\ s \in Seq(Entries) /\ r \in Rings /\ d \in Conns /\ k \in subs[d]
  BY <1>1, <1>2, FillingParts DEF RegistryAgrees
<1>5. r.seq \in Nat /\ r.kind \in Published /\ cursor[d][k] \in Nat /\ out \in [Conns -> Queues] /\ c \in Conns
  <2>1. r.seq \in Nat /\ r.kind \in Published BY <1>4, RingParts DEF Published
  <2> QED BY <1>1, <1>4, <2>1 DEF TypeOK
<1>6. TailLeft(r, s, cursor[d][k], published[k]) BY <1>1, <1>2 DEF FillIsTail
<1>7. /\ Head(s) = s[1] /\ s[1].seq <= r.seq /\ s[1].key = published[k][s[1].seq] /\ 1 \in DOMAIN s
  BY <1>2, <1>4, <1>5, <1>6, TailStep
<1>8. Head(s) \in Entries BY <1>4, <1>7
<1>9. Len(s) \in Nat /\ Len(Tail(s)) = Len(s) - 1 BY <1>2, <1>4
<1>10. /\ it \in Item /\ it.kind = r.kind /\ it.stream = k /\ it.seq = s[1].seq /\ it.key = s[1].key
  BY <1>4, <1>7, <1>8, PublishedIsItem DEF PublishedItem
<1>11. it.seq \in Nat /\ it.seq = r.seq - Len(s) + 1
  <2>1. s[1].seq = r.seq - Len(s) + 1 BY <1>6, <1>7, <1>4 DEF TailLeft
  <2> QED BY <1>8, <1>7, <1>10, <2>1 DEF Entries
<1> SUFFICES ASSUME NEW j \in subs[c] PROVE Book(c, j)' BY <1>2 DEF Booked
<1>12. Book(c, j) /\ j \in Streams BY BookParts DEF Booked
<1> HIDE DEF it, r
<1>13. CASE c # d
  <2>1. out'[c] = out[c] BY <1>2, <1>5, <1>13
  <2>2. LeftOf(c, j) = 0 BY <1>13 DEF LeftOf
  <2>3. LeftOf(c, j)' = 0
    <3>1. filling'.conn # c BY <1>3, <1>4, <1>5, <1>13 DEF NoFill, NoConn, Conns
    <3> QED BY <3>1 DEF LeftOf
  <2>4. SamePlace(c, j) BY <1>2, <2>2, <2>3 DEF SamePlace
  <2> QED BY <1>12, <2>1, <2>4, BookStays
<1>14. CASE c = d
  <2>1. Takes(out[c], it) /\ filling' = [filling EXCEPT !.rest = Tail(@)] BY <1>3, <1>14
  <2>2. out'[c] = Push(out[c], it) /\ out[c] \in Queues /\ ~SessionFull(out[c], it) BY <1>2, <1>5, <1>14, <2>1 DEF Takes
  <2>3. filling'.conn = c /\ filling'.stream = k /\ filling'.rest = Tail(s) BY <1>4, <1>14, <2>1
  <2>4. CASE j # k
    <3>1. LeftOf(c, j) = 0 BY <2>4 DEF LeftOf
    <3>2. LeftOf(c, j)' = 0 BY <2>3, <2>4 DEF LeftOf
    <3>3. SamePlace(c, j) BY <1>2, <3>1, <3>2 DEF SamePlace
    <3> QED BY <1>10, <1>12, <2>2, <2>4, <3>3, OtherPushed
  <2>5. CASE j = k
    <3>1. LeftOf(c, j) = Len(s) BY <1>14, <2>5 DEF LeftOf
    <3>2. LeftOf(c, j)' = Len(s) - 1 BY <1>9, <2>3, <2>5 DEF LeftOf
    <3>3. Ordered(out[c]) /\ cursor[c][j] \in Nat /\ PushedTo(c, j) \in Nat /\ cursor[c][j] <= PushedTo(c, j)
      BY BookParts
    <3>4. PushedTo(c, j) + 1 = it.seq BY <1>5, <1>9, <1>11, <2>5, <3>1 DEF PushedTo, r
    <3>5. PushedTo(c, j)' = PushedTo(c, j) + 1 BY <1>2, <1>5, <1>9, <2>5, <3>1, <3>2 DEF PushedTo, r
    <3>6. SupersededOf(j)' = SupersededOf(j) BY <1>2 DEF SupersededOf, Superseded
    <3>7. \A x \in Queued(out[c]) : x.stream = j /\ it.key # NoKey /\ x.key = it.key => x.seq \in SupersededOf(j)
      <4> SUFFICES ASSUME NEW x \in Queued(out[c]), x.stream = j, it.key # NoKey, x.key = it.key
                   PROVE  x.seq \in SupersededOf(j)
        OBVIOUS
      <4>1. x.seq \in Nat /\ 0 < x.seq /\ x.key = published[j][x.seq] /\ \A n \in FillSeqs(c, j) : x.seq < n
        BY QueuedKeys
      <4>2. it.seq \in FillSeqs(c, j) BY <1>7, <1>10, <1>14, <2>5 DEF FillSeqs
      <4>3. it.seq <= ring[j].seq /\ it.key = published[j][it.seq] /\ ring[j].seq \in Nat
        BY <1>5, <1>7, <1>10, <2>5 DEF r
      <4>4. published[j][x.seq] = published[j][it.seq] /\ published[j][it.seq] # NoKey BY <4>1, <4>3
      <4>5. x.seq < it.seq BY <4>1, <4>2
      <4> QED BY <1>11, <4>1, <4>3, <4>4, <4>5, Supersedes
    <3> DEFINE kind == ring[j].kind
               lo == cursor[c][j]
               hi == PushedTo(c, j)
               V  == SupersededOf(j)
    <3>8. Balanced(out[c], j, kind, lo, hi, V) BY <1>12 DEF Book
    <3>9. lo \in Nat /\ hi \in Nat /\ lo <= hi /\ it.seq = hi + 1 /\ it.kind = kind /\ it.stream = j
      BY <1>10, <2>5, <3>3, <3>4 DEF r
    <3>10. \A x \in Queued(out[c]) : x.stream = j /\ it.key # NoKey /\ x.key = it.key => x.seq \in V BY <3>7
    <3> HIDE DEF kind, lo, hi, V
    <3>11. Balanced(Push(out[c], it), j, kind, lo, IF it.stream = j THEN hi + 1 ELSE hi, V)
      BY <1>10, <1>12, <2>2, <3>3, <3>8, <3>9, <3>10, PushBalanced
    <3>12. Balanced(out'[c], j, kind, lo, hi + 1, V) BY <2>2, <3>9, <3>11
    <3>13. ring'[j].kind = kind /\ cursor'[c][j] = lo /\ PushedTo(c, j)' = hi + 1 /\ SupersededOf(j)' = V
      BY <1>2, <3>5, <3>6 DEF kind, lo, hi, V
    <3> QED BY <3>12, <3>13 DEF Book
  <2> QED BY <2>4, <2>5
<1> QED BY <1>13, <1>14

LEMMA TakeOutboundBooked ==
  ASSUME DeliveryInv, NEW d \in Conns, TakeOutbound(d), NEW c \in conns, Booked(c)
  PROVE  Booked(c)'
<1> DEFINE q == out[d]
           it == Head(q.items)
<1>1. TypeOK /\ c \in Conns BY DEF DeliveryInv, KeepInv, IInv, TypeOK
<1>2. UNCHANGED <<subs, ring, published, filling>> BY DEF TakeOutbound, streamVars
<1>3. out \in [Conns -> Queues] /\ cursor \in [Conns -> [Streams -> Nat]] BY <1>1 DEF TypeOK
<1> SUFFICES ASSUME NEW k \in subs[c] PROVE Book(c, k)' BY <1>2 DEF Booked
<1>4. Book(c, k) /\ k \in Streams BY BookParts DEF Booked
<1>5. CASE out'[c] = out[c] /\ cursor'[c] = cursor[c]
  <2>1. SamePlace(c, k) BY <1>2, <1>5 DEF SamePlace, LeftOf
  <2> QED BY <1>4, <1>5, <2>1, BookStays
<1>6. CASE q.items # <<>> /\ c = d
  <2>1. /\ out' = [out EXCEPT ![d] = TakeFrame(q)]
        /\ cursor' = IF it.kind \in Published THEN [cursor EXCEPT ![d][it.stream] = it.seq] ELSE cursor
    BY <1>6 DEF TakeOutbound
  <2>2. out'[c] = TakeFrame(q) /\ q \in Queues /\ q = out[c] BY <1>3, <1>6, <2>1
  <2>3. it \in Item BY <1>6, <2>2, TakeOrder
  <2>4. it.stream = k => it.kind \in Published BY <1>4, <2>3, PublishedHasStream, NoStreamIsNone
  <2>5. cursor'[c][k] = IF it.stream = k THEN it.seq ELSE cursor[c][k] BY <1>3, <1>4, <1>6, <2>1, <2>4
  <2>6. PushedTo(c, k)' = PushedTo(c, k) /\ SupersededOf(k)' = SupersededOf(k) /\ ring'[k].kind = ring[k].kind
    BY <1>2 DEF PushedTo, LeftOf, SupersededOf, Superseded
  <2>7. Ordered(q) /\ cursor[c][k] \in Nat /\ PushedTo(c, k) \in Nat BY <2>2, BookParts
  <2> DEFINE kind == ring[k].kind
             lo == cursor[c][k]
             hi == PushedTo(c, k)
             V  == SupersededOf(k)
  <2>8. Balanced(q, k, kind, lo, hi, V) BY <1>4, <2>2 DEF Book
  <2>9. lo \in Nat /\ hi \in Nat BY <2>7
  <2> HIDE DEF kind, lo, hi, V, q
  <2>10. Balanced(TakeFrame(q), k, kind, IF Head(q.items).stream = k THEN Head(q.items).seq ELSE lo, hi, V)
    BY <1>4, <1>6, <2>2, <2>7, <2>8, <2>9, TakeBalanced
  <2>11. cursor'[c][k] = IF Head(q.items).stream = k THEN Head(q.items).seq ELSE lo BY <2>5 DEF lo, q
  <2>12. Balanced(TakeFrame(q), k, kind, cursor'[c][k], hi, V) BY <2>10, <2>11
  <2> QED BY <2>2, <2>6, <2>12 DEF Book, kind, hi, V
<1>7. CASE q.items = <<>> BY <1>5, <1>7 DEF TakeOutbound
<1>8. CASE q.items # <<>> /\ c # d
  <2>1. out' = [out EXCEPT ![d] = TakeFrame(q)] BY <1>8 DEF TakeOutbound
  <2>2. cursor' = cursor \/ cursor' = [cursor EXCEPT ![d][it.stream] = it.seq] BY <1>8 DEF TakeOutbound
  <2> HIDE DEF it, q
  <2>3. out'[c] = out[c] BY <1>1, <1>3, <1>8, <2>1
  <2>4. cursor'[c] = cursor[c] BY <1>1, <1>3, <1>8, <2>2
  <2> QED BY <1>5, <2>3, <2>4
<1> QED BY <1>6, <1>7, <1>8

\* Purging one stream leaves the books of the others.
LEMMA OtherPurged ==
  ASSUME DeliveryInv, NEW c \in conns, NEW k \in Streams, NEW j \in subs[c], j # k, SamePlace(c, j),
         out'[c] = PurgeStream(out[c], k), Book(c, j)
  PROVE  Book(c, j)'
<1>1. j \in Streams /\ out[c] \in Queues BY BookParts
<1> DEFINE kind == ring[j].kind
           lo == cursor[c][j]
           hi == PushedTo(c, j)
           V  == SupersededOf(j)
<1>2. Balanced(out[c], j, kind, lo, hi, V) BY DEF Book
<1> HIDE DEF kind, lo, hi, V
<1>3. Balanced(PurgeStream(out[c], k), j, kind, lo, hi, V) BY <1>1, <1>2, PurgeBalanced
<1>4. Balanced(out'[c], j, kind, lo, hi, V) BY <1>3
<1> QED BY <1>4, SameBook DEF kind, lo, hi, V

LEMMA UnsubscribeBooked ==
  ASSUME DeliveryInv, NEW d \in Conns, NEW k \in Streams, Unsubscribe(d, k), NEW c \in conns, Booked(c)
  PROVE  Booked(c)'
<1>1. TypeOK /\ c \in Conns BY DEF DeliveryInv, KeepInv, IInv, TypeOK
<1>2. /\ subs' = [subs EXCEPT ![d] = @ \ {k}] /\ out' = [out EXCEPT ![d] = PurgeStream(@, k)]
      /\ cursor' = [cursor EXCEPT ![d][k] = 0]
      /\ UNCHANGED <<ring, published, filling>>
  BY DEF Unsubscribe
<1>3. /\ out \in [Conns -> Queues] /\ cursor \in [Conns -> [Streams -> Nat]] /\ subs \in [Conns -> SUBSET Streams]
  BY <1>1 DEF TypeOK
<1> SUFFICES ASSUME NEW j \in subs'[c] PROVE Book(c, j)' BY DEF Booked
<1>4. j \in subs[c] /\ j \in Streams /\ (c = d => j # k) BY <1>1, <1>2, <1>3
<1>5. Book(c, j) BY <1>4 DEF Booked
<1>6. cursor'[c][j] = cursor[c][j] BY <1>1, <1>2, <1>3, <1>4
<1>7. SamePlace(c, j) BY <1>2, <1>6 DEF SamePlace, LeftOf
<1>8. CASE c # d
  <2>1. out'[c] = out[c] BY <1>1, <1>2, <1>3, <1>8
  <2> QED BY <1>5, <1>7, <2>1, BookStays
<1>9. CASE c = d
  <2>1. out'[c] = PurgeStream(out[c], k) BY <1>1, <1>2, <1>3, <1>9
  <2> QED BY <1>4, <1>5, <1>7, <1>9, <2>1, OtherPurged
<1> QED BY <1>8, <1>9

LEMMA SubscribeBooked ==
  ASSUME DeliveryInv, NEW d \in Conns, NEW k \in Streams, NEW since \in Sinces(k), Subscribe(d, k, since), NEW c \in conns,
         Booked(c)
  PROVE  Booked(c)'
<1>1. IInv /\ TypeOK /\ KeepInv /\ RingsKeyed /\ c \in Conns BY DEF DeliveryInv, KeepInv, IInv, TypeOK
<1>2. /\ out \in [Conns -> Queues] /\ cursor \in [Conns -> [Streams -> Nat]] /\ subs \in [Conns -> SUBSET Streams]
      /\ subs[c] \subseteq Streams
  BY <1>1 DEF TypeOK
<1>3. filling = NoFill BY DEF Subscribe, Idle
<1>4. CASE CloseConn(d) /\ UNCHANGED <<subs, streamVars, filling, cursor>>
  <2>1. UNCHANGED <<out, subs, cursor, ring, published, filling>> BY <1>4 DEF CloseConn, streamVars
  <2> QED BY <2>1, SamePlaces, BookStays DEF Booked
<1>5. ASSUME NEW victim \in Evictable(k), ring' = RingsWithout(victim),
             subs' = [subs EXCEPT ![d] = @ \cup {k}], out' = [out EXCEPT ![d] = PurgeStream(@, k)],
             filling' = [conn |-> d, stream |-> k, rest |-> BackfillEntries(ring[k], since)],
             cursor' = [cursor EXCEPT ![d][k] = CursorAfter(ring[k], since)],
             UNCHANGED published
      PROVE  Booked(c)'
  <2> DEFINE b == BackfillEntries(ring[k], since)
             a == CursorAfter(ring[k], since)
  <2>1. a = ring[k].seq - Len(b) /\ a \in Nat BY <1>1, WholeTail
  <2>2. \A j \in Streams : ring'[j] = IF j = victim THEN NoRing ELSE ring[j] BY <1>5 DEF RingsWithout
  <2>3. victim # k BY <1>1, <1>5, EvictableParts
  <2> HIDE DEF a, b
  <2>4. \A j \in subs[c] : ring'[j] = ring[j] BY <1>1, <1>2, <1>5, <2>2, WatchedIsNoVictim
  <2>5. \A j : LeftOf(c, j)' = IF d = c /\ k = j THEN Len(b) ELSE 0 BY <1>5 DEF LeftOf, b
  <2>6. \A j : LeftOf(c, j) = 0 BY <1>1, <1>3 DEF LeftOf, NoFill, NoConn, Conns
  <2> SUFFICES ASSUME NEW j \in subs'[c] PROVE Book(c, j)' BY DEF Booked
  <2>7. CASE j # k \/ c # d
    <3>1. j \in subs[c] /\ cursor'[c][j] = cursor[c][j] /\ j \in Streams BY <1>1, <1>2, <1>5, <2>7
    <3>2. LeftOf(c, j)' = LeftOf(c, j) BY <2>5, <2>6, <2>7
    <3>3. SamePlace(c, j) BY <1>5, <2>4, <3>1, <3>2 DEF SamePlace
    <3>4. Book(c, j) BY <3>1 DEF Booked
    <3>5. CASE c # d
      <4>1. out'[c] = out[c] BY <1>1, <1>2, <1>5, <3>5
      <4> QED BY <3>3, <3>4, <4>1, BookStays
    <3>6. CASE c = d
      <4>1. out'[c] = PurgeStream(out[c], k) BY <1>1, <1>2, <1>5, <3>6
      <4> QED BY <2>7, <3>1, <3>3, <3>4, <3>6, <4>1, OtherPurged
    <3> QED BY <3>5, <3>6
  <2>8. CASE j = k /\ c = d
    <3>1. out'[c] = PurgeStream(out[c], k) /\ out[c] \in Queues BY <1>1, <1>2, <1>5, <2>8
    <3>2. cursor'[c][k] = a BY <1>1, <1>2, <1>5, <2>8 DEF a
    <3>3. ring'[k] = ring[k] BY <2>2, <2>3
    <3>4. LeftOf(c, k)' = Len(b) BY <2>5, <2>8
    <3>5. PushedTo(c, k)' = a BY <2>1, <3>3, <3>4 DEF PushedTo
    <3>6. \A kind, V : Balanced(PurgeStream(out[c], k), k, kind, a, a, V)
      <4> TAKE kind, V
      <4> QED BY <2>1, <3>1, PurgeBalanced
    <3>7. Book(c, k)' BY <3>1, <3>2, <3>5, <3>6 DEF Book
    <3> QED BY <2>8, <3>7
  <2> QED BY <2>7, <2>8
<1> QED BY <1>4, <1>5 DEF Subscribe

-----------------------------------------------------------------------------
LEMMA BalancedWider ==
  ASSUME NEW q \in Queues, NEW k \in Streams, NEW kind, NEW lo \in Nat, NEW hi \in Nat, NEW V, NEW W, V \subseteq W,
         Balanced(q, k, kind, lo, hi, V)
  PROVE  Balanced(q, k, kind, lo, hi, W)
<1>1. q.dropped[k] \in Nat BY DroppedIsNatural
<1> QED BY <1>1, LedgerWider DEF Balanced

\* With nothing pushed, whatever the kind will be.
LEMMA BalancedNothing ==
  ASSUME NEW q \in Queues, NEW k \in Streams, NEW lo \in Nat, NEW V, NEW W, NEW kind, NEW was, was # "session",
         Balanced(q, k, was, lo, lo, V)
  PROVE  Balanced(q, k, kind, lo, lo, W)
<1>1. Seqs(q, k) = {}
  <2>1. (lo + 1)..lo = {} OBVIOUS
  <2> QED BY <2>1 DEF Balanced, Within
<1>2. \A x \in Queued(q) : x.stream # k BY <1>1 DEF Seqs
<1>3. Gone(lo, lo, Seqs(q, k)) = {} BY <1>1 DEF Gone
<1>4. q.dropped[k] = 0
  <2>1. q.dropped[k] \in Nat BY DroppedIsNatural
  <2>2. q.dropped[k] <= Cardinality({}) BY <1>3 DEF Balanced, Ledger
  <2> QED BY <2>1, <2>2, FS_EmptySet
<1>5. Ledger(kind, lo, lo, {}, 0, W) BY LedgerFresh
<1> QED BY <1>1, <1>2, <1>4, <1>5 DEF Balanced, Within

LEMMA PublishToBooked ==
  ASSUME DeliveryInv, NEW d, NEW k \in Streams, NEW kind \in Published, NEW key \in Keys \cup {NoKey},
         NEW victim \in Evictable(k), PublishTo(d, k, kind, key, victim), ring[k] = NoRing \/ ring[k].kind = kind,
         UNCHANGED <<subs, cursor, filling>>, filling = NoFill, NEW c \in conns, c \notin closing', Booked(c)
  PROVE  Booked(c)'
<1> DEFINE it == Envelope(k, kind, key)
<1>1. IInv /\ TypeOK /\ KeepInv /\ RegistryAgrees /\ RingsKeyed /\ c \in Conns
  BY DEF DeliveryInv, KeepInv, IInv, TypeOK
<1>2. /\ Advances(k, kind, key) /\ IsEnvelope(it, k, kind, key)
      /\ \A j \in Streams \ {k, victim} : SameHead(ring'[j], ring[j]) /\ published'[j] = published[j]
  BY <1>1, PublishAdvances
<1>3. Deliver(out, subscribers[k], it, {}, {}) BY <1>1, PublishToParts, Zenon
<1> HIDE DEF it
<1>4. /\ out'[c] = IF c \in subscribers[k] THEN Push(out[c], it) ELSE out[c]
      /\ c \in subscribers[k] => ~SessionFull(out[c], it)
  BY <1>1, <1>3, Delivered DEF Takes
<1>5. it \in Item /\ it.stream = k /\ it.kind = kind /\ it.seq = ring[k].seq + 1 /\ it.key = key BY <1>2 DEF IsEnvelope
<1>6. \A j : LeftOf(c, j) = 0 /\ LeftOf(c, j)' = 0 BY <1>1 DEF LeftOf, NoFill, NoConn, Conns
<1> SUFFICES ASSUME NEW j \in subs[c] PROVE Book(c, j)' BY DEF Booked
<1>7. Book(c, j) /\ j \in Streams BY BookParts DEF Booked
<1>8. CASE j # k
  <2>1. SameHead(ring'[j], ring[j]) /\ published'[j] = published[j] BY <1>1, <1>2, <1>8, WatchedIsNoVictim
  <2>2. SamePlace(c, j) BY <1>6, <2>1 DEF SamePlace, SameHead
  <2>3. CASE c \in subscribers[k] BY <1>4, <1>5, <1>7, <1>8, <2>2, <2>3, OtherPushed
  <2>4. CASE c \notin subscribers[k] BY <1>4, <1>7, <2>2, <2>4, BookStays
  <2> QED BY <2>3, <2>4
<1>9. CASE j = k
  <2>1. c \in subscribers[k] BY <1>1, <1>9 DEF RegistryAgrees
  <2>2. out'[c] = Push(out[c], it) /\ ~SessionFull(out[c], it) BY <1>4, <2>1
  <2>3. /\ out[c] \in Queues /\ Ordered(out[c]) /\ cursor[c][k] \in Nat /\ ring[k].seq \in Nat
        /\ cursor[c][k] <= PushedTo(c, k)
    BY <1>9, BookParts
  <2>4. PushedTo(c, k) = ring[k].seq BY <1>6, <2>3 DEF PushedTo
  <2>5. PushedTo(c, k)' = ring[k].seq + 1 BY <1>2, <1>6, <2>3 DEF PushedTo, Advances
  <2> DEFINE W == SupersededOf(k)'
             lo == cursor[c][k]
             hi == ring[k].seq
  <2>6. Balanced(out[c], k, ring[k].kind, lo, hi, SupersededOf(k)) BY <1>7, <1>9, <2>4 DEF Book
  <2>7. lo \in Nat /\ hi \in Nat /\ lo <= hi BY <2>3, <2>4
  <2>8. Balanced(out[c], k, kind, lo, hi, W)
    <3>1. CASE ring[k] = NoRing
      <4>1. ring[k].kind # "session" /\ hi = 0 BY <3>1 DEF NoRing
      <4>2. lo = hi BY <2>7, <4>1
      <4> HIDE DEF lo, hi, W
      <4> QED BY <2>3, <2>6, <2>7, <4>1, <4>2, BalancedNothing
    <3>2. CASE ring[k] # NoRing
      <4>1. ring[k].kind = kind BY <3>2
      <4>2. SupersededOf(k) \subseteq W
        <5> SUFFICES ASSUME NEW n \in 1..ring[k].seq, Superseded(k, n) PROVE n \in W BY DEF SupersededOf
        <5>1. published[k][n] # NoKey BY DEF Superseded
        <5>2. PICK m \in (n + 1)..ring[k].seq : published[k][m] = published[k][n] BY DEF Superseded
        <5>3. n \in 1..ring[k].seq /\ m \in 1..ring[k].seq BY <2>3
        <5>4. published'[k][n] = published[k][n] /\ published'[k][m] = published[k][m] BY <1>2, <5>3 DEF Advances
        <5>5. n \in 1..ring'[k].seq /\ m \in (n + 1)..ring'[k].seq BY <1>2, <2>3 DEF Advances
        <5> QED BY <5>1, <5>2, <5>4, <5>5 DEF SupersededOf, Superseded
      <4> HIDE DEF lo, hi, W
      <4> QED BY <2>3, <2>6, <2>7, <4>1, <4>2, BalancedWider
    <3> QED BY <3>1, <3>2
  <2>9. \A x \in Queued(out[c]) : x.stream = k /\ it.key # NoKey /\ x.key = it.key => x.seq \in W
    <3> SUFFICES ASSUME NEW x \in Queued(out[c]), x.stream = k, it.key # NoKey, x.key = it.key PROVE x.seq \in W
      OBVIOUS
    <3>1. x.seq \in Nat /\ 0 < x.seq /\ x.seq <= ring[k].seq /\ x.key = published[k][x.seq] BY <1>9, QueuedKeys
    <3>2. x.seq \in 1..ring[k].seq BY <2>3, <3>1
    <3>3. published'[k][x.seq] = key /\ published'[k][ring[k].seq + 1] = key /\ ring'[k].seq = ring[k].seq + 1 /\ key # NoKey
      BY <1>2, <1>5, <3>1, <3>2 DEF Advances
    <3>4. x.seq \in 1..ring'[k].seq /\ ring[k].seq + 1 \in (x.seq + 1)..ring'[k].seq BY <2>3, <3>1, <3>3
    <3> QED BY <3>3, <3>4 DEF SupersededOf, Superseded
  <2>10. ring'[k].kind = kind /\ cursor'[c][k] = lo /\ PushedTo(c, k)' = hi + 1 BY <1>2, <2>5 DEF Advances
  <2>11. it.stream = k /\ it.seq = hi + 1 /\ it.kind = kind BY <1>5
  <2> HIDE DEF lo, hi, W
  <2>12. Balanced(Push(out[c], it), k, kind, lo, IF it.stream = k THEN hi + 1 ELSE hi, W)
    BY <1>5, <2>2, <2>3, <2>7, <2>8, <2>9, <2>11, PushBalanced
  <2>13. Balanced(out'[c], k, kind, lo, hi + 1, W) BY <2>2, <2>11, <2>12
  <2>14. Book(c, k)' BY <2>10, <2>13 DEF Book, W
  <2> QED BY <1>9, <2>14
<1> QED BY <1>8, <1>9

LEMMA PublishBooked ==
  ASSUME DeliveryInv, NEW d \in Conns, NEW ch \in Channels, NEW kind \in Published, NEW key \in Keys \cup {NoKey},
         Publish(d, ch, kind, key), NEW c \in conns, c \notin closing', Booked(c)
  PROVE  Booked(c)'
<1> DEFINE k == <<AccountOf(d), PrincipalOf(d), ch>>
<1>1. TypeOK /\ d \in conns BY DEF DeliveryInv, KeepInv, IInv, Publish
<1>2. k \in Streams /\ PrincipalOf(d) \in Principals BY <1>1, PeerParts DEF Streams, AccountOf, PrincipalOf
<1>3. UNCHANGED <<subs, cursor, filling>> /\ filling = NoFill BY DEF Publish, Idle
<1>4. CASE CloseConn(d) /\ UNCHANGED streamVars
  <2>1. UNCHANGED <<out, ring, published>> BY <1>4 DEF CloseConn, streamVars
  <2> QED BY <1>3, <2>1, SamePlaces, BookStays DEF Booked
<1>5. CASE Enqueue(d, "answer", PrincipalOf(d)) /\ UNCHANGED streamVars
  <2>1. UNCHANGED <<ring, published>> BY <1>5 DEF streamVars
  <2> SUFFICES ASSUME NEW j \in subs[c] PROVE Book(c, j)' BY <1>3 DEF Booked
  <2>2. SamePlace(c, j) BY <1>3, <2>1, SamePlaces
  <2> QED BY <1>1, <1>2, <1>5, <2>2, EnqueueBooked DEF Plain, Booked
<1>6. ASSUME NEW victim \in Evictable(k), PublishTo(d, k, kind, key, victim), ring[k] = NoRing \/ ring[k].kind = kind
      PROVE  Booked(c)'
  <2> HIDE DEF k
  <2> QED BY <1>2, <1>3, <1>6, PublishToBooked
<1> QED BY <1>4, <1>5, <1>6 DEF Publish

-----------------------------------------------------------------------------
LEMMA NextLoss == LossInv /\ [Next]_vars => LossInv'
<1> SUFFICES ASSUME LossInv, [Next]_vars PROVE LossInv' OBVIOUS
<1>0. /\ DeliveryInv /\ DeliveryInv' /\ IInv /\ TypeOK /\ FillIsTail
      /\ \A c \in conns \ closing : Booked(c)
  BY NextDelivery DEF LossInv, DeliveryInv, KeepInv, IInv
<1> SUFFICES ASSUME NEW c \in conns', c \notin closing' PROVE Booked(c)' BY <1>0 DEF LossInv
<1>1. ASSUME NEW a \in Accounts, NEW p \in Principals, Connect(a, p) PROVE Booked(c)'
  <2>1. closing = {} BY <1>1 DEF Connect, Idle
  <2> QED BY <1>0, <1>1, <2>1, ConnectBooked
<1>2. ASSUME NEW d \in Conns, Disconnect(d) \/ FinishClose(d) PROVE Booked(c)'
  <2>1. d \in conns /\ Forget(d) BY <1>0, <1>2 DEF Disconnect, FinishClose, TypeOK
  <2>2. c \in conns /\ c # d BY <2>1 DEF Forget
  <2>3. c \notin closing BY <2>1, <2>2 DEF Forget, Deliver
  <2> QED BY <1>0, <2>1, <2>2, <2>3, ForgetBooked
<1>3. ASSUME NEW d \in Conns, Answer(d) PROVE Booked(c)'
  <2>1. closing = {} /\ conns' = conns BY <1>3 DEF Answer, Idle, connVars
  <2> QED BY <1>0, <1>3, <2>1, AnswerBooked
<1>4. ASSUME NEW d \in Conns, Offend(d) PROVE Booked(c)'
  <2>1. closing = {} /\ UNCHANGED <<conns, out, subs, cursor, ring, published, filling>>
    BY <1>4 DEF Offend, CloseConn, Idle, connVars, streamVars
  <2> QED BY <1>0, <2>1, SamePlaces, BookStays DEF Booked
<1>5. ASSUME NEW d \in Conns, NEW p \in Principals, Direct(d, p) PROVE Booked(c)'
  <2>1. closing = {} /\ conns' = conns BY <1>5 DEF Direct, Idle, connVars
  <2> QED BY <1>0, <1>5, <2>1, DirectBooked
<1>6. ASSUME NEW d \in Conns, NEW ch \in Channels, NEW kind \in Published, NEW key \in Keys \cup {NoKey},
             Publish(d, ch, kind, key)
      PROVE  Booked(c)'
  <2>1. closing = {} /\ conns' = conns BY <1>6 DEF Publish, Idle, connVars
  <2> QED BY <1>0, <1>6, <2>1, PublishBooked
<1>7. ASSUME NEW d \in Conns, NEW k \in Streams, NEW since \in Sinces(k), Subscribe(d, k, since) PROVE Booked(c)'
  <2>1. closing = {} /\ conns' = conns BY <1>7 DEF Subscribe, Idle, connVars
  <2> QED BY <1>0, <1>7, <2>1, SubscribeBooked
<1>8. ASSUME NEW d \in Conns, NEW k \in Streams, Unsubscribe(d, k) PROVE Booked(c)'
  <2>1. closing = {} /\ conns' = conns BY <1>8 DEF Unsubscribe, Idle, connVars
  <2> QED BY <1>0, <1>8, <2>1, UnsubscribeBooked
<1>9. ASSUME NEW d \in Conns, TakeOutbound(d) PROVE Booked(c)'
  <2>1. closing = {} /\ conns' = conns BY <1>9 DEF TakeOutbound, Idle, connVars
  <2> QED BY <1>0, <1>9, <2>1, TakeOutboundBooked
<1>10. CASE BackfillEntry
  <2>1. closing = {} /\ conns' = conns BY <1>0, <1>10 DEF BackfillEntry, FillIsTail, connVars
  <2> QED BY <1>0, <1>10, <2>1, BackfillEntryBooked
<1>11. CASE Backfilled
  <2>1. closing = {} /\ conns' = conns BY <1>0, <1>11 DEF Backfilled, FillIsTail, connVars
  <2> QED BY <1>0, <1>11, <2>1, BackfilledBooked
<1>12. CASE UNCHANGED vars
  <2>1. UNCHANGED <<conns, closing, out, subs, cursor, ring, published, filling>>
    BY <1>12 DEF vars, connVars, queueVars, streamVars
  <2> QED BY <1>0, <2>1, SamePlaces, BookStays DEF Booked
<1> QED BY <1>1, <1>2, <1>3, <1>4, <1>5, <1>6, <1>7, <1>8, <1>9, <1>10, <1>11, <1>12 DEF Next

\* What c still has coming of k is what is queued and the end its backfill has left.
LEMMA ComingIs ==
  ASSUME DeliveryInv, NEW c \in conns, NEW k \in subs[c]
  PROVE  Coming(c, k) = Seqs(out[c], k) \cup ((PushedTo(c, k) + 1)..ring[k].seq)
<1>1. QueuedSeqs(c, k) = Seqs(out[c], k)
  <2>1. \A n : n \in QueuedSeqs(c, k) <=> \E i \in DOMAIN out[c].items : out[c].items[i].stream = k /\ n = out[c].items[i].seq
    BY DEF QueuedSeqs
  <2>2. \A n : n \in Seqs(out[c], k) <=> \E i \in DOMAIN out[c].items : out[c].items[i].stream = k /\ n = out[c].items[i].seq
    BY DEF Seqs, Queued
  <2> QED BY <2>1, <2>2
<1>2. FillSeqs(c, k) = (PushedTo(c, k) + 1)..ring[k].seq
  <2>1. c \in Conns /\ ring[k].seq \in Nat /\ IInv /\ FillIsTail BY BookParts DEF DeliveryInv, KeepInv
  <2>2. CASE ~(filling.conn = c /\ filling.stream = k)
    <3>1. FillSeqs(c, k) = {} /\ PushedTo(c, k) = ring[k].seq BY <2>1, <2>2 DEF FillSeqs, PushedTo, LeftOf
    <3> QED BY <2>1, <3>1
  <2>3. CASE filling.conn = c /\ filling.stream = k
    <3> DEFINE s == filling.rest
               n == Len(s)
               top == ring[k].seq
    <3>1. filling # NoFill BY <2>1, <2>3 DEF NoFill, NoConn, Conns
    <3>2. s \in Seq(Entries) BY <2>1, <3>1, FillingParts
    <3>3. TailLeft(ring[k], s, cursor[c][k], published[k]) BY <2>1, <2>3, <3>1 DEF FillIsTail
    <3>4. n \in Nat /\ DOMAIN s = 1..n /\ n <= top /\ \A i \in 1..n : s[i].seq = top - n + i BY <3>2, <3>3 DEF TailLeft
    <3>5. PushedTo(c, k) = top - n BY <2>3 DEF PushedTo, LeftOf
    <3>6. FillSeqs(c, k) = {s[i].seq : i \in 1..n} BY <2>3, <3>4 DEF FillSeqs
    <3>7. top \in Nat BY <2>1
    <3> HIDE DEF s, n, top
    <3>8. \A m \in (top - n + 1)..top : m - (top - n) \in 1..n /\ top - n + (m - (top - n)) = m BY <3>4, <3>7
    <3>9. \A i \in 1..n : top - n + i \in (top - n + 1)..top BY <3>4, <3>7
    <3>10. \A m : m \in {s[i].seq : i \in 1..n} <=> m \in (top - n + 1)..top
      <4> TAKE m
      <4>1. ASSUME m \in {s[i].seq : i \in 1..n} PROVE m \in (top - n + 1)..top
        <5>1. PICK i \in 1..n : m = s[i].seq BY <4>1
        <5>2. m = top - n + i BY <3>4, <5>1
        <5> QED BY <3>9, <5>2
      <4>2. ASSUME m \in (top - n + 1)..top PROVE m \in {s[i].seq : i \in 1..n}
        <5>1. m - (top - n) \in 1..n /\ top - n + (m - (top - n)) = m BY <3>8, <4>2
        <5>2. s[m - (top - n)].seq = m BY <3>4, <5>1
        <5> QED BY <5>1, <5>2
      <4> QED BY <4>1, <4>2
    <3>11. {s[i].seq : i \in 1..n} = (top - n + 1)..top BY <3>10
    <3> QED BY <3>5, <3>6, <3>11 DEF top
  <2> QED BY <2>2, <2>3
<1> QED BY <1>1, <1>2 DEF Coming

\* Nothing a subscriber was to be sent goes missing unaccounted for, for any number of
\* connections, streams and keys and all limits: a session event it has not been sent
\* is queued for it or left of its backfill, or it is being closed; telemetry is
\* superseded by a newer envelope of its key, or counted in the Gap its stream owes,
\* which never counts more than is missing.
THEOREM LossesAreAccounted == Spec => []LossAccounted
<1>1. Init => LossInv BY InitLoss
<1>2. LossInv /\ [Next]_vars => LossInv' BY NextLoss
<1>3. LossInv => LossAccounted
  <2> SUFFICES ASSUME LossInv, NEW c \in Steady, NEW k \in subs[c]
               PROVE  /\ ring[k].kind = "session" => Coming(c, k) = (cursor[c][k] + 1)..ring[k].seq
                      /\ ring[k].kind = "telemetry" =>
                           /\ Cardinality({n \in Missing(c, k) : ~Superseded(k, n)}) <= out[c].dropped[k]
                           /\ out[c].dropped[k] <= Cardinality(Missing(c, k))
    BY DEF LossAccounted, NoSilentLoss, TelemetryLossAccounted
  <2> DEFINE lo == cursor[c][k]
             hi == PushedTo(c, k)
             S == Seqs(out[c], k)
             V == SupersededOf(k)
             top == ring[k].seq
             G == Gone(lo, hi, S)
  <2>1. DeliveryInv /\ c \in conns /\ c \notin closing BY DEF LossInv, Steady
  <2>2. Book(c, k) BY <2>1 DEF LossInv, Booked
  <2>3. lo \in Nat /\ hi \in Nat /\ top \in Nat /\ lo <= hi /\ LeftOf(c, k) \in Nat BY <2>1, BookParts
  <2>4. hi <= top BY <2>3 DEF PushedTo
  <2>5. S \subseteq (lo + 1)..hi /\ Ledger(ring[k].kind, lo, hi, S, out[c].dropped[k], V)
    BY <2>2 DEF Book, Balanced, Within
  <2>6. Coming(c, k) = S \cup ((hi + 1)..top) BY <2>1, ComingIs
  <2>7. Missing(c, k) = ((lo + 1)..top) \ Coming(c, k) BY DEF Missing
  <2>8. V = {n \in 1..top : Superseded(k, n)} BY DEF SupersededOf
  <2> HIDE DEF lo, hi, S, V, top
  <2>9. Missing(c, k) = G BY <2>3, <2>4, <2>5, <2>6, <2>7 DEF Gone
  <2>10. {n \in G : ~Superseded(k, n)} = G \ V
    <3>1. \A n \in G : n \in 1..top BY <2>3, <2>4 DEF Gone
    <3> QED BY <2>8, <3>1
  <2>11. CASE ring[k].kind = "session"
    <3>1. G = {} BY <2>5, <2>11 DEF Ledger
    <3>2. S = (lo + 1)..hi BY <2>5, <3>1 DEF Gone
    <3>3. Coming(c, k) = (lo + 1)..top BY <2>3, <2>4, <2>6, <3>2
    <3> QED BY <2>11, <3>3 DEF lo, top
  <2>12. CASE ring[k].kind # "session"
    <3>1. Cardinality(G \ V) <= out[c].dropped[k] /\ out[c].dropped[k] <= Cardinality(G) BY <2>5, <2>12 DEF Ledger
    <3> HIDE DEF G
    <3> QED BY <2>9, <2>10, <2>12, <3>1
  <2> QED BY <2>11, <2>12
<1> QED BY <1>1, <1>2, <1>3, PTL DEF Spec

-----------------------------------------------------------------------------
\* The plain frames of a queue.

PlainAt(q) == {i \in DOMAIN q.items : q.items[i].kind \in Plain}

\* Where two ways of taking the same items out of a sequence agree up to m, the first
\* is not ahead at m.
LEMMA ThinnedNotAhead ==
  ASSUME NEW S, NEW s \in Seq(S), NEW t \in Seq(S), NEW u \in Seq(S), NEW I \in SUBSET DOMAIN s,
         NEW f, NEW g, Thins(s, t, I, f), Thins(s, u, I, g), NEW m \in DOMAIN t \cap DOMAIN u,
         \A j \in DOMAIN t \cap DOMAIN u : j < m => f[j] = g[j]
  PROVE  ~(f[m] < g[m])
<1> SUFFICES ASSUME f[m] < g[m] PROVE FALSE OBVIOUS
<1>1. DOMAIN t = 1..Len(t) /\ DOMAIN u = 1..Len(u) /\ Len(t) \in Nat /\ Len(u) \in Nat /\ I \subseteq Nat OBVIOUS
<1>2. f[m] \in I /\ g[m] \in I BY DEF Thins
<1>3. PICK j \in DOMAIN u : g[j] = f[m] BY <1>2 DEF Thins
<1>4. g[j] < g[m] BY <1>3
<1>5. ~(m < j)
  <2> SUFFICES ASSUME m < j PROVE FALSE OBVIOUS
  <2>1. g[m] < g[j] BY DEF Thins
  <2> QED BY <1>1, <1>2, <1>3, <1>4, <2>1
<1>6. j # m BY <1>1, <1>2, <1>4
<1>7. j < m /\ j \in DOMAIN t BY <1>1, <1>5, <1>6
<1>8. f[j] = f[m] /\ f[j] < f[m] BY <1>3, <1>7 DEF Thins
<1> QED BY <1>1, <1>2, <1>8

\* What is left does not depend on how it is taken out.
LEMMA ThinnedOneWay ==
  ASSUME NEW S, NEW s \in Seq(S), NEW t \in Seq(S), NEW u \in Seq(S), NEW I \in SUBSET DOMAIN s,
         NEW f, NEW g, Thins(s, t, I, f), Thins(s, u, I, g)
  PROVE  t = u
<1> DEFINE D == DOMAIN t \cap DOMAIN u
           T == {n \in D : f[n] # g[n]}
<1>1. DOMAIN t = 1..Len(t) /\ DOMAIN u = 1..Len(u) /\ Len(t) \in Nat /\ Len(u) \in Nat /\ I \subseteq Nat OBVIOUS
<1>2. \A n \in D : f[n] \in I /\ g[n] \in I BY DEF Thins
<1>3. ASSUME T # {} PROVE FALSE
  <2>1. T \in SUBSET Nat BY <1>1
  <2> HIDE DEF T
  <2>2. PICK m \in T : \A n \in T : m <= n BY <1>3, <2>1, LeastNatural
  <2>3. m \in D /\ f[m] # g[m] /\ m \in Nat BY <2>1, <2>2 DEF T
  <2>4. \A j \in D : j < m => f[j] = g[j]
    <3> SUFFICES ASSUME NEW j \in D, j < m, f[j] # g[j] PROVE FALSE OBVIOUS
    <3>1. j \in T /\ j \in Nat BY <1>1 DEF T
    <3>2. m <= j BY <2>2, <3>1
    <3> QED BY <2>3, <3>1, <3>2
  <2>5. m \in DOMAIN u \cap DOMAIN t /\ \A j \in DOMAIN u \cap DOMAIN t : j < m => g[j] = f[j] BY <2>3, <2>4
  <2>6a. m \in DOMAIN t \cap DOMAIN u /\ \A j \in DOMAIN t \cap DOMAIN u : j < m => f[j] = g[j] BY <2>3, <2>4
  <2>6. ~(f[m] < g[m]) BY <2>6a, ThinnedNotAhead, ZenonT(60)
  <2>7. ~(g[m] < f[m]) BY <2>5, ThinnedNotAhead, ZenonT(60)
  <2>8. f[m] \in Nat /\ g[m] \in Nat BY <1>1, <1>2, <2>3
  <2> QED BY <2>3, <2>6, <2>7, <2>8
<1>4. \A n \in D : f[n] = g[n] BY <1>3
<1> HIDE DEF T
<1>5. ~(Len(t) < Len(u))
  <2> SUFFICES ASSUME Len(t) < Len(u) PROVE FALSE OBVIOUS
  <2> DEFINE m == Len(t) + 1
  <2>1. m \in DOMAIN u BY <1>1
  <2>2. g[m] \in I BY <2>1 DEF Thins
  <2>3. PICK j \in DOMAIN t : f[j] = g[m] BY <2>2 DEF Thins
  <2>4. j \in D /\ j < m BY <1>1, <2>3
  <2> HIDE DEF m
  <2>5. g[j] = g[m] /\ g[j] < g[m] BY <1>4, <2>1, <2>3, <2>4 DEF Thins
  <2> QED BY <1>1, <2>2, <2>5
<1>6. ~(Len(u) < Len(t))
  <2> SUFFICES ASSUME Len(u) < Len(t) PROVE FALSE OBVIOUS
  <2> DEFINE m == Len(u) + 1
  <2>1. m \in DOMAIN t BY <1>1
  <2>2. f[m] \in I BY <2>1 DEF Thins
  <2>3. PICK j \in DOMAIN u : g[j] = f[m] BY <2>2 DEF Thins
  <2>4. j \in D /\ j < m BY <1>1, <2>3
  <2> HIDE DEF m
  <2>5. f[j] = f[m] /\ f[j] < f[m] BY <1>4, <2>1, <2>3, <2>4 DEF Thins
  <2> QED BY <1>1, <2>2, <2>5
<1>7. Len(t) = Len(u)
  <2> DEFINE m == Len(t)
             n == Len(u)
  <2>1. m \in Nat /\ n \in Nat /\ ~(m < n) /\ ~(n < m) BY <1>1, <1>5, <1>6
  <2> HIDE DEF m, n
  <2>2. m = n BY <2>1
  <2> QED BY <2>2 DEF m, n
<1>8. \A i \in 1..Len(t) : t[i] = u[i]
  <2> SUFFICES ASSUME NEW i \in 1..Len(t) PROVE t[i] = u[i] OBVIOUS
  <2>1. i \in D /\ f[i] = g[i] BY <1>1, <1>4, <1>7
  <2> QED BY <2>1 DEF Thins
<1> QED BY <1>7, <1>8

\* The plain frames are what taking out the others leaves.
LEMMA PlainThins ==
  ASSUME NEW q \in Queues
  PROVE  /\ PlainOf(q) \in Seq(Item) /\ PlainAt(q) \in SUBSET DOMAIN q.items
         /\ \E f : Thins(q.items, PlainOf(q), PlainAt(q), f)
<1>1. q.items \in Seq(Item) /\ PlainAt(q) \in SUBSET DOMAIN q.items BY QueueParts DEF PlainAt
<1>2. PlainOf(q) = AtIndices(q.items, PlainAt(q)) BY DEF PlainOf, PlainAt
<1> QED BY <1>1, <1>2, AtIndicesIsSeq, AtIndicesThins

LEMMA PlainIs ==
  ASSUME NEW q \in Queues, NEW t \in Seq(Item), NEW f, Thins(q.items, t, PlainAt(q), f)
  PROVE  PlainOf(q) = t
<1>1. q.items \in Seq(Item) BY QueueParts
<1>2. PlainOf(q) \in Seq(Item) /\ PlainAt(q) \in SUBSET DOMAIN q.items BY PlainThins
<1>3. PICK g : Thins(q.items, PlainOf(q), PlainAt(q), g) BY PlainThins
<1> QED BY <1>1, <1>2, <1>3, ThinnedOneWay

\* Taking out others leaves them.
LEMMA PlainStays ==
  ASSUME NEW q \in Queues, NEW r \in Queues, NEW I \in SUBSET DOMAIN q.items, PlainAt(q) \subseteq I,
         NEW g, Thins(q.items, r.items, I, g)
  PROVE  PlainOf(r) = PlainOf(q)
<1> DEFINE t == PlainOf(r)
<1>1. t \in Seq(Item) /\ PlainAt(r) \in SUBSET DOMAIN r.items BY PlainThins
<1>2. PICK h : Thins(r.items, t, PlainAt(r), h) BY PlainThins
<1> HIDE DEF t
<1> DEFINE f == [j \in DOMAIN t |-> g[h[j]]]
<1>3. ASSUME NEW j \in DOMAIN t
      PROVE  /\ h[j] \in PlainAt(r) /\ h[j] \in DOMAIN r.items /\ g[h[j]] \in I
             /\ t[j] = r.items[h[j]] /\ r.items[h[j]] = q.items[g[h[j]]] /\ g[h[j]] \in PlainAt(q)
  <2>1. h[j] \in PlainAt(r) /\ t[j] = r.items[h[j]] BY <1>2 DEF Thins
  <2>2. h[j] \in DOMAIN r.items BY <1>1, <2>1
  <2>3. g[h[j]] \in I /\ r.items[h[j]] = q.items[g[h[j]]] BY <2>2 DEF Thins
  <2> QED BY <2>1, <2>2, <2>3 DEF PlainAt
<1>4. f \in [DOMAIN t -> PlainAt(q)] BY <1>3
<1>5. ASSUME NEW i \in DOMAIN t, NEW j \in DOMAIN t, i < j PROVE f[i] < f[j]
  <2>1. h[i] < h[j] BY <1>2, <1>5 DEF Thins
  <2>2. g[h[i]] < g[h[j]] BY <1>3, <2>1 DEF Thins
  <2> QED BY <2>2
<1>6. ASSUME NEW n \in PlainAt(q) PROVE \E i \in DOMAIN t : f[i] = n
  <2>1. PICK m \in DOMAIN r.items : g[m] = n BY DEF Thins
  <2>2. r.items[m] = q.items[n] BY <2>1 DEF Thins
  <2>3. m \in PlainAt(r) BY <2>2 DEF PlainAt
  <2>4. PICK i \in DOMAIN t : h[i] = m BY <1>2, <2>3 DEF Thins
  <2> QED BY <2>1, <2>4
<1>7. Thins(q.items, t, PlainAt(q), f) BY <1>3, <1>4, <1>5, <1>6 DEF Thins
<1> HIDE DEF f
<1> QED BY <1>1, <1>7, PlainIs DEF t

LEMMA PlainLess ==
  ASSUME NEW q \in Queues, NEW r \in Queues, NEW i \in DOMAIN q.items, q.items[i].kind \notin Plain,
         r.items = RemoveItem(q, i).items
  PROVE  PlainOf(r) = PlainOf(q)
<1> DEFINE I == DOMAIN q.items \ {i}
<1>1. PICK g : Thins(q.items, r.items, I, g) BY RemoveItemThins
<1>2. I \in SUBSET DOMAIN q.items /\ PlainAt(q) \subseteq I BY DEF PlainAt
<1> HIDE DEF I
<1> QED BY <1>1, <1>2, PlainStays

LEMMA PlainPurged ==
  ASSUME NEW q \in Queues, NEW k \in Streams
  PROVE  PlainOf(PurgeStream(q, k)) = PlainOf(q)
<1> DEFINE I == {i \in DOMAIN q.items : q.items[i].stream # k}
<1>1. PICK g : Thins(q.items, PurgeStream(q, k).items, I, g) BY PurgeThins
<1>2. PurgeStream(q, k) \in Queues BY PurgeStreamType
<1>3. I \in SUBSET DOMAIN q.items OBVIOUS
<1>4. PlainAt(q) \subseteq I
  <2> SUFFICES ASSUME NEW i \in DOMAIN q.items, q.items[i].kind \in Plain PROVE q.items[i].stream # k BY DEF PlainAt
  <2>1. q.items[i] \in Item BY QueueParts
  <2>2. q.items[i].kind \notin Published BY DEF Plain, Published
  <2>3. q.items[i].stream = NoStream BY <2>1, <2>2, PublishedHasStream
  <2> QED BY <2>3, NoStreamIsNone
<1> HIDE DEF I
<1> QED BY <1>1, <1>2, <1>3, <1>4, PlainStays

\* Adding one appends it.
LEMMA PlainAdded ==
  ASSUME NEW q \in Queues, NEW it \in Item
  PROVE  PlainOf(Add(q, it)) = IF it.kind \in Plain THEN Append(PlainOf(q), it) ELSE PlainOf(q)
<1> DEFINE r == Add(q, it)
           t == PlainOf(q)
           u == Append(t, it)
           n == Len(q.items)
           m == Len(t)
<1>1. r \in Queues /\ r.items = Append(q.items, it) BY AddType, AddParts
<1>2. q.items \in Seq(Item) /\ n \in Nat /\ DOMAIN q.items = 1..n BY QueueParts
<1>3. t \in Seq(Item) /\ PlainAt(q) \in SUBSET DOMAIN q.items BY PlainThins
<1>4. PICK f : Thins(q.items, t, PlainAt(q), f) BY PlainThins
<1> HIDE DEF r, t
<1>5. /\ DOMAIN r.items = 1..(n + 1) /\ r.items[n + 1] = it /\ \A i \in 1..n : r.items[i] = q.items[i]
  BY <1>1, <1>2
<1>6. m \in Nat /\ DOMAIN t = 1..m BY <1>3
<1>7. u \in Seq(Item) /\ DOMAIN u = 1..(m + 1) /\ u[m + 1] = it /\ \A i \in 1..m : u[i] = t[i] BY <1>3
<1> HIDE DEF n, m, u
<1>8. \A i \in 1..m : f[i] \in PlainAt(q) /\ f[i] \in 1..n /\ t[i] = q.items[f[i]] BY <1>2, <1>3, <1>4, <1>6 DEF Thins
<1>9. \A i, j \in 1..m : i < j => f[i] < f[j] BY <1>4, <1>6 DEF Thins
<1>10. \A x \in PlainAt(q) : \E i \in 1..m : f[i] = x BY <1>4, <1>6 DEF Thins
<1>11. CASE it.kind \in Plain
  <2> DEFINE g == [j \in 1..(m + 1) |-> IF j = m + 1 THEN n + 1 ELSE f[j]]
  <2>1. PlainAt(r) = PlainAt(q) \cup {n + 1}
    <3>1. \A i \in 1..(n + 1) : i = n + 1 \/ i \in 1..n BY <1>2
    <3>2. \A i : i \in PlainAt(r) <=> i \in 1..(n + 1) /\ r.items[i].kind \in Plain BY <1>5 DEF PlainAt
    <3>3. \A i : i \in PlainAt(q) <=> i \in 1..n /\ q.items[i].kind \in Plain BY <1>2 DEF PlainAt
    <3>4. n + 1 \in 1..(n + 1) /\ \A i \in 1..n : i \in 1..(n + 1) BY <1>2
    <3> QED BY <1>5, <1>11, <3>1, <3>2, <3>3, <3>4
  <2>2. \A j \in 1..(m + 1) : j = m + 1 \/ (j \in 1..m /\ j # m + 1) BY <1>6
  <2>3. g \in [DOMAIN u -> PlainAt(r)] BY <1>7, <1>8, <2>1, <2>2
  <2>4. ASSUME NEW i \in DOMAIN u, NEW j \in DOMAIN u, i < j PROVE g[i] < g[j]
    <3>1. i \in 1..m /\ i \in 1..(m + 1) /\ i # m + 1 /\ j \in 1..(m + 1) BY <1>6, <1>7, <2>4
    <3>2. g[i] = f[i] /\ f[i] \in 1..n BY <1>8, <3>1
    <3>3. CASE j = m + 1
      <4>1. g[j] = n + 1 BY <3>1, <3>3
      <4> QED BY <1>2, <3>2, <4>1
    <3>4. CASE j # m + 1
      <4>1. j \in 1..m /\ g[j] = f[j] BY <2>2, <3>1, <3>4
      <4> QED BY <1>9, <2>4, <3>1, <3>2, <4>1
    <3> QED BY <3>3, <3>4
  <2>5. ASSUME NEW x \in PlainAt(r) PROVE \E i \in DOMAIN u : g[i] = x
    <3>1. CASE x = n + 1
      <4>1. m + 1 \in 1..(m + 1) BY <1>6
      <4> QED BY <1>7, <3>1, <4>1
    <3>2. CASE x \in PlainAt(q)
      <4>1. PICK i \in 1..m : f[i] = x BY <1>10, <3>2
      <4>2. i \in 1..(m + 1) /\ i # m + 1 BY <1>6
      <4> QED BY <1>7, <4>1, <4>2
    <3> QED BY <2>1, <3>1, <3>2
  <2>6. ASSUME NEW i \in DOMAIN u PROVE u[i] = r.items[g[i]]
    <3>1. CASE i = m + 1
      <4>1. g[i] = n + 1 BY <1>7, <3>1
      <4> QED BY <1>5, <1>7, <3>1, <4>1
    <3>2. CASE i # m + 1
      <4>1. i \in 1..m /\ g[i] = f[i] BY <1>7, <2>2, <3>2
      <4> QED BY <1>5, <1>7, <1>8, <4>1
    <3> QED BY <3>1, <3>2
  <2>7. Thins(r.items, u, PlainAt(r), g) BY <2>3, <2>4, <2>5, <2>6 DEF Thins
  <2> HIDE DEF g
  <2>8. PlainOf(r) = u BY <1>1, <1>7, <2>7, PlainIs
  <2> QED BY <1>11, <2>8 DEF r, u, t
<1>12. CASE it.kind \notin Plain
  <2>1. PlainAt(r) = PlainAt(q)
    <3>1. \A i \in 1..(n + 1) : i = n + 1 \/ i \in 1..n BY <1>2
    <3>2. \A i : i \in PlainAt(r) <=> i \in 1..(n + 1) /\ r.items[i].kind \in Plain BY <1>5 DEF PlainAt
    <3>3. \A i : i \in PlainAt(q) <=> i \in 1..n /\ q.items[i].kind \in Plain BY <1>2 DEF PlainAt
    <3>4. n + 1 \in 1..(n + 1) /\ \A i \in 1..n : i \in 1..(n + 1) BY <1>2
    <3> QED BY <1>5, <1>12, <3>1, <3>2, <3>3, <3>4
  <2>2. Thins(r.items, t, PlainAt(r), f) BY <1>4, <1>5, <1>6, <1>8, <2>1 DEF Thins
  <2>3. PlainOf(r) = t BY <1>1, <1>3, <2>2, PlainIs
  <2> QED BY <1>12, <2>3 DEF r, t
<1> QED BY <1>11, <1>12

\* A take removes the first of them, and it was the first frame, or none.
LEMMA PlainTaken ==
  ASSUME NEW q \in Queues, q.items # <<>>
  PROVE  \/ PlainOf(TakeFrame(q)) = PlainOf(q)
         \/ PlainOf(TakeFrame(q)) = Tail(PlainOf(q)) /\ TakeFrame(q).items = Tail(q.items)
<1> DEFINE r == TakeFrame(q)
           t == PlainOf(q)
           u == Tail(t)
           n == Len(q.items)
           m == Len(t)
<1>1. r \in Queues /\ r.items = RemoveItem(q, 1).items /\ 1 \in DOMAIN q.items BY TakeFrameType, TakeFrameParts
<1>2. q.items \in Seq(Item) /\ n \in Nat /\ DOMAIN q.items = 1..n BY QueueParts
<1>3. t \in Seq(Item) /\ PlainAt(q) \in SUBSET DOMAIN q.items BY PlainThins
<1>4. PICK f : Thins(q.items, t, PlainAt(q), f) BY PlainThins
<1>5. r.items = Tail(q.items)
  <2>1. r.items = SubSeq(q.items, 1, 1 - 1) \o SubSeq(q.items, 1 + 1, Len(q.items)) BY <1>1, RemoveItemParts
  <2>2. SubSeq(q.items, 1, 0) \o SubSeq(q.items, 2, Len(q.items)) = Tail(q.items) BY <1>1, <1>2
  <2>3. 1 - 1 = 0 /\ 1 + 1 = 2 OBVIOUS
  <2> QED BY <2>1, <2>2, <2>3
<1> HIDE DEF r, t
<1>6. CASE q.items[1].kind \notin Plain
  <2>1. PlainOf(r) = PlainOf(q) BY <1>1, <1>6, PlainLess
  <2> QED BY <2>1 DEF r
<1>7. CASE q.items[1].kind \in Plain
  <2>1. 1 \in PlainAt(q) BY <1>1, <1>7 DEF PlainAt
  <2>2. m \in Nat /\ DOMAIN t = 1..m BY <1>3
  <2>3. \A i \in 1..m : f[i] \in PlainAt(q) /\ f[i] \in 1..n /\ t[i] = q.items[f[i]] BY <1>2, <1>3, <1>4, <2>2 DEF Thins
  <2>4. \A i, j \in 1..m : i < j => f[i] < f[j] BY <1>4, <2>2 DEF Thins
  <2>5. \A x \in PlainAt(q) : \E i \in 1..m : f[i] = x BY <1>4, <2>2 DEF Thins
  <2>6. 1 \in 1..m /\ f[1] = 1
    <3>1. PICK i \in 1..m : f[i] = 1 BY <2>1, <2>5
    <3>2. 1 \in 1..m /\ i \in Nat BY <2>2
    <3>3. f[1] \in 1..n BY <2>3, <3>2
    <3>4. ~(1 < i)
      <4> SUFFICES ASSUME 1 < i PROVE FALSE OBVIOUS
      <4>1. f[1] < f[i] BY <2>4, <3>2
      <4> QED BY <1>2, <3>1, <3>3, <4>1
    <3> QED BY <2>2, <3>1, <3>2, <3>4
  <2>7. u \in Seq(Item) /\ DOMAIN u = 1..(m - 1) /\ \A i \in 1..(m - 1) : u[i] = t[i + 1] BY <1>3, <2>2, <2>6
  <2>8. DOMAIN r.items = 1..(n - 1) /\ \A i \in 1..(n - 1) : r.items[i] = q.items[i + 1]
    <3> DEFINE s == q.items
    <3>1. s \in Seq(Item) /\ s # <<>> /\ n = Len(s) BY <1>2
    <3> HIDE DEF s
    <3>2. DOMAIN Tail(s) = 1..(n - 1) /\ \A i \in 1..(n - 1) : Tail(s)[i] = s[i + 1] BY <3>1
    <3> QED BY <1>5, <3>2 DEF s
  <2> HIDE DEF n, m, u
  <2> DEFINE g == [j \in 1..(m - 1) |-> f[j + 1] - 1]
  <2>9. \A i \in 1..(m - 1) : i + 1 \in 1..m /\ 1 < i + 1 BY <2>2, <2>6
  <2>10. ASSUME NEW i \in 1..(m - 1)
         PROVE  /\ g[i] = f[i + 1] - 1 /\ f[i + 1] \in 1..n /\ g[i] \in 1..(n - 1) /\ g[i] + 1 = f[i + 1]
                /\ g[i] \in PlainAt(r) /\ u[i] = r.items[g[i]]
    <3>1. g[i] = f[i + 1] - 1 OBVIOUS
    <3>2. f[i + 1] \in 1..n /\ f[i + 1] \in PlainAt(q) /\ t[i + 1] = q.items[f[i + 1]] BY <2>3, <2>9
    <3>3. f[1] < f[i + 1] BY <2>4, <2>6, <2>9
    <3> HIDE DEF g
    <3>4. g[i] \in 1..(n - 1) /\ g[i] + 1 = f[i + 1] BY <1>2, <2>6, <3>1, <3>2, <3>3
    <3>5. r.items[g[i]] = q.items[f[i + 1]] BY <2>8, <3>4
    <3>6. q.items[f[i + 1]].kind \in Plain BY <3>2 DEF PlainAt
    <3>7. g[i] \in PlainAt(r) BY <2>8, <3>4, <3>5, <3>6 DEF PlainAt
    <3> QED BY <2>7, <3>1, <3>2, <3>4, <3>5, <3>7
  <2>11. g \in [DOMAIN u -> PlainAt(r)] BY <2>7, <2>10
  <2>12. ASSUME NEW i \in DOMAIN u, NEW j \in DOMAIN u, i < j PROVE g[i] < g[j]
    <3>1. i \in 1..(m - 1) /\ j \in 1..(m - 1) /\ i + 1 < j + 1 BY <2>2, <2>7, <2>12
    <3>2. f[i + 1] < f[j + 1] BY <2>4, <2>9, <3>1
    <3>3. g[i] = f[i + 1] - 1 /\ g[j] = f[j + 1] - 1 /\ f[i + 1] \in 1..n /\ f[j + 1] \in 1..n BY <2>10, <3>1
    <3> HIDE DEF g
    <3> QED BY <1>2, <3>2, <3>3
  <2>13. ASSUME NEW x \in PlainAt(r) PROVE \E i \in DOMAIN u : g[i] = x
    <3>1. x \in 1..(n - 1) /\ r.items[x].kind \in Plain BY <2>8 DEF PlainAt
    <3>2. x + 1 \in 1..n /\ r.items[x] = q.items[x + 1] BY <1>2, <2>8, <3>1
    <3>3. x + 1 \in PlainAt(q) BY <1>2, <3>1, <3>2 DEF PlainAt, n
    <3>4. PICK j \in 1..m : f[j] = x + 1 BY <2>5, <3>3
    <3>5. j # 1 BY <2>6, <3>1, <3>4
    <3>6. j - 1 \in 1..(m - 1) /\ (j - 1) + 1 = j BY <2>2, <3>4, <3>5
    <3>7. g[j - 1] = f[(j - 1) + 1] - 1 BY <3>6
    <3>8. g[j - 1] = x BY <3>1, <3>4, <3>6, <3>7
    <3> QED BY <2>7, <3>6, <3>8
  <2>14. \A i \in DOMAIN u : u[i] = r.items[g[i]] BY <2>7, <2>10
  <2>15. Thins(r.items, u, PlainAt(r), g) BY <2>11, <2>12, <2>13, <2>14 DEF Thins
  <2> HIDE DEF g
  <2>16. PlainOf(r) = u BY <1>1, <2>7, <2>15, PlainIs
  <2> QED BY <1>5, <2>16 DEF r, u, t
<1> QED BY <1>6, <1>7

\* Prefixes.
LEMMA PrefixFacts ==
  ASSUME NEW s \in Seq(Item)
  PROVE  /\ IsPrefixOf(s, s)
         /\ \A it \in Item : IsPrefixOf(s, Append(s, it))
<1>1. Len(s) \in Nat /\ SubSeq(s, 1, Len(s)) = s OBVIOUS
<1>2. ASSUME NEW it \in Item PROVE IsPrefixOf(s, Append(s, it))
  <2>1. Append(s, it) \in Seq(Item) /\ Len(Append(s, it)) = Len(s) + 1 OBVIOUS
  <2>2. SubSeq(Append(s, it), 1, Len(s)) = s BY <1>1
  <2> QED BY <1>1, <2>1, <2>2 DEF IsPrefixOf
<1> QED BY <1>1, <1>2 DEF IsPrefixOf

LEMMA PrefixOfPrefix ==
  ASSUME NEW s \in Seq(Item), NEW t \in Seq(Item), NEW u \in Seq(Item), IsPrefixOf(s, t), IsPrefixOf(t, u)
  PROVE  IsPrefixOf(s, u)
<1>1. /\ Len(s) \in Nat /\ Len(t) \in Nat /\ Len(u) \in Nat /\ Len(s) <= Len(t) /\ Len(t) <= Len(u)
      /\ SubSeq(t, 1, Len(s)) = s /\ SubSeq(u, 1, Len(t)) = t
  BY DEF IsPrefixOf
<1>2. \A i \in 1..Len(s) : t[i] = s[i]
  <2> SUFFICES ASSUME NEW i \in 1..Len(s) PROVE t[i] = s[i] OBVIOUS
  <2>1. SubSeq(t, 1, Len(s))[i] = t[i] BY <1>1
  <2> QED BY <1>1, <2>1
<1>3. \A i \in 1..Len(t) : u[i] = t[i]
  <2> SUFFICES ASSUME NEW i \in 1..Len(t) PROVE u[i] = t[i] OBVIOUS
  <2>1. SubSeq(u, 1, Len(t))[i] = u[i] BY <1>1
  <2> QED BY <1>1, <2>1
<1>4. Len(s) <= Len(u) BY <1>1
<1>5. \A i \in 1..Len(s) : u[i] = s[i] BY <1>1, <1>2, <1>3
<1>6. SubSeq(u, 1, Len(s)) = s
  <2> DEFINE v == SubSeq(u, 1, Len(s))
  <2>1. v \in Seq(Item) /\ Len(v) = Len(s) /\ \A i \in 1..Len(s) : v[i] = u[i] BY <1>1, <1>4
  <2> HIDE DEF v
  <2>2. v = s BY <1>5, <2>1
  <2> QED BY <2>2 DEF v
<1> QED BY <1>4, <1>6 DEF IsPrefixOf

\* A push appends to them at most, whatever it coalesces or drops.
LEMMA PlainAppended ==
  ASSUME NEW q \in Queues, NEW it \in Item
  PROVE  IsPrefixOf(PlainOf(q), PlainOf(Push(q, it)))
<1> DEFINE p == Coalesce(q, it)
           r == MakeRoom(p)
<1>1. PlainOf(q) \in Seq(Item) BY PlainThins
<1>2. "telemetry" \notin Plain BY DEF Plain
<1>3. p \in Queues /\ PlainOf(p) = PlainOf(q)
  <2>1. p \in Queues BY MakeRoomType
  <2>2. CASE \E i \in CoalesceTargets(q, it) : i \in DOMAIN q.items /\ p = RemoveItem(q, i)
    <3>1. PICK i \in DOMAIN q.items : i \in CoalesceTargets(q, it) /\ p = RemoveItem(q, i) BY <2>2
    <3>2. q.items[i].kind = "telemetry" BY <3>1 DEF CoalesceTargets
    <3> HIDE DEF p
    <3> QED BY <1>2, <2>1, <3>1, <3>2, PlainLess
  <2> QED BY <2>1, <2>2, CoalesceShape
<1> HIDE DEF p
<1>4. r \in Queues /\ PlainOf(r) = PlainOf(q)
  <2>1. r \in Queues BY <1>3, MakeRoomType
  <2>2. CASE \E i \in DOMAIN p.items : Dropped(p, r, i)
    <3>1. PICK i \in DOMAIN p.items : Dropped(p, r, i) BY <2>2
    <3>2. p.items[i].kind = "telemetry" /\ r.items = RemoveItem(p, i).items BY <3>1 DEF Dropped, IndicesOf
    <3> HIDE DEF r
    <3>3. PlainOf(r) = PlainOf(p) BY <1>2, <1>3, <2>1, <3>2, PlainLess
    <3> QED BY <1>3, <2>1, <3>3
  <2> QED BY <1>3, <2>1, <2>2, MakeRoomShape
<1> HIDE DEF r
<1>5. \/ PlainOf(Push(q, it)) = PlainOf(q)
      \/ PlainOf(Push(q, it)) = Append(PlainOf(q), it)
  <2>1. Push(q, it) \in {q, Add(r, it), Add(q, it)} BY DEF Push, p, r
  <2>2. PlainOf(Add(q, it)) = IF it.kind \in Plain THEN Append(PlainOf(q), it) ELSE PlainOf(q) BY PlainAdded
  <2>3. PlainOf(Add(r, it)) = IF it.kind \in Plain THEN Append(PlainOf(r), it) ELSE PlainOf(r) BY <1>4, PlainAdded
  <2> QED BY <1>4, <2>1, <2>2, <2>3
<1> QED BY <1>1, <1>5, PrefixFacts

-----------------------------------------------------------------------------
\* The plain frames of a connection, step by step.

PlainKept(q, r) ==
  \/ IsPrefixOf(PlainOf(q), PlainOf(r))
  \/ PlainOf(r) = Tail(PlainOf(q)) /\ r.items = Tail(q.items)

LEMMA SamePlainKept ==
  ASSUME NEW q \in Queues, NEW r, PlainOf(r) = PlainOf(q)
  PROVE  PlainKept(q, r)
BY PlainThins, PrefixFacts DEF PlainKept

LEMMA PushedPlainKept ==
  ASSUME NEW q \in Queues, NEW it \in Item, NEW r, r = q \/ r = Push(q, it)
  PROVE  PlainKept(q, r)
<1>1. CASE r = q BY <1>1, SamePlainKept
<1>2. CASE r = Push(q, it) BY <1>2, PlainAppended DEF PlainKept
<1> QED BY <1>1, <1>2

LEMMA DeliveredPlainKept ==
  ASSUME TypeOK, NEW c \in conns, NEW q, q[c] = out[c], NEW D, NEW it \in Item, NEW fresh, NEW gone, c \notin gone,
         Deliver(q, D, it, fresh, gone)
  PROVE  PlainKept(out[c], out'[c])
<1>1. c \in Conns /\ out[c] \in Queues BY DEF TypeOK
<1>2. out'[c] = out[c] \/ out'[c] = Push(out[c], it) BY <1>1, Delivered
<1> QED BY <1>1, <1>2, PushedPlainKept

LEMMA EnqueuedPlainKept ==
  ASSUME TypeOK, NEW c \in conns, NEW d, NEW kind \in {"answer", "backfilled"}, NEW p \in Principals, Enqueue(d, kind, p)
  PROVE  PlainKept(out[c], out'[c])
<1>1. Frame(kind, p) \in Item BY FrameIsItem DEF Plain
<1>2. Deliver(out, {d}, Frame(kind, p), {}, {}) BY DEF Enqueue
<1> QED BY <1>1, <1>2, DeliveredPlainKept

LEMMA DirectPlainKept ==
  ASSUME TypeOK, NEW d \in Conns, NEW p \in Principals, Direct(d, p), NEW c \in conns
  PROVE  PlainKept(out[c], out'[c])
<1> DEFINE target == online[<<AccountOf(d), p>>]
           it     == Frame("direct", PrincipalOf(d))
           answer == Frame("answer", PrincipalOf(d))
           after  == [out EXCEPT ![target] = Push(@, it)]
<1>1. c \in Conns /\ d \in conns /\ out \in [Conns -> Queues] BY DEF TypeOK, Direct
<1>2. PrincipalOf(d) \in Principals /\ AccountOf(d) \in Accounts BY <1>1, PeerParts
<1>3. it \in Item /\ answer \in Item BY <1>2, FrameIsItem DEF Plain
<1>4. \/ Deliver(out, {d}, answer, {}, {})
      \/ Deliver(out, {target}, it, {}, {})
      \/ target # NoConn /\ out' = [after EXCEPT ![d] = Push(@, answer)]
  BY DEF Direct
<1>5. target # NoConn => target \in Conns BY <1>2 DEF TypeOK
<1> HIDE DEF it, answer, target
<1>6. CASE Deliver(out, {d}, answer, {}, {}) BY <1>3, <1>6, DeliveredPlainKept
<1>7. CASE Deliver(out, {target}, it, {}, {}) BY <1>3, <1>7, DeliveredPlainKept
<1>8. CASE target # NoConn /\ out' = [after EXCEPT ![d] = Push(@, answer)]
  <2>1. target \in Conns /\ Push(out[target], it) \in Queues BY <1>1, <1>3, <1>5, <1>8, PushType
  <2>2. after \in [Conns -> Queues] BY <1>1, <2>1
  <2>3. after[c] = IF c = target THEN Push(out[c], it) ELSE out[c] BY <1>1
  <2>4. out'[c] = IF c = d THEN Push(after[c], answer) ELSE after[c] BY <1>1, <1>8, <2>2
  <2>5. after[c] \in Queues /\ out[c] \in Queues /\ Push(after[c], answer) \in Queues BY <1>1, <1>3, <2>2, PushType
  <2> HIDE DEF after
  <2>6. PlainOf(out[c]) \in Seq(Item) /\ PlainOf(after[c]) \in Seq(Item) /\ PlainOf(Push(after[c], answer)) \in Seq(Item)
    BY <2>5, PlainThins
  <2>7. IsPrefixOf(PlainOf(out[c]), PlainOf(after[c])) BY <1>3, <2>3, <2>5, <2>6, PlainAppended, PrefixFacts
  <2>8. IsPrefixOf(PlainOf(after[c]), PlainOf(Push(after[c], answer))) BY <1>3, <2>5, PlainAppended
  <2>9. IsPrefixOf(PlainOf(out[c]), PlainOf(Push(after[c], answer))) BY <2>6, <2>7, <2>8, PrefixOfPrefix
  <2> QED BY <2>4, <2>7, <2>9 DEF PlainKept
<1> QED BY <1>4, <1>6, <1>7, <1>8

LEMMA PublishPlainKept ==
  ASSUME IInv, NEW d \in Conns, NEW ch \in Channels, NEW kind \in Published, NEW key \in Keys \cup {NoKey},
         Publish(d, ch, kind, key), NEW c \in conns
  PROVE  PlainKept(out[c], out'[c])
<1> DEFINE k == <<AccountOf(d), PrincipalOf(d), ch>>
<1>1. TypeOK /\ d \in conns /\ out[c] \in Queues BY DEF IInv, Publish, TypeOK
<1>2. k \in Streams /\ PrincipalOf(d) \in Principals BY <1>1, PeerParts DEF Streams, AccountOf, PrincipalOf
<1>3. CASE CloseConn(d) BY <1>1, <1>3, SamePlainKept DEF CloseConn
<1>4. CASE Enqueue(d, "answer", PrincipalOf(d)) BY <1>1, <1>2, <1>4, EnqueuedPlainKept
<1>5. ASSUME NEW victim \in Evictable(k), PublishTo(d, k, kind, key, victim), ring[k] = NoRing \/ ring[k].kind = kind
      PROVE  PlainKept(out[c], out'[c])
  <2> HIDE DEF k
  <2> DEFINE it == Envelope(k, kind, key)
             new == NewerRing(k, kind, key)
  <2>1. Deliver(out, subscribers[k], it, {}, {}) BY <1>2, <1>5, PublishToParts, Zenon
  <2>2. new \in Rings /\ new.kind = kind /\ new.seq = ring[k].seq + 1 BY <1>1, <1>2, <1>5, NewerHead
  <2>3. ring[k].seq \in Nat BY <1>1, <1>2, RingOrNone DEF TypeOK
  <2>4. [seq |-> new.seq, key |-> key] \in Entries BY <2>2, <2>3 DEF Entries
  <2>5. it = PublishedItem(k, new, [seq |-> new.seq, key |-> key]) BY DEF Envelope
  <2> HIDE DEF new, it
  <2>6. it \in Item BY <1>2, <2>2, <2>4, <2>5, PublishedIsItem
  <2> QED BY <1>1, <2>1, <2>6, DeliveredPlainKept
<1> QED BY <1>3, <1>4, <1>5 DEF Publish

LEMMA PurgePlainKept ==
  ASSUME TypeOK, NEW c \in conns, NEW d, NEW k \in Streams, out' = [out EXCEPT ![d] = PurgeStream(@, k)]
  PROVE  PlainKept(out[c], out'[c])
<1>1. out \in [Conns -> Queues] /\ c \in Conns /\ out[c] \in Queues BY DEF TypeOK
<1>2. out'[c] = IF c = d THEN PurgeStream(out[c], k) ELSE out[c] BY <1>1
<1>3. PlainOf(PurgeStream(out[c], k)) = PlainOf(out[c]) BY <1>1, PlainPurged
<1>4. PlainOf(out'[c]) = PlainOf(out[c]) BY <1>2, <1>3
<1> QED BY <1>1, <1>4, SamePlainKept

LEMMA TakePlainKept ==
  ASSUME TypeOK, NEW d \in Conns, TakeOutbound(d), NEW c \in conns
  PROVE  PlainKept(out[c], out'[c])
<1> DEFINE q == out[d]
<1>1. out \in [Conns -> Queues] /\ c \in Conns /\ out[c] \in Queues /\ q \in Queues BY DEF TypeOK
<1>2. CASE out'[c] = out[c] BY <1>1, <1>2, SamePlainKept
<1>3. CASE c = d /\ q.items # <<>> /\ out' = [out EXCEPT ![d] = TakeFrame(q)]
  <2>1. out'[c] = TakeFrame(q) /\ out[c] = q BY <1>1, <1>3
  <2>2. CASE PlainOf(TakeFrame(q)) = PlainOf(q) BY <1>1, <2>1, <2>2, SamePlainKept
  <2>3. CASE PlainOf(TakeFrame(q)) = Tail(PlainOf(q)) /\ TakeFrame(q).items = Tail(q.items)
    BY <2>1, <2>3 DEF PlainKept
  <2> QED BY <1>1, <1>3, <2>2, <2>3, PlainTaken
<1>4. q.items # <<>> => out' = [out EXCEPT ![d] = TakeFrame(q)] BY DEF TakeOutbound
<1>5. q.items = <<>> => out' = out BY DEF TakeOutbound
<1>6. c # d /\ q.items # <<>> => out'[c] = out[c] BY <1>1, <1>4
<1> QED BY <1>2, <1>3, <1>4, <1>5, <1>6

LEMMA BackfillEntryPlainKept ==
  ASSUME IInv, BackfillEntry, NEW c \in conns
  PROVE  PlainKept(out[c], out'[c])
<1> DEFINE d == filling.conn
           r == ring[filling.stream]
           it == PublishedItem(filling.stream, r, Head(filling.rest))
<1>1. TypeOK /\ filling # NoFill /\ filling.rest # <<>> /\ out' = [out EXCEPT ![d] = Push(@, it)]
  BY DEF IInv, BackfillEntry
<1>2. filling.stream \in Streams /\ filling.rest \in Seq(Entries) /\ r \in Rings BY <1>1, FillingParts
<1>3. Head(filling.rest) \in Entries BY <1>1, <1>2
<1>4. it \in Item BY <1>2, <1>3, PublishedIsItem
<1> HIDE DEF it, d, r
<1>5. out \in [Conns -> Queues] /\ c \in Conns /\ out[c] \in Queues BY <1>1 DEF TypeOK
<1>6. out'[c] = out[c] \/ out'[c] = Push(out[c], it) BY <1>1, <1>5
<1> QED BY <1>4, <1>5, <1>6, PushedPlainKept

LEMMA ConnectPlainKept ==
  ASSUME TypeOK, NEW a \in Accounts, NEW p \in Principals, Connect(a, p), NEW c \in conns
  PROVE  PlainKept(out[c], out'[c])
<1>1. PICK order \in Orders(OnlineIn(a)) :
        Deliver([out EXCEPT ![nextConn] = WelcomeQueue(p, order)], ConnsOf(a), Frame("online", p), {nextConn}, {})
  BY DEF Connect
<1> DEFINE q == [out EXCEPT ![nextConn] = WelcomeQueue(p, order)]
           it == Frame("online", p)
<1>2. it \in Item BY FrameIsItem DEF Plain
<1>3. c # nextConn /\ c \in Conns /\ out \in [Conns -> Queues] BY DEF TypeOK, Conns
<1>4. q[c] = out[c] BY <1>3
<1>5. Deliver(q, ConnsOf(a), it, {nextConn}, {}) BY <1>1
<1> HIDE DEF q, it
<1> QED BY <1>2, <1>4, <1>5, DeliveredPlainKept

LEMMA ForgetPlainKept ==
  ASSUME TypeOK, NEW d \in conns, Forget(d), NEW c \in conns \ {d}
  PROVE  PlainKept(out[c], out'[c])
<1> DEFINE q == [out EXCEPT ![d] = EmptyQueue]
           it == Frame("offline", PrincipalOf(d))
           others == ConnsOf(AccountOf(d)) \ {d}
<1>1. Deliver(q, others, it, {}, {d}) BY DEF Forget
<1>2. PrincipalOf(d) \in Principals BY PeerParts
<1>3. it \in Item BY <1>2, FrameIsItem DEF Plain
<1>4. q[c] = out[c] /\ c \notin {d} BY DEF TypeOK
<1> HIDE DEF q, it, others
<1> QED BY <1>1, <1>3, <1>4, DeliveredPlainKept

LEMMA NextPlainKept ==
  ASSUME IInv, [Next]_vars, NEW c \in conns \cap conns'
  PROVE  PlainKept(out[c], out'[c])
<1>0. TypeOK /\ c \in Conns /\ out[c] \in Queues BY DEF IInv, TypeOK
<1>a. ASSUME UNCHANGED out PROVE PlainKept(out[c], out'[c]) BY <1>0, <1>a, SamePlainKept
<1>1. ASSUME NEW a \in Accounts, NEW p \in Principals, Connect(a, p) PROVE PlainKept(out[c], out'[c])
  BY <1>0, <1>1, ConnectPlainKept
<1>2. ASSUME NEW d \in Conns, Disconnect(d) \/ FinishClose(d) PROVE PlainKept(out[c], out'[c])
  <2>1. d \in conns /\ Forget(d) BY <1>0, <1>2 DEF Disconnect, FinishClose, TypeOK
  <2>2. c # d BY <2>1 DEF Forget
  <2> QED BY <1>0, <2>1, <2>2, ForgetPlainKept
<1>3. ASSUME NEW d \in Conns, Answer(d) PROVE PlainKept(out[c], out'[c])
  <2>1. d \in conns /\ Enqueue(d, "answer", PrincipalOf(d)) BY <1>3 DEF Answer
  <2>2. PrincipalOf(d) \in Principals BY <1>0, <2>1, PeerParts
  <2> QED BY <1>0, <2>1, <2>2, EnqueuedPlainKept
<1>4. ASSUME NEW d \in Conns, Offend(d) PROVE PlainKept(out[c], out'[c]) BY <1>4, <1>a DEF Offend, CloseConn
<1>5. ASSUME NEW d \in Conns, NEW p \in Principals, Direct(d, p) PROVE PlainKept(out[c], out'[c])
  BY <1>0, <1>5, DirectPlainKept
<1>6. ASSUME NEW d \in Conns, NEW ch \in Channels, NEW kind \in Published, NEW key \in Keys \cup {NoKey},
             Publish(d, ch, kind, key)
      PROVE  PlainKept(out[c], out'[c])
  BY <1>6, PublishPlainKept
<1>7. ASSUME NEW d \in Conns, NEW k \in Streams, NEW since \in Sinces(k), Subscribe(d, k, since)
      PROVE  PlainKept(out[c], out'[c])
  <2>1. CASE CloseConn(d) BY <1>a, <2>1 DEF CloseConn
  <2>2. CASE out' = [out EXCEPT ![d] = PurgeStream(@, k)] BY <1>0, <2>2, PurgePlainKept
  <2> QED BY <1>7, <2>1, <2>2 DEF Subscribe
<1>8. ASSUME NEW d \in Conns, NEW k \in Streams, Unsubscribe(d, k) PROVE PlainKept(out[c], out'[c])
  BY <1>0, <1>8, PurgePlainKept DEF Unsubscribe
<1>9. ASSUME NEW d \in Conns, TakeOutbound(d) PROVE PlainKept(out[c], out'[c]) BY <1>0, <1>9, TakePlainKept
<1>10. CASE BackfillEntry BY <1>10, BackfillEntryPlainKept
<1>11. CASE Backfilled
  <2>1. filling # NoFill /\ Enqueue(filling.conn, "backfilled", filling.stream[2]) BY <1>11 DEF Backfilled
  <2>2. filling.stream[2] \in Principals BY <1>0, <2>1, FillingParts, StreamParts
  <2> QED BY <1>0, <2>1, <2>2, EnqueuedPlainKept
<1>12. CASE UNCHANGED vars BY <1>12, <1>a DEF vars, queueVars
<1> QED BY <1>1, <1>2, <1>3, <1>4, <1>5, <1>6, <1>7, <1>8, <1>9, <1>10, <1>11, <1>12 DEF Next

\* No step takes a plain frame away from a connection that stays except the oldest, by
\* sending it first in its queue, for all limits and any mixture of telemetry that is
\* coalesced and dropped, streams that are purged, and frames that overflow a queue.
THEOREM PlainFramesStay == Spec => PlainFramesKept
<1>1. IInv /\ [Next]_vars =>
        [\A c \in conns \cap conns' :
           LET was == PlainOf(out[c])
               is  == PlainOf(out'[c])
           IN  \/ IsPrefixOf(was, is)
               \/ is = Tail(was) /\ out'[c].items = Tail(out[c].items)]_vars
  BY NextPlainKept DEF PlainKept
<1> QED BY <1>1, InitInv, NextInv, PTL DEF Spec, PlainFramesKept
=============================================================================
