----------------------------- MODULE QueueProofs -----------------------------
(***************************************************************************)
(* Lemmas about the operators of Ring and Outbound: what retaining by      *)
(* index keeps, and that every queue operation yields a queue.             *)
(***************************************************************************)
EXTENDS Outbound, FiniteSetTheorems, SequenceTheorems, WellFoundedInduction, TLAPS

\* Every non-empty set of naturals has a least element.
LEMMA LeastNatural ==
  ASSUME NEW T \in SUBSET Nat, T # {}
  PROVE  \E m \in T : \A n \in T : m <= n
<1>1. PICK m \in T : \A n \in T : ~(<<n, m>> \in OpToRel(<, Nat))
  BY NatLessThanWellFounded, WFMin
<1>2. \A n \in T : ~(n < m)
  BY <1>1 DEF OpToRel
<1> QED BY <1>2

\* The rank of an index among the indices I, and the retained item it gives.
LEMMA RankExists ==
  ASSUME NEW n \in Nat, NEW I \in SUBSET (1..n), NEW j \in 1..Cardinality(I)
  PROVE  \E i \in I : Cardinality({x \in I : x <= i}) = j
<1> DEFINE Upto(m) == {x \in I : x <= m}
           T == {m \in Nat : j <= Cardinality(Upto(m))}
<1>0. \A x \in I : x \in Nat /\ 1 <= x /\ x <= n
  OBVIOUS
<1>1. IsFiniteSet(I) /\ Cardinality(I) \in Nat
  <2>1. IsFiniteSet(1..n) BY FS_Interval
  <2>2. IsFiniteSet(I) BY <2>1, FS_Subset
  <2> QED BY <2>2, FS_CardinalityType
<1>2. \A m \in Nat : IsFiniteSet(Upto(m)) /\ Cardinality(Upto(m)) \in Nat
  <2> TAKE m \in Nat
  <2>1. Upto(m) \in SUBSET I OBVIOUS
  <2>2. IsFiniteSet(Upto(m)) BY <2>1, <1>1, FS_Subset
  <2> QED BY <2>2, FS_CardinalityType
<1>T. \A t : t \in T <=> t \in Nat /\ j <= Cardinality(Upto(t))
  OBVIOUS
<1>U. \A t : \A x : x \in Upto(t) <=> x \in I /\ x <= t
  OBVIOUS
<1>J. j \in Nat /\ 1 <= j /\ j <= Cardinality(I)
  BY <1>1
<1> HIDE DEF T, Upto
<1>3. n \in T
  <2>1. Upto(n) = I BY <1>0, <1>U
  <2> QED BY <2>1, <1>J, <1>T
<1>4. PICK m \in T : \A t \in T : m <= t
  <2>1. T \in SUBSET Nat BY <1>T
  <2>2. T # {} BY <1>3
  <2> QED BY <2>1, <2>2, LeastNatural
<1>4a. m \in Nat /\ j <= Cardinality(Upto(m))
  BY <1>4, <1>T
<1>5. m # 0
  <2>a. \A x \in I : ~(x <= 0) BY <1>0
  <2>0. \A x : x \notin Upto(0) BY <2>a, <1>U, Zenon
  <2>1. Upto(0) = {} BY <2>0, Zenon
  <2>2. Cardinality({}) = 0 BY FS_EmptySet
  <2>3. Cardinality(Upto(0)) = 0 BY <2>1, <2>2
  <2> QED BY <2>3, <1>4a, <1>J
<1>6. m - 1 \in Nat
  BY <1>4a, <1>5
<1>6a. m - 1 \notin T
  BY <1>4, <1>4a, <1>6
<1>7. Cardinality(Upto(m - 1)) < j
  <2>1. ~(j <= Cardinality(Upto(m - 1))) BY <1>6, <1>6a, <1>T
  <2>2. Cardinality(Upto(m - 1)) \in Nat BY <1>2, <1>6
  <2> QED BY <2>1, <2>2, <1>J
<1>8. ASSUME m \notin I PROVE Upto(m) = Upto(m - 1)
  <2>1. \A x \in I : x <= m <=> x <= m - 1 BY <1>8, <1>0, <1>4a
  <2>2. \A x : x \in Upto(m) <=> x \in Upto(m - 1) BY <2>1, <1>U
  <2> QED BY <2>2, Zenon
<1>9. m \in I
  <2> SUFFICES ASSUME m \notin I PROVE FALSE OBVIOUS
  <2>1. Upto(m) = Upto(m - 1) BY <1>8
  <2>2. Cardinality(Upto(m - 1)) \in Nat BY <1>2, <1>6
  <2> QED BY <2>1, <2>2, <1>7, <1>4a, <1>J
<1>10. Upto(m) = Upto(m - 1) \cup {m}
  <2>1. \A x \in I : x <= m <=> x <= m - 1 \/ x = m BY <1>0, <1>4a
  <2> QED BY <2>1, <1>9, <1>4a, <1>U
<1>11. Cardinality(Upto(m)) = Cardinality(Upto(m - 1)) + 1
  <2>1. IsFiniteSet(Upto(m - 1)) BY <1>2, <1>6
  <2>2. m \notin Upto(m - 1) BY <1>U, <1>4a
  <2>3. Cardinality(Upto(m - 1) \cup {m}) =
          IF m \in Upto(m - 1) THEN Cardinality(Upto(m - 1)) ELSE Cardinality(Upto(m - 1)) + 1
    BY <2>1, FS_AddElement
  <2> QED BY <2>2, <2>3, <1>10
<1>12. Cardinality(Upto(m)) = j
  <2>1. Cardinality(Upto(m - 1)) \in Nat BY <1>2, <1>6
  <2> QED BY <2>1, <1>11, <1>7, <1>4a, <1>J
<1> QED BY <1>9, <1>12 DEF Upto

\* Retaining items by index yields a sequence of the same items.
LEMMA AtIndicesIsSeq ==
  ASSUME NEW S, NEW s \in Seq(S), NEW I \in SUBSET DOMAIN s
  PROVE  AtIndices(s, I) \in Seq(S)
<1>1. Len(s) \in Nat /\ DOMAIN s = 1..Len(s)
  OBVIOUS
<1>2. I \in SUBSET (1..Len(s))
  BY <1>1
<1>3. Cardinality(I) \in Nat
  <2>1. IsFiniteSet(1..Len(s)) BY <1>1, FS_Interval
  <2>2. IsFiniteSet(I) BY <2>1, <1>2, FS_Subset
  <2> QED BY <2>2, FS_CardinalityType
<1> DEFINE At(j) == CHOOSE i \in I : Cardinality({x \in I : x <= i}) = j
<1>4. \A j \in 1..Cardinality(I) : At(j) \in I
  <2> TAKE j \in 1..Cardinality(I)
  <2>1. \E i \in I : Cardinality({x \in I : x <= i}) = j
    BY <1>1, <1>2, RankExists
  <2> QED BY <2>1
<1>5. AtIndices(s, I) = [j \in 1..Cardinality(I) |-> s[At(j)]]
  BY DEF AtIndices
<1> HIDE DEF At
<1>6. \A j \in 1..Cardinality(I) : s[At(j)] \in S
  BY <1>4, <1>1
<1> QED BY <1>3, <1>5, <1>6, IsASeq

\* The first index of a non-empty set of indices of a sequence is one of them.
LEMMA FirstIsOne ==
  ASSUME NEW I \in SUBSET Nat, I # {}
  PROVE  First(I) \in I /\ \A j \in I : First(I) <= j
BY LeastNatural DEF First

\* The components of a queue.
LEMMA QueueParts ==
  ASSUME NEW q \in Queues
  PROVE  /\ q.items \in Seq(Item) /\ Len(q.items) \in Nat /\ DOMAIN q.items = 1..Len(q.items)
         /\ q.frames \in Int /\ q.session \in Int /\ q.telemetry \in Int
         /\ q.dropped \in [Streams -> Nat]
BY DEF Queues

\* Taking an item out of a queue leaves a queue.
LEMMA RemoveItemType ==
  ASSUME NEW q \in Queues, NEW i \in DOMAIN q.items
  PROVE  RemoveItem(q, i) \in Queues
<1>1. q.items \in Seq(Item) /\ i \in 1..Len(q.items) /\ Len(q.items) \in Nat
  BY DEF Queues
<1>2. SubSeq(q.items, 1, i - 1) \in Seq(Item)
  BY <1>1
<1>3. SubSeq(q.items, i + 1, Len(q.items)) \in Seq(Item)
  BY <1>1
<1>4. SubSeq(q.items, 1, i - 1) \o SubSeq(q.items, i + 1, Len(q.items)) \in Seq(Item)
  BY <1>2, <1>3
<1> DEFINE items == SubSeq(q.items, 1, i - 1) \o SubSeq(q.items, i + 1, Len(q.items))
           f == q.frames - 1
           s == IF q.items[i].kind = "session" THEN q.session - 1 ELSE q.session
           t == IF q.items[i].kind = "telemetry" THEN q.telemetry - 1 ELSE q.telemetry
<1>5. items \in Seq(Item) /\ f \in Int /\ s \in Int /\ t \in Int
  BY <1>4, QueueParts
<1>6. RemoveItem(q, i) = [q EXCEPT !.items = items, !.frames = f, !.session = s, !.telemetry = t]
  BY DEF RemoveItem
<1> HIDE DEF items, f, s, t
<1>7. [q EXCEPT !.items = items, !.frames = f, !.session = s, !.telemetry = t] \in Queues
  BY <1>5 DEF Queues
<1> QED BY <1>6, <1>7, Zenon

\* A telemetry item is a published one, of a stream.
LEMMA TelemetryItem ==
  ASSUME NEW it \in Item, it.kind = "telemetry"
  PROVE  it.stream \in Streams
<1>1. it.kind \notin Plain
  BY DEF Plain
<1> QED BY <1>1 DEF Item

\* Appending an item to a queue leaves a queue.
LEMMA AddType ==
  ASSUME NEW q \in Queues, NEW it \in Item
  PROVE  Add(q, it) \in Queues
<1> DEFINE items == Append(q.items, it)
           f == q.frames + 1
           s == IF it.kind = "session" THEN q.session + 1 ELSE q.session
           t == IF it.kind = "telemetry" THEN q.telemetry + 1 ELSE q.telemetry
<1>1. items \in Seq(Item) /\ f \in Int /\ s \in Int /\ t \in Int
  BY QueueParts
<1>2. Add(q, it) = [q EXCEPT !.items = items, !.frames = f, !.session = s, !.telemetry = t]
  BY DEF Add
<1> HIDE DEF items, f, s, t
<1>3. [q EXCEPT !.items = items, !.frames = f, !.session = s, !.telemetry = t] \in Queues
  BY <1>1 DEF Queues
<1> QED BY <1>2, <1>3, Zenon

\* Coalescing and dropping the oldest telemetry leave a queue.
LEMMA MakeRoomType ==
  ASSUME NEW q \in Queues
  PROVE  /\ \A it : Coalesce(q, it) \in Queues
         /\ DropOldestTelemetry(q) \in Queues
         /\ MakeRoom(q) \in Queues
<1>0. q.items \in Seq(Item) /\ DOMAIN q.items = 1..Len(q.items) /\ Len(q.items) \in Nat
  BY DEF Queues
<1>1. ASSUME NEW it PROVE Coalesce(q, it) \in Queues
  <2>1. CoalesceTargets(q, it) \in SUBSET DOMAIN q.items
    BY DEF CoalesceTargets
  <2>2. CASE CoalesceTargets(q, it) # {}
    <3>1. First(CoalesceTargets(q, it)) \in DOMAIN q.items
      <4>1. CoalesceTargets(q, it) \in SUBSET Nat BY <2>1, <1>0
      <4> QED BY <4>1, <2>2, <2>1, FirstIsOne
    <3> QED BY <3>1, <2>2, RemoveItemType DEF Coalesce
  <2> QED BY <2>2 DEF Coalesce
<1>2. DropOldestTelemetry(q) \in Queues
  <2> DEFINE I == IndicesOf(q, "telemetry")
             i == First(I)
  <2>1. I \in SUBSET DOMAIN q.items
    BY DEF IndicesOf
  <2>2. CASE I # {}
    <3>1. i \in I
      <4>1. I \in SUBSET Nat BY <2>1, <1>0
      <4> QED BY <4>1, <2>2, FirstIsOne
    <3>2. q.items[i] \in Item /\ q.items[i].kind = "telemetry"
      <4>1. i \in DOMAIN q.items BY <3>1, <2>1
      <4>2. q.items[i].kind = "telemetry" BY <3>1 DEF IndicesOf
      <4> HIDE DEF i
      <4> QED BY <4>1, <4>2, <1>0
    <3>3. q.items[i].stream \in Streams
      BY <3>2, TelemetryItem
    <3>4. RemoveItem(q, i) \in Queues
      BY <3>1, <2>1, RemoveItemType
    <3>5. DropOldestTelemetry(q) = [RemoveItem(q, i) EXCEPT !.dropped[q.items[i].stream] = @ + 1]
      BY <2>2 DEF DropOldestTelemetry
    <3> DEFINE r == RemoveItem(q, i)
               k == q.items[i].stream
    <3>6. DropOldestTelemetry(q) = [r EXCEPT !.dropped[k] = @ + 1] /\ r \in Queues /\ k \in Streams
      BY <3>3, <3>4, <3>5
    <3> HIDE DEF r, k
    <3>7. [r.dropped EXCEPT ![k] = @ + 1] \in [Streams -> Nat]
      BY <3>6 DEF Queues
    <3>8. DropOldestTelemetry(q) = [r EXCEPT !.dropped = [r.dropped EXCEPT ![k] = @ + 1]]
      BY <3>6 DEF Queues
    <3> QED BY <3>6, <3>7, <3>8 DEF Queues
  <2> QED BY <2>2 DEF DropOldestTelemetry
<1>3. MakeRoom(q) \in Queues
  BY <1>2 DEF MakeRoom
<1> QED BY <1>1, <1>2, <1>3

\* Every push leaves a queue, whether or not the queue takes the item.
LEMMA PushType ==
  ASSUME NEW q \in Queues, NEW it \in Item
  PROVE  Push(q, it) \in Queues
<1>1. Coalesce(q, it) \in Queues BY MakeRoomType
<1>3. Add(q, it) \in Queues BY AddType
<1>2. MakeRoom(Coalesce(q, it)) \in Queues BY <1>1, MakeRoomType
<1>4. Add(MakeRoom(Coalesce(q, it)), it) \in Queues BY <1>2, AddType
<1> QED BY <1>3, <1>4 DEF Push

\* Purging a stream leaves a queue.
LEMMA PurgeStreamType ==
  ASSUME NEW q \in Queues, NEW k \in Streams
  PROVE  PurgeStream(q, k) \in Queues
<1> DEFINE gone == {i \in DOMAIN q.items : q.items[i].stream = k}
<1>1. q.items \in Seq(Item) /\ DOMAIN q.items = 1..Len(q.items) /\ Len(q.items) \in Nat
  BY DEF Queues
<1>2. AtIndices(q.items, DOMAIN q.items \ gone) \in Seq(Item)
  <2>1. DOMAIN q.items \ gone \in SUBSET DOMAIN q.items OBVIOUS
  <2> QED BY <2>1, <1>1, AtIndicesIsSeq
<1>3. ASSUME NEW G \in SUBSET DOMAIN q.items PROVE Cardinality(G) \in Nat
  <2>1. IsFiniteSet(1..Len(q.items)) BY <1>1, FS_Interval
  <2>2. IsFiniteSet(G) BY <2>1, <1>1, FS_Subset
  <2> QED BY <2>2, FS_CardinalityType
<1>4. /\ Cardinality(gone) \in Nat
      /\ Cardinality(gone \cap IndicesOf(q, "session")) \in Nat
      /\ Cardinality(gone \cap IndicesOf(q, "telemetry")) \in Nat
  <2> DEFINE s == gone \cap IndicesOf(q, "session")
             t == gone \cap IndicesOf(q, "telemetry")
  <2>1. /\ gone \in SUBSET DOMAIN q.items
        /\ s \in SUBSET DOMAIN q.items
        /\ t \in SUBSET DOMAIN q.items
    OBVIOUS
  <2> HIDE DEF s, t
  <2>2. Cardinality(gone) \in Nat /\ Cardinality(s) \in Nat /\ Cardinality(t) \in Nat
    BY <2>1, <1>3
  <2> QED BY <2>2 DEF s, t
<1>5. PurgeStream(q, k) =
        [items     |-> AtIndices(q.items, DOMAIN q.items \ gone),
         frames    |-> q.frames - Cardinality(gone),
         session   |-> q.session - Cardinality(gone \cap IndicesOf(q, "session")),
         telemetry |-> q.telemetry - Cardinality(gone \cap IndicesOf(q, "telemetry")),
         dropped   |-> [q.dropped EXCEPT ![k] = 0]]
  BY DEF PurgeStream
<1> HIDE DEF gone
<1>6. [q.dropped EXCEPT ![k] = 0] \in [Streams -> Nat]
  BY DEF Queues
<1>7. q.frames \in Int /\ q.session \in Int /\ q.telemetry \in Int
  BY DEF Queues
<1> QED BY <1>2, <1>4, <1>5, <1>6, <1>7 DEF Queues

\* Taking the oldest frame leaves a queue.
LEMMA TakeFrameType ==
  ASSUME NEW q \in Queues, q.items # <<>>
  PROVE  TakeFrame(q) \in Queues
<1>1. 1 \in DOMAIN q.items
  BY DEF Queues
<1>2. RemoveItem(q, 1) \in Queues
  BY <1>1, RemoveItemType
<1>3. \E d \in [Streams -> Nat] : TakeFrame(q) = [RemoveItem(q, 1) EXCEPT !.dropped = d]
  <2> DEFINE r == RemoveItem(q, 1)
             d == [k \in Streams |-> IF Head(q.items).kind = "telemetry" /\ Head(q.items).stream = k
                                     THEN 0 ELSE r.dropped[k]]
  <2>1. TakeFrame(q) = [r EXCEPT !.dropped = d]
    BY DEF TakeFrame
  <2>2. r.dropped \in [Streams -> Nat]
    BY <1>2 DEF Queues
  <2> HIDE DEF r
  <2>3. d \in [Streams -> Nat]
    BY <2>2
  <2> QED BY <2>1, <2>3 DEF r
<1> QED BY <1>2, <1>3 DEF Queues

-----------------------------------------------------------------------------
\* Taking items out of a sequence.

\* t is what is left of s at the indices I, in order; f gives the place each item had.
Thins(s, t, I, f) ==
  /\ f \in [DOMAIN t -> I]
  /\ \A i, j \in DOMAIN t : i < j => f[i] < f[j]
  /\ \A n \in I : \E i \in DOMAIN t : f[i] = n
  /\ \A i \in DOMAIN t : t[i] = s[f[i]]

LEMMA IndicesFinite ==
  ASSUME NEW S, NEW s \in Seq(S), NEW I \in SUBSET DOMAIN s
  PROVE  IsFiniteSet(I) /\ Cardinality(I) \in Nat
<1>1. Len(s) \in Nat /\ DOMAIN s = 1..Len(s) OBVIOUS
<1>2. IsFiniteSet(1..Len(s)) BY <1>1, FS_Interval
<1>3. IsFiniteSet(I) BY <1>1, <1>2, FS_Subset
<1> QED BY <1>3, FS_CardinalityType

\* Retaining by index is in order and leaves out nothing it retains.
LEMMA AtIndicesThins ==
  ASSUME NEW S, NEW s \in Seq(S), NEW I \in SUBSET DOMAIN s
  PROVE  \E f : Thins(s, AtIndices(s, I), I, f)
<1> DEFINE Upto(i) == {x \in I : x <= i}
           f == [j \in 1..Cardinality(I) |-> CHOOSE i \in I : Cardinality(Upto(i)) = j]
           t == AtIndices(s, I)
<1>1. Len(s) \in Nat /\ DOMAIN s = 1..Len(s) OBVIOUS
<1>2. I \in SUBSET (1..Len(s)) /\ \A i \in I : i \in Nat BY <1>1
<1>3. IsFiniteSet(I) /\ Cardinality(I) \in Nat BY IndicesFinite
<1>4. ASSUME NEW i \in I PROVE IsFiniteSet(Upto(i)) /\ Cardinality(Upto(i)) \in 1..Cardinality(I)
  <2>1. Upto(i) \in SUBSET I OBVIOUS
  <2>2. IsFiniteSet(Upto(i)) /\ Cardinality(Upto(i)) <= Cardinality(I) BY <1>3, <2>1, FS_Subset
  <2>3. Cardinality(Upto(i)) \in Nat BY <2>2, FS_CardinalityType
  <2>4. i \in Upto(i) BY <1>2
  <2>5. Cardinality(Upto(i)) # 0
    <3> HIDE DEF Upto
    <3> QED BY <2>2, <2>4, FS_EmptySet
  <2> QED BY <1>3, <2>2, <2>3, <2>5
<1>5. ASSUME NEW i \in I, NEW j \in I, i < j PROVE Cardinality(Upto(i)) < Cardinality(Upto(j))
  <2>1. Upto(i) \in SUBSET Upto(j) BY <1>2, <1>5
  <2>2. j \in Upto(j) /\ j \notin Upto(i) BY <1>2, <1>5
  <2>3. /\ IsFiniteSet(Upto(j)) /\ Cardinality(Upto(j)) \in 1..Cardinality(I)
        /\ Cardinality(Upto(i)) \in 1..Cardinality(I)
    BY <1>4
  <2> HIDE DEF Upto
  <2>4. Cardinality(Upto(i)) <= Cardinality(Upto(j)) /\ Cardinality(Upto(i)) # Cardinality(Upto(j))
    BY <2>1, <2>2, <2>3, FS_Subset
  <2> QED BY <1>3, <2>3, <2>4
<1>6. \A j \in 1..Cardinality(I) : f[j] \in I /\ Cardinality(Upto(f[j])) = j
  <2> SUFFICES ASSUME NEW j \in 1..Cardinality(I) PROVE f[j] \in I /\ Cardinality(Upto(f[j])) = j
    OBVIOUS
  <2>1. \E i \in I : Cardinality(Upto(i)) = j BY <1>1, <1>2, RankExists
  <2>2. f[j] = CHOOSE i \in I : Cardinality(Upto(i)) = j OBVIOUS
  <2> HIDE DEF Upto, f
  <2> QED BY <2>1, <2>2
<1>7. t = [j \in 1..Cardinality(I) |-> s[f[j]]] BY DEF AtIndices
<1>8. DOMAIN f = 1..Cardinality(I) /\ DOMAIN t = 1..Cardinality(I) BY <1>7
<1>9. f \in [1..Cardinality(I) -> I]
  <2> HIDE DEF Upto
  <2> QED BY <1>6
<1> HIDE DEF Upto, f, t
<1>10. f \in [DOMAIN t -> I] BY <1>8, <1>9
<1>11. \A i, j \in DOMAIN t : i < j => f[i] < f[j]
  <2> SUFFICES ASSUME NEW i \in DOMAIN t, NEW j \in DOMAIN t, i < j PROVE f[i] < f[j] OBVIOUS
  <2>1. f[i] \in I /\ f[j] \in I /\ Cardinality(Upto(f[i])) = i /\ Cardinality(Upto(f[j])) = j BY <1>6, <1>8
  <2>2. i \in Nat /\ j \in Nat BY <1>3, <1>8
  <2>3. ~(f[j] < f[i]) BY <1>5, <2>1, <2>2
  <2>4. f[i] # f[j] BY <2>1, <2>2
  <2> QED BY <1>2, <2>1, <2>3, <2>4
<1>12. \A n \in I : \E i \in DOMAIN t : f[i] = n
  <2> SUFFICES ASSUME NEW n \in I PROVE \E i \in DOMAIN t : f[i] = n OBVIOUS
  <2> DEFINE i == Cardinality(Upto(n))
  <2>1. i \in DOMAIN t BY <1>4, <1>8
  <2>2. f[i] \in I /\ Cardinality(Upto(f[i])) = Cardinality(Upto(n)) BY <1>6, <1>8, <2>1
  <2> HIDE DEF i
  <2>3. ~(f[i] < n) /\ ~(n < f[i])
    <3>1. Cardinality(Upto(f[i])) \in 1..Cardinality(I) /\ Cardinality(Upto(n)) \in 1..Cardinality(I) BY <1>4, <2>2
    <3>2. ~(Cardinality(Upto(f[i])) < Cardinality(Upto(n))) /\ ~(Cardinality(Upto(n)) < Cardinality(Upto(f[i])))
      BY <1>3, <2>2, <3>1
    <3> QED BY <1>5, <2>2, <3>2
  <2>4. f[i] = n BY <1>2, <2>2, <2>3
  <2> QED BY <2>1, <2>4
<1>13. \A i \in DOMAIN t : t[i] = s[f[i]] BY <1>7, <1>8
<1>14. Thins(s, t, I, f) BY <1>10, <1>11, <1>12, <1>13 DEF Thins
<1> QED BY <1>14 DEF t

\* So is taking out the item at one index.
LEMMA RemovedThins ==
  ASSUME NEW S, NEW s \in Seq(S), NEW i \in DOMAIN s
  PROVE  LET t == SubSeq(s, 1, i - 1) \o SubSeq(s, i + 1, Len(s)) IN
         /\ t \in Seq(S) /\ Len(t) = Len(s) - 1
         /\ \E f : Thins(s, t, DOMAIN s \ {i}, f)
<1> DEFINE a == SubSeq(s, 1, i - 1)
           b == SubSeq(s, i + 1, Len(s))
           t == a \o b
           f == [j \in 1..(Len(s) - 1) |-> IF j < i THEN j ELSE j + 1]
<1>1. Len(s) \in Nat /\ DOMAIN s = 1..Len(s) /\ i \in Nat /\ 1 <= i /\ i <= Len(s) OBVIOUS
<1>2. /\ a \in Seq(S) /\ Len(a) = i - 1 /\ \A j \in 1..(i - 1) : a[j] = s[j]
  BY <1>1
<1>3. /\ b \in Seq(S) /\ Len(b) = Len(s) - i /\ \A j \in 1..(Len(s) - i) : b[j] = s[i + j]
  BY <1>1
<1> HIDE DEF a, b
<1>4. /\ t \in Seq(S) /\ Len(t) = Len(s) - 1 /\ DOMAIN t = 1..(Len(s) - 1)
      /\ \A j \in 1..(Len(s) - 1) : t[j] = IF j <= i - 1 THEN a[j] ELSE b[j - (i - 1)]
  <2>1. t \in Seq(S) /\ Len(t) = Len(a) + Len(b) BY <1>2, <1>3, ConcatProperties
  <2>2. Len(a) + Len(b) = Len(s) - 1 BY <1>1, <1>2, <1>3
  <2>3. \A j \in 1..(Len(a) + Len(b)) : t[j] = IF j <= Len(a) THEN a[j] ELSE b[j - Len(a)]
    BY <1>2, <1>3, ConcatProperties
  <2> HIDE DEF t
  <2> QED BY <1>2, <2>1, <2>2, <2>3
<1>5. \A j \in 1..(Len(s) - 1) : t[j] = s[f[j]]
  <2> SUFFICES ASSUME NEW j \in 1..(Len(s) - 1) PROVE t[j] = s[f[j]] OBVIOUS
  <2> HIDE DEF t
  <2>1. CASE j < i
    <3>1. t[j] = a[j] /\ f[j] = j /\ j \in 1..(i - 1) BY <1>1, <1>4, <2>1
    <3> QED BY <1>2, <3>1
  <2>2. CASE ~(j < i)
    <3>1. t[j] = b[j - (i - 1)] /\ f[j] = j + 1 /\ j - (i - 1) \in 1..(Len(s) - i) /\ i + (j - (i - 1)) = j + 1
      BY <1>1, <1>4, <2>2
    <3> QED BY <1>3, <3>1
  <2> QED BY <2>1, <2>2
<1>6. f \in [1..(Len(s) - 1) -> DOMAIN s \ {i}] BY <1>1
<1>7. \A j, l \in 1..(Len(s) - 1) : j < l => f[j] < f[l] BY <1>1
<1>8. \A n \in DOMAIN s \ {i} : \E j \in 1..(Len(s) - 1) : f[j] = n
  <2> SUFFICES ASSUME NEW n \in 1..Len(s), n # i PROVE \E j \in 1..(Len(s) - 1) : f[j] = n BY <1>1
  <2>1. CASE n < i
    <3>1. n \in 1..(Len(s) - 1) /\ f[n] = n BY <1>1, <2>1
    <3> QED BY <3>1
  <2>2. CASE n > i
    <3>1. n - 1 \in 1..(Len(s) - 1) /\ f[n - 1] = n BY <1>1, <2>2
    <3> QED BY <3>1
  <2> QED BY <1>1, <2>1, <2>2
<1> HIDE DEF t, f
<1>9. Thins(s, t, DOMAIN s \ {i}, f) BY <1>4, <1>5, <1>6, <1>7, <1>8 DEF Thins
<1> QED BY <1>4, <1>9 DEF t, a, b

\* The indices among I at which s has an item of P.
Matching(s, I, P) == {n \in I : s[n] \in P}

\* What is left of a kind is what was retained of it.
LEMMA ThinnedCount ==
  ASSUME NEW S, NEW s \in Seq(S), NEW t \in Seq(S), NEW I \in SUBSET DOMAIN s, NEW f, Thins(s, t, I, f), NEW P
  PROVE  Cardinality(Matching(t, DOMAIN t, P)) = Cardinality(Matching(s, I, P))
<1> DEFINE A == {j \in DOMAIN t : t[j] \in P}
           B == {n \in I : s[n] \in P}
           g == [j \in A |-> f[j]]
<1>1. /\ f \in [DOMAIN t -> I]
      /\ \A i, j \in DOMAIN t : i < j => f[i] < f[j]
      /\ \A n \in I : \E i \in DOMAIN t : f[i] = n
      /\ \A i \in DOMAIN t : t[i] = s[f[i]]
  BY DEF Thins
<1>2. DOMAIN t = 1..Len(t) /\ Len(t) \in Nat /\ DOMAIN s = 1..Len(s) /\ Len(s) \in Nat OBVIOUS
<1>3. IsFiniteSet(A)
  <2>1. A \in SUBSET DOMAIN t OBVIOUS
  <2> QED BY <2>1, IndicesFinite
<1>4. g \in [A -> B] BY <1>1
<1>5. \A i, j \in A : g[i] = g[j] => i = j
  <2> SUFFICES ASSUME NEW i \in A, NEW j \in A, g[i] = g[j], i # j PROVE FALSE OBVIOUS
  <2>1. i \in Nat /\ j \in Nat /\ i \in DOMAIN t /\ j \in DOMAIN t BY <1>2
  <2>2. f[i] = f[j] /\ f[i] \in Nat BY <1>1, <1>2, <2>1
  <2>3. CASE i < j BY <1>1, <2>1, <2>2, <2>3
  <2>4. CASE j < i BY <1>1, <2>1, <2>2, <2>4
  <2> QED BY <2>1, <2>3, <2>4
<1>6. \A n \in B : \E i \in A : g[i] = n BY <1>1
<1> HIDE DEF g, A, B
<1>7. g \in Bijection(A, B) BY <1>4, <1>5, <1>6 DEF Bijection, Injection, Surjection, IsInjective
<1>8. ExistsBijection(A, B) BY <1>7 DEF ExistsBijection
<1>9. Cardinality(B) = Cardinality(A) BY <1>3, <1>8, FS_Bijection
<1> QED BY <1>9 DEF A, B, Matching

-----------------------------------------------------------------------------
\* The counters beside a queue.

\* The counters are those of the items.
Counted(q) ==
  /\ q.frames = Len(q.items)
  /\ q.session = Cardinality(IndicesOf(q, "session"))
  /\ q.telemetry = Cardinality(IndicesOf(q, "telemetry"))

OfKind(kind) == {it \in Item : it.kind = kind}

LEMMA KindIndices ==
  ASSUME NEW q \in Queues, NEW kind
  PROVE  /\ IndicesOf(q, kind) = Matching(q.items, DOMAIN q.items, OfKind(kind))
         /\ IndicesOf(q, kind) \in SUBSET DOMAIN q.items
         /\ IsFiniteSet(IndicesOf(q, kind)) /\ Cardinality(IndicesOf(q, kind)) \in Nat
<1>1. q.items \in Seq(Item) BY DEF Queues
<1>2. IndicesOf(q, kind) \in SUBSET DOMAIN q.items BY DEF IndicesOf
<1>3. IndicesOf(q, kind) = Matching(q.items, DOMAIN q.items, OfKind(kind))
  BY <1>1 DEF IndicesOf, OfKind, Matching
<1> QED BY <1>1, <1>2, <1>3, IndicesFinite

\* The parts of a queue after an item was taken out, and after one was added.
LEMMA RemoveItemParts ==
  ASSUME NEW q \in Queues, NEW i \in DOMAIN q.items
  PROVE  /\ RemoveItem(q, i).items = SubSeq(q.items, 1, i - 1) \o SubSeq(q.items, i + 1, Len(q.items))
         /\ RemoveItem(q, i).frames = q.frames - 1
         /\ RemoveItem(q, i).session = IF q.items[i].kind = "session" THEN q.session - 1 ELSE q.session
         /\ RemoveItem(q, i).telemetry = IF q.items[i].kind = "telemetry" THEN q.telemetry - 1 ELSE q.telemetry
         /\ RemoveItem(q, i).dropped = q.dropped
<1> DEFINE items == SubSeq(q.items, 1, i - 1) \o SubSeq(q.items, i + 1, Len(q.items))
           f == q.frames - 1
           s == IF q.items[i].kind = "session" THEN q.session - 1 ELSE q.session
           t == IF q.items[i].kind = "telemetry" THEN q.telemetry - 1 ELSE q.telemetry
<1>1. RemoveItem(q, i) = [q EXCEPT !.items = items, !.frames = f, !.session = s, !.telemetry = t]
  BY DEF RemoveItem
<1> HIDE DEF items, f, s, t
<1>2. LET r == [q EXCEPT !.items = items, !.frames = f, !.session = s, !.telemetry = t] IN
      r.items = items /\ r.frames = f /\ r.session = s /\ r.telemetry = t /\ r.dropped = q.dropped
  BY DEF Queues
<1> QED BY <1>1, <1>2 DEF items, f, s, t

LEMMA AddParts ==
  ASSUME NEW q \in Queues, NEW it \in Item
  PROVE  /\ Add(q, it).items = Append(q.items, it)
         /\ Add(q, it).frames = q.frames + 1
         /\ Add(q, it).session = IF it.kind = "session" THEN q.session + 1 ELSE q.session
         /\ Add(q, it).telemetry = IF it.kind = "telemetry" THEN q.telemetry + 1 ELSE q.telemetry
         /\ Add(q, it).dropped = q.dropped
<1> DEFINE items == Append(q.items, it)
           f == q.frames + 1
           s == IF it.kind = "session" THEN q.session + 1 ELSE q.session
           t == IF it.kind = "telemetry" THEN q.telemetry + 1 ELSE q.telemetry
<1>1. Add(q, it) = [q EXCEPT !.items = items, !.frames = f, !.session = s, !.telemetry = t]
  BY DEF Add
<1> HIDE DEF items, f, s, t
<1>2. LET r == [q EXCEPT !.items = items, !.frames = f, !.session = s, !.telemetry = t] IN
      r.items = items /\ r.frames = f /\ r.session = s /\ r.telemetry = t /\ r.dropped = q.dropped
  BY DEF Queues
<1> QED BY <1>1, <1>2 DEF items, f, s, t

\* Taking out an item keeps the order, and the counters right.
LEMMA RemoveItemThins ==
  ASSUME NEW q \in Queues, NEW i \in DOMAIN q.items
  PROVE  \E f : Thins(q.items, RemoveItem(q, i).items, DOMAIN q.items \ {i}, f)
<1>1. q.items \in Seq(Item) BY QueueParts
<1>2. \E f : Thins(q.items, SubSeq(q.items, 1, i - 1) \o SubSeq(q.items, i + 1, Len(q.items)), DOMAIN q.items \ {i}, f)
  BY <1>1, RemovedThins
<1>3. RemoveItem(q, i).items = SubSeq(q.items, 1, i - 1) \o SubSeq(q.items, i + 1, Len(q.items))
  BY RemoveItemParts
<1> QED BY <1>2, <1>3

LEMMA RemoveItemCounted ==
  ASSUME NEW q \in Queues, NEW i \in DOMAIN q.items, Counted(q)
  PROVE  Counted(RemoveItem(q, i))
<1> DEFINE r == RemoveItem(q, i)
<1>1. r \in Queues BY RemoveItemType
<1>2. q.items \in Seq(Item) /\ r.items \in Seq(Item) BY <1>1, QueueParts
<1>3. Len(r.items) = Len(q.items) - 1
  <2>1. Len(SubSeq(q.items, 1, i - 1) \o SubSeq(q.items, i + 1, Len(q.items))) = Len(q.items) - 1
    BY <1>2, RemovedThins
  <2>2. r.items = SubSeq(q.items, 1, i - 1) \o SubSeq(q.items, i + 1, Len(q.items)) BY RemoveItemParts
  <2> QED BY <2>1, <2>2
<1>4. PICK f : Thins(q.items, r.items, DOMAIN q.items \ {i}, f) BY RemoveItemThins
<1>5. ASSUME NEW kind
      PROVE  Cardinality(IndicesOf(r, kind)) =
               IF q.items[i].kind = kind THEN Cardinality(IndicesOf(q, kind)) - 1 ELSE Cardinality(IndicesOf(q, kind))
  <2> HIDE DEF r
  <2>1. DOMAIN q.items \ {i} \in SUBSET DOMAIN q.items OBVIOUS
  <2>2. Cardinality(Matching(r.items, DOMAIN r.items, OfKind(kind))) =
        Cardinality(Matching(q.items, DOMAIN q.items \ {i}, OfKind(kind)))
    BY <1>2, <1>4, <2>1, ThinnedCount
  <2>3. IndicesOf(r, kind) = Matching(r.items, DOMAIN r.items, OfKind(kind)) BY <1>1, KindIndices
  <2>4. IndicesOf(q, kind) = Matching(q.items, DOMAIN q.items, OfKind(kind)) BY KindIndices
  <2>5. Matching(q.items, DOMAIN q.items \ {i}, OfKind(kind)) = IndicesOf(q, kind) \ {i} BY <2>4 DEF Matching
  <2>6. Cardinality(IndicesOf(q, kind) \ {i}) =
          IF i \in IndicesOf(q, kind) THEN Cardinality(IndicesOf(q, kind)) - 1 ELSE Cardinality(IndicesOf(q, kind))
    BY KindIndices, FS_RemoveElement
  <2>7. i \in IndicesOf(q, kind) <=> q.items[i].kind = kind BY DEF IndicesOf
  <2> QED BY <2>2, <2>3, <2>5, <2>6, <2>7
<1>6. /\ r.frames = q.frames - 1
      /\ r.session = IF q.items[i].kind = "session" THEN q.session - 1 ELSE q.session
      /\ r.telemetry = IF q.items[i].kind = "telemetry" THEN q.telemetry - 1 ELSE q.telemetry
  BY RemoveItemParts
<1> HIDE DEF r
<1> QED BY <1>3, <1>5, <1>6 DEF Counted, r

LEMMA AddCounted ==
  ASSUME NEW q \in Queues, NEW it \in Item, Counted(q)
  PROVE  Counted(Add(q, it))
<1> DEFINE r == Add(q, it)
<1>1. r \in Queues /\ q.items \in Seq(Item) BY AddType, QueueParts
<1>2. /\ r.items = Append(q.items, it) /\ r.frames = q.frames + 1
      /\ r.session = IF it.kind = "session" THEN q.session + 1 ELSE q.session
      /\ r.telemetry = IF it.kind = "telemetry" THEN q.telemetry + 1 ELSE q.telemetry
  BY AddParts
<1> HIDE DEF r
<1>3. /\ Len(r.items) = Len(q.items) + 1 /\ Len(q.items) \in Nat /\ DOMAIN q.items = 1..Len(q.items)
      /\ DOMAIN r.items = 1..(Len(q.items) + 1)
      /\ \A i \in 1..(Len(q.items) + 1) : r.items[i] = IF i = Len(q.items) + 1 THEN it ELSE q.items[i]
  BY <1>1, <1>2
<1>4. ASSUME NEW kind
      PROVE  Cardinality(IndicesOf(r, kind)) =
               IF it.kind = kind THEN Cardinality(IndicesOf(q, kind)) + 1 ELSE Cardinality(IndicesOf(q, kind))
  <2> DEFINE n == Len(q.items) + 1
  <2>1. IndicesOf(r, kind) = IF it.kind = kind THEN IndicesOf(q, kind) \cup {n} ELSE IndicesOf(q, kind)
    BY <1>3 DEF IndicesOf
  <2>2. n \notin IndicesOf(q, kind) BY <1>3 DEF IndicesOf
  <2>3. IsFiniteSet(IndicesOf(q, kind)) BY KindIndices
  <2> HIDE DEF n
  <2>4. Cardinality(IndicesOf(q, kind) \cup {n}) = Cardinality(IndicesOf(q, kind)) + 1
    BY <2>2, <2>3, FS_AddElement
  <2> QED BY <2>1, <2>4
<1> QED BY <1>2, <1>3, <1>4 DEF Counted, r

LEMMA PurgeThins ==
  ASSUME NEW q \in Queues, NEW k
  PROVE  \E f : Thins(q.items, PurgeStream(q, k).items, {i \in DOMAIN q.items : q.items[i].stream # k}, f)
<1> DEFINE I == {i \in DOMAIN q.items : q.items[i].stream # k}
<1>1. q.items \in Seq(Item) /\ I \in SUBSET DOMAIN q.items BY QueueParts
<1>2. PurgeStream(q, k).items = AtIndices(q.items, I)
  <2>1. DOMAIN q.items \ {i \in DOMAIN q.items : q.items[i].stream = k} = I OBVIOUS
  <2> QED BY <2>1 DEF PurgeStream
<1> HIDE DEF I
<1>3. \E f : Thins(q.items, AtIndices(q.items, I), I, f) BY <1>1, AtIndicesThins
<1> QED BY <1>2, <1>3 DEF I

LEMMA PurgeCounted ==
  ASSUME NEW q \in Queues, NEW k \in Streams, Counted(q)
  PROVE  /\ Counted(PurgeStream(q, k)) /\ PurgeStream(q, k).frames <= q.frames
         /\ PurgeStream(q, k).session <= q.session /\ PurgeStream(q, k).telemetry <= q.telemetry
<1> DEFINE r == PurgeStream(q, k)
           I == {i \in DOMAIN q.items : q.items[i].stream # k}
           gone == {i \in DOMAIN q.items : q.items[i].stream = k}
<1>1. r \in Queues /\ q.items \in Seq(Item) BY PurgeStreamType, QueueParts
<1>2. r.items \in Seq(Item) BY <1>1, QueueParts
<1>3. PICK f : Thins(q.items, r.items, I, f) BY PurgeThins
<1>4. /\ r.frames = q.frames - Cardinality(gone)
      /\ r.session = q.session - Cardinality(gone \cap IndicesOf(q, "session"))
      /\ r.telemetry = q.telemetry - Cardinality(gone \cap IndicesOf(q, "telemetry"))
  BY DEF PurgeStream
<1>5. I \in SUBSET DOMAIN q.items /\ gone \in SUBSET DOMAIN q.items /\ I = DOMAIN q.items \ gone OBVIOUS
<1>6. IsFiniteSet(DOMAIN q.items) /\ Cardinality(DOMAIN q.items) = Len(q.items)
  <2>1. Len(q.items) \in Nat /\ DOMAIN q.items = 1..Len(q.items) BY <1>1
  <2>2. IsFiniteSet(1..Len(q.items)) /\ Cardinality(1..Len(q.items)) = Len(q.items)
    BY <2>1, FS_Interval
  <2> QED BY <2>1, <2>2
<1> HIDE DEF r, I, gone
<1>7. Len(r.items) = q.frames - Cardinality(gone)
  <2>1. Cardinality(Matching(r.items, DOMAIN r.items, Item)) = Cardinality(Matching(q.items, I, Item))
    BY <1>1, <1>2, <1>3, <1>5, ThinnedCount
  <2>2. Matching(r.items, DOMAIN r.items, Item) = DOMAIN r.items BY <1>2 DEF Matching
  <2>3. Matching(q.items, I, Item) = I BY <1>1, <1>5 DEF Matching
  <2>4. Cardinality(DOMAIN r.items) = Len(r.items)
    <3>1. Len(r.items) \in Nat /\ DOMAIN r.items = 1..Len(r.items) BY <1>2
    <3>2. Cardinality(1..Len(r.items)) = Len(r.items) BY <3>1, FS_Interval
    <3> QED BY <3>1, <3>2
  <2>5. Cardinality(DOMAIN q.items \ gone) = Cardinality(DOMAIN q.items) - Cardinality(DOMAIN q.items \cap gone)
    BY <1>6, FS_Difference
  <2>6. DOMAIN q.items \cap gone = gone BY <1>5
  <2> QED BY <1>5, <1>6, <2>1, <2>2, <2>3, <2>4, <2>5, <2>6 DEF Counted
<1>8. ASSUME NEW kind
      PROVE  Cardinality(IndicesOf(r, kind)) = Cardinality(IndicesOf(q, kind)) - Cardinality(gone \cap IndicesOf(q, kind))
  <2>1. Cardinality(Matching(r.items, DOMAIN r.items, OfKind(kind))) =
        Cardinality(Matching(q.items, I, OfKind(kind)))
    BY <1>1, <1>2, <1>3, <1>5, ThinnedCount
  <2>2. IndicesOf(r, kind) = Matching(r.items, DOMAIN r.items, OfKind(kind)) BY <1>1, KindIndices
  <2>3. IndicesOf(q, kind) = Matching(q.items, DOMAIN q.items, OfKind(kind)) BY KindIndices
  <2>4. Matching(q.items, I, OfKind(kind)) = IndicesOf(q, kind) \ gone BY <1>5, <2>3 DEF Matching
  <2>5. Cardinality(IndicesOf(q, kind) \ gone) =
          Cardinality(IndicesOf(q, kind)) - Cardinality(IndicesOf(q, kind) \cap gone)
    BY KindIndices, FS_Difference
  <2>6. IndicesOf(q, kind) \cap gone = gone \cap IndicesOf(q, kind) OBVIOUS
  <2> QED BY <2>1, <2>2, <2>4, <2>5, <2>6
<1>9. Counted(r) BY <1>4, <1>7, <1>8 DEF Counted
<1>10. /\ Cardinality(gone) \in Nat
       /\ Cardinality(gone \cap IndicesOf(q, "session")) \in Nat
       /\ Cardinality(gone \cap IndicesOf(q, "telemetry")) \in Nat
  <2>1. /\ gone \in SUBSET DOMAIN q.items
        /\ gone \cap IndicesOf(q, "session") \in SUBSET DOMAIN q.items
        /\ gone \cap IndicesOf(q, "telemetry") \in SUBSET DOMAIN q.items
    BY <1>5
  <2> QED BY <1>1, <2>1, IndicesFinite
<1>11. q.frames \in Int /\ q.session \in Int /\ q.telemetry \in Int BY QueueParts
<1> QED BY <1>4, <1>9, <1>10, <1>11 DEF r

\* Coalescing takes out one superseded envelope or nothing.
LEMMA CoalesceShape ==
  ASSUME NEW q \in Queues, NEW it
  PROVE  \/ Coalesce(q, it) = q /\ CoalesceTargets(q, it) = {}
         \/ \E i \in CoalesceTargets(q, it) : i \in DOMAIN q.items /\ Coalesce(q, it) = RemoveItem(q, i)
<1> DEFINE T == CoalesceTargets(q, it)
<1>1. T \in SUBSET DOMAIN q.items BY DEF CoalesceTargets
<1>2. T \in SUBSET Nat BY <1>1, QueueParts
<1>3. CASE T # {}
  <2>1. First(T) \in T BY <1>2, <1>3, FirstIsOne
  <2>2. Coalesce(q, it) = RemoveItem(q, First(T)) BY <1>3 DEF Coalesce
  <2> HIDE DEF T
  <2> QED BY <1>1, <2>1, <2>2 DEF T
<1>4. CASE T = {} BY <1>4 DEF Coalesce
<1> QED BY <1>3, <1>4

\* r is q without its oldest telemetry, which is counted as dropped.
Dropped(q, r, i) ==
  /\ i \in IndicesOf(q, "telemetry") /\ \A j \in IndicesOf(q, "telemetry") : i <= j
  /\ r.items = RemoveItem(q, i).items /\ r.frames = q.frames - 1
  /\ r.session = q.session /\ r.telemetry = q.telemetry - 1
  /\ r.dropped = [q.dropped EXCEPT ![q.items[i].stream] = @ + 1]

LEMMA MakeRoomShape ==
  ASSUME NEW q \in Queues
  PROVE  \/ MakeRoom(q) = q /\ ~(q.telemetry >= TelemetryBound)
         \/ MakeRoom(q) = q /\ IndicesOf(q, "telemetry") = {}
         \/ \E i \in DOMAIN q.items : Dropped(q, MakeRoom(q), i)
<1> DEFINE T == IndicesOf(q, "telemetry")
           i == First(T)
<1>1. T \in SUBSET DOMAIN q.items BY DEF IndicesOf
<1>2. T \in SUBSET Nat BY <1>1, QueueParts
<1>3. CASE q.telemetry >= TelemetryBound /\ T # {}
  <2>1. i \in T /\ (\A j \in T : i <= j) BY <1>2, <1>3, FirstIsOne
  <2>2. i \in DOMAIN q.items /\ q.items[i].kind = "telemetry" BY <2>1 DEF IndicesOf
  <2>3. MakeRoom(q) = [RemoveItem(q, i) EXCEPT !.dropped[q.items[i].stream] = @ + 1]
    BY <1>3 DEF MakeRoom, DropOldestTelemetry
  <2> HIDE DEF i
  <2> DEFINE r == RemoveItem(q, i)
             k == q.items[i].stream
  <2>4. r \in Queues BY <2>2, RemoveItemType
  <2>5. /\ r.frames = q.frames - 1 /\ r.session = q.session /\ r.telemetry = q.telemetry - 1
        /\ r.dropped = q.dropped
    BY <2>2, RemoveItemParts
  <2>6. MakeRoom(q) = [r EXCEPT !.dropped[k] = @ + 1] BY <2>3
  <2> HIDE DEF r, k
  <2>7. LET m == [r EXCEPT !.dropped[k] = @ + 1] IN
        /\ m.items = r.items /\ m.frames = r.frames /\ m.session = r.session /\ m.telemetry = r.telemetry
        /\ m.dropped = [r.dropped EXCEPT ![k] = @ + 1]
    BY <2>4 DEF Queues
  <2>8. /\ MakeRoom(q).items = r.items /\ MakeRoom(q).frames = q.frames - 1 /\ MakeRoom(q).session = q.session
        /\ MakeRoom(q).telemetry = q.telemetry - 1 /\ MakeRoom(q).dropped = [q.dropped EXCEPT ![k] = @ + 1]
    BY <2>5, <2>6, <2>7
  <2>9. Dropped(q, MakeRoom(q), i) BY <2>1, <2>8 DEF Dropped, r, k
  <2> QED BY <2>2, <2>9
<1>4. CASE ~(q.telemetry >= TelemetryBound) BY <1>4 DEF MakeRoom
<1>5. CASE q.telemetry >= TelemetryBound /\ T = {} BY <1>5 DEF MakeRoom, DropOldestTelemetry
<1> QED BY <1>3, <1>4, <1>5

\* A queue is what its counters say, and within the bounds of its kinds.
Bounded(q) == Counted(q) /\ q.session <= QueueSessionEvents /\ q.telemetry <= TelemetryBound

LEMMA DroppedCounted ==
  ASSUME NEW q \in Queues, NEW r \in Queues, NEW i \in DOMAIN q.items, Dropped(q, r, i), Counted(q)
  PROVE  Counted(r)
<1>1. q.items[i].kind = "telemetry" BY DEF Dropped, IndicesOf
<1>2. Counted(RemoveItem(q, i)) BY RemoveItemCounted
<1>3. /\ RemoveItem(q, i).frames = r.frames /\ RemoveItem(q, i).session = r.session
      /\ RemoveItem(q, i).telemetry = r.telemetry /\ RemoveItem(q, i).items = r.items
  BY <1>1, RemoveItemParts DEF Dropped
<1> QED BY <1>2, <1>3 DEF Counted, IndicesOf

\* A push keeps it so, whatever the item.
LEMMA PushBounded ==
  ASSUME NEW q \in Queues, NEW it \in Item, Bounded(q)
  PROVE  Bounded(Push(q, it))
<1>0. /\ QueueSessionEvents \in Nat /\ TelemetryBound \in Nat /\ TelemetryBound >= 1
  BY LimitsAreNaturals DEF TelemetryBound
<1>1. q.session \in Int /\ q.telemetry \in Int BY QueueParts
<1>2. CASE SessionFull(q, it) BY <1>2 DEF Push
<1>3. CASE ~SessionFull(q, it) /\ it.kind # "telemetry"
  <2>1. Push(q, it) = Add(q, it) BY <1>3 DEF Push
  <2>2. Counted(Add(q, it)) BY AddCounted DEF Bounded
  <2>3. /\ Add(q, it).session = IF it.kind = "session" THEN q.session + 1 ELSE q.session
        /\ Add(q, it).telemetry = q.telemetry
    BY <1>3, AddParts
  <2>4. it.kind = "session" => q.session < QueueSessionEvents BY <1>0, <1>1, <1>3 DEF SessionFull
  <2>5. Add(q, it).session <= QueueSessionEvents BY <1>0, <1>1, <2>3, <2>4 DEF Bounded
  <2> QED BY <2>1, <2>2, <2>3, <2>5 DEF Bounded
<1>4. CASE it.kind = "telemetry"
  <2> DEFINE c == Coalesce(q, it)
             m == MakeRoom(c)
  <2>1. c \in Queues BY MakeRoomType
  <2>2. Counted(c) /\ c.session <= QueueSessionEvents /\ c.telemetry <= TelemetryBound
    <3>1. CASE c = q BY <3>1 DEF Bounded
    <3>2. ASSUME NEW i \in DOMAIN q.items, c = RemoveItem(q, i)
          PROVE  Counted(c) /\ c.session <= QueueSessionEvents /\ c.telemetry <= TelemetryBound
      <4>1. Counted(RemoveItem(q, i)) BY RemoveItemCounted DEF Bounded
      <4>2. RemoveItem(q, i).session <= q.session /\ RemoveItem(q, i).telemetry <= q.telemetry
        BY <1>1, RemoveItemParts
      <4>3. RemoveItem(q, i).session \in Int /\ RemoveItem(q, i).telemetry \in Int
        BY RemoveItemType, QueueParts
      <4> QED BY <1>0, <1>1, <3>2, <4>1, <4>2, <4>3 DEF Bounded
    <3> QED BY <3>1, <3>2, CoalesceShape
  <2> HIDE DEF c
  <2>3. m \in Queues BY <2>1, MakeRoomType
  <2>4. c.session \in Int /\ c.telemetry \in Int /\ m.session \in Int /\ m.telemetry \in Int
    BY <2>1, <2>3, QueueParts
  <2>5. Counted(m) /\ m.session <= QueueSessionEvents /\ m.telemetry < TelemetryBound
    <3>1. CASE m = c /\ ~(c.telemetry >= TelemetryBound) BY <1>0, <2>2, <2>4, <3>1
    <3>2. CASE m = c /\ IndicesOf(c, "telemetry") = {}
      <4>1. c.telemetry = 0 BY <2>2, <3>2, FS_EmptySet DEF Counted
      <4> QED BY <1>0, <2>2, <3>2, <4>1
    <3>3. ASSUME NEW i \in DOMAIN c.items, Dropped(c, m, i)
          PROVE  Counted(m) /\ m.session <= QueueSessionEvents /\ m.telemetry < TelemetryBound
      <4>1. Counted(m) BY <2>1, <2>2, <2>3, <3>3, DroppedCounted
      <4>2. m.session = c.session /\ m.telemetry = c.telemetry - 1 BY <3>3 DEF Dropped
      <4> QED BY <1>0, <2>2, <2>4, <4>1, <4>2
    <3> QED BY <2>1, <3>1, <3>2, <3>3, MakeRoomShape
  <2>6. Push(q, it) = Add(m, it) BY <1>4 DEF Push, c, SessionFull
  <2> HIDE DEF m
  <2>7. Counted(Add(m, it)) BY <2>3, <2>5, AddCounted
  <2>8. Add(m, it).session = m.session /\ Add(m, it).telemetry = m.telemetry + 1 BY <1>4, <2>3, AddParts
  <2> QED BY <1>0, <2>4, <2>5, <2>6, <2>7, <2>8 DEF Bounded
<1> QED BY <1>2, <1>3, <1>4

\* So do a purge and a take.
LEMMA PurgeBounded ==
  ASSUME NEW q \in Queues, NEW k \in Streams, Bounded(q)
  PROVE  Bounded(PurgeStream(q, k)) /\ PurgeStream(q, k).frames <= q.frames
<1> DEFINE r == PurgeStream(q, k)
<1>1. r \in Queues BY PurgeStreamType
<1>2. Counted(r) /\ r.frames <= q.frames /\ r.session <= q.session /\ r.telemetry <= q.telemetry
  BY PurgeCounted DEF Bounded
<1>3. TelemetryBound \in Nat /\ QueueSessionEvents \in Nat BY LimitsAreNaturals DEF TelemetryBound
<1> HIDE DEF r
<1>4. r.session \in Int /\ r.telemetry \in Int /\ q.session \in Int /\ q.telemetry \in Int BY <1>1, QueueParts
<1> QED BY <1>2, <1>3, <1>4 DEF Bounded, r

LEMMA TakeFrameParts ==
  ASSUME NEW q \in Queues, q.items # <<>>
  PROVE  /\ 1 \in DOMAIN q.items /\ Head(q.items) = q.items[1]
         /\ TakeFrame(q).items = RemoveItem(q, 1).items /\ TakeFrame(q).frames = RemoveItem(q, 1).frames
         /\ TakeFrame(q).session = RemoveItem(q, 1).session /\ TakeFrame(q).telemetry = RemoveItem(q, 1).telemetry
         /\ TakeFrame(q).dropped = [k \in Streams |-> IF Head(q.items).kind = "telemetry" /\ Head(q.items).stream = k
                                                      THEN 0 ELSE q.dropped[k]]
<1>1. 1 \in DOMAIN q.items /\ Head(q.items) = q.items[1] BY DEF Queues
<1> DEFINE r == RemoveItem(q, 1)
           d == [k \in Streams |-> IF Head(q.items).kind = "telemetry" /\ Head(q.items).stream = k
                                   THEN 0 ELSE r.dropped[k]]
<1>2. TakeFrame(q) = [r EXCEPT !.dropped = d] BY DEF TakeFrame
<1>3. r \in Queues /\ r.dropped = q.dropped BY <1>1, RemoveItemType, RemoveItemParts
<1> HIDE DEF r
<1>4. d = [k \in Streams |-> IF Head(q.items).kind = "telemetry" /\ Head(q.items).stream = k
                             THEN 0 ELSE q.dropped[k]]
  BY <1>3
<1> HIDE DEF d
<1>5. LET m == [r EXCEPT !.dropped = d] IN
      m.items = r.items /\ m.frames = r.frames /\ m.session = r.session /\ m.telemetry = r.telemetry /\ m.dropped = d
  BY <1>3 DEF Queues
<1> QED BY <1>1, <1>2, <1>4, <1>5 DEF r

LEMMA TakeBounded ==
  ASSUME NEW q \in Queues, q.items # <<>>, Bounded(q)
  PROVE  Bounded(TakeFrame(q)) /\ TakeFrame(q).frames <= q.frames
<1> DEFINE r == RemoveItem(q, 1)
           t == TakeFrame(q)
<1>1. /\ 1 \in DOMAIN q.items /\ t.items = r.items /\ t.frames = r.frames
      /\ t.session = r.session /\ t.telemetry = r.telemetry
  BY TakeFrameParts
<1>2. Counted(r) BY <1>1, RemoveItemCounted DEF Bounded
<1>3. Counted(t) BY <1>1, <1>2 DEF Counted, IndicesOf
<1>4. q.frames \in Int /\ q.session \in Int /\ q.telemetry \in Int BY QueueParts
<1>5. r.frames <= q.frames /\ r.session <= q.session /\ r.telemetry <= q.telemetry
  BY <1>1, <1>4, RemoveItemParts
<1>6. r.session \in Int /\ r.telemetry \in Int BY <1>1, RemoveItemType, QueueParts
<1>7. TelemetryBound \in Nat /\ QueueSessionEvents \in Nat BY LimitsAreNaturals DEF TelemetryBound
<1> HIDE DEF r, t
<1> QED BY <1>1, <1>3, <1>4, <1>5, <1>6, <1>7 DEF Bounded, t

-----------------------------------------------------------------------------
\* The order of the envelopes in a queue.

Queued(q) == {q.items[i] : i \in DOMAIN q.items}

\* Envelopes of a stream are queued in seq order.
Ordered(q) ==
  \A i, j \in DOMAIN q.items :
    i < j /\ q.items[i].kind \in Published /\ q.items[j].stream = q.items[i].stream
      => q.items[i].seq < q.items[j].seq

\* Every published item is of a stream, and no other is.
LEMMA PublishedHasStream ==
  ASSUME NEW it \in Item
  PROVE  /\ it.kind \in Published => it.stream \in Streams /\ it.seq \in Nat /\ it.epoch \in Nat
         /\ it.kind \notin Published => it.stream = NoStream /\ it.kind \in Plain
         /\ it.kind \in Published <=> it.stream # NoStream
<1>1. Published \cap Plain = {} BY DEF Published, Plain
<1>2. CASE it \in [kind : Published, stream : Streams, epoch : Nat, seq : Nat, key : Keys \cup {NoKey}]
  BY <1>1, <1>2, NoStreamIsNone
<1>3. CASE it \in [kind : Plain, stream : {NoStream}, about : Principals]
  BY <1>1, <1>3
<1> QED BY <1>2, <1>3 DEF Item

LEMMA QueuedAreItems ==
  ASSUME NEW q \in Queues
  PROVE  \A x \in Queued(q) : x \in Item
BY QueueParts DEF Queued

\* Taking items out adds none and keeps the order of the rest.
LEMMA ThinnedOrder ==
  ASSUME NEW q \in Queues, NEW r \in Queues, NEW I \in SUBSET DOMAIN q.items, NEW f, Thins(q.items, r.items, I, f)
  PROVE  /\ Queued(r) = {q.items[i] : i \in I}
         /\ Queued(r) \subseteq Queued(q)
         /\ Ordered(q) => Ordered(r)
<1>1. /\ f \in [DOMAIN r.items -> I]
      /\ \A i, j \in DOMAIN r.items : i < j => f[i] < f[j]
      /\ \A n \in I : \E i \in DOMAIN r.items : f[i] = n
      /\ \A i \in DOMAIN r.items : r.items[i] = q.items[f[i]]
  BY DEF Thins
<1>2. Queued(r) = {q.items[i] : i \in I} BY <1>1 DEF Queued
<1>3. ASSUME Ordered(q) PROVE Ordered(r)
  <2> SUFFICES ASSUME NEW i \in DOMAIN r.items, NEW j \in DOMAIN r.items, i < j,
                      r.items[i].kind \in Published, r.items[j].stream = r.items[i].stream
               PROVE  r.items[i].seq < r.items[j].seq
    BY DEF Ordered
  <2>1. f[i] \in DOMAIN q.items /\ f[j] \in DOMAIN q.items /\ f[i] < f[j] BY <1>1
  <2>2. r.items[i] = q.items[f[i]] /\ r.items[j] = q.items[f[j]] BY <1>1
  <2> QED BY <1>3, <2>1, <2>2 DEF Ordered
<1> QED BY <1>2, <1>3 DEF Queued

LEMMA RemoveOrder ==
  ASSUME NEW q \in Queues, NEW i \in DOMAIN q.items
  PROVE  /\ Queued(RemoveItem(q, i)) = {q.items[j] : j \in DOMAIN q.items \ {i}}
         /\ Queued(RemoveItem(q, i)) \subseteq Queued(q)
         /\ Ordered(q) => Ordered(RemoveItem(q, i))
<1>1. RemoveItem(q, i) \in Queues /\ DOMAIN q.items \ {i} \in SUBSET DOMAIN q.items BY RemoveItemType
<1>2. PICK f : Thins(q.items, RemoveItem(q, i).items, DOMAIN q.items \ {i}, f) BY RemoveItemThins
<1> QED BY <1>1, <1>2, ThinnedOrder

LEMMA PurgeOrder ==
  ASSUME NEW q \in Queues, NEW k \in Streams
  PROVE  /\ Queued(PurgeStream(q, k)) = {x \in Queued(q) : x.stream # k}
         /\ Ordered(q) => Ordered(PurgeStream(q, k))
<1> DEFINE I == {i \in DOMAIN q.items : q.items[i].stream # k}
<1>1. PurgeStream(q, k) \in Queues /\ I \in SUBSET DOMAIN q.items BY PurgeStreamType
<1>2. PICK f : Thins(q.items, PurgeStream(q, k).items, I, f) BY PurgeThins
<1>3. {q.items[i] : i \in I} = {x \in Queued(q) : x.stream # k} BY DEF Queued
<1> HIDE DEF I
<1>4. Queued(PurgeStream(q, k)) = {q.items[i] : i \in I} /\ (Ordered(q) => Ordered(PurgeStream(q, k)))
  BY <1>1, <1>2, ThinnedOrder
<1> QED BY <1>3, <1>4

\* Adding the newest of its stream keeps the order.
LEMMA AddOrder ==
  ASSUME NEW q \in Queues, NEW it \in Item
  PROVE  /\ Queued(Add(q, it)) = Queued(q) \cup {it}
         /\ Ordered(q) /\ (\A x \in Queued(q) : it.kind \in Published /\ x.stream = it.stream => x.seq < it.seq)
              => Ordered(Add(q, it))
<1> DEFINE r == Add(q, it)
           n == Len(q.items) + 1
<1>1. r \in Queues /\ q.items \in Seq(Item) /\ r.items = Append(q.items, it) BY AddType, AddParts, QueueParts
<1> HIDE DEF r
<1>2. /\ Len(q.items) \in Nat /\ DOMAIN q.items = 1..Len(q.items) /\ DOMAIN r.items = 1..n
      /\ \A i \in 1..n : r.items[i] = IF i = n THEN it ELSE q.items[i]
  BY <1>1
<1>3. \A i \in DOMAIN r.items : i = n \/ (i \in DOMAIN q.items /\ i < n) BY <1>2
<1>4. \A i \in DOMAIN q.items : i \in DOMAIN r.items /\ i # n /\ n \in DOMAIN r.items BY <1>2
<1>4a. n \in DOMAIN r.items BY <1>2
<1>5. Queued(r) = Queued(q) \cup {it}
  <2>1. \A i \in DOMAIN q.items : r.items[i] = q.items[i] BY <1>2, <1>4
  <2>2. r.items[n] = it BY <1>2
  <2> HIDE DEF n
  <2> QED BY <1>3, <1>4, <1>4a, <2>1, <2>2 DEF Queued
<1>6. ASSUME Ordered(q), \A x \in Queued(q) : it.kind \in Published /\ x.stream = it.stream => x.seq < it.seq
      PROVE  Ordered(r)
  <2> SUFFICES ASSUME NEW i \in DOMAIN r.items, NEW j \in DOMAIN r.items, i < j,
                      r.items[i].kind \in Published, r.items[j].stream = r.items[i].stream
               PROVE  r.items[i].seq < r.items[j].seq
    BY DEF Ordered
  <2>1. i \in DOMAIN q.items /\ r.items[i] = q.items[i] BY <1>2, <1>3
  <2>2. CASE j = n
    <3>1. q.items[i] \in Queued(q) /\ q.items[i] \in Item BY <1>1, <2>1 DEF Queued
    <3>2. r.items[j] = it BY <1>2, <2>2
    <3>3. it.kind \in Published BY <2>1, <3>1, <3>2, PublishedHasStream
    <3> QED BY <1>6, <2>1, <3>1, <3>2, <3>3
  <2>3. CASE j # n
    <3>1. j \in DOMAIN q.items /\ r.items[j] = q.items[j] BY <1>2, <1>3, <2>3
    <3> QED BY <1>6, <2>1, <3>1 DEF Ordered
  <2> QED BY <2>2, <2>3
<1> QED BY <1>5, <1>6 DEF r

\* So a push adds at most its item, and keeps the order when it is the newest of its stream.
LEMMA PushOrder ==
  ASSUME NEW q \in Queues, NEW it \in Item
  PROVE  /\ Queued(Push(q, it)) \subseteq Queued(q) \cup {it}
         /\ Ordered(q) /\ (\A x \in Queued(q) : it.kind \in Published /\ x.stream = it.stream => x.seq < it.seq)
              => Ordered(Push(q, it))
<1>1. CASE SessionFull(q, it) BY <1>1 DEF Push
<1>2. CASE ~SessionFull(q, it) /\ it.kind # "telemetry"
  <2>1. Push(q, it) = Add(q, it) BY <1>2 DEF Push
  <2> QED BY <2>1, AddOrder
<1>3. CASE it.kind = "telemetry"
  <2> DEFINE c == Coalesce(q, it)
             m == MakeRoom(c)
  <2>1. c \in Queues BY MakeRoomType
  <2>2. Queued(c) \subseteq Queued(q) /\ (Ordered(q) => Ordered(c))
    BY CoalesceShape, RemoveOrder
  <2> HIDE DEF c
  <2>3. m \in Queues BY <2>1, MakeRoomType
  <2>4. Queued(m) \subseteq Queued(c) /\ (Ordered(c) => Ordered(m))
    <3>1. CASE m = c BY <3>1
    <3>2. ASSUME NEW i \in DOMAIN c.items, Dropped(c, m, i) PROVE Queued(m) \subseteq Queued(c) /\ (Ordered(c) => Ordered(m))
      <4>1. m.items = RemoveItem(c, i).items BY <3>2 DEF Dropped
      <4>2. Queued(m) = Queued(RemoveItem(c, i)) /\ (Ordered(m) <=> Ordered(RemoveItem(c, i)))
        BY <4>1 DEF Queued, Ordered
      <4> QED BY <2>1, <4>2, RemoveOrder
    <3> QED BY <2>1, <3>1, <3>2, MakeRoomShape
  <2>5. Push(q, it) = Add(m, it) BY <1>3 DEF Push, SessionFull, c
  <2> HIDE DEF m
  <2> QED BY <2>2, <2>3, <2>4, <2>5, AddOrder
<1> QED BY <1>1, <1>2, <1>3

LEMMA TakeOrder ==
  ASSUME NEW q \in Queues, q.items # <<>>
  PROVE  /\ Queued(TakeFrame(q)) = {q.items[j] : j \in DOMAIN q.items \ {1}}
         /\ Head(q.items) \in Queued(q) /\ Head(q.items) \in Item
         /\ Ordered(q) => Ordered(TakeFrame(q))
         /\ Ordered(q) => \A x \in Queued(TakeFrame(q)) :
              Head(q.items).kind \in Published /\ x.stream = Head(q.items).stream => Head(q.items).seq < x.seq
<1>1. 1 \in DOMAIN q.items /\ TakeFrame(q).items = RemoveItem(q, 1).items /\ Head(q.items) = q.items[1]
  BY TakeFrameParts
<1>2. Queued(TakeFrame(q)) = Queued(RemoveItem(q, 1)) /\ (Ordered(TakeFrame(q)) <=> Ordered(RemoveItem(q, 1)))
  BY <1>1 DEF Queued, Ordered
<1>3. Queued(TakeFrame(q)) = {q.items[j] : j \in DOMAIN q.items \ {1}} /\ (Ordered(q) => Ordered(TakeFrame(q)))
  BY <1>1, <1>2, RemoveOrder
<1>4. \A j \in DOMAIN q.items \ {1} : 1 < j BY QueueParts
<1>5. Ordered(q) => \A x \in Queued(TakeFrame(q)) :
        Head(q.items).kind \in Published /\ x.stream = Head(q.items).stream => Head(q.items).seq < x.seq
  <2> SUFFICES ASSUME Ordered(q), NEW j \in DOMAIN q.items \ {1}, q.items[1].kind \in Published,
                      q.items[j].stream = q.items[1].stream
               PROVE  q.items[1].seq < q.items[j].seq
    BY <1>1, <1>3
  <2> QED BY <1>1, <1>4 DEF Ordered
<1>6. Head(q.items) \in Queued(q) /\ Head(q.items) \in Item BY <1>1, QueueParts DEF Queued
<1> QED BY <1>3, <1>5, <1>6

=============================================================================
