----------------------------- MODULE RelayProofs -----------------------------
(***************************************************************************)
(* Relay keeps its state well typed and its registry consistent, for every *)
(* number of accounts, principals, channels and keys and for all limits.   *)
(* The two are proved together: that a connection to be closed is a known  *)
(* one (TypeOK) rests on subscribers and online principals naming known    *)
(* connections (RegistryAgrees), and the other way round. From both, that  *)
(* no wake is lost.                                                        *)
(***************************************************************************)
EXTENDS Relay, QueueProofs

IInv == TypeOK /\ RegistryAgrees

\* A stream is the triple of its parts.
LEMMA StreamParts ==
  ASSUME NEW k \in Streams
  PROVE  k[1] \in Accounts /\ k[2] \in Principals /\ k[3] \in Channels
BY DEF Streams

\* A frame about a principal is an item, and so is an entry of a ring.
LEMMA FrameIsItem ==
  ASSUME NEW kind \in Plain, NEW p \in Principals
  PROVE  Frame(kind, p) \in Item
BY DEF Frame, Item

LEMMA PublishedIsItem ==
  ASSUME NEW k \in Streams, NEW r \in Rings, NEW e \in Entries
  PROVE  PublishedItem(k, r, e) \in Item
BY DEF PublishedItem, Item, Rings, Entries, Published

\* A published item names its stream, a plain one whom it is about.
LEMMA ItemParts ==
  ASSUME NEW it \in Item
  PROVE  /\ it.kind \in Published => it.stream \in Streams /\ it.seq \in Nat
         /\ it.kind \in Plain => it.about \in Principals
         /\ it.kind \in Published \cup Plain
<1>1. Published \cap Plain = {}
  BY DEF Published, Plain
<1> QED BY <1>1 DEF Item

\* The empty queue is a queue, and so is the welcome of any online principals.
LEMMA EmptyQueueType == EmptyQueue \in Queues
BY DEF EmptyQueue, Queues

LEMMA WelcomeQueueType ==
  ASSUME NEW p \in Principals, NEW S \in SUBSET Principals, NEW order \in Orders(S)
  PROVE  WelcomeQueue(p, order) \in Queues
<1>1. Cardinality(S) \in Nat
  <2>1. IsFiniteSet(S) BY FinitelyMany, FS_Subset
  <2> QED BY <2>1, FS_CardinalityType
<1>2. order \in [1..Cardinality(S) -> S]
  BY DEF Orders
<1>3. order \in Seq(Principals) /\ Len(order) \in Nat /\ DOMAIN order = 1..Len(order)
  BY <1>1, <1>2
<1> DEFINE names == [i \in DOMAIN order |-> Frame("online", order[i])]
<1>4. \A i \in 1..Len(order) : Frame("online", order[i]) \in Item
  BY <1>3, FrameIsItem DEF Plain
<1>5. names \in Seq(Item)
  BY <1>3, <1>4
<1>6. <<Frame("welcome", p)>> \in Seq(Item)
  BY FrameIsItem DEF Plain
<1> DEFINE items == <<Frame("welcome", p)>> \o names
           n == 1 + Len(order)
<1>7. items \in Seq(Item) /\ n \in Int
  BY <1>3, <1>5, <1>6
<1>8. WelcomeQueue(p, order) = [EmptyQueue EXCEPT !.items = items, !.frames = n]
  BY DEF WelcomeQueue
<1> HIDE DEF items, n
<1>9. [EmptyQueue EXCEPT !.items = items, !.frames = n] \in Queues
  BY <1>7, EmptyQueueType DEF Queues
<1> QED BY <1>8, <1>9, Zenon

\* Delivering to known connections touches only queues and the sets of them.
LEMMA DeliverType ==
  ASSUME TypeOK, NEW q \in [Conns -> Queues], NEW D \in SUBSET conns, NEW it \in Item,
         NEW fresh, NEW gone, Deliver(q, D, it, fresh, gone)
  PROVE  /\ out' \in [Conns -> Queues]
         /\ armed' \subseteq (conns \cup fresh) \ gone
         /\ woken' \subseteq (conns \cup fresh) \ gone
         /\ closing' \subseteq conns \ gone
<1>1. \A c \in Conns : Push(q[c], it) \in Queues
  BY PushType
<1>2. out' \in [Conns -> Queues]
  BY <1>1 DEF Deliver
<1>3. armed \subseteq conns /\ woken \subseteq conns /\ closing \subseteq conns
  BY DEF TypeOK
<1> QED BY <1>2, <1>3 DEF Deliver

\* One frame for one known connection.
LEMMA EnqueueType ==
  ASSUME TypeOK, NEW c \in conns, NEW kind \in Plain, NEW p \in Principals, Enqueue(c, kind, p)
  PROVE  /\ out' \in [Conns -> Queues]
         /\ armed' \subseteq conns /\ woken' \subseteq conns /\ closing' \subseteq conns
<1>1. out \in [Conns -> Queues] /\ {c} \in SUBSET conns
  BY DEF TypeOK
<1>2. Frame(kind, p) \in Item
  BY FrameIsItem
<1>3. Deliver(out, {c}, Frame(kind, p), {}, {})
  BY DEF Enqueue
<1>4. /\ out' \in [Conns -> Queues]
      /\ armed' \subseteq (conns \cup {}) \ {}
      /\ woken' \subseteq (conns \cup {}) \ {}
      /\ closing' \subseteq conns \ {}
  BY <1>1, <1>2, <1>3, DeliverType
<1> QED BY <1>4

LEMMA InitInv == Init => IInv
<1> SUFFICES ASSUME Init PROVE IInv OBVIOUS
<1>1. TypeOK
  BY EmptyQueueType, BoundsAreNaturals DEF Init, TypeOK, Conns, NoConn
<1>2. RegistryAgrees
  BY DEF Init, RegistryAgrees, Conns
<1> QED BY <1>1, <1>2 DEF IInv

-----------------------------------------------------------------------------
(***************************************************************************)
(* Steps that leave connections, subscriptions and streams alone.          *)
(***************************************************************************)

LEMMA QuietStep ==
  ASSUME IInv, UNCHANGED <<connVars, subs, streamVars>>,
         out' \in [Conns -> Queues],
         armed' \subseteq conns, woken' \subseteq conns, closing' \subseteq conns,
         filling' \in [conn : Conns, stream : Streams, rest : Seq(Entries)] \cup {NoFill},
         filling' # NoFill => /\ filling # NoFill
                              /\ filling'.conn = filling.conn /\ filling'.stream = filling.stream
                              /\ filling'.rest # <<>> => filling.rest # <<>>,
         cursor' \in [Conns -> [Streams -> Nat]],
         directory' \in [Conns -> SUBSET Principals]
  PROVE  IInv'
<1>1. TypeOK'
  BY DEF IInv, TypeOK, connVars, streamVars, NoFill
<1>2. RegistryAgrees'
  BY DEF IInv, RegistryAgrees, connVars, streamVars, AccountOf
<1> QED BY <1>1, <1>2 DEF IInv

\* The same for steps that leave the backfill and what peers know alone too.
LEMMA QueueStep ==
  ASSUME IInv, UNCHANGED <<connVars, subs, streamVars, filling, cursor, directory>>,
         out' \in [Conns -> Queues],
         armed' \subseteq conns, woken' \subseteq conns, closing' \subseteq conns
  PROVE  IInv'
<1>1. /\ filling' \in [conn : Conns, stream : Streams, rest : Seq(Entries)] \cup {NoFill}
      /\ cursor' \in [Conns -> [Streams -> Nat]]
      /\ directory' \in [Conns -> SUBSET Principals]
  BY DEF IInv, TypeOK
<1>2. UNCHANGED <<connVars, subs, streamVars>> /\ filling' = filling
  OBVIOUS
<1> QED BY <1>1, <1>2, QuietStep

\* A known connection has an account and a principal.
LEMMA PeerParts ==
  ASSUME TypeOK, NEW c \in conns
  PROVE  c \in Conns /\ AccountOf(c) \in Accounts /\ PrincipalOf(c) \in Principals
         /\ peer[c] = <<AccountOf(c), PrincipalOf(c)>>
BY DEF TypeOK, AccountOf, PrincipalOf

LEMMA CloseConnType ==
  ASSUME TypeOK, NEW c \in conns, CloseConn(c)
  PROVE  /\ out' \in [Conns -> Queues]
         /\ armed' \subseteq conns /\ woken' \subseteq conns /\ closing' \subseteq conns
BY DEF TypeOK, CloseConn

LEMMA AnswerInv ==
  ASSUME IInv, NEW c \in Conns, Answer(c)
  PROVE  IInv'
<1>1. TypeOK /\ c \in conns /\ PrincipalOf(c) \in Principals /\ "answer" \in Plain
  BY PeerParts DEF IInv, Answer, Plain
<1>2. Enqueue(c, "answer", PrincipalOf(c))
  BY DEF Answer
<1>3. /\ out' \in [Conns -> Queues]
      /\ armed' \subseteq conns /\ woken' \subseteq conns /\ closing' \subseteq conns
  BY <1>1, <1>2, EnqueueType
<1> QED BY <1>3, QueueStep DEF Answer

LEMMA OffendInv ==
  ASSUME IInv, NEW c \in Conns, Offend(c)
  PROVE  IInv'
<1>1. TypeOK /\ c \in conns
  BY DEF IInv, Offend
<1>2. /\ out' \in [Conns -> Queues]
      /\ armed' \subseteq conns /\ woken' \subseteq conns /\ closing' \subseteq conns
  BY <1>1, CloseConnType DEF Offend
<1> QED BY <1>2, QueueStep DEF Offend

\* The connection a direct envelope reaches is a known one: RegistryAgrees.
LEMMA DirectInv ==
  ASSUME IInv, NEW c \in Conns, NEW p \in Principals, Direct(c, p)
  PROVE  IInv'
<1> DEFINE target == online[<<AccountOf(c), p>>]
           it     == Frame("direct", PrincipalOf(c))
           answer == Frame("answer", PrincipalOf(c))
           after  == [out EXCEPT ![target] = Push(@, it)]
           told   == IF Takes(after[c], answer) THEN {c} ELSE {}
<1>1. TypeOK /\ c \in conns /\ out \in [Conns -> Queues]
  BY DEF IInv, Direct, TypeOK
<1>2. AccountOf(c) \in Accounts /\ PrincipalOf(c) \in Principals
  BY <1>1, PeerParts
<1>3. it \in Item /\ answer \in Item
  BY <1>2, FrameIsItem DEF Plain
<1>4. target # NoConn => target \in conns
  BY <1>2 DEF IInv, RegistryAgrees
<1>5. /\ out' \in [Conns -> Queues]
      /\ armed' \subseteq conns /\ woken' \subseteq conns /\ closing' \subseteq conns
  <2>1. CASE target = NoConn /\ Deliver(out, {c}, answer, {}, {})
    <3>1. {c} \in SUBSET conns BY <1>1
    <3>2. /\ out' \in [Conns -> Queues]
          /\ armed' \subseteq (conns \cup {}) \ {}
          /\ woken' \subseteq (conns \cup {}) \ {}
          /\ closing' \subseteq conns \ {}
      BY <2>1, <3>1, <1>1, <1>3, DeliverType
    <3> QED BY <3>2
  <2>2. CASE target # NoConn /\ Deliver(out, {target}, it, {}, {})
    <3>1. {target} \in SUBSET conns BY <2>2, <1>4
    <3>2. /\ out' \in [Conns -> Queues]
          /\ armed' \subseteq (conns \cup {}) \ {}
          /\ woken' \subseteq (conns \cup {}) \ {}
          /\ closing' \subseteq conns \ {}
      BY <2>2, <3>1, <1>1, <1>3, DeliverType
    <3> QED BY <3>2
  <2>3. CASE /\ target # NoConn
             /\ out' = [after EXCEPT ![c] = Push(@, answer)]
             /\ armed' = armed \cup told
             /\ woken' = woken \cup (told \ armed)
             /\ closing' = {target} \cup ({c} \ told)
    <3>1. told \subseteq conns BY <1>1
    <3>2. target \in Conns BY <2>3, <1>4, <1>1 DEF TypeOK
    <3>3. Push(out[target], it) \in Queues BY <3>2, <1>1, <1>3, PushType
    <3>4. after \in [Conns -> Queues] BY <3>3, <1>1
    <3>5. Push(after[c], answer) \in Queues BY <3>4, <1>3, PushType
    <3> HIDE DEF after, told, it, answer, target
    <3>6. out' \in [Conns -> Queues] BY <2>3, <3>4, <3>5
    <3> QED BY <2>3, <3>1, <3>6, <1>1, <1>4 DEF TypeOK
  <2> QED BY <2>1, <2>2, <2>3 DEF Direct
<1>6. UNCHANGED <<connVars, subs, streamVars, filling, cursor, directory>>
  BY DEF Direct
<1> QED BY <1>5, <1>6, QueueStep

LEMMA TakeOutboundInv ==
  ASSUME IInv, NEW c \in Conns, TakeOutbound(c)
  PROVE  IInv'
<1> DEFINE q  == out[c]
           it == Head(q.items)
<1>1. TypeOK /\ out \in [Conns -> Queues] /\ q \in Queues
  BY DEF IInv, TypeOK
<1>2. /\ armed' \subseteq conns /\ woken' \subseteq conns /\ closing' \subseteq conns
      /\ UNCHANGED <<connVars, subs, streamVars>> /\ filling' = filling
  BY <1>1 DEF TakeOutbound, StillArmedAfter, TypeOK
<1>3. /\ out' \in [Conns -> Queues]
      /\ cursor' \in [Conns -> [Streams -> Nat]]
      /\ directory' \in [Conns -> SUBSET Principals]
  <2>0. /\ cursor \in [Conns -> [Streams -> Nat]]
        /\ directory \in [Conns -> SUBSET Principals]
    BY <1>1 DEF TypeOK
  <2>1. CASE q.items = <<>>
    BY <2>1, <2>0, <1>1 DEF TakeOutbound
  <2>2. CASE q.items # <<>>
    <3>1. TakeFrame(q) \in Queues
      BY <2>2, <1>1, TakeFrameType
    <3>2. it \in Item
      BY <2>2, <1>1, QueueParts
    <3>3. /\ out' = [out EXCEPT ![c] = TakeFrame(q)]
          /\ cursor' = IF it.kind \in Published
                       THEN [cursor EXCEPT ![c][it.stream] = it.seq] ELSE cursor
          /\ directory' = [directory EXCEPT ![c] = Learn(@, it)]
      BY <2>2 DEF TakeOutbound
    <3> HIDE DEF it, q
    <3>4. cursor' \in [Conns -> [Streams -> Nat]]
      BY <3>2, <3>3, <2>0, ItemParts
    <3>5. Learn(directory[c], it) \in SUBSET Principals
      <4>1. it.kind \in {"online", "offline"} => it.about \in Principals
        BY <3>2, ItemParts DEF Plain
      <4> QED BY <4>1, <2>0 DEF Learn
    <3>6. directory' \in [Conns -> SUBSET Principals]
      BY <3>3, <3>5, <2>0
    <3> QED BY <3>1, <3>3, <3>4, <3>6, <1>1
  <2> QED BY <2>1, <2>2
<1>4. filling' \in [conn : Conns, stream : Streams, rest : Seq(Entries)] \cup {NoFill}
  BY <1>1, <1>2 DEF TypeOK
<1> QED BY <1>2, <1>3, <1>4, QuietStep

\* What a backfill under way consists of.
LEMMA FillingParts ==
  ASSUME IInv, filling # NoFill
  PROVE  /\ filling \in [conn : Conns, stream : Streams, rest : Seq(Entries)]
         /\ filling.conn \in conns /\ filling.stream \in Streams
         /\ filling.rest \in Seq(Entries)
         /\ filling.rest # <<>> => ring[filling.stream] \in Rings
<1>1. filling \in [conn : Conns, stream : Streams, rest : Seq(Entries)]
  BY DEF IInv, TypeOK
<1>2. filling.stream \in subs[filling.conn] /\ (filling.rest # <<>> => ring[filling.stream] # NoRing)
  BY DEF IInv, RegistryAgrees
<1>3. filling.conn \in conns
  BY <1>1, <1>2 DEF IInv, RegistryAgrees
<1>4. ring \in [Streams -> Rings \cup {NoRing}]
  BY DEF IInv, TypeOK
<1> QED BY <1>1, <1>2, <1>3, <1>4

LEMMA BackfillEntryInv ==
  ASSUME IInv, BackfillEntry
  PROVE  IInv'
<1> DEFINE c  == filling.conn
           k  == filling.stream
           it == PublishedItem(k, ring[k], Head(filling.rest))
<1>1. filling # NoFill /\ filling.rest # <<>>
  BY DEF BackfillEntry
<1>2. /\ filling \in [conn : Conns, stream : Streams, rest : Seq(Entries)]
      /\ c \in conns /\ k \in Streams /\ ring[k] \in Rings /\ filling.rest \in Seq(Entries)
  BY <1>1, FillingParts
<1>3. Head(filling.rest) \in Entries /\ Tail(filling.rest) \in Seq(Entries)
  BY <1>1, <1>2
<1>4. it \in Item
  BY <1>2, <1>3, PublishedIsItem
<1>5. c \in Conns /\ out \in [Conns -> Queues] /\ closing \subseteq conns
      /\ armed \subseteq conns /\ woken \subseteq conns
  BY <1>2 DEF IInv, TypeOK
<1>6. out' \in [Conns -> Queues]
  <2>1. Push(out[c], it) \in Queues BY <1>4, <1>5, PushType
  <2>2. out' = [out EXCEPT ![c] = Push(@, it)] BY DEF BackfillEntry
  <2> HIDE DEF c, it
  <2> QED BY <2>1, <2>2, <1>5
<1>7. \/ filling' = [filling EXCEPT !.rest = Tail(@)] /\ UNCHANGED closing
      \/ filling' = NoFill /\ closing' = closing \cup {c}
  BY DEF BackfillEntry
<1>8. /\ armed' \subseteq conns /\ woken' \subseteq conns /\ closing' \subseteq conns
      /\ UNCHANGED <<connVars, subs, streamVars>> /\ cursor' = cursor /\ directory' = directory
  BY <1>2, <1>5, <1>7 DEF BackfillEntry
<1>9. /\ cursor' \in [Conns -> [Streams -> Nat]]
      /\ directory' \in [Conns -> SUBSET Principals]
  BY <1>8 DEF IInv, TypeOK
<1>10. /\ filling' \in [conn : Conns, stream : Streams, rest : Seq(Entries)] \cup {NoFill}
       /\ filling' # NoFill => /\ filling'.conn = filling.conn /\ filling'.stream = filling.stream
  BY <1>2, <1>3, <1>7
<1> QED BY <1>1, <1>6, <1>8, <1>9, <1>10, QuietStep

LEMMA BackfilledInv ==
  ASSUME IInv, Backfilled
  PROVE  IInv'
<1>1. filling # NoFill /\ filling' = NoFill
  BY DEF Backfilled
<1>2. filling.conn \in conns /\ filling.stream \in Streams
  BY <1>1, FillingParts
<1>3. TypeOK /\ filling.stream[2] \in Principals /\ "backfilled" \in Plain
  BY <1>2, StreamParts DEF IInv, Plain
<1>4. Enqueue(filling.conn, "backfilled", filling.stream[2])
  BY DEF Backfilled
<1>5. /\ out' \in [Conns -> Queues]
      /\ armed' \subseteq conns /\ woken' \subseteq conns /\ closing' \subseteq conns
  BY <1>2, <1>3, <1>4, EnqueueType
<1>6. /\ UNCHANGED <<connVars, subs, streamVars>>
      /\ cursor' \in [Conns -> [Streams -> Nat]]
      /\ directory' \in [Conns -> SUBSET Principals]
  BY DEF Backfilled, IInv, TypeOK
<1> QED BY <1>1, <1>5, <1>6, QuietStep

-----------------------------------------------------------------------------
(***************************************************************************)
(* Connecting and leaving.                                                 *)
(***************************************************************************)

LEMMA ConnectInv ==
  ASSUME IInv, NEW a \in Accounts, NEW p \in Principals, Connect(a, p)
  PROVE  IInv'
<1>1. TypeOK /\ RegistryAgrees
  BY DEF IInv
<1>2. /\ nextConn \in Conns /\ nextConn \notin conns /\ <<a, p>> \in Accounts \X Principals
      /\ nextConn + 1 \in 1..(MaxConn + 1) /\ online[<<a, p>>] = NoConn
      /\ nextConn # NoConn
  BY <1>1, BoundsAreNaturals DEF TypeOK, Connect, MayConnect, Conns, NoConn
<1>3. PICK order \in Orders(OnlineIn(a)) :
        Deliver([out EXCEPT ![nextConn] = WelcomeQueue(p, order)],
                ConnsOf(a), Frame("online", p), {nextConn}, {})
  BY DEF Connect
<1> DEFINE q == [out EXCEPT ![nextConn] = WelcomeQueue(p, order)]
<1>4. q \in [Conns -> Queues]
  <2>1. OnlineIn(a) \in SUBSET Principals BY DEF OnlineIn
  <2>2. WelcomeQueue(p, order) \in Queues BY <2>1, WelcomeQueueType
  <2>3. out \in [Conns -> Queues] BY <1>1 DEF TypeOK
  <2> QED BY <2>2, <2>3, <1>2
<1>5. ConnsOf(a) \in SUBSET conns /\ Frame("online", p) \in Item
  BY FrameIsItem DEF ConnsOf, Plain
<1>6. /\ out' \in [Conns -> Queues]
      /\ armed' \subseteq (conns \cup {nextConn}) \ {}
      /\ woken' \subseteq (conns \cup {nextConn}) \ {}
      /\ closing' \subseteq conns \ {}
  <2> HIDE DEF q
  <2>1. Deliver(q, ConnsOf(a), Frame("online", p), {nextConn}, {})
    BY <1>3 DEF q
  <2> QED BY <2>1, <1>1, <1>4, <1>5, DeliverType
<1>7. /\ accounts' = accounts \cup {a}
      /\ conns' = conns \cup {nextConn}
      /\ peer' = [peer EXCEPT ![nextConn] = <<a, p>>]
      /\ online' = [online EXCEPT ![<<a, p>>] = nextConn]
      /\ nextConn' = nextConn + 1
      /\ UNCHANGED <<subs, streamVars, filling, cursor, directory>>
  BY DEF Connect
<1>8. TypeOK'
  <2>1. /\ accounts' \subseteq Accounts
        /\ conns' \subseteq Conns /\ closing' \subseteq conns'
        /\ armed' \subseteq conns' /\ woken' \subseteq conns'
    BY <1>1, <1>2, <1>6, <1>7 DEF TypeOK
  <2>2. /\ peer' \in [Conns -> (Accounts \X Principals) \cup {<<>>}]
        /\ online' \in [Accounts \X Principals -> Conns \cup {NoConn}]
    BY <1>1, <1>2, <1>7 DEF TypeOK
  <2>3. \A c \in conns' : peer'[c] \in Accounts \X Principals /\ c < nextConn'
    BY <1>1, <1>2, <1>7 DEF TypeOK, Conns
  <2> QED BY <2>1, <2>2, <2>3, <1>1, <1>2, <1>6, <1>7 DEF TypeOK, streamVars
<1>9. RegistryAgrees'
  <2>1. \A c \in conns' : online'[peer'[c]] = c /\ peer'[c][1] \in accounts'
    <3> TAKE c \in conns'
    <3>1. CASE c = nextConn
      BY <3>1, <1>1, <1>2, <1>7 DEF TypeOK
    <3>2. CASE c # nextConn
      <4>1. c \in conns /\ peer'[c] = peer[c] BY <3>2, <1>1, <1>7 DEF TypeOK
      <4>2. /\ online[peer[c]] = c /\ peer[c][1] \in accounts
            /\ peer[c] \in Accounts \X Principals /\ c # NoConn
        BY <4>1, <1>1 DEF RegistryAgrees, AccountOf, TypeOK, Conns, NoConn
      <4>3. peer[c] # <<a, p>> BY <4>2, <1>2
      <4> QED BY <4>1, <4>2, <4>3, <1>1, <1>7 DEF TypeOK
    <3> QED BY <3>1, <3>2
  <2>2. \A ap \in Accounts \X Principals :
          online'[ap] # NoConn => online'[ap] \in conns' /\ peer'[online'[ap]] = ap
    <3> TAKE ap \in Accounts \X Principals
    <3>1. CASE ap = <<a, p>>
      BY <3>1, <1>1, <1>2, <1>7 DEF TypeOK
    <3>2. CASE ap # <<a, p>>
      <4>1. online'[ap] = online[ap] BY <3>2, <1>1, <1>7 DEF TypeOK
      <4>2. online[ap] # NoConn => online[ap] \in conns /\ peer[online[ap]] = ap
        BY <1>1 DEF RegistryAgrees
      <4> QED BY <4>1, <4>2, <1>1, <1>2, <1>7 DEF TypeOK
    <3> QED BY <3>1, <3>2
  <2>3. \A c \in Conns : \A k \in subs[c] : c \in conns' /\ k[1] = peer'[c][1]
    BY <1>1, <1>2, <1>7 DEF RegistryAgrees, TypeOK, AccountOf
  <2> QED BY <2>1, <2>2, <2>3, <1>1, <1>7 DEF RegistryAgrees, AccountOf, streamVars
<1> QED BY <1>8, <1>9 DEF IInv

\* Forgetting a connection that is not being backfilled.
LEMMA ForgetInv ==
  ASSUME IInv, filling = NoFill, NEW c \in conns, Forget(c)
  PROVE  IInv'
<1> DEFINE a      == AccountOf(c)
           others == ConnsOf(a) \ {c}
           left   == streams \ Abandoned(c, subs[c])
           q      == [out EXCEPT ![c] = EmptyQueue]
<1>1. TypeOK /\ RegistryAgrees
  BY DEF IInv
<1>2. /\ c \in Conns /\ a \in Accounts /\ PrincipalOf(c) \in Principals
      /\ peer[c] = <<a, PrincipalOf(c)>> /\ peer[c] \in Accounts \X Principals
  BY <1>1, PeerParts
<1>3. /\ conns' = conns \ {c}
      /\ online' = [online EXCEPT ![peer[c]] = IF @ = c THEN NoConn ELSE @]
      /\ streams' = left
      /\ subscribers' = [k \in Streams |->
                           IF k \in subs[c] THEN subscribers[k] \ {c} ELSE subscribers[k]]
      /\ subs' = [subs EXCEPT ![c] = {}]
      /\ accounts' = IF others = {} /\ ~\E k \in left : k[1] = a THEN accounts \ {a} ELSE accounts
      /\ cursor' = [cursor EXCEPT ![c] = [k \in Streams |-> 0]]
      /\ directory' = [directory EXCEPT ![c] = {}]
      /\ UNCHANGED <<peer, nextConn, ring, ringFrames, nextEpoch, clock, published, filling>>
      /\ Deliver(q, others, Frame("offline", PrincipalOf(c)), {}, {c})
  BY DEF Forget
<1>4. /\ out' \in [Conns -> Queues]
      /\ armed' \subseteq (conns \cup {}) \ {c}
      /\ woken' \subseteq (conns \cup {}) \ {c}
      /\ closing' \subseteq conns \ {c}
  <2>1. q \in [Conns -> Queues] BY <1>1, <1>2, EmptyQueueType DEF TypeOK
  <2>2. others \in SUBSET conns BY DEF ConnsOf
  <2>3. Frame("offline", PrincipalOf(c)) \in Item BY <1>2, FrameIsItem DEF Plain
  <2>4. Deliver(q, others, Frame("offline", PrincipalOf(c)), {}, {c}) BY <1>3
  <2>5. out' \in [Conns -> Queues]
    <3> DEFINE it == Frame("offline", PrincipalOf(c))
    <3>1. \A d \in Conns : Push(q[d], it) \in Queues BY <2>1, <2>3, PushType
    <3>2. out' = [d \in Conns |-> IF d \in others THEN Push(q[d], it) ELSE q[d]]
      BY <2>4 DEF Deliver
    <3> HIDE DEF q, it
    <3> QED BY <3>1, <3>2, <2>1
  <2> QED BY <2>2, <2>4, <2>5, <1>1 DEF Deliver, TypeOK
<1>5. TypeOK'
  <2>1. /\ accounts' \subseteq Accounts
        /\ conns' \subseteq Conns /\ closing' \subseteq conns'
        /\ armed' \subseteq conns' /\ woken' \subseteq conns'
        /\ streams' \subseteq Streams
    BY <1>1, <1>3, <1>4 DEF TypeOK
  <2>2. online' \in [Accounts \X Principals -> Conns \cup {NoConn}]
    BY <1>1, <1>2, <1>3 DEF TypeOK
  <2>3. /\ subs' \in [Conns -> SUBSET Streams]
        /\ subscribers' \in [Streams -> SUBSET Conns]
        /\ cursor' \in [Conns -> [Streams -> Nat]]
        /\ directory' \in [Conns -> SUBSET Principals]
    BY <1>1, <1>2, <1>3 DEF TypeOK
  <2>4. \A d \in conns' : peer'[d] \in Accounts \X Principals /\ d < nextConn'
    BY <1>1, <1>3 DEF TypeOK
  <2> QED BY <2>1, <2>2, <2>3, <2>4, <1>1, <1>3, <1>4 DEF TypeOK
<1>6. RegistryAgrees'
  <2>1. \A d \in conns' : online'[peer'[d]] = d /\ peer'[d][1] \in accounts'
    <3> TAKE d \in conns'
    <3>1. d \in conns /\ d # c /\ peer'[d] = peer[d] BY <1>3
    <3>2. online[peer[d]] = d /\ online[peer[c]] = c /\ peer[d][1] \in accounts
      BY <3>1, <1>1 DEF RegistryAgrees, AccountOf
    <3>3. peer[d] \in Accounts \X Principals BY <3>1, <1>1 DEF TypeOK
    <3>4. online'[peer[d]] = d
      BY <3>1, <3>2, <3>3, <1>1, <1>3 DEF TypeOK
    <3>5. peer[d][1] = a => d \in others
      BY <3>1 DEF ConnsOf, AccountOf
    <3> HIDE DEF others, left, a
    <3>6. peer[d][1] \in accounts'
      BY <3>2, <3>5, <1>3
    <3> QED BY <3>1, <3>4, <3>6
  <2>2. \A ap \in Accounts \X Principals :
          online'[ap] # NoConn => online'[ap] \in conns' /\ peer'[online'[ap]] = ap
    <3> TAKE ap \in Accounts \X Principals
    <3>1. online[ap] # NoConn => online[ap] \in conns /\ peer[online[ap]] = ap
      BY <1>1 DEF RegistryAgrees
    <3>2. online'[ap] = IF ap = peer[c] /\ online[ap] = c THEN NoConn ELSE online[ap]
      BY <1>1, <1>2, <1>3 DEF TypeOK
    <3>3. online[ap] = c => ap = peer[c]
      BY <3>1, <1>2 DEF Conns, NoConn
    <3> QED BY <3>1, <3>2, <3>3, <1>3
  <2>3. \A d \in Conns, k \in Streams : k \in subs'[d] <=> d \in subscribers'[k]
    <3> TAKE d \in Conns, k \in Streams
    <3>1. k \in subs[d] <=> d \in subscribers[k] BY <1>1 DEF RegistryAgrees
    <3>2. k \in subs[c] <=> c \in subscribers[k] BY <1>1, <1>2 DEF RegistryAgrees
    <3>3. subs'[d] = IF d = c THEN {} ELSE subs[d] BY <1>1, <1>2, <1>3 DEF TypeOK
    <3>4. subscribers'[k] = IF k \in subs[c] THEN subscribers[k] \ {c} ELSE subscribers[k] BY <1>3
    <3> QED BY <3>1, <3>2, <3>3, <3>4
  <2>4. \A d \in Conns : \A k \in subs'[d] : d \in conns' /\ k[1] = peer'[d][1]
    <3> TAKE d \in Conns
    <3>1. subs'[d] = IF d = c THEN {} ELSE subs[d] BY <1>1, <1>2, <1>3 DEF TypeOK
    <3>2. \A k \in subs[d] : d \in conns /\ k[1] = peer[d][1] BY <1>1 DEF RegistryAgrees, AccountOf
    <3> QED BY <3>1, <3>2, <1>3
  <2> QED BY <2>1, <2>2, <2>3, <2>4, <1>3 DEF RegistryAgrees, AccountOf
<1> QED BY <1>5, <1>6 DEF IInv

-----------------------------------------------------------------------------
(***************************************************************************)
(* Streams.                                                                *)
(***************************************************************************)

\* Rings stay rings: created, published on, and trimmed.
LEMMA NewRingType ==
  ASSUME NEW kind \in Published, NEW e \in Nat, NEW t \in Nat
  PROVE  NewRing(kind, e, t) \in Rings
BY DEF NewRing, Rings, Published

LEMMA RingParts ==
  ASSUME NEW r \in Rings
  PROVE  /\ r.entries \in Seq(Entries) /\ r.seq \in Nat /\ r.epoch \in Nat /\ r.touched \in Nat
         /\ r.kind \in Published /\ Len(r.entries) \in Nat
         /\ DOMAIN r.entries = 1..Len(r.entries)
BY DEF Rings, Published

LEMMA PublishInType ==
  ASSUME NEW r \in Rings, NEW key \in Keys \cup {NoKey}, NEW t \in Nat
  PROVE  PublishIn(r, key, t) \in Rings
<1> DEFINE entry    == [seq |-> r.seq + 1, key |-> key]
           retained == Append(r.entries, entry)
           kept     == IF Capacity(r.kind) = 0 THEN r.entries
                       ELSE IF Len(retained) > Capacity(r.kind) THEN Tail(retained)
                       ELSE retained
           n        == r.seq + 1
<1>1. entry \in Entries /\ n \in Nat
  BY RingParts DEF Entries
<1>2. retained \in Seq(Entries) /\ retained # <<>>
  <2> HIDE DEF entry
  <2> QED BY <1>1, RingParts
<1>3. kept \in Seq(Entries)
  <2> HIDE DEF retained
  <2> QED BY <1>2, RingParts
<1>4. PublishIn(r, key, t) = [r EXCEPT !.seq = n, !.touched = t, !.entries = kept]
  BY DEF PublishIn
<1> HIDE DEF n, kept
<1>5. [r EXCEPT !.seq = n, !.touched = t, !.entries = kept] \in Rings
  BY <1>1, <1>3 DEF Rings
<1> QED BY <1>4, <1>5, Zenon

LEMMA EvictOldestType ==
  ASSUME NEW r \in Rings \cup {NoRing}, r.entries # <<>>
  PROVE  EvictOldest(r) \in Rings
<1>1. r \in Rings
  BY DEF NoRing
<1>2. Tail(r.entries) \in Seq(Entries)
  BY <1>1, RingParts
<1> DEFINE t == Tail(r.entries)
<1>3. EvictOldest(r) = [r EXCEPT !.entries = t]
  BY DEF EvictOldest
<1> HIDE DEF t
<1>4. [r EXCEPT !.entries = t] \in Rings
  BY <1>1, <1>2 DEF Rings, t
<1> QED BY <1>3, <1>4, Zenon

\* Making room for a stream removes, if anything, a stream nobody watches.
LEMMA EvictableParts ==
  ASSUME TypeOK, NEW k \in Streams, NEW victim \in Evictable(k)
  PROVE  /\ victim # k
         /\ victim # NoStream => victim \in streams /\ subscribers[victim] = {}
         /\ StreamsWith(k, victim) \subseteq Streams
         /\ RingsWithout(victim) \in [Streams -> Rings \cup {NoRing}]
         /\ RingsWithout(victim)[k] = ring[k]
         /\ FramesWithout(victim) \in [Accounts -> Int]
<1>1. \/ victim = NoStream
      \/ k \notin streams /\ victim \in streams /\ subscribers[victim] = {}
  BY DEF Evictable, Unwatched, StreamsOf
<1>2. victim # k
  BY <1>1, NoStreamIsNone
<1>3. streams \subseteq Streams /\ ring \in [Streams -> Rings \cup {NoRing}]
      /\ ringFrames \in [Accounts -> Int]
  BY DEF TypeOK
<1>4. FramesWithout(victim) \in [Accounts -> Int]
  <2>1. CASE victim = NoStream
    BY <2>1, <1>3 DEF FramesWithout
  <2>2. CASE victim # NoStream
    <3>1. ring[victim] \in Rings \cup {NoRing}
      BY <2>2, <1>1, <1>3
    <3>2. Len(ring[victim].entries) \in Nat
      BY <3>1, RingParts DEF NoRing
    <3> QED BY <3>2, <1>3 DEF FramesWithout
  <2> QED BY <2>1, <2>2
<1> QED BY <1>1, <1>2, <1>3, <1>4 DEF StreamsWith, RingsWithout

\* Publishing to the subscribers of a stream.
LEMMA PublishToType ==
  ASSUME IInv, NEW c \in conns, NEW k \in Streams, NEW kind \in Published,
         NEW key \in Keys \cup {NoKey}, NEW victim \in Evictable(k), clock < MaxPublish,
         PublishTo(c, k, kind, key, victim)
  PROVE  /\ streams' \subseteq Streams
         /\ ring' \in [Streams -> Rings \cup {NoRing}]
         /\ ringFrames' \in [Accounts -> Int]
         /\ nextEpoch' \in Nat \ {0} /\ clock' \in 0..MaxPublish
         /\ published' \in [Streams -> Seq(Keys \cup {NoKey})]
         /\ subscribers' = subscribers
         /\ out' \in [Conns -> Queues]
         /\ armed' \subseteq conns /\ woken' \subseteq conns /\ closing' \subseteq conns
<1> DEFINE evicted == RingsWithout(victim)
           fresh   == evicted[k] = NoRing
           old     == IF fresh THEN NewRing(kind, nextEpoch, clock + 1) ELSE evicted[k]
           new     == PublishIn(old, key, clock + 1)
           rings   == [evicted EXCEPT ![k] = new]
           frames  == [FramesWithout(victim) EXCEPT
                         ![k[1]] = @ + Len(new.entries) - Len(old.entries)]
           entry   == [seq |-> new.seq, key |-> key]
<1>1. TypeOK /\ RegistryAgrees
  BY DEF IInv
<1>2. /\ k[1] \in Accounts /\ nextEpoch \in Nat \ {0} /\ clock + 1 \in Nat
      /\ clock + 1 \in 0..MaxPublish
      /\ published \in [Streams -> Seq(Keys \cup {NoKey})]
  BY <1>1, StreamParts, BoundsAreNaturals DEF TypeOK
<1>3. /\ StreamsWith(k, victim) \subseteq Streams
      /\ evicted \in [Streams -> Rings \cup {NoRing}]
      /\ FramesWithout(victim) \in [Accounts -> Int]
  BY <1>1, EvictableParts
<1>4. old \in Rings
  <2>1. NewRing(kind, nextEpoch, clock + 1) \in Rings
    BY <1>2, NewRingType
  <2> QED BY <2>1, <1>3
<1>5. new \in Rings
  <2> HIDE DEF old
  <2> QED BY <1>2, <1>4, PublishInType
<1>6. new.seq \in Nat \ {0}
  <2>1. new.seq = old.seq + 1 BY <1>4 DEF PublishIn, Rings
  <2> HIDE DEF old, new
  <2> QED BY <2>1, <1>4, RingParts
<1>7. rings \in [Streams -> Rings \cup {NoRing}] /\ frames \in [Accounts -> Int]
  <2>1. Len(new.entries) \in Nat /\ Len(old.entries) \in Nat
    <3> HIDE DEF old, new
    <3> QED BY <1>4, <1>5, RingParts
  <2>3. rings \in [Streams -> Rings \cup {NoRing}]
    <3> HIDE DEF old, new, evicted
    <3> QED BY <1>3, <1>5
  <2>4. FramesWithout(victim)[k[1]] + Len(new.entries) - Len(old.entries) \in Int
    <3>1. FramesWithout(victim)[k[1]] \in Int BY <1>2, <1>3
    <3> DEFINE f == FramesWithout(victim)[k[1]]
               n == Len(new.entries)
               o == Len(old.entries)
    <3>2. f \in Int /\ n \in Nat /\ o \in Nat BY <3>1, <2>1
    <3> HIDE DEF f, n, o
    <3>3. f + n - o \in Int BY <3>2
    <3> QED BY <3>3 DEF f, n, o
  <2>5. frames \in [Accounts -> Int]
    <3> HIDE DEF old, new, evicted
    <3> QED BY <2>4, <1>2, <1>3
  <2> QED BY <2>3, <2>5
<1>8. /\ out' \in [Conns -> Queues]
      /\ armed' \subseteq conns /\ woken' \subseteq conns /\ closing' \subseteq conns
  <2>1. PublishedItem(k, new, entry) \in Item
    <3>1. entry \in Entries
      <4> HIDE DEF new
      <4> QED BY <1>6 DEF Entries
    <3> HIDE DEF new, entry
    <3> QED BY <3>1, <1>5, PublishedIsItem
  <2>2. subscribers[k] \in SUBSET conns
    <3>1. subscribers[k] \in SUBSET Conns BY <1>1 DEF TypeOK
    <3>2. \A d \in subscribers[k] : k \in subs[d] BY <3>1, <1>1 DEF RegistryAgrees
    <3>3. \A d \in subscribers[k] : d \in conns BY <3>1, <3>2, <1>1 DEF RegistryAgrees
    <3> QED BY <3>3
  <2>3. out \in [Conns -> Queues] BY <1>1 DEF TypeOK
  <2>4. Deliver(out, subscribers[k], PublishedItem(k, new, entry), {}, {})
    BY DEF PublishTo
  <2> DEFINE it == PublishedItem(k, new, entry)
  <2> HIDE DEF new, entry, it
  <2>5. /\ out' \in [Conns -> Queues]
        /\ armed' \subseteq (conns \cup {}) \ {}
        /\ woken' \subseteq (conns \cup {}) \ {}
        /\ closing' \subseteq conns \ {}
    BY <2>1, <2>2, <2>3, <2>4, <1>1, DeliverType DEF it
  <2> QED BY <2>5
<1>9. /\ streams' = StreamsWith(k, victim)
      /\ nextEpoch' = IF fresh THEN nextEpoch + 1 ELSE nextEpoch
      /\ clock' = clock + 1
      /\ published' = [published EXCEPT ![k] = IF fresh THEN <<key>> ELSE Append(@, key)]
      /\ subscribers' = subscribers
      /\ \E r \in OverBudget(rings, frames, k[1]) :
           IF r = NoStream THEN ring' = rings /\ ringFrames' = frames
           ELSE /\ ring' = [rings EXCEPT ![r] = EvictOldest(@)]
                /\ ringFrames' = [frames EXCEPT ![k[1]] = @ - 1]
  BY DEF PublishTo
<1> HIDE DEF rings, frames, fresh, new, old, entry, evicted
<1>10. ring' \in [Streams -> Rings \cup {NoRing}] /\ ringFrames' \in [Accounts -> Int]
  <2> PICK r \in OverBudget(rings, frames, k[1]) :
           IF r = NoStream THEN ring' = rings /\ ringFrames' = frames
           ELSE /\ ring' = [rings EXCEPT ![r] = EvictOldest(@)]
                /\ ringFrames' = [frames EXCEPT ![k[1]] = @ - 1]
    BY <1>9
  <2>1. CASE r = NoStream
    BY <2>1, <1>7
  <2>2. CASE r # NoStream
    <3>1. r \in Streams /\ rings[r].entries # <<>>
      BY <2>2 DEF OverBudget
    <3>2. EvictOldest(rings[r]) \in Rings
      BY <3>1, <1>7, EvictOldestType
    <3> QED BY <2>2, <3>1, <3>2, <1>2, <1>7
  <2> QED BY <2>1, <2>2
<1>11. published' \in [Streams -> Seq(Keys \cup {NoKey})]
  <2>1. <<key>> \in Seq(Keys \cup {NoKey}) /\ Append(published[k], key) \in Seq(Keys \cup {NoKey})
    BY <1>2
  <2> QED BY <2>1, <1>2, <1>9
<1> QED BY <1>2, <1>3, <1>8, <1>9, <1>10, <1>11

LEMMA PublishInv ==
  ASSUME IInv, NEW c \in Conns, NEW ch \in Channels, NEW kind \in Published,
         NEW key \in Keys \cup {NoKey}, Publish(c, ch, kind, key)
  PROVE  IInv'
<1> DEFINE k == <<AccountOf(c), PrincipalOf(c), ch>>
<1>1. /\ TypeOK /\ RegistryAgrees /\ c \in conns /\ clock < MaxPublish /\ filling = NoFill
      /\ UNCHANGED <<connVars, subs, filling, cursor, directory>>
  BY DEF IInv, Publish, Idle
<1>2. PrincipalOf(c) \in Principals /\ AccountOf(c) \in Accounts
  BY <1>1, PeerParts
<1>3. k \in Streams
  BY <1>2 DEF Streams
<1>4. CASE CloseConn(c) /\ UNCHANGED streamVars
  <2>1. /\ out' \in [Conns -> Queues]
        /\ armed' \subseteq conns /\ woken' \subseteq conns /\ closing' \subseteq conns
    BY <1>4, <1>1, CloseConnType
  <2> QED BY <2>1, <1>1, <1>4, QueueStep
<1>5. CASE Enqueue(c, "answer", PrincipalOf(c)) /\ UNCHANGED streamVars
  <2>0. "answer" \in Plain BY DEF Plain
  <2>1. /\ out' \in [Conns -> Queues]
        /\ armed' \subseteq conns /\ woken' \subseteq conns /\ closing' \subseteq conns
    BY <2>0, <1>5, <1>1, <1>2, EnqueueType
  <2> QED BY <2>1, <1>1, <1>5, QueueStep
<1>6. CASE \E victim \in Evictable(k) : PublishTo(c, k, kind, key, victim)
  <2> HIDE DEF k
  <2>1. /\ streams' \subseteq Streams
        /\ ring' \in [Streams -> Rings \cup {NoRing}]
        /\ ringFrames' \in [Accounts -> Int]
        /\ nextEpoch' \in Nat \ {0} /\ clock' \in 0..MaxPublish
        /\ published' \in [Streams -> Seq(Keys \cup {NoKey})]
        /\ subscribers' = subscribers
        /\ out' \in [Conns -> Queues]
        /\ armed' \subseteq conns /\ woken' \subseteq conns /\ closing' \subseteq conns
    BY <1>6, <1>1, <1>3, PublishToType
  <2>2. TypeOK'
    BY <2>1, <1>1 DEF TypeOK, connVars
  <2>3. RegistryAgrees'
    BY <2>1, <1>1 DEF RegistryAgrees, connVars, AccountOf
  <2> QED BY <2>2, <2>3 DEF IInv
<1> QED BY <1>4, <1>5, <1>6 DEF Publish

\* A backfill is of entries of the ring, and nothing when there is none.
LEMMA BackfillType ==
  ASSUME NEW r \in Rings \cup {NoRing}, NEW since
  PROVE  /\ BackfillEntries(r, since) \in Seq(Entries)
         /\ r = NoRing => BackfillEntries(r, since) = <<>>
<1> DEFINE I == {i \in DOMAIN r.entries : r.entries[i].seq > After(r, since)}
<1>1. r.entries \in Seq(Entries)
  <2>1. CASE r \in Rings BY <2>1, RingParts
  <2>2. CASE r = NoRing
    <3>1. r.entries = <<>> BY <2>2 DEF NoRing
    <3> QED BY <3>1
  <2> QED BY <2>1, <2>2
<1>2. I \in SUBSET DOMAIN r.entries
  OBVIOUS
<1>3. BackfillEntries(r, since) = AtIndices(r.entries, I)
  BY DEF BackfillEntries
<1>4. ASSUME r = NoRing PROVE AtIndices(r.entries, I) = <<>>
  <2>1. r.entries = <<>> BY <1>4 DEF NoRing
  <2>2. I = {} BY <2>1
  <2>3. Cardinality({}) = 0 BY FS_EmptySet
  <2>4. AtIndices(r.entries, {}) = <<>>
    <3>1. 1..0 = {} OBVIOUS
    <3>2. DOMAIN AtIndices(r.entries, {}) = 1..Cardinality({}) BY DEF AtIndices
    <3>3. AtIndices(r.entries, {}) \in Seq(Entries) BY <1>1, AtIndicesIsSeq
    <3>4. DOMAIN AtIndices(r.entries, {}) = 1..0 BY <3>2, <2>3
    <3> QED BY <3>3, <3>4
  <2> QED BY <2>2, <2>4
<1> HIDE DEF I
<1>5. AtIndices(r.entries, I) \in Seq(Entries)
  BY <1>1, <1>2, AtIndicesIsSeq
<1> QED BY <1>3, <1>4, <1>5

LEMMA SinceParts ==
  ASSUME TypeOK, NEW k \in Streams, NEW since \in Sinces(k)
  PROVE  since.seq \in Nat
<1>1. ring[k] \in Rings \cup {NoRing}
  BY DEF TypeOK
<1>2. ring[k] # NoRing => ring[k].seq \in Nat
  BY <1>1, RingParts
<1> QED BY <1>2 DEF Sinces, NoPosition, Position

LEMMA CursorType ==
  ASSUME NEW r \in Rings \cup {NoRing}, NEW since, since.seq \in Nat
  PROVE  CursorAfter(r, since) \in Nat
<1>1. CASE r = NoRing
  BY <1>1 DEF CursorAfter
<1>2. CASE r # NoRing
  <2>1. r \in Rings BY <1>2
  <2>2. After(r, since) \in Nat BY DEF After
  <2>3. FirstRetained(r) - 1 \in Nat
    <3>1. CASE r.entries = <<>>
      BY <3>1, <2>1, RingParts DEF FirstRetained
    <3>2. CASE r.entries # <<>>
      <4>1. r.entries[1] \in Entries BY <3>2, <2>1, RingParts
      <4>2. r.entries[1].seq \in Nat \ {0} BY <4>1 DEF Entries
      <4> QED BY <3>2, <4>2 DEF FirstRetained
    <3> QED BY <3>1, <3>2
  <2> QED BY <1>2, <2>2, <2>3 DEF CursorAfter
<1> QED BY <1>1, <1>2

LEMMA SubscribeInv ==
  ASSUME IInv, NEW c \in Conns, NEW k \in Streams, NEW since \in Sinces(k), Subscribe(c, k, since)
  PROVE  IInv'
<1>1. /\ TypeOK /\ RegistryAgrees /\ c \in conns /\ filling = NoFill /\ k[1] = AccountOf(c)
      /\ UNCHANGED <<connVars, directory>>
  BY DEF IInv, Subscribe, Idle
<1>2. CASE CloseConn(c) /\ UNCHANGED <<subs, streamVars, filling, cursor>>
  <2>1. /\ out' \in [Conns -> Queues]
        /\ armed' \subseteq conns /\ woken' \subseteq conns /\ closing' \subseteq conns
    BY <1>2, <1>1, CloseConnType
  <2> QED BY <2>1, <1>1, <1>2, QueueStep
<1>3. CASE /\ \E victim \in Evictable(k) :
                /\ streams' = StreamsWith(k, victim)
                /\ ring' = RingsWithout(victim)
                /\ ringFrames' = FramesWithout(victim)
           /\ subscribers' = [subscribers EXCEPT ![k] = @ \cup {c}]
           /\ subs' = [subs EXCEPT ![c] = @ \cup {k}]
           /\ out' = [out EXCEPT ![c] = PurgeStream(@, k)]
           /\ filling' = [conn |-> c, stream |-> k, rest |-> BackfillEntries(ring[k], since)]
           /\ cursor' = [cursor EXCEPT ![c][k] = CursorAfter(ring[k], since)]
           /\ UNCHANGED <<armed, woken, closing, nextEpoch, clock, published>>
  <2>1. ring[k] \in Rings \cup {NoRing} /\ since.seq \in Nat
    BY <1>1, SinceParts DEF TypeOK
  <2>2. /\ BackfillEntries(ring[k], since) \in Seq(Entries)
        /\ ring[k] = NoRing => BackfillEntries(ring[k], since) = <<>>
    BY <2>1, BackfillType
  <2>3. CursorAfter(ring[k], since) \in Nat
    BY <2>1, CursorType
  <2>4. /\ streams' \subseteq Streams
        /\ ring' \in [Streams -> Rings \cup {NoRing}]
        /\ ring'[k] = ring[k]
        /\ ringFrames' \in [Accounts -> Int]
    BY <1>3, <1>1, EvictableParts
  <2>5. out' \in [Conns -> Queues]
    <3>1. out \in [Conns -> Queues] BY <1>1 DEF TypeOK
    <3>2. PurgeStream(out[c], k) \in Queues BY <3>1, PurgeStreamType
    <3> QED BY <3>1, <3>2, <1>3
  <2>6. /\ subscribers' \in [Streams -> SUBSET Conns]
        /\ subs' \in [Conns -> SUBSET Streams]
        /\ cursor' \in [Conns -> [Streams -> Nat]]
    BY <2>3, <1>1, <1>3 DEF TypeOK
  <2>7. TypeOK'
    BY <2>2, <2>4, <2>5, <2>6, <1>1, <1>3 DEF TypeOK, connVars
  <2>8. RegistryAgrees'
    <3>1. \A d \in Conns, j \in Streams : j \in subs'[d] <=> d \in subscribers'[j]
      BY <1>1, <1>3 DEF RegistryAgrees, TypeOK
    <3>2. \A d \in Conns : \A j \in subs'[d] : d \in conns' /\ j[1] = peer'[d][1]
      BY <1>1, <1>3 DEF RegistryAgrees, TypeOK, AccountOf, connVars
    <3>3. k \in subs'[c]
      BY <1>1, <1>3 DEF TypeOK
    <3>4. /\ filling'.stream = k /\ filling'.conn = c
          /\ filling'.rest = BackfillEntries(ring[k], since)
      BY <1>3
    <3>5. filling' # NoFill => /\ filling'.stream \in subs'[filling'.conn]
                               /\ filling'.rest # <<>> => ring'[filling'.stream] # NoRing
      BY <3>3, <3>4, <2>2, <2>4
    <3> QED BY <3>1, <3>2, <3>5, <1>1 DEF RegistryAgrees, AccountOf, connVars
  <2> QED BY <2>7, <2>8 DEF IInv
<1> QED BY <1>2, <1>3 DEF Subscribe

LEMMA UnsubscribeInv ==
  ASSUME IInv, NEW c \in Conns, NEW k \in Streams, Unsubscribe(c, k)
  PROVE  IInv'
<1>1. TypeOK /\ RegistryAgrees /\ filling = NoFill
  BY DEF IInv, Unsubscribe, Idle
<1>2. /\ subs' = [subs EXCEPT ![c] = @ \ {k}]
      /\ out' = [out EXCEPT ![c] = PurgeStream(@, k)]
      /\ subscribers' = [subscribers EXCEPT ![k] = @ \ {c}]
      /\ streams' \subseteq streams
      /\ cursor' = [cursor EXCEPT ![c][k] = 0]
      /\ UNCHANGED <<connVars, armed, woken, closing, ring, ringFrames, nextEpoch, clock, published,
                     filling, directory>>
  BY DEF Unsubscribe
<1>3. out' \in [Conns -> Queues]
  <2>1. out \in [Conns -> Queues] BY <1>1 DEF TypeOK
  <2>2. PurgeStream(out[c], k) \in Queues BY <2>1, PurgeStreamType
  <2> QED BY <2>1, <2>2, <1>2
<1>4. TypeOK'
  <2>1. /\ subscribers' \in [Streams -> SUBSET Conns]
        /\ subs' \in [Conns -> SUBSET Streams]
        /\ cursor' \in [Conns -> [Streams -> Nat]]
    BY <1>1, <1>2 DEF TypeOK
  <2> QED BY <2>1, <1>1, <1>2, <1>3 DEF TypeOK, connVars
<1>5. RegistryAgrees'
  <2>1. \A d \in Conns, j \in Streams : j \in subs'[d] <=> d \in subscribers'[j]
    BY <1>1, <1>2 DEF RegistryAgrees, TypeOK
  <2>2. \A d \in Conns : \A j \in subs'[d] : d \in conns' /\ j[1] = peer'[d][1]
    BY <1>1, <1>2 DEF RegistryAgrees, TypeOK, AccountOf, connVars
  <2> QED BY <2>1, <2>2, <1>1, <1>2 DEF RegistryAgrees, AccountOf, connVars
<1> QED BY <1>4, <1>5 DEF IInv

-----------------------------------------------------------------------------
\* Every step keeps the invariant.
LEMMA NextInv == IInv /\ [Next]_vars => IInv'
<1> SUFFICES ASSUME IInv, [Next]_vars PROVE IInv' OBVIOUS
<1>1. ASSUME NEW a \in Accounts, NEW p \in Principals, Connect(a, p) PROVE IInv'
  BY <1>1, ConnectInv
<1>2. ASSUME NEW c \in Conns, Disconnect(c) \/ FinishClose(c) PROVE IInv'
  <2>1. filling = NoFill /\ c \in conns /\ Forget(c)
    BY <1>2 DEF Disconnect, FinishClose, Idle, IInv, TypeOK
  <2> QED BY <2>1, ForgetInv
<1>3. ASSUME NEW c \in Conns, Answer(c) PROVE IInv'
  BY <1>3, AnswerInv
<1>4. ASSUME NEW c \in Conns, Offend(c) PROVE IInv'
  BY <1>4, OffendInv
<1>5. ASSUME NEW c \in Conns, NEW p \in Principals, Direct(c, p) PROVE IInv'
  BY <1>5, DirectInv
<1>6. ASSUME NEW c \in Conns, NEW ch \in Channels, NEW kind \in Published,
             NEW key \in Keys \cup {NoKey}, Publish(c, ch, kind, key)
      PROVE  IInv'
  BY <1>6, PublishInv
<1>7. ASSUME NEW c \in Conns, NEW k \in Streams, NEW since \in Sinces(k), Subscribe(c, k, since)
      PROVE  IInv'
  BY <1>7, SubscribeInv
<1>8. ASSUME NEW c \in Conns, NEW k \in Streams, Unsubscribe(c, k) PROVE IInv'
  BY <1>8, UnsubscribeInv
<1>9. ASSUME NEW c \in Conns, TakeOutbound(c) PROVE IInv'
  BY <1>9, TakeOutboundInv
<1>10. CASE BackfillEntry
  BY <1>10, BackfillEntryInv
<1>11. CASE Backfilled
  BY <1>11, BackfilledInv
<1>12. CASE UNCHANGED vars
  <2>1. UNCHANGED <<connVars, subs, streamVars, filling, cursor, directory>> /\ UNCHANGED queueVars
    BY <1>12 DEF vars
  <2>2. /\ out' \in [Conns -> Queues]
        /\ armed' \subseteq conns /\ woken' \subseteq conns /\ closing' \subseteq conns
    BY <2>1 DEF queueVars, IInv, TypeOK
  <2> QED BY <2>1, <2>2, QueueStep
<1> QED BY <1>1, <1>2, <1>3, <1>4, <1>5, <1>6, <1>7, <1>8, <1>9, <1>10, <1>11, <1>12 DEF Next

\* Every variable of the relay keeps to its values, whatever calls the server
\* makes in whatever order: in particular a connection that is armed, woken or to
\* be closed is one the relay still knows.
THEOREM TypeCorrect == Spec => []TypeOK
<1>1. Init => IInv BY InitInv
<1>2. IInv /\ [Next]_vars => IInv' BY NextInv
<1>3. IInv => TypeOK BY DEF IInv
<1> QED BY <1>1, <1>2, <1>3, PTL DEF Spec

\* Connections, online principals, subscriptions and subscribers always name each
\* other consistently, which is what the expect() calls of lib.rs rest on.
THEOREM RegistryConsistent == Spec => []RegistryAgrees
<1>1. Init => IInv BY InitInv
<1>2. IInv /\ [Next]_vars => IInv' BY NextInv
<1>3. IInv => RegistryAgrees BY DEF IInv
<1> QED BY <1>1, <1>2, <1>3, PTL DEF Spec

-----------------------------------------------------------------------------
\* No wake is lost: a connection with frames queued always has a wake the server
\* has not used up. The flag that keeps wakes from repeating (arm) must therefore
\* be up exactly while a wake is outstanding.

WakeInv == IInv /\ armed = woken /\ NoLostWake

\* Whoever a frame is delivered to has a wake outstanding or is to be closed, and
\* nobody else's queue, wake or close is touched.
LEMMA DeliverWakes ==
  ASSUME NEW q, NEW D, NEW it, NEW fresh, NEW gone,
         armed = woken, Deliver(q, D, it, fresh, gone)
  PROVE  /\ armed' = woken'
         /\ \A d \in (D \cup fresh \cup woken) \ gone : d \in woken' \/ d \in closing'
         /\ \A d \in (fresh \cup woken) \ gone : d \in woken'
         /\ \A d \in closing \ gone : d \in closing'
         /\ \A d \in Conns : d \notin D => out'[d] = q[d]
BY DEF Deliver

\* A connection that is in nobody's way keeps its wake.
LEMMA UndisturbedWake ==
  ASSUME WakeInv, NEW d \in conns, d \notin closing, filling.conn # d,
         out[d].items # <<>>
  PROVE  d \in woken
BY DEF WakeInv, NoLostWake, Steady

\* Purging an empty queue leaves it empty.
LEMMA PurgeKeepsEmpty ==
  ASSUME NEW q \in Queues, NEW k \in Streams, q.items = <<>>
  PROVE  PurgeStream(q, k).items = <<>>
<1> DEFINE kept == DOMAIN q.items \ {i \in DOMAIN q.items : q.items[i].stream = k}
<1>1. PurgeStream(q, k).items = AtIndices(q.items, kept)
  BY DEF PurgeStream
<1>2. kept = {}
  OBVIOUS
<1>3. Cardinality({}) = 0
  BY FS_EmptySet
<1>4. AtIndices(q.items, {}) \in Seq(Item)
  BY AtIndicesIsSeq, QueueParts
<1>5. DOMAIN AtIndices(q.items, {}) = 1..0
  BY <1>3 DEF AtIndices
<1>6. AtIndices(q.items, {}) = <<>>
  BY <1>4, <1>5
<1> QED BY <1>1, <1>2, <1>6

\* Taking the only frame of a queue leaves it empty.
LEMMA TakeLast ==
  ASSUME NEW q \in Queues, q.items # <<>>, ~(Len(q.items) > 1)
  PROVE  TakeFrame(q).items = <<>>
<1>0. q.items \in Seq(Item) /\ Len(q.items) \in Nat
  BY QueueParts
<1>1. q.items \in Seq(Item) /\ Len(q.items) = 1
  <2>1. Len(q.items) # 0 BY <1>0, EmptySeq
  <2> DEFINE n == Len(q.items)
  <2>2. n \in Nat /\ n # 0 /\ ~(n > 1) BY <2>1, <1>0
  <2> HIDE DEF n
  <2>3. n = 1 BY <2>2
  <2> QED BY <2>3, <1>0 DEF n
<1>2. RemoveItem(q, 1).items = SubSeq(q.items, 1, 0) \o SubSeq(q.items, 2, 1)
  BY <1>1 DEF RemoveItem, Queues
<1>3. SubSeq(q.items, 1, 0) = <<>> /\ SubSeq(q.items, 2, 1) = <<>>
  BY <1>1
<1>4. RemoveItem(q, 1).items = <<>>
  <2>1. <<>> \o <<>> = <<>> OBVIOUS
  <2> QED BY <2>1, <1>2, <1>3
<1>5. RemoveItem(q, 1) \in Queues
  BY <1>1, RemoveItemType
<1> DEFINE r == RemoveItem(q, 1)
<1>6. \E d : TakeFrame(q) = [r EXCEPT !.dropped = d]
  BY DEF TakeFrame
<1>7. r \in Queues /\ r.items = <<>>
  BY <1>4, <1>5
<1> HIDE DEF r
<1> QED BY <1>6, <1>7 DEF Queues

LEMMA InitWake == Init => WakeInv
BY InitInv DEF Init, WakeInv, NoLostWake, Steady

\* Steps of a call that is not backfilling deliver to some and leave the rest.
LEMMA DeliverKeepsWake ==
  ASSUME WakeInv, NEW q, NEW D, NEW it, NEW fresh, NEW gone,
         Deliver(q, D, it, fresh, gone),
         \A d \in Conns : d \notin D \cup fresh \cup gone => q[d] = out[d],
         conns' = (conns \cup fresh) \ gone, conns' \subseteq Conns,
         filling.conn \in D \cup {NoConn}
  PROVE  armed' = woken' /\ NoLostWake'
<1>1. armed = woken BY DEF WakeInv
<1>2. /\ armed' = woken'
      /\ \A d \in (D \cup fresh \cup woken) \ gone : d \in woken' \/ d \in closing'
      /\ \A d \in (fresh \cup woken) \ gone : d \in woken'
      /\ \A d \in closing \ gone : d \in closing'
      /\ \A d \in Conns : d \notin D => out'[d] = q[d]
  BY <1>1, DeliverWakes
<1>3. ASSUME NEW d \in conns', d \notin closing', out'[d].items # <<>> PROVE d \in woken'
  <2>1. CASE d \in D \cup fresh
    BY <2>1, <1>2, <1>3
  <2>2. CASE d \notin D \cup fresh
    <3>1. d \in conns /\ d \notin closing /\ d \notin gone /\ d \in Conns
      BY <2>2, <1>2, <1>3
    <3>2. out'[d] = out[d]
      BY <3>1, <2>2, <1>2
    <3>3. filling.conn # d
      BY <3>1, <2>2 DEF NoConn, Conns
    <3>4. d \in woken
      BY <3>1, <3>2, <3>3, <1>3, UndisturbedWake
    <3> QED BY <3>4, <3>1, <1>2
  <2> QED BY <2>1, <2>2
<1>4. NoLostWake'
  BY <1>3 DEF NoLostWake, Steady
<1> QED BY <1>2, <1>4

\* Steps that only close connections.
LEMMA CloseKeepsWake ==
  ASSUME WakeInv, NEW c, CloseConn(c), conns' = conns, filling' = filling
  PROVE  armed' = woken' /\ NoLostWake'
BY DEF WakeInv, NoLostWake, Steady, CloseConn

-----------------------------------------------------------------------------
(***************************************************************************)
(* One lemma per action, for what it does to wakes; RelayProofs has the    *)
(* rest.                                                                   *)
(***************************************************************************)

LEMMA ConnectWake ==
  ASSUME WakeInv, NEW a \in Accounts, NEW p \in Principals, Connect(a, p)
  PROVE  armed' = woken' /\ NoLostWake'
<1>1. IInv /\ TypeOK /\ Idle
  BY DEF WakeInv, IInv, Connect
<1>2. nextConn \in Conns
  BY <1>1, BoundsAreNaturals DEF TypeOK, Connect, Conns
<1>3. PICK order \in Orders(OnlineIn(a)) :
        Deliver([out EXCEPT ![nextConn] = WelcomeQueue(p, order)],
                ConnsOf(a), Frame("online", p), {nextConn}, {})
  BY DEF Connect
<1> DEFINE q     == [out EXCEPT ![nextConn] = WelcomeQueue(p, order)]
           D     == ConnsOf(a)
           it    == Frame("online", p)
           fresh == {nextConn}
           gone  == {}
<1>4. Deliver(q, D, it, fresh, gone)
  BY <1>3
<1>5. \A d \in Conns : d \notin D \cup fresh \cup gone => q[d] = out[d]
  BY <1>1 DEF TypeOK
<1>6. conns' = (conns \cup fresh) \ gone /\ conns' \subseteq Conns
  BY <1>1, <1>2 DEF Connect, TypeOK
<1>7. filling.conn \in D \cup {NoConn}
  BY <1>1 DEF Idle, NoFill
<1> HIDE DEF q, D, it, fresh, gone
<1> QED BY <1>4, <1>5, <1>6, <1>7, DeliverKeepsWake

LEMMA ForgetWake ==
  ASSUME WakeInv, filling = NoFill, NEW c \in conns, Forget(c)
  PROVE  armed' = woken' /\ NoLostWake'
<1>1. TypeOK
  BY DEF WakeInv, IInv
<1> DEFINE q     == [out EXCEPT ![c] = EmptyQueue]
           D     == ConnsOf(AccountOf(c)) \ {c}
           it    == Frame("offline", PrincipalOf(c))
           fresh == {}
           gone  == {c}
<1>2. Deliver(q, D, it, fresh, gone)
  BY DEF Forget
<1>3. \A d \in Conns : d \notin D \cup fresh \cup gone => q[d] = out[d]
  BY <1>1 DEF TypeOK
<1>4. conns' = (conns \cup fresh) \ gone /\ conns' \subseteq Conns
  BY <1>1 DEF Forget, TypeOK
<1>5. filling.conn \in D \cup {NoConn}
  BY DEF NoFill
<1> HIDE DEF q, D, it, fresh, gone
<1> QED BY <1>2, <1>3, <1>4, <1>5, DeliverKeepsWake

\* A delivery, on the queues as they are, of a step that keeps the connections.
LEMMA PlainDeliveryWake ==
  ASSUME WakeInv, NEW D, NEW it, Deliver(out, D, it, {}, {}), conns' = conns,
         filling.conn \in D \cup {NoConn}
  PROVE  armed' = woken' /\ NoLostWake'
<1> DEFINE q == out
           none == {}
<1>1. /\ Deliver(q, D, it, none, none)
      /\ \A d \in Conns : d \notin D \cup none \cup none => q[d] = out[d]
      /\ conns' = (conns \cup none) \ none /\ conns' \subseteq Conns
  BY DEF WakeInv, IInv, TypeOK
<1> HIDE DEF q, none
<1> QED BY <1>1, DeliverKeepsWake

LEMMA EnqueueWake ==
  ASSUME WakeInv, NEW c, NEW kind, NEW p, Enqueue(c, kind, p), conns' = conns,
         filling.conn \in {c} \cup {NoConn}
  PROVE  armed' = woken' /\ NoLostWake'
<1> DEFINE D == {c}
           it == Frame(kind, p)
<1>1. Deliver(out, D, it, {}, {}) /\ filling.conn \in D \cup {NoConn}
  BY DEF Enqueue
<1> HIDE DEF D, it
<1> QED BY <1>1, PlainDeliveryWake

LEMMA DirectWake ==
  ASSUME WakeInv, NEW c \in Conns, NEW p \in Principals, Direct(c, p)
  PROVE  armed' = woken' /\ NoLostWake'
<1> DEFINE target == online[<<AccountOf(c), p>>]
           it     == Frame("direct", PrincipalOf(c))
           answer == Frame("answer", PrincipalOf(c))
           after  == [out EXCEPT ![target] = Push(@, it)]
           told   == IF Takes(after[c], answer) THEN {c} ELSE {}
<1>1. /\ IInv /\ TypeOK /\ armed = woken /\ filling = NoFill /\ closing = {}
      /\ conns' = conns /\ filling' = filling /\ filling.conn = NoConn
  BY DEF WakeInv, IInv, Direct, connVars, Idle, NoFill
<1>2. CASE Deliver(out, {c}, answer, {}, {})
  <2> DEFINE D == {c}
  <2>1. Deliver(out, D, answer, {}, {}) /\ filling.conn \in D \cup {NoConn} BY <1>1, <1>2
  <2> HIDE DEF D, answer
  <2> QED BY <2>1, <1>1, PlainDeliveryWake
<1>3. CASE Deliver(out, {target}, it, {}, {})
  <2> DEFINE D == {target}
  <2>1. Deliver(out, D, it, {}, {}) /\ filling.conn \in D \cup {NoConn} BY <1>1, <1>3
  <2> HIDE DEF D, it
  <2> QED BY <2>1, <1>1, PlainDeliveryWake
<1>4. CASE /\ out' = [after EXCEPT ![c] = Push(@, answer)]
           /\ armed' = armed \cup told
           /\ woken' = woken \cup (told \ armed)
           /\ closing' = {target} \cup ({c} \ told)
  <2>1. \A d \in Conns : d # c /\ d # target => out'[d] = out[d]
    BY <1>1, <1>4 DEF TypeOK
  <2>2. ASSUME NEW d \in conns', d \notin closing', out'[d].items # <<>> PROVE d \in woken'
    <3> HIDE DEF target, told, after
    <3>1. d \in conns /\ d \in Conns /\ d # target /\ filling.conn # d
      BY <2>2, <1>1, <1>4 DEF TypeOK, Conns, NoConn
    <3>2. CASE d = c
      BY <3>2, <2>2, <1>1, <1>4
    <3>3. CASE d # c
      <4>1. out'[d] = out[d] BY <3>1, <3>3, <2>1
      <4>2. d \in woken BY <4>1, <3>1, <2>2, <1>1, UndisturbedWake
      <4> QED BY <4>2, <1>4
    <3> QED BY <3>2, <3>3
  <2>3. NoLostWake'
    BY <2>2 DEF NoLostWake, Steady
  <2>4. armed' = woken'
    BY <1>1, <1>4
  <2> QED BY <2>3, <2>4
<1> QED BY <1>2, <1>3, <1>4 DEF Direct

LEMMA PublishWake ==
  ASSUME WakeInv, NEW c \in Conns, NEW ch \in Channels, NEW kind \in Published,
         NEW key \in Keys \cup {NoKey}, Publish(c, ch, kind, key)
  PROVE  armed' = woken' /\ NoLostWake'
<1> DEFINE k == <<AccountOf(c), PrincipalOf(c), ch>>
<1>1. filling.conn = NoConn /\ conns' = conns /\ filling' = filling
  BY DEF Publish, Idle, NoFill, connVars
<1>2. CASE CloseConn(c)
  BY <1>1, <1>2, CloseKeepsWake
<1>3. CASE Enqueue(c, "answer", PrincipalOf(c))
  BY <1>1, <1>3, EnqueueWake
<1>4. CASE \E victim \in Evictable(k) : PublishTo(c, k, kind, key, victim)
  <2>1. PICK D, it : Deliver(out, D, it, {}, {})
    BY <1>4 DEF PublishTo
  <2>2. filling.conn \in D \cup {NoConn}
    BY <1>1
  <2> QED BY <2>1, <2>2, <1>1, PlainDeliveryWake
<1> QED BY <1>2, <1>3, <1>4 DEF Publish

LEMMA SubscribeWake ==
  ASSUME WakeInv, NEW c \in Conns, NEW k \in Streams, NEW since \in Sinces(k), Subscribe(c, k, since)
  PROVE  armed' = woken' /\ NoLostWake'
<1>1. /\ IInv /\ TypeOK /\ armed = woken /\ filling.conn = NoConn /\ conns' = conns
  BY DEF WakeInv, IInv, Subscribe, Idle, NoFill, connVars
<1>2. CASE CloseConn(c) /\ filling' = filling
  BY <1>1, <1>2, CloseKeepsWake
<1>3. CASE /\ out' = [out EXCEPT ![c] = PurgeStream(@, k)]
           /\ filling' = [conn |-> c, stream |-> k, rest |-> BackfillEntries(ring[k], since)]
           /\ UNCHANGED <<armed, woken, closing>>
  <2>1. filling'.conn = c
    BY <1>3
  <2>2. ASSUME NEW d \in conns', d \notin closing', out'[d].items # <<>>, filling'.conn # d
        PROVE  d \in woken'
    <3>1. d \in conns /\ d \notin closing /\ d # c /\ out'[d] = out[d] /\ filling.conn # d
      BY <2>1, <2>2, <1>1, <1>3 DEF TypeOK, Conns, NoConn
    <3> QED BY <3>1, <2>2, <1>3, UndisturbedWake
  <2>3. NoLostWake'
    BY <2>2 DEF NoLostWake, Steady
  <2> QED BY <2>3, <1>1, <1>3
<1> QED BY <1>2, <1>3 DEF Subscribe

LEMMA UnsubscribeWake ==
  ASSUME WakeInv, NEW c \in Conns, NEW k \in Streams, Unsubscribe(c, k)
  PROVE  armed' = woken' /\ NoLostWake'
<1>1. /\ IInv /\ TypeOK /\ armed = woken /\ filling.conn = NoConn /\ conns' = conns
      /\ out' = [out EXCEPT ![c] = PurgeStream(@, k)]
      /\ UNCHANGED <<armed, woken, closing>>
  BY DEF WakeInv, IInv, Unsubscribe, Idle, NoFill, connVars
<1>2. \A d \in Conns : out'[d].items # <<>> => out[d].items # <<>>
  <2>1. out[c] \in Queues BY <1>1 DEF TypeOK
  <2>2. out[c].items = <<>> => PurgeStream(out[c], k).items = <<>> BY <2>1, PurgeKeepsEmpty
  <2>3. \A d \in Conns : out'[d] = IF d = c THEN PurgeStream(out[c], k) ELSE out[d]
    BY <1>1 DEF TypeOK
  <2> QED BY <2>2, <2>3
<1>3. ASSUME NEW d \in conns', d \notin closing', out'[d].items # <<>> PROVE d \in woken'
  <2>0. d \in conns /\ d \in Conns /\ d \notin closing
    BY <1>1, <1>3 DEF TypeOK
  <2>1. d \in conns /\ d \in Conns /\ d \notin closing /\ filling.conn # d
    BY <2>0, <1>1 DEF Conns, NoConn
  <2>2. out[d].items # <<>> BY <2>1, <1>2, <1>3
  <2> QED BY <2>1, <2>2, <1>1, UndisturbedWake
<1>4. NoLostWake'
  BY <1>3 DEF NoLostWake, Steady
<1> QED BY <1>4, <1>1

LEMMA TakeOutboundWake ==
  ASSUME WakeInv, NEW c \in Conns, TakeOutbound(c)
  PROVE  armed' = woken' /\ NoLostWake'
<1> DEFINE q == out[c]
<1>1. /\ IInv /\ TypeOK /\ armed = woken /\ filling.conn = NoConn /\ conns' = conns
      /\ closing' = closing /\ c \in woken /\ q \in Queues
  BY DEF WakeInv, IInv, TypeOK, TakeOutbound, Idle, NoFill, connVars
<1>2. /\ armed' = IF Len(q.items) > 1 THEN armed ELSE armed \ {c}
      /\ woken' = IF Len(q.items) > 1 THEN woken ELSE woken \ {c}
      /\ IF q.items = <<>> THEN out' = out ELSE out' = [out EXCEPT ![c] = TakeFrame(q)]
  BY DEF TakeOutbound, StillArmedAfter
<1>3. ~(Len(q.items) > 1) => out'[c].items = <<>>
  <2>1. CASE q.items = <<>>
    BY <2>1, <1>2
  <2>2. CASE q.items # <<>> /\ ~(Len(q.items) > 1)
    <3>1. TakeFrame(q).items = <<>> BY <2>2, <1>1, TakeLast
    <3>2. out'[c] = TakeFrame(q) BY <2>2, <1>1, <1>2 DEF TypeOK
    <3> QED BY <3>1, <3>2
  <2> QED BY <2>1, <2>2
<1>4. \A d \in Conns : d # c => out'[d] = out[d]
  BY <1>1, <1>2 DEF TypeOK
<1>5. ASSUME NEW d \in conns', d \notin closing', out'[d].items # <<>> PROVE d \in woken'
  <2>0. d \in conns /\ d \in Conns /\ d \notin closing
    BY <1>1, <1>5 DEF TypeOK
  <2>1. d \in conns /\ d \in Conns /\ d \notin closing /\ filling.conn # d
    BY <2>0, <1>1 DEF Conns, NoConn
  <2>2. CASE d = c
    BY <2>2, <1>1, <1>2, <1>3, <1>5
  <2>3. CASE d # c
    <3>1. d \in woken BY <2>1, <2>3, <1>4, <1>5, UndisturbedWake
    <3> QED BY <3>1, <2>3, <1>2
  <2> QED BY <2>2, <2>3
<1>6. NoLostWake'
  BY <1>5 DEF NoLostWake, Steady
<1> QED BY <1>6, <1>1, <1>2

\* A backfill arms nothing until its Backfilled, so until then its connection is
\* the exception of NoLostWake; if it does not fit, the connection is closed.
LEMMA BackfillEntryWake ==
  ASSUME WakeInv, BackfillEntry
  PROVE  armed' = woken' /\ NoLostWake'
<1> DEFINE c == filling.conn
<1>1. /\ IInv /\ TypeOK /\ armed = woken /\ conns' = conns
      /\ armed' = armed /\ woken' = woken
      /\ \/ filling' = [filling EXCEPT !.rest = Tail(@)] /\ closing' = closing
         \/ filling' = NoFill /\ closing' = closing \cup {c}
  BY DEF WakeInv, IInv, BackfillEntry, connVars
<1>2. filling \in [conn : Conns, stream : Streams, rest : Seq(Entries)]
  BY <1>1, FillingParts DEF BackfillEntry
<1>3. filling'.conn = c \/ c \in closing'
  BY <1>1, <1>2
<1>4. \A d \in Conns : d # c => out'[d] = out[d]
  BY <1>1 DEF TypeOK, BackfillEntry
<1>5. ASSUME NEW d \in conns', d \notin closing', out'[d].items # <<>>, filling'.conn # d
      PROVE  d \in woken'
  <2>1. d \in conns /\ d \in Conns /\ d \notin closing /\ d # c
    BY <1>1, <1>3, <1>5 DEF TypeOK
  <2> QED BY <2>1, <1>1, <1>4, <1>5, UndisturbedWake
<1>6. NoLostWake'
  BY <1>5 DEF NoLostWake, Steady
<1> QED BY <1>6, <1>1

LEMMA NextWake == WakeInv /\ [Next]_vars => WakeInv'
<1> SUFFICES ASSUME WakeInv, [Next]_vars PROVE WakeInv' OBVIOUS
<1>0. IInv' /\ IInv
  BY NextInv DEF WakeInv
<1> SUFFICES armed' = woken' /\ NoLostWake'
  BY <1>0 DEF WakeInv
<1>1. ASSUME NEW a \in Accounts, NEW p \in Principals, Connect(a, p)
      PROVE  armed' = woken' /\ NoLostWake'
  BY <1>1, ConnectWake
<1>2. ASSUME NEW c \in Conns, Disconnect(c) \/ FinishClose(c)
      PROVE  armed' = woken' /\ NoLostWake'
  <2>1. filling = NoFill /\ c \in conns /\ Forget(c)
    BY <1>0, <1>2 DEF Disconnect, FinishClose, Idle, IInv, TypeOK
  <2> QED BY <2>1, ForgetWake
<1>3. ASSUME NEW c \in Conns, Answer(c)
      PROVE  armed' = woken' /\ NoLostWake'
  <2>1. /\ Enqueue(c, "answer", PrincipalOf(c)) /\ conns' = conns
        /\ filling.conn \in {c} \cup {NoConn}
    BY <1>3 DEF Answer, Idle, NoFill, connVars
  <2> QED BY <2>1, EnqueueWake
<1>4. ASSUME NEW c \in Conns, Offend(c)
      PROVE  armed' = woken' /\ NoLostWake'
  <2>1. CloseConn(c) /\ conns' = conns /\ filling' = filling
    BY <1>4 DEF Offend, connVars
  <2> QED BY <2>1, CloseKeepsWake
<1>5. ASSUME NEW c \in Conns, NEW p \in Principals, Direct(c, p)
      PROVE  armed' = woken' /\ NoLostWake'
  BY <1>5, DirectWake
<1>6. ASSUME NEW c \in Conns, NEW ch \in Channels, NEW kind \in Published,
             NEW key \in Keys \cup {NoKey}, Publish(c, ch, kind, key)
      PROVE  armed' = woken' /\ NoLostWake'
  BY <1>6, PublishWake
<1>7. ASSUME NEW c \in Conns, NEW k \in Streams, NEW since \in Sinces(k), Subscribe(c, k, since)
      PROVE  armed' = woken' /\ NoLostWake'
  BY <1>7, SubscribeWake
<1>8. ASSUME NEW c \in Conns, NEW k \in Streams, Unsubscribe(c, k)
      PROVE  armed' = woken' /\ NoLostWake'
  BY <1>8, UnsubscribeWake
<1>9. ASSUME NEW c \in Conns, TakeOutbound(c)
      PROVE  armed' = woken' /\ NoLostWake'
  BY <1>9, TakeOutboundWake
<1>10. CASE BackfillEntry
  BY <1>10, BackfillEntryWake
<1>11. CASE Backfilled
  <2>1. /\ Enqueue(filling.conn, "backfilled", filling.stream[2]) /\ conns' = conns
        /\ filling.conn \in {filling.conn} \cup {NoConn}
    BY <1>11 DEF Backfilled, connVars
  <2> QED BY <2>1, EnqueueWake
<1>12. CASE UNCHANGED vars
  BY <1>12 DEF vars, queueVars, connVars, WakeInv, NoLostWake, Steady
<1> QED BY <1>1, <1>2, <1>3, <1>4, <1>5, <1>6, <1>7, <1>8, <1>9, <1>10, <1>11, <1>12 DEF Next

\* A connection with frames queued always has a wake the server has not used up:
\* no interleaving of deliveries, drains, backfills and closes leaves frames
\* behind a writer that sleeps (Conn::arm, Hub::enqueue, Hub::take_outbound).
THEOREM WakesNeverLost == Spec => []NoLostWake
<1>1. Init => WakeInv BY InitWake
<1>2. WakeInv /\ [Next]_vars => WakeInv' BY NextWake
<1>3. WakeInv => NoLostWake BY DEF WakeInv
<1> QED BY <1>1, <1>2, <1>3, PTL DEF Spec

-----------------------------------------------------------------------------
\* What the relay keeps of its streams.

LEMMA RingOrNone ==
  ASSUME NEW r \in Rings \cup {NoRing}
  PROVE  /\ r.entries \in Seq(Entries) /\ Len(r.entries) \in Nat /\ r.seq \in Nat /\ r.epoch \in Nat
         /\ DOMAIN r.entries = 1..Len(r.entries)
         /\ r = NoRing => Len(r.entries) = 0 /\ r.seq = 0 /\ r.kind \notin Published
         /\ r # NoRing => r.kind \in Published
<1>1. CASE r \in Rings
  <2>1. r # NoRing BY <1>1, RingParts DEF NoRing, Published
  <2> QED BY <1>1, <2>1, RingParts
<1>2. CASE r = NoRing
  <2>1. r.entries = <<>> /\ r.seq = 0 /\ r.epoch = 0 /\ r.kind = "none" BY <1>2 DEF NoRing
  <2> QED BY <1>2, <2>1 DEF Published
<1> QED BY <1>1, <1>2

\* What publishing makes of a ring.
LEMMA PublishInParts ==
  ASSUME NEW r \in Rings, NEW key \in Keys \cup {NoKey}, NEW t \in Nat
  PROVE  LET new == PublishIn(r, key, t) IN
         /\ new \in Rings /\ new.seq = r.seq + 1 /\ new.epoch = r.epoch /\ new.kind = r.kind /\ new.touched = t
         /\ LET kept == Append(r.entries, [seq |-> r.seq + 1, key |-> key]) IN
            \/ new.entries = r.entries /\ Capacity(r.kind) = 0
            \/ new.entries = kept /\ Len(kept) <= Capacity(r.kind)
            \/ new.entries = Tail(kept)
<1> DEFINE kept == Append(r.entries, [seq |-> r.seq + 1, key |-> key])
           n == r.seq + 1
           s == IF Capacity(r.kind) = 0 THEN r.entries
                ELSE IF Len(kept) > Capacity(r.kind) THEN Tail(kept)
                ELSE kept
<1>1. PublishIn(r, key, t) = [r EXCEPT !.seq = n, !.touched = t, !.entries = s]
  BY DEF PublishIn
<1>2. PublishIn(r, key, t) \in Rings BY PublishInType
<1>3. \/ s = r.entries /\ Capacity(r.kind) = 0
      \/ s = kept /\ Len(kept) <= Capacity(r.kind)
      \/ s = Tail(kept)
  <2>1. kept \in Seq(Entries)
    <3>1. [seq |-> r.seq + 1, key |-> key] \in Entries BY RingParts DEF Entries
    <3> DEFINE e == [seq |-> r.seq + 1, key |-> key]
    <3> HIDE DEF e
    <3> QED BY <3>1, RingParts DEF e
  <2>2. Len(kept) \in Nat /\ Capacity(r.kind) \in Nat BY <2>1, LimitsAreNaturals DEF Capacity
  <2> HIDE DEF kept
  <2> QED BY <2>2
<1> HIDE DEF s, kept, n
<1>4. LET new == [r EXCEPT !.seq = n, !.touched = t, !.entries = s] IN
      new.seq = n /\ new.epoch = r.epoch /\ new.kind = r.kind /\ new.touched = t /\ new.entries = s
  BY DEF Rings
<1> QED BY <1>1, <1>2, <1>3, <1>4 DEF n, kept

\* The ring a publish adds to: the stream's own, or a new one.
OldRing(k, kind) == IF ring[k] = NoRing THEN NewRing(kind, nextEpoch, clock + 1) ELSE ring[k]
NewerRing(k, kind, key) == PublishIn(OldRing(k, kind), key, clock + 1)
Envelope(k, kind, key) ==
  PublishedItem(k, NewerRing(k, kind, key), [seq |-> NewerRing(k, kind, key).seq, key |-> key])

LEMMA OldRingParts ==
  ASSUME TypeOK, NEW k \in Streams, NEW kind \in Published
  PROVE  /\ OldRing(k, kind) \in Rings
         /\ OldRing(k, kind).seq = ring[k].seq
         /\ OldRing(k, kind).entries = ring[k].entries
         /\ ring[k] # NoRing => OldRing(k, kind) = ring[k]
         /\ ring[k] = NoRing => OldRing(k, kind).epoch = nextEpoch /\ OldRing(k, kind).kind = kind
<1>1. ring[k] \in Rings \cup {NoRing} /\ nextEpoch \in Nat /\ clock + 1 \in Nat BY BoundsAreNaturals DEF TypeOK
<1>2. CASE ring[k] # NoRing BY <1>1, <1>2 DEF OldRing
<1>3. CASE ring[k] = NoRing
  <2>1. NewRing(kind, nextEpoch, clock + 1) \in Rings BY <1>1, NewRingType
  <2> QED BY <1>3, <2>1 DEF OldRing, NewRing, NoRing
<1> QED BY <1>2, <1>3

LEMMA NewerRingParts ==
  ASSUME TypeOK, NEW k \in Streams, NEW kind \in Published, NEW key \in Keys \cup {NoKey}
  PROVE  LET old == OldRing(k, kind)
             new == NewerRing(k, kind, key)
             kept == Append(ring[k].entries, [seq |-> ring[k].seq + 1, key |-> key])
         IN  /\ new \in Rings /\ new # NoRing
             /\ new.seq = ring[k].seq + 1 /\ new.epoch = old.epoch /\ new.kind = old.kind
             /\ \/ new.entries = ring[k].entries /\ Capacity(old.kind) = 0
                \/ new.entries = kept /\ Len(kept) <= Capacity(old.kind)
                \/ new.entries = Tail(kept)
<1>1. clock + 1 \in Nat BY BoundsAreNaturals DEF TypeOK
<1>2. OldRing(k, kind) \in Rings /\ OldRing(k, kind).seq = ring[k].seq /\ OldRing(k, kind).entries = ring[k].entries
  BY OldRingParts
<1> DEFINE old == OldRing(k, kind)
           new == NewerRing(k, kind, key)
<1>3. new = PublishIn(old, key, clock + 1) BY DEF NewerRing
<1> HIDE DEF old, new
<1>4. LET kept == Append(old.entries, [seq |-> old.seq + 1, key |-> key]) IN
      /\ new \in Rings /\ new.seq = old.seq + 1 /\ new.epoch = old.epoch /\ new.kind = old.kind
      /\ \/ new.entries = old.entries /\ Capacity(old.kind) = 0
         \/ new.entries = kept /\ Len(kept) <= Capacity(old.kind)
         \/ new.entries = Tail(kept)
  BY <1>1, <1>2, <1>3, PublishInParts DEF old
<1>5. new # NoRing
  <2>1. new.kind \in Published BY <1>4, RingParts
  <2> QED BY <2>1 DEF NoRing, Published
<1>6. old.seq = ring[k].seq /\ old.entries = ring[k].entries BY <1>2 DEF old
<1>7. LET kept == Append(ring[k].entries, [seq |-> ring[k].seq + 1, key |-> key]) IN
      /\ new \in Rings /\ new # NoRing /\ new.seq = ring[k].seq + 1 /\ new.epoch = old.epoch /\ new.kind = old.kind
      /\ \/ new.entries = ring[k].entries /\ Capacity(old.kind) = 0
         \/ new.entries = kept /\ Len(kept) <= Capacity(old.kind)
         \/ new.entries = Tail(kept)
  BY <1>4, <1>5, <1>6
<1> QED BY <1>7 DEF old, new

\* An eviction takes the oldest entry and leaves the rest of the ring alone.
LEMMA EvictOldestParts ==
  ASSUME NEW r \in Rings \cup {NoRing}, r.entries # <<>>
  PROVE  /\ EvictOldest(r) \in Rings /\ r \in Rings /\ EvictOldest(r) # NoRing
         /\ EvictOldest(r).entries = Tail(r.entries) /\ EvictOldest(r).seq = r.seq
         /\ EvictOldest(r).epoch = r.epoch /\ EvictOldest(r).kind = r.kind /\ EvictOldest(r).touched = r.touched
         /\ Len(EvictOldest(r).entries) = Len(r.entries) - 1
<1>1. r \in Rings BY DEF NoRing
<1>2. EvictOldest(r) \in Rings BY EvictOldestType
<1> DEFINE t == Tail(r.entries)
<1>3. EvictOldest(r) = [r EXCEPT !.entries = t] BY DEF EvictOldest
<1>4. t \in Seq(Entries) /\ Len(t) = Len(r.entries) - 1 BY <1>1, RingParts
<1> HIDE DEF t
<1>5. LET e == [r EXCEPT !.entries = t] IN
      e.entries = t /\ e.seq = r.seq /\ e.epoch = r.epoch /\ e.kind = r.kind /\ e.touched = r.touched
  BY <1>1 DEF Rings
<1>6. EvictOldest(r) # NoRing
  <2>1. EvictOldest(r).kind \in Published BY <1>2, RingParts
  <2> QED BY <2>1 DEF NoRing, Published
<1> QED BY <1>1, <1>2, <1>3, <1>4, <1>5, <1>6 DEF t

\* The rings and their totals after a publish, before the budget is enforced.
RingsAfter(k, kind, key, victim) == [RingsWithout(victim) EXCEPT ![k] = NewerRing(k, kind, key)]
FramesAfter(k, kind, key, victim) ==
  [FramesWithout(victim) EXCEPT ![k[1]] = @ + Len(NewerRing(k, kind, key).entries) - Len(ring[k].entries)]

\* What enforce_ring_budget leaves of an account's rings: all, or all but one entry.
Settled(a, rings, frames) ==
  \/ /\ frames[a] <= AccountRingFrames
     /\ ring' = rings /\ ringFrames' = frames
  \/ \E r \in Streams :
       /\ r[1] = a /\ rings[r].entries # <<>>
       /\ ring' = [rings EXCEPT ![r] = EvictOldest(@)]
       /\ ringFrames' = [frames EXCEPT ![a] = @ - 1]

\* A publish, in terms of the ring it adds to: the rings after it, and whichever of
\* them gave up its oldest entry for the budget.
LEMMA PublishToParts ==
  ASSUME IInv, NEW c, NEW k \in Streams, NEW kind \in Published,
         NEW key \in Keys \cup {NoKey}, NEW victim \in Evictable(k),
         PublishTo(c, k, kind, key, victim)
  PROVE  /\ streams' = StreamsWith(k, victim) /\ clock' = clock + 1 /\ subscribers' = subscribers
         /\ nextEpoch' = IF ring[k] = NoRing THEN nextEpoch + 1 ELSE nextEpoch
         /\ published' = [published EXCEPT ![k] = IF ring[k] = NoRing THEN <<key>> ELSE Append(@, key)]
         /\ Deliver(out, subscribers[k], Envelope(k, kind, key), {}, {})
         /\ RingsAfter(k, kind, key, victim) \in [Streams -> Rings \cup {NoRing}]
         /\ FramesAfter(k, kind, key, victim) \in [Accounts -> Int]
         /\ Settled(k[1], RingsAfter(k, kind, key, victim),
                    FramesAfter(k, kind, key, victim))
<1> DEFINE old == OldRing(k, kind)
           new == NewerRing(k, kind, key)
           rings == [RingsWithout(victim) EXCEPT ![k] = new]
           frames == [FramesWithout(victim) EXCEPT ![k[1]] = @ + Len(new.entries) - Len(ring[k].entries)]
<1>1. TypeOK /\ k[1] \in Accounts BY StreamParts DEF IInv
<1>2. /\ RingsWithout(victim)[k] = ring[k] /\ RingsWithout(victim) \in [Streams -> Rings \cup {NoRing}]
      /\ FramesWithout(victim) \in [Accounts -> Int]
  BY <1>1, EvictableParts
<1>3. old.entries = ring[k].entries BY <1>1, OldRingParts
<1>4. new \in Rings BY <1>1, NewerRingParts
<1>5. old = IF RingsWithout(victim)[k] = NoRing THEN NewRing(kind, nextEpoch, clock + 1) ELSE RingsWithout(victim)[k]
  BY <1>2 DEF OldRing
<1>6. new = PublishIn(old, key, clock + 1) BY DEF NewerRing
<1>7. /\ streams' = StreamsWith(k, victim) /\ clock' = clock + 1 /\ subscribers' = subscribers
      /\ nextEpoch' = IF ring[k] = NoRing THEN nextEpoch + 1 ELSE nextEpoch
      /\ published' = [published EXCEPT ![k] = IF ring[k] = NoRing THEN <<key>> ELSE Append(@, key)]
  BY <1>2 DEF PublishTo
<1>8. Deliver(out, subscribers[k], Envelope(k, kind, key), {}, {})
  BY <1>5, <1>6 DEF PublishTo, Envelope
<1>9. \E r \in OverBudget(rings, frames, k[1]) :
        IF r = NoStream THEN ring' = rings /\ ringFrames' = frames
        ELSE /\ ring' = [rings EXCEPT ![r] = EvictOldest(@)]
             /\ ringFrames' = [frames EXCEPT ![k[1]] = @ - 1]
  <2>1. \E r \in OverBudget([RingsWithout(victim) EXCEPT ![k] = new],
                            [FramesWithout(victim) EXCEPT ![k[1]] = @ + Len(new.entries) - Len(old.entries)], k[1]) :
        IF r = NoStream THEN /\ ring' = [RingsWithout(victim) EXCEPT ![k] = new]
                             /\ ringFrames' = [FramesWithout(victim) EXCEPT ![k[1]] = @ + Len(new.entries) - Len(old.entries)]
        ELSE /\ ring' = [[RingsWithout(victim) EXCEPT ![k] = new] EXCEPT ![r] = EvictOldest(@)]
             /\ ringFrames' = [[FramesWithout(victim) EXCEPT ![k[1]] = @ + Len(new.entries) - Len(old.entries)]
                                 EXCEPT ![k[1]] = @ - 1]
    BY <1>5, <1>6 DEF PublishTo
  <2> HIDE DEF new, old
  <2> QED BY <1>3, <2>1
<1>10. rings \in [Streams -> Rings \cup {NoRing}] BY <1>2, <1>4
<1>11. frames \in [Accounts -> Int]
  <2>1. Len(new.entries) \in Nat /\ Len(ring[k].entries) \in Nat
    <3>1. ring[k] \in Rings \cup {NoRing} BY <1>1 DEF TypeOK
    <3> HIDE DEF new
    <3> QED BY <1>4, <3>1, RingOrNone
  <2>2. ASSUME NEW f \in Int, NEW n \in Nat, NEW o \in Nat PROVE f + n - o \in Int OBVIOUS
  <2>3. FramesWithout(victim)[k[1]] + Len(new.entries) - Len(ring[k].entries) \in Int
    <3> HIDE DEF new
    <3> QED BY <1>1, <1>2, <2>1, <2>2
  <2> HIDE DEF new
  <2> QED BY <1>1, <1>2, <2>3
<1> HIDE DEF rings, frames, new, old
<1>12. PICK r \in OverBudget(rings, frames, k[1]) :
        IF r = NoStream THEN ring' = rings /\ ringFrames' = frames
        ELSE /\ ring' = [rings EXCEPT ![r] = EvictOldest(@)]
             /\ ringFrames' = [frames EXCEPT ![k[1]] = @ - 1]
  BY <1>9
<1>13. \/ frames[k[1]] <= AccountRingFrames /\ ring' = rings /\ ringFrames' = frames
       \/ \E s \in Streams :
            /\ s[1] = k[1] /\ rings[s].entries # <<>>
            /\ ring' = [rings EXCEPT ![s] = EvictOldest(@)]
            /\ ringFrames' = [frames EXCEPT ![k[1]] = @ - 1]
  <2>1. CASE frames[k[1]] <= AccountRingFrames
    <3>1. r = NoStream BY <1>12, <2>1 DEF OverBudget
    <3> QED BY <1>12, <2>1, <3>1
  <2>2. CASE ~(frames[k[1]] <= AccountRingFrames)
    <3>1. r \in Streams /\ r[1] = k[1] /\ rings[r].entries # <<>> BY <1>12, <2>2 DEF OverBudget
    <3>2. r # NoStream BY <3>1, NoStreamIsNone
    <3> QED BY <1>12, <3>1, <3>2
  <2> QED BY <2>1, <2>2
<1>14. rings = RingsAfter(k, kind, key, victim) /\ frames = FramesAfter(k, kind, key, victim)
  BY DEF rings, frames, new, RingsAfter, FramesAfter
<1>15. Settled(k[1], rings, frames) BY <1>13 DEF Settled
<1> QED BY <1>7, <1>8, <1>10, <1>11, <1>14, <1>15

\* Streams are finitely many, and so are the places of their rings.
LEMMA StreamsFinite == IsFiniteSet(Streams)
<1> DEFINE AP == Accounts \X Principals
           f == [x \in AP \X Channels |-> <<x[1][1], x[1][2], x[2]>>]
<1>1. IsFiniteSet(AP) BY FinitelyMany, FS_Product
<1>2. IsFiniteSet(AP \X Channels) BY <1>1, FinitelyMany, FS_Product
<1>3. f \in [AP \X Channels -> Streams] BY DEF Streams
<1>4. ASSUME NEW k \in Streams PROVE \E x \in AP \X Channels : f[x] = k
  <2>1. k[1] \in Accounts /\ k[2] \in Principals /\ k[3] \in Channels /\ k = <<k[1], k[2], k[3]>> BY DEF Streams
  <2>2. <<<<k[1], k[2]>>, k[3]>> \in AP \X Channels BY <2>1
  <2>3. f[<<<<k[1], k[2]>>, k[3]>>] = k BY <2>1, <2>2
  <2> QED BY <2>2, <2>3
<1>5. f \in Surjection(AP \X Channels, Streams) BY <1>3, <1>4 DEF Surjection
<1> QED BY <1>2, <1>5, FS_Surjection

Lens(rings) == [k \in Streams |-> Len(rings[k].entries)]
Cells(l, a) == {e \in Streams \X (1..MaxPublish) : e[1][1] = a /\ e[2] <= l[e[1]]}

\* A ring that grows or shrinks by so many entries adds or takes as many to its account's.
LEMMA CellsMove ==
  ASSUME NEW l \in [Streams -> 0..MaxPublish], NEW k \in Streams, NEW n \in 0..MaxPublish, NEW a \in Accounts
  PROVE  /\ Cardinality(Cells(l, a)) \in Nat
         /\ k[1] = a => Cardinality(Cells([l EXCEPT ![k] = n], a)) = Cardinality(Cells(l, a)) + n - l[k]
         /\ k[1] # a => Cardinality(Cells([l EXCEPT ![k] = n], a)) = Cardinality(Cells(l, a))
<1> DEFINE m == [l EXCEPT ![k] = n]
           rest == {e \in Cells(l, a) : e[1] # k}
           Column(x) == {k} \X (1..x)
<1>0. MaxPublish \in Nat BY BoundsAreNaturals
<1>1. IsFiniteSet(Streams \X (1..MaxPublish))
  <2>1. IsFiniteSet(1..MaxPublish) BY <1>0, FS_Interval
  <2> QED BY <2>1, StreamsFinite, FS_Product
<1>2. IsFiniteSet(Cells(l, a)) BY <1>1, FS_Subset DEF Cells
<1>3. IsFiniteSet(rest) BY <1>2, FS_Subset
<1>4. ASSUME NEW x \in 0..MaxPublish PROVE IsFiniteSet(Column(x)) /\ Cardinality(Column(x)) = x
  <2>0. x \in Int /\ x \in Nat /\ 1 \in Int BY <1>0
  <2>1. IsFiniteSet(1..x) /\ Cardinality(1..x) = IF 1 > x THEN 0 ELSE x - 1 + 1 BY ONLY <2>0, FS_Interval
  <2>2. IsFiniteSet({k}) /\ Cardinality({k}) = 1 BY FS_Singleton
  <2>3. IsFiniteSet(Column(x)) /\ Cardinality(Column(x)) = 1 * Cardinality(1..x) BY <2>1, <2>2, FS_Product
  <2> HIDE DEF Column
  <2> QED BY <2>0, <2>1, <2>3
<1>5. CASE k[1] # a
  <2>1. Cells(m, a) = Cells(l, a) BY <1>5 DEF Cells
  <2> QED BY <1>2, <1>5, <2>1, FS_CardinalityType
<1>6. CASE k[1] = a
  <2>1. Cells(l, a) = rest \cup Column(l[k]) BY <1>0, <1>6 DEF Cells
  <2>2. Cells(m, a) = rest \cup Column(n) BY <1>0, <1>6 DEF Cells
  <2>3. \A x \in 0..MaxPublish : rest \cap Column(x) = {} OBVIOUS
  <2>4. ASSUME NEW x \in 0..MaxPublish PROVE Cardinality(rest \cup Column(x)) = Cardinality(rest) + x
    <3>1. Cardinality(rest \cup Column(x)) = Cardinality(rest) + Cardinality(Column(x)) - Cardinality(rest \cap Column(x))
      BY <1>3, <1>4, FS_Union
    <3>2. Cardinality(rest \cap Column(x)) = 0 BY <2>3, FS_EmptySet
    <3>3. Cardinality(Column(x)) = x /\ Cardinality(rest) \in Nat /\ x \in Nat BY <1>0, <1>3, <1>4, FS_CardinalityType
    <3> HIDE DEF rest, Column
    <3> QED BY <3>1, <3>2, <3>3
  <2>5. l[k] \in 0..MaxPublish OBVIOUS
  <2>6. Cardinality(Cells(l, a)) = Cardinality(rest) + l[k] BY <2>1, <2>4, <2>5
  <2>7. Cardinality(Cells(m, a)) = Cardinality(rest) + n BY <2>2, <2>4
  <2>8. Cardinality(rest) \in Nat BY <1>3, FS_CardinalityType
  <2> HIDE DEF rest, m, Column
  <2>9. Cardinality(Cells(m, a)) = Cardinality(Cells(l, a)) + n - l[k] /\ Cardinality(Cells(l, a)) \in Nat
    BY <1>0, <2>5, <2>6, <2>7, <2>8
  <2> QED BY <1>6, <2>9 DEF m
<1> QED BY <1>5, <1>6

\* The totals kept per account are those of the rings.
Totalled(rings, frames) ==
  \A a \in Accounts : frames[a] = Cardinality(Cells(Lens(rings), a))

\* Every entry of a ring has the seq of its place, the newest the ring's own.
Consecutive(r) == \A i \in DOMAIN r.entries : r.entries[i].seq = r.seq - Len(r.entries) + i

LEMMA TotalsMove ==
  ASSUME NEW rings \in [Streams -> Rings \cup {NoRing}], NEW frames \in [Accounts -> Int],
         \A j \in Streams : Len(rings[j].entries) <= MaxPublish, Totalled(rings, frames),
         NEW k \in Streams, NEW r \in Rings \cup {NoRing}, Len(r.entries) <= MaxPublish
  PROVE  Totalled([rings EXCEPT ![k] = r],
                  [frames EXCEPT ![k[1]] = @ + Len(r.entries) - Len(rings[k].entries)])
<1> DEFINE l == Lens(rings)
           n == Len(r.entries)
           after == [rings EXCEPT ![k] = r]
<1>1. MaxPublish \in Nat /\ k[1] \in Accounts BY BoundsAreNaturals, StreamParts
<1>2. \A j \in Streams : Len(rings[j].entries) \in Nat BY RingOrNone
<1>3. l \in [Streams -> 0..MaxPublish] BY <1>1, <1>2 DEF Lens
<1>4. n \in 0..MaxPublish BY <1>1, RingOrNone
<1>5. Lens(after) = [l EXCEPT ![k] = n] BY DEF Lens
<1>6. l[k] = Len(rings[k].entries) BY DEF Lens
<1> HIDE DEF l, n, after
<1>7. ASSUME NEW a \in Accounts
      PROVE  [frames EXCEPT ![k[1]] = @ + n - l[k]][a] = Cardinality(Cells(Lens(after), a))
  <2>1. frames[a] = Cardinality(Cells(l, a)) BY DEF Totalled, l
  <2>2. /\ Cardinality(Cells(l, a)) \in Nat
        /\ k[1] = a => Cardinality(Cells([l EXCEPT ![k] = n], a)) = Cardinality(Cells(l, a)) + n - l[k]
        /\ k[1] # a => Cardinality(Cells([l EXCEPT ![k] = n], a)) = Cardinality(Cells(l, a))
    BY <1>3, <1>4, CellsMove, ZenonT(60)
  <2> QED BY <1>1, <1>5, <2>1, <2>2
<1> QED BY <1>6, <1>7 DEF Totalled, n, after

\* A ring within its capacity, of the unbroken end of what it was given.
Retains(r, last) ==
  /\ Consecutive(r) /\ Len(r.entries) <= r.seq /\ r.seq <= last
  /\ r # NoRing => Len(r.entries) <= Capacity(r.kind)

RingsKept ==
  /\ \A k \in Streams : Retains(ring[k], clock)
  /\ Totalled(ring, ringFrames)
  /\ \A a \in Accounts : ringFrames[a] <= AccountRingFrames

\* The newest entry joins the end, at the cost of the oldest.
LEMMA NewerRetains ==
  ASSUME TypeOK, NEW k \in Streams, NEW kind \in Published, NEW key \in Keys \cup {NoKey}, Retains(ring[k], clock)
  PROVE  /\ Retains(NewerRing(k, kind, key), clock + 1)
         /\ Len(NewerRing(k, kind, key).entries) <= Len(ring[k].entries) + 1
<1> DEFINE old == OldRing(k, kind)
           new == NewerRing(k, kind, key)
           e == [seq |-> ring[k].seq + 1, key |-> key]
           s == ring[k].entries
           kept == Append(s, e)
<1> SUFFICES Retains(new, clock + 1) /\ Len(new.entries) <= Len(s) + 1 OBVIOUS
<1>1. /\ new \in Rings /\ new # NoRing
      /\ new.seq = ring[k].seq + 1 /\ new.epoch = old.epoch /\ new.kind = old.kind
      /\ \/ new.entries = s /\ Capacity(old.kind) = 0
         \/ new.entries = kept /\ Len(kept) <= Capacity(old.kind)
         \/ new.entries = Tail(kept)
  BY NewerRingParts
<1>2. ring[k] \in Rings \cup {NoRing} /\ clock \in Nat BY BoundsAreNaturals DEF TypeOK
<1>3. s \in Seq(Entries) /\ ring[k].seq \in Nat /\ Len(s) \in Nat /\ DOMAIN s = 1..Len(s)
      /\ (ring[k] = NoRing => Len(s) = 0)
  BY <1>2, RingOrNone
<1>4. e \in Entries /\ e.seq = ring[k].seq + 1 BY <1>3 DEF Entries
<1>5. ring[k] # NoRing => old.kind = ring[k].kind BY OldRingParts
<1>6. Capacity(old.kind) \in Nat BY LimitsAreNaturals DEF Capacity
<1>7. Len(s) <= Capacity(old.kind) BY <1>3, <1>5, <1>6 DEF Retains
<1>8. /\ \A i \in 1..Len(s) : s[i].seq = ring[k].seq - Len(s) + i
      /\ Len(s) <= ring[k].seq /\ ring[k].seq <= clock
  BY <1>3 DEF Retains, Consecutive
<1>9. \A i \in 1..Len(s) : s[i].seq \in Nat
  <2>1. \A i \in 1..Len(s) : s[i] \in Entries BY <1>3
  <2> QED BY <2>1 DEF Entries
<1> HIDE DEF new, old, e, s
<1>10. /\ kept \in Seq(Entries) /\ Len(kept) = Len(s) + 1 /\ kept[Len(s) + 1] = e
       /\ \A i \in 1..Len(s) : kept[i] = s[i]
  BY <1>3, <1>4
<1>11. \A i \in 1..Len(kept) : kept[i].seq = new.seq - Len(kept) + i
  <2> SUFFICES ASSUME NEW i \in 1..Len(kept) PROVE kept[i].seq = new.seq - Len(kept) + i OBVIOUS
  <2> HIDE DEF kept
  <2>1. CASE i \in 1..Len(s) BY <1>1, <1>3, <1>8, <1>9, <1>10, <2>1
  <2>2. CASE i = Len(s) + 1 BY <1>1, <1>3, <1>4, <1>10, <2>2
  <2> QED BY <1>3, <1>10, <2>1, <2>2
<1>12. /\ Tail(kept) \in Seq(Entries) /\ Len(Tail(kept)) = Len(s)
       /\ \A i \in 1..Len(s) : Tail(kept)[i] = kept[i + 1]
  <2> HIDE DEF kept
  <2> QED BY <1>3, <1>10
<1> DEFINE tail == Tail(kept)
<1>13. \A i \in 1..Len(tail) : tail[i].seq = new.seq - Len(tail) + i
  <2> SUFFICES ASSUME NEW i \in 1..Len(tail) PROVE tail[i].seq = new.seq - Len(tail) + i OBVIOUS
  <2> HIDE DEF kept, tail
  <2>1. i + 1 \in 1..Len(kept) /\ tail[i] = kept[i + 1] BY <1>3, <1>10, <1>12 DEF tail
  <2>2. kept[i + 1].seq = new.seq - Len(kept) + (i + 1) BY <1>11, <2>1
  <2>3. new.seq \in Nat /\ Len(kept) = Len(s) + 1 /\ Len(tail) = Len(s) /\ i \in Nat
    BY <1>1, <1>3, <1>10, <1>12 DEF tail
  <2> QED BY <1>3, <2>1, <2>2, <2>3
<1>14. CASE new.entries = s /\ Capacity(old.kind) = 0
  <2>1. Len(s) = 0 BY <1>3, <1>7, <1>14
  <2> QED BY <1>1, <1>2, <1>3, <1>6, <1>8, <1>14, <2>1 DEF Retains, Consecutive
<1>15. CASE new.entries = kept /\ Len(kept) <= Capacity(old.kind)
  <2>1. DOMAIN kept = 1..Len(kept) BY <1>10
  <2> HIDE DEF kept, tail
  <2>2. Consecutive(new) BY <1>11, <1>15, <2>1 DEF Consecutive
  <2> QED BY <1>1, <1>2, <1>3, <1>6, <1>8, <1>10, <1>15, <2>2 DEF Retains
<1>16. CASE new.entries = tail
  <2>1. DOMAIN tail = 1..Len(tail) BY <1>12
  <2> HIDE DEF kept
  <2>2. Len(tail) = Len(s) BY <1>12
  <2> HIDE DEF tail
  <2>3. Consecutive(new) BY <1>13, <1>16, <2>1 DEF Consecutive
  <2> QED BY <1>1, <1>2, <1>3, <1>6, <1>7, <1>8, <1>16, <2>2, <2>3 DEF Retains
<1> QED BY <1>1, <1>14, <1>15, <1>16

\* Giving up the oldest entry leaves an unbroken end.
LEMMA EvictRetains ==
  ASSUME NEW r \in Rings \cup {NoRing}, r.entries # <<>>, NEW last \in Nat, Retains(r, last)
  PROVE  Retains(EvictOldest(r), last)
<1> DEFINE v == EvictOldest(r)
           s == r.entries
<1>1. /\ v \in Rings /\ v # NoRing /\ r \in Rings
      /\ v.entries = Tail(s) /\ v.seq = r.seq /\ v.kind = r.kind
  BY EvictOldestParts
<1>2. r # NoRing BY <1>1, RingOrNone, RingParts
<1>3. s \in Seq(Entries) /\ Len(s) \in Nat /\ DOMAIN s = 1..Len(s) /\ r.seq \in Nat /\ s # <<>> BY RingOrNone
<1>4. Capacity(r.kind) \in Nat BY LimitsAreNaturals DEF Capacity
<1>5. \A i \in 1..Len(s) : s[i].seq = r.seq - Len(s) + i BY <1>3 DEF Retains, Consecutive
<1>6. Len(s) <= r.seq /\ r.seq <= last /\ Len(s) <= Capacity(r.kind) BY <1>2 DEF Retains
<1> HIDE DEF s, v
<1>7. Tail(s) \in Seq(Entries) /\ Len(Tail(s)) = Len(s) - 1 /\ \A i \in 1..(Len(s) - 1) : Tail(s)[i] = s[i + 1]
  BY <1>3
<1> DEFINE t == Tail(s)
<1>8. DOMAIN t = 1..Len(t) /\ Len(t) = Len(s) - 1 /\ Len(t) \in Nat BY <1>3, <1>7
<1>9. \A i \in 1..Len(t) : t[i].seq = r.seq - Len(t) + i
  <2> SUFFICES ASSUME NEW i \in 1..Len(t) PROVE t[i].seq = r.seq - Len(t) + i OBVIOUS
  <2>1. i + 1 \in 1..Len(s) /\ t[i] = s[i + 1] BY <1>3, <1>7, <1>8
  <2> HIDE DEF t
  <2>2. s[i + 1].seq = r.seq - Len(s) + (i + 1) BY <1>5, <2>1
  <2> QED BY <1>3, <1>8, <2>1, <2>2
<1> HIDE DEF t
<1>10. v.entries = t BY <1>1 DEF t
<1>11. Consecutive(v) BY <1>1, <1>8, <1>9, <1>10 DEF Consecutive
<1>12. Retains(v, last) BY <1>1, <1>3, <1>4, <1>6, <1>8, <1>10, <1>11 DEF Retains
<1> QED BY <1>12 DEF v

\* Without the stream that made room.
LEMMA WithoutVictim ==
  ASSUME IInv, RingsKept, NEW k \in Streams, NEW victim \in Evictable(k)
  PROVE  /\ Totalled(RingsWithout(victim), FramesWithout(victim))
         /\ \A a \in Accounts : FramesWithout(victim)[a] <= AccountRingFrames
         /\ \A j \in Streams : /\ Retains(RingsWithout(victim)[j], clock)
                               /\ RingsWithout(victim)[j] = IF j = victim THEN NoRing ELSE ring[j]
         /\ \A j \in Streams : Len(RingsWithout(victim)[j].entries) <= MaxPublish
<1>1. TypeOK BY DEF IInv
<1>2. /\ ring \in [Streams -> Rings \cup {NoRing}] /\ ringFrames \in [Accounts -> Int] /\ clock \in 0..MaxPublish
      /\ MaxPublish \in Nat /\ streams \subseteq Streams
  BY <1>1, BoundsAreNaturals DEF TypeOK
<1>3. RingsWithout(victim) \in [Streams -> Rings \cup {NoRing}] BY <1>1, EvictableParts
<1>4. NoRing.entries = <<>> /\ Len(NoRing.entries) = 0 /\ NoRing.seq = 0 BY DEF NoRing
<1>5. Retains(NoRing, clock) BY <1>2, <1>4 DEF Retains, Consecutive
<1>6. \A j \in Streams : /\ Retains(RingsWithout(victim)[j], clock)
                         /\ RingsWithout(victim)[j] = IF j = victim THEN NoRing ELSE ring[j]
  BY <1>5 DEF RingsWithout, RingsKept
<1>7. ASSUME NEW r \in Rings \cup {NoRing}, Retains(r, clock) PROVE Len(r.entries) <= MaxPublish
  <2>1. Len(r.entries) \in Nat /\ r.seq \in Nat BY RingOrNone
  <2> QED BY <1>2, <1>7, <2>1 DEF Retains
<1>8. \A j \in Streams : Len(RingsWithout(victim)[j].entries) <= MaxPublish BY <1>3, <1>6, <1>7
<1>9. \A j \in Streams : Len(ring[j].entries) <= MaxPublish BY <1>2, <1>7 DEF RingsKept
<1>10. CASE victim = NoStream
  <2>1. RingsWithout(victim) = ring BY <1>2, <1>10, NoStreamIsNone DEF RingsWithout
  <2>2. FramesWithout(victim) = ringFrames BY <1>2, <1>10 DEF FramesWithout
  <2> QED BY <1>6, <1>8, <2>1, <2>2 DEF RingsKept
<1>11. CASE victim # NoStream
  <2>1. victim \in Streams BY <1>1, <1>2, <1>11, EvictableParts
  <2>2. victim[1] \in Accounts BY <2>1, StreamParts
  <2>3. Len(ring[victim].entries) \in Nat BY <1>2, <2>1, RingOrNone
  <2>4. RingsWithout(victim) = [ring EXCEPT ![victim] = NoRing] BY <1>2, <2>1 DEF RingsWithout
  <2>5. Totalled([ring EXCEPT ![victim] = NoRing],
                 [ringFrames EXCEPT ![victim[1]] = @ + Len(NoRing.entries) - Len(ring[victim].entries)])
    <3>1. NoRing \in Rings \cup {NoRing} /\ Len(NoRing.entries) <= MaxPublish BY <1>2, <1>4
    <3>2. Totalled(ring, ringFrames) BY DEF RingsKept
    <3> QED BY <1>2, <1>9, <2>1, <3>1, <3>2, TotalsMove
  <2>6. [ringFrames EXCEPT ![victim[1]] = @ + Len(NoRing.entries) - Len(ring[victim].entries)] = FramesWithout(victim)
    <3> DEFINE n == Len(ring[victim].entries)
               f == [ringFrames EXCEPT ![victim[1]] = @ + 0 - n]
    <3>1. FramesWithout(victim) = [a \in Accounts |-> IF victim[1] = a THEN ringFrames[a] - n ELSE ringFrames[a]]
      BY <1>11 DEF FramesWithout
    <3>2. n \in Nat BY <2>3
    <3> HIDE DEF n
    <3>3. \A a \in Accounts : f[a] = IF victim[1] = a THEN ringFrames[a] - n ELSE ringFrames[a]
      BY <1>2, <2>2, <3>2
    <3>4. f = [a \in Accounts |-> f[a]] BY <1>2
    <3>5. f = FramesWithout(victim) BY <3>1, <3>3, <3>4
    <3> QED BY <1>4, <3>5 DEF n
  <2>7. \A a \in Accounts : FramesWithout(victim)[a] <= AccountRingFrames
    BY <1>2, <1>11, <2>3, LimitsAreNaturals DEF FramesWithout, RingsKept
  <2> QED BY <1>6, <1>8, <2>4, <2>5, <2>6, <2>7
<1> QED BY <1>10, <1>11

LEMMA PublishRings ==
  ASSUME IInv, RingsKept, NEW c, NEW k \in Streams, NEW kind \in Published, NEW key \in Keys \cup {NoKey},
         NEW victim \in Evictable(k), clock < MaxPublish, PublishTo(c, k, kind, key, victim)
  PROVE  RingsKept'
<1> DEFINE new    == NewerRing(k, kind, key)
           without == RingsWithout(victim)
           fewer  == FramesWithout(victim)
           rings  == RingsAfter(k, kind, key, victim)
           frames == FramesAfter(k, kind, key, victim)
           n == Len(new.entries)
           o == Len(ring[k].entries)
<1>1. TypeOK /\ k[1] \in Accounts BY StreamParts DEF IInv
<1>2. clock \in Nat /\ MaxPublish \in Nat /\ clock' = clock + 1 /\ clock + 1 <= MaxPublish
  <2>1. clock \in Nat /\ MaxPublish \in Nat BY <1>1, BoundsAreNaturals DEF TypeOK
  <2>2. clock' = clock + 1 BY PublishToParts, Zenon
  <2> QED BY <2>1, <2>2
<1>3. /\ rings \in [Streams -> Rings \cup {NoRing}] /\ frames \in [Accounts -> Int]
      /\ \/ /\ frames[k[1]] <= AccountRingFrames
            /\ ring' = rings /\ ringFrames' = frames
         \/ \E r \in Streams :
              /\ r[1] = k[1] /\ rings[r].entries # <<>>
              /\ ring' = [rings EXCEPT ![r] = EvictOldest(@)]
              /\ ringFrames' = [frames EXCEPT ![k[1]] = @ - 1]
  <2>1. rings \in [Streams -> Rings \cup {NoRing}] /\ frames \in [Accounts -> Int]
    BY PublishToParts, Zenon
  <2>2. Settled(k[1], rings, frames) BY PublishToParts, Zenon
  <2> HIDE DEF rings, frames
  <2> QED BY <2>1, <2>2 DEF Settled
<1>4. without \in [Streams -> Rings \cup {NoRing}] /\ fewer \in [Accounts -> Int] /\ without[k] = ring[k]
  BY <1>1, EvictableParts
<1>5. /\ Totalled(without, fewer)
      /\ \A a \in Accounts : fewer[a] <= AccountRingFrames
      /\ \A j \in Streams : Retains(without[j], clock) /\ Len(without[j].entries) <= MaxPublish
  BY WithoutVictim
<1>6. Retains(new, clock + 1) /\ n <= o + 1 /\ new \in Rings
  BY <1>1, NewerRetains, NewerRingParts DEF RingsKept
<1>7. n \in Nat /\ o \in Nat /\ new.seq \in Nat
  <2>1. ring[k] \in Rings \cup {NoRing} BY <1>1 DEF TypeOK
  <2> HIDE DEF new
  <2> QED BY <1>6, <2>1, RingOrNone, RingParts
<1>8. rings = [without EXCEPT ![k] = new] /\ frames = [fewer EXCEPT ![k[1]] = @ + n - o]
  BY DEF RingsAfter, FramesAfter
<1> HIDE DEF new, without, fewer, rings, frames
<1>9. n <= MaxPublish BY <1>2, <1>6, <1>7 DEF Retains
<1>10. Totalled(rings, frames)
  <2>1. Totalled([without EXCEPT ![k] = new],
                 [fewer EXCEPT ![k[1]] = @ + Len(new.entries) - Len(without[k].entries)])
    BY <1>4, <1>5, <1>6, <1>9, TotalsMove
  <2> QED BY <1>4, <1>8, <2>1
<1>11. ASSUME NEW r, r.seq \in Nat, Retains(r, clock) PROVE Retains(r, clock + 1)
  BY <1>2, <1>11 DEF Retains
<1>12. \A j \in Streams : without[j].seq \in Nat /\ rings[j].seq \in Nat BY <1>3, <1>4, RingOrNone
<1>13. \A j \in Streams : Retains(rings[j], clock + 1)
  BY <1>4, <1>5, <1>6, <1>8, <1>11, <1>12
<1>14. \A j \in Streams : Len(rings[j].entries) <= MaxPublish BY <1>4, <1>5, <1>8, <1>9
<1>15. \A a \in Accounts : fewer[a] \in Int /\ AccountRingFrames \in Nat BY <1>4, LimitsAreNaturals
<1>16. (\A a \in Accounts : a # k[1] => frames[a] <= AccountRingFrames) /\ frames[k[1]] <= AccountRingFrames + 1
  <2>1. \A a \in Accounts : a # k[1] => frames[a] = fewer[a] BY <1>4, <1>8
  <2>2. frames[k[1]] = fewer[k[1]] + n - o BY <1>1, <1>4, <1>8
  <2> HIDE DEF n, o
  <2> QED BY <1>1, <1>5, <1>6, <1>7, <1>15, <2>1, <2>2
<1>17. CASE frames[k[1]] <= AccountRingFrames /\ ring' = rings /\ ringFrames' = frames
  BY <1>2, <1>10, <1>13, <1>16, <1>17 DEF RingsKept
<1>18. ASSUME NEW r \in Streams, r[1] = k[1], rings[r].entries # <<>>,
              ring' = [rings EXCEPT ![r] = EvictOldest(@)], ringFrames' = [frames EXCEPT ![k[1]] = @ - 1]
       PROVE  RingsKept'
  <2>1. EvictOldest(rings[r]) \in Rings /\ Len(EvictOldest(rings[r]).entries) = Len(rings[r].entries) - 1
    BY <1>3, <1>18, EvictOldestParts
  <2>2. Retains(EvictOldest(rings[r]), clock + 1) BY <1>2, <1>3, <1>13, <1>18, EvictRetains
  <2>3. \A j \in Streams : Retains(ring'[j], clock + 1) BY <1>3, <1>13, <1>18, <2>2
  <2>4. Len(rings[r].entries) \in Nat BY <1>3, RingOrNone
  <2>5. Totalled(ring', [frames EXCEPT ![r[1]] = @ + Len(EvictOldest(rings[r]).entries) - Len(rings[r].entries)])
    <3>1. Len(EvictOldest(rings[r]).entries) <= MaxPublish BY <1>2, <1>14, <2>1, <2>4
    <3> QED BY <1>3, <1>10, <1>14, <1>18, <2>1, <3>1, TotalsMove
  <2>6. [frames EXCEPT ![r[1]] = @ + Len(EvictOldest(rings[r]).entries) - Len(rings[r].entries)] = ringFrames'
    <3>1. frames[k[1]] \in Int BY <1>1, <1>3
    <3>2. frames[k[1]] + Len(EvictOldest(rings[r]).entries) - Len(rings[r].entries) = frames[k[1]] - 1
      BY <2>1, <2>4, <3>1
    <3> QED BY <1>18, <3>2
  <2>7. \A a \in Accounts : ringFrames'[a] <= AccountRingFrames
    BY <1>1, <1>3, <1>15, <1>16, <1>18
  <2> QED BY <1>2, <2>3, <2>5, <2>6, <2>7 DEF RingsKept
<1> QED BY <1>3, <1>17, <1>18

-----------------------------------------------------------------------------
\* Every ring and every account has a use.
KeepInv == IInv /\ NothingLeftBehind /\ RingsKept

LEMMA InitKeep == Init => KeepInv
<1> SUFFICES ASSUME Init PROVE KeepInv OBVIOUS
<1>1. IInv BY InitInv
<1>2. /\ accounts = {} /\ conns = {} /\ streams = {} /\ clock = 0 /\ ring = [k \in Streams |-> NoRing]
      /\ subscribers = [k \in Streams |-> {}] /\ ringFrames = [a \in Accounts |-> 0]
  BY DEF Init
<1>3. NothingLeftBehind BY <1>2 DEF NothingLeftBehind, ConnsOf, StreamsOf
<1>4. NoRing.entries = <<>> /\ Len(NoRing.entries) = 0 /\ NoRing.seq = 0 BY DEF NoRing
<1>5. \A k \in Streams : Retains(ring[k], clock) BY <1>2, <1>4 DEF Retains, Consecutive
<1>6. Totalled(ring, ringFrames)
  <2>1. \A k \in Streams : Lens(ring)[k] = 0 BY <1>2, <1>4 DEF Lens
  <2>2. \A a \in Accounts : Cells(Lens(ring), a) = {} BY <2>1 DEF Cells
  <2> QED BY <1>2, <2>2, FS_EmptySet DEF Totalled
<1>7. \A a \in Accounts : ringFrames[a] <= AccountRingFrames BY <1>2, LimitsAreNaturals
<1> QED BY <1>1, <1>3, <1>5, <1>6, <1>7 DEF KeepInv, RingsKept

\* A step that leaves the streams and the connections alone.
LEMMA StreamsStay ==
  ASSUME NothingLeftBehind, RingsKept, UNCHANGED <<accounts, conns, peer, streamVars>>
  PROVE  NothingLeftBehind' /\ RingsKept'
<1>1. UNCHANGED <<accounts, conns, peer, streams, ring, subscribers, ringFrames, clock>> BY DEF streamVars
<1>2. NothingLeftBehind' BY <1>1 DEF NothingLeftBehind, ConnsOf, StreamsOf, AccountOf
<1>3. RingsKept' BY <1>1 DEF RingsKept
<1> QED BY <1>2, <1>3

\* A connect brings its account with it.
LEMMA ConnectKeeps ==
  ASSUME IInv, NothingLeftBehind, NEW a \in Accounts, NEW p \in Principals, Connect(a, p)
  PROVE  NothingLeftBehind'
<1>1. TypeOK BY DEF IInv
<1>2. /\ accounts' = accounts \cup {a} /\ conns' = conns \cup {nextConn}
      /\ peer' = [peer EXCEPT ![nextConn] = <<a, p>>]
      /\ UNCHANGED <<streams, ring, subscribers>> /\ nextConn \in Conns
  BY <1>1, BoundsAreNaturals DEF Connect, streamVars, TypeOK, Conns
<1>3. nextConn \notin conns /\ conns \subseteq Conns
  <2>1. nextConn \in Int /\ conns \subseteq Conns /\ \A c \in conns : c < nextConn
    BY <1>1, BoundsAreNaturals DEF TypeOK
  <2> QED BY <2>1
<1>4. DOMAIN peer = Conns BY <1>1 DEF TypeOK
<1>5. \A b \in Accounts : ConnsOf(b)' = IF a = b THEN ConnsOf(b) \cup {nextConn} ELSE ConnsOf(b)
  BY <1>2, <1>3, <1>4 DEF ConnsOf, AccountOf
<1>6. \A b \in Accounts : StreamsOf(b)' = StreamsOf(b) BY <1>2 DEF StreamsOf
<1> QED BY <1>2, <1>5, <1>6 DEF NothingLeftBehind

\* Whoever leaves takes along the streams only it kept, and its account with the last.
LEMMA ForgetKeeps ==
  ASSUME IInv, NothingLeftBehind, NEW c \in conns, Forget(c)
  PROVE  NothingLeftBehind'
<1> DEFINE a == AccountOf(c)
           others == ConnsOf(a) \ {c}
           left == streams \ Abandoned(c, subs[c])
<1>1. TypeOK /\ RegistryAgrees BY DEF IInv
<1>2. /\ conns' = conns \ {c} /\ streams' = left
      /\ subscribers' = [k \in Streams |-> IF k \in subs[c] THEN subscribers[k] \ {c} ELSE subscribers[k]]
      /\ accounts' = IF others = {} /\ ~\E k \in left : k[1] = a THEN accounts \ {a} ELSE accounts
      /\ UNCHANGED <<peer, ring>>
  BY DEF Forget
<1>3. c \in Conns /\ subs[c] \subseteq Streams /\ streams \subseteq Streams BY <1>1 DEF TypeOK
<1>4. \A k \in Streams : k \in streams' <=> (ring'[k] # NoRing \/ subscribers'[k] # {})
  <2> SUFFICES ASSUME NEW k \in Streams PROVE k \in streams' <=> (ring'[k] # NoRing \/ subscribers'[k] # {})
    OBVIOUS
  <2>1. k \in subs[c] <=> c \in subscribers[k] BY <1>1, <1>3 DEF RegistryAgrees
  <2>2. subscribers'[k] = subscribers[k] \ {c} BY <1>2, <2>1
  <2>3. k \in streams <=> (ring[k] # NoRing \/ subscribers[k] # {}) BY DEF NothingLeftBehind
  <2>4. k \in Abandoned(c, subs[c]) <=> k \in subs[c] /\ subscribers[k] \subseteq {c} /\ ring[k] = NoRing
    BY DEF Abandoned
  <2> HIDE DEF NothingLeftBehind
  <2>5. CASE k \in subs[c]
    BY <1>2, <2>1, <2>2, <2>3, <2>4, <2>5
  <2>6. CASE k \notin subs[c]
    BY <1>2, <2>1, <2>2, <2>3, <2>4, <2>6
  <2> QED BY <2>5, <2>6
<1>5. \A k \in Abandoned(c, subs[c]) : k[1] = a
  BY <1>1, <1>3 DEF Abandoned, RegistryAgrees
<1>6. a \in accounts BY <1>1 DEF RegistryAgrees
<1>7. \A b \in Accounts : ConnsOf(b)' = IF b = a THEN others ELSE ConnsOf(b)
  BY <1>2 DEF ConnsOf, AccountOf
<1>8. \A b \in Accounts : b # a => StreamsOf(b)' = StreamsOf(b)
  BY <1>2, <1>5 DEF StreamsOf
<1>9. StreamsOf(a)' # {} <=> \E k \in left : k[1] = a BY <1>2 DEF StreamsOf, AccountOf
<1>10. \A b \in Accounts : b \in accounts' <=> (ConnsOf(b)' # {} \/ StreamsOf(b)' # {})
  <2> SUFFICES ASSUME NEW b \in Accounts PROVE b \in accounts' <=> (ConnsOf(b)' # {} \/ StreamsOf(b)' # {})
    OBVIOUS
  <2>1. CASE b = a
    <3>1. StreamsOf(b)' # {} <=> \E k \in left : k[1] = a BY <1>9, <2>1, <1>2 DEF StreamsOf
    <3> QED BY <1>2, <1>6, <1>7, <2>1, <3>1
  <2>2. CASE b # a
    <3>1. b \in accounts <=> (ConnsOf(b) # {} \/ StreamsOf(b) # {}) BY DEF NothingLeftBehind
    <3> QED BY <1>2, <1>7, <1>8, <2>2, <3>1
  <2> QED BY <2>1, <2>2
<1> QED BY <1>4, <1>10 DEF NothingLeftBehind

\* Opening a stream at the cost of one nobody watches: c's account is held by c.
LEMMA OpenKeeps ==
  ASSUME IInv, NothingLeftBehind, NEW c \in conns, NEW k \in Streams, k[1] = AccountOf(c),
         NEW victim \in Evictable(k), streams' = StreamsWith(k, victim), UNCHANGED <<accounts, conns, peer>>,
         ring'[k] # NoRing \/ subscribers'[k] # {},
         victim \in Streams => ring'[victim] = NoRing /\ subscribers'[victim] = {},
         \A j \in Streams \ {k, victim} : /\ ring'[j] = NoRing <=> ring[j] = NoRing
                                          /\ subscribers'[j] = subscribers[j]
  PROVE  NothingLeftBehind'
<1>1. TypeOK /\ RegistryAgrees BY DEF IInv
<1>2. victim # k BY <1>1, EvictableParts
<1>3. victim = NoStream \/ victim[1] = k[1] BY DEF Evictable, Unwatched, StreamsOf
<1>4. streams \subseteq Streams /\ NoStream \notin Streams BY <1>1, NoStreamIsNone DEF TypeOK
<1>5. \A j \in Streams : j \in streams' <=> (ring'[j] # NoRing \/ subscribers'[j] # {})
  <2> SUFFICES ASSUME NEW j \in Streams PROVE j \in streams' <=> (ring'[j] # NoRing \/ subscribers'[j] # {})
    OBVIOUS
  <2>1. j \in streams <=> (ring[j] # NoRing \/ subscribers[j] # {}) BY DEF NothingLeftBehind
  <2>2. j \in streams' <=> j = k \/ (j \in streams /\ j # victim) BY DEF StreamsWith
  <2> QED BY <1>2, <2>1, <2>2
<1>6. \A b \in Accounts : ConnsOf(b)' = ConnsOf(b) BY DEF ConnsOf, AccountOf
<1>7. \A b \in Accounts : b # k[1] => StreamsOf(b)' = StreamsOf(b)
  BY <1>3, <1>4 DEF StreamsOf, StreamsWith
<1>8. c \in ConnsOf(k[1]) /\ k[1] \in accounts BY <1>1 DEF ConnsOf, RegistryAgrees
<1>9. \A b \in Accounts : b \in accounts' <=> (ConnsOf(b)' # {} \/ StreamsOf(b)' # {})
  <2> SUFFICES ASSUME NEW b \in Accounts PROVE b \in accounts' <=> (ConnsOf(b)' # {} \/ StreamsOf(b)' # {})
    OBVIOUS
  <2>1. CASE b = k[1]
    <3>1. c \in ConnsOf(b)' BY <1>6, <1>8, <2>1
    <3> QED BY <1>8, <2>1, <3>1
  <2>2. CASE b # k[1]
    <3>1. b \in accounts <=> (ConnsOf(b) # {} \/ StreamsOf(b) # {}) BY DEF NothingLeftBehind
    <3> QED BY <1>6, <1>7, <2>2, <3>1
  <2> QED BY <2>1, <2>2
<1> QED BY <1>5, <1>9 DEF NothingLeftBehind

\* Which streams have a ring after a publish.
LEMMA PublishHolds ==
  ASSUME IInv, NEW c, NEW k \in Streams, NEW kind \in Published, NEW key \in Keys \cup {NoKey},
         NEW victim \in Evictable(k), PublishTo(c, k, kind, key, victim)
  PROVE  /\ ring'[k] # NoRing
         /\ victim \in Streams => ring'[victim] = NoRing
         /\ \A j \in Streams \ {k, victim} : ring'[j] = NoRing <=> ring[j] = NoRing
<1> DEFINE new   == NewerRing(k, kind, key)
           rings == RingsAfter(k, kind, key, victim)
           frames == FramesAfter(k, kind, key, victim)
<1>1. TypeOK BY DEF IInv
<1>2. victim # k /\ RingsWithout(victim) \in [Streams -> Rings \cup {NoRing}] BY <1>1, EvictableParts
<1>3. rings \in [Streams -> Rings \cup {NoRing}] BY PublishToParts, Zenon
<1>4. Settled(k[1], rings, frames) BY PublishToParts, Zenon
<1>5. new \in Rings BY <1>1, NewerRingParts
<1>6. rings = [RingsWithout(victim) EXCEPT ![k] = new] BY DEF RingsAfter
<1>7. \A j \in Streams : RingsWithout(victim)[j] = IF j = victim THEN NoRing ELSE ring[j] BY DEF RingsWithout
<1>8. \A r \in Rings : r # NoRing BY RingParts DEF NoRing, Published
<1> HIDE DEF new, rings, frames
<1>9. /\ rings[k] # NoRing
      /\ victim \in Streams => rings[victim] = NoRing
      /\ \A j \in Streams \ {k, victim} : rings[j] = NoRing <=> ring[j] = NoRing
  BY <1>2, <1>5, <1>6, <1>7, <1>8
<1>10. CASE ring' = rings BY <1>9, <1>10
<1>11. ASSUME NEW r \in Streams, rings[r].entries # <<>>, ring' = [rings EXCEPT ![r] = EvictOldest(@)]
       PROVE  \A j \in Streams : ring'[j] = NoRing <=> rings[j] = NoRing
  <2>1. EvictOldest(rings[r]) \in Rings BY <1>3, <1>11, EvictOldestParts
  <2>2. rings[r] # NoRing BY <1>11 DEF NoRing
  <2> QED BY <1>3, <1>8, <1>11, <2>1, <2>2
<1>12. CASE \E r \in Streams : rings[r].entries # <<>> /\ ring' = [rings EXCEPT ![r] = EvictOldest(@)]
  <2>1. \A j \in Streams : ring'[j] = NoRing <=> rings[j] = NoRing BY <1>11, <1>12
  <2> QED BY <1>9, <2>1
<1> QED BY <1>4, <1>10, <1>12 DEF Settled

LEMMA PublishKeeps ==
  ASSUME KeepInv, NEW c \in conns, NEW ch \in Channels, NEW kind \in Published, NEW key \in Keys \cup {NoKey},
         Publish(c, ch, kind, key)
  PROVE  NothingLeftBehind' /\ RingsKept'
<1> DEFINE k == <<AccountOf(c), PrincipalOf(c), ch>>
<1>1. IInv /\ TypeOK /\ NothingLeftBehind /\ RingsKept BY DEF KeepInv, IInv
<1>2. k \in Streams /\ k[1] = AccountOf(c)
  BY <1>1, PeerParts DEF Streams, AccountOf, PrincipalOf
<1>3. UNCHANGED <<accounts, conns, peer>> /\ clock < MaxPublish BY DEF Publish, connVars
<1>4. CASE UNCHANGED streamVars
  BY <1>1, <1>3, <1>4, StreamsStay
<1>5. ASSUME NEW victim \in Evictable(k), PublishTo(c, k, kind, key, victim)
      PROVE  NothingLeftBehind' /\ RingsKept'
  <2> HIDE DEF k
  <2>1. RingsKept' BY <1>1, <1>2, <1>3, <1>5, PublishRings
  <2>2. streams' = StreamsWith(k, victim) /\ subscribers' = subscribers BY <1>5 DEF PublishTo
  <2>3. victim \in Streams => subscribers[victim] = {} BY <1>1, <1>2, <1>5, NoStreamIsNone, EvictableParts
  <2>4. /\ ring'[k] # NoRing
        /\ victim \in Streams => ring'[victim] = NoRing
        /\ \A j \in Streams \ {k, victim} : ring'[j] = NoRing <=> ring[j] = NoRing
    BY <1>1, <1>2, <1>5, PublishHolds
  <2>5. NothingLeftBehind' BY <1>1, <1>2, <1>3, <2>2, <2>3, <2>4, OpenKeeps
  <2> QED BY <2>1, <2>5
<1> QED BY <1>4, <1>5 DEF Publish

LEMMA SubscribeKeeps ==
  ASSUME KeepInv, NEW c \in conns, NEW k \in Streams, NEW since, Subscribe(c, k, since)
  PROVE  NothingLeftBehind' /\ RingsKept'
<1>1. IInv /\ TypeOK /\ NothingLeftBehind /\ RingsKept BY DEF KeepInv, IInv
<1>2. UNCHANGED <<accounts, conns, peer>> /\ k[1] = AccountOf(c) BY DEF Subscribe, connVars
<1>3. CASE UNCHANGED streamVars BY <1>1, <1>2, <1>3, StreamsStay
<1>4. ASSUME NEW victim \in Evictable(k), streams' = StreamsWith(k, victim),
             ring' = RingsWithout(victim), ringFrames' = FramesWithout(victim),
             subscribers' = [subscribers EXCEPT ![k] = @ \cup {c}], clock' = clock
      PROVE  NothingLeftBehind' /\ RingsKept'
  <2>1. RingsKept' BY <1>1, <1>4, WithoutVictim DEF RingsKept
  <2>2. victim # k /\ (victim \in Streams => subscribers[victim] = {})
    BY <1>1, <1>4, NoStreamIsNone, EvictableParts
  <2>3. subscribers \in [Streams -> SUBSET Conns] BY <1>1 DEF TypeOK
  <2>4. subscribers'[k] # {} /\ \A j \in Streams \ {k} : subscribers'[j] = subscribers[j]
    BY <1>4, <2>3
  <2>5. \A j \in Streams : ring'[j] = IF j = victim THEN NoRing ELSE ring[j] BY <1>4 DEF RingsWithout
  <2>6. NothingLeftBehind' BY <1>1, <1>2, <1>4, <2>2, <2>4, <2>5, OpenKeeps
  <2> QED BY <2>1, <2>6
<1> QED BY <1>3, <1>4 DEF Subscribe

\* The last subscriber of a stream without a ring takes its entry along.
LEMMA UnsubscribeKeeps ==
  ASSUME IInv, NothingLeftBehind, NEW c \in conns, NEW k \in Streams, Unsubscribe(c, k)
  PROVE  NothingLeftBehind'
<1>1. TypeOK /\ RegistryAgrees BY DEF IInv
<1>2. /\ k[1] = AccountOf(c) /\ streams' = streams \ Abandoned(c, {k} \cap streams)
      /\ subscribers' = [subscribers EXCEPT ![k] = @ \ {c}]
      /\ UNCHANGED <<accounts, conns, peer, ring>>
  BY DEF Unsubscribe, connVars
<1>3. streams \subseteq Streams /\ subscribers \in [Streams -> SUBSET Conns] BY <1>1 DEF TypeOK
<1>4. \A j \in Streams : j \in streams' <=> (ring'[j] # NoRing \/ subscribers'[j] # {})
  <2> SUFFICES ASSUME NEW j \in Streams PROVE j \in streams' <=> (ring'[j] # NoRing \/ subscribers'[j] # {})
    OBVIOUS
  <2>1. j \in streams <=> (ring[j] # NoRing \/ subscribers[j] # {}) BY DEF NothingLeftBehind
  <2>2. CASE j = k
    <3>1. subscribers'[k] = subscribers[k] \ {c} BY <1>2, <1>3
    <3>2. k \in streams' <=> k \in streams /\ ~(subscribers[k] \subseteq {c} /\ ring[k] = NoRing)
      BY <1>2 DEF Abandoned
    <3> QED BY <1>2, <2>1, <2>2, <3>1, <3>2
  <2>3. CASE j # k
    <3>1. subscribers'[j] = subscribers[j] BY <1>2, <1>3, <2>3
    <3>2. j \in streams' <=> j \in streams BY <1>2, <2>3 DEF Abandoned
    <3> QED BY <1>2, <2>1, <3>1, <3>2
  <2> QED BY <2>2, <2>3
<1>5. \A b \in Accounts : ConnsOf(b)' = ConnsOf(b) BY <1>2 DEF ConnsOf, AccountOf
<1>6. \A b \in Accounts : b # k[1] => StreamsOf(b)' = StreamsOf(b) BY <1>2 DEF StreamsOf, Abandoned
<1>7. c \in ConnsOf(k[1]) /\ k[1] \in accounts BY <1>1, <1>2 DEF ConnsOf, RegistryAgrees
<1>8. \A b \in Accounts : b \in accounts' <=> (ConnsOf(b)' # {} \/ StreamsOf(b)' # {})
  <2> SUFFICES ASSUME NEW b \in Accounts PROVE b \in accounts' <=> (ConnsOf(b)' # {} \/ StreamsOf(b)' # {})
    OBVIOUS
  <2>1. CASE b = k[1]
    <3>1. c \in ConnsOf(b)' BY <1>5, <1>7, <2>1
    <3> QED BY <1>2, <1>7, <2>1, <3>1
  <2>2. CASE b # k[1]
    <3>1. b \in accounts <=> (ConnsOf(b) # {} \/ StreamsOf(b) # {}) BY DEF NothingLeftBehind
    <3> QED BY <1>2, <1>5, <1>6, <2>2, <3>1
  <2> QED BY <2>1, <2>2
<1> QED BY <1>4, <1>8 DEF NothingLeftBehind

LEMMA NextKeeps == KeepInv /\ [Next]_vars => KeepInv'
<1> SUFFICES ASSUME KeepInv, [Next]_vars PROVE KeepInv' OBVIOUS
<1>0. /\ IInv /\ NothingLeftBehind /\ RingsKept /\ IInv' BY NextInv DEF KeepInv
<1> SUFFICES NothingLeftBehind' /\ RingsKept' BY <1>0 DEF KeepInv
<1>1. ASSUME NEW a \in Accounts, NEW p \in Principals, Connect(a, p) PROVE NothingLeftBehind' /\ RingsKept'
  <2>1. NothingLeftBehind' BY <1>0, <1>1, ConnectKeeps
  <2>2. UNCHANGED <<ring, ringFrames, clock>> BY <1>1 DEF Connect, streamVars
  <2> QED BY <1>0, <2>1, <2>2 DEF RingsKept
<1>2. ASSUME NEW c \in Conns, Disconnect(c) \/ FinishClose(c) PROVE NothingLeftBehind' /\ RingsKept'
  <2>1. c \in conns /\ Forget(c) BY <1>0, <1>2 DEF Disconnect, FinishClose, IInv, TypeOK
  <2>2. NothingLeftBehind' BY <1>0, <2>1, ForgetKeeps
  <2>3. UNCHANGED <<ring, ringFrames, clock>> BY <2>1 DEF Forget
  <2> QED BY <1>0, <2>2, <2>3 DEF RingsKept
<1>3. ASSUME NEW c \in Conns, NEW ch \in Channels, NEW kind \in Published,
             NEW key \in Keys \cup {NoKey}, Publish(c, ch, kind, key)
      PROVE  NothingLeftBehind' /\ RingsKept'
  <2>1. c \in conns BY <1>3 DEF Publish
  <2> QED BY <1>3, <2>1, PublishKeeps
<1>4. ASSUME NEW c \in Conns, NEW k \in Streams, NEW since \in Sinces(k), Subscribe(c, k, since)
      PROVE  NothingLeftBehind' /\ RingsKept'
  <2>1. c \in conns BY <1>4 DEF Subscribe
  <2> QED BY <1>4, <2>1, SubscribeKeeps
<1>5. ASSUME NEW c \in Conns, NEW k \in Streams, Unsubscribe(c, k) PROVE NothingLeftBehind' /\ RingsKept'
  <2>1. c \in conns /\ UNCHANGED <<ring, ringFrames, clock>> BY <1>5 DEF Unsubscribe
  <2>2. NothingLeftBehind' BY <1>0, <1>5, <2>1, UnsubscribeKeeps
  <2> QED BY <1>0, <2>1, <2>2 DEF RingsKept
<1>6. CASE UNCHANGED <<accounts, conns, peer, streamVars>> BY <1>0, <1>6, StreamsStay
<1>7. ASSUME NEW c \in Conns, Answer(c) \/ Offend(c) \/ (\E p \in Principals : Direct(c, p)) \/ TakeOutbound(c)
      PROVE  UNCHANGED <<accounts, conns, peer, streamVars>>
  BY <1>7 DEF Answer, Offend, Direct, TakeOutbound, connVars
<1>8. ASSUME BackfillEntry \/ Backfilled \/ UNCHANGED vars
      PROVE  UNCHANGED <<accounts, conns, peer, streamVars>>
  BY <1>8 DEF BackfillEntry, Backfilled, vars, connVars
<1> QED BY <1>1, <1>2, <1>3, <1>4, <1>5, <1>6, <1>7, <1>8 DEF Next

\* What the relay keeps of its streams has a use and is kept in full, for any number
\* of accounts, connections and streams: every entry has a ring or a subscriber, every
\* account a connection or a stream, every ring is the unbroken end of its stream, and
\* the total the ring budget is enforced against is what the rings really hold.
THEOREM StreamsAreKept == Spec => []StreamsKept
<1>1. Init => KeepInv BY InitKeep
<1>2. KeepInv /\ [Next]_vars => KeepInv' BY NextKeeps
<1>3. KeepInv => StreamsKept
  <2> SUFFICES ASSUME KeepInv PROVE StreamsKept OBVIOUS
  <2>1. NothingLeftBehind /\ RingsKept /\ TypeOK BY DEF KeepInv, IInv
  <2>2. \A a \in Accounts :
          {e \in Streams \X (1..MaxPublish) : e[1][1] = a /\ e[2] <= Len(ring[e[1]].entries)} = Cells(Lens(ring), a)
    BY DEF Cells, Lens
  <2>3. \A k \in Streams : \A i \in DOMAIN ring[k].entries :
          ring[k].entries[i].seq = ring[k].seq - Len(ring[k].entries) + i
    BY <2>1 DEF RingsKept, Retains, Consecutive
  <2> QED BY <2>1, <2>2, <2>3 DEF StreamsKept, RingsRetainTheEnd, RingsKept, Totalled
<1> QED BY <1>1, <1>2, <1>3, PTL DEF Spec

-----------------------------------------------------------------------------
\* The ring under a subscription.

\* r may follow was: the same ring, further on.
Follows(was, r) == r.epoch = was.epoch /\ was.seq <= r.seq

LEMMA PublishFollows ==
  ASSUME IInv, NEW c, NEW k \in Streams, NEW kind \in Published, NEW key \in Keys \cup {NoKey},
         NEW victim \in Evictable(k), PublishTo(c, k, kind, key, victim),
         NEW j \in Streams, subscribers[j] # {}, ring[j] # NoRing
  PROVE  Follows(ring[j], ring'[j])
<1> DEFINE new   == NewerRing(k, kind, key)
           rings == RingsAfter(k, kind, key, victim)
           frames == FramesAfter(k, kind, key, victim)
<1>1. TypeOK /\ ring[j] \in Rings \cup {NoRing} BY DEF IInv, TypeOK
<1>2. /\ victim # k /\ RingsWithout(victim) \in [Streams -> Rings \cup {NoRing}]
      /\ victim # NoStream => subscribers[victim] = {}
  BY <1>1, EvictableParts
<1>3. j # victim BY <1>2, NoStreamIsNone
<1>4. rings \in [Streams -> Rings \cup {NoRing}] BY PublishToParts, Zenon
<1>5. Settled(k[1], rings, frames) BY PublishToParts, Zenon
<1>6. rings = [RingsWithout(victim) EXCEPT ![k] = new] BY DEF RingsAfter
<1>7. ring[j].seq \in Nat BY <1>1, RingOrNone
<1>8. j = k => Follows(ring[j], new)
  <2> SUFFICES ASSUME j = k PROVE Follows(ring[k], NewerRing(k, kind, key)) OBVIOUS
  <2>1. NewerRing(k, kind, key).seq = ring[k].seq + 1 BY <1>1, NewerRingParts
  <2>2. NewerRing(k, kind, key).epoch = OldRing(k, kind).epoch BY <1>1, NewerRingParts
  <2>3. OldRing(k, kind) = ring[k] BY DEF OldRing
  <2> QED BY <1>7, <2>1, <2>2, <2>3 DEF Follows
<1>9. RingsWithout(victim)[j] = ring[j] BY <1>3 DEF RingsWithout
<1> HIDE DEF new, rings, frames
<1>10. Follows(ring[j], rings[j])
  <2>1. CASE j = k BY <1>2, <1>6, <1>8, <2>1
  <2>2. CASE j # k
    <3>1. rings[j] = ring[j] BY <1>2, <1>6, <1>9, <2>2
    <3> QED BY <1>7, <3>1 DEF Follows
  <2> QED BY <2>1, <2>2
<1>11. CASE ring' = rings BY <1>10, <1>11
<1>12. ASSUME NEW r \in Streams, rings[r].entries # <<>>, ring' = [rings EXCEPT ![r] = EvictOldest(@)]
       PROVE  Follows(ring[j], ring'[j])
  <2>1. EvictOldest(rings[r]).seq = rings[r].seq /\ EvictOldest(rings[r]).epoch = rings[r].epoch
    BY <1>4, <1>12, EvictOldestParts
  <2>2. ring'[j] = IF j = r THEN EvictOldest(rings[r]) ELSE rings[j] BY <1>4, <1>12
  <2>3. ring'[j].seq = rings[j].seq /\ ring'[j].epoch = rings[j].epoch BY <2>1, <2>2
  <2> QED BY <1>10, <2>3 DEF Follows
<1> QED BY <1>5, <1>11, <1>12 DEF Settled

\* No step replaces or rewinds the ring under a subscription: eviction picks streams
\* nobody watches, and everything else only adds to a ring or trims it.
THEOREM WatchedRingsStay == Spec => WatchedRingStays
<1> DEFINE Stays == \A c \in conns \cap conns' : \A k \in subs[c] \cap subs'[c] :
      ring[k] # NoRing => ring'[k].epoch = ring[k].epoch /\ ring[k].seq <= ring'[k].seq
<1>1. IInv /\ [Next]_vars => [Stays]_vars
  <2> SUFFICES ASSUME IInv, [Next]_vars, NEW c \in conns \cap conns', NEW k \in subs[c] \cap subs'[c], ring[k] # NoRing
               PROVE  Follows(ring[k], ring'[k])
    BY DEF Follows
  <2>1. TypeOK /\ c \in Conns /\ k \in Streams BY DEF IInv, TypeOK
  <2>2. subscribers[k] # {} BY <2>1 DEF IInv, RegistryAgrees
  <2>3. ring[k].seq \in Nat
    <3>1. ring[k] \in Rings \cup {NoRing} BY <2>1 DEF TypeOK
    <3> QED BY <3>1, RingOrNone
  <2>4. CASE ring' = ring BY <2>3, <2>4 DEF Follows
  <2>5. ASSUME NEW d \in Conns, NEW ch \in Channels, NEW kind \in Published,
               NEW key \in Keys \cup {NoKey}, Publish(d, ch, kind, key)
        PROVE  Follows(ring[k], ring'[k])
    <3> DEFINE s == <<AccountOf(d), PrincipalOf(d), ch>>
    <3>1. s \in Streams
      <4>1. d \in conns BY <2>5 DEF Publish
      <4> QED BY <2>1, <4>1, PeerParts DEF Streams, AccountOf, PrincipalOf
    <3>2. ring' = ring \/ \E victim \in Evictable(s) : PublishTo(d, s, kind, key, victim)
      BY <2>5 DEF Publish, streamVars
    <3> HIDE DEF s
    <3> QED BY <2>1, <2>2, <2>4, <3>1, <3>2, PublishFollows
  <2>6. ASSUME NEW d \in Conns, NEW s \in Streams, NEW since \in Sinces(s), Subscribe(d, s, since)
        PROVE  Follows(ring[k], ring'[k])
    <3>1. ring' = ring \/ \E victim \in Evictable(s) : ring' = RingsWithout(victim)
      BY <2>6 DEF Subscribe, streamVars
    <3>2. ASSUME NEW victim \in Evictable(s), ring' = RingsWithout(victim) PROVE Follows(ring[k], ring'[k])
      <4>1. k # victim BY <2>1, <2>2, NoStreamIsNone, EvictableParts
      <4>2. ring'[k] = ring[k] BY <2>1, <3>2, <4>1 DEF RingsWithout
      <4> QED BY <2>3, <4>2 DEF Follows
    <3> QED BY <2>4, <3>1, <3>2
  <2>7. \/ ring' = ring
        \/ \E d \in Conns, ch \in Channels, kind \in Published, key \in Keys \cup {NoKey} : Publish(d, ch, kind, key)
        \/ \E d \in Conns, s \in Streams : \E since \in Sinces(s) : Subscribe(d, s, since)
    <3>1. CASE UNCHANGED vars BY <3>1 DEF vars, streamVars
    <3>2. CASE \E a \in Accounts, p \in Principals : Connect(a, p) BY <3>2 DEF Connect, streamVars
    <3>3. ASSUME NEW d \in Conns, \/ Disconnect(d) \/ FinishClose(d) \/ Answer(d) \/ Offend(d) \/ TakeOutbound(d)
                                  \/ \E p \in Principals : Direct(d, p)
                                  \/ \E s \in Streams : Unsubscribe(d, s)
          PROVE  ring' = ring
      BY <3>3 DEF Disconnect, FinishClose, Forget, Answer, Offend, Direct, Unsubscribe, TakeOutbound, streamVars
    <3>4. CASE BackfillEntry \/ Backfilled BY <3>4 DEF BackfillEntry, Backfilled, streamVars
    <3> QED BY <3>1, <3>2, <3>3, <3>4 DEF Next
  <2> QED BY <2>4, <2>5, <2>6, <2>7
<1>2. Init => IInv BY InitInv
<1>3. IInv /\ [Next]_vars => IInv' BY NextInv
<1> QED BY <1>1, <1>2, <1>3, PTL DEF Spec, WatchedRingStays

=============================================================================
