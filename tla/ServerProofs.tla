---------------------------- MODULE ServerProofs ----------------------------
(***************************************************************************)
(* The sockets of a shard, for any number of connections, any queue bound  *)
(* and any batch: nobody is left behind in the relay or among the handles, *)
(* and no writer sleeps through its work.                                  *)
(***************************************************************************)
EXTENDS Server, FiniteSetTheorems, TLAPS

ServerTypes ==
  /\ known \subseteq Conns /\ handles \subseteq Conns /\ permit \subseteq Conns
  /\ closing \subseteq Conns /\ armed \subseteq known
  /\ queue \in [Conns -> Nat]
  /\ reader \in [Conns -> {"new", "reading", "throttled", "ending", "flushing", "lingering", "aborting", "gone"}]
  /\ writer \in [Conns -> {"off", "waiting", "taking", "pinging", "feeding", "flushing", "checking", "closing", "ended"}]
  /\ due \in [Conns -> SUBSET Conns]

\* Once hub.close(id, None) was called the relay does not know it again; a writer
\* starts with its reader.
ForgottenFirst ==
  \A c \in Conns : /\ reader[c] \in {"lingering", "aborting"} => c \notin known
                   /\ reader[c] = "new" => writer[c] = "off"

\* Somebody's wake: stored, or in the hands of a reader.
Coming(c) == c \in permit \/ \E t \in Conns : c \in due[t]

\* The relay's flag is up while frames wait, and while it is up a wake is coming or
\* the writer is at the queue.
ArmedIsWoken ==
  \A c \in Conns :
    /\ queue[c] > 0 => c \in armed
    /\ c \in armed => Coming(c) \/ writer[c] \in {"taking", "feeding", "ended"}

\* A closing frame is looked for after the next drain.
ClosingIsSeen ==
  \A c \in closing : Coming(c) \/ writer[c] \in {"taking", "feeding", "flushing", "checking", "ended"}

ServerInv == ServerTypes /\ NobodyLeftBehind /\ ForgottenFirst /\ ArmedIsWoken /\ ClosingIsSeen

LEMMA ServerInitially == Init => ServerInv
BY DEF Init, ServerInv, ServerTypes, NobodyLeftBehind, ForgottenFirst, ArmedIsWoken, ClosingIsSeen

\* finish closes only connections the relay knows, and every one it is told to.
LEMMA DroppedIs ==
  ASSUME NEW K, NEW load, NEW first
  PROVE  Dropped(K, load, first) \subseteq K /\ first \cap K \subseteq Dropped(K, load, first)
BY DEF Dropped

\* What a call of the relay leaves: whoever has frames is armed, and whoever is
\* armed was before or is woken.
LEMMA CallArms ==
  ASSUME ServerInv, NEW K, known \subseteq K, K \subseteq Conns, NEW load \in [Conns -> Nat], NEW gone, gone \subseteq K,
         RelayCall(K, load, gone)
  PROVE  /\ known' = K \ gone /\ queue' \in [Conns -> Nat] /\ armed' \subseteq known'
         /\ \A d \in Conns : queue'[d] > 0 => d \in armed'
         /\ \A d \in armed' : d \in armed \/ d \in Woken(K, load, gone)
         /\ Woken(K, load, gone) \subseteq known'
<1>1. known' = K \ gone /\ queue' = Queued(K, load, gone) /\ armed' = (armed \ gone) \cup Woken(K, load, gone)
  BY DEF RelayCall
<1>2. Cardinality(gone) \in Nat
  BY FS_Subset, FS_CardinalityType, ServerBounds
<1>3. queue' \in [Conns -> Nat]
  BY <1>1, <1>2 DEF Queued, ServerInv, ServerTypes
<1>4. Woken(K, load, gone) \subseteq known' BY <1>1 DEF Woken
<1>5. ASSUME NEW d \in Conns, queue'[d] > 0 PROVE d \in armed'
  <2>1. d \in K \ gone /\ queue'[d] = queue[d] + load[d] + Cardinality(gone)
    BY <1>1, <1>5 DEF Queued
  <2>2. queue[d] > 0 \/ load[d] + Cardinality(gone) > 0
    BY <1>2, <1>5, <2>1 DEF ServerInv, ServerTypes
  <2>3. queue[d] > 0 => d \in armed BY DEF ServerInv, ArmedIsWoken
  <2> QED BY <1>1, <2>1, <2>2, <2>3 DEF Woken
<1> QED BY <1>1, <1>3, <1>4, <1>5 DEF ServerInv, ServerTypes

\* Whatever a reader does under the lock, with what it does to itself.
LEMMA OnShardKeeps ==
  ASSUME ServerInv, NEW c \in Conns, NEW T, NEW forgotten, NEW refused,
         due[c] = {}, OnShard(c, OneFrameTo(T), forgotten, refused), UNCHANGED <<writer, peer>>,
         reader[c] \notin {"new", "gone"},
         NEW at \in {"reading", "throttled", "flushing", "lingering", "aborting"}, reader' = [reader EXCEPT ![c] = at],
         at \in {"lingering", "aborting"} => c \in forgotten \/ c \notin known
  PROVE  ServerInv'
<1> DEFINE load == OneFrameTo(T)
           gone == Dropped(known, load, forgotten \cup refused)
           closed == gone \ forgotten
           told == (Woken(known, load, gone) \cup closed) \cap handles
<1>1. load \in [Conns -> Nat] BY DEF OneFrameTo
<1>2. gone \subseteq known /\ (forgotten \cup refused) \cap known \subseteq gone BY DroppedIs
<1>3. /\ RelayCall(known, load, gone) /\ closing' = closing \cup (closed \cap handles)
      /\ due' = [due EXCEPT ![c] = told] /\ UNCHANGED <<handles, permit>>
  BY DEF OnShard, ToNotify
<1>4. known \subseteq Conns /\ known \subseteq handles BY DEF ServerInv, ServerTypes, NobodyLeftBehind
<1> HIDE DEF load, gone
<1>5. /\ known' = known \ gone /\ queue' \in [Conns -> Nat] /\ armed' \subseteq known'
      /\ \A d \in Conns : queue'[d] > 0 => d \in armed'
      /\ \A d \in armed' : d \in armed \/ d \in Woken(known, load, gone)
      /\ Woken(known, load, gone) \subseteq known'
  BY <1>1, <1>2, <1>3, <1>4, CallArms
<1>6. told \subseteq Conns /\ closed \cap handles \subseteq told /\ Woken(known, load, gone) \subseteq told
  BY <1>2, <1>4, <1>5
<1> HIDE DEF told, closed
<1>7. ServerTypes'
  <2>1. closing' \subseteq Conns BY <1>3, <1>6 DEF ServerInv, ServerTypes
  <2> QED BY <1>3, <1>5, <1>6, <2>1 DEF ServerInv, ServerTypes
<1>8. NobodyLeftBehind'
  BY <1>3, <1>4, <1>5 DEF ServerInv, ServerTypes, NobodyLeftBehind
<1>9. ForgottenFirst'
  <2>1. at \in {"lingering", "aborting"} => c \notin known' BY <1>2, <1>5
  <2> QED BY <1>5, <2>1 DEF ServerInv, ServerTypes, ForgottenFirst
<1>10. \A d \in Conns : Coming(d) => Coming(d)'
  <2> TAKE d \in Conns
  <2> HAVE Coming(d)
  <2>1. CASE d \in permit BY <1>3, <2>1 DEF Coming
  <2>2. ASSUME NEW t \in Conns, d \in due[t] PROVE Coming(d)'
    BY <1>3, <2>2 DEF Coming, ServerInv, ServerTypes
  <2> QED BY <2>1, <2>2 DEF Coming
<1>11. \A d \in told : Coming(d)'
  BY <1>3, <1>6 DEF Coming, ServerInv, ServerTypes
<1>12. ArmedIsWoken'
  <2> SUFFICES ASSUME NEW d \in Conns, d \in armed' PROVE Coming(d)' \/ writer[d] \in {"taking", "feeding", "ended"}
    BY <1>5 DEF ArmedIsWoken
  <2> QED BY <1>5, <1>6, <1>10, <1>11 DEF ServerInv, ArmedIsWoken
<1>13. ClosingIsSeen'
  <2> SUFFICES ASSUME NEW d \in closing'
               PROVE  Coming(d)' \/ writer[d] \in {"taking", "feeding", "flushing", "checking", "ended"}
    BY DEF ClosingIsSeen
  <2>1. CASE d \in closing /\ Coming(d)
    <3>1. d \in Conns BY <2>1 DEF Coming, ServerInv, ServerTypes
    <3> QED BY <2>1, <3>1, <1>10
  <2>2. CASE d \in closing /\ ~Coming(d) BY <2>2 DEF ServerInv, ClosingIsSeen
  <2>3. CASE d \in closed \cap handles BY <1>6, <1>11, <2>3
  <2> QED BY <1>3, <2>1, <2>2, <2>3
<1> QED BY <1>7, <1>8, <1>9, <1>12, <1>13 DEF ServerInv

LEMMA ConnectKeeps ==
  ASSUME ServerInv, NEW c \in Conns, Connect(c)
  PROVE  ServerInv'
<1> DEFINE K == known \cup {c}
           load == [d \in Conns |-> IF d = c THEN 1 + Cardinality(known) ELSE 1]
           gone == Dropped(K, load, {})
           told == Woken(K, load, gone) \cap handles'
<1>1. /\ reader[c] = "new" /\ due[c] = {} /\ RelayCall(K, load, gone) /\ handles' = handles \cup {c}
      /\ due' = [due EXCEPT ![c] = told] /\ reader' = [reader EXCEPT ![c] = "reading"]
      /\ writer' = [writer EXCEPT ![c] = "waiting"] /\ UNCHANGED <<permit, closing>>
  BY DEF Connect, ReaderAt
<1>2. known \subseteq Conns /\ known \subseteq handles /\ c \notin known
  BY <1>1 DEF ServerInv, ServerTypes, NobodyLeftBehind
<1>3. load \in [Conns -> Nat]
  <2>1. Cardinality(known) \in Nat BY <1>2, FS_Subset, FS_CardinalityType, ServerBounds
  <2> QED BY <2>1
<1>4. gone \subseteq K BY DroppedIs
<1>5. known \subseteq K /\ K \subseteq Conns /\ K \subseteq handles' BY <1>1, <1>2
<1> HIDE DEF load, gone, K
<1>6. /\ known' = K \ gone /\ queue' \in [Conns -> Nat] /\ armed' \subseteq known'
      /\ \A d \in Conns : queue'[d] > 0 => d \in armed'
      /\ \A d \in armed' : d \in armed \/ d \in Woken(K, load, gone)
      /\ Woken(K, load, gone) \subseteq known'
  BY <1>1, <1>3, <1>4, <1>5, CallArms
<1>7. told = Woken(K, load, gone) /\ told \subseteq Conns BY <1>5, <1>6
<1> HIDE DEF told
<1>8. ServerTypes'
  BY <1>1, <1>5, <1>6, <1>7 DEF ServerInv, ServerTypes
<1>9. known' \subseteq handles' /\ \A d \in known' : d \in known \/ d = c
  BY <1>5, <1>6 DEF K
<1>10. NobodyLeftBehind' /\ ForgottenFirst'
  BY <1>1, <1>9 DEF ServerInv, ServerTypes, NobodyLeftBehind, ForgottenFirst
<1>11. \A d \in Conns : Coming(d) => Coming(d)'
  <2> TAKE d \in Conns
  <2> HAVE Coming(d)
  <2>1. CASE d \in permit BY <1>1, <2>1 DEF Coming
  <2>2. ASSUME NEW t \in Conns, d \in due[t] PROVE Coming(d)'
    BY <1>1, <2>2 DEF Coming, ServerInv, ServerTypes
  <2> QED BY <2>1, <2>2 DEF Coming
<1>12. \A d \in told : Coming(d)'
  BY <1>1, <1>7 DEF Coming, ServerInv, ServerTypes
<1>13. \A d \in Conns \ {c} : writer'[d] = writer[d]
  BY <1>1 DEF ServerInv, ServerTypes
<1>14. ArmedIsWoken'
  <2> SUFFICES ASSUME NEW d \in Conns, d \in armed' PROVE Coming(d)' \/ writer'[d] \in {"taking", "feeding", "ended"}
    BY <1>6 DEF ArmedIsWoken
  <2>1. d \in armed => d # c BY <1>2 DEF ServerInv, ServerTypes
  <2> QED BY <1>6, <1>7, <1>11, <1>12, <1>13, <2>1 DEF ServerInv, ArmedIsWoken
<1>15. ClosingIsSeen'
  <2> SUFFICES ASSUME NEW d \in closing
               PROVE  Coming(d)' \/ writer'[d] \in {"taking", "feeding", "flushing", "checking", "ended"}
    BY <1>1 DEF ClosingIsSeen
  <2>1. CASE Coming(d)
    <3>1. d \in Conns BY <2>1 DEF Coming, ServerInv, ServerTypes
    <3> QED BY <2>1, <3>1, <1>11
  <2>2. CASE ~Coming(d)
    <3>1. writer[d] \in {"taking", "feeding", "flushing", "checking", "ended"} BY <2>2 DEF ServerInv, ClosingIsSeen
    <3>2. d # c BY <1>1, <3>1 DEF ServerInv, ForgottenFirst
    <3>3. d \in Conns BY DEF ServerInv, ServerTypes
    <3> QED BY <1>13, <3>1, <3>2, <3>3
  <2> QED BY <2>1, <2>2
<1> QED BY <1>8, <1>10, <1>14, <1>15 DEF ServerInv

\* The writer moves: nobody's wake is used up but its own.
LEMMA WriterKeeps ==
  ASSUME ServerInv, NEW c \in Conns, NEW from, NEW to, WriterGoes(c, from, to), from # "off", UNCHANGED known,
         to \in {"waiting", "taking", "pinging", "feeding", "flushing", "checking", "closing", "ended"},
         queue' \in [Conns -> Nat], armed' \subseteq armed, closing' \subseteq closing, permit' \subseteq permit,
         \A d \in Conns : queue'[d] > 0 => d \in armed',
         \A d \in Conns \ {c} : d \in permit => d \in permit',
         c \in permit => c \in permit' \/ to = "taking",
         c \in armed' => to \in {"taking", "feeding", "ended"} \/ (from \notin {"taking", "feeding", "ended"} /\ UNCHANGED permit),
         c \in closing' => to \in {"taking", "feeding", "flushing", "checking", "ended"}
                           \/ (from \notin {"taking", "feeding", "flushing", "checking", "ended"} /\ UNCHANGED permit)
  PROVE  ServerInv'
<1>1. writer[c] = from /\ writer' = [writer EXCEPT ![c] = to] /\ UNCHANGED <<handles, reader, due>>
  BY DEF WriterGoes
<1>2. ServerTypes' BY <1>1 DEF ServerInv, ServerTypes
<1>3. NobodyLeftBehind' BY <1>1 DEF ServerInv, NobodyLeftBehind
<1>4. ForgottenFirst' BY <1>1 DEF ServerInv, ServerTypes, ForgottenFirst
<1>5. \A d \in Conns \ {c} : writer'[d] = writer[d] /\ (Coming(d) => Coming(d)')
  BY <1>1 DEF ServerInv, ServerTypes, Coming
<1>6. writer'[c] = to BY <1>1 DEF ServerInv, ServerTypes
<1>7. UNCHANGED permit => (Coming(c) => Coming(c)') BY <1>1 DEF Coming
<1>8. ArmedIsWoken'
  <2> SUFFICES ASSUME NEW d \in Conns, d \in armed' PROVE Coming(d)' \/ writer'[d] \in {"taking", "feeding", "ended"}
    BY DEF ArmedIsWoken
  <2>1. Coming(d) \/ writer[d] \in {"taking", "feeding", "ended"} BY DEF ServerInv, ArmedIsWoken
  <2> QED BY <1>1, <1>5, <1>6, <1>7, <2>1
<1>9. ClosingIsSeen'
  <2> SUFFICES ASSUME NEW d \in closing'
               PROVE  Coming(d)' \/ writer'[d] \in {"taking", "feeding", "flushing", "checking", "ended"}
    BY DEF ClosingIsSeen
  <2>1. d \in Conns /\ (Coming(d) \/ writer[d] \in {"taking", "feeding", "flushing", "checking", "ended"})
    BY DEF ServerInv, ServerTypes, ClosingIsSeen
  <2> QED BY <1>1, <1>5, <1>6, <1>7, <2>1
<1> QED BY <1>2, <1>3, <1>4, <1>8, <1>9 DEF ServerInv

LEMMA WriterStepKeeps ==
  ASSUME ServerInv, NEW c \in Conns, WriterStep(c) \/ PingTick(c)
  PROVE  ServerInv'
<1>0. queue \in [Conns -> Nat] /\ \A d \in Conns : queue[d] > 0 => d \in armed
  BY DEF ServerInv, ServerTypes, ArmedIsWoken
<1>1. CASE Notified(c)
  <2>1. WriterGoes(c, "waiting", "taking") /\ UNCHANGED <<relayVars, closing>> /\ permit' = permit \ {c}
    BY <1>1 DEF Notified
  <2> QED BY <1>0, <2>1, WriterKeeps DEF relayVars
<1>2. ASSUME NEW from \in {"waiting", "pinging", "feeding", "flushing", "closing"},
             NEW to \in {"pinging", "taking", "checking", "ended"},
             from \in {"waiting", "pinging"} \/ to \in {"taking", "ended"} \/ (from = "flushing" /\ to = "checking"),
             WriterGoes(c, from, to), UNCHANGED <<relayVars, permit, closing>>
      PROVE  ServerInv'
  <2>1. UNCHANGED <<known, queue, armed, permit, closing>> BY <1>2 DEF relayVars
  <2>2. c \in armed' => to \in {"taking", "feeding", "ended"} \/ (from \notin {"taking", "feeding", "ended"} /\ UNCHANGED permit)
    BY <1>2, <2>1
  <2>3. c \in closing' => to \in {"taking", "feeding", "flushing", "checking", "ended"}
                          \/ (from \notin {"taking", "feeding", "flushing", "checking", "ended"} /\ UNCHANGED permit)
    BY <1>2, <2>1
  <2>4. from # "off" /\ to \in {"waiting", "taking", "pinging", "feeding", "flushing", "checking", "closing", "ended"}
    OBVIOUS
  <2> QED BY <1>0, <1>2, <2>1, <2>2, <2>3, <2>4, WriterKeeps
<1>3. CASE PingTick(c) BY <1>2, <1>3 DEF PingTick
<1>4. CASE PingSent(c) BY <1>2, <1>4 DEF PingSent
<1>5. CASE Fed(c) BY <1>2, <1>5 DEF Fed
<1>6. CASE Closed(c) BY <1>2, <1>6 DEF Closed
<1>7. CASE WriteFails(c) BY <1>2, <1>7 DEF WriteFails
<1>8. CASE CheckClosing(c)
  <2> DEFINE to == IF c \in closing THEN "closing" ELSE "waiting"
  <2>1. WriterGoes(c, "checking", to) /\ closing' = closing \ {c} /\ UNCHANGED <<known, queue, armed, permit>>
    BY <1>8 DEF CheckClosing, relayVars
  <2>2. to \in {"waiting", "closing"} OBVIOUS
  <2> HIDE DEF to
  <2> QED BY <1>0, <2>1, <2>2, WriterKeeps
<1>9. CASE TakeOutbound(c)
  <2> DEFINE n == IF queue[c] < Batch THEN queue[c] ELSE Batch
             to == IF n = 0 THEN "checking" ELSE IF queue[c] > n THEN "feeding" ELSE "flushing"
  <2>1. /\ queue' = [queue EXCEPT ![c] = queue[c] - n] /\ armed' = (IF queue[c] > n THEN armed ELSE armed \ {c})
        /\ WriterGoes(c, "taking", to) /\ UNCHANGED <<known, permit, closing>>
    BY <1>9 DEF TakeOutbound
  <2>2. n \in Nat /\ n <= queue[c] /\ queue[c] \in Nat /\ (n = 0 => queue[c] = 0)
    BY <1>0, ServerBounds
  <2> HIDE DEF n
  <2>3. queue' \in [Conns -> Nat] /\ armed' \subseteq armed
    BY <1>0, <2>1, <2>2
  <2>4. \A d \in Conns : queue'[d] > 0 => d \in armed'
    BY <1>0, <2>1, <2>2
  <2>5. to \in {"checking", "feeding", "flushing"} /\ (c \in armed' => to = "feeding")
    BY <2>1, <2>2
  <2> HIDE DEF to
  <2> QED BY <2>1, <2>3, <2>4, <2>5, WriterKeeps
<1> QED BY <1>1, <1>3, <1>4, <1>5, <1>6, <1>7, <1>8, <1>9 DEF WriterStep

LEMMA NotifyKeeps ==
  ASSUME ServerInv, NEW c \in Conns, NEW d \in Conns, Notify(c, d)
  PROVE  ServerInv'
<1>1. /\ due' = [due EXCEPT ![c] = due[c] \ {d}] /\ permit' = permit \cup {d}
      /\ UNCHANGED <<known, queue, armed, handles, closing, reader, writer>>
  BY DEF Notify, PermitsAfter, relayVars
<1>2. \A e : Coming(e) => Coming(e)'
  <2> TAKE e
  <2> HAVE Coming(e)
  <2>1. CASE e \in permit \/ e = d BY <1>1, <2>1 DEF Coming
  <2>2. ASSUME NEW t \in Conns, e \in due[t], e # d PROVE Coming(e)'
    BY <1>1, <2>2 DEF Coming, ServerInv, ServerTypes
  <2> QED BY <2>1, <2>2 DEF Coming
<1>3. ServerTypes' BY <1>1 DEF ServerInv, ServerTypes
<1> QED BY <1>1, <1>2, <1>3 DEF ServerInv, NobodyLeftBehind, ForgottenFirst, ArmedIsWoken, ClosingIsSeen

\* A reader that only moves on.
LEMMA ReaderMoves ==
  ASSUME ServerInv, NEW c \in Conns, NEW at \in {"ending", "aborting"}, reader' = [reader EXCEPT ![c] = at],
         reader[c] \notin {"new", "gone"}, at = "aborting" => reader[c] = "lingering",
         UNCHANGED <<known, queue, armed, handles, permit, closing, writer, due>>
  PROVE  ServerInv'
<1>1. ServerTypes' BY DEF ServerInv, ServerTypes
<1>2. NobodyLeftBehind' /\ ForgottenFirst' BY DEF ServerInv, ServerTypes, NobodyLeftBehind, ForgottenFirst
<1>3. ArmedIsWoken' /\ ClosingIsSeen' BY DEF ServerInv, ArmedIsWoken, ClosingIsSeen, Coming
<1> QED BY <1>1, <1>2, <1>3 DEF ServerInv

LEMMA GoneKeeps ==
  ASSUME ServerInv, NEW c \in Conns, Gone(c)
  PROVE  ServerInv'
<1>1. /\ reader[c] = "aborting" /\ writer' = [writer EXCEPT ![c] = "ended"] /\ handles' = handles \ {c}
      /\ reader' = [reader EXCEPT ![c] = "gone"] /\ UNCHANGED <<known, queue, armed, permit, closing, due>>
  BY DEF Gone, ReaderAt, relayVars
<1>2. ServerTypes' BY <1>1 DEF ServerInv, ServerTypes
<1>3. c \notin known BY <1>1 DEF ServerInv, ForgottenFirst
<1>4. NobodyLeftBehind' BY <1>1, <1>3 DEF ServerInv, ServerTypes, NobodyLeftBehind
<1>5. ForgottenFirst' BY <1>1 DEF ServerInv, ServerTypes, ForgottenFirst
<1>6. ArmedIsWoken' /\ ClosingIsSeen'
  BY <1>1 DEF ServerInv, ServerTypes, ArmedIsWoken, ClosingIsSeen, Coming
<1> QED BY <1>2, <1>4, <1>5, <1>6 DEF ServerInv

LEMMA ReaderKeeps ==
  ASSUME ServerInv, NEW c \in Conns, ReaderGoesOn(c) \/ ReaderStops(c) \/ ReaderHears(c)
  PROVE  ServerInv'
<1>0. reader \in [Conns -> {"new", "reading", "throttled", "ending", "flushing", "lingering", "aborting", "gone"}]
  BY DEF ServerInv, ServerTypes
<1>1. ASSUME NEW T, NEW refused, HandOver(c, T, refused) PROVE ServerInv'
  BY <1>1, OnShardKeeps DEF HandOver, ReaderAt
<1>2. ASSUME NEW T, NEW refused, Receive(c, T, refused) PROVE ServerInv'
  <2>1. reader' = [reader EXCEPT ![c] = "reading"] /\ reader[c] = "reading" /\ due[c] = {}
    BY <1>0, <1>2 DEF Receive, ReaderAt
  <2> QED BY <1>2, <2>1, OnShardKeeps DEF Receive
<1>3. ASSUME NEW notice, Throttle(c, notice) PROVE ServerInv'
  BY <1>3, OnShardKeeps DEF Throttle, ReaderAt
<1>4. CASE Refuse(c)
  BY <1>4, OnShardKeeps DEF Refuse, ReaderAt
<1>5. CASE Forget(c)
  <2> DEFINE at == IF reader[c] = "ending" THEN "aborting" ELSE "lingering"
  <2>1. /\ reader' = [reader EXCEPT ![c] = at] /\ reader[c] \in {"ending", "flushing"} /\ due[c] = {}
        /\ OnShard(c, OneFrameTo({}), {c}, {}) /\ UNCHANGED <<writer, peer>>
    BY <1>5 DEF Forget, ReaderAt, ForgottenAtEnd
  <2>2. at \in {"lingering", "aborting"} OBVIOUS
  <2> HIDE DEF at
  <2> QED BY <2>1, <2>2, OnShardKeeps
<1>6. CASE Linger(c)
  BY <1>6, ReaderMoves DEF Linger, ReaderAt, relayVars
<1>7. CASE PeerEnded(c) \/ WriterDone(c)
  BY <1>7, ReaderMoves DEF PeerEnded, WriterDone, ReaderAt, relayVars
<1> QED BY <1>1, <1>2, <1>3, <1>4, <1>5, <1>6, <1>7, NotifyKeeps, GoneKeeps, ConnectKeeps
      DEF ReaderGoesOn, ReaderStops, ReaderHears

LEMMA ServerStep == ServerInv /\ [Next]_vars => ServerInv'
<1> SUFFICES ASSUME ServerInv, [Next]_vars PROVE ServerInv' OBVIOUS
<1>1. ASSUME NEW c \in Conns, PeerLeaves(c) PROVE ServerInv'
  BY <1>1 DEF PeerLeaves, relayVars, ServerInv, ServerTypes, NobodyLeftBehind, ForgottenFirst, ArmedIsWoken,
       ClosingIsSeen, Coming
<1>2. CASE UNCHANGED vars
  BY <1>2 DEF vars, relayVars, ServerInv, ServerTypes, NobodyLeftBehind, ForgottenFirst, ArmedIsWoken,
       ClosingIsSeen, Coming
<1> QED BY <1>1, <1>2, WriterStepKeeps, ReaderKeeps DEF Next

\* The relay and the handles agree (connection, Shared::connect): for any number of
\* sockets, nobody is known to the relay without a handle, and nobody whose socket
\* is over is known at all.
THEOREM NobodyIsLeftBehind == Spec => []NobodyLeftBehind
<1>1. ServerInv => NobodyLeftBehind BY DEF ServerInv
<1> QED BY <1>1, ServerInitially, ServerStep, PTL DEF Spec

\* The writer's wakes (on_shard, Notify, take_outbound): for any number of sockets and
\* any batch, a writer that waits while frames or a closing frame are there for it has
\* a permit, stored or about to be.
THEOREM WritersAreWoken == Spec => []WakeReachesWriter
<1>1. ServerInv => WakeReachesWriter
  BY DEF ServerInv, ArmedIsWoken, ClosingIsSeen, Coming, WakeReachesWriter
<1> QED BY <1>1, ServerInitially, ServerStep, PTL DEF Spec

=============================================================================
