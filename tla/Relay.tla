-------------------------------- MODULE Relay --------------------------------
(***************************************************************************)
(* The relay core of one shard (crates/relay/src/lib.rs): accounts,        *)
(* connections, streams with their rings, and every call the server makes  *)
(* of it. A call holds the shard's lock, so calls do not interleave; the   *)
(* two loops inside a call that may close a connection part way (pushing a *)
(* backfill, applying closes and the presence they cause) are steps here,  *)
(* and no other call starts before they are over (Idle).                   *)
(*                                                                         *)
(* Left to other modules: the work budget (its refusals of a connect       *)
(* change nothing here, its THROTTLED notice is an Answer), authentication *)
(* and the sockets.                                                        *)
(***************************************************************************)
EXTENDS Outbound

CONSTANTS
  MaxConn,      \* bound: connection ids handed out
  MaxPublish    \* bound: envelopes published

ASSUME BoundsAreNaturals == MaxConn \in Nat /\ MaxPublish \in Nat

Conns  == 1..MaxConn
NoConn == 0

VARIABLES
  accounts,     \* accounts the relay holds state for
  conns,        \* connections it knows
  peer,         \* <<account, principal>> of each connection
  online,       \* the connection of each principal of each account, or NoConn
  subs,         \* streams each connection subscribes to
  out,          \* each connection's outbound queue
  armed,        \* connections with a wake outstanding
  streams,      \* streams with an entry
  ring,         \* each stream's ring, or NoRing
  subscribers,  \* connections subscribed to each stream
  ringFrames,   \* frames retained per account
  nextConn, nextEpoch, clock,
  filling,      \* the backfill being pushed: connection, stream and what is left
  closing,      \* connections this call has still to close
  woken,        \* connections the server was told to drain and has not drained since
  \* what peers know, for the properties only
  cursor,       \* per connection and stream: the seq through which it has everything sent or accounted
  published,    \* per stream: the coalesce key of every seq of its current ring
  directory     \* per connection: the principals its received presence says are online

connVars   == <<accounts, conns, peer, online, nextConn>>
streamVars == <<streams, ring, subscribers, ringFrames, nextEpoch, clock, published>>
queueVars  == <<out, armed, woken, closing>>
vars == <<connVars, subs, queueVars, streamVars, filling, cursor, directory>>

NoFill == [conn |-> NoConn, stream |-> NoStream, rest |-> <<>>]
Idle   == filling = NoFill /\ closing = {}

AccountOf(c) == peer[c][1]
PrincipalOf(c) == peer[c][2]
ConnsOf(a)   == {c \in conns : AccountOf(c) = a}
StreamsOf(a) == {k \in streams : k[1] = a}
OnlineIn(a)  == {p \in Principals : online[<<a, p>>] # NoConn}

Init ==
  /\ accounts = {} /\ conns = {} /\ closing = {} /\ armed = {} /\ woken = {} /\ streams = {}
  /\ peer = [c \in Conns |-> <<>>]
  /\ online = [ap \in Accounts \X Principals |-> NoConn]
  /\ subs = [c \in Conns |-> {}]
  /\ out = [c \in Conns |-> EmptyQueue]
  /\ ring = [k \in Streams |-> NoRing]
  /\ subscribers = [k \in Streams |-> {}]
  /\ ringFrames = [a \in Accounts |-> 0]
  /\ nextConn = 1 /\ nextEpoch = 1 /\ clock = 0
  /\ filling = NoFill
  /\ cursor = [c \in Conns |-> [k \in Streams |-> 0]]
  /\ published = [k \in Streams |-> <<>>]
  /\ directory = [c \in Conns |-> {}]

-----------------------------------------------------------------------------
(***************************************************************************)
(* Queueing.                                                               *)
(***************************************************************************)

\* Wrong: who leaves is still armed, woken and to be closed.
DeliverToTheGone(q, D, it, fresh, gone) ==
  LET took == {c \in D : Takes(q[c], it)} IN
  /\ out'     = [c \in Conns |-> IF c \in D THEN Push(q[c], it) ELSE q[c]]
  /\ armed'   = armed \cup took \cup fresh
  /\ woken'   = woken \cup (took \ armed) \cup fresh
  /\ closing' = closing \cup (D \ took)

\* Push it to every connection of D, on the queues q: those that take it are
\* armed, and woken unless a wake is already outstanding; those that cannot are
\* to be closed as slow consumers. The connections of fresh join, and those of
\* gone leave, in the same step.
Deliver(q, D, it, fresh, gone) ==
  LET took == {c \in D : Takes(q[c], it)} IN
  /\ out'     = [c \in Conns |-> IF c \in D THEN Push(q[c], it) ELSE q[c]]
  /\ armed'   = (armed \cup took \cup fresh) \ gone
  /\ woken'   = (woken \cup (took \ armed) \cup fresh) \ gone
  /\ closing' = (closing \cup (D \ took)) \ gone

\* enqueue: one frame for one connection.
Enqueue(c, kind, p) == Deliver(out, {c}, Frame(kind, p), {}, {})

CloseConn(c) ==
  /\ closing' = closing \cup {c}
  /\ UNCHANGED <<out, armed, woken>>

-----------------------------------------------------------------------------
(***************************************************************************)
(* Connecting and leaving.                                                 *)
(***************************************************************************)

Orders(S) == {f \in [1..Cardinality(S) -> S] : \A i, j \in DOMAIN f : f[i] = f[j] => i = j}

\* Wrong: a principal may be online twice.
MayConnectTwice(a, p) ==
  /\ a \in accounts \/ Cardinality(accounts) < MaxAccounts
  /\ Cardinality(ConnsOf(a)) < MaxConnectionsPerAccount

MayConnect(a, p) ==
  /\ a \in accounts \/ Cardinality(accounts) < MaxAccounts
  /\ online[<<a, p>>] = NoConn
  /\ Cardinality(ConnsOf(a)) < MaxConnectionsPerAccount

\* Wrong: a newcomer is not told who is online.
WelcomeQueueAlone(p, order) ==
  [EmptyQueue EXCEPT !.items = <<Frame("welcome", p)>>, !.frames = 1]

\* The welcome and the presence of everyone online, in whatever order the map
\* yields them, on a queue of its own: a refusal of it is ignored.
WelcomeQueue(p, order) ==
  [EmptyQueue EXCEPT
     !.items  = <<Frame("welcome", p)>> \o [i \in DOMAIN order |-> Frame("online", order[i])],
     !.frames = 1 + Len(order)]

Connect(a, p) ==
  /\ Idle
  /\ nextConn <= MaxConn
  /\ MayConnect(a, p)
  /\ accounts' = accounts \cup {a}
  /\ conns' = conns \cup {nextConn}
  /\ peer' = [peer EXCEPT ![nextConn] = <<a, p>>]
  /\ online' = [online EXCEPT ![<<a, p>>] = nextConn]
  /\ nextConn' = nextConn + 1
  /\ \E order \in Orders(OnlineIn(a)) :
       Deliver([out EXCEPT ![nextConn] = WelcomeQueue(p, order)],
               ConnsOf(a), Frame("online", p), {nextConn}, {})
  /\ UNCHANGED <<subs, streamVars, filling, cursor, directory>>

\* Wrong: an unused stream entry stays.
AbandonedNever(c, K) == {}

\* The streams c leaves with neither a subscriber nor a ring lose their entry.
Abandoned(c, K) == {k \in K : subscribers[k] \subseteq {c} /\ ring[k] = NoRing}

\* forget: c is gone, and the others of its account are told.
Forget(c) ==
  LET a      == AccountOf(c)
      others == ConnsOf(a) \ {c}
      left   == streams \ Abandoned(c, subs[c])
  IN
  /\ conns' = conns \ {c}
  /\ online' = [online EXCEPT ![peer[c]] = IF @ = c THEN NoConn ELSE @]
  /\ streams' = left
  /\ subscribers' = [k \in Streams |-> IF k \in subs[c] THEN subscribers[k] \ {c} ELSE subscribers[k]]
  /\ subs' = [subs EXCEPT ![c] = {}]
  /\ accounts' = IF others = {} /\ ~\E k \in left : k[1] = a THEN accounts \ {a} ELSE accounts
  /\ Deliver([out EXCEPT ![c] = EmptyQueue], others, Frame("offline", PrincipalOf(c)), {}, {c})
  /\ cursor' = [cursor EXCEPT ![c] = [k \in Streams |-> 0]]
  /\ directory' = [directory EXCEPT ![c] = {}]
  /\ UNCHANGED <<peer, nextConn, ring, ringFrames, nextEpoch, clock, published, filling>>

\* close without a frame: the socket went away.
Disconnect(c) == Idle /\ c \in conns /\ Forget(c)

\* finish: apply the closes one at a time; each may cause more. The code pops
\* the most recent; hash order decides how one call's closes were pushed.
FinishClose(c) == filling = NoFill /\ c \in closing /\ Forget(c)

-----------------------------------------------------------------------------
(***************************************************************************)
(* Frames that reach one connection.                                       *)
(***************************************************************************)

\* Frames answered to their sender and nothing else: a ping, an unknown frame
\* or kind, an address that does not fit its kind, a malformed stream; and the
\* server's own deliveries, the THROTTLED notice of a charge among them.
Answer(c) ==
  /\ Idle /\ c \in conns
  /\ Enqueue(c, "answer", PrincipalOf(c))
  /\ UNCHANGED <<connVars, subs, streamVars, filling, cursor, directory>>

\* Frames no peer may send, and payloads or coalesce keys over their limits: the
\* sender is closed. Also close with a frame: what the server could not decode.
Offend(c) ==
  /\ Idle /\ c \in conns
  /\ CloseConn(c)
  /\ UNCHANGED <<connVars, subs, streamVars, filling, cursor, directory>>

\* direct: to the one connection of the recipient, or an error back. The
\* recipient that cannot take it is closed, and the sender is told.
Direct(c, p) ==
  LET target == online[<<AccountOf(c), p>>]
      it     == Frame("direct", PrincipalOf(c))
      answer == Frame("answer", PrincipalOf(c))
      after  == [out EXCEPT ![target] = Push(@, it)]
      told   == IF Takes(after[c], answer) THEN {c} ELSE {}
  IN
  /\ Idle /\ c \in conns
  /\ \/ target = NoConn /\ Deliver(out, {c}, answer, {}, {})
     \/ target # NoConn /\ Takes(out[target], it) /\ Deliver(out, {target}, it, {}, {})
     \/ /\ target # NoConn /\ ~Takes(out[target], it)
        /\ out' = [after EXCEPT ![c] = Push(@, answer)]
        /\ armed' = armed \cup told
        /\ woken' = woken \cup (told \ armed)
        /\ closing' = {target} \cup ({c} \ told)
  /\ UNCHANGED <<connVars, subs, streamVars, filling, cursor, directory>>

-----------------------------------------------------------------------------
(***************************************************************************)
(* Streams: publishing, subscribing, backfilling.                          *)
(***************************************************************************)

\* Wrong: a stream in use may be evicted.
UnwatchedOrNot(a) == StreamsOf(a)

\* ensure_stream: what making room for stream k may evict. {NoStream}: nothing
\* need go; {}: the account is at its limit and every stream has a subscriber.
Unwatched(a) == {k \in StreamsOf(a) : subscribers[k] = {}}

Evictable(k) ==
  IF k \in streams \/ Cardinality(StreamsOf(k[1])) < MaxStreamsPerAccount THEN {NoStream}
  ELSE {v \in Unwatched(k[1]) : \A w \in Unwatched(k[1]) : ring[v].touched <= ring[w].touched}

StreamsWith(k, victim) == (streams \ {victim}) \cup {k}
RingsWithout(victim)   == [k \in Streams |-> IF k = victim THEN NoRing ELSE ring[k]]
FramesWithout(victim)  ==
  [a \in Accounts |-> IF victim # NoStream /\ victim[1] = a
                       THEN ringFrames[a] - Len(ring[victim].entries) ELSE ringFrames[a]]

\* enforce_ring_budget: over the account's budget, the largest ring (whichever
\* the map yields last among equals) gives up its oldest entry. A publish adds
\* one entry, so one is enough.
OverBudget(rings, frames, a) ==
  IF frames[a] <= AccountRingFrames THEN {NoStream}
  ELSE {k \in Streams : /\ k[1] = a /\ rings[k].entries # <<>>
                        /\ \A j \in Streams : j[1] = a =>
                             Len(rings[j].entries) <= Len(rings[k].entries)}

PublishTo(c, k, kind, key, victim) ==
  LET evicted == RingsWithout(victim)
      fresh   == evicted[k] = NoRing
      old     == IF fresh THEN NewRing(kind, nextEpoch, clock + 1) ELSE evicted[k]
      new     == PublishIn(old, key, clock + 1)
      rings   == [evicted EXCEPT ![k] = new]
      frames  == [FramesWithout(victim) EXCEPT
                    ![k[1]] = @ + Len(new.entries) - Len(old.entries)]
      entry   == [seq |-> new.seq, key |-> key]
  IN
  /\ streams' = StreamsWith(k, victim)
  /\ nextEpoch' = IF fresh THEN nextEpoch + 1 ELSE nextEpoch
  /\ clock' = clock + 1
  /\ published' = [published EXCEPT ![k] = IF fresh THEN <<key>> ELSE Append(@, key)]
  /\ Deliver(out, subscribers[k], PublishedItem(k, new, entry), {}, {})
  /\ \E r \in OverBudget(rings, frames, k[1]) :
       IF r = NoStream THEN ring' = rings /\ ringFrames' = frames
       ELSE /\ ring' = [rings EXCEPT ![r] = EvictOldest(@)]
            /\ ringFrames' = [frames EXCEPT ![k[1]] = @ - 1]
  /\ UNCHANGED subscribers

\* publish: a stream is the sender's own, keeps the kind of its first envelope,
\* and is opened at the cost of the least recently published one nobody watches.
Publish(c, ch, kind, key) ==
  LET k == <<AccountOf(c), PrincipalOf(c), ch>> IN
  /\ Idle /\ c \in conns
  /\ clock < MaxPublish
  /\ kind = "session" => key = NoKey
  /\ \/ /\ Evictable(k) = {}
        /\ CloseConn(c)
        /\ UNCHANGED streamVars
     \/ /\ ring[k] # NoRing /\ ring[k].kind # kind
        /\ Enqueue(c, "answer", PrincipalOf(c))
        /\ UNCHANGED streamVars
     \/ /\ ring[k] = NoRing \/ ring[k].kind = kind
        /\ \E victim \in Evictable(k) : PublishTo(c, k, kind, key, victim)
  /\ UNCHANGED <<connVars, subs, filling, cursor, directory>>

\* The positions a client may resume from: none, any of the current ring, or
\* one of a ring that is gone (epoch 0 stands for every other epoch).
Sinces(k) ==
  {NoPosition} \cup {Position(0, n) : n \in {0, 1}}
  \cup (IF ring[k] = NoRing THEN {} ELSE {Position(ring[k].epoch, n) : n \in 0..ring[k].seq})

\* The seq a subscriber holding since needs nothing up to, once it has been told
\* of a truncation: the one before the first entry it is sent.
CursorAfter(r, since) ==
  IF r = NoRing THEN 0
  ELSE IF Truncated(r, since) THEN FirstRetained(r) - 1
  ELSE After(r, since)

\* on_subscribe, up to its backfill.
Subscribe(c, k, since) ==
  /\ Idle /\ c \in conns
  /\ k[1] = AccountOf(c)
  /\ \/ /\ \/ k \notin subs[c] /\ Cardinality(subs[c]) >= MaxSubscriptionsPerConnection
           \/ Evictable(k) = {}
        /\ CloseConn(c)
        /\ UNCHANGED <<subs, streamVars, filling, cursor>>
     \/ /\ k \in subs[c] \/ Cardinality(subs[c]) < MaxSubscriptionsPerConnection
        /\ \E victim \in Evictable(k) :
             /\ streams' = StreamsWith(k, victim)
             /\ ring' = RingsWithout(victim)
             /\ ringFrames' = FramesWithout(victim)
        /\ subscribers' = [subscribers EXCEPT ![k] = @ \cup {c}]
        /\ subs' = [subs EXCEPT ![c] = @ \cup {k}]
        /\ out' = [out EXCEPT ![c] = PurgeStream(@, k)]
        /\ filling' = [conn |-> c, stream |-> k, rest |-> BackfillEntries(ring[k], since)]
        /\ cursor' = [cursor EXCEPT ![c][k] = CursorAfter(ring[k], since)]
        /\ UNCHANGED <<armed, woken, closing, nextEpoch, clock, published>>
  /\ UNCHANGED <<connVars, directory>>

\* Its loop: push the next entry, or close and stop at the first that does not
\* fit. Entries are not announced one by one; the Backfilled after them is.
BackfillEntry ==
  LET c  == filling.conn
      it == PublishedItem(filling.stream, ring[filling.stream], Head(filling.rest))
  IN
  /\ filling # NoFill /\ filling.rest # <<>>
  /\ out' = [out EXCEPT ![c] = Push(@, it)]
  /\ IF Takes(out[c], it)
     THEN filling' = [filling EXCEPT !.rest = Tail(@)] /\ UNCHANGED closing
     ELSE filling' = NoFill /\ closing' = closing \cup {c}
  /\ UNCHANGED <<connVars, subs, armed, woken, streamVars, cursor, directory>>

Backfilled ==
  /\ filling # NoFill /\ filling.rest = <<>>
  /\ Enqueue(filling.conn, "backfilled", filling.stream[2])
  /\ filling' = NoFill
  /\ UNCHANGED <<connVars, subs, streamVars, cursor, directory>>

Unsubscribe(c, k) ==
  /\ Idle /\ c \in conns
  /\ k[1] = AccountOf(c)
  /\ subs' = [subs EXCEPT ![c] = @ \ {k}]
  /\ out' = [out EXCEPT ![c] = PurgeStream(@, k)]
  /\ subscribers' = [subscribers EXCEPT ![k] = @ \ {c}]
  /\ streams' = streams \ Abandoned(c, {k} \cap streams)
  /\ cursor' = [cursor EXCEPT ![c][k] = 0]
  /\ UNCHANGED <<connVars, armed, woken, closing, ring, ringFrames, nextEpoch, clock, published,
                 filling, directory>>

-----------------------------------------------------------------------------
(***************************************************************************)
(* Draining. The server takes on a wake and keeps taking while there is    *)
(* more, so a take of a whole budget is that many takes of one frame.      *)
(***************************************************************************)
Learn(view, it) ==
  CASE it.kind = "online"  -> view \cup {it.about}
    [] it.kind = "offline" -> view \ {it.about}
    [] OTHER -> view

\* Wrong: the flag stays up after the last frame is taken.
StillArmed(c, more) == armed

\* The wake is used up once nothing is left, so that the next frame wakes again.
StillArmedAfter(c, more) == IF more THEN armed ELSE armed \ {c}

TakeOutbound(c) ==
  LET q    == out[c]
      rest == TakeFrame(q)
      it   == Head(q.items)
      more == Len(q.items) > 1
  IN
  /\ Idle /\ c \in woken
  /\ armed' = StillArmedAfter(c, more)
  /\ woken' = IF more THEN woken ELSE woken \ {c}
  /\ IF q.items = <<>> THEN UNCHANGED <<out, cursor, directory>>
     ELSE /\ out' = [out EXCEPT ![c] = rest]
          /\ cursor' = IF it.kind \in Published
                       THEN [cursor EXCEPT ![c][it.stream] = it.seq] ELSE cursor
          /\ directory' = [directory EXCEPT ![c] = Learn(@, it)]
  /\ UNCHANGED <<connVars, subs, streamVars, closing, filling>>

Next ==
  \/ \E a \in Accounts, p \in Principals : Connect(a, p)
  \/ \E c \in Conns :
       \/ Disconnect(c) \/ FinishClose(c)
       \/ Answer(c) \/ Offend(c)
       \/ \E p \in Principals : Direct(c, p)
       \/ \E ch \in Channels, kind \in Published, key \in Keys \cup {NoKey} : Publish(c, ch, kind, key)
       \/ \E k \in Streams : \/ \E since \in Sinces(k) : Subscribe(c, k, since)
                            \/ Unsubscribe(c, k)
       \/ TakeOutbound(c)
  \/ BackfillEntry
  \/ Backfilled

Spec == Init /\ [][Next]_vars

-----------------------------------------------------------------------------
(***************************************************************************)
(* Properties. A connection in closing is forgotten before the call that   *)
(* put it there returns, so what it is owed is moot: Steady leaves it out. *)
(***************************************************************************)
Steady == conns \ closing

\* The values every variable ranges over.
TypeOK ==
  /\ accounts \subseteq Accounts
  /\ conns \subseteq Conns /\ closing \subseteq conns
  /\ armed \subseteq conns /\ woken \subseteq conns
  /\ peer \in [Conns -> (Accounts \X Principals) \cup {<<>>}]
  /\ \A c \in conns : peer[c] \in Accounts \X Principals /\ c < nextConn
  /\ online \in [Accounts \X Principals -> Conns \cup {NoConn}]
  /\ subs \in [Conns -> SUBSET Streams]
  /\ out \in [Conns -> Queues]
  /\ streams \subseteq Streams
  /\ ring \in [Streams -> Rings \cup {NoRing}]
  /\ subscribers \in [Streams -> SUBSET Conns]
  /\ ringFrames \in [Accounts -> Int]
  /\ nextConn \in 1..(MaxConn + 1) /\ nextEpoch \in Nat \ {0} /\ clock \in 0..MaxPublish
  /\ filling \in [conn : Conns, stream : Streams, rest : Seq(Entries)] \cup {NoFill}
  /\ cursor \in [Conns -> [Streams -> Nat]]
  /\ published \in [Streams -> Seq(Keys \cup {NoKey})]
  /\ directory \in [Conns -> SUBSET Principals]

\* Connections, principals and subscriptions name each other consistently: one
\* connection per principal of an account (connect refuses a second), a stream's
\* subscribers are exactly the connections subscribed to it, and a connection
\* subscribes only within its own account; a backfill feeds a live subscription
\* from the ring it was read from. The code's expect() calls rest on it.
RegistryAgrees ==
  /\ \A c \in conns : online[peer[c]] = c /\ AccountOf(c) \in accounts
  /\ \A ap \in Accounts \X Principals :
       online[ap] # NoConn => online[ap] \in conns /\ peer[online[ap]] = ap
  /\ \A c \in Conns, k \in Streams : k \in subs[c] <=> c \in subscribers[k]
  /\ \A c \in Conns : \A k \in subs[c] : c \in conns /\ k[1] = AccountOf(c)
  /\ filling # NoFill => /\ filling.stream \in subs[filling.conn]
                         /\ filling.rest # <<>> => ring[filling.stream] # NoRing

\* Nothing outlives its use: a stream entry has a ring or a subscriber, an
\* account has a connection or a stream, whatever order peers subscribe, leave
\* and are closed in (unsubscribe, forget, ensure_stream).
NothingLeftBehind ==
  /\ \A k \in Streams : k \in streams <=> (ring[k] # NoRing \/ subscribers[k] # {})
  /\ \A a \in Accounts : a \in accounts <=> (ConnsOf(a) # {} \/ StreamsOf(a) # {})

\* The seqs of stream k that c still has coming: queued, or left of its backfill.
QueuedSeqs(c, k) ==
  {out[c].items[i].seq : i \in {j \in DOMAIN out[c].items : out[c].items[j].stream = k}}
FillSeqs(c, k) ==
  IF filling.conn = c /\ filling.stream = k
  THEN {filling.rest[i].seq : i \in DOMAIN filling.rest} ELSE {}
Coming(c, k) == QueuedSeqs(c, k) \cup FillSeqs(c, k)

\* Whatever is queued is of a stream still subscribed to, of its ring's epoch
\* and kind, and in strictly increasing seq order past what was delivered:
\* coalescing, repeated Subscribes and evictions included (queue.rs: "Every
\* published stream is delivered in seq order").
InSeqOrder ==
  \A c \in conns : LET it == out[c].items IN
    /\ \A i \in DOMAIN it : it[i].kind \in Published =>
         LET k == it[i].stream IN
         /\ k \in subs[c] /\ it[i].epoch = ring[k].epoch /\ it[i].kind = ring[k].kind
         /\ cursor[c][k] < it[i].seq /\ it[i].seq <= ring[k].seq
         /\ \A n \in FillSeqs(c, k) : it[i].seq < n
    /\ \A i, j \in DOMAIN it :
         i < j /\ it[i].kind \in Published /\ it[j].stream = it[i].stream => it[i].seq < it[j].seq

\* A subscriber of session events never misses one silently: all it has not been
\* sent, from the position it gave (or the truncation it was told of) to the
\* newest, is queued for it, or it is closed (queue.rs: "never dropped").
NoSilentLoss ==
  \A c \in Steady : \A k \in subs[c] : ring[k].kind = "session" =>
    Coming(c, k) = (cursor[c][k] + 1)..ring[k].seq

\* Telemetry goes missing only by being superseded by a newer envelope of the
\* same key, or counted in the Gap the stream owes, and the Gap never counts
\* more than is missing.
Missing(c, k) == ((cursor[c][k] + 1)..ring[k].seq) \ Coming(c, k)
Superseded(k, n) ==
  published[k][n] # NoKey /\ \E m \in (n + 1)..ring[k].seq : published[k][m] = published[k][n]

TelemetryLossAccounted ==
  \A c \in Steady : \A k \in subs[c] : ring[k].kind = "telemetry" =>
    /\ Cardinality({n \in Missing(c, k) : ~Superseded(k, n)}) <= out[c].dropped[k]
    /\ out[c].dropped[k] <= Cardinality(Missing(c, k))

\* Both kinds: nothing a subscriber was to be sent goes missing unaccounted for.
LossAccounted == NoSilentLoss /\ TelemetryLossAccounted

\* The counters kept beside a queue are its contents', after any mixture of
\* pushes, coalescing, drops, purges and takes, and no queue is over its bounds.
QueueAccounted ==
  \A c \in conns : LET q == out[c] IN
    /\ q.frames = Len(q.items)
    /\ q.session = Cardinality(IndicesOf(q, "session"))
    /\ q.telemetry = Cardinality(IndicesOf(q, "telemetry"))
    /\ q.session <= QueueSessionEvents /\ q.telemetry <= TelemetryBound
    /\ c \in Steady => q.frames <= QueueFrames

\* A queue is in order and is what its counters say, whatever was pushed, coalesced,
\* dropped, purged or taken.
QueueSound == InSeqOrder /\ QueueAccounted

\* What a ring retains is the unbroken end of its stream, and an account's
\* retained total is what its rings hold, within its budget.
RingsRetainTheEnd ==
  /\ \A k \in Streams : \A i \in DOMAIN ring[k].entries :
       ring[k].entries[i].seq = ring[k].seq - Len(ring[k].entries) + i
  /\ \A a \in Accounts :
       /\ ringFrames[a] = Cardinality({e \in Streams \X (1..MaxPublish) :
                                          e[1][1] = a /\ e[2] <= Len(ring[e[1]].entries)})
       /\ ringFrames[a] <= AccountRingFrames

\* What the relay keeps of its streams is what has a use, and in full: through
\* evictions, departures and accounts that come and go.
StreamsKept == NothingLeftBehind /\ RingsRetainTheEnd

\* A peer that plays the presence it received, then what is queued for it, knows
\* exactly who else of its account is online: through connects, closes, and
\* closes caused by the presence of closes (PROTOCOL.md: "every online principal
\* right after Welcome, then each change").
LastWord(c, p) ==
  LET said == {i \in DOMAIN out[c].items : /\ out[c].items[i].kind \in {"online", "offline"}
                                           /\ out[c].items[i].about = p}
  IN  IF said = {} THEN p \in directory[c]
      ELSE out[c].items[CHOOSE i \in said : \A j \in said : j <= i].kind = "online"

DirectoryConverges ==
  \A c \in Steady : \A p \in Principals \ {PrincipalOf(c)} :
    LastWord(c, p) <=> online[<<AccountOf(c), p>>] # NoConn

\* A connection with frames queued has a wake the server has not used up, so its
\* writer never sleeps on them (lib.rs: a wake is "sent once per drain").
NoLostWake ==
  \A c \in Steady : out[c].items # <<>> /\ filling.conn # c => c \in woken

\* No step takes a plain frame (presence, direct, answers) away from a live
\* connection except the oldest one, by sending it: they are never dropped,
\* reordered or purged with a stream.
PlainOf(q) == AtIndices(q.items, {i \in DOMAIN q.items : q.items[i].kind \in Plain})
IsPrefixOf(s, t) == Len(s) <= Len(t) /\ SubSeq(t, 1, Len(s)) = s

PlainFramesKept ==
  [][\A c \in conns \cap conns' :
       LET was == PlainOf(out[c])
           is  == PlainOf(out'[c])
       IN  \/ IsPrefixOf(was, is)
           \/ is = Tail(was) /\ out'[c].items = Tail(out[c].items)]_vars

\* The ring under a subscription is never replaced or rewound: its epoch stays
\* and its seq only grows for as long as anyone stays subscribed (ensure_stream
\* evicts only streams nobody watches).
WatchedRingStays ==
  [][\A c \in conns \cap conns' : \A k \in subs[c] \cap subs'[c] :
       ring[k] # NoRing => ring'[k].epoch = ring[k].epoch /\ ring[k].seq <= ring'[k].seq]_vars

=============================================================================
