------------------------------ MODULE Outbound ------------------------------
(***************************************************************************)
(* One connection's outbound queue (crates/relay/src/queue.rs), where      *)
(* backpressure is decided by kind: session events and every unpublished   *)
(* frame are never dropped, and past their bound the connection is a slow  *)
(* consumer; telemetry is coalesced, and past its bound the oldest is      *)
(* dropped and counted for its stream.                                     *)
(*                                                                         *)
(* A queue is a record of the items and the counters the code keeps beside *)
(* them: queued frames (the code's bytes, one unit a frame), session       *)
(* events, telemetry, and the unreported drops of each stream.             *)
(***************************************************************************)
EXTENDS Ring

CONSTANTS
  Accounts, Principals, Channels,
  NoStream       \* the stream of an item that was not published on one

\* A stream is an account's (publisher, channel): StreamKey inside Account.
Streams == Accounts \X Principals \X Channels

ASSUME NoStreamIsNone == NoStream \notin Streams
ASSUME FinitelyMany == IsFiniteSet(Accounts) /\ IsFiniteSet(Principals) /\ IsFiniteSet(Channels)

Published == {"session", "telemetry"}
Plain     == {"welcome", "online", "offline", "backfilled", "direct", "answer"}

\* A published envelope, and any other frame, about (or from) a principal.
Item == [kind : Published, stream : Streams, epoch : Nat, seq : Nat, key : Keys \cup {NoKey}]
        \cup [kind : Plain, stream : {NoStream}, about : Principals]

PublishedItem(k, r, e) ==
  [kind |-> r.kind, stream |-> k, epoch |-> r.epoch, seq |-> e.seq, key |-> e.key]
Frame(kind, p) == [kind |-> kind, stream |-> NoStream, about |-> p]

Queues == [items : Seq(Item), frames : Int, session : Int, telemetry : Int,
           dropped : [Streams -> Nat]]

EmptyQueue == [items |-> <<>>, frames |-> 0, session |-> 0, telemetry |-> 0,
               dropped |-> [k \in Streams |-> 0]]

IndicesOf(q, kind) == {i \in DOMAIN q.items : q.items[i].kind = kind}

First(I) == CHOOSE i \in I : \A j \in I : i <= j

\* Take the item at index i out of the queue, leaving the rest in order.
RemoveItem(q, i) ==
  LET it == q.items[i] IN
  [q EXCEPT !.items     = SubSeq(@, 1, i - 1) \o SubSeq(@, i + 1, Len(@)),
            !.frames    = @ - 1,
            !.session   = IF it.kind = "session" THEN @ - 1 ELSE @,
            !.telemetry = IF it.kind = "telemetry" THEN @ - 1 ELSE @]

\* A queued envelope of the same stream with the same non-empty key is
\* superseded: removed, uncounted, before the newer one is appended.
CoalesceTargets(q, it) ==
  {i \in DOMAIN q.items : /\ it.key # NoKey
                          /\ q.items[i].kind = "telemetry"
                          /\ q.items[i].stream = it.stream
                          /\ q.items[i].key = it.key}

Coalesce(q, it) ==
  IF CoalesceTargets(q, it) = {} THEN q ELSE RemoveItem(q, First(CoalesceTargets(q, it)))

\* Wrong: the drop is not counted for the Gap; the oldest item of any kind goes.
DropOldestTelemetryUncounted(q) ==
  IF IndicesOf(q, "telemetry") = {} THEN q ELSE RemoveItem(q, First(IndicesOf(q, "telemetry")))

DropOldestOfAny(q) ==
  IF q.items = <<>> THEN q
  ELSE [RemoveItem(q, 1) EXCEPT
          !.dropped = [k \in Streams |-> IF q.items[1].stream = k THEN @[k] + 1 ELSE @[k]]]

DropOldestTelemetry(q) ==
  IF IndicesOf(q, "telemetry") = {} THEN q
  ELSE LET i == First(IndicesOf(q, "telemetry")) IN
       [RemoveItem(q, i) EXCEPT !.dropped[q.items[i].stream] = @ + 1]

\* Make room for one more telemetry item. The code loops while the count is at
\* the bound; no queue is ever past it (QueueAccounted), so one drop is enough.
MakeRoom(q) == IF q.telemetry >= TelemetryBound THEN DropOldestTelemetry(q) ELSE q

Add(q, it) ==
  [q EXCEPT !.items     = Append(@, it),
            !.frames    = @ + 1,
            !.session   = IF it.kind = "session" THEN @ + 1 ELSE @,
            !.telemetry = IF it.kind = "telemetry" THEN @ + 1 ELSE @]

\* Wrong: one session event too many.
SessionFullLate(q, it) == it.kind = "session" /\ q.session > QueueSessionEvents

\* push_frame and push_published: the queue after, and whether it took the
\* item. A session event past its bound is refused before it is queued; the
\* frame that exceeds the whole queue's bound is queued and then refused.
SessionFull(q, it) == it.kind = "session" /\ q.session >= QueueSessionEvents

\* Wrong: the newer envelope takes the place of the one it supersedes.
PushInPlace(q, it) ==
  IF SessionFull(q, it) THEN q
  ELSE IF it.kind # "telemetry" THEN Add(q, it)
  ELSE IF CoalesceTargets(q, it) # {} THEN [q EXCEPT !.items[First(CoalesceTargets(q, it))] = it]
  ELSE Add(MakeRoom(q), it)

Push(q, it) ==
  IF SessionFull(q, it) THEN q
  ELSE IF it.kind = "telemetry" THEN Add(MakeRoom(Coalesce(q, it)), it)
  ELSE Add(q, it)

Takes(q, it) == ~SessionFull(q, it) /\ Push(q, it).frames <= QueueFrames

\* purge_stream: nothing of the stream stays queued, and its unreported drops
\* are forgotten.
PurgeStream(q, k) ==
  LET gone == {i \in DOMAIN q.items : q.items[i].stream = k} IN
  [items     |-> AtIndices(q.items, DOMAIN q.items \ gone),
   frames    |-> q.frames - Cardinality(gone),
   session   |-> q.session - Cardinality(gone \cap IndicesOf(q, "session")),
   telemetry |-> q.telemetry - Cardinality(gone \cap IndicesOf(q, "telemetry")),
   dropped   |-> [q.dropped EXCEPT ![k] = 0]]

\* take: the oldest frame leaves. A telemetry envelope is preceded by the Gap
\* of its stream when drops are unreported, which settles them.
TakeFrame(q) ==
  LET it == Head(q.items) IN
  [RemoveItem(q, 1) EXCEPT
     !.dropped = [k \in Streams |->
                    IF it.kind = "telemetry" /\ it.stream = k THEN 0 ELSE @[k]]]

=============================================================================
