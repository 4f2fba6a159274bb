--------------------------------- MODULE Feed ---------------------------------
(***************************************************************************)
(* From a box to the hub (crates/connector/src/run.rs, events.rs and the   *)
(* publishing half of serve.rs; crates/box/src/lib.rs for what is read of  *)
(* a frame on the way): one side reads the box's stream and                *)
(* reconnects, asking for what was missed; a bounded channel; and the      *)
(* other side, which publishes what it has not published yet, remembers    *)
(* it, and tells the first side how far it got.                            *)
(*                                                                         *)
(* A frame is its place in the box's log, with the box's time and what can *)
(* be read of it; 0 stands for the hello a connection begins with.         *)
(* Backoffs are left out: a reconnect may come at any time. A reconnect    *)
(* reads the connector's clock to know how far back to ask, and the box    *)
(* answers by its own clock, later; either clock may be set in between, or *)
(* at any time. The box is external: it replays what its log has of the    *)
(* time it is asked for, in order, and then what happens.                  *)
(***************************************************************************)
EXTENDS Integers, Sequences, FiniteSets

CONSTANTS
  Slack,        \* BACKFILL_SLACK
  PendingFrames,
  Dedupe,       \* DEDUPE_FRAMES
  Never,        \* no time, no connection, no request, no promise
  BoxFrames,    \* what can be read of the frames of a box, but for its hellos
  MaxLog, LastBoxTime, MaxOut   \* bounds: frames, both clocks, publications

ASSUME FeedAssumption ==
  /\ {Slack, PendingFrames, Dedupe, MaxLog, LastBoxTime, MaxOut} \subseteq Nat /\ Never \notin Nat
  \* a hello is what a connection begins with, and no other frame
  /\ BoxFrames \subseteq [readable : BOOLEAN, kind : STRING \ {"hello"}, atMs : BOOLEAN]

VARIABLES
  boxTime, ownTime, \* the box's clock and the connector's
  log,              \* what happened at the box
  asking,           \* a request that the box has not got: how far back, and when
  link,             \* frames of the open connection not read yet, or Never
  waiting,          \* the channel
  recall,           \* Serving::seen
  newest,           \* the watch: the newest time published
  out,              \* what was published, in order
  from              \* from where on nothing may be missed; for the properties

feedVars == <<boxTime, ownTime, log, asking, link, waiting, recall, newest, out, from>>

FeedInit ==
  /\ boxTime \in 0..LastBoxTime /\ ownTime \in 0..LastBoxTime
  /\ log = <<>> /\ asking = Never /\ link = Never /\ waiting = <<>> /\ recall = <<>>
  /\ newest = Never /\ out = <<>> /\ from = Never

Members(s) == {s[i] : i \in DOMAIN s}

\* r is the frames of the log from a time on, in the log's order.
Replay(r, time) ==
  /\ \A i, j \in DOMAIN r : i < j => r[i] < r[j]
  /\ Members(r) = {i \in DOMAIN log : log[i].time >= time}

SomeOfLog == UNION {[1..n -> DOMAIN log] : n \in 0..Len(log)}

\* Wrong: no more than the gap.
SinceExact(now) == IF newest = Never THEN Never ELSE IF now > newest THEN now - newest ELSE 0

\* since: the gap up to the newest frame published, and some slack; with nothing
\* published yet, nothing is asked for again.
Since(now) == IF newest = Never THEN Never ELSE (IF now > newest THEN now - newest ELSE 0) + Slack

Hello == 0

\* read: what the tags say, as far as they parse.
Read(f) == IF f = Hello THEN [readable |-> TRUE, kind |-> "hello", atMs |-> TRUE] ELSE log[f].read

\* route: a hello is the connection's own business, and anything else is relayed, what
\* cannot be read too.
Consume(f) == Read(f).readable /\ Read(f).kind = "hello"

\* Something happens at the box, and is sent on an open connection.
Happens(frame) ==
  /\ Len(log) < MaxLog
  /\ log' = Append(log, [time |-> boxTime, read |-> frame])
  /\ link' = IF link = Never THEN Never ELSE Append(link, Len(log) + 1)
  /\ UNCHANGED <<boxTime, ownTime, asking, waiting, recall, newest, out, from>>

\* pass: how far back to ask is known before the connection is.
Pass ==
  /\ link = Never /\ asking = Never
  /\ asking' = [since |-> Since(ownTime), at |-> ownTime]
  /\ UNCHANGED <<boxTime, ownTime, log, link, waiting, recall, newest, out, from>>

\* How far the box's clock is past what the connector's said when it asked.
Ahead == boxTime - asking.at

\* How far the box's clock had gone back from one frame to another.
SetBack(i, j) == IF log[i].time > log[j].time THEN log[i].time - log[j].time ELSE 0

\* The slack is enough for this reconnect: it covers how far the box's clock is ahead, the
\* time until the box was reached included, together with how far it was set back after
\* a frame that was published.
SlackIsEnough == \A i \in Members(out), j \in DOMAIN log : i < j => Ahead + SetBack(i, j) <= Slack

\* Events::open: the box is reached and answers by its own clock.
OpenEvents ==
  /\ asking # Never /\ asking' = Never
  /\ \E r \in SomeOfLog :
       /\ IF asking.since = Never THEN r = <<>> ELSE Replay(r, boxTime - asking.since)
       /\ link' = <<Hello>> \o r
  /\ from' = IF asking.since # Never /\ SlackIsEnough THEN from ELSE Len(log) + 1
  /\ UNCHANGED <<boxTime, ownTime, log, waiting, recall, newest, out>>

\* next_frame: a hello is the connection's own, another is sent when the channel has
\* room for it.
HandOver ==
  /\ link # Never /\ link # <<>>
  /\ link' = Tail(link)
  /\ IF Consume(Head(link)) THEN UNCHANGED waiting
     ELSE Len(waiting) < PendingFrames /\ waiting' = Append(waiting, Head(link))
  /\ UNCHANGED <<boxTime, ownTime, log, asking, recall, newest, out, from>>

\* The box is not reached in time or does not answer; or the stream ends, fails, or is
\* silent too long, and what was not read of it is lost.
Lost ==
  /\ asking # Never \/ link # Never
  /\ asking' = Never /\ link' = Never
  /\ UNCHANGED <<boxTime, ownTime, log, waiting, recall, newest, out, from>>

\* remember.
Remembered(f) ==
  LET more == Append(recall, f)
  IN  IF Len(more) > Dedupe THEN Tail(more) ELSE more

\* publish: a frame that is remembered is dropped, another is published; the watch
\* goes forward only.
Publish ==
  LET f == Head(waiting) IN
  /\ waiting # <<>>
  /\ waiting' = Tail(waiting)
  /\ IF f \in Members(recall) \/ Consume(f) THEN UNCHANGED <<recall, newest, out>>
     ELSE /\ Len(out) < MaxOut
          /\ out' = Append(out, f) /\ recall' = Remembered(f)
          /\ newest' = IF Read(f).atMs /\ (newest = Never \/ log[f].time > newest) THEN log[f].time ELSE newest
  /\ UNCHANGED <<boxTime, ownTime, log, asking, link, from>>

\* Publishing fails, or the process ends; the next run knows nothing of this one.
Stops ==
  /\ asking' = Never /\ link' = Never /\ waiting' = <<>> /\ recall' = <<>> /\ newest' = Never /\ out' = <<>> /\ from' = Never
  /\ UNCHANGED <<boxTime, ownTime, log>>

TimePasses ==
  /\ boxTime < LastBoxTime /\ boxTime' = boxTime + 1
  /\ ownTime < LastBoxTime /\ ownTime' = ownTime + 1
  /\ UNCHANGED <<log, asking, link, waiting, recall, newest, out, from>>

\* The box's clock is set, forward or back: at_ms can step.
BoxClockSet ==
  /\ boxTime' \in 0..LastBoxTime
  /\ UNCHANGED <<ownTime, log, asking, link, waiting, recall, newest, out, from>>

\* So is the connector's.
OwnClockSet ==
  /\ ownTime' \in 0..LastBoxTime
  /\ UNCHANGED <<boxTime, log, asking, link, waiting, recall, newest, out, from>>

FeedNext ==
  \/ \E frame \in BoxFrames : Happens(frame)
  \/ Pass \/ OpenEvents \/ HandOver \/ Lost \/ Publish \/ Stops
  \/ TimePasses \/ BoxClockSet \/ OwnClockSet

FeedSpec == FeedInit /\ [][FeedNext]_feedVars

-----------------------------------------------------------------------------
\* Through lost connections and frames still on their way, nothing a box said is missed
\* as long as the slack is enough for every reconnect: once it is connected again,
\* everything was published or is on its way. The promise starts with the last connection
\* asked for while no frame with a time was published, and anew with a reconnect for
\* which the slack was not enough. What is published is in the box's order, and again
\* only after DEDUPE_FRAMES others. No hello is published: it belongs to one connection.
NothingMissed ==
  /\ Hello \notin Members(out)
  /\ link # Never => \A f \in from..Len(log) : f \in Members(out) \cup Members(waiting) \cup Members(link)
  /\ \A j \in DOMAIN out, f \in 1..Len(log) :
       f >= from /\ f < out[j] /\ f \in Members(out) => \E i \in 1..j : out[i] = f
  /\ \A i, j \in DOMAIN out : i < j /\ out[i] = out[j] => j - i > Dedupe
=============================================================================
