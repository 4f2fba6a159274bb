------------------------------- MODULE Server -------------------------------
(***************************************************************************)
(* The sockets of one shard (crates/hub/src/lib.rs): each admitted         *)
(* connection is two tasks, a reader that makes the relay's calls under    *)
(* the shard's lock and acts on what they ask for, and a writer that       *)
(* drains the relay's queue and sends the frame a closed connection ends   *)
(* with. They share a Handle: a Notify, whose one permit is kept until it  *)
(* is consumed, and the closing frame.                                     *)
(*                                                                         *)
(* The relay is here what Relay shows it to be, of one account: a queue    *)
(* length per connection, a bound past which an enqueue closes the         *)
(* connection, and presence to everybody left when one goes. A chunk is    *)
(* one frame; who it makes the relay queue a frame for is any set.         *)
(***************************************************************************)
EXTENDS Integers, FiniteSets

CONSTANTS
  Conns,
  Deaf,          \* connections whose peer has stopped reading, and may go on talking
  QueueFrames,   \* frames the relay queues before it closes a slow consumer
  Batch          \* frames one take_outbound returns: write_budget

ASSUME ServerBounds ==
  /\ Deaf \subseteq Conns
  /\ QueueFrames \in Nat /\ Batch \in Nat \ {0}
  /\ IsFiniteSet(Conns) /\ Cardinality(Conns) <= QueueFrames

VARIABLES
  \* the relay
  known, queue, armed,
  \* the shard's handles, and each one's permit and closing frame
  handles, permit, closing,
  \* the tasks of each connection
  reader, writer,
  due,       \* handles a reader has yet to notify, having released the lock
  peer,      \* "here" or "gone"
  dropped    \* connections the relay answered Action::Close for; for the properties only

relayVars == <<known, queue, armed>>
vars == <<relayVars, handles, permit, closing, reader, writer, due, peer, dropped>>

Init ==
  /\ known = {} /\ armed = {} /\ handles = {} /\ permit = {} /\ closing = {} /\ dropped = {}
  /\ queue = [c \in Conns |-> 0]
  /\ reader = [c \in Conns |-> "new"]
  /\ writer = [c \in Conns |-> "off"]
  /\ due = [c \in Conns |-> {}]
  /\ peer = [c \in Conns |-> "here"]

-----------------------------------------------------------------------------
\* What one call does to the relay, which knows K when it starts: load[d] frames
\* are queued for d, and first are closed or forgotten.

\* finish and forget: whom the call closes in the end, presence included. Each one
\* that goes is a frame for everybody left, which may be one too many: the least set
\* of connections that holds first and whoever it overflows.
Dropped(K, load, first) ==
  LET Enough(D) ==
        /\ first \cap K \subseteq D
        /\ \A d \in K :
             /\ load[d] + Cardinality(D \ {d}) > 0
             /\ queue[d] + load[d] + Cardinality(D \ {d}) > QueueFrames
             => d \in D
  IN  {d \in K : \A D \in SUBSET K : Enough(D) => d \in D}

Queued(K, load, gone) ==
  [d \in Conns |-> IF d \in K \ gone THEN queue[d] + load[d] + Cardinality(gone) ELSE 0]

\* Conn::arm: a wake for everybody given a frame who has none outstanding.
Woken(K, load, gone) ==
  {d \in K \ gone : d \notin armed /\ load[d] + Cardinality(gone) > 0}

RelayCall(K, load, gone) ==
  /\ known' = K \ gone
  /\ queue' = Queued(K, load, gone)
  /\ armed' = (armed \ gone) \cup Woken(K, load, gone)

OneFrameTo(T) == [d \in Conns |-> IF d \in T THEN 1 ELSE 0]

\* Wrong: a closed connection is not woken to hear of it.
ToNotifyWoken(woken, closed) == woken

ToNotify(woken, closed) == woken \cup closed

\* on_shard: the call, the closing frames of the connections it closed, and whom
\* to notify once the lock is released. Forgotten connections are told nothing.
OnShard(c, load, forgotten, refused) ==
  LET gone   == Dropped(known, load, forgotten \cup refused)
      closed == gone \ forgotten
  IN
  /\ RelayCall(known, load, gone)
  /\ closing' = closing \cup (closed \cap handles)
  /\ due' = [due EXCEPT ![c] = ToNotify(Woken(known, load, gone), closed) \cap handles]
  /\ dropped' = dropped \cup closed
  /\ UNCHANGED <<handles, permit>>

-----------------------------------------------------------------------------
\* Wrong: as notify_waiters, which keeps nothing for a writer that is busy.
PermitsAfterWaiters(d) == IF writer[d] = "waiting" THEN permit \cup {d} ELSE permit

\* notify_one: the permit is kept until the writer waits.
PermitsAfter(d) == permit \cup {d}

Notify(c, d) ==
  /\ d \in due[c]
  /\ due' = [due EXCEPT ![c] = @ \ {d}]
  /\ permit' = PermitsAfter(d)
  /\ UNCHANGED <<relayVars, handles, closing, reader, writer, peer, dropped>>

\* A reader goes on only after the notifications of its last call.
ReaderAt(c, at) == reader[c] \in at /\ due[c] = {}

\* Shared::connect, admitted: the newcomer's queue holds its welcome and the
\* presence of the others, who are told of it. The handle is there before anybody
\* is looked up. Of the relay's actions only the wakes are acted on.
Connect(c) ==
  LET K    == known \cup {c}
      load == [d \in Conns |-> IF d = c THEN 1 + Cardinality(known) ELSE 1]
      gone == Dropped(K, load, {})
  IN
  /\ ReaderAt(c, {"new"})
  /\ RelayCall(K, load, gone)
  /\ handles' = handles \cup {c}
  /\ due' = [due EXCEPT ![c] = Woken(K, load, gone) \cap handles']
  /\ dropped' = dropped \cup gone
  /\ reader' = [reader EXCEPT ![c] = "reading"]
  /\ writer' = [writer EXCEPT ![c] = "waiting"]
  /\ UNCHANGED <<permit, closing, peer>>

\* A message is charged and handed over under one lock: it may queue frames for
\* anybody, and it may be one the relay refuses. An unknown connection's is ignored.
Receive(c, T, refused) ==
  /\ ReaderAt(c, {"reading"}) /\ peer[c] = "here"
  /\ c \in known
  /\ OnShard(c, OneFrameTo(T), {}, refused)
  /\ UNCHANGED <<reader, writer, peer>>

\* The account is in debt: the chunk waits, with or without a notice to its peer.
Throttle(c, notice) ==
  /\ ReaderAt(c, {"reading"}) /\ peer[c] = "here"
  /\ c \in known
  /\ OnShard(c, OneFrameTo(notice), {}, {})
  /\ reader' = [reader EXCEPT ![c] = "throttled"]
  /\ UNCHANGED <<writer, peer>>

\* The debt is repaid. The relay may have forgotten the connection by now.
HandOver(c, T, refused) ==
  /\ ReaderAt(c, {"throttled"})
  /\ c \notin known => T = {} /\ refused = {}
  /\ OnShard(c, OneFrameTo(T), {}, refused)
  /\ reader' = [reader EXCEPT ![c] = "reading"]
  /\ UNCHANGED <<writer, peer>>

\* A message that does not decode, a text one, or none for idle_timeout.
Refuse(c) ==
  /\ ReaderAt(c, {"reading"})
  /\ OnShard(c, OneFrameTo({}), {}, {c})
  /\ reader' = [reader EXCEPT ![c] = "flushing"]
  /\ UNCHANGED <<writer, peer>>

\* The stream ended or failed.
PeerEnded(c) ==
  /\ ReaderAt(c, {"reading"}) /\ peer[c] = "gone"
  /\ reader' = [reader EXCEPT ![c] = "ending"]
  /\ UNCHANGED <<relayVars, handles, permit, closing, writer, due, peer, dropped>>

\* The select's other branch, while reading and while waiting out a debt.
WriterDone(c) ==
  /\ ReaderAt(c, {"reading", "throttled"}) /\ writer[c] = "ended"
  /\ reader' = [reader EXCEPT ![c] = "ending"]
  /\ UNCHANGED <<relayVars, handles, permit, closing, writer, due, peer, dropped>>

\* Wrong: a connection whose writer ended is taken for one the relay closed.
ForgottenUnlessWriterDone(c) == IF writer[c] = "ended" THEN {} ELSE {c}

ForgottenAtEnd(c) == {c}

\* hub.close(id, None), whatever ended the loop.
Forget(c) ==
  /\ ReaderAt(c, {"ending", "flushing"})
  /\ OnShard(c, OneFrameTo({}), ForgottenAtEnd(c), {})
  /\ reader' = [reader EXCEPT ![c] = IF @ = "ending" THEN "aborting" ELSE "lingering"]
  /\ UNCHANGED <<writer, peer>>

\* Wrong: no limit on the wait for the writer.
LingerIsOverNever(c) == writer[c] = "ended"

\* A closing error gets two seconds to go out, or less if the writer ends.
LingerIsOver(c) == TRUE

Linger(c) ==
  /\ ReaderAt(c, {"lingering"})
  /\ LingerIsOver(c)
  /\ reader' = [reader EXCEPT ![c] = "aborting"]
  /\ UNCHANGED <<relayVars, handles, permit, closing, writer, due, peer, dropped>>

\* writer.abort(), then the handle goes, and with the task the socket.
Gone(c) ==
  /\ ReaderAt(c, {"aborting"})
  /\ writer' = [writer EXCEPT ![c] = "ended"]
  /\ handles' = handles \ {c}
  /\ reader' = [reader EXCEPT ![c] = "gone"]
  /\ UNCHANGED <<relayVars, permit, closing, due, peer, dropped>>

-----------------------------------------------------------------------------
\* The writer. What it sends goes out only while the peer reads.

Writable(c) == peer[c] = "here" /\ c \notin Deaf

WriterGoes(c, from, to) ==
  /\ writer[c] = from
  /\ writer' = [writer EXCEPT ![c] = to]
  /\ UNCHANGED <<handles, reader, due, peer, dropped>>

Notified(c) ==
  /\ c \in permit
  /\ permit' = permit \ {c}
  /\ WriterGoes(c, "waiting", "taking")
  /\ UNCHANGED <<relayVars, closing>>

PingTick(c) ==
  /\ WriterGoes(c, "waiting", "pinging")
  /\ UNCHANGED <<relayVars, permit, closing>>

PingSent(c) ==
  /\ Writable(c)
  /\ WriterGoes(c, "pinging", "taking")
  /\ UNCHANGED <<relayVars, permit, closing>>

\* take_outbound: up to a batch, and whether more is left, which keeps it armed.
TakeOutbound(c) ==
  LET n == IF queue[c] < Batch THEN queue[c] ELSE Batch
  IN
  /\ queue' = [queue EXCEPT ![c] = @ - n]
  /\ armed' = IF queue[c] > n THEN armed ELSE armed \ {c}
  /\ WriterGoes(c, "taking", IF n = 0 THEN "checking" ELSE IF queue[c] > n THEN "feeding" ELSE "flushing")
  /\ UNCHANGED <<known, permit, closing>>

\* feed, and flush after the last batch.
Fed(c) ==
  /\ Writable(c)
  /\ \/ WriterGoes(c, "feeding", "taking")
     \/ WriterGoes(c, "flushing", "checking")
  /\ UNCHANGED <<relayVars, permit, closing>>

\* After a drain: is there a closing frame?
CheckClosing(c) ==
  /\ WriterGoes(c, "checking", IF c \in closing THEN "closing" ELSE "waiting")
  /\ closing' = closing \ {c}
  /\ UNCHANGED <<relayVars, permit>>

Closed(c) ==
  /\ Writable(c)
  /\ WriterGoes(c, "closing", "ended")
  /\ UNCHANGED <<relayVars, permit, closing>>

\* A send to a peer that is gone fails, and ends the writer.
WriteFails(c) ==
  /\ peer[c] = "gone"
  /\ \E at \in {"pinging", "feeding", "flushing", "closing"} : WriterGoes(c, at, "ended")
  /\ UNCHANGED <<relayVars, permit, closing>>

PeerLeaves(c) ==
  /\ reader[c] # "new" /\ peer[c] = "here"
  /\ peer' = [peer EXCEPT ![c] = "gone"]
  /\ UNCHANGED <<relayVars, handles, permit, closing, reader, writer, due, dropped>>

-----------------------------------------------------------------------------
\* What a reader does whatever its peer does: each of its states has one of these.
ReaderGoesOn(c) ==
  \/ \E d \in Conns : Notify(c, d)
  \/ \E T \in SUBSET known, refused \in {{}, {c}} : HandOver(c, T, refused)
  \/ Forget(c) \/ Linger(c) \/ Gone(c)

ReaderStops(c) == WriterDone(c) \/ PeerEnded(c)

\* What it does at its peer's word or silence.
ReaderHears(c) ==
  \/ Connect(c) \/ Refuse(c)
  \/ \E T \in SUBSET known, refused \in {{}, {c}} : Receive(c, T, refused)
  \/ \E notice \in {{}, {c}} : Throttle(c, notice)

\* What the writer does of its own accord once woken.
WriterStep(c) ==
  Notified(c) \/ PingSent(c) \/ TakeOutbound(c) \/ Fed(c) \/ CheckClosing(c) \/ Closed(c) \/ WriteFails(c)

Next ==
  \E c \in Conns : \/ ReaderGoesOn(c) \/ ReaderStops(c) \/ ReaderHears(c)
                  \/ WriterStep(c) \/ PingTick(c) \/ PeerLeaves(c)

Spec == Init /\ [][Next]_vars

\* The runtime runs every task that can go on, and the lock is fair to them. A
\* peer need not talk, leave or fall silent, and nothing relies on the ping. The
\* select takes a random ready branch, so one that is ready again and again is
\* taken (strong fairness), whatever else is ready.
Fairness ==
  \A c \in Conns : WF_vars(ReaderGoesOn(c)) /\ SF_vars(ReaderStops(c)) /\ WF_vars(WriterStep(c))

FairSpec == Spec /\ Fairness

-----------------------------------------------------------------------------
\* The relay knows nobody whose socket is over or whose handle is missing: every
\* wake it asks for finds a task, and nothing is queued for ever for a peer that
\* left (connection: hub.close(id, None) on every way out, then handles.remove).
NobodyLeftBehind ==
  /\ known \subseteq handles
  /\ \A c \in Conns : reader[c] \in {"new", "gone"} => c \notin known /\ c \notin handles

\* A writer never sleeps through its work: with frames queued for it or a closing
\* frame set, a permit is stored or some reader is about to store one, although the
\* relay wakes once per drain and notifies after the lock is released.
WakeReachesWriter ==
  \A c \in Conns :
    writer[c] = "waiting" /\ (queue[c] > 0 \/ c \in closing) => c \in permit \/ \E t \in Conns : c \in due[t]

\* A socket told to close ends, if its peer reads or leaves: the closing frame goes
\* out, the writer ends and the reader, reading or waiting out a debt, sees it.
ToldSocketsEnd == \A c \in Conns \ Deaf : c \in closing ~> reader[c] = "gone"

\* A socket whose peer left, or whose reader stopped, ends, even when the relay had
\* forgotten it before and no frame will ever wake its writer.
StoppedSocketsEnd ==
  \A c \in Conns : peer[c] = "gone" \/ reader[c] \in {"ending", "flushing"} ~> reader[c] = "gone"

\* Every socket that is to end does: one told to close, if its peer reads or leaves,
\* and one whose peer left or whose reader stopped.
SocketsEnd == ToldSocketsEnd /\ StoppedSocketsEnd

\* relay/lib.rs on Action::Close: "Send this error frame, then close the connection.
\* The relay has already forgotten it." So a connection the relay closed has its
\* closing frame set, or is past it.
ClosesAreActedOn ==
  \A c \in dropped : \/ c \in closing
                     \/ writer[c] \in {"closing", "ended"}
                     \/ reader[c] \notin {"reading", "throttled"}

=============================================================================
