------------------------------ MODULE Connector ------------------------------
(***************************************************************************)
(* The hub half of a box connector (crates/connector/src/serve.rs,         *)
(* relay.rs, revoked.rs, grant.rs, state.rs): sealing frames under a key,  *)
(* granting that key to devices that ask, following the account's          *)
(* revocation lists (crates/keys/src/revocation.rs), rotating the key,     *)
(* writing what it learns to disk, and starting again from there.          *)
(*                                                                         *)
(* A list names principals and certificates; here one set of principals. A *)
(* chain is the set of principals in it. A signature is taken to be its    *)
(* signer's. What the hub does is external: it queues for the connector    *)
(* what devices and revokers send, in the order it took them.              *)
(***************************************************************************)
EXTENDS Integers, Sequences

CONSTANTS
  Revokers,    \* principals whose certificate carries may_revoke
  Devices,     \* principals that ask for the key
  Chain,       \* who is in each principal's chain, itself included
  NotBefore,   \* revoker -> the start of its certificate's validity
  NotAfter,    \* revoker -> its end
  Channels,    \* the edge channel and the sample channel
  NoList,      \* no list is held
  Never,       \* the floor has not armed
  Floor,       \* FRESHNESS_FLOOR_MS
  MaxFuture,   \* MAX_FUTURE_MS
  Slow, Fast,  \* how far a revoker's clock may be behind and ahead
  MaxTime,     \* bound: the connector's clock
  MaxLists,    \* bound: revoker -> the lists on its channel
  MaxInbox,    \* bound: events waiting when another is sent
  MaxStarts,   \* bound: runs of the process
  MaxFrames    \* bound: frames of a channel in one run

Principals == Revokers \cup Devices

ASSUME ConnectorBounds ==
  /\ Floor \in Nat /\ MaxFuture \in Nat /\ Slow \in Nat /\ Fast \in Nat
  /\ MaxTime \in Nat /\ MaxLists \in [Revokers -> Nat] /\ MaxInbox \in Nat
  /\ MaxStarts \in Nat /\ MaxFrames \in Nat
ASSUME ChainsHoldTheirOwner ==
  /\ Chain \in [Principals -> SUBSET Principals]
  /\ \A p \in Principals : p \in Chain[p]
ASSUME CertificatesHaveWindows == NotBefore \in [Revokers -> Nat] /\ NotAfter \in [Revokers -> Nat]

\* A signed list. `at' is when it was published, for the properties only.
Lists == [version : Nat, signer : Revokers, names : SUBSET Principals, at : Nat]

ASSUME NoneIsNone == NoList \notin Lists /\ Never \notin Nat

VARIABLES
  now,
  ring,        \* revoker -> the lists the hub retains on its channel
  inbox,       \* what the hub has queued for this connection
  asked,       \* subscriptions sent and not yet taken by the hub
  subscribed,  \* subscriptions the hub serves
  pc,          \* where the process is: Places
  held,        \* Revocations::held
  revokers,    \* Revocations::revokers
  armed,       \* Revocations::armed_at
  disk,        \* the two files: the list, and the revokers with armed_at
  follow,      \* revokers whose channels it is about to subscribe to
  rotating,    \* Applied::rotate of the list being written down
  key,         \* the current stream key; keys are numbered as generated
  from,        \* KeyStart
  sealed,      \* channel -> the keys of its frames in this run, by counter
  holders,     \* devices the current key was sent to
  starts       \* runs so far

memory == <<held, revokers, armed>>
hub    == <<ring, inbox, asked, subscribed>>
stream == <<key, from, sealed, holders>>
vars   == <<now, hub, pc, memory, disk, follow, rotating, stream, starts>>

\* "follow": subscribing; "serve": between events; "apply": a list is applied and
\* not written; "wrote": the list is written and the revokers are not; "saw": a
\* revoker is known and not written.
Places == {"down", "follow", "serve", "apply", "wrote", "saw"}

Events == [type : {"grant"}, from : Devices] \cup [type : {"presence"}, from : Revokers]
            \cup [type : {"list"}, from : Revokers, list : Lists]

Init ==
  /\ now = 1
  /\ ring = [r \in Revokers |-> <<>>]
  /\ inbox = <<>> /\ asked = {} /\ subscribed = {}
  /\ pc = "down"
  /\ held = NoList /\ revokers = {} /\ armed = Never
  /\ disk = [held |-> NoList, revokers |-> {}, armed |-> Never]
  /\ follow = {} /\ rotating = FALSE
  /\ key = 0 /\ holders = {}
  /\ from = [ch \in Channels |-> 1] /\ sealed = [ch \in Channels |-> <<>>]
  /\ starts = 0

-----------------------------------------------------------------------------
(* Lists (crates/keys/src/revocation.rs)                                    *)

Names(h)   == IF h = NoList THEN {} ELSE h.names
Version(h) == IF h = NoList THEN 0 ELSE h.version

\* verify_chain of a revoker's chain at t. Its other checks look at the chain alone;
\* whoever fails one is nobody here.
ValidAt(r, t) == NotBefore[r] <= t /\ t <= NotAfter[r]

Revokes(h, p) == Chain[p] \cap Names(h) # {}

\* Wrong: a first list rotates, and later ones only refresh it.
AddsToNothing(l, h) == h = NoList /\ l.names # {}

\* adds_to: the key rotates only for somebody new.
AddsTo(l, h) == ~(l.names \subseteq Names(h))

\* verify_revocations at t, for a holder of h.
Verifies(l, t, h) ==
  /\ l.version <= t + MaxFuture
  /\ h # NoList => h.version < l.version
  /\ ValidAt(l.signer, t)
  /\ ~Revokes(h, l.signer)

-----------------------------------------------------------------------------
(* What the connector knows (crates/connector/src/revoked.rs, state.rs)     *)

\* Wrong: the floor counts from the last time a revoker was seen.
ArmedAgain == now

\* armed_at.get_or_insert(now_ms)
ArmedNow == IF armed = Never THEN now ELSE armed

\* saw_revoker returns true: the revoker is new, or the floor arms.
SawRevoker(r) == r \notin revokers \/ armed = Never

\* may_grant; the subtraction saturates.
MayGrant(d) ==
  /\ ~Revokes(held, d)
  /\ armed # Never => now - (IF held = NoList THEN armed ELSE held.version) <= Floor

\* Wrong: when the floor armed is left out.
RevokersOnly == [disk EXCEPT !.revokers = revokers]

\* write_revokers: written aside and renamed, so one step.
RevokersWritten == [disk EXCEPT !.revokers = revokers, !.armed = armed]

\* State::revocations verifies the held list as of its version, with no list held.
Loads(h) == h # NoList => Verifies(h, h.version, NoList)

-----------------------------------------------------------------------------
(* The process (main.rs, serve.rs)                                          *)

Wait(rs) == IF rs = {} THEN "serve" ELSE "follow"

\* Wrong: a connection waits for presence before it follows anybody.
FollowNobody == {}

\* Wrong: it follows everybody of the account.
FollowEverybody == Principals

\* run starts by following every revoker it knows of.
FollowKnown == disk.revokers

\* run: what was known is loaded, the key is fresh and the counters start again.
Start ==
  /\ pc = "down" /\ starts < MaxStarts
  /\ Loads(disk.held)
  /\ held' = disk.held /\ revokers' = disk.revokers /\ armed' = disk.armed
  /\ follow' = FollowKnown /\ pc' = Wait(follow')
  /\ key' = key + 1 /\ holders' = {}
  /\ from' = [ch \in Channels |-> 1] /\ sealed' = [ch \in Channels |-> <<>>]
  /\ starts' = starts + 1
  /\ UNCHANGED <<now, hub, disk, rotating>>

\* The process ends: the hub connection fails or is refused, the box side stops, a
\* write or the random source fails, a signal, a crash. Only the disk remains.
Stop ==
  /\ pc # "down"
  /\ pc' = "down"
  /\ held' = NoList /\ revokers' = {} /\ armed' = Never
  /\ follow' = {} /\ rotating' = FALSE
  /\ inbox' = <<>> /\ asked' = {} /\ subscribed' = {}
  /\ holders' = {} /\ from' = [ch \in Channels |-> 1] /\ sealed' = [ch \in Channels |-> <<>>]
  /\ UNCHANGED <<now, ring, disk, key, starts>>

\* follow: Client::subscribe, from the start of the ring.
Follow(r) ==
  /\ pc = "follow" /\ r \in follow
  /\ asked' = asked \cup {r}
  /\ follow' = follow \ {r} /\ pc' = Wait(follow')
  /\ UNCHANGED <<now, ring, inbox, subscribed, memory, disk, rotating, stream, starts>>

\* Relay::frame: the channel's next counter, under the current key.
SealedOn(ch) == [sealed EXCEPT ![ch] = Append(@, key)]

\* publish, of a frame not published before; a duplicate changes nothing here.
Publish(ch) ==
  /\ pc = "serve" /\ Len(sealed[ch]) < MaxFrames
  /\ sealed' = SealedOn(ch)
  /\ UNCHANGED <<now, hub, pc, memory, disk, follow, rotating, key, from, holders, starts>>

Take(type) == pc = "serve" /\ inbox # <<>> /\ Head(inbox).type = type /\ inbox' = Tail(inbox)

\* wrap_for: the current key, for both channels, to whoever asked.
Wrapped(d) == holders \cup {d}

\* event on box.grant: the grant is sent, or the refusal answered.
GrantEvent ==
  /\ Take("grant")
  /\ holders' = IF MayGrant(Head(inbox).from) THEN Wrapped(Head(inbox).from) ELSE holders
  /\ UNCHANGED <<now, ring, asked, subscribed, pc, memory, disk, follow, rotating,
                 key, from, sealed, starts>>

\* presence of a revoker; anybody else's changes nothing.
PresenceEvent ==
  /\ Take("presence")
  /\ LET r    == Head(inbox).from
         news == ValidAt(r, now) /\ SawRevoker(r)
     IN IF news
        THEN /\ armed' = ArmedNow /\ revokers' = revokers \cup {r}
             /\ follow' = {r} /\ pc' = "saw"
        ELSE UNCHANGED <<armed, revokers, follow, pc>>
  /\ UNCHANGED <<now, ring, asked, subscribed, held, disk, rotating, stream, starts>>

\* list, up to Revocations::apply.
ListEvent ==
  /\ Take("list")
  /\ LET l       == Head(inbox).list
         applies == Head(inbox).from \in revokers /\ Verifies(l, now, held)
     IN IF applies
        THEN /\ held' = l /\ armed' = ArmedNow /\ revokers' = revokers \cup {l.signer}
             /\ rotating' = AddsTo(l, held) /\ pc' = "apply"
        ELSE UNCHANGED <<memory, rotating, pc>>
  /\ UNCHANGED <<now, ring, asked, subscribed, disk, follow, stream, starts>>

\* write_revocation_list.
WriteList ==
  /\ pc = "apply"
  /\ disk' = [disk EXCEPT !.held = held] /\ pc' = "wrote"
  /\ UNCHANGED <<now, hub, memory, follow, rotating, stream, starts>>

\* Wrong: the new key is said to cover the last frame of the old one.
KeyStartEarly(ch) == Len(sealed[ch])

\* rotate: the first counter the new key will seal.
KeyStart(ch) == Len(sealed[ch]) + 1

\* The rest of list: write_revokers, and rotate if somebody is new.
FinishList ==
  /\ pc = "wrote"
  /\ disk' = RevokersWritten
  /\ IF rotating
     THEN /\ key' = key + 1 /\ holders' = {} /\ from' = [ch \in Channels |-> KeyStart(ch)]
     ELSE UNCHANGED <<key, holders, from>>
  /\ rotating' = FALSE /\ pc' = "serve"
  /\ UNCHANGED <<now, hub, memory, follow, sealed, starts>>

\* write_revokers in presence; following comes next.
WriteSeen ==
  /\ pc = "saw"
  /\ disk' = RevokersWritten /\ pc' = "follow"
  /\ UNCHANGED <<now, hub, memory, follow, rotating, stream, starts>>

-----------------------------------------------------------------------------
(* Around it: time, revokers, devices and the hub                           *)

Tick == now < MaxTime /\ now' = now + 1 /\ UNCHANGED <<hub, pc, memory, disk, follow, rotating, stream, starts>>

Listed(r, l) == [type |-> "list", from |-> r, list |-> l]

\* A revoker signs a list by its own clock, and it is published: on its own channel, or
\* by another revoker on that one's.
Sign(r, on, version, names) ==
  /\ Len(ring[on]) < MaxLists[on]
  /\ ValidAt(r, now) /\ version > 0
  /\ now - Slow <= version /\ version <= now + Fast
  /\ LET l == [version |-> version, signer |-> r, names |-> names, at |-> now]
     IN /\ ring' = [ring EXCEPT ![on] = Append(@, l)]
        /\ inbox' = IF on \in subscribed THEN Append(inbox, Listed(on, l)) ELSE inbox
  /\ UNCHANGED <<now, asked, subscribed, pc, memory, disk, follow, rotating, stream, starts>>

\* The hub takes a subscription and queues what it retains.
Backfill(r) ==
  /\ r \in asked
  /\ asked' = asked \ {r} /\ subscribed' = subscribed \cup {r}
  /\ inbox' = inbox \o [i \in DOMAIN ring[r] |-> Listed(r, ring[r][i])]
  /\ UNCHANGED <<now, ring, pc, memory, disk, follow, rotating, stream, starts>>

Queue(event) ==
  /\ pc # "down" /\ Len(inbox) < MaxInbox
  /\ inbox' = Append(inbox, event)
  /\ UNCHANGED <<now, ring, asked, subscribed, pc, memory, disk, follow, rotating, stream, starts>>

Ask(d)    == Queue([type |-> "grant", from |-> d])
Online(r) == Queue([type |-> "presence", from |-> r])

-----------------------------------------------------------------------------
Serve ==
  \/ \E r \in Revokers : Follow(r)
  \/ GrantEvent \/ PresenceEvent \/ ListEvent
  \/ WriteList \/ FinishList \/ WriteSeen

Next ==
  \/ Start \/ Stop \/ Serve \/ Tick
  \/ \E ch \in Channels : Publish(ch)
  \/ \E r \in Revokers : Online(r) \/ Backfill(r)
  \/ \E r, on \in Revokers, version \in now - Slow .. now + Fast, names \in SUBSET Principals :
       Sign(r, on, version, names)
  \/ \E d \in Devices : Ask(d)

Spec == Init /\ [][Next]_vars

\* The process's next step is taken if it can be, and the hub serves what it was
\* asked for. Nobody starts the process again, and nothing need be sent.
FairSpec == Spec /\ WF_vars(Serve) /\ WF_vars(\E r \in Revokers : Backfill(r))

-----------------------------------------------------------------------------
(* Properties                                                               *)

\* Every variable keeps its type; from and key are what Relay holds.
TypeOK ==
  /\ now \in Nat /\ ring \in [Revokers -> Seq(Lists)] /\ inbox \in Seq(Events)
  /\ asked \subseteq Revokers /\ subscribed \subseteq Revokers
  /\ pc \in Places
  /\ held \in Lists \cup {NoList} /\ revokers \subseteq Revokers /\ armed \in Nat \cup {Never}
  /\ disk \in [held : Lists \cup {NoList}, revokers : SUBSET Revokers, armed : Nat \cup {Never}]
  /\ follow \subseteq Revokers /\ rotating \in BOOLEAN
  /\ key \in Nat /\ from \in [Channels -> Nat] /\ sealed \in [Channels -> Seq(Nat)]
  /\ holders \subseteq Devices /\ starts \in Nat

\* Whenever the connector may seal a frame or answer a command, no device the held
\* list names, or whose chain it names, was ever sent the current key: through
\* lists that add and remove, restarts, and stops between any two writes.
ExcludedHoldNothing ==
  pc \notin {"apply", "wrote"} => \A d \in holders : ~Revokes(held, d)

\* Whatever the connector acts on it can start from: while it serves, the two files
\* say what it knows, so no stop makes it forget a list it obeyed, a revoker it
\* follows or the arming of the floor (ServeError::State).
WrittenBeforeActedOn ==
  pc \in {"serve", "follow"} => disk = [held |-> held, revokers |-> revokers, armed |-> armed]

\* A list is never on disk without the floor being armed there, wherever the process
\* stopped: "it stays armed for good" (revoked.rs).
ListsArmTheFloor == disk.held # NoList => disk.armed # Never

\* What is on disk only advances: the list's version grows, revokers are not
\* forgotten, and the time the floor armed does not move.
DiskOnlyAdvances ==
  [][/\ disk'.held # disk.held => disk'.held # NoList
     /\ disk.held # NoList /\ disk'.held # disk.held => disk'.held.version > disk.held.version
     /\ disk.revokers \subseteq disk'.revokers
     /\ disk.armed # Never => disk'.armed = disk.armed]_vars

\* A grant covers the current key's frames and no others: KeyStart tells the frames
\* sealed under the key from those before it, on each channel.
KeyStartExact ==
  \A ch \in Channels : \A i \in DOMAIN sealed[ch] : i >= from[ch] <=> sealed[ch][i] = key

\* What was published on a revoker's channel by an honest clock, within its signer's
\* certificate, and by a signer no list names.
NamedByAList(r) ==
  \E s \in Revokers : \E i \in DOMAIN ring[s] : Chain[r] \cap ring[s][i].names # {}
Owed(on) ==
  {l \in {ring[on][i] : i \in DOMAIN ring[on]} :
     l.version <= l.at + MaxFuture /\ ValidAt(l.signer, now) /\ ~NamedByAList(l.signer)}

\* The connector knew of it when it started, or learns of it by its presence.
KnownInTime(r) == r \in disk.revokers /\ (pc = "down" \/ r \in follow)

\* From then on a connector that stays up comes to hold every such list, or a newer one,
\* in this run and in all that follow. A revoker that is known only as the signer of a
\* list on another's channel is not followed before the next start.
KnownRevokersAreHeard ==
  \A r \in Revokers :
    <>KnownInTime(r) => []<>(pc = "down" \/ \A l \in Owed(r) : l.version <= Version(held))

\* What the comment on State::revocations says: the chain was valid when the list
\* was applied, so a list on disk never keeps the connector from starting.
HeldListLoads == Loads(disk.held)

=============================================================================
