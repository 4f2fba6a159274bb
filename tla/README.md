# window-ml-hub: TLA+ models, checks and proofs

The hub relays end-to-end encrypted envelopes between the devices of an account: runtimes publish
streams (session events, telemetry), devices subscribe to them and send direct commands. The hub sees
who talks to whom and nothing of what they say. This directory models the parts of the repository whose
correctness depends on order, limits, time, crashes or interleaving, checks the models with TLC on small
instances, and proves all but one of the safety properties with TLAPS for every instance.

`PROJECT.json` lists the components, the runs, which source lines every definition stands for ("map"),
the mutants that show each property can fail, the findings, the hazards and the theorems.

## Inventory

| Component | State | Operations | What is hard | What makes it correct |
|---|---|---|---|---|
| relay core (`relay/src/lib.rs`) | accounts, connections, who is online, streams, subscriptions, wakes | connect, receive (publish, direct, subscribe, unsubscribe, ping), close, take_outbound | a call closes connections it did not expect, whose presence closes more; streams are evicted while others follow them | the registry is consistent, presence adds up, nothing is kept without a use, no frame sleeps in a queue |
| outbound queue (`relay/src/queue.rs`) | items, counters by kind, unreported drops | push_frame, push_published, purge_stream, take | coalescing, dropping and purging in the middle of a queue with counters kept beside it | seq order, accounted loss, session events and plain frames never dropped |
| ring (`relay/src/ring.rs`) | the retained end of a stream | publish, evict_oldest, backfill | capacity 0 and 1, positions of another epoch, truncation off by one | an unbroken end, and every gap is said |
| work budget (`relay/src/rate.rs`) | a balance per account | refill, spend, wait_ms; charge, connect | several connections wait on one bucket; the bucket goes with its account | no work is minted, none is handed over unpaid |
| server sockets (`hub/src/lib.rs`) | handles, permits, closing frames; a reader and a writer task each | serve, connection, write_loop, Shared::on_shard, Shared::connect | a wake between the lock and the notify, ends in any order, peers that do not read | nobody is left behind, no wake is lost, sockets end |
| arrivals, strangers (`hub/src/arrivals.rs`, `strangers.rs`) | credit per address, one budget for the unknown | admit, charge, wait | integer truncation of credit, charges while the accept loop sleeps | strangers are paced, no address exceeds its rate |
| account slots (`hub/src/lib.rs`) | one atomic count for all shards | reserve, reconcile | shards race, refusals after a reservation | the limit holds at every moment and the count does not drift |
| pairing slots (`hub/src/pairing.rs`) | code hash -> offer, expiry, answer | offer, offered, answer, collect, forget; the polling socket | two timeouts for one slot, codes offered again | a slot has its socket, nothing is served twice |
| registry (`hub/src/registry.rs`) | files: accounts, invites and their markers, revokers; open slots in memory | admit, claim_revoker, revoker, consume_invite, take_open_slot; create_invite and clear_revoker of another process | several hellos, another process without the lock, a crash between any two file operations | one live signer, an invite used once |
| commands (`seal/src/lib.rs`) | nonces in arrival order, shares per sender | seal, open, open_grant | the last millisecond of the window, a clock set back, refusals that must not spend a nonce | a command is accepted once, shares are released |
| sealed streams (`seal/src/stream.rs`, `connector/src/relay.rs`) | stream key, counter, where the key starts; the reader's keys and position | seal_frame, rotate, wrap_key, open_grant, StreamReader | keys rotate while frames and grants are in flight | frames open in order and gaps are told truly |
| certificates, revocation (`keys/src`) | chains, signed lists | issue, renew, verify_chain, verify_renewal, verify_revocations | delegates that are not trusted; lists that arrive in any order | authority goes back to the root; a revoked device stays revoked |
| connector, hub half (`connector/src/serve.rs`, `relay.rs`, `revoked.rs`, `grant.rs`, `state.rs`) | the list held, revokers followed, the arming of the floor; two files of the same; stream key, counters | run, publish, event, presence, list, follow, rotate; State::revocations and the writes | lists, commands and presence in any order; a stop between two writes; lists re-signed, shortened and extended | an excluded device never holds the current key, nothing acted on is forgotten, a restart finds a usable state |
| connector, box half (`run.rs`, `events.rs`, `http.rs`, `box/src`, `frame/src`) | bytes of a chunk and of a frame; frames handed over; the resume point; frames remembered | pass, since, open, next_frame, Chunked::push, FrameReader::push, read, route, publish | replays after a reconnect, frames handed over and not published, input cut anywhere | every frame is published, in order, and is what was written |
| connector, pairing and files (`pair.rs`, `main.rs`, `state.rs`) | key files, the paired file, a list kept | pair, run, generate_keys, write_paired | a crash between files, two invocations | the connector stays the same principal |
| client (`client/src/lib.rs`) | a socket, frames pending, calls | connect, next, pairing_offered, pairing_answer, Pairing | answers among other events, frames behind a Welcome | events in order, a call gets its own answer |
| protocol messages, command lines, load generator, fuzz targets, the relay's random tester, deployment | | | | conversions and tooling, not modelled |

A socket is let in by the accept loop (`Gate`) and authenticated against the registry (`Registry`). Its reader
then makes the relay's calls under its shard's lock and acts on the answers (wake a writer, close a socket). The
relay charges what it does to the account's budget. A newcomer reserves an account slot before its relay admits
it. Pairing slots and account slots are shared by all shards. A connector reads a box (`Framing`, then `Feed`),
seals what it read (`SealedStream`), publishes two streams through the hub, and learns from presence whose
revocation lists to follow (`Connector`). The replay window, the readers and the client live in the endpoints,
to which the hub is an unreliable network.

## Modules

| Module | Models | Correspondence |
|---|---|---|
| `Limits` | `limits.rs`, the checks of `with_id_space` | constants; bytes are counted in frames |
| `Ring` | `ring.rs` | operators on one record; an entry is its seq and coalesce key |
| `Outbound` | `queue.rs` | operators on a record of items and the code's counters |
| `Relay` | `lib.rs` of the relay | one action per call; the backfill loop and the closes of `finish` are steps of their own, and no call starts before they are over (`Idle`), as the shard's lock ensures |
| `MCRelay` | | gives principals their parts in a run; its next-state relation is contained in Relay's |
| `WorkBudget` | `rate.rs`, what `charge`, `receive` and `connect` spend, the read loop's wait | time is the server's monotonic clock; what `receive` spends is any fan-out cost |
| `Server`, `MCServer` | `connection` after its hello, `write_loop`, `on_shard`, `Shared::connect` | the program counters of a reader and a writer per connection; every await is a state; the relay is abstracted to a queue length per connection and whom a call closes, which is what `Relay` shows |
| `Gate` | the accept loop and `connection` up to its hello, `strangers.rs`, `arrivals.rs` | credit with the code's truncations; a socket's place is charged when it is dropped, whatever ended the socket |
| `AccountSlots` | the account limit across shards | compare-and-swap, the relay's call and reconciliation are separate steps |
| `PairingSlots` | `pairing.rs`, `pairing_socket` and the devices that answer | the polling socket's deadline and the slot's expiry are separate times |
| `Registry`, `MCRegistry` | `registry.rs` and `authenticate` around it | one step per file operation (read, marker, remove, create, write aside, rename), the lock where the code takes it; the operator's commands are another process and take none |
| `OneSigner` | what `claim_revoker` promises | an abstract specification: claims and clears are single steps on one record |
| `ReplayWindow` | `seal`, `Receiver::open`, `open_grant`, `ReplayWindow` | the checks in the code's order; commands, once sealed, may be opened at any time and any number of times |
| `Certificates` | `issue`, `renew`, `verify_chain`, `verify_renewal` | a certificate is its body and the key that signed it; a delegate may sign any body |
| `SealedStream` | the sealing half of `relay.rs`, `seal/src/stream.rs` | a frame is its key and counter, and a number the code does not know |
| `Feed` | `run.rs`, the publishing half of `serve.rs`, `box/src/lib.rs` | a frame is its place in the box's log, its time and what can be read of it; a reconnect reads the connector's clock to know how far back to ask, and the box answers by its own clock some time later; either clock may be set at any time; the channel between the two sides is a sequence |
| `Framing` | `Chunked`, `Events::next_frame`, `FrameReader` | one step per turn of a decoding loop; bytes are small numbers of which each may be part of a line end, a size, a length or a frame |
| `BoxState` | `state.rs` under `pair` and `run` of `main.rs`, `pair.rs` | one step per file operation; a file may be absent, torn, blank or complete |
| `Client` | `client/src/lib.rs` | frames are queued by the hub and cut into messages anyhow |
| `Connector`, `MCConnector` | the connector's `serve.rs`, `relay.rs`, `revoked.rs`, `grant.rs`, the revocation files of `state.rs`, `keys/src/revocation.rs` | `pc` is the place of the process, so that it may stop between any two of: the change in memory, the write of the list, the write of the revokers and the rotation; the hub's queue is a sequence, and a subscription is served some time after it was sent. Lists name principals, certificates are a validity window, keys are numbered as generated |
| `MCHubLimits` | | `WorkBudget`, `AccountSlots`, `Gate` and `PairingSlots` in one run |
| `MCEndpoints` | | `ReplayWindow`, `Certificates`, `Feed`, `SealedStream`, `BoxState`, `Client` and `Framing` in one run |
| `QueueProofs`, `RelayProofs`, `DeliveryProofs` | | theorems about `Outbound`, `Ring` and `Relay` |
| `HubProofs`, `ServerProofs`, `RegistryProofs` | | theorems about the rest of the hub: `WorkBudget`, `AccountSlots`, `Gate`, `PairingSlots`; `Server`; `Registry` |
| `ConnectorProofs`, `EndpointProofs` | | theorems about `Connector` and `Framing`, and about `BoxState`, `Certificates`, `ReplayWindow`, `SealedStream`, `Feed` and `Client` |

`MCHubLimits` and `MCEndpoints` put components side by side that keep no state in common. A behaviour of either
is one of a single component: `part`, chosen at the start, says which, and the others stand still. So every
component is explored exactly as if it had a run of its own.

Operators commented "Wrong:" are mistakes the code could have made. Nothing uses them; PROJECT.json names
the property each would violate in the place of the definition after it.

Abstractions: an encoded frame weighs one unit; payloads and error texts are left out; a hash map yields its
elements in any order; signatures are unforgeable and ciphers bind what the code gives them. `Relay` leaves the
work budget to `WorkBudget`, authentication to `Registry` and certificates to `Certificates`. The order in which one
call's closes are applied is left open: the code pops the most recent, and hash order decides which that is.

## Runs

| Run | Bounds | Shows |
|---|---|---|
| `RelayDelivery` | a publisher and a subscriber, 2 streams, 3 envelopes, rings and session queues of 2, telemetry queue of 2, 3 frames | session events are never missed silently and telemetry lost is superseded or counted in its Gap (`LossAccounted`); queues are in seq order and their counters agree (`QueueSound`); no frame waits without a wake; telemetry pushes out no plain frame |
| `RelayPresence` | 3 principals, of whom one talks and offends, 4 connections, queues of 3 frames | the registry's views agree, presence always adds up to who is online, through direct envelopes, offences and cascades of closes |
| `RelayStreams` | 2 accounts for 1 slot, 2 channels for 1 stream, 2 envelopes, 3 connections | evictions: no ring goes under a subscription, no entry or account stays without a use, rings retain the unbroken end within the budget |
| `Server` | 2 sockets, queues of 2 frames, one peer that never reads | nobody left behind, wakes reach writers, told and stopped sockets end (`SocketsEnd`) |
| `HubLimits` | work: 2 connections, a rate that divides neither costs nor Milli, 8 ticks. Accounts: 4 for 2 slots on 3 shards. Gate: 3 sockets for 2 places and 1 pairing, an address of its own and one behind a proxy, 1 tracked, 6 ticks. Pairing: 2 codes, 1 slot, 2 sockets, 1 device, lifetime of 2 over 5 ticks | nothing is minted, chunks are paid, connects are paid while the account is held; the account limit at every moment and an exact count between calls; strangers are paced and their debt is bounded; arrivals stay within their rate; a slot has its socket, and its answer goes to one socket, under its code |
| `Registry` | 2 hellos, 2 accounts, 1 invite, 4 grants (one of them a re-issue that ends sooner), 1 open slot, clock to 2 | one signer per account among the live grants not re-issued to end sooner, whom every Welcome names, an invite admits once, and `ClaimsAreAtomic`: the files implement `OneSigner`. Deadlock is checked |
| `Endpoints` | commands: 2 senders, 2 nonces, a window of 1 over 4 ticks, 1 set back. Certificates: 2 principals, 2 agreement keys, 2 grants of the root, time to 4. Feed: a log of 3 with one frame that cannot be read, a channel of 1, 1 frame remembered, a slack of 1, clocks to 2 (the box) and 1 set either way at any time. Stream: 5 frames, 3 keys. State directory: 2 invocations, 2 accounts. Client: 6 frames, 2 calls. Framing: two answers of up to 11 bytes, plain or in chunks of at most 3 | a command is accepted once; authority goes back to the root and what was issued verifies; nothing of a box is missed as long as the slack covers each reconnect; a reader tells gaps truly; the connector stays the same principal; events reach the caller; frames are intact however bytes are cut |
| `Connector` | 2 revokers, a channel each with a list, of either revoker on the delegate's, a device one of them paired, a certificate that lapses, clocks one unit apart, 2 starts | no excluded device holds the current key, the files say what was acted on and only advance, grants cover the current key exactly; a connector that stays up hears every revoker it knew when it started or met online |
| `ServerCloses`, `ConnectorReload`, `ClientDirectory`, `PairAgain` | as above, smaller | the findings below |

The bounds are the smallest at which each limit is reached and passed once: a ring overflows and a position
falls off its end, a queue refuses, an eviction has two candidates, a wait ends while the other connection
still owes, a slot expires and its code is offered again, a nonce is forgotten and its command delivered again, a
box replays more than is remembered, a record runs out while a hello that read it still waits for the lock.
Three principals are needed for a close whose presence closes a third. Two lists are enough for one that adds to
another, and the theorem covers longer histories. In `Framing` a varint byte carries 2 bits instead of 7, so that a
length of two bytes needs a frame of 4; one frame consists of line ends, one of digits and line ends, one is
empty, and one is over the limit.

Symmetry is used over channels where every channel plays the same part, over principals that have none, over
hellos of the registry and over the interchangeable values of `HubLimits`, and never in a run with a liveness
property. Deadlock is not checked where the bounds stop the system (identifiers, envelopes or time run out).

Fairness is assumed in `Server` and `Connector` only. In `Connector` the process takes its next step (tokio
polls its one task) and the hub serves a subscription it was sent; nobody need start the process again, and
`KnownRevokersAreHeard` is stated of one that stays up. In `Server` each task's next step is weakly fair: tokio
polls a task that is ready. `ReaderStops` (the read loop's exits: the writer ended, an idle timeout) is strongly
fair, because the select polls its branches at random, so an exit that stays possible between messages is not
passed over for ever. A write to a peer in `Deaf` never completes, and nothing is assumed of peers: they may stay
silent or never leave.

## The registry and its abstract specification

`OneSigner` says what an operator and a device rely on: a claim looks at the record and replaces it in one step,
a spent record is no record, a clear forgets it. In the code a claim reads the clock, waits for a lock, reads a
file, writes another and renames it, while another process may remove the record without the lock and the hub
may stop at any point, which leaves at most a file aside. `Registry!ClaimsAreAtomic` is `OneSigner`'s specification
with `holder` read off the record file. TLC checks it in the run and `FilesImplementOneSigner` proves it: the rename
is the step at which a claim happens, and every other step is a stutter or an operator's clear.

## Findings

1. `ServerCloses`: `Shared::connect` drops the `Close` actions of a connect. A slow consumer that a newcomer's
   presence closes is forgotten by the relay and never told; its socket stays half alive.
2. `ConnectorReload`: a held list is verified at its version when it is loaded and at the connector's clock when it
   is applied. A list dated just outside its signer's certificate by a clock that is fast or slow is applied, and
   keeps the connector from ever starting again.
3. `ClientDirectory`: `first_frame` hands out the first frame of a message and drops the rest, so presences that come
   in one message with the Welcome never reach the caller.
4. `PairAgain`: pairing again with another account leaves the revocation list of the first, which `run` refuses.

Known limits, which the properties leave out and no run shows as violated:

- Hub. An account that retains nothing is forgotten with its work debt when its last connection leaves
  (`ConnectsPaidWhileHeld` is stated of a held account). The polling socket of a pairing slot waits past its slot's
  expiry, so a code offered again then has two sockets: the stale one may collect the answer meant for the other, or
  remove its slot when it gives up. `AnswersGoToOneSocket` says that an answer goes to one socket, and under its own
  code, not that it is the one the answer was meant for. An answer accepted just before its slot expires may be
  collected by nobody. A writer blocked on a peer that reads nothing does not see that it was told to close, and no
  write has a timeout, so a peer that talks and does not read keeps its socket; `SocketsEnd` is stated of the
  others. What `strangers.rs:67-68` says of the wait holds up to what is charged during the sleep and the fraction
  each charge cuts off (`late` in `StrangersPaced`).
- Registry. At `now == until` `verify_chain` accepts a grant whose record is already spent. A record that cannot be
  read counts as absent. A connection outlives its certificate. The record follows the newest `since`, and nothing
  keeps a root from issuing a later grant that ends sooner: once it has replaced the record and run out, another
  principal may claim while the earlier certificate still verifies, so two principals hold `may_revoke`, where
  `registry.rs:179-180` says exactly one does. `OneLiveSigner` does not count a grant that was cut short so
  (`CutShort`). A hub that stops after it consumed an invite and before the account exists burns the invite. Two
  devices of one new account with an invite each burn both. The windows of open registration start again with the
  hub.
- Commands. The replay window is in memory: a restart, or a clock set back after a nonce was forgotten, makes a
  command acceptable again within the freshness window (`AcceptedOnce` says when).
- Connector, hub half. A `box.grant` the hub queued before it took the connector's subscriptions is answered before
  a list published earlier is read, where the comment at `serve.rs:130-131` says otherwise; no property denies it,
  and the key rotates as soon as the list is read. A list may come on another revoker's channel than its signer's.
  Its signer becomes known then (`revoked.rs`, `apply`) and is not followed: not on that connection, and not when it
  comes online, since `saw_revoker` finds it known. What it publishes on its own channel is read after the next
  start only; `KnownRevokersAreHeard` is stated of revokers known at the start or met online first.
- Sealed streams. A restarted connector repeats counters (`main.rs:205-207` calls a restart a rotation;
  `stream.rs:89-90` says that a counter never repeats across rotations), and a reader that keeps its position
  refuses its frames until they pass it; `GapsToldTruly` is stated of readers whose keys are of one run. The first
  frame opened after a grant from counter N reports N - 1 skipped.
- Box. A reconnect while no frame with a time was published asks for no replay, nor does a restart, so what happened
  before it was reached is not asked for. `since` is read off the connector's clock (`run.rs:84`) before the box is
  reached, which may take `READ_TIMEOUT`, 30 s and so as long as `BACKFILL_SLACK`, and the box goes back from its
  own clock. The slack has to cover the box's lead over the connector's clock, that delay, and how far the box's
  clock was set back after a frame that was published (`SlackIsEnough`); a reconnect for which it does not may miss
  frames. `NothingMissed` speaks of frames from `from` on, which starts with the last connection asked for while
  nothing with a time was published, and anew with each such reconnect. Frames older than that may be published late
  and out of order. Whether the box retains what is asked for (`retainedMs` of its hello, `box-connector.md:21`) is
  not looked at. The comment at `serve.rs:173` says that a maximum keeps the resume point from being pinned to the
  future; a maximum is what pins it. Frames that are identical and carry no time are taken for repeats. A frame over
  the limit fails its answer and takes the frames of the same read with it, on every replay.
- Client. A pairing call takes any other event for its answer, fails and drops it, and the next call may then take
  its answer (`lib.rs:256-275`). So a caller does not see every event: `EventsReachTheCaller` says that `next`
  returns each, after the Welcome's message, once and in order, and that each call takes one of them.
- State directory. A crash between the identity and the agreement file leaves keys that are neither loaded nor
  generated again until a person removes one. A torn `paired` file makes `pair` fail, `--again` or not.
- Certificates. `issue` refuses a box that may revoke; `verify_chain` accepts one.

## Proofs

All proofs are checked by TLAPS for every value of the constants that satisfies the assumptions named in the
modules: `LimitsAreNaturals`, `BackfillFits` and `WelcomeFits` (what `with_id_space` checks or the defaults
satisfy), `NoStreamIsNone`, `FinitelyMany`, `BoundsAreNaturals` for the relay; `CostsAreNaturals`, `SomeRate`,
`ShardsAssumption`, `GateAssumption`, `PairingBounds`, `ServerBounds` and `RegistryAssumption` for the
hub; `ConnectorBounds`, `ChainsHoldTheirOwner`, `CertificatesHaveWindows`, `NoneIsNone`, `BoxAssumption`,
`CertificatesAssumption`, `WindowBounds`, `StreamAssumption`, `FeedAssumption`, `ClientAssumption`,
`FramingAssumption` and `LimitsFit` for the endpoints. Beyond the types of constants these say that markers differ
from values, that a box's log holds no second hello, and that the limits of the decoders leave room for what is
within them (a length up to `MAX_BOX_FRAME_BYTES` takes 3 of the 10 bytes of a varint, a size line fewer than 64).
TLC evaluates them in every run. Each theorem below but `VarintsReadBack` states for every instance a property that
a run checks on a small one.

Two arguments recur. What the code computes in a loop (the purge of a queue, the nonces forgotten, the front of a
channel) is stated in the model by its result: a set of indices kept, or the least number of elements dropped. The
proofs use lemmas on those, with the least-number principle (`LeastNatural`, `LeastOf`) in the place of an induction
over the data. Where the model has a recursive function, the same principle shows that a function satisfies the
recursion (`Iterates`, `VarintsExist`) and what it comes to. And a count the code keeps is compared with the cardinality of a set that loses or gains one
element at a time.

Relay:

- `QueueProofs`: what each queue operator does to the type, the order, the counters and the contents of a queue.
- `RelayProofs`, `TypeCorrect` and `RegistryConsistent`. The inductive invariant is `TypeOK /\ RegistryAgrees`:
  neither is inductive alone, since who is closed is found through the registry, and the registry is a function of
  what the types say. One lemma per action; `Forget` is shared by `Disconnect` and `FinishClose`.
- `WakesNeverLost`. `NoLostWake` needs `armed = woken` (the relay's flag and the server's knowledge of it are the
  same set), which no single action makes obvious.
- `StreamsAreKept` and the action property `WatchedRingsStay`. `KeepInv` adds to the registry that every ring
  retains the unbroken end of its stream and that the totals of the accounts are those of their rings. `TotalsMove`
  is what a change of one ring does to the total; a publication over the budget and the eviction that follows are
  one step.
- `DeliveryProofs`, `QueuesAreSound`. That a queue is in seq order depends on what is pushed: `DeliveryInv` says
  which envelopes may be queued for a connection (`DueTo`: of a stream it follows, of the ring's epoch, past its
  cursor and before what its backfill has left), that the rest of a backfill is the end of its ring (`FillIsTail`),
  and that rings hold what was published.
- `DirectoriesConverge`. `DirectoryInv` is stated of what a peer was `Told`: its directory, then the last word on
  each principal in its queue. Every queue operation keeps the last word of all but the presence it appends; a
  newcomer's queue is its Welcome and each other principal once (an injection that `WelcomeFits` keeps within the
  queue).
- `LossesAreAccounted`. `LossInv` is a `Ledger` per subscription: between the cursor and what was pushed, every seq
  is queued or missing; a session stream misses nothing; of telemetry those missing and not superseded are at most
  the drops counted, and those at most the missing. One lemma for each entry: an envelope pushed, coalesced,
  dropped, taken.
- The action property `PlainFramesStay`. Every queue operation that removes an item is a `Thins` of the queue, and
  what a thinning leaves depends only on the indices kept (`ThinnedOneWay`); so the plain frames are the same
  sequence before and after it, and a push appends to them.

Hub:

- `HubProofs`, `BucketMintsNothing`, `WaitCoversDebt`, `ConnectsCost`. `BudgetInv` bounds the balance from above by
  what was earned since the bucket was made, and ties the promised end of every wait to the bill that caused it: the
  rounding of `wait_ms` upwards is what makes a wait long enough.
- `AnswersServedOnce`. `PairInv`: a slot, expired or not, is under the code of the socket that offered it and still
  waits, and a slot whose answer somebody has is no more and was under that one's code.
- `AccountLimitHolds`. `SlotsInv`: a shard's share of the count is what it holds or one more, and the count is the
  accounts present and the shards with one more (`TotalExact`), between any two steps of any calls.
- `StrangersArePaced`. `PaceInv` adds to the debt what the places taken may still cost; while the accept loop sleeps
  no place is taken, so the sum cannot grow. `RepaidInTime` quantifies over the time the sleep ends. The truncations
  of credit are `QuotientsAdd`.
- `ArrivalsKeepToRate`. `ArrivalInv` has, for each tracked address, what was admitted and is left within what was
  earned since it was first tracked; the half of the table that is forgotten is that up to a median (`IsMedian`).
- `ServerProofs`, `NobodyIsLeftBehind` and `WritersAreWoken`. `ServerInv` says that a raised flag has a wake stored,
  in the hands of a reader, or a writer at the queue (`ArmedIsWoken`), and the same of a closing frame.
- `RegistryProofs`: `OneSignerAtATime`, `FilesImplementOneSigner`, `AnInviteAdmitsOnce`. `SignerInv` is the types,
  `ClocksPast` (the clock a hello goes by is never ahead), `SignersCovered` (every grant let in that still stands,
  alive and not cut short by a later one of its principal, is covered by the record: its principal's, and ending no
  sooner) and `ClaimsHeld` (who is about to write holds the lock, and what it read still allows it). `ClaimsHeld`
  survives a clear without the lock, because an absent record allows any claim; `SignersCovered` survives a renewal
  because a grant the renewal does not outlive is cut short by it (`StoodBefore`, `CoveredLasts`). For invites,
  `InvitesClaimed` says that what a hello read of an invite was true when read, that whoever passed the marker is
  the only one, and that an account that exists by an invite is alone in it.

Endpoints:

- `ConnectorProofs`: `ConnectorTypes`, `ExcludedStayOut`, `NothingForgotten`, `FloorStaysArmed`, `FilesAdvance`,
  `GrantsCoverTheKey`. `ConnectorInv` says at each place of the process what the files lack. That a list is only
  ever applied once the floor is armed rests on `KnowingArms`: a list is read from a revoker's channel only, and a
  revoker is known only with the floor armed. That a list which adds nobody needs no rotation is
  `FewerNamesRevokeNoMore`. `KeyInv` adds that keys are never reused.
- `FramesComeWhole` (also in `ConnectorProofs`): `FramesIntact` for frames of any bytes and any length, cut
  anywhere. `FramingInv` says that the bytes held by `FrameReader`, decoded by `Chunked`, on their way and unsent
  are, in this order, those of the frames not yet taken (`Flow`). What bytes on their way carry is told by
  `Chunkings`, the smallest set of pairs (bytes, what they carry) closed under putting one more chunk in front;
  between chunks only a line end, a size line or the last chunk can come next, so no byte of a frame is ever read as
  a line end or a size (`SkipCrlfStep`, `SizeLineStep`). `AtRest` (the loop of `Chunked::push` went as far as it
  could) and the last conjunct of `Flow` (less than a frame is held) are why no whole frame is held back. A length
  refused as too long is that of a frame over the limit (`LongIsOver`).
- `VarintsReadBack`: `read_varint` gives back every length within the limit that `write_varint` wrote, whatever
  follows it, and asks for more on every part of it.
- `EndpointProofs`, `PrincipalNeverChanges`. `BoxInv`: whoever fills a key file created it and is the only one who
  does, and the keys an invocation goes on with are those on disk.
- `CertificatesAreSound`. `CertInv`: what the root signed is an original within its bounds or renews one; what a
  delegate signed names what it renews.
- `EnvelopesAcceptedOnce`. `WindowInv`: the three views of the window agree, and what was accepted is stale or
  remembered until after it is.
- `GapsAreToldTruly`. `StreamInv`: within a run the counters are the order of publication, a key is of one run, and
  its grant covers every frame sealed under it.
- `NothingIsMissed`. `FeedInv`: what is published, waits and is on its way is in the box's order (`InOrder`), the
  newest time published is a published frame's, a request under way asks for the gap up to a published frame and the
  slack (`AskedOfOut`), and what is remembered is the end of what was published (`RecallIsEnd`). Where
  `SlackIsEnough` a replay therefore starts no later than the first frame missing (`ReachesBack`).
- `EventsAreHandedOut`. `ClientInv`: frames further on their way are earlier (`InTurn`), what is on its way is the
  end of what was written, answers are written in the order of the calls, and the events calls took are among those
  handed out, each after the last.

Only model-checked:

- `SocketsEnd` and `KnownRevokersAreHeard`: liveness under fairness is out of the prover's reach.
- The four findings, which are violations.

## Plan

Models: certificates named by hash in revocation lists.

Not modelled for good: protobuf encoding and the bytes of tags (stateless conversions without a property beyond a
round trip, which tests cover); cryptography (assumed to do what its interface says); the head of an HTTP response,
addresses and requests (parsed and formatted without state); a forwarded header, which is an input of `Gate`;
listing commands of the registry, which read only; development mode, which admits everybody; `Client`'s sending
calls, which keep no state; the command lines, the load generator, the relay's random tester and fuzz targets;
deployment.
