---------------------------- MODULE ReplayWindow ----------------------------
(***************************************************************************)
(* How a recipient opens what is sealed to it, each command, result and    *)
(* grant at most once (crates/seal/src/lib.rs, Receiver and ReplayWindow;  *)
(* open_grant of stream.rs): who sealed it and to whom, the sender's       *)
(* chain, the scope, a clock window around the recipient's own time, and   *)
(* the nonces accepted within it, in arrival order. The hub in between may *)
(* deliver an envelope late, often, from another sender or never, so       *)
(* anything sealed so far may be opened at any time.                       *)
(*                                                                         *)
(* A sender draws a nonce once, so what the envelope with it says is a     *)
(* constant, all but the time its sender put in it. HPKE and signatures    *)
(* are taken to hold what they promise; Certificates models the chain.     *)
(***************************************************************************)
EXTENDS Integers, Sequences, FiniteSets

CONSTANTS
  Senders, Nonces,
  Me, Nothing,  \* the recipient; no scope, no answer
  Says,         \* what each envelope is: a label, an addressee, a scope, what it answers
  LeafOf,       \* each sender's certificate: from when until when, for which scopes
  Window,      \* CLOCK_WINDOW_MS
  WindowCapacity,    \* MAX_REPLAY_ENTRIES
  PerSender,   \* MAX_REPLAY_PER_SENDER
  Unsealed,    \* no such command yet
  MaxWall,     \* bound: the recipient's clock
  MaxBack      \* how far the recipient's clock may ever be set back, in all

ASSUME WindowBounds ==
  /\ Window \in Nat /\ WindowCapacity \in Nat /\ PerSender \in Nat
  /\ MaxWall \in Nat /\ MaxBack \in Nat /\ Unsealed \notin Int
  /\ DOMAIN LeafOf = Senders

Keys == Senders \X Nonces

VARIABLES
  wall,      \* the recipient's wall clock
  back,      \* how far it has been set back so far
  sealed,    \* the time in each command sealed
  seen, held, order,    \* the window
  accepted   \* how often each command was accepted in this run; for the properties only

replayVars == <<wall, back, sealed, seen, held, order, accepted>>

ReplayInit ==
  /\ wall = 0 /\ back = 0
  /\ sealed = [k \in Keys |-> Unsealed]
  /\ seen = {} /\ held = [s \in Senders |-> 0] /\ order = <<>>
  /\ accepted = [k \in Keys |-> 0]

\* hpke_seal binds the label, the sender and the addressee.
Info(label, sender, to) == <<label, sender, to>>

Bound(k) == Info(Says[k].label, k[1], Says[k].to)

\* seal, for a command, a result or a grant, on a clock that may be off from the
\* recipient's by a window and more.
Seal(k, time) ==
  /\ sealed[k] = Unsealed
  /\ sealed' = [sealed EXCEPT ![k] = time]
  /\ UNCHANGED <<wall, back, seen, held, order, accepted>>

\* How many entries from the front may be forgotten: up to the first that may not.
Expired ==
  LET live == {i \in DOMAIN order : order[i].forgetAt > wall}
  IN  IF live = {} THEN Len(order) ELSE (CHOOSE i \in live : \A j \in live : i <= j) - 1

Forgotten == {order[i].key : i \in 1..Expired}

Kept == SubSeq(order, Expired + 1, Len(order))

\* Wrong: what is forgotten still counts against its sender.
HeldAfterNothing == held

\* release, for each entry forgotten.
HeldAfter == [s \in Senders |-> held[s] - Cardinality({k \in Forgotten : k[1] = s})]

\* Wrong: forgotten a millisecond early.
ForgetAtEarly == wall + 2 * Window

ForgetAt == wall + 2 * Window + 1

Fresh(time) == time - wall <= Window /\ wall - time <= Window

\* unseal: not opened as another kind, from another sender or for another recipient.
Unseals(k, label, stamp) == Info(label, stamp, Me) = Bound(k)

\* check_chain: it is valid now; the signature is its leaf's.
CheckChain(k) == LeafOf[k[1]].from <= wall /\ wall <= LeafOf[k[1]].until

\* A command names a scope its sender has; a result names what it answers, and no scope.
MayAsk(k) ==
  \/ Says[k].answers = Nothing /\ Says[k].scope \in LeafOf[k[1]].scopes
  \/ Says[k].answers # Nothing /\ Says[k].scope = Nothing

Verified(k, label, stamp) ==
  Unseals(k, label, stamp) /\ CheckChain(k) /\ (label = "command" => MayAsk(k))

\* Wrong: the window first.
ReachesWindowEarly(k, label, stamp) == Unseals(k, label, stamp) /\ Fresh(sealed[k])

\* "Addressing and the replay window last: only a command that verified may take a
\* place in the window."
ReachesWindow(k, label, stamp) == Verified(k, label, stamp) /\ Fresh(sealed[k])

\* admit, which forgets what it may whether or not it takes the nonce.
Admit(k, verified) ==
  LET live == seen \ Forgotten IN
  IF k \in live \/ HeldAfter[k[1]] >= PerSender \/ Cardinality(live) >= WindowCapacity
  THEN /\ seen' = live /\ held' = HeldAfter /\ order' = Kept
       /\ UNCHANGED accepted
  ELSE /\ seen' = live \cup {k}
       /\ held' = [HeldAfter EXCEPT ![k[1]] = @ + 1]
       /\ order' = Append(Kept, [forgetAt |-> ForgetAt, key |-> k])
       /\ accepted' = [accepted EXCEPT ![k] = IF verified THEN @ + 1 ELSE @]

\* open and open_grant: a refusal before the window changes nothing.
OpenSealed(k, label, stamp) ==
  /\ sealed[k] # Unsealed /\ ReachesWindow(k, label, stamp)
  /\ Admit(k, Verified(k, label, stamp))
  /\ UNCHANGED <<wall, back, sealed>>

OpenCommand(k, stamp) == OpenSealed(k, "command", stamp)

OpenGrant(k, stamp) == OpenSealed(k, "grant", stamp)

WallTick ==
  /\ wall < MaxWall
  /\ wall' = wall + 1
  /\ UNCHANGED <<back, sealed, seen, held, order, accepted>>

\* The wall clock is corrected.
StepBack ==
  /\ back < MaxBack /\ wall > 0
  /\ wall' = wall - 1 /\ back' = back + 1
  /\ UNCHANGED <<sealed, seen, held, order, accepted>>

\* The recipient starts again: its window lives in memory.
Restart ==
  /\ order # <<>>
  /\ seen' = {} /\ held' = [s \in Senders |-> 0] /\ order' = <<>>
  /\ accepted' = [k \in Keys |-> 0]
  /\ UNCHANGED <<wall, back, sealed>>

ReplayNext ==
  \/ \E k \in Keys, time \in 0..MaxWall : Seal(k, time)
  \/ \E k \in Keys, stamp \in Senders : OpenCommand(k, stamp) \/ OpenGrant(k, stamp)
  \/ WallTick \/ StepBack \/ Restart

ReplaySpec == ReplayInit /\ [][ReplayNext]_replayVars

-----------------------------------------------------------------------------
\* "A command is accepted at most once" (Receiver::open): however often and late the
\* hub delivers it, to the last millisecond of its clock window, a second acceptance in
\* one run takes a wall clock that was set back. What was refused, by a chain not valid
\* yet, say, has taken no place and can still be accepted. And the window's three views
\* agree, so that no sender is locked out by nonces that are gone and none goes past its
\* share, whatever the clock does.
AcceptedOnce ==
  /\ \A k \in seen : accepted[k] > 0
  /\ back = 0 => \A k \in Keys : accepted[k] <= 1
  /\ seen = {order[i].key : i \in DOMAIN order} /\ Len(order) = Cardinality(seen)
  /\ Len(order) <= WindowCapacity
  /\ \A s \in Senders : held[s] = Cardinality({k \in seen : k[1] = s}) /\ held[s] <= PerSender

=============================================================================
