----------------------------- MODULE PairingSlots -----------------------------
(***************************************************************************)
(* The pairing slots (crates/hub/src/pairing.rs), the sockets that offer   *)
(* one (pairing_socket in crates/hub/src/lib.rs) and the authenticated     *)
(* devices that fetch the offer and answer it (the read loop).             *)
(*                                                                         *)
(* An offer is named by the socket it came from, an answer by the offer it *)
(* was made for and the device that made it. Sizes are left out.           *)
(***************************************************************************)
EXTENDS Integers, FiniteSets

CONSTANTS
  Codes,       \* code hashes
  Sockets,     \* unauthenticated sockets that offer
  Devices,     \* connections that answer
  Nothing,     \* no slot, no code, no answer
  Lifetime,    \* SLOT_LIFETIME
  MaxSlots,    \* MAX_SLOTS
  MaxMoment    \* bound: the clock

ASSUME PairingBounds ==
  /\ Lifetime \in Nat \ {0} /\ MaxSlots \in Nat /\ MaxMoment \in Nat
  /\ Nothing \notin Codes /\ Nothing \notin Sockets

VARIABLES
  moment,     \* the hub's clock
  open,       \* code hash -> its slot, or Nothing
  socket,     \* "new", "held", "waiting", "paired", "refused", "over"
  code,       \* the code hash each socket offered under
  deadline,   \* when it gives up waiting
  collected,  \* the slot whose answer it was given
  fetched     \* per device and code: the offer it last fetched

pairVars == <<moment, open, socket, code, deadline, collected, fetched>>

PairInit ==
  /\ moment = 0
  /\ open = [k \in Codes |-> Nothing]
  /\ socket = [s \in Sockets |-> "new"]
  /\ code = [s \in Sockets |-> Nothing]
  /\ deadline = [s \in Sockets |-> 0]
  /\ collected = [s \in Sockets |-> Nothing]
  /\ fetched = [d \in Devices |-> [k \in Codes |-> Nothing]]

\* forget_expired, before every operation but forget.
LiveSlots == [k \in Codes |-> IF open[k] # Nothing /\ open[k].expires > moment THEN open[k] ELSE Nothing]

SlotsHeld(now) == Cardinality({k \in Codes : now[k] # Nothing})

Forgotten(now, k) == [now EXCEPT ![k] = Nothing]

Full(live) == SlotsHeld(live) >= MaxSlots

\* offer: refused when the code is taken or the hub holds as many as it will.
Offer(s, k) ==
  LET live == LiveSlots IN
  /\ socket[s] = "new"
  /\ code' = [code EXCEPT ![s] = k]
  /\ IF live[k] # Nothing \/ Full(live)
     THEN /\ open' = live
          /\ socket' = [socket EXCEPT ![s] = "refused"]
     ELSE /\ open' = [live EXCEPT ![k] = [offer |-> s, answer |-> Nothing, expires |-> moment + Lifetime]]
          /\ socket' = [socket EXCEPT ![s] = "held"]
  /\ UNCHANGED <<moment, deadline, collected, fetched>>

\* The socket is told it is held, and its own deadline starts only now.
SaidHeld(s) ==
  /\ socket[s] = "held"
  /\ socket' = [socket EXCEPT ![s] = "waiting"]
  /\ deadline' = [deadline EXCEPT ![s] = moment + Lifetime]
  /\ UNCHANGED <<moment, open, code, collected, fetched>>

\* Wrong: an offer whose socket failed is left to expire.
WithoutNobody(s) == open

\* forget: nothing waits for the answer any more.
Without(s) == Forgotten(open, code[s])

\* The send failed, the peer left or spoke, or its time is up.
GiveUp(s) ==
  /\ socket[s] \in {"held", "waiting"}
  /\ open' = Without(s)
  /\ socket' = [socket EXCEPT ![s] = "over"]
  /\ UNCHANGED <<moment, code, deadline, collected, fetched>>

\* Wrong: what was collected stays for the next poll.
AfterCollectingKept(live, k) == live

AfterCollecting(live, k) == Forgotten(live, k)

\* One poll before the deadline: an answer is taken and the slot deleted.
Poll(s) ==
  LET live == LiveSlots
      slot == live[code[s]]
  IN
  /\ socket[s] = "waiting" /\ moment < deadline[s]
  /\ IF slot # Nothing /\ slot.answer # Nothing
     THEN /\ open' = AfterCollecting(live, code[s])
          /\ collected' = [collected EXCEPT ![s] = slot]
          /\ socket' = [socket EXCEPT ![s] = "paired"]
     ELSE /\ open' = live
          /\ UNCHANGED <<collected, socket>>
  /\ UNCHANGED <<moment, code, deadline, fetched>>

\* PairFetch: reading the offer does not consume the slot.
Fetch(d, k) ==
  LET live == LiveSlots IN
  /\ open' = live
  /\ fetched' = [fetched EXCEPT ![d][k] = IF live[k] = Nothing THEN @ ELSE live[k].offer]
  /\ UNCHANGED <<moment, socket, code, deadline, collected>>

\* PairAnswer: only the first is taken.
Answer(d, k) ==
  LET live == LiveSlots IN
  /\ fetched[d][k] # Nothing
  /\ open' = IF live[k] = Nothing \/ live[k].answer # Nothing THEN live
             ELSE [live EXCEPT ![k] = [@ EXCEPT !.answer = [for |-> fetched[d][k], by |-> d]]]
  /\ UNCHANGED <<moment, socket, code, deadline, collected, fetched>>

PairTick ==
  /\ moment < MaxMoment
  /\ moment' = moment + 1
  /\ UNCHANGED <<open, socket, code, deadline, collected, fetched>>

PairNext ==
  \/ \E s \in Sockets : \/ \E k \in Codes : Offer(s, k)
                        \/ SaidHeld(s) \/ GiveUp(s) \/ Poll(s)
  \/ \E d \in Devices, k \in Codes : Fetch(d, k) \/ Answer(d, k)
  \/ PairTick

PairSpec == PairInit /\ [][PairNext]_pairVars

-----------------------------------------------------------------------------
\* No slot outlives its socket: while one is live, the socket that offered it is
\* there to collect the answer, on every way pairing_socket ends and although two
\* sockets may poll one code hash. "Nothing is served twice" (collect): no two sockets
\* are given the answer of one slot, and a socket is given one only from a slot under
\* the code it offered itself. It may be another socket's slot: one whose own slot
\* lapsed polls on, and the code may have been offered again. No more slots are held
\* than MAX_SLOTS.
AnswersGoToOneSocket ==
  /\ \A k \in Codes : LiveSlots[k] # Nothing => socket[LiveSlots[k].offer] \in {"held", "waiting"}
  /\ \A s \in Sockets : collected[s] # Nothing => code[collected[s].offer] = code[s]
  /\ \A s, t \in Sockets :
       s # t /\ collected[s] # Nothing /\ collected[t] # Nothing => collected[s].offer # collected[t].offer
  /\ SlotsHeld(open) <= MaxSlots

=============================================================================
