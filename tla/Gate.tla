--------------------------------- MODULE Gate ---------------------------------
(***************************************************************************)
(* The hub before anyone has said who they are: the accept loop and the    *)
(* first part of a connection (serve and connection in                     *)
(* crates/hub/src/lib.rs), paced by the budget strangers share             *)
(* (strangers.rs) and by how often one address may arrive (arrivals.rs).   *)
(* A socket takes a place when it is accepted; whatever ends it before its *)
(* hello verifies charges the strangers for it, on the drop of its place.  *)
(*                                                                         *)
(* Credit is earned as elapsed * rate \div scale, with the truncation of   *)
(* the code, and both rates are on (0 turns either off).                   *)
(***************************************************************************)
EXTENDS Integers, FiniteSets, Functions

CONSTANTS
  Socks,                  \* sockets
  Peers,                  \* addresses, of peers and as forwarded by a proxy
  Proxies,                \* the peers that are trusted proxies
  MaxSockets, MaxPending, MaxPairing,
  UsRate, UsScale, UsBurst,         \* the strangers' budget: credit per UsScale of time
  NoHelloUs, RefusedHelloUs,        \* what a stranger cost
  PerMinute, Minute, ArrivalBurst, Whole,   \* arrivals: milli-tokens per Minute, and per connection
  MaxTracked,
  NoPeer,
  MaxTime                 \* bound on the clock

ASSUME GateAssumption ==
  /\ {MaxSockets, MaxPending, MaxPairing, UsBurst, MaxTracked, MaxTime} \subseteq Nat
  /\ {UsRate, UsScale, PerMinute, Minute, Whole, ArrivalBurst} \subseteq Nat \ {0}
  /\ NoHelloUs \in Nat \ {0} /\ RefusedHelloUs \in Nat \ {0} /\ NoHelloUs <= RefusedHelloUs
  /\ ArrivalBurst >= Whole    \* burst.max(1)
  /\ Proxies \subseteq Peers /\ NoPeer \notin Peers

VARIABLES
  time,
  loop,             \* the accept loop: the peer it has accepted, and until when it sleeps
  sock, charge,     \* per socket: how far it is, and Stranger::cost_us
  credit, creditAt, \* Strangers: balance_us and at
  seen,             \* arrivals: the allowance of each tracked address
  \* history, for the properties
  late,             \* charged, and lost to truncation, since the loop computed its sleep
  since, admitted   \* per tracked address: when it was first seen, and what it has been admitted

gateVars == <<time, loop, sock, charge, credit, creditAt, seen, late, since, admitted>>

Least(a, b) == IF a <= b THEN a ELSE b
Quiet == [peer |-> NoPeer, until |-> 0]
Unauthenticated == {"handshake", "challenged", "hello", "pairing"}
Pending == {s \in Socks : sock[s] \in Unauthenticated}
Paired == {s \in Socks : sock[s] = "pairing"}
Open == {s \in Socks : sock[s] # "off"}

GateInit ==
  /\ time = 0 /\ loop = Quiet
  /\ sock = [s \in Socks |-> "off"] /\ charge = [s \in Socks |-> 0]
  /\ credit = UsBurst /\ creditAt = 0
  /\ seen = << >> /\ since = << >> /\ admitted = << >>
  /\ late = 0

-----------------------------------------------------------------------------
\* Strangers::refill.
Credited == Least(credit + ((time - creditAt) * UsRate) \div UsScale, UsBurst)

\* Wrong: the wait ends before the debt is repaid.
OwedDown == ((-Credited) * UsScale) \div UsRate

\* Wrong: nothing is ever waited for.
OwedNothing == 0

\* Strangers::wait: how long the debt takes to repay, rounded up.
Owed == IF Credited >= 0 THEN 0 ELSE ((-Credited) * UsScale + UsRate - 1) \div UsRate

\* The drop of a Stranger: charge, unless it was settled.
Dropped(s) ==
  /\ sock' = [sock EXCEPT ![s] = "off"]
  /\ charge' = [charge EXCEPT ![s] = 0]
  /\ IF charge[s] > 0
     THEN credit' = Credited - charge[s] /\ creditAt' = time /\ late' = late + charge[s] + 1
     ELSE UNCHANGED <<credit, creditAt, late>>

-----------------------------------------------------------------------------
\* What Gate::admit finds an address to have: a new one has its burst.
Allowance(d) ==
  IF d \in DOMAIN seen
  THEN Least(seen[d].milli + ((time - seen[d].at) * PerMinute) \div Minute, ArrivalBurst)
  ELSE ArrivalBurst

MayArrive(d) == Allowance(d) >= Whole

\* Wrong: a refused arrival leaves the time it came, and earns it again.
SeenUnlessRefused(d) == IF MayArrive(d) \/ d \notin DOMAIN seen THEN time ELSE seen[d].at

SeenAt(d) == time

\* forget_idle: past the limit the addresses that are back to full go, and then,
\* if that is not enough, those not seen since the median.
Kept(now) ==
  LET busy == {d \in DOMAIN now : now[d].milli + ((time - now[d].at) * PerMinute) \div Minute < ArrivalBurst}
      half == Cardinality(busy) \div 2
      cutoff == CHOOSE t \in {now[d].at : d \in busy} :
                  /\ Cardinality({d \in busy : now[d].at < t}) <= half
                  /\ Cardinality({d \in busy : now[d].at <= t}) > half
  IN IF Cardinality(DOMAIN now) <= MaxTracked THEN DOMAIN now
     ELSE IF Cardinality(busy) <= MaxTracked THEN busy
     ELSE {d \in busy : now[d].at > cutoff}

\* Gate::admit, recorded when it may.
Arrives(d) ==
  LET left == IF MayArrive(d) THEN Allowance(d) - Whole ELSE Allowance(d)
      all  == DOMAIN seen \cup {d}
      now  == [e \in all |-> IF e = d THEN [milli |-> left, at |-> SeenAt(d)] ELSE seen[e]]
      keep == IF MayArrive(d) THEN Kept(now) ELSE all
      new  == d \notin DOMAIN seen
      first == IF new THEN time ELSE since[d]
      count == (IF new THEN 0 ELSE admitted[d]) + (IF MayArrive(d) THEN 1 ELSE 0)
  IN /\ seen' = Restrict(now, keep)
     /\ since' = [e \in keep |-> IF e = d THEN first ELSE since[e]]
     /\ admitted' = [e \in keep |-> IF e = d THEN count ELSE admitted[e]]

-----------------------------------------------------------------------------
\* The loop accepts a connection and computes what strangers owe, once.
Accept(p) ==
  /\ loop = Quiet
  /\ loop' = [peer |-> p, until |-> time + Owed]
  /\ credit' = Credited /\ creditAt' = time /\ late' = 0
  /\ UNCHANGED <<time, sock, charge, seen, since, admitted>>

\* The sleep is over. A socket limit, an address that comes too often (a proxy's
\* clients are gated in the handshake) or too many unauthenticated sockets refuse
\* it, in this order; otherwise it is spawned with a place of its own.
Spawn ==
  /\ loop # Quiet /\ time >= loop.until
  /\ loop' = Quiet
  /\ IF Cardinality(Open) >= MaxSockets THEN UNCHANGED <<seen, since, admitted, sock, charge>>
     ELSE /\ IF loop.peer \in Proxies THEN UNCHANGED <<seen, since, admitted>> ELSE Arrives(loop.peer)
          /\ IF (loop.peer \in Proxies \/ MayArrive(loop.peer)) /\ Cardinality(Pending) < MaxPending
             THEN \E s \in Socks \ Open :
                    /\ sock' = [sock EXCEPT ![s] = IF loop.peer \in Proxies THEN "handshake" ELSE "challenged"]
                    /\ charge' = [charge EXCEPT ![s] = NoHelloUs]
             ELSE UNCHANGED <<sock, charge>>
  /\ UNCHANGED <<time, credit, creditAt, late>>

\* A proxied connection's handshake: gated by the address the proxy forwards.
Forwarded(s, d) ==
  /\ sock[s] = "handshake"
  /\ Arrives(d)
  /\ IF MayArrive(d)
     THEN sock' = [sock EXCEPT ![s] = "challenged"] /\ UNCHANGED <<charge, credit, creditAt, late>>
     ELSE Dropped(s)
  /\ UNCHANGED <<time, loop>>

\* Every way to end before a hello: the handshake fails, the hello does not come
\* in time, is too large, malformed, or something else; or no pairing place is left.
NoHello(s) ==
  /\ sock[s] \in {"handshake", "challenged"}
  /\ Dropped(s)
  /\ UNCHANGED <<time, loop, seen, since, admitted>>

\* A first frame that offers a pairing: settled, and it keeps its place.
PairOffer(s) ==
  /\ sock[s] = "challenged" /\ Cardinality(Paired) < MaxPairing
  /\ sock' = [sock EXCEPT ![s] = "pairing"] /\ charge' = [charge EXCEPT ![s] = 0]
  /\ UNCHANGED <<time, loop, credit, creditAt, seen, late, since, admitted>>

\* sent_hello.
SendsHello(s) ==
  /\ sock[s] = "challenged"
  /\ sock' = [sock EXCEPT ![s] = "hello"] /\ charge' = [charge EXCEPT ![s] = RefusedHelloUs]
  /\ UNCHANGED <<time, loop, credit, creditAt, seen, late, since, admitted>>

\* authenticate or the relay's connect refuses it.
Refuse(s) ==
  /\ sock[s] = "hello"
  /\ Dropped(s)
  /\ UNCHANGED <<time, loop, seen, since, admitted>>

\* It is connected: settled, and its place goes back.
Authenticated(s) ==
  /\ sock[s] = "hello"
  /\ sock' = [sock EXCEPT ![s] = "connected"] /\ charge' = [charge EXCEPT ![s] = 0]
  /\ UNCHANGED <<time, loop, credit, creditAt, seen, late, since, admitted>>

\* A pairing or a connected socket ends, with nothing left to charge.
Ends(s) ==
  /\ sock[s] \in {"pairing", "connected"}
  /\ Dropped(s)
  /\ UNCHANGED <<time, loop, seen, since, admitted>>

GateTick ==
  /\ time < MaxTime /\ time' = time + 1
  /\ UNCHANGED <<loop, sock, charge, credit, creditAt, seen, late, since, admitted>>

GateNext ==
  \/ \E p \in Peers : Accept(p)
  \/ Spawn
  \/ \E s \in Socks : \/ NoHello(s) \/ PairOffer(s) \/ SendsHello(s) \/ Refuse(s)
                      \/ Authenticated(s) \/ Ends(s)
                      \/ \E d \in Peers : Forwarded(s, d)
  \/ GateTick

GateSpec == GateInit /\ [][GateNext]_gateVars

-----------------------------------------------------------------------------
\* "The pending-socket cap bounds how many can be in flight, so how deep it goes is
\* bounded too": the debt never passes what the places and one socket more can cost,
\* and a unit of rounding each, however long strangers keep failing.
DebtBounded ==
  -credit <= (MaxPending + 1) * (RefusedHelloUs + 1)

\* Strangers are paced: their debt is bounded, and what the loop saw of it when it
\* accepted is repaid before it lets the socket in: what is still owed then was
\* charged while it slept, or is the fraction each of those charges cut off.
StrangersPaced ==
  /\ DebtBounded
  /\ loop # Quiet /\ time >= loop.until => -Credited <= late

\* No schedule of arrivals, refused ones included, earns an address more than its
\* rate: what it was admitted and has left is at most its burst and what it earned
\* since it was first seen. No more addresses are tracked than the limit.
ArrivalsWithinRate ==
  /\ Cardinality(DOMAIN seen) <= MaxTracked
  /\ \A d \in DOMAIN seen :
       admitted[d] * Whole + seen[d].milli <= ArrivalBurst + ((seen[d].at - since[d]) * PerMinute) \div Minute
=============================================================================
