----------------------------- MODULE WorkBudget -----------------------------
(***************************************************************************)
(* One account's work budget (crates/relay/src/rate.rs) as the relay and   *)
(* the server use it: a connect is charged or refused (Hub::connect), a    *)
(* chunk of a message is charged and handed over at once or after the wait *)
(* its debt takes to repay (Hub::charge and the read loop of               *)
(* crates/hub/src/lib.rs), what it makes the relay queue is charged when   *)
(* it is handed over (Hub::receive), and the bucket is gone when the       *)
(* account is forgotten (Hub::forget).                                     *)
(*                                                                         *)
(* Costs are in work-bytes and the balance in Milli-ths of one, as in the  *)
(* code. The i128 the balance saturates at is out of reach of any schedule *)
(* and left out.                                                           *)
(***************************************************************************)
EXTENDS Integers

CONSTANTS
  Conns,         \* connections of the account
  Rate,          \* account_bytes_per_second
  Burst,         \* account_burst_bytes
  Milli,         \* balance units per byte: MILLI
  ConnectCost,   \* CONNECT_COST_BYTES
  RefuseAbove,   \* CONNECT_REFUSED_ABOVE_MS
  ChunkCosts,    \* costs a chunk may have
  FanOutCosts,   \* costs of what a chunk may make the relay queue
  MaxClock,      \* bound: milliseconds
  MaxSpent       \* bound: work-bytes spent in one life of the bucket

ASSUME CostsAreNaturals ==
  /\ Rate \in Nat /\ Burst \in Nat /\ Milli \in Nat /\ RefuseAbove \in Nat
  /\ ConnectCost \in Nat /\ ChunkCosts \subseteq Nat /\ FanOutCosts \subseteq Nat
  /\ MaxClock \in Nat /\ MaxSpent \in Nat

\* A rate of zero is no limit at all (wait_ms); the bounds below are about one.
ASSUME SomeRate == Rate > 0

VARIABLES
  clock,      \* the server's monotonic milliseconds
  held,       \* the relay holds the account
  retains,    \* a ring keeps the account held
  balance, credited,    \* the bucket, meaningful while held
  conn,       \* "off", "on", or "waiting" with a chunk unsent
  until,      \* when a waiting connection's chunk is handed over
  \* the bucket's life so far, for the properties only
  born,       \* when it was created
  spent,      \* charged in it
  admits,     \* connects charged in it
  bill,       \* per waiting connection: spent once its chunk was charged
  everAdmits  \* connects admitted in all lives

vars == <<clock, held, retains, balance, credited, conn, until, born, spent, admits, bill, everAdmits>>

Init ==
  /\ clock = 0 /\ held = FALSE /\ retains = FALSE
  /\ balance = 0 /\ credited = 0
  /\ conn = [c \in Conns |-> "off"]
  /\ until = [c \in Conns |-> 0]
  /\ born = 0 /\ spent = 0 /\ admits = 0 /\ everAdmits = 0
  /\ bill = [c \in Conns |-> 0]

\* refill: credit the time since the last one, up to the burst.
Refilled ==
  LET earned == balance + (clock - credited) * Rate
  IN  IF clock <= credited THEN balance
      ELSE IF earned < Burst * Milli THEN earned ELSE Burst * Milli

\* Wrong: rounded down, a chunk is handed over before its debt is repaid.
WaitMsDown(b) == IF b >= 0 THEN 0 ELSE (-b) \div Rate

\* wait_ms: how long a balance takes to be repaid, rounded up.
WaitMs(b) == IF b >= 0 THEN 0 ELSE ((-b) + Rate - 1) \div Rate

\* Wrong: a full bucket at the start.
NewBalanceFull == Burst * Milli

\* new: a bucket starts empty, and nothing is earned before its first refill.
NewBalance == 0

Spend(cost, before) ==
  /\ balance' = before - cost * Milli
  /\ credited' = clock
  /\ spent' = spent + cost

\* Wrong: no account is ever far enough in debt to be refused.
TooMuchDebtNever == FALSE

TooMuchDebt == held /\ WaitMs(Refilled) > RefuseAbove

\* connect: an account far in debt is told to come back, having been refilled.
Refused(c) ==
  /\ conn[c] = "off"
  /\ TooMuchDebt
  /\ balance' = Refilled /\ credited' = clock
  /\ UNCHANGED <<clock, held, retains, conn, until, born, spent, admits, bill, everAdmits>>

\* connect, admitted: charged to the account's bucket, a new one if need be.
Connect(c) ==
  /\ conn[c] = "off"
  /\ ~TooMuchDebt
  /\ spent + ConnectCost <= MaxSpent
  /\ held' = TRUE
  /\ conn' = [conn EXCEPT ![c] = "on"]
  /\ IF held
     THEN /\ Spend(ConnectCost, Refilled)
          /\ admits' = admits + 1
          /\ UNCHANGED born
     ELSE /\ balance' = NewBalance - ConnectCost * Milli
          /\ credited' = clock
          /\ born' = clock /\ spent' = ConnectCost /\ admits' = 1
  /\ everAdmits' = everAdmits + 1
  /\ UNCHANGED <<clock, retains, until, bill>>

\* charge, then the read loop: with no debt the chunk is handed over under the
\* same lock, and what it queues is spent too; in debt the connection waits.
Charge(c, cost, fanOut) ==
  LET after == Refilled - cost * Milli
      wait  == WaitMs(after)
  IN
  /\ conn[c] = "on"
  /\ spent + cost + fanOut <= MaxSpent
  /\ \/ /\ wait = 0
        /\ Spend(cost + fanOut, Refilled)
        /\ retains' \in {retains, TRUE}
        /\ UNCHANGED <<conn, until, bill>>
     \/ /\ wait > 0 /\ fanOut = 0
        /\ Spend(cost, Refilled)
        /\ conn' = [conn EXCEPT ![c] = "waiting"]
        /\ until' = [until EXCEPT ![c] = clock + wait]
        /\ bill' = [bill EXCEPT ![c] = spent']
        /\ UNCHANGED retains
  /\ UNCHANGED <<clock, held, born, admits, everAdmits>>

\* The wait is over: the chunk is handed over without being charged again.
\* receive spends without refilling.
HandOver(c, fanOut) ==
  /\ conn[c] = "waiting" /\ clock >= until[c]
  /\ spent + fanOut <= MaxSpent
  /\ conn' = [conn EXCEPT ![c] = "on"]
  /\ balance' = balance - fanOut * Milli
  /\ spent' = spent + fanOut
  /\ retains' \in {retains, TRUE}
  /\ UNCHANGED <<clock, held, credited, until, born, admits, bill, everAdmits>>

\* forget: the last connection of an account that retains nothing takes the
\* bucket, debt included, with it. What a waiting one had unsent is lost.
Leave(c) ==
  /\ conn[c] # "off"
  /\ conn' = [conn EXCEPT ![c] = "off"]
  /\ IF retains \/ \E d \in Conns \ {c} : conn[d] # "off"
     THEN UNCHANGED <<held, balance, credited, born, spent, admits>>
     ELSE /\ held' = FALSE
          /\ balance' = 0 /\ credited' = 0
          /\ born' = 0 /\ spent' = 0 /\ admits' = 0
  /\ UNCHANGED <<clock, retains, until, bill, everAdmits>>

Tick ==
  /\ clock < MaxClock
  /\ clock' = clock + 1
  /\ UNCHANGED <<held, retains, balance, credited, conn, until, born, spent, admits, bill, everAdmits>>

Next ==
  \/ \E c \in Conns : \/ Refused(c) \/ Connect(c) \/ Leave(c)
                      \/ \E cost \in ChunkCosts, f \in FanOutCosts : Charge(c, cost, f)
                      \/ \E f \in FanOutCosts : HandOver(c, f)
  \/ Tick

Spec == Init /\ [][Next]_vars

-----------------------------------------------------------------------------
\* The values every variable ranges over.
TypeOK ==
  /\ clock \in 0..MaxClock /\ held \in BOOLEAN /\ retains \in BOOLEAN
  /\ balance \in Int /\ credited \in 0..MaxClock /\ born \in 0..MaxClock
  /\ conn \in [Conns -> {"off", "on", "waiting"}]
  /\ until \in [Conns -> Nat] /\ bill \in [Conns -> Nat]
  /\ spent \in Nat /\ admits \in Nat /\ everAdmits \in Nat

\* The bucket mints no work: what was spent of it plus what is left never exceeds
\* what the rate earned since it was created, over any interleaving of connects,
\* charges, waits and fan-out (the test no_schedule_spends_more_than_the_rate_earned
\* states it of one bucket and one caller).
NothingMinted ==
  held => /\ credited \in born..clock
          /\ spent * Milli + balance <= (credited - born) * Rate

\* When a waiting connection's chunk is handed over, everything charged up to and
\* including it has been earned, however many connections charged in between.
PaidBeforeHandedOver ==
  \A c \in Conns : conn[c] = "waiting" /\ clock >= until[c] =>
    bill[c] * Milli <= (clock - born) * Rate

\* While the relay holds the account, its connects cost it: they never outrun what
\* the rate earned by more than the debt a connect is refused above, and one.
ConnectsPaidWhileHeld ==
  held => admits * ConnectCost * Milli <=
            (clock - born) * Rate + RefuseAbove * Rate + ConnectCost * Milli

=============================================================================
