----------------------------- MODULE AccountSlots -----------------------------
(***************************************************************************)
(* How many accounts the shards hold together (crates/hub/src/lib.rs,      *)
(* Shared::accounts): a count outside every shard's lock, reserved before  *)
(* an account is admitted and brought in line after every call. A call     *)
(* holds its shard's lock; between its two updates of the count, calls on  *)
(* other shards run.                                                       *)
(***************************************************************************)
EXTENDS Integers, FiniteSets

CONSTANTS
  Shards, Accounts,
  ShardOf,        \* the keyed hash
  MaxAccounts,
  NoAccount

ASSUME ShardsAssumption ==
  /\ ShardOf \in [Accounts -> Shards]
  /\ IsFiniteSet(Accounts) /\ NoAccount \notin Accounts
  /\ MaxAccounts \in Nat

VARIABLES
  total,      \* Shared::accounts
  present,       \* accounts some shard's relay holds
  counted,    \* ShardState::accounts
  call,       \* per shard: "none", "admitting", or "made", its effect not yet in the count
  reserved,   \* per shard: slots its call has reserved
  newcomer    \* per shard: the account being admitted

slotVars == <<total, present, counted, call, reserved, newcomer>>

HeldBy(s) == {a \in present : ShardOf[a] = s}

SlotsInit ==
  /\ total = 0 /\ present = {}
  /\ counted = [s \in Shards |-> 0]
  /\ call = [s \in Shards |-> "none"]
  /\ reserved = [s \in Shards |-> 0]
  /\ newcomer = [s \in Shards |-> NoAccount]

\* Wrong: one slot more than there are.
SlotLeftInclusive == total <= MaxAccounts

SlotLeft == total < MaxAccounts

\* connect, its first part: an account the shard does not hold takes a slot by
\* compare-and-swap, or is refused, which changes nothing.
Reserve(s, a) ==
  /\ ShardOf[a] = s /\ call[s] = "none"
  /\ IF a \in present THEN UNCHANGED <<total, reserved>>
     ELSE /\ SlotLeft
          /\ total' = total + 1
          /\ reserved' = [reserved EXCEPT ![s] = 1]
  /\ call' = [call EXCEPT ![s] = "admitting"]
  /\ newcomer' = [newcomer EXCEPT ![s] = a]
  /\ UNCHANGED <<present, counted>>

\* Hub::connect admits it or refuses it.
Admit(s, refused) ==
  /\ call[s] = "admitting"
  /\ present' = IF refused THEN present ELSE present \cup {newcomer[s]}
  /\ call' = [call EXCEPT ![s] = "made"]
  /\ newcomer' = [newcomer EXCEPT ![s] = NoAccount]
  /\ UNCHANGED <<total, counted, reserved>>

\* on_shard: a call after which the relay may hold an account less.
Call(s, gone) ==
  /\ call[s] = "none"
  /\ gone \subseteq HeldBy(s) /\ Cardinality(gone) <= 1
  /\ present' = present \ gone
  /\ call' = [call EXCEPT ![s] = "made"]
  /\ UNCHANGED <<total, counted, reserved, newcomer>>

\* Wrong: the account is counted and its reservation stays.
ChangeKeepingReserved(s) == Cardinality(HeldBy(s)) - counted[s]

Change(s) == Cardinality(HeldBy(s)) - counted[s] - reserved[s]

\* reconcile_accounts, and the lock is released.
Reconcile(s) ==
  /\ call[s] = "made"
  /\ total' = total + Change(s)
  /\ counted' = [counted EXCEPT ![s] = Cardinality(HeldBy(s))]
  /\ reserved' = [reserved EXCEPT ![s] = 0]
  /\ call' = [call EXCEPT ![s] = "none"]
  /\ UNCHANGED <<present, newcomer>>

SlotsNext ==
  \E s \in Shards :
    \/ \E a \in Accounts : Reserve(s, a)
    \/ \E refused \in BOOLEAN : Admit(s, refused)
    \/ \E gone \in SUBSET Accounts : Call(s, gone)
    \/ Reconcile(s)

SlotsSpec == SlotsInit /\ [][SlotsNext]_slotVars

-----------------------------------------------------------------------------
\* The limit holds across every shard at every moment, although shards admit at
\* once: the count is never below what they hold ("with no moment in between where
\* the count is low") and never above the limit. And nothing drifts: between calls
\* the count is exactly what the shards hold, whatever was refused after it had
\* reserved ("kept exact").
AccountsCounted ==
  /\ Cardinality(present) <= total /\ total <= MaxAccounts
  /\ (\A s \in Shards : call[s] = "none") => total = Cardinality(present)

=============================================================================
