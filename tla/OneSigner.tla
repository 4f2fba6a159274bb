------------------------------- MODULE OneSigner -------------------------------
(***************************************************************************)
(* What the hub promises about an account's revocation signer, with the    *)
(* files, locks and crashes left out: a claim looks at the record and      *)
(* replaces it in one step. crates/hub/src/registry.rs says it of          *)
(* claim_revoker: the first claim wins while its grant lives, a spent      *)
(* record is no record, and an operator may forget it.                     *)
(***************************************************************************)
EXTENDS Integers

CONSTANTS Accounts, Grants, NoRecord

VARIABLES
  holder,    \* per account: the grant on record, or none
  signers,   \* per account: the grants let in since the record was last cleared
  clock

Free(a) == holder[a] # NoRecord => holder[a].until <= clock

Mine(a, g) == holder[a] # NoRecord /\ holder[a].principal = g.principal

Init ==
  /\ holder = [a \in Accounts |-> NoRecord]
  /\ signers = [a \in Accounts |-> {}]
  /\ clock = 0

\* A claim that is granted. A later grant of the holder's replaces its record, an
\* earlier one leaves it.
Claim(a, g) ==
  /\ \/ /\ Free(a) \/ (Mine(a, g) /\ holder[a].since < g.since)
        /\ holder' = [holder EXCEPT ![a] = g]
     \/ /\ Mine(a, g) /\ g.since <= holder[a].since
        /\ UNCHANGED holder
  /\ signers' = [signers EXCEPT ![a] = @ \cup {g}]
  /\ UNCHANGED clock

Clear(a) ==
  /\ holder' = [holder EXCEPT ![a] = NoRecord]
  /\ signers' = [signers EXCEPT ![a] = {}]
  /\ UNCHANGED clock

Tick ==
  /\ clock' > clock
  /\ UNCHANGED <<holder, signers>>

Next ==
  \/ \E a \in Accounts : \/ \E g \in Grants : Claim(a, g)
                         \/ Clear(a)
  \/ Tick

Spec == Init /\ [][Next]_<<holder, signers, clock>>
================================================================================
