---------------------------- MODULE MCHubLimits ----------------------------
(* The hub's admission limits. They keep no state in common, so each behaviour *)
(* runs one of them and the others stand still.                                *)
EXTENDS WorkBudget, AccountSlots, Gate, PairingSlots, TLC

CONSTANTS
  s1, s2, s3, a1, a2, a3, a4,
  MaxAdmits    \* bound: connects admitted in all lives of a bucket

MCShards   == {s1, s2, s3}
MCAccounts == {a1, a2, a3, a4}
MCShardOf  == [a \in MCAccounts |-> CASE a \in {a1, a2} -> s1 [] a = a3 -> s2 [] a = a4 -> s3]
Alike      == Permutations(Socks)

VARIABLE limit    \* which of them this behaviour is about

MCConnect(c) == everAdmits < MaxAdmits /\ Connect(c)

WorkNext ==
  \/ \E c \in Conns : \/ Refused(c) \/ MCConnect(c) \/ Leave(c)
                      \/ \E cost \in ChunkCosts, f \in FanOutCosts : Charge(c, cost, f)
                      \/ \E f \in FanOutCosts : HandOver(c, f)
  \/ Tick

MCInit ==
  /\ limit \in {"work", "slots", "gate", "pairing"}
  /\ Init /\ SlotsInit /\ GateInit /\ PairInit

MCNext ==
  /\ \/ limit = "work" /\ WorkNext /\ UNCHANGED <<slotVars, gateVars, pairVars>>
     \/ limit = "slots" /\ SlotsNext /\ UNCHANGED <<vars, gateVars, pairVars>>
     \/ limit = "gate" /\ GateNext /\ UNCHANGED <<vars, slotVars, pairVars>>
     \/ limit = "pairing" /\ PairNext /\ UNCHANGED <<vars, slotVars, gateVars>>
  /\ UNCHANGED limit

MCSpec == MCInit /\ [][MCNext]_<<limit, vars, slotVars, gateVars, pairVars>>
=============================================================================
