------------------------------ MODULE MCServer ------------------------------
(* Server with fewer behaviours of the neighbours for the liveness runs: only *)
(* the connections of Watched are throttled and pinged.                       *)
EXTENDS Server

CONSTANT Watched

MCNext ==
  \E c \in Conns :
    \/ ReaderGoesOn(c) \/ ReaderStops(c)
    \/ Connect(c) \/ Refuse(c)
    \/ \E T \in SUBSET known, refused \in {{}, {c}} : Receive(c, T, refused)
    \/ c \in Watched /\ (PingTick(c) \/ \E notice \in {{}, {c}} : Throttle(c, notice))
    \/ WriterStep(c) \/ PeerLeaves(c)

MCSpec     == Init /\ [][MCNext]_vars
MCFairSpec == MCSpec /\ Fairness
=============================================================================
