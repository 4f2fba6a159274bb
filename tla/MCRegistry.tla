------------------------------ MODULE MCRegistry ------------------------------
(* Two hellos at once. Principal p signs for the first account, then with a     *)
(* later grant that lasts longer, or with one that ends sooner; q has a grant   *)
(* that overlaps them all. A second account has no signer and wants the same    *)
(* invite.                                                                      *)
EXTENDS Registry, TLC

CONSTANTS t1, t2, a1, a2, i1, p, q, d1

MCTasks == {t1, t2}
Early == [principal |-> p, since |-> 0, until |-> 2]
Later == [principal |-> p, since |-> 1, until |-> 3]
Other == [principal |-> q, since |-> 0, until |-> 3]
Shorter == [principal |-> p, since |-> 1, until |-> 1]
MCGrants == {Early, Later, Shorter, Other}
MCRequests ==
  {[account |-> a1, leaf |-> g, invite |-> IF g = Later THEN i1 ELSE NoInvite, address |-> d1] :
     g \in MCGrants}
  \cup {[account |-> a2, leaf |-> NoGrant, invite |-> i1, address |-> d1]}

Tasks2 == Permutations(MCTasks)
===============================================================================
