---------------------------- MODULE MCConnector ----------------------------
(***************************************************************************)
(* Connector on small instances: a device paired by the first revoker, and *)
(* certificates that may lapse while the lists they signed are held. The   *)
(* other revoker's list, dated by an exact clock, may be published on the  *)
(* delegate's channel.                                                     *)
(* Lists name what a run gives in Named. Every step below is a step of     *)
(* Connector's Next.                                                       *)
(***************************************************************************)
EXTENDS Connector

CONSTANTS
  Delegate,   \* the revoker that paired the devices
  Lapses,     \* when the delegate's certificate ends
  Named       \* what lists name

ChainVal     == [p \in Principals |-> IF p \in Devices THEN {p, Delegate} ELSE {p}]
OneList      == [r \in Revokers |-> 1]
NotBeforeVal == [r \in Revokers |-> 1]
NotAfterVal  == [r \in Revokers |-> IF r = Delegate THEN Lapses ELSE MaxTime + Fast]

MCNext ==
  \/ Start \/ Stop \/ Serve \/ Tick
  \/ \E ch \in Channels : Publish(ch)
  \/ \E r \in Revokers : Online(r) \/ Backfill(r)
  \/ \E r \in Revokers, version \in now - Slow .. now + Fast, names \in Named :
       \E on \in IF version = now THEN {r, Delegate} ELSE {r} : Sign(r, on, version, names)
  \/ \E d \in Devices : Ask(d)

MCSpec == Init /\ [][MCNext]_vars /\ WF_vars(Serve) /\ WF_vars(\E r \in Revokers : Backfill(r))

=============================================================================
