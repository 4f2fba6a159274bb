------------------------------- MODULE Limits -------------------------------
(***************************************************************************)
(* The bounds the relay enforces (crates/relay/src/limits.rs), those that  *)
(* decide what is queued, retained, refused or closed, and the checks      *)
(* Hub::with_id_space makes of them before a relay may start.              *)
(*                                                                         *)
(* Every encoded frame weighs one unit here, so a bound in bytes is a      *)
(* bound in frames: no property below tells two frame sizes apart.         *)
(***************************************************************************)
EXTENDS Integers

CONSTANTS
  RingSessionEvents,     \* envelopes retained per session-events stream
  RingTelemetry,         \* envelopes retained per telemetry stream
  AccountRingFrames,     \* frames retained across all of one account's rings
  MaxStreamsPerAccount,
  MaxConnectionsPerAccount,
  MaxAccounts,
  MaxSubscriptionsPerConnection,
  QueueSessionEvents,    \* session events queued before a slow consumer is closed
  QueueTelemetry,        \* telemetry queued before the oldest is dropped
  QueueFrames            \* frames of every kind queued before a slow consumer is closed

ASSUME LimitsAreNaturals ==
  /\ RingSessionEvents \in Nat
  /\ RingTelemetry \in Nat
  /\ AccountRingFrames \in Nat
  /\ MaxStreamsPerAccount \in Nat
  /\ MaxConnectionsPerAccount \in Nat
  /\ MaxAccounts \in Nat
  /\ MaxSubscriptionsPerConnection \in Nat
  /\ QueueSessionEvents \in Nat
  /\ QueueTelemetry \in Nat
  /\ QueueFrames \in Nat

\* with_id_space: "a session-events backfill must fit in a connection's queue".
ASSUME BackfillFits == RingSessionEvents <= QueueSessionEvents

\* connect: "A fresh queue holds these without trouble": the welcome and the
\* presence of every other connection the account may have.
ASSUME WelcomeFits == MaxConnectionsPerAccount <= QueueFrames

\* The telemetry bound in force: queue_telemetry.max(1).
TelemetryBound == IF QueueTelemetry = 0 THEN 1 ELSE QueueTelemetry

=============================================================================
