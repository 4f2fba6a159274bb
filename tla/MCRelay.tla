------------------------------ MODULE MCRelay ------------------------------
(***************************************************************************)
(* Relay on small instances. A run gives each principal its part, so that  *)
(* the calls it is about interleave freely and the others do not multiply  *)
(* the states: who publishes, who subscribes, and which other calls happen.*)
(* Every step below is a step of Relay's Next.                             *)
(***************************************************************************)
EXTENDS Relay, TLC

CONSTANTS
  Publishers,    \* principals that publish
  Kinds,         \* the kinds they publish
  Watchers,      \* principals that subscribe, to streams of Publishers
  Talkers,       \* principals that ping and send direct envelopes
  Offenders      \* principals that send what no peer may send

\* Sound where every principal (channel) plays the same part.
PrincipalSymmetry == Permutations(Principals)
ChannelSymmetry   == Permutations(Channels)

\* Sound in every run: the principals that only connect, hear and leave.
BystanderSymmetry ==
  Permutations(Principals \ (Publishers \cup Watchers \cup Talkers \cup Offenders))

Plays(c, S) == c \in conns /\ PrincipalOf(c) \in S

MCNext ==
  \/ \E a \in Accounts, p \in Principals : Connect(a, p)
  \/ \E c \in Conns :
       \/ Disconnect(c)
       \/ FinishClose(c)
       \/ Plays(c, Talkers) /\ Answer(c)
       \/ Plays(c, Offenders) /\ Offend(c)
       \/ Plays(c, Talkers) /\ \E p \in Principals : Direct(c, p)
       \/ /\ Plays(c, Publishers)
          /\ \E ch \in Channels, kind \in Kinds, key \in Keys \cup {NoKey} : Publish(c, ch, kind, key)
       \/ /\ Plays(c, Watchers)
          /\ \E k \in {s \in Streams : s[2] \in Publishers} :
               \/ \E since \in Sinces(k) : Subscribe(c, k, since)
               \/ k \in subs[c] /\ Unsubscribe(c, k)
       \/ TakeOutbound(c)
  \/ BackfillEntry
  \/ Backfilled

MCSpec     == Init /\ [][MCNext]_vars

=============================================================================
