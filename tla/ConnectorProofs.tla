-------------------------- MODULE ConnectorProofs --------------------------
(***************************************************************************)
(* Connector, for every account, every history of lists and every place    *)
(* the process may stop at. Types first; then ConnectorInv, which says at  *)
(* each place of the process what the files lack of what it knows, and who *)
(* holds the key it is about to rotate.                                    *)
(* And Framing, for every body, every way to cut it and every frame: what  *)
(* the recursive functions of the model come to, how chunks are read, and  *)
(* FramingInv, which says that the bytes held, decoded, on their way and   *)
(* unsent are those of the frames not yet taken.                           *)
(***************************************************************************)
EXTENDS Connector, Framing, SequenceTheorems, WellFoundedInduction, TLAPS

\* Every step of the specification keeps the types (what each handler of serve.rs
\* assigns, and what the hub queues).
LEMMA TypesKept == TypeOK /\ [Next]_vars => TypeOK'
<1> SUFFICES ASSUME TypeOK, [Next]_vars PROVE TypeOK'
  OBVIOUS
<1> USE ConnectorBounds, CertificatesHaveWindows, NoneIsNone
<1>1. CASE Start
  BY <1>1 DEF TypeOK, Start, FollowKnown, Wait, Places, hub
<1>2. CASE Stop
  <2>1. inbox' \in Seq(Events) /\ sealed' \in [Channels -> Seq(Nat)] /\ from' \in [Channels -> Nat]
    BY <1>2 DEF Stop
  <2>2. held' \in Lists \cup {NoList} /\ armed' \in Nat \cup {Never}
    BY <1>2 DEF Stop
  <2> QED BY <1>2, <2>1, <2>2 DEF TypeOK, Stop, Places
<1>3. ASSUME NEW r \in Revokers, Follow(r) PROVE TypeOK'
  BY <1>3 DEF TypeOK, Follow, Wait, Places, memory, stream
<1>4. ASSUME NEW ch \in Channels, Publish(ch) PROVE TypeOK'
  BY <1>4 DEF TypeOK, Publish, SealedOn, memory, hub
<1>5. CASE GrantEvent
  <2>1. Head(inbox) \in Events /\ inbox' \in Seq(Events)
    BY <1>5 DEF TypeOK, GrantEvent, Take
  <2>2. Head(inbox).from \in Devices
    BY <1>5, <2>1 DEF GrantEvent, Take, Events
  <2> QED BY <1>5, <2>1, <2>2 DEF TypeOK, GrantEvent, Wrapped, Take, memory
<1>6. CASE PresenceEvent
  <2>1. Head(inbox) \in Events /\ inbox' \in Seq(Events)
    BY <1>6 DEF TypeOK, PresenceEvent, Take
  <2>2. Head(inbox).from \in Revokers
    BY <1>6, <2>1 DEF PresenceEvent, Take, Events
  <2> QED BY <1>6, <2>1, <2>2 DEF TypeOK, PresenceEvent, Take, ArmedNow, Places, stream
<1>7. CASE ListEvent
  <2>1. Head(inbox) \in Events /\ inbox' \in Seq(Events)
    BY <1>7 DEF TypeOK, ListEvent, Take
  <2>2. Head(inbox).from \in Revokers /\ Head(inbox).list \in Lists
    BY <1>7, <2>1 DEF ListEvent, Take, Events
  <2>3. Head(inbox).list.signer \in Revokers
    BY <2>2 DEF Lists
  <2>4. rotating' \in BOOLEAN
    BY <1>7 DEF TypeOK, ListEvent, AddsTo
  <2> QED BY <1>7, <2>1, <2>2, <2>3, <2>4 DEF TypeOK, ListEvent, Take, ArmedNow, Places, stream, memory
<1>8. CASE WriteList
  BY <1>8 DEF TypeOK, WriteList, Places, memory, stream, hub
<1>9. CASE FinishList
  <2>1. disk' \in [held : Lists \cup {NoList}, revokers : SUBSET Revokers, armed : Nat \cup {Never}]
    BY <1>9 DEF TypeOK, FinishList, RevokersWritten
  <2>2. \A ch \in Channels : KeyStart(ch) \in Nat
    BY DEF TypeOK, KeyStart
  <2>3. key' \in Nat /\ from' \in [Channels -> Nat] /\ holders' \subseteq Devices
    BY <1>9, <2>2 DEF TypeOK, FinishList
  <2> QED BY <1>9, <2>1, <2>3 DEF TypeOK, FinishList, Places, memory, hub
<1>10. CASE WriteSeen
  BY <1>10 DEF TypeOK, WriteSeen, RevokersWritten, Places, memory, stream, hub
<1>11. CASE Tick
  BY <1>11 DEF TypeOK, Tick, memory, stream, hub
<1>12. ASSUME NEW r \in Revokers, NEW on \in Revokers, NEW version \in now - Slow .. now + Fast,
              NEW names \in SUBSET Principals, Sign(r, on, version, names)
       PROVE TypeOK'
  <2> DEFINE l == [version |-> version, signer |-> r, names |-> names, at |-> now]
  <2>1. l \in Lists
    BY <1>12 DEF TypeOK, Sign, Lists
  <2>2. Listed(on, l) \in Events
    BY <2>1 DEF Listed, Events
  <2>3. ring' \in [Revokers -> Seq(Lists)]
    BY <1>12, <2>1 DEF TypeOK, Sign
  <2>4. inbox' \in Seq(Events)
    BY <1>12, <2>2 DEF TypeOK, Sign
  <2> QED BY <1>12, <2>3, <2>4 DEF TypeOK, Sign, memory, stream
<1>13. ASSUME NEW r \in Revokers, Backfill(r) PROVE TypeOK'
  <2>1. \A i \in DOMAIN ring[r] : Listed(r, ring[r][i]) \in Events
    BY DEF TypeOK, Listed, Events
  <2>2. [i \in DOMAIN ring[r] |-> Listed(r, ring[r][i])] \in Seq(Events)
    <3>1. ring[r] \in Seq(Lists)
      BY DEF TypeOK
    <3>2. PICK n \in Nat : DOMAIN ring[r] = 1 .. n
      BY <3>1
    <3> QED
      <4> DEFINE s == [i \in DOMAIN ring[r] |-> Listed(r, ring[r][i])]
      <4>1. s \in [1 .. n -> Events]
        BY <2>1, <3>2
      <4> HIDE DEF s
      <4>2. s \in UNION {[1 .. m -> Events] : m \in Nat}
        BY <3>2, <4>1, Zenon
      <4>3. s \in Seq(Events)
        BY <4>2, SeqDef, Zenon
      <4> QED BY <4>3 DEF s
  <2>3. inbox' \in Seq(Events)
    BY <1>13, <2>2 DEF TypeOK, Backfill
  <2> QED BY <1>13, <2>3 DEF TypeOK, Backfill, memory, stream
<1>14. ASSUME NEW event \in Events, Queue(event) PROVE TypeOK'
  BY <1>14 DEF TypeOK, Queue, memory, stream
<1>15. ASSUME NEW d \in Devices, Ask(d) PROVE TypeOK'
  BY <1>14, <1>15 DEF Ask, Events
<1>16. ASSUME NEW r \in Revokers, Online(r) PROVE TypeOK'
  BY <1>14, <1>16 DEF Online, Events
<1>17. CASE UNCHANGED vars
  BY <1>17 DEF TypeOK, vars, hub, memory, stream
<1> QED
  BY <1>1, <1>2, <1>3, <1>4, <1>5, <1>6, <1>7, <1>8, <1>9, <1>10, <1>11, <1>12, <1>13, <1>15, <1>16, <1>17
     DEF Next, Serve

\* Type correctness of the connector (serve.rs, revoked.rs, relay.rs, state.rs).
THEOREM ConnectorTypes == Spec => []TypeOK
<1>1. Init => TypeOK
  <2> SUFFICES ASSUME Init PROVE TypeOK
    OBVIOUS
  <2>1. ring \in [Revokers -> Seq(Lists)] /\ inbox \in Seq(Events)
    BY DEF Init
  <2>2. sealed \in [Channels -> Seq(Nat)] /\ from \in [Channels -> Nat]
    BY DEF Init
  <2>3. disk \in [held : Lists \cup {NoList}, revokers : SUBSET Revokers, armed : Nat \cup {Never}]
    BY DEF Init
  <2> QED BY <2>1, <2>2, <2>3 DEF Init, TypeOK, Places
<1> QED BY <1>1, TypesKept, PTL DEF Spec

-----------------------------------------------------------------------------
(* What the files lack at each place, and who may hold the key              *)

FilesBehind ==
  /\ WrittenBeforeActedOn
  /\ pc \in {"saw", "wrote"} => disk.held = held
  /\ pc = "apply" => /\ held # NoList
                     /\ disk.held # NoList => disk.held.version < held.version
  /\ pc \in {"apply", "wrote", "saw"} =>
       /\ disk.revokers \subseteq revokers
       /\ armed # Never
       /\ disk.armed # Never => armed = disk.armed
  /\ pc \in {"apply", "wrote"} => disk.armed = armed

KnowingArms ==
  /\ disk.revokers # {} => disk.armed # Never
  /\ revokers # {} => armed # Never

KeyOnlyToThePermitted ==
  (pc \in {"apply", "wrote"} /\ rotating) \/ \A d \in holders : ~Revokes(held, d)

ConnectorInv == FilesBehind /\ KnowingArms /\ ListsArmTheFloor /\ KeyOnlyToThePermitted

\* Names of a list are what Revokes looks up: fewer names revoke no more.
LEMMA FewerNamesRevokeNoMore ==
  ASSUME NEW h, NEW l, NEW d, Names(l) \subseteq Names(h), Revokes(l, d)
  PROVE  Revokes(h, d)
BY DEF Revokes

\* Every step keeps ConnectorInv: a stop at any place included (serve.rs list and
\* presence, state.rs).
LEMMA InvKept == TypeOK /\ ConnectorInv /\ [Next]_vars => ConnectorInv'
<1> SUFFICES ASSUME TypeOK, ConnectorInv, [Next]_vars PROVE ConnectorInv'
  OBVIOUS
<1> USE NoneIsNone DEF ConnectorInv
<1>1. CASE Start
  BY <1>1 DEF TypeOK, Start, Wait, FilesBehind, WrittenBeforeActedOn, KnowingArms, ListsArmTheFloor,
              KeyOnlyToThePermitted, hub
<1>2. CASE Stop
  BY <1>2 DEF Stop, FilesBehind, WrittenBeforeActedOn, KnowingArms, ListsArmTheFloor, KeyOnlyToThePermitted
<1>3. ASSUME NEW r \in Revokers, Follow(r) PROVE ConnectorInv'
  BY <1>3 DEF Follow, Wait, FilesBehind, WrittenBeforeActedOn, KnowingArms, ListsArmTheFloor,
              KeyOnlyToThePermitted, Revokes, Names, memory, stream
<1>4. CASE GrantEvent
  <2>1. \A d \in holders' : ~Revokes(held, d)
    BY <1>4 DEF GrantEvent, Wrapped, Take, MayGrant, KeyOnlyToThePermitted
  <2>2. KeyOnlyToThePermitted'
    BY <1>4, <2>1 DEF GrantEvent, KeyOnlyToThePermitted, Revokes, Names, memory
  <2> QED BY <1>4, <2>2 DEF GrantEvent, FilesBehind, WrittenBeforeActedOn, KnowingArms, ListsArmTheFloor, memory
<1>5. CASE PresenceEvent
  <2>1. pc = "serve" /\ held' = held /\ disk' = disk /\ holders' = holders
    BY <1>5 DEF PresenceEvent, Take, stream
  <2>2. KeyOnlyToThePermitted'
    BY <1>5, <2>1 DEF PresenceEvent, KeyOnlyToThePermitted, Revokes, Names
  <2>3. armed' # Never \/ (armed' = armed /\ revokers' = revokers)
    BY <1>5 DEF TypeOK, PresenceEvent, ArmedNow
  <2>4. armed # Never => armed' = armed
    BY <1>5 DEF PresenceEvent, ArmedNow
  <2>5. revokers \subseteq revokers' /\ pc' \in {"serve", "saw"}
    BY <1>5, <2>1 DEF PresenceEvent
  <2>6. pc' = "serve" => revokers' = revokers /\ armed' = armed
    BY <1>5, <2>1 DEF PresenceEvent
  <2>7. pc' = "saw" => armed' # Never
    BY <1>5, <2>1 DEF TypeOK, PresenceEvent, ArmedNow
  <2>8. FilesBehind'
    BY <2>1, <2>4, <2>5, <2>6, <2>7 DEF FilesBehind, WrittenBeforeActedOn
  <2> QED BY <2>1, <2>2, <2>3, <2>8 DEF KnowingArms, ListsArmTheFloor
<1>6. CASE ListEvent
  <2> DEFINE l == Head(inbox).list
             applies == Head(inbox).from \in revokers /\ Verifies(l, now, held)
  <2>1. pc = "serve" /\ disk' = disk /\ holders' = holders
    BY <1>6 DEF ListEvent, Take, stream
  <2>2. CASE ~applies
    <3>1. held' = held /\ revokers' = revokers /\ armed' = armed /\ rotating' = rotating /\ pc' = pc
      BY <1>6, <2>2 DEF ListEvent, memory
    <3> QED BY <2>1, <3>1 DEF FilesBehind, WrittenBeforeActedOn, KnowingArms, ListsArmTheFloor,
                              KeyOnlyToThePermitted, Revokes, Names
  <2>3. CASE applies
    <3>1. /\ held' = l /\ armed' = ArmedNow /\ revokers' = revokers \cup {l.signer}
          /\ rotating' = AddsTo(l, held) /\ pc' = "apply"
      BY <1>6, <2>3 DEF ListEvent
    <3>2. armed # Never /\ armed' = armed
      BY <2>3, <3>1 DEF KnowingArms, ArmedNow
    <3>3. disk.held = held /\ disk.revokers = revokers /\ disk.armed = armed
      BY <2>1 DEF FilesBehind, WrittenBeforeActedOn
    <3>4. l \in Lists
      <4>1. Head(inbox) \in Events /\ Head(inbox).type = "list"
        BY <1>6 DEF TypeOK, ListEvent, Take
      <4> QED BY <4>1 DEF Events
    <3>5. l # NoList /\ (held # NoList => held.version < l.version)
      BY <2>3, <3>4 DEF Verifies
    <3>6. FilesBehind'
      BY <2>1, <3>1, <3>2, <3>3, <3>5 DEF FilesBehind, WrittenBeforeActedOn
    <3>7. KeyOnlyToThePermitted'
      <4>1. CASE AddsTo(l, held)
        BY <3>1, <4>1 DEF KeyOnlyToThePermitted
      <4>2. CASE ~AddsTo(l, held)
        <5>1. Names(l) \subseteq Names(held)
          BY <4>2, <3>5 DEF AddsTo, Names
        <5>2. \A d \in holders : ~Revokes(held, d)
          BY <2>1 DEF KeyOnlyToThePermitted
        <5>3. \A d \in holders : ~Revokes(l, d)
          BY <5>1, <5>2, FewerNamesRevokeNoMore
        <5> QED BY <2>1, <3>1, <5>3 DEF KeyOnlyToThePermitted, Revokes, Names
      <4> QED BY <4>1, <4>2
    <3> QED BY <2>1, <3>2, <3>6, <3>7 DEF KnowingArms, ListsArmTheFloor
  <2> QED BY <2>2, <2>3
<1>7. CASE WriteList
  <2>1. disk' = [disk EXCEPT !.held = held] /\ pc = "apply" /\ pc' = "wrote"
    BY <1>7 DEF WriteList
  <2>2. disk'.held = held /\ disk'.revokers = disk.revokers /\ disk'.armed = disk.armed
    BY <2>1 DEF TypeOK
  <2> QED BY <1>7, <2>1, <2>2 DEF WriteList, FilesBehind, WrittenBeforeActedOn, KnowingArms, ListsArmTheFloor,
                                  KeyOnlyToThePermitted, Revokes, Names, memory, stream
<1>8. CASE FinishList
  <2>1. disk' = [held |-> held, revokers |-> revokers, armed |-> armed] /\ pc' = "serve"
    BY <1>8 DEF TypeOK, FinishList, RevokersWritten, FilesBehind
  <2>2. KeyOnlyToThePermitted'
    BY <1>8 DEF FinishList, KeyOnlyToThePermitted, Revokes, Names, memory
  <2>3. FilesBehind'
    BY <1>8, <2>1 DEF FinishList, FilesBehind, WrittenBeforeActedOn, memory
  <2> QED BY <1>8, <2>1, <2>2, <2>3 DEF FinishList, FilesBehind, KnowingArms, ListsArmTheFloor, memory
<1>9. CASE WriteSeen
  <2>1. disk' = [held |-> held, revokers |-> revokers, armed |-> armed] /\ pc' = "follow" /\ pc = "saw"
    BY <1>9 DEF TypeOK, WriteSeen, RevokersWritten, FilesBehind
  <2>2. KeyOnlyToThePermitted'
    BY <1>9 DEF WriteSeen, KeyOnlyToThePermitted, Revokes, Names, memory, stream
  <2>3. FilesBehind'
    BY <1>9, <2>1 DEF WriteSeen, FilesBehind, WrittenBeforeActedOn, memory
  <2> QED BY <1>9, <2>1, <2>2, <2>3 DEF WriteSeen, FilesBehind, KnowingArms, ListsArmTheFloor, memory
<1>10. ASSUME UNCHANGED <<pc, memory, disk, rotating, holders>> PROVE ConnectorInv'
  BY <1>10 DEF FilesBehind, WrittenBeforeActedOn, KnowingArms, ListsArmTheFloor, KeyOnlyToThePermitted,
               Revokes, Names, memory
<1>11. CASE \/ Tick \/ (\E ch \in Channels : Publish(ch))
            \/ (\E r \in Revokers : Online(r) \/ Backfill(r)) \/ (\E d \in Devices : Ask(d))
            \/ (\E r, on \in Revokers, version \in now - Slow .. now + Fast, names \in SUBSET Principals :
                  Sign(r, on, version, names))
            \/ UNCHANGED vars
  <2>1. UNCHANGED <<pc, memory, disk, rotating, holders>>
    BY <1>11 DEF Tick, Publish, Online, Ask, Queue, Backfill, Sign, stream, vars
  <2> QED BY <1>10, <2>1
<1> QED
  BY <1>1, <1>2, <1>3, <1>4, <1>5, <1>6, <1>7, <1>8, <1>9, <1>11 DEF Next, Serve

\* The inductive invariant holds from the start.
LEMMA InvHolds == Spec => []ConnectorInv
<1>1. Init => ConnectorInv
  BY DEF Init, ConnectorInv, FilesBehind, WrittenBeforeActedOn, KnowingArms, ListsArmTheFloor, KeyOnlyToThePermitted
<1> QED BY <1>1, InvKept, ConnectorTypes, PTL DEF Spec

\* No device the held list names, itself or through its chain, was sent the key the
\* connector seals under, whatever was listed, removed and listed again, wherever it
\* stopped (Serving::list, Revocations::may_grant, Relay::rotate).
THEOREM ExcludedStayOut == Spec => []ExcludedHoldNothing
<1>1. ConnectorInv => ExcludedHoldNothing
  BY DEF ConnectorInv, KeyOnlyToThePermitted, ExcludedHoldNothing
<1> QED BY <1>1, InvHolds, PTL

\* While it serves, the connector's files say what it knows (ServeError::State).
THEOREM NothingForgotten == Spec => []WrittenBeforeActedOn
<1>1. ConnectorInv => WrittenBeforeActedOn
  BY DEF ConnectorInv, FilesBehind
<1> QED BY <1>1, InvHolds, PTL

\* A list on disk has the floor armed beside it, though the two are written one after
\* the other (write_revocation_list, write_revokers).
THEOREM FloorStaysArmed == Spec => []ListsArmTheFloor
<1>1. ConnectorInv => ListsArmTheFloor
  BY DEF ConnectorInv
<1> QED BY <1>1, InvHolds, PTL

\* The files only advance: newer lists, more revokers, and one time of arming.
THEOREM FilesAdvance == Spec => DiskOnlyAdvances
<1> DEFINE Advance ==
      /\ disk'.held # disk.held => disk'.held # NoList
      /\ disk.held # NoList /\ disk'.held # disk.held => disk'.held.version > disk.held.version
      /\ disk.revokers \subseteq disk'.revokers
      /\ disk.armed # Never => disk'.armed = disk.armed
<1>1. TypeOK /\ ConnectorInv /\ [Next]_vars => [Advance]_vars
  <2> SUFFICES ASSUME TypeOK, ConnectorInv, [Next]_vars PROVE Advance
    OBVIOUS
  <2>1. CASE WriteList
    <3>1. pc = "apply" /\ disk'.held = held /\ disk'.revokers = disk.revokers /\ disk'.armed = disk.armed
      BY <2>1 DEF TypeOK, WriteList
    <3>2. held # NoList /\ held \in Lists
      BY <3>1 DEF TypeOK, ConnectorInv, FilesBehind
    <3>3. disk.held # NoList => disk.held \in Lists /\ disk.held.version < held.version
      BY <3>1 DEF TypeOK, ConnectorInv, FilesBehind
    <3>4. disk.held # NoList => held.version > disk.held.version
      BY <3>2, <3>3 DEF Lists
    <3> QED BY <3>1, <3>2, <3>4
  <2>2. CASE FinishList \/ WriteSeen
    <3>1. pc \in {"wrote", "saw"} /\ disk'.held = disk.held /\ disk'.revokers = revokers /\ disk'.armed = armed
      BY <2>2 DEF TypeOK, FinishList, WriteSeen, RevokersWritten
    <3> QED BY <3>1 DEF ConnectorInv, FilesBehind
  <2>3. CASE disk' = disk
    BY <2>3
  <2>4. WriteList \/ FinishList \/ WriteSeen \/ disk' = disk
    BY DEF Next, Serve, Start, Stop, Follow, GrantEvent, PresenceEvent, ListEvent, Tick, Publish, Online, Ask,
           Queue, Backfill, Sign, vars
  <2> QED BY <2>1, <2>2, <2>3, <2>4
<1> QED BY <1>1, ConnectorTypes, InvHolds, PTL DEF Spec, DiskOnlyAdvances

-----------------------------------------------------------------------------
(* What a grant covers                                                      *)

\* Beside KeyStartExact: no frame is sealed under a key yet to come, and the next
\* frame is at or after where the current key starts.
KeyInv ==
  /\ KeyStartExact
  /\ \A ch \in Channels : \A i \in DOMAIN sealed[ch] : sealed[ch][i] <= key
  /\ \A ch \in Channels : from[ch] <= Len(sealed[ch]) + 1

\* KeyStart tells the current key's frames from those before it, on every channel and
\* through every rotation (Relay::rotate, Relay::frame).
THEOREM GrantsCoverTheKey == Spec => []KeyStartExact
<1>1. Init => KeyInv
  BY DEF Init, KeyInv, KeyStartExact
<1>2. TypeOK /\ KeyInv /\ [Next]_vars => KeyInv'
  <2> SUFFICES ASSUME TypeOK, KeyInv, [Next]_vars PROVE KeyInv'
    OBVIOUS
  <2>1. CASE Start \/ Stop
    BY <2>1 DEF Start, Stop, KeyInv, KeyStartExact
  <2>2. ASSUME NEW ch \in Channels, Publish(ch) PROVE KeyInv'
    <3>1. key' = key /\ from' = from /\ sealed' = [sealed EXCEPT ![ch] = Append(@, key)]
      BY <2>2 DEF Publish, SealedOn
    <3>2. ASSUME NEW c \in Channels
          PROVE /\ \A i \in DOMAIN sealed'[c] : (i >= from[c] <=> sealed'[c][i] = key) /\ sealed'[c][i] <= key
                /\ from[c] <= Len(sealed'[c]) + 1
      <4>1. CASE c # ch
        BY <3>1, <4>1 DEF TypeOK, KeyInv, KeyStartExact
      <4>2. CASE c = ch
        <5>1. sealed'[c] = Append(sealed[c], key) /\ sealed[c] \in Seq(Nat) /\ key \in Nat /\ from[c] \in Nat
          BY <3>1, <4>2 DEF TypeOK
        <5>2. /\ Len(sealed'[c]) = Len(sealed[c]) + 1
              /\ DOMAIN sealed'[c] = 1 .. Len(sealed[c]) + 1
              /\ sealed'[c][Len(sealed[c]) + 1] = key
              /\ \A i \in 1 .. Len(sealed[c]) : sealed'[c][i] = sealed[c][i]
          BY <5>1
        <5>3. \A i \in 1 .. Len(sealed[c]) : (i >= from[c] <=> sealed[c][i] = key) /\ sealed[c][i] <= key
          BY <5>1 DEF KeyInv, KeyStartExact
        <5>4. from[c] <= Len(sealed[c]) + 1
          BY DEF KeyInv
        <5>5. Len(sealed[c]) \in Nat
          BY <5>1
        <5>6. ASSUME NEW i \in DOMAIN sealed'[c]
              PROVE (i >= from[c] <=> sealed'[c][i] = key) /\ sealed'[c][i] <= key
          <6>1. CASE i = Len(sealed[c]) + 1
            BY <5>1, <5>2, <5>4, <5>5, <6>1
          <6>2. CASE i # Len(sealed[c]) + 1
            <7>1. i \in 1 .. Len(sealed[c])
              BY <5>2, <5>5, <6>2
            <7> QED BY <5>2, <5>3, <7>1
          <6> QED BY <6>1, <6>2
        <5> QED BY <5>1, <5>2, <5>4, <5>5, <5>6
      <4> QED BY <4>1, <4>2
    <3> QED BY <3>1, <3>2 DEF KeyInv, KeyStartExact
  <2>3. CASE FinishList
    <3>1. CASE rotating
      <4>1. key' = key + 1 /\ sealed' = sealed /\ from' = [ch \in Channels |-> Len(sealed[ch]) + 1]
        BY <2>3, <3>1 DEF FinishList, KeyStart
      <4>2. ASSUME NEW ch \in Channels, NEW i \in DOMAIN sealed[ch]
            PROVE i \in Nat /\ sealed[ch][i] \in Nat /\ i <= Len(sealed[ch]) /\ sealed[ch][i] <= key
        BY DEF TypeOK, KeyInv
      <4>3. \A ch \in Channels : Len(sealed[ch]) \in Nat
        BY DEF TypeOK
      <4>4. key \in Nat
        BY DEF TypeOK
      <4>5. ASSUME NEW ch \in Channels
            PROVE /\ from'[ch] = Len(sealed'[ch]) + 1 /\ from'[ch] \in Nat
                  /\ \A i \in DOMAIN sealed'[ch] : ~(i >= from'[ch]) /\ sealed'[ch][i] < key' /\ sealed'[ch][i] # key'
        BY <4>1, <4>2, <4>3, <4>4
      <4>6. KeyStartExact'
        BY <4>5 DEF KeyStartExact
      <4>7. \A ch \in Channels : \A i \in DOMAIN sealed'[ch] : sealed'[ch][i] <= key'
        BY <4>1, <4>2, <4>4
      <4>8. \A ch \in Channels : from'[ch] <= Len(sealed'[ch]) + 1
        BY <4>5
      <4> QED BY <4>6, <4>7, <4>8 DEF KeyInv
    <3>2. CASE ~rotating
      BY <2>3, <3>2 DEF FinishList, KeyInv, KeyStartExact
    <3> QED BY <3>1, <3>2
  <2>4. CASE UNCHANGED <<key, from, sealed>>
    BY <2>4 DEF KeyInv, KeyStartExact
  <2>5. \/ Start \/ Stop \/ FinishList \/ (\E ch \in Channels : Publish(ch))
        \/ UNCHANGED <<key, from, sealed>>
    BY DEF Next, Serve, Follow, GrantEvent, PresenceEvent, ListEvent, WriteList, WriteSeen, Tick, Online, Ask,
           Queue, Backfill, Sign, vars, stream
  <2> QED BY <2>1, <2>2, <2>3, <2>4, <2>5
<1>3. KeyInv => KeyStartExact
  BY DEF KeyInv
<1> QED BY <1>1, <1>2, <1>3, ConnectorTypes, PTL DEF Spec

---------------------------------------------------------------------------
\* Sequences, cut and joined.

\* One after the other: concatenation, as the provers are to take it, whole.
Cat(a, b) == a \o b

\* A set of naturals has a least one.
LEMMA LeastOf ==
  ASSUME NEW T \in SUBSET Nat, T # {}
  PROVE  \E m \in T : \A n \in T : m <= n
<1>1. PICK m \in T : \A n \in T : ~(<<n, m>> \in OpToRel(<, Nat))
  BY NatLessThanWellFounded, WFMin
<1>2. \A n \in T : ~(n < m) BY <1>1 DEF OpToRel
<1> QED BY <1>2

\* What First and Drop leave of a sequence.
LEMMA CutAt ==
  ASSUME NEW S, NEW s \in Seq(S), NEW n \in 0..Len(s)
  PROVE  /\ First(s, n) \in Seq(S) /\ Len(First(s, n)) = n
         /\ \A i \in 1..n : First(s, n)[i] = s[i]
         /\ Drop(s, n) \in Seq(S) /\ Len(Drop(s, n)) = Len(s) - n
         /\ \A i \in 1..(Len(s) - n) : Drop(s, n)[i] = s[n + i]
<1>0. Len(s) \in Nat /\ n \in Nat BY LenProperties
<1>1. \A i \in 1..n : s[i] \in S BY <1>0, ElementOfSeq
<1>2. \A i \in (n + 1)..Len(s) : s[i] \in S BY <1>0, ElementOfSeq
<1>3. /\ SubSeq(s, 1, n) \in Seq(S) /\ Len(SubSeq(s, 1, n)) = n
      /\ \A i \in 1..n : SubSeq(s, 1, n)[i] = s[i]
  BY <1>0, <1>1, SubSeqProperties
<1>4. /\ SubSeq(s, n + 1, Len(s)) \in Seq(S) /\ Len(SubSeq(s, n + 1, Len(s))) = Len(s) - n
      /\ \A i \in 1..(Len(s) - n) : SubSeq(s, n + 1, Len(s))[i] = s[n + i]
  <2> DEFINE m == n + 1
             u == Len(s)
  <2>1. m \in Int /\ u \in Int /\ \A i \in m..u : s[i] \in S BY <1>0, <1>2
  <2>2. m = n + 1 /\ u = Len(s) OBVIOUS
  <2> HIDE DEF m, u
  <2>3. /\ SubSeq(s, m, u) \in Seq(S)
        /\ Len(SubSeq(s, m, u)) = IF m <= u THEN u - m + 1 ELSE 0
        /\ \A i \in 1..(u - m + 1) : SubSeq(s, m, u)[i] = s[m + i - 1]
    BY <2>1, SubSeqProperties
  <2>4. u - m + 1 = Len(s) - n /\ \A i \in 1..(Len(s) - n) : m + i - 1 = n + i BY <1>0, <2>2
  <2>5. Len(SubSeq(s, m, u)) = Len(s) - n BY <1>0, <2>2, <2>3
  <2>6. \A i \in 1..(Len(s) - n) : SubSeq(s, m, u)[i] = s[n + i] BY <2>3, <2>4
  <2> QED BY <2>2, <2>3, <2>5, <2>6
<1> QED BY <1>3, <1>4 DEF First, Drop

\* The parts put together again.
LEMMA CutRejoined ==
  ASSUME NEW S, NEW s \in Seq(S), NEW n \in 0..Len(s)
  PROVE  Cat(First(s, n), Drop(s, n)) = s
<1> DEFINE a == First(s, n)
           b == Drop(s, n)
<1>0. Len(s) \in Nat /\ n \in Nat BY LenProperties
<1>1. /\ a \in Seq(S) /\ Len(a) = n /\ \A i \in 1..n : a[i] = s[i]
      /\ b \in Seq(S) /\ Len(b) = Len(s) - n /\ \A i \in 1..(Len(s) - n) : b[i] = s[n + i]
  BY CutAt
<1> HIDE DEF a, b
<1>2. /\ a \o b \in Seq(S) /\ Len(a \o b) = Len(a) + Len(b)
      /\ \A i \in 1..(Len(a) + Len(b)) : (a \o b)[i] = IF i <= Len(a) THEN a[i] ELSE b[i - Len(a)]
  BY <1>1, ConcatProperties
<1>3. ASSUME NEW i \in 1..Len(s) PROVE (a \o b)[i] = s[i]
  <2>0. i \in 1..(Len(a) + Len(b)) BY <1>0, <1>1
  <2>1. CASE i <= n
    <3>1. i \in 1..n /\ i <= Len(a) BY <1>0, <1>1, <2>1
    <3> QED BY <1>1, <1>2, <2>0, <3>1
  <2>2. CASE i > n
    <3>1. i - n \in 1..(Len(s) - n) /\ n + (i - n) = i BY <1>0, <2>2
    <3>2. b[i - n] = s[i] BY <1>1, <3>1
    <3>3. ~(i <= Len(a)) BY <1>0, <1>1, <2>2
    <3>4. (a \o b)[i] = b[i - Len(a)] BY <1>2, <2>0, <3>3
    <3>5. Len(a) = n BY <1>1
    <3> QED BY <3>2, <3>4, <3>5
  <2>3. i <= n \/ i > n BY <1>0
  <2> QED BY <2>1, <2>2, <2>3
<1>4. Len(a \o b) = Len(s) BY <1>0, <1>1, <1>2
<1>5. a \o b = s BY <1>2, <1>3, <1>4, SeqEqual
<1> QED BY <1>5 DEF a, b, Cat

\* The same bytes joined at two places: the shorter first part begins the longer.
LEMMA JoinedElsewhere ==
  ASSUME NEW S, NEW a \in Seq(S), NEW b \in Seq(S), NEW c \in Seq(S), NEW d \in Seq(S),
         Cat(a, b) = Cat(c, d), Len(a) <= Len(c)
  PROVE  a = First(c, Len(a)) /\ b = Cat(Drop(c, Len(a)), d)
<1> DEFINE n == Len(a)
           f == First(c, n)
           g == Drop(c, n)
<1>0. Len(a) \in Nat /\ Len(b) \in Nat /\ Len(c) \in Nat /\ Len(d) \in Nat /\ n \in 0..Len(c) BY LenProperties
<1>1. /\ f \in Seq(S) /\ Len(f) = n /\ \A i \in 1..n : f[i] = c[i]
      /\ g \in Seq(S) /\ Len(g) = Len(c) - n /\ \A i \in 1..(Len(c) - n) : g[i] = c[n + i]
  BY <1>0, CutAt
<1> HIDE DEF f, g
<1>2. /\ a \o b \in Seq(S) /\ Len(a \o b) = Len(a) + Len(b)
      /\ \A i \in 1..(Len(a) + Len(b)) : (a \o b)[i] = IF i <= Len(a) THEN a[i] ELSE b[i - Len(a)]
  BY ConcatProperties
<1>3. /\ Len(c \o d) = Len(c) + Len(d)
      /\ \A i \in 1..(Len(c) + Len(d)) : (c \o d)[i] = IF i <= Len(c) THEN c[i] ELSE d[i - Len(c)]
  BY ConcatProperties
<1>4. /\ g \o d \in Seq(S) /\ Len(g \o d) = Len(g) + Len(d)
      /\ \A i \in 1..(Len(g) + Len(d)) : (g \o d)[i] = IF i <= Len(g) THEN g[i] ELSE d[i - Len(g)]
  <2>1. g \in Seq(S) BY <1>1
  <2> QED BY <2>1, ConcatProperties
<1>4a. a \o b = c \o d BY DEF Cat
<1>5. Len(a) + Len(b) = Len(c) + Len(d) BY <1>2, <1>3, <1>4a
<1>6. \A i \in 1..n : a[i] = f[i]
  <2> SUFFICES ASSUME NEW i \in 1..n PROVE a[i] = f[i] OBVIOUS
  <2>1. i \in 1..(Len(a) + Len(b)) /\ i \in 1..(Len(c) + Len(d)) /\ i <= Len(a) /\ i <= Len(c) BY <1>0, <1>5
  <2>2. (a \o b)[i] = a[i] /\ (c \o d)[i] = c[i] BY <1>2, <1>3, <2>1
  <2> QED BY <1>1, <1>4a, <2>2
<1>7. a = f BY <1>1, <1>6, SeqEqual
<1>8. \A i \in 1..Len(b) : b[i] = (g \o d)[i]
  <2> SUFFICES ASSUME NEW i \in 1..Len(b) PROVE b[i] = (g \o d)[i] OBVIOUS
  <2>1. n + i \in 1..(Len(a) + Len(b)) /\ ~(n + i <= Len(a)) /\ n + i - Len(a) = i /\ i \in Nat BY <1>0
  <2>2. (a \o b)[n + i] = b[i] BY <1>2, <2>1
  <2>3. n + i \in 1..(Len(c) + Len(d)) /\ i \in 1..(Len(g) + Len(d)) BY <1>0, <1>1, <1>5, <2>1
  <2>4. CASE i <= Len(g)
    <3>1. i \in 1..(Len(c) - n) /\ n + i <= Len(c) BY <1>0, <1>1, <2>4
    <3>2. (g \o d)[i] = g[i] BY <1>4, <2>3, <2>4
    <3>3. g[i] = c[n + i] BY <1>1, <3>1
    <3>4. (c \o d)[n + i] = c[n + i] BY <1>3, <2>3, <3>1
    <3> QED BY <1>4a, <2>2, <3>2, <3>3, <3>4
  <2>5. CASE ~(i <= Len(g))
    <3>1. ~(n + i <= Len(c)) /\ n + i - Len(c) = i - Len(g) BY <1>0, <1>1, <2>5
    <3>2. (g \o d)[i] = d[i - Len(g)] BY <1>4, <2>3, <2>5
    <3>3. (c \o d)[n + i] = d[n + i - Len(c)] BY <1>3, <2>3, <3>1
    <3>4. (c \o d)[n + i] = d[i - Len(g)] BY <3>1, <3>3
    <3> QED BY <1>4a, <2>2, <3>2, <3>4
  <2> QED BY <2>4, <2>5
<1>9. Len(b) = Len(g \o d) BY <1>0, <1>1, <1>4, <1>5
<1>10. b = g \o d BY <1>4, <1>8, <1>9, SeqEqual
<1> QED BY <1>7, <1>10 DEF f, g, n, Cat

\* What two sequences make together, and how long it is.
LEMMA CatTypes ==
  ASSUME NEW S, NEW a \in Seq(S), NEW b \in Seq(S)
  PROVE  Cat(a, b) \in Seq(S) /\ Len(Cat(a, b)) = Len(a) + Len(b) /\ Len(a) \in Nat /\ Len(b) \in Nat
BY ConcatProperties, LenProperties DEF Cat

\* Three parts may be joined from either end.
LEMMA CatAssociates ==
  ASSUME NEW S, NEW a \in Seq(S), NEW b \in Seq(S), NEW c \in Seq(S)
  PROVE  Cat(Cat(a, b), c) = Cat(a, Cat(b, c))
BY ConcatAssociative DEF Cat

\* Nothing joined changes nothing.
LEMMA CatEmpty ==
  ASSUME NEW S, NEW a \in Seq(S)
  PROVE  Cat(a, <<>>) = a /\ Cat(<<>>, a) = a
BY ConcatEmptySeq DEF Cat

\* Cutting within the first of two parts.
LEMMA CutOfJoined ==
  ASSUME NEW S, NEW a \in Seq(S), NEW b \in Seq(S), NEW n \in 0..Len(a)
  PROVE  First(Cat(a, b), n) = First(a, n) /\ Drop(Cat(a, b), n) = Cat(Drop(a, n), b)
<1> DEFINE c == Cat(a, b)
           f == First(c, n)
           g == Drop(c, n)
<1>0. Len(a) \in Nat /\ Len(b) \in Nat /\ c \in Seq(S) /\ Len(c) = Len(a) + Len(b) BY CatTypes
<1>1. n \in 0..Len(c) BY <1>0
<1>2. f \in Seq(S) /\ g \in Seq(S) /\ Len(f) = n BY <1>0, <1>1, CutAt
<1>3. Cat(f, g) = Cat(a, b) BY <1>0, <1>1, CutRejoined
<1> HIDE DEF f, g, c
<1>4. Len(f) <= Len(a) BY <1>0, <1>2
<1>5. f = First(a, Len(f)) /\ g = Cat(Drop(a, Len(f)), b) BY <1>2, <1>3, <1>4, JoinedElsewhere
<1> QED BY <1>2, <1>5 DEF f, g, c

\* Dropping all of it, or nothing.
LEMMA CutAtAnEnd ==
  ASSUME NEW S, NEW s \in Seq(S)
  PROVE  Drop(s, Len(s)) = <<>> /\ Drop(s, 0) = s /\ First(s, Len(s)) = s /\ First(s, 0) = <<>>
<1>0. Len(s) \in Nat BY LenProperties
<1>1. Len(Drop(s, Len(s))) = 0 /\ Drop(s, Len(s)) \in Seq(S) BY <1>0, CutAt
<1>2. Len(First(s, 0)) = 0 /\ First(s, 0) \in Seq(S) BY <1>0, CutAt
<1>3. Drop(s, 0) = SubSeq(s, 1, Len(s)) /\ First(s, Len(s)) = SubSeq(s, 1, Len(s)) BY DEF Drop, First
<1>4. SubSeq(s, 1, Len(s)) = s BY SubSeqFull
<1> QED BY <1>1, <1>2, <1>3, <1>4, EmptySeq

---------------------------------------------------------------------------
\* The recursive functions of the model.

\* f counts up to n from z, each value made by G of the one before.
Iterated(f, X, z, n, G) == f \in [0..n -> X] /\ f[0] = z /\ \A k \in 1..n : f[k] = G[<<k, f[k - 1]>>]

\* A recursion that counts up to n has a function that satisfies it: the least number it
\* could not reach would follow one it reaches.
LEMMA Iterates ==
  ASSUME NEW X, NEW z \in X, NEW n \in Nat, NEW G \in [(1..n) \X X -> X]
  PROVE  \E f : Iterated(f, X, z, n, G)
<1> DEFINE Upto(m) == \E f \in [0..m -> X] : f[0] = z /\ \A k \in 1..m : f[k] = G[<<k, f[k - 1]>>]
           T == {m \in 0..n : ~Upto(m)}
<1> SUFFICES ASSUME ~Upto(n) PROVE FALSE BY DEF Iterated
<1> HIDE DEF Upto
<1>0. n \in 0..n /\ 0..n \subseteq Nat OBVIOUS
<1>1. T \in SUBSET Nat /\ n \in T BY <1>0
<1> HIDE DEF T
<1>2. PICK m \in T : \A j \in T : m <= j BY <1>1, LeastOf
<1>3. m \in 0..n /\ ~Upto(m) BY <1>2 DEF T
<1>4. CASE m = 0
  <2> DEFINE f == [k \in 0..0 |-> z]
  <2>1. f \in [0..0 -> X] /\ f[0] = z /\ \A k \in 1..0 : f[k] = G[<<k, f[k - 1]>>] OBVIOUS
  <2>2. Upto(0) BY <2>1 DEF Upto
  <2> QED BY <1>3, <1>4, <2>2
<1>5. CASE m # 0
  <2>1. m - 1 \in 0..n /\ m \in 1..n /\ ~(m <= m - 1) BY <1>3, <1>5
  <2>2. Upto(m - 1) BY <1>2, <2>1 DEF T
  <2>3. PICK g \in [0..(m - 1) -> X] : g[0] = z /\ \A k \in 1..(m - 1) : g[k] = G[<<k, g[k - 1]>>] BY <2>2 DEF Upto
  <2> DEFINE h == [k \in 0..m |-> IF k = m THEN G[<<m, g[m - 1]>>] ELSE g[k]]
  <2>4. m - 1 \in 0..(m - 1) /\ g[m - 1] \in X BY <2>1, <2>3
  <2>5. G[<<m, g[m - 1]>>] \in X BY <2>1, <2>4
  <2>6. \A k \in 0..m : k # m => k \in 0..(m - 1) BY <2>1
  <2>7. h \in [0..m -> X] BY <2>3, <2>5, <2>6
  <2>8. \A k \in 0..(m - 1) : h[k] = g[k] BY <2>1
  <2>9. h[m] = G[<<m, g[m - 1]>>] BY <2>1
  <2> HIDE DEF h
  <2>10. h[0] = z BY <2>1, <2>3, <2>8
  <2>11. ASSUME NEW k \in 1..m PROVE h[k] = G[<<k, h[k - 1]>>]
    <3>1. k - 1 \in 0..(m - 1) BY <2>1
    <3>2. h[k - 1] = g[k - 1] BY <2>8, <3>1
    <3>3. CASE k = m BY <2>9, <3>2, <3>3
    <3>4. CASE k # m
      <4>1. k \in 1..(m - 1) /\ k \in 0..(m - 1) BY <2>1, <3>4
      <4> QED BY <2>3, <2>8, <3>2, <4>1
    <3> QED BY <3>3, <3>4
  <2>12. Upto(m) BY <2>7, <2>10, <2>11 DEF Upto
  <2> QED BY <1>3, <2>12
<1> QED BY <1>4, <1>5

Byte == 0..(2 * Radix - 1)
Bytes == Seq(Byte)

\* A digit has more than one value.
LEMMA RadixIs == Radix \in Nat /\ Radix > 1
BY FramingAssumption

\* A number is its lowest digit and what is above it.
LEMMA DivMod ==
  ASSUME NEW v \in Nat
  PROVE  /\ v \div Radix \in Nat /\ v % Radix \in 0..(Radix - 1)
         /\ v = Radix * (v \div Radix) + (v % Radix)
         /\ v >= Radix => v \div Radix < v
<1>1. v \div Radix \in Nat BY RadixIs
<1>2. v % Radix \in 0..(Radix - 1) BY RadixIs
<1>3. v = Radix * (v \div Radix) + (v % Radix) BY RadixIs
<1>4. ASSUME v >= Radix PROVE v \div Radix < v
  <2> DEFINE q == v \div Radix
             d == v % Radix
  <2>1. q \in Nat /\ d \in 0..(Radix - 1) /\ v = Radix * q + d BY <1>1, <1>2, <1>3
  <2> HIDE DEF q, d
  <2>2. q < v BY <1>4, <2>1, RadixIs
  <2> QED BY <2>2 DEF q
<1> QED BY <1>1, <1>2, <1>3, <1>4

\* The bytes of the numbers up to n, as write_varint makes them.
AreVarints(f, n) == f = [v \in 0..n |-> IF v < Radix THEN <<v>> ELSE <<Radix + (v % Radix)>> \o f[v \div Radix]]
VarintsTo(n) == CHOOSE f : AreVarints(f, n)

\* The recursion of write_varint, from a number to the digits above its lowest, has a
\* function that satisfies it.
LEMMA VarintsExist ==
  ASSUME NEW n \in Nat
  PROVE  \E f : AreVarints(f, n)
<1> DEFINE Made(f, v) == IF v < Radix THEN <<v>> ELSE <<Radix + (v % Radix)>> \o f[v \div Radix]
           Upto(m) == \E f : f = [v \in 0..m |-> Made(f, v)]
           T == {m \in 0..n : ~Upto(m)}
<1> SUFFICES ASSUME ~Upto(n) PROVE FALSE BY DEF AreVarints
<1> HIDE DEF Upto, Made
<1>0. n \in 0..n /\ 0..n \subseteq Nat OBVIOUS
<1>1. T \in SUBSET Nat /\ n \in T BY <1>0
<1> HIDE DEF T
<1>2. PICK m \in T : \A j \in T : m <= j BY <1>1, LeastOf
<1>3. m \in 0..n /\ ~Upto(m) BY <1>2 DEF T
<1>4. CASE m = 0
  <2> DEFINE f == [v \in 0..0 |-> <<v>>]
  <2>0. \A v \in 0..0 : Made(f, v) = <<v>> BY RadixIs DEF Made
  <2>1. f = [v \in 0..0 |-> Made(f, v)] BY <2>0, Zenon
  <2> HIDE DEF f
  <2>2. Upto(0) BY <2>1 DEF Upto
  <2> QED BY <1>3, <1>4, <2>2
<1>5. CASE m # 0
  <2>1. m - 1 \in 0..n /\ m \in 1..n /\ ~(m <= m - 1) BY <1>3, <1>5
  <2>2. Upto(m - 1) BY <1>2, <2>1 DEF T
  <2>3. PICK g : g = [v \in 0..(m - 1) |-> Made(g, v)] BY <2>2 DEF Upto
  <2> DEFINE h == [v \in 0..m |-> IF v = m THEN Made(g, m) ELSE g[v]]
  <2>4. \A v \in 0..(m - 1) : g[v] = Made(g, v) BY <2>3, Zenon
  <2>5. \A v \in 0..(m - 1) : h[v] = g[v] BY <2>1
  <2>6. h[m] = Made(g, m) BY <2>1
  <2>7. h = [v \in 0..m |-> h[v]] OBVIOUS
  <2> HIDE DEF h
  <2>8. ASSUME NEW v \in 0..m PROVE h[v] = Made(h, v)
    <3>1. v >= Radix => v \div Radix \in 0..(m - 1)
      <4>1. v \in Nat BY <2>1
      <4>2. v \div Radix \in Nat /\ (v >= Radix => v \div Radix < v) BY <4>1, DivMod
      <4> QED BY <2>1, <4>2
    <3>2. v >= Radix => h[v \div Radix] = g[v \div Radix] BY <2>5, <3>1
    <3>3. v < Radix \/ v >= Radix BY RadixIs, <2>1
    <3>4. ~(v < Radix) => v >= Radix BY RadixIs, <2>1
    <3>5. Made(h, v) = Made(g, v) BY <3>2, <3>4 DEF Made
    <3>6. CASE v = m BY <2>6, <3>5, <3>6
    <3>7. CASE v # m
      <4>1. v \in 0..(m - 1) BY <2>1, <3>7
      <4> QED BY <2>4, <2>5, <3>5, <4>1
    <3> QED BY <3>6, <3>7
  <2>9. h = [v \in 0..m |-> Made(h, v)] BY <2>7, <2>8, Zenon
  <2>10. Upto(m) BY <2>9 DEF Upto
  <2> QED BY <1>3, <2>10
<1> QED BY <1>4, <1>5

\* So WriteVarint obeys its own recursion.
LEMMA VarintsMade ==
  ASSUME NEW n \in Nat
  PROVE  /\ WriteVarint(n) = VarintsTo(n)[n]
         /\ \A v \in 0..n : VarintsTo(n)[v] =
              IF v < Radix THEN <<v>> ELSE <<Radix + (v % Radix)>> \o VarintsTo(n)[v \div Radix]
<1>1. WriteVarint(n) = VarintsTo(n)[n] BY DEF WriteVarint, VarintsTo, AreVarints
<1>2. AreVarints(VarintsTo(n), n) BY VarintsExist DEF VarintsTo
<1> DEFINE f == VarintsTo(n)
<1>3. f = [v \in 0..n |-> IF v < Radix THEN <<v>> ELSE <<Radix + (v % Radix)>> \o f[v \div Radix]]
  BY <1>2 DEF AreVarints
<1> HIDE DEF f
<1>4. \A v \in 0..n : f[v] = IF v < Radix THEN <<v>> ELSE <<Radix + (v % Radix)>> \o f[v \div Radix]
  BY <1>3, Zenon
<1> QED BY <1>1, <1>4 DEF f

\* The digits f of a varint w, from its last byte on: v is what they come to.
ComesTo(f, w, v) ==
  /\ f \in [0..Len(w) -> Nat] /\ f[0] = 0 /\ f[Len(w)] = v
  /\ \A k \in 1..Len(w) : f[k] = Radix * f[k - 1] + (w[Len(w) - k + 1] % Radix)

\* w is the varint of v.
Varint(w, v) ==
  /\ w \in Bytes /\ Len(w) \in Nat \ {0} /\ w[Len(w)] < Radix
  /\ \A i \in 1..(Len(w) - 1) : w[i] >= Radix
  /\ \E f : ComesTo(f, w, v)

\* A number below Radix is a byte of its own.
LEMMA DigitAlone ==
  ASSUME NEW v \in Nat, v < Radix
  PROVE  Varint(<<v>>, v)
<1> DEFINE w == <<v>>
           f == [k \in 0..1 |-> IF k = 0 THEN 0 ELSE v]
<1>1. v \in Byte /\ v % Radix = v BY RadixIs DEF Byte
<1>2. w \in Bytes /\ Len(w) = 1 /\ w[1] = v BY <1>1 DEF Bytes
<1>3. f \in [0..1 -> Nat] /\ f[0] = 0 /\ f[1] = v OBVIOUS
<1> HIDE DEF w, f
<1>4. \A k \in 1..1 : f[k] = Radix * f[k - 1] + (w[1 - k + 1] % Radix)
  <2>0. Radix * 0 + v = v BY RadixIs
  <2>1. f[1] = Radix * f[0] + (w[1] % Radix) BY <1>1, <1>2, <1>3, <2>0, Zenon
  <2> QED BY <2>1
<1>5. ComesTo(f, w, v) BY <1>2, <1>3, <1>4 DEF ComesTo
<1>6. \A i \in 1..(Len(w) - 1) : w[i] >= Radix BY <1>2
<1>7. Varint(w, v) BY <1>2, <1>5, <1>6 DEF Varint
<1> QED BY <1>7 DEF w

\* A digit with the continuation bit before a varint: the next number up.
LEMMA DigitBefore ==
  ASSUME NEW q \in Nat, NEW u, Varint(u, q), NEW d \in 0..(Radix - 1)
  PROVE  Varint(<<Radix + d>> \o u, Radix * q + d)
<1> DEFINE a == <<Radix + d>>
           w == a \o u
           n == Len(u)
<1>0. Radix \in Nat /\ Radix > 1 /\ d \in Nat /\ d < Radix BY RadixIs
<1>1. u \in Bytes /\ n \in Nat \ {0} /\ u[n] < Radix /\ \A i \in 1..(n - 1) : u[i] >= Radix BY DEF Varint
<1>2. PICK f : ComesTo(f, u, q) BY DEF Varint
<1>3. a \in Bytes /\ Len(a) = 1 /\ a[1] = Radix + d BY <1>0 DEF Bytes, Byte
<1> HIDE DEF a
<1>4. w \in Bytes /\ Len(w) = n + 1 /\ w[1] = Radix + d /\ \A i \in 1..n : w[i + 1] = u[i]
  <2>1. /\ w \in Bytes /\ Len(w) = 1 + n
        /\ \A i \in 1..(1 + n) : w[i] = IF i <= 1 THEN a[i] ELSE u[i - 1]
    <3>1. a \in Seq(Byte) /\ u \in Seq(Byte) BY <1>1, <1>3 DEF Bytes
    <3>2. /\ a \o u \in Seq(Byte) /\ Len(a \o u) = Len(a) + Len(u)
          /\ \A i \in 1..(Len(a) + Len(u)) : (a \o u)[i] = IF i <= Len(a) THEN a[i] ELSE u[i - Len(a)]
      BY <3>1, ConcatProperties
    <3> QED BY <1>3, <3>2 DEF Bytes
  <2> HIDE DEF w
  <2>2. 1 \in 1..(1 + n) BY <1>1
  <2>3. ASSUME NEW i \in 1..n PROVE w[i + 1] = u[i]
    <3>1. i + 1 \in 1..(1 + n) /\ ~(i + 1 <= 1) /\ (i + 1) - 1 = i BY <1>1
    <3> QED BY <2>1, <3>1
  <2> QED BY <1>1, <1>3, <2>1, <2>2, <2>3
<1> HIDE DEF w
<1>5. /\ f \in [0..n -> Nat] /\ f[0] = 0 /\ f[n] = q
      /\ \A k \in 1..n : f[k] = Radix * f[k - 1] + (u[n - k + 1] % Radix)
  BY <1>2 DEF ComesTo
<1> HIDE DEF n
<1> DEFINE g == [k \in 0..(n + 1) |-> IF k = n + 1 THEN Radix * q + d ELSE f[k]]
<1>6. \A k \in 0..n : g[k] = f[k] BY <1>1
<1>7. g[n + 1] = Radix * q + d BY <1>1
<1>8. g \in [0..(n + 1) -> Nat]
  <2>1. Radix * q + d \in Nat BY <1>0
  <2>2. \A k \in 0..(n + 1) : k = n + 1 \/ k \in 0..n BY <1>1
  <2> QED BY <1>5, <2>1, <2>2
<1> HIDE DEF g
<1>9. ASSUME NEW k \in 1..(n + 1) PROVE g[k] = Radix * g[k - 1] + (w[(n + 1) - k + 1] % Radix)
  <2>0. k - 1 \in 0..n /\ g[k - 1] = f[k - 1] BY <1>1, <1>6
  <2>1. CASE k = n + 1
    <3>1. k - 1 = n /\ (n + 1) - k + 1 = 1 BY <1>1, <2>1
    <3>2. (Radix + d) % Radix = d BY <1>0
    <3>3. g[k - 1] = q /\ w[(n + 1) - k + 1] = Radix + d BY <1>4, <1>5, <2>0, <3>1
    <3> QED BY <1>7, <2>1, <3>2, <3>3
  <2>2. CASE k # n + 1
    <3>1. k \in 1..n /\ k \in 0..n /\ n - k + 1 \in 1..n /\ (n + 1) - k + 1 = (n - k + 1) + 1 BY <1>1, <2>2
    <3>2. w[(n + 1) - k + 1] = u[n - k + 1] BY <1>4, <3>1
    <3>3. f[k] = Radix * f[k - 1] + (u[n - k + 1] % Radix) BY <1>5, <3>1
    <3> QED BY <1>6, <2>0, <3>1, <3>2, <3>3
  <2> QED BY <2>1, <2>2
<1>10. g[0] = 0 BY <1>1, <1>5, <1>6
<1>11. ComesTo(g, w, Radix * q + d) BY <1>4, <1>7, <1>8, <1>9, <1>10 DEF ComesTo
<1>12. ASSUME NEW i \in 1..((n + 1) - 1) PROVE w[i] >= Radix
  <2>1. CASE i = 1 BY <1>0, <1>4, <2>1
  <2>2. CASE i # 1
    <3>1. i - 1 \in 1..n /\ i - 1 \in 1..(n - 1) /\ (i - 1) + 1 = i BY <1>1, <2>2
    <3>2. w[i] = u[i - 1] BY <1>4, <3>1
    <3> QED BY <1>1, <3>1, <3>2 DEF n
  <2> QED BY <2>1, <2>2
<1>13. w[n + 1] < Radix
  <2>1. n \in 1..n BY <1>1
  <2> QED BY <1>1, <1>4, <2>1
<1>14. Len(w) \in Nat \ {0} BY <1>1, <1>4
<1>15. Varint(w, Radix * q + d) BY <1>4, <1>11, <1>12, <1>13, <1>14 DEF Varint
<1> QED BY <1>15 DEF w, a

\* write_varint writes the varint of every number.
LEMMA VarintOf ==
  ASSUME NEW n \in Nat
  PROVE  Varint(WriteVarint(n), n)
<1> DEFINE f == VarintsTo(n)
           T == {v \in 0..n : ~Varint(f[v], v)}
<1>1. /\ WriteVarint(n) = f[n]
      /\ \A v \in 0..n : f[v] = IF v < Radix THEN <<v>> ELSE <<Radix + (v % Radix)>> \o f[v \div Radix]
  BY VarintsMade
<1> HIDE DEF f
<1>2. ASSUME T # {} PROVE FALSE
  <2>1. T \in SUBSET Nat OBVIOUS
  <2> HIDE DEF T
  <2>2. PICK v \in T : \A j \in T : v <= j BY <1>2, <2>1, LeastOf
  <2>3. v \in 0..n /\ v \in Nat /\ ~Varint(f[v], v) BY <2>2 DEF T
  <2>4. CASE v < Radix
    <3>1. f[v] = <<v>> BY <1>1, <2>3, <2>4
    <3> QED BY <2>3, <2>4, <3>1, DigitAlone
  <2>5. CASE ~(v < Radix)
    <3> DEFINE q == v \div Radix
               d == v % Radix
    <3>1. v >= Radix BY <2>3, <2>5, RadixIs
    <3>2. q \in Nat /\ d \in 0..(Radix - 1) /\ v = Radix * q + d /\ q < v BY <2>3, <3>1, DivMod
    <3>3. f[v] = <<Radix + d>> \o f[q] BY <1>1, <2>3, <2>5
    <3> HIDE DEF q, d
    <3>4. q \in 0..n /\ ~(v <= q) BY <2>3, <3>2
    <3>5. Varint(f[q], q) BY <2>2, <3>4 DEF T
    <3>6. Varint(<<Radix + d>> \o f[q], Radix * q + d) BY <3>2, <3>5, DigitBefore
    <3> QED BY <2>3, <3>2, <3>3, <3>6
  <2> QED BY <2>4, <2>5
<1>3. n \in 0..n OBVIOUS
<1>4. Varint(f[n], n) BY <1>2, <1>3
<1> QED BY <1>1, <1>4

\* read_varint takes the value of a varint out of the bytes it begins.
LEMMA ValueOfVarint ==
  ASSUME NEW s, NEW w, NEW v \in Nat, Varint(w, v), \A i \in 1..Len(w) : s[i] = w[i]
  PROVE  VarintValue(s, Len(w)) = v
<1> DEFINE n == Len(w)
           IsValue(h) == h = [k \in 0..n |-> IF k = 0 THEN 0 ELSE Radix * h[k - 1] + (s[n - k + 1] % Radix)]
           g == CHOOSE h : IsValue(h)
<1>1. n \in Nat \ {0} BY DEF Varint
<1>2. VarintValue(s, n) = g[n] BY DEF VarintValue
<1>3. PICK f : ComesTo(f, w, v) BY DEF Varint
<1>4. /\ f \in [0..n -> Nat] /\ f[0] = 0 /\ f[n] = v
      /\ \A k \in 1..n : f[k] = Radix * f[k - 1] + (w[n - k + 1] % Radix)
  BY <1>3 DEF ComesTo
<1>5. \A k \in 1..n : n - k + 1 \in 1..n /\ s[n - k + 1] = w[n - k + 1] BY <1>1
<1> HIDE DEF n
<1>6. \A k \in 0..n : f[k] = IF k = 0 THEN 0 ELSE Radix * f[k - 1] + (s[n - k + 1] % Radix)
  <2> SUFFICES ASSUME NEW k \in 0..n, k # 0 PROVE f[k] = Radix * f[k - 1] + (s[n - k + 1] % Radix) BY <1>4
  <2>1. k \in 1..n BY <1>1
  <2> QED BY <1>4, <1>5, <2>1
<1>7. f = [k \in 0..n |-> f[k]] BY <1>4
<1>8. IsValue(f) BY <1>6, <1>7, Zenon
<1>9. IsValue(g) BY <1>8
<1>10. \A k \in 0..n : g[k] = IF k = 0 THEN 0 ELSE Radix * g[k - 1] + (s[n - k + 1] % Radix)
  <2> HIDE DEF g
  <2> QED BY <1>9, Zenon
<1> HIDE DEF g, IsValue
<1> DEFINE T == {k \in 0..n : g[k] # f[k]}
<1>11. ASSUME T # {} PROVE FALSE
  <2>1. T \in SUBSET Nat BY <1>1
  <2> HIDE DEF T
  <2>2. PICK k \in T : \A j \in T : k <= j BY <1>11, <2>1, LeastOf
  <2>3. k \in 0..n /\ g[k] # f[k] BY <2>2 DEF T
  <2>4. k # 0 BY <1>1, <1>4, <1>10, <2>3
  <2>5. k - 1 \in 0..n /\ ~(k <= k - 1) BY <1>1, <2>3, <2>4
  <2>6. g[k - 1] = f[k - 1] BY <2>2, <2>5 DEF T
  <2> QED BY <1>6, <1>10, <2>3, <2>4, <2>6
<1>12. g[n] = f[n] BY <1>1, <1>11
<1> QED BY <1>2, <1>4, <1>12 DEF n

---------------------------------------------------------------------------
\* What a turn of FrameReader::push reads at the head of the bytes it holds.

\* Only a length over the limit has a varint as long as a varint may be.
LEMMA LongIsOver ==
  ASSUME NEW n \in Nat, ~(Len(WriteVarint(n)) < MaxVarintBytes)
  PROVE  n > MaxBoxFrame
<1>1. MaxBoxFrame \in Nat BY FramingAssumption
<1>2. ASSUME n <= MaxBoxFrame PROVE FALSE
  <2>1. n \in 0..MaxBoxFrame BY <1>1, <1>2
  <2> QED BY <2>1, LimitsFit
<1> QED BY <1>1, <1>2

\* A varint may have more than one byte.
LEMMA VarintsAreShort == MaxVarintBytes \in Nat /\ MaxVarintBytes > 1
<1>1. MaxBoxFrame \in Nat /\ MaxVarintBytes \in Nat BY FramingAssumption
<1>2. 0 \in 0..MaxBoxFrame BY <1>1
<1>3. Len(WriteVarint(0)) < MaxVarintBytes BY <1>2, LimitsFit
<1>4. Len(WriteVarint(0)) \in Nat \ {0} BY VarintOf DEF Varint
<1> QED BY <1>1, <1>3, <1>4

\* read_varint over bytes that begin with the varint of v: v; or the refusal of one too
\* long, and then v is over the limit.
LEMMA ReadWhole ==
  ASSUME NEW v \in Nat, NEW s \in Bytes, Len(WriteVarint(v)) <= Len(s),
         \A i \in 1..Len(WriteVarint(v)) : s[i] = WriteVarint(v)[i]
  PROVE  \/ ReadVarint(s) = [is |-> "whole", head |-> Len(WriteVarint(v)), value |-> v]
         \/ ReadVarint(s) = [is |-> "long"] /\ v > MaxBoxFrame
<1> DEFINE w == WriteVarint(v)
           h == Len(w)
           ends == {i \in DOMAIN s : s[i] < Radix}
           n == CHOOSE i \in ends : \A j \in ends : i <= j
<1>0. Varint(w, v) BY VarintOf
<1>1. /\ h \in Nat \ {0} /\ w[h] < Radix /\ \A i \in 1..(h - 1) : w[i] >= Radix /\ w[i] \in Nat
  <2>1. w \in Seq(Byte) /\ h \in Nat \ {0} /\ w[h] < Radix /\ \A i \in 1..(h - 1) : w[i] >= Radix
    BY <1>0 DEF Varint, Bytes
  <2>2. \A i \in 1..(h - 1) : i \in 1..h BY <2>1
  <2>3. \A i \in 1..h : w[i] \in Byte BY <2>1, ElementOfSeq
  <2> QED BY <2>1, <2>2, <2>3, RadixIs DEF Byte
<1>2. VarintValue(s, h) = v BY <1>0, ValueOfVarint
<1>3. DOMAIN s = 1..Len(s) /\ Len(s) \in Nat BY DEF Bytes
<1>4. h <= Len(s) /\ \A i \in 1..h : s[i] = w[i] OBVIOUS
<1> HIDE DEF w, h
<1>5. h \in ends BY <1>1, <1>3, <1>4
<1>6. \A j \in ends : h <= j
  <2> SUFFICES ASSUME NEW j \in ends, j < h PROVE FALSE BY <1>1, <1>3
  <2>1. j \in 1..(h - 1) /\ j \in 1..h BY <1>1, <1>3
  <2> QED BY <1>1, <1>4, <2>1, RadixIs
<1>7. \A i \in ends : i \in Nat BY <1>3
<1> HIDE DEF ends
<1>8. n \in ends /\ \A j \in ends : n <= j BY <1>5, <1>6
<1> HIDE DEF n
<1>8a. n \in Nat /\ h <= n /\ n <= h BY <1>5, <1>6, <1>7, <1>8
<1>9. n = h BY <1>1, <1>8a
<1>10. ends # {} BY <1>5
<1>11. ReadVarint(s) =
         IF /\ Len(s) >= MaxVarintBytes /\ (s[MaxVarintBytes] % Radix > MaxTop \/ s[MaxVarintBytes] >= Radix)
            /\ (ends = {} \/ n >= MaxVarintBytes)
         THEN [is |-> "long"]
         ELSE IF ends = {} THEN [is |-> "more"]
         ELSE [is |-> "whole", head |-> n, value |-> VarintValue(s, n)]
  BY DEF ReadVarint, ends, n
<1>12. CASE n >= MaxVarintBytes
  <2>1. ~(h < MaxVarintBytes) BY <1>1, <1>9, <1>12, VarintsAreShort
  <2>2. v > MaxBoxFrame BY <2>1, LongIsOver DEF h, w
  <2> QED BY <1>2, <1>9, <1>10, <1>11, <2>2 DEF h, w
<1>13. CASE ~(n >= MaxVarintBytes)
  <2>1. ReadVarint(s) = [is |-> "whole", head |-> n, value |-> VarintValue(s, n)] BY <1>10, <1>11, <1>13
  <2> QED BY <1>2, <1>9, <2>1 DEF h, w
<1> QED BY <1>12, <1>13

\* read_varint over bytes that all say there are more.
LEMMA ReadPart ==
  ASSUME NEW s \in Bytes, \A i \in 1..Len(s) : s[i] >= Radix
  PROVE  \/ ReadVarint(s) = [is |-> "more"]
         \/ ReadVarint(s) = [is |-> "long"] /\ Len(s) >= MaxVarintBytes
<1> DEFINE ends == {i \in DOMAIN s : s[i] < Radix}
<1>1. DOMAIN s = 1..Len(s) /\ Len(s) \in Nat BY DEF Bytes
<1>2. \A i \in 1..Len(s) : s[i] \in Nat BY RadixIs, ElementOfSeq DEF Bytes, Byte
<1>3. ends = {} BY <1>1, <1>2, RadixIs
<1> QED BY <1>3 DEF ReadVarint

---------------------------------------------------------------------------
\* The answer's frames, as they are written.

\* write_frame: the length, then the frame.
LEMMA FrameBytes ==
  ASSUME NEW m \in Bytes
  PROVE  /\ WriteFrame(m) = Cat(WriteVarint(Len(m)), m)
         /\ WriteVarint(Len(m)) \in Bytes /\ WriteFrame(m) \in Bytes
         /\ Len(WriteFrame(m)) = Len(WriteVarint(Len(m))) + Len(m)
         /\ Len(m) \in Nat /\ Len(WriteVarint(Len(m))) \in Nat \ {0} /\ Len(WriteFrame(m)) \in Nat \ {0}
<1>1. Len(m) \in Nat BY LenProperties DEF Bytes
<1>2. WriteVarint(Len(m)) \in Bytes /\ Len(WriteVarint(Len(m))) \in Nat \ {0} BY <1>1, VarintOf DEF Varint
<1>3. WriteFrame(m) = Cat(WriteVarint(Len(m)), m) BY DEF WriteFrame, Cat
<1>4. WriteFrame(m) \in Bytes /\ Len(WriteFrame(m)) = Len(WriteVarint(Len(m))) + Len(m)
  BY <1>2, <1>3, CatTypes DEF Bytes
<1> QED BY <1>1, <1>2, <1>3, <1>4

\* What is written of the frames after the first n: the next of them, then those after it.
LEMMA WrittenIs ==
  ASSUME NEW frames \in Seq(Bytes)
  PROVE  /\ WrittenAfter(frames, Len(frames)) = <<>>
         /\ \A n \in 0..Len(frames) : WrittenAfter(frames, n) \in Bytes
         /\ \A n \in 0..(Len(frames) - 1) :
              WrittenAfter(frames, n) = Cat(WriteFrame(frames[n + 1]), WrittenAfter(frames, n + 1))
<1> DEFINE N == Len(frames)
           Of(k) == WriteFrame(frames[N - k + 1])
           IsLast(h) == h = [k \in 0..N |-> IF k = 0 THEN <<>> ELSE Of(k) \o h[k - 1]]
           g == CHOOSE h : IsLast(h)
           G == [p \in (1..N) \X Bytes |-> Of(p[1]) \o p[2]]
<1>1. N \in Nat BY LenProperties
<1>2. \A n : WrittenAfter(frames, n) = g[N - n] BY DEF WrittenAfter
<1>3. \A k \in 1..N : Of(k) \in Bytes
  <2> SUFFICES ASSUME NEW k \in 1..N PROVE Of(k) \in Bytes OBVIOUS
  <2>1. N - k + 1 \in 1..N BY <1>1
  <2>2. frames[N - k + 1] \in Bytes BY <2>1, ElementOfSeq
  <2> QED BY <2>2, FrameBytes
<1> HIDE DEF Of
<1>4. <<>> \in Bytes BY DEF Bytes
<1>5. \A k \in 1..N, b \in Bytes : Of(k) \o b \in Bytes BY <1>3, CatTypes DEF Bytes, Cat
<1>6. G \in [(1..N) \X Bytes -> Bytes] BY <1>5
<1>7. \A k \in 1..N, b \in Bytes : G[<<k, b>>] = Of(k) \o b OBVIOUS
<1> HIDE DEF G, N
<1>8. PICK f \in [0..N -> Bytes] : f[0] = <<>> /\ \A k \in 1..N : f[k] = G[<<k, f[k - 1]>>]
  <2> DEFINE e == <<>>
  <2>1. e \in Bytes BY <1>4
  <2> HIDE DEF e
  <2>2. \E f : Iterated(f, Bytes, e, N, G) BY <1>1, <1>6, <2>1, Iterates
  <2> QED BY <2>2 DEF e, Iterated
<1>9. \A k \in 0..N : f[k] = IF k = 0 THEN <<>> ELSE Of(k) \o f[k - 1]
  <2> SUFFICES ASSUME NEW k \in 0..N, k # 0 PROVE f[k] = Of(k) \o f[k - 1] BY <1>8
  <2>1. k \in 1..N /\ k - 1 \in 0..N BY <1>1
  <2>2. f[k - 1] \in Bytes BY <2>1
  <2> QED BY <1>7, <1>8, <2>1, <2>2
<1>10. f = [k \in 0..N |-> f[k]] BY <1>8
<1>11. IsLast(f) BY <1>9, <1>10, Zenon
<1>12. IsLast(g) BY <1>11
<1>13. \A k \in 0..N : g[k] = IF k = 0 THEN <<>> ELSE Of(k) \o g[k - 1]
  <2> HIDE DEF g
  <2> QED BY <1>12, Zenon
<1> HIDE DEF g, IsLast
<1> DEFINE T == {k \in 0..N : g[k] \notin Bytes}
<1>14. ASSUME T # {} PROVE FALSE
  <2>1. T \in SUBSET Nat BY <1>1
  <2> HIDE DEF T
  <2>2. PICK k \in T : \A j \in T : k <= j BY <1>14, <2>1, LeastOf
  <2>3. k \in 0..N /\ g[k] \notin Bytes BY <2>2 DEF T
  <2>4. k # 0 BY <1>1, <1>4, <1>13, <2>3
  <2>5. k \in 1..N /\ k - 1 \in 0..N /\ ~(k <= k - 1) BY <1>1, <2>3, <2>4
  <2>6. g[k - 1] \in Bytes BY <2>2, <2>5 DEF T
  <2>7. g[k] = Of(k) \o g[k - 1] BY <1>13, <2>3, <2>4
  <2> QED BY <1>5, <2>3, <2>5, <2>6, <2>7
<1>15. \A k \in 0..N : g[k] \in Bytes BY <1>14
<1> HIDE DEF T
<1>16. WrittenAfter(frames, N) = <<>>
  <2>1. N - N = 0 /\ 0 \in 0..N BY <1>1
  <2> QED BY <1>2, <1>13, <2>1
<1>17. ASSUME NEW n \in 0..N PROVE WrittenAfter(frames, n) \in Bytes
  <2>1. N - n \in 0..N BY <1>1
  <2> QED BY <1>2, <1>15, <2>1
<1>18. ASSUME NEW n \in 0..(N - 1)
       PROVE  WrittenAfter(frames, n) = Cat(WriteFrame(frames[n + 1]), WrittenAfter(frames, n + 1))
  <2>1. N - n \in 0..N /\ N - n # 0 /\ (N - n) - 1 = N - (n + 1) /\ N - (N - n) + 1 = n + 1 BY <1>1
  <2>2. g[N - n] = Of(N - n) \o g[(N - n) - 1] BY <1>13, <2>1
  <2>3. Of(N - n) = WriteFrame(frames[n + 1]) BY <2>1 DEF Of
  <2>4. g[N - n] = WriteFrame(frames[n + 1]) \o g[N - (n + 1)] BY <2>1, <2>2, <2>3
  <2>5. WrittenAfter(frames, n) = g[N - n] /\ WrittenAfter(frames, n + 1) = g[N - (n + 1)] BY <1>2
  <2> QED BY <2>4, <2>5 DEF Cat
<1> QED BY <1>16, <1>17, <1>18 DEF N

\* Fewer bytes are behind a later frame.
LEMMA WrittenShrinks ==
  ASSUME NEW frames \in Seq(Bytes), NEW n \in 0..Len(frames), NEW k \in 0..Len(frames), n <= k
  PROVE  Len(WrittenAfter(frames, k)) <= Len(WrittenAfter(frames, n))
<1> DEFINE N == Len(frames)
           L(j) == Len(WrittenAfter(frames, j))
           T == {j \in 0..N : n <= j /\ ~(L(j) <= L(n))}
<1>1. N \in Nat BY LenProperties
<1>2. \A j \in 0..N : L(j) \in Nat BY WrittenIs, LenProperties DEF Bytes
<1>3. \A j \in 0..(N - 1) : L(j + 1) <= L(j)
  <2> SUFFICES ASSUME NEW j \in 0..(N - 1) PROVE L(j + 1) <= L(j) OBVIOUS
  <2> DEFINE a == WriteFrame(frames[j + 1])
             b == WrittenAfter(frames, j + 1)
  <2>1. j + 1 \in 1..N /\ j + 1 \in 0..N BY <1>1
  <2>2. frames[j + 1] \in Bytes BY <2>1, ElementOfSeq
  <2>3. a \in Bytes /\ b \in Bytes BY <2>1, <2>2, FrameBytes, WrittenIs
  <2>4. WrittenAfter(frames, j) = Cat(a, b) BY WrittenIs
  <2> HIDE DEF a, b
  <2>5. Len(Cat(a, b)) = Len(a) + Len(b) /\ Len(a) \in Nat /\ Len(b) \in Nat BY <2>3, CatTypes DEF Bytes
  <2>6. Len(b) <= Len(Cat(a, b)) BY <2>5
  <2> QED BY <2>4, <2>6 DEF b
<1> HIDE DEF L, N
<1>4. ASSUME T # {} PROVE FALSE
  <2>1. T \in SUBSET Nat BY <1>1
  <2> HIDE DEF T
  <2>2. PICK j \in T : \A i \in T : j <= i BY <1>4, <2>1, LeastOf
  <2>3. j \in 0..N /\ n <= j /\ ~(L(j) <= L(n)) BY <2>2 DEF T
  <2>4. n \in 0..N BY DEF N
  <2>5. j # n BY <1>2, <2>3, <2>4
  <2>6. j - 1 \in 0..N /\ j - 1 \in 0..(N - 1) /\ n <= j - 1 /\ ~(j <= j - 1) /\ (j - 1) + 1 = j
    BY <1>1, <2>3, <2>4, <2>5
  <2>7. L(j - 1) <= L(n) BY <2>2, <2>6 DEF T
  <2>8. L(j) <= L(j - 1) BY <1>3, <2>6
  <2> QED BY <1>2, <2>3, <2>4, <2>6, <2>7, <2>8
<1>5. L(k) <= L(n) BY <1>4 DEF N
<1> QED BY <1>5 DEF L

---------------------------------------------------------------------------
\* What Chunked::push reads of a size line.

\* SizeOf obeys its own recursion.
LEMMA SizeIs ==
  ASSUME NEW text \in Bytes, text # <<>>, \A i \in 1..Len(text) : text[i] >= Radix
  PROVE  \E g : /\ SizeOf(text) = g[Len(text)] /\ g[0] = 0
                /\ \A k \in 1..Len(text) : g[k] = Radix * g[k - 1] + (text[k] - Radix)
<1> DEFINE n == Len(text)
           IsSize(h) == h = [k \in 0..n |-> IF k = 0 THEN 0 ELSE Radix * h[k - 1] + (text[k] - Radix)]
           g == CHOOSE h : IsSize(h)
           G == [x \in (1..n) \X Nat |-> Radix * x[2] + (text[x[1]] - Radix)]
<1>1. n \in Nat /\ DOMAIN text = 1..n BY DEF Bytes
<1>2. SizeOf(text) = g[n] BY <1>1 DEF SizeOf
<1>3. \A k \in 1..n : text[k] - Radix \in Nat
  <2>1. \A k \in 1..n : text[k] \in Byte BY ElementOfSeq DEF Bytes
  <2> QED BY <2>1, RadixIs DEF Byte
<1>4. \A k \in 1..n, b \in Nat : Radix * b + (text[k] - Radix) \in Nat BY <1>3, RadixIs
<1>5. G \in [(1..n) \X Nat -> Nat] BY <1>4
<1>6. \A k \in 1..n, b \in Nat : G[<<k, b>>] = Radix * b + (text[k] - Radix) OBVIOUS
<1> HIDE DEF G, n
<1>7. PICK f : Iterated(f, Nat, 0, n, G) BY <1>1, <1>5, Iterates
<1>8. \A k \in 0..n : f[k] = IF k = 0 THEN 0 ELSE Radix * f[k - 1] + (text[k] - Radix)
  <2> SUFFICES ASSUME NEW k \in 0..n, k # 0 PROVE f[k] = Radix * f[k - 1] + (text[k] - Radix) BY <1>7 DEF Iterated
  <2>1. k \in 1..n /\ k - 1 \in 0..n BY <1>1
  <2>2. f[k - 1] \in Nat BY <1>7, <2>1 DEF Iterated
  <2>3. f[k] = G[<<k, f[k - 1]>>] BY <1>7, <2>1 DEF Iterated
  <2> QED BY <1>6, <2>1, <2>2, <2>3
<1>9. f = [k \in 0..n |-> f[k]] BY <1>7 DEF Iterated
<1>10. IsSize(f) BY <1>8, <1>9, Zenon
<1>11. IsSize(g) BY <1>10
<1>12. \A k \in 0..n : g[k] = IF k = 0 THEN 0 ELSE Radix * g[k - 1] + (text[k] - Radix)
  <2> HIDE DEF g
  <2> QED BY <1>11, Zenon
<1> HIDE DEF g, IsSize
<1>13. g[0] = 0 BY <1>1, <1>12
<1>14. ASSUME NEW k \in 1..n PROVE g[k] = Radix * g[k - 1] + (text[k] - Radix)
  <2>1. k \in 0..n /\ k # 0 BY <1>1
  <2> QED BY <1>12, <2>1
<1> QED BY <1>2, <1>13, <1>14 DEF n

\* The size of a chunk of n bytes, and of the last.
LEMMA SizeOfChunk ==
  ASSUME NEW text \in Bytes
  PROVE  /\ \A n \in Nat : Len(text) = 1 /\ text[1] = Radix + n => SizeOf(text) = n
         /\ Len(text) = 2 /\ text[1] = Radix /\ text[2] = Radix => SizeOf(text) = 0
<1>1. ASSUME NEW n \in Nat, Len(text) = 1, text[1] = Radix + n PROVE SizeOf(text) = n
  <2>1. text # <<>> /\ \A i \in 1..Len(text) : text[i] >= Radix BY <1>1, RadixIs
  <2>2. PICK g : /\ SizeOf(text) = g[Len(text)] /\ g[0] = 0
                 /\ \A k \in 1..Len(text) : g[k] = Radix * g[k - 1] + (text[k] - Radix)
    BY <2>1, SizeIs
  <2>3. 1 \in 1..Len(text) /\ 1 - 1 = 0 BY <1>1
  <2>4. g[1] = Radix * g[0] + (text[1] - Radix) BY <2>2, <2>3
  <2>5. Radix * 0 + ((Radix + n) - Radix) = n BY RadixIs
  <2> QED BY <1>1, <2>2, <2>4, <2>5
<1>2. ASSUME Len(text) = 2, text[1] = Radix, text[2] = Radix PROVE SizeOf(text) = 0
  <2>1. text # <<>> /\ \A i \in 1..Len(text) : text[i] >= Radix BY <1>2, RadixIs
  <2>2. PICK g : /\ SizeOf(text) = g[Len(text)] /\ g[0] = 0
                 /\ \A k \in 1..Len(text) : g[k] = Radix * g[k - 1] + (text[k] - Radix)
    BY <2>1, SizeIs
  <2>3. 1 \in 1..Len(text) /\ 2 \in 1..Len(text) /\ 1 - 1 = 0 /\ 2 - 1 = 1 BY <1>2
  <2>4. g[1] = Radix * g[0] + (text[1] - Radix) /\ g[2] = Radix * g[1] + (text[2] - Radix) BY <2>2, <2>3
  <2>5. Radix * 0 + (Radix - Radix) = 0 BY RadixIs
  <2> QED BY <1>2, <2>2, <2>4, <2>5
<1> QED BY <1>1, <1>2

\* The two bytes of a line end are not digits of a size.
LEMMA LineEnd == CR \in Nat /\ LF \in Nat /\ CR < Radix /\ LF < Radix /\ CR # LF /\ Crlf \in Bytes /\ Len(Crlf) = 2
                 /\ Crlf[1] = CR /\ Crlf[2] = LF
<1>1. CR \in 0..(Radix - 1) /\ LF \in 0..(Radix - 1) /\ CR # LF BY FramingAssumption
<1>2. CR \in Byte /\ LF \in Byte BY <1>1, RadixIs DEF Byte
<1> QED BY <1>1, <1>2, RadixIs DEF Crlf, Bytes

\* The two bytes at a place are a line end.
LEMMA TwoBytes ==
  ASSUME NEW s \in Bytes, NEW i \in 0..(Len(s) - 2)
  PROVE  SubSeq(s, i + 1, i + 2) = Crlf <=> s[i + 1] = CR /\ s[i + 2] = LF
<1> DEFINE t == SubSeq(s, i + 1, i + 2)
<1>1. Len(s) \in Nat /\ s \in Seq(Byte) BY DEF Bytes
<1>2. i + 1 \in Int /\ i + 2 \in Int /\ \A j \in (i + 1)..(i + 2) : j \in 1..Len(s) BY <1>1
<1>3. \A j \in (i + 1)..(i + 2) : s[j] \in Byte BY <1>1, <1>2, ElementOfSeq
<1>4. t \in Seq(Byte) /\ Len(t) = 2 /\ t[1] = s[i + 1] /\ t[2] = s[i + 2]
  <2> DEFINE m == i + 1
             n == i + 2
  <2>1. m \in Int /\ n \in Int /\ (\A j \in m..n : s[j] \in Byte) /\ n - m + 1 = 2 /\ m <= n /\ m + 1 - 1 = i + 1 /\ m + 2 - 1 = i + 2
    BY <1>2, <1>3
  <2> HIDE DEF m, n
  <2>2. /\ SubSeq(s, m, n) \in Seq(Byte) /\ Len(SubSeq(s, m, n)) = (IF m <= n THEN n - m + 1 ELSE 0)
        /\ \A j \in 1..(n - m + 1) : SubSeq(s, m, n)[j] = s[m + j - 1]
    BY <2>1, SubSeqProperties
  <2>3. 1 \in 1..(n - m + 1) /\ 2 \in 1..(n - m + 1) BY <2>1
  <2>4. Len(SubSeq(s, m, n)) = 2 BY <2>1, <2>2
  <2>5. SubSeq(s, m, n)[1] = s[i + 1] /\ SubSeq(s, m, n)[2] = s[i + 2] BY <2>1, <2>2, <2>3
  <2> QED BY <2>2, <2>4, <2>5 DEF m, n
<1> HIDE DEF t
<1>5. t = Crlf <=> t[1] = CR /\ t[2] = LF
  <2>1. ASSUME t[1] = CR, t[2] = LF PROVE t = Crlf
    <3>1. \A j \in 1..2 : t[j] = Crlf[j] BY <2>1, LineEnd
    <3>2. Crlf \in Seq(Byte) /\ Len(t) = Len(Crlf) BY <1>4, LineEnd DEF Bytes
    <3> QED BY <1>4, <3>1, <3>2, SeqEqual
  <2> QED BY <2>1, LineEnd
<1> QED BY <1>4, <1>5 DEF t

\* find returns the first place a line end starts at.
LEMMA FindFirst ==
  ASSUME NEW s \in Bytes, NEW at \in 0..(Len(s) - 2), s[at + 1] = CR, s[at + 2] = LF,
         \A i \in 1..at : s[i] # CR
  PROVE  FindCrlf(s) = at
<1> DEFINE A == {i \in 0..(Len(s) - 2) : SubSeq(s, i + 1, i + 2) = Crlf}
<1>1. Len(s) \in Nat BY DEF Bytes
<1>2. at \in A BY TwoBytes
<1>3. \A i \in A : i \in Nat /\ at <= i
  <2> SUFFICES ASSUME NEW i \in A PROVE i \in Nat /\ at <= i OBVIOUS
  <2>1. s[i + 1] = CR /\ i \in Nat BY <1>1, TwoBytes
  <2>2. ASSUME i < at PROVE FALSE
    <3>1. i + 1 \in 1..at BY <1>1, <2>1, <2>2
    <3> QED BY <2>1, <3>1
  <2> QED BY <1>1, <2>1, <2>2
<1>4. FindCrlf(s) = IF A = {} THEN -1 ELSE CHOOSE i \in A : \A j \in A : i <= j BY DEF FindCrlf
<1> HIDE DEF A
<1> DEFINE c == CHOOSE i \in A : \A j \in A : i <= j
<1>5. c \in A /\ \A j \in A : c <= j BY <1>2, <1>3
<1>6. FindCrlf(s) = c BY <1>2, <1>4
<1> HIDE DEF c
<1>7. c \in Nat /\ at <= c /\ c <= at /\ at \in Nat BY <1>2, <1>3, <1>5
<1> QED BY <1>6, <1>7

\* find returns nothing when no byte but the last is a CR.
LEMMA FindNone ==
  ASSUME NEW s \in Bytes, \A i \in 1..(Len(s) - 1) : s[i] # CR
  PROVE  FindCrlf(s) = -1
<1>1. Len(s) \in Nat BY DEF Bytes
<1>2. \A i \in 0..(Len(s) - 2) : SubSeq(s, i + 1, i + 2) # Crlf
  <2> SUFFICES ASSUME NEW i \in 0..(Len(s) - 2), SubSeq(s, i + 1, i + 2) = Crlf PROVE FALSE OBVIOUS
  <2>1. s[i + 1] = CR BY TwoBytes
  <2>2. i + 1 \in 1..(Len(s) - 1) BY <1>1
  <2> QED BY <2>1, <2>2
<1>3. {i \in 0..(Len(s) - 2) : SubSeq(s, i + 1, i + 2) = Crlf} = {} BY <1>2
<1> QED BY <1>3 DEF FindCrlf

---------------------------------------------------------------------------
\* Chunks on their way: their bytes, and the bytes they carry. What can be made of b by
\* putting one chunk after another before it, and of nothing else.

Payloads == {d \in Bytes : Len(d) \in 1..(Radix - 1)}
SizeBytes(n) == Cat(<<Radix + n>>, Crlf)
ChunkOf(d) == Cat(SizeBytes(Len(d)), Cat(d, Crlf))
OneMore(d, x) == <<Cat(ChunkOf(d), x[1]), Cat(d, x[2])>>
ChunkPairs == Bytes \X Bytes
Chunking(P, b) == <<b, <<>>>> \in P /\ \A d \in Payloads, x \in P : OneMore(d, x) \in P
Chunkings(b) == {x \in ChunkPairs : \A P \in SUBSET ChunkPairs : Chunking(P, b) => x \in P}

\* The same of bytes.
LEMMA BytesJoin ==
  ASSUME NEW a \in Bytes, NEW b \in Bytes
  PROVE  /\ Cat(a, b) \in Bytes /\ Len(Cat(a, b)) = Len(a) + Len(b) /\ Len(a) \in Nat /\ Len(b) \in Nat
         /\ Cat(a, <<>>) = a /\ Cat(<<>>, a) = a /\ <<>> \in Bytes /\ Len(<<>>) = 0
<1>1. a \in Seq(Byte) /\ b \in Seq(Byte) BY DEF Bytes
<1>2. Cat(a, b) \in Seq(Byte) /\ Len(Cat(a, b)) = Len(a) + Len(b) /\ Len(a) \in Nat /\ Len(b) \in Nat
  BY <1>1, CatTypes
<1>3. Cat(a, <<>>) = a /\ Cat(<<>>, a) = a BY <1>1, CatEmpty
<1>4. <<>> \in Seq(Byte) /\ Len(<<>>) = 0 OBVIOUS
<1> QED BY <1>2, <1>3, <1>4 DEF Bytes

\* No bytes are bytes.
LEMMA NoBytes == <<>> \in Bytes /\ Len(<<>>) = 0
BY DEF Bytes

\* Three runs of bytes may be joined from either end.
LEMMA BytesAssociate ==
  ASSUME NEW a \in Bytes, NEW b \in Bytes, NEW c \in Bytes
  PROVE  Cat(Cat(a, b), c) = Cat(a, Cat(b, c))
BY CatAssociates DEF Bytes

\* Bytes cut in two are the two parts.
LEMMA BytesCut ==
  ASSUME NEW s \in Bytes, NEW n \in 0..Len(s)
  PROVE  /\ First(s, n) \in Bytes /\ Len(First(s, n)) = n
         /\ Drop(s, n) \in Bytes /\ Len(Drop(s, n)) = Len(s) - n
         /\ Cat(First(s, n), Drop(s, n)) = s
BY CutAt, CutRejoined DEF Bytes

\* The same bytes joined at two places.
LEMMA BytesElsewhere ==
  ASSUME NEW a \in Bytes, NEW b \in Bytes, NEW c \in Bytes, NEW d \in Bytes,
         Cat(a, b) = Cat(c, d), Len(a) <= Len(c)
  PROVE  a = First(c, Len(a)) /\ b = Cat(Drop(c, Len(a)), d)
<1>1. a \in Seq(Byte) /\ b \in Seq(Byte) /\ c \in Seq(Byte) /\ d \in Seq(Byte) BY DEF Bytes
<1> QED BY <1>1, JoinedElsewhere

\* The bytes of a sequence put before another.
LEMMA BytesAt ==
  ASSUME NEW a \in Bytes, NEW b \in Bytes
  PROVE  /\ \A i \in 1..Len(a) : Cat(a, b)[i] = a[i]
         /\ \A i \in 1..Len(b) : Cat(a, b)[Len(a) + i] = b[i]
<1> DEFINE c == a \o b
<1>1. a \in Seq(Byte) /\ b \in Seq(Byte) /\ Len(a) \in Nat /\ Len(b) \in Nat BY DEF Bytes
<1>2. \A i \in 1..(Len(a) + Len(b)) : c[i] = IF i <= Len(a) THEN a[i] ELSE b[i - Len(a)]
  BY <1>1, ConcatProperties
<1> HIDE DEF c
<1>3. \A i \in 1..Len(a) : i \in 1..(Len(a) + Len(b)) /\ i <= Len(a) BY <1>1
<1>4. \A i \in 1..Len(b) : Len(a) + i \in 1..(Len(a) + Len(b)) /\ ~(Len(a) + i <= Len(a)) /\ (Len(a) + i) - Len(a) = i
  BY <1>1
<1>5. \A i \in 1..Len(a) : c[i] = a[i] BY <1>2, <1>3
<1>6. \A i \in 1..Len(b) : c[Len(a) + i] = b[i]
  <2> SUFFICES ASSUME NEW i \in 1..Len(b) PROVE c[Len(a) + i] = b[i] OBVIOUS
  <2>1. c[Len(a) + i] = b[(Len(a) + i) - Len(a)] BY <1>2, <1>4
  <2> QED BY <1>4, <2>1
<1> QED BY <1>5, <1>6 DEF c, Cat

\* A size line is a digit and a line end.
LEMMA SizeLineBytes ==
  ASSUME NEW n \in 0..(Radix - 1)
  PROVE  /\ SizeBytes(n) \in Bytes /\ Len(SizeBytes(n)) = 3
         /\ SizeBytes(n)[1] = Radix + n /\ SizeBytes(n)[2] = CR /\ SizeBytes(n)[3] = LF
<1> DEFINE a == <<Radix + n>>
<1>1. a \in Bytes /\ Len(a) = 1 /\ a[1] = Radix + n BY RadixIs DEF Bytes, Byte
<1> HIDE DEF a
<1>2. Crlf \in Bytes /\ Len(Crlf) = 2 /\ Crlf[1] = CR /\ Crlf[2] = LF BY LineEnd
<1>3. Cat(a, Crlf) \in Bytes /\ Len(Cat(a, Crlf)) = Len(a) + Len(Crlf) BY <1>1, <1>2, BytesJoin
<1>4. Cat(a, Crlf)[1] = a[1] /\ Cat(a, Crlf)[1 + 1] = Crlf[1] /\ Cat(a, Crlf)[1 + 2] = Crlf[2]
  <2>1. /\ \A i \in 1..Len(a) : Cat(a, Crlf)[i] = a[i]
        /\ \A i \in 1..Len(Crlf) : Cat(a, Crlf)[Len(a) + i] = Crlf[i]
    BY <1>1, <1>2, BytesAt
  <2> QED BY <1>1, <1>2, <2>1
<1> QED BY <1>1, <1>2, <1>3, <1>4 DEF a, SizeBytes

\* What a chunk is made of.
LEMMA ChunkBytes ==
  ASSUME NEW d \in Payloads
  PROVE  /\ d \in Bytes /\ Len(d) \in 1..(Radix - 1) /\ Len(d) \in 0..(Radix - 1)
         /\ SizeBytes(Len(d)) \in Bytes /\ Cat(d, Crlf) \in Bytes /\ ChunkOf(d) \in Bytes
<1>1. d \in Bytes /\ Len(d) \in 1..(Radix - 1) /\ Len(d) \in 0..(Radix - 1) BY RadixIs DEF Payloads
<1>2. SizeBytes(Len(d)) \in Bytes BY <1>1, SizeLineBytes
<1>3. Cat(d, Crlf) \in Bytes BY <1>1, LineEnd, BytesJoin
<1>4. ChunkOf(d) \in Bytes BY <1>2, <1>3, BytesJoin DEF ChunkOf
<1> QED BY <1>1, <1>2, <1>3, <1>4

\* A chunk before chunks.
LEMMA OneMoreTypes ==
  ASSUME NEW d \in Payloads, NEW x \in ChunkPairs
  PROVE  /\ OneMore(d, x) \in ChunkPairs /\ x[1] \in Bytes /\ x[2] \in Bytes /\ x = <<x[1], x[2]>>
         /\ OneMore(d, x)[1] = Cat(ChunkOf(d), x[1]) /\ OneMore(d, x)[2] = Cat(d, x[2])
<1>1. x[1] \in Bytes /\ x[2] \in Bytes /\ x = <<x[1], x[2]>> BY DEF ChunkPairs
<1>2. Cat(ChunkOf(d), x[1]) \in Bytes /\ Cat(d, x[2]) \in Bytes BY <1>1, ChunkBytes, BytesJoin
<1> QED BY <1>1, <1>2 DEF OneMore, ChunkPairs

\* Chunkings is itself closed under putting a chunk before.
LEMMA ChunkingsMade ==
  ASSUME NEW b \in Bytes
  PROVE  Chunking(Chunkings(b), b) /\ Chunkings(b) \subseteq ChunkPairs
<1>0. Chunkings(b) \subseteq ChunkPairs BY DEF Chunkings
<1>1. <<b, <<>>>> \in Chunkings(b)
  <2>1. <<>> \in Bytes BY BytesJoin
  <2>2. <<b, <<>>>> \in ChunkPairs BY <2>1 DEF ChunkPairs
  <2> QED BY <2>2 DEF Chunkings, Chunking
<1>2. ASSUME NEW d \in Payloads, NEW x \in Chunkings(b) PROVE OneMore(d, x) \in Chunkings(b)
  <2>1. OneMore(d, x) \in ChunkPairs BY <1>0, OneMoreTypes
  <2>2. ASSUME NEW P \in SUBSET ChunkPairs, Chunking(P, b) PROVE OneMore(d, x) \in P
    <3>1. x \in P BY <2>2 DEF Chunkings
    <3> QED BY <2>2, <3>1 DEF Chunking
  <2> QED BY <2>1, <2>2 DEF Chunkings
<1> QED BY <1>0, <1>1, <1>2 DEF Chunking

\* There is no other way to come by chunks.
LEMMA ChunkingsOnly ==
  ASSUME NEW b \in Bytes, NEW x \in Chunkings(b)
  PROVE  x = <<b, <<>>>> \/ \E d \in Payloads, y \in Chunkings(b) : x = OneMore(d, y)
<1> SUFFICES ASSUME x # <<b, <<>>>>, \A d \in Payloads, y \in Chunkings(b) : x # OneMore(d, y) PROVE FALSE
  OBVIOUS
<1> DEFINE P == Chunkings(b) \ {x}
<1>1. Chunking(Chunkings(b), b) /\ Chunkings(b) \subseteq ChunkPairs BY ChunkingsMade
<1>2. P \in SUBSET ChunkPairs BY <1>1
<1>3. Chunking(P, b) BY <1>1 DEF Chunking
<1>4. x \in P BY <1>2, <1>3 DEF Chunkings
<1> QED BY <1>4

\* One after the other they make one.
LEMMA ChunkingsJoin ==
  ASSUME NEW b \in Bytes, NEW x \in Chunkings(<<>>), NEW y \in Chunkings(b)
  PROVE  <<Cat(x[1], y[1]), Cat(x[2], y[2])>> \in Chunkings(b)
<1> DEFINE J(z) == <<Cat(z[1], y[1]), Cat(z[2], y[2])>>
           P == {z \in ChunkPairs : J(z) \in Chunkings(b)}
<1>0. <<>> \in Bytes BY BytesJoin
<1>1. Chunking(Chunkings(b), b) /\ Chunkings(b) \subseteq ChunkPairs BY ChunkingsMade
<1>2. y[1] \in Bytes /\ y[2] \in Bytes /\ y = <<y[1], y[2]>> BY <1>1 DEF ChunkPairs
<1>3. <<<<>>, <<>>>> \in P
  <2> DEFINE e == <<>>
  <2>1. e \in Bytes BY <1>0
  <2>2. Cat(e, y[1]) = y[1] /\ Cat(e, y[2]) = y[2] BY <1>2, BytesJoin
  <2> HIDE DEF e
  <2>3. <<e, e>> \in ChunkPairs BY <2>1 DEF ChunkPairs
  <2>4. J(<<e, e>>) = y BY <1>2, <2>2
  <2>5. <<e, e>> \in P BY <2>3, <2>4
  <2> QED BY <2>5 DEF e
<1>4. ASSUME NEW d \in Payloads, NEW z \in P PROVE OneMore(d, z) \in P
  <2>1. z \in ChunkPairs /\ J(z) \in Chunkings(b) OBVIOUS
  <2>2. OneMore(d, z) \in ChunkPairs /\ z[1] \in Bytes /\ z[2] \in Bytes
        /\ OneMore(d, z)[1] = Cat(ChunkOf(d), z[1]) /\ OneMore(d, z)[2] = Cat(d, z[2])
    BY <2>1, OneMoreTypes
  <2>3. OneMore(d, J(z)) \in Chunkings(b) BY <1>1, <2>1 DEF Chunking
  <2>4. ChunkOf(d) \in Bytes /\ d \in Bytes BY ChunkBytes
  <2>5. /\ Cat(Cat(ChunkOf(d), z[1]), y[1]) = Cat(ChunkOf(d), Cat(z[1], y[1]))
        /\ Cat(Cat(d, z[2]), y[2]) = Cat(d, Cat(z[2], y[2]))
    BY <1>2, <2>2, <2>4, BytesAssociate
  <2>6. OneMore(d, J(z)) = <<Cat(ChunkOf(d), Cat(z[1], y[1])), Cat(d, Cat(z[2], y[2]))>> BY DEF OneMore
  <2>7. J(OneMore(d, z)) = OneMore(d, J(z)) BY <2>2, <2>5, <2>6
  <2> QED BY <2>2, <2>3, <2>7
<1>5. P \in SUBSET ChunkPairs OBVIOUS
<1>6. Chunking(P, <<>>) BY <1>3, <1>4 DEF Chunking
<1>7. x \in P BY <1>5, <1>6 DEF Chunkings
<1> QED BY <1>7

---------------------------------------------------------------------------
\* The invariant: at every step the bytes held, decoded, on their way and unsent are those
\* of the frames not yet taken.

Held == Drop(buf, start)
Fresh == IF where \in {"chunks", "push"} THEN decoded ELSE <<>>
InHand == IF where = "frames" THEN Cat(Cat(handed, ready), cut) ELSE Cat(handed, ready)

\* Of the bytes c on their way, l more of a chunk come first; p is what they carry, b how they end.
InChunks(l, c, p, b) ==
  \E d \in Bytes, x \in Chunkings(b) :
    /\ Len(d) = l /\ p = Cat(d, x[2])
    /\ c = Cat(d, Cat(Crlf, x[1])) \/ (l = 0 /\ c = x[1])

EndBytes == IF over THEN LastChunk ELSE <<>>

Arriving(p) ==
  IF ~chunks THEN p = line
  ELSE IF done THEN p = <<>>
  ELSE InChunks(left, Cat(raw, line), p, EndBytes)

\* The loop of Chunked::push has gone as far as it can.
AtRest ==
  \/ done
  \/ left > 0 /\ raw = <<>>
  \/ left = 0 /\ ~StartsWithCrlf(raw) /\ FindCrlf(raw) = -1

Flow(n, p) ==
  /\ n \in 0..Len(body) /\ p \in Bytes
  /\ InHand = First(body, n)
  /\ Cat(Held, Cat(Fresh, Cat(p, unsent))) = WrittenAfter(body, n)
  /\ Arriving(p)
  /\ where # "frames" /\ n < Len(body) => Len(Held) < Len(WriteFrame(body[n + 1]))

Open == {"idle", "chunks", "push", "frames"}

FramingTypes ==
  /\ body \in Seq(Bytes) /\ chunks \in BOOLEAN /\ over \in BOOLEAN /\ done \in BOOLEAN /\ where \in Open \cup {"failed", "ended"}
  /\ unsent \in Bytes /\ line \in Bytes /\ raw \in Bytes /\ decoded \in Bytes /\ left \in Nat
  /\ buf \in Bytes /\ start \in 0..Len(buf)
  /\ cut \in Seq(Bytes) /\ ready \in Seq(Bytes) /\ handed \in Seq(Bytes)

\* A frame over the limit, and what was found ends before it.
FailedAtOne ==
  \E i \in 1..Len(body), n \in 0..Len(body) :
    Cat(handed, ready) = First(body, n) /\ n < i /\ Len(body[i]) > MaxBoxFrame

FramingInv ==
  /\ FramingTypes
  /\ over => chunks /\ unsent = <<>>
  /\ done => over
  /\ where = "chunks" => chunks /\ ~done
  /\ chunks /\ where \in {"idle", "push", "frames"} => AtRest
  /\ where \in Open => \E n, p : Flow(n, p)
  /\ where = "failed" => FailedAtOne
  /\ where = "ended" => Cat(handed, ready) = body

\* An answer of which nothing is sent.
LEMMA FramingInitially == FramingInit => FramingInv
<1> SUFFICES ASSUME FramingInit PROVE FramingInv OBVIOUS
<1>1. /\ body \in Bodies /\ chunks \in BOOLEAN /\ unsent = WrittenAfter(body, 0) /\ over = FALSE /\ line = <<>>
      /\ where = "idle" /\ raw = <<>> /\ left = 0 /\ done = FALSE /\ decoded = <<>>
      /\ buf = <<>> /\ start = 0 /\ cut = <<>> /\ ready = <<>> /\ handed = <<>>
  BY DEF FramingInit
<1>2. body \in Seq(Bytes) BY <1>1, FramingAssumption DEF Bytes, Byte
<1>3. Len(body) \in Nat BY <1>2, LenProperties
<1>4. unsent \in Bytes BY <1>1, <1>2, <1>3, WrittenIs
<1>5. <<>> \in Bytes /\ Len(<<>>) = 0 /\ <<>> \in Seq(Bytes) BY DEF Bytes
<1>6. FramingTypes
  <2>1. start \in 0..Len(buf) /\ left \in Nat BY <1>1, <1>5
  <2>2. where \in Open \cup {"failed", "ended"} BY <1>1 DEF Open
  <2> QED BY <1>1, <1>2, <1>4, <1>5, <2>1, <2>2, Zenon DEF FramingTypes
<1>7. AtRest
  <2>1. ~StartsWithCrlf(raw) BY <1>1, <1>5 DEF StartsWithCrlf
  <2>2. FindCrlf(raw) = -1
    <3>1. raw \in Bytes /\ \A i \in 1..(Len(raw) - 1) : raw[i] # CR BY <1>1, <1>5
    <3> QED BY <3>1, FindNone
  <2> QED BY <1>1, <2>1, <2>2 DEF AtRest
<1>8. Flow(0, <<>>)
  <2> DEFINE e == <<>>
  <2>0. e \in Bytes /\ Cat(e, e) = e /\ Len(e) = 0 BY <1>5, BytesJoin
  <2>1. Held = e
    <3>1. buf \in Seq(Byte) BY <1>1, <1>5 DEF Bytes
    <3>2. Drop(buf, 0) = buf BY <3>1, CutAtAnEnd
    <3> QED BY <1>1, <3>2 DEF Held
  <2>2. Fresh = e BY <1>1 DEF Fresh
  <2>3. InHand = First(body, 0)
    <3>1. First(body, 0) = <<>> BY <1>2, CutAtAnEnd
    <3>2. InHand = Cat(e, e) BY <1>1 DEF InHand
    <3> QED BY <2>0, <3>1, <3>2
  <2>4. Cat(Held, Cat(Fresh, Cat(e, unsent))) = WrittenAfter(body, 0)
    <3>1. Cat(e, unsent) = unsent BY <1>4, BytesJoin
    <3> QED BY <1>1, <2>1, <2>2, <3>1
  <2>5. Arriving(e)
    <3>1. CASE ~chunks BY <1>1, <3>1 DEF Arriving
    <3>2. CASE chunks
      <4>1. EndBytes = e /\ Cat(raw, line) = e BY <1>1, <2>0 DEF EndBytes
      <4>2. <<e, e>> \in Chunkings(e) BY <2>0, ChunkingsMade DEF Chunking
      <4> DEFINE x == <<e, e>>
      <4>3. x \in Chunkings(e) /\ x[1] = e /\ x[2] = e BY <4>2
      <4> HIDE DEF x, e
      <4>4. InChunks(0, e, e, e) BY <2>0, <4>3 DEF InChunks
      <4>5. Arriving(e) <=> InChunks(left, Cat(raw, line), e, EndBytes) BY <1>1, <3>2 DEF Arriving
      <4> QED BY <1>1, <4>1, <4>4, <4>5
    <3> QED BY <3>1, <3>2
  <2>6. 0 < Len(body) => Len(Held) < Len(WriteFrame(body[0 + 1]))
    <3> SUFFICES ASSUME 0 < Len(body) PROVE Len(Held) < Len(WriteFrame(body[1])) OBVIOUS
    <3>1. body[1] \in Bytes BY <1>2, <1>3, ElementOfSeq
    <3>2. Len(WriteFrame(body[1])) \in Nat \ {0} BY <3>1, FrameBytes
    <3> QED BY <2>0, <2>1, <3>2
  <2> HIDE DEF e
  <2>7. Flow(0, e) BY <1>3, <2>0, <2>3, <2>4, <2>5, <2>6 DEF Flow
  <2> QED BY <2>7 DEF e
<1> QED BY <1>1, <1>6, <1>7, <1>8 DEF FramingInv

\* The last chunk, byte by byte.
LEMMA LastChunkBytes ==
  /\ LastChunk \in Bytes /\ Len(LastChunk) = 6
  /\ LastChunk[1] = Radix /\ LastChunk[2] = Radix /\ LastChunk[3] = CR /\ LastChunk[4] = LF
<1> DEFINE a == <<Radix, Radix>>
           b == Cat(a, Crlf)
<1>1. a \in Bytes /\ Len(a) = 2 /\ a[1] = Radix /\ a[2] = Radix BY RadixIs DEF Bytes, Byte
<1>2. Crlf \in Bytes /\ Len(Crlf) = 2 /\ Crlf[1] = CR /\ Crlf[2] = LF BY LineEnd
<1> HIDE DEF a
<1>3. b \in Bytes /\ Len(b) = Len(a) + Len(Crlf) BY <1>1, <1>2, BytesJoin
<1>4. /\ \A i \in 1..Len(a) : b[i] = a[i]
      /\ \A i \in 1..Len(Crlf) : b[Len(a) + i] = Crlf[i]
  BY <1>1, <1>2, BytesAt
<1> HIDE DEF b
<1>5. Len(b) = 4 /\ b[1] = Radix /\ b[2] = Radix /\ b[2 + 1] = CR /\ b[2 + 2] = LF BY <1>1, <1>2, <1>3, <1>4
<1>6. Cat(b, Crlf) \in Bytes /\ Len(Cat(b, Crlf)) = Len(b) + Len(Crlf) BY <1>2, <1>3, BytesJoin
<1>7. \A i \in 1..Len(b) : Cat(b, Crlf)[i] = b[i] BY <1>2, <1>3, BytesAt
<1>8. LastChunk = Cat(b, Crlf) BY DEF LastChunk, b, a, Cat
<1>9. Len(Cat(b, Crlf)) = 6 BY <1>2, <1>5, <1>6
<1>10. 1 \in 1..Len(b) /\ 2 \in 1..Len(b) /\ 3 \in 1..Len(b) /\ 4 \in 1..Len(b) BY <1>5
<1>11. /\ Cat(b, Crlf)[1] = b[1] /\ Cat(b, Crlf)[2] = b[2]
       /\ Cat(b, Crlf)[3] = b[3] /\ Cat(b, Crlf)[4] = b[4]
  BY <1>7, <1>10
<1>12. b[3] = CR /\ b[4] = LF BY <1>5
<1> QED BY <1>5, <1>6, <1>8, <1>9, <1>11, <1>12, Zenon

\* A chunk sent after what is on its way, or the last one.
LEMMA InChunksGrows ==
  ASSUME NEW b \in Bytes, NEW l, NEW c, NEW p, InChunks(l, c, p, <<>>), NEW y \in Chunkings(b)
  PROVE  InChunks(l, Cat(c, y[1]), Cat(p, y[2]), b)
<1>0. <<>> \in Bytes BY BytesJoin
<1>1. PICK d \in Bytes, x \in Chunkings(<<>>) :
        /\ Len(d) = l /\ p = Cat(d, x[2])
        /\ c = Cat(d, Cat(Crlf, x[1])) \/ (l = 0 /\ c = x[1])
  BY DEF InChunks
<1>2. x[1] \in Bytes /\ x[2] \in Bytes /\ y[1] \in Bytes /\ y[2] \in Bytes
  BY <1>0, ChunkingsMade DEF ChunkPairs
<1>3. PICK z : z = <<Cat(x[1], y[1]), Cat(x[2], y[2])>> OBVIOUS
<1>4. z \in Chunkings(b) BY <1>3, ChunkingsJoin
<1>5. z[1] = Cat(x[1], y[1]) /\ z[2] = Cat(x[2], y[2]) BY <1>3
<1>6. Cat(p, y[2]) = Cat(d, z[2]) BY <1>1, <1>2, <1>5, BytesAssociate
<1>7. Crlf \in Bytes BY LineEnd
<1>8. ASSUME c = Cat(d, Cat(Crlf, x[1])) PROVE Cat(c, y[1]) = Cat(d, Cat(Crlf, z[1]))
  <2>1. Cat(Crlf, x[1]) \in Bytes BY <1>2, <1>7, BytesJoin
  <2>2. Cat(c, y[1]) = Cat(d, Cat(Cat(Crlf, x[1]), y[1])) BY <1>2, <1>8, <2>1, BytesAssociate
  <2>3. Cat(Cat(Crlf, x[1]), y[1]) = Cat(Crlf, z[1]) BY <1>2, <1>5, <1>7, BytesAssociate
  <2> QED BY <2>2, <2>3
<1>9. \/ Cat(c, y[1]) = Cat(d, Cat(Crlf, z[1]))
      \/ l = 0 /\ Cat(c, y[1]) = z[1]
  BY <1>1, <1>5, <1>8
<1> QED BY <1>1, <1>4, <1>6, <1>9 DEF InChunks

\* The box sends more: the bytes move from what is unsent to what is on its way.
LEMMA BoxSendsStep == FramingInv /\ BoxSends => FramingInv'
<1> SUFFICES ASSUME FramingInv, BoxSends PROVE FramingInv' OBVIOUS
<1>0. FramingTypes BY DEF FramingInv
<1>1. PICK n \in 1..Len(unsent) :
        /\ n < Radix /\ unsent' = Drop(unsent, n)
        /\ line' = line \o IF chunks THEN <<Radix + n>> \o Crlf \o First(unsent, n) \o Crlf ELSE First(unsent, n)
        /\ UNCHANGED <<body, chunks, over, where, raw, left, done, decoded, buf, start, cut, ready, handed>>
  BY DEF BoxSends
<1>2. unsent \in Bytes /\ line \in Bytes /\ raw \in Bytes /\ Len(unsent) \in Nat BY <1>0 DEF FramingTypes, Bytes
<1>3. n \in 0..Len(unsent) /\ n \in Nat /\ n >= 1 BY <1>2
<1>4. PICK f : f = First(unsent, n) OBVIOUS
<1>5. f \in Bytes /\ Len(f) = n /\ unsent' \in Bytes /\ Cat(f, unsent') = unsent
  BY <1>1, <1>2, <1>3, <1>4, BytesCut
<1>6. f \in Payloads BY <1>1, <1>3, <1>5, RadixIs DEF Payloads
<1>7. line' = Cat(line, IF chunks THEN ChunkOf(f) ELSE f)
  <2>1. <<Radix + n>> \o Crlf \o f \o Crlf = ChunkOf(f)
    <3>1. <<Radix + n>> \o Crlf \o f \o Crlf = Cat(Cat(SizeBytes(n), f), Crlf) BY DEF Cat, SizeBytes
    <3>2. SizeBytes(n) \in Bytes BY <1>5, <1>6, ChunkBytes
    <3>3. Cat(Cat(SizeBytes(n), f), Crlf) = Cat(SizeBytes(n), Cat(f, Crlf)) BY <1>5, <3>2, LineEnd, BytesAssociate
    <3> QED BY <1>5, <3>1, <3>3 DEF ChunkOf
  <2>2. CASE chunks BY <1>1, <1>4, <2>1, <2>2 DEF Cat
  <2>3. CASE ~chunks BY <1>1, <1>4, <2>3 DEF Cat
  <2> QED BY <2>2, <2>3
<1>8. line' \in Bytes BY <1>2, <1>5, <1>6, <1>7, ChunkBytes, BytesJoin
<1>9. FramingTypes' BY <1>0, <1>1, <1>5, <1>8, Zenon DEF FramingTypes, Open
<1>10. ~over
  <2>1. unsent # <<>> BY <1>2, <1>3
  <2> QED BY <2>1 DEF FramingInv
<1>11. ~done BY <1>10 DEF FramingInv
<1>12. ASSUME where \in Open PROVE \E m, q : Flow(m, q)'
  <2>1. PICK m, p : Flow(m, p) BY <1>12 DEF FramingInv
  <2>2. PICK q : q = Cat(p, f) OBVIOUS
  <2>3. m \in 0..Len(body) /\ p \in Bytes /\ InHand = First(body, m)
        /\ Cat(Held, Cat(Fresh, Cat(p, unsent))) = WrittenAfter(body, m) /\ Arriving(p)
        /\ (where # "frames" /\ m < Len(body) => Len(Held) < Len(WriteFrame(body[m + 1])))
    BY <2>1 DEF Flow
  <2>4. Held' = Held /\ Fresh' = Fresh /\ InHand' = InHand BY <1>1 DEF Held, Fresh, InHand
  <2>5. q \in Bytes BY <1>5, <2>2, <2>3, BytesJoin
  <2>6. Cat(q, unsent') = Cat(p, unsent) BY <1>5, <2>2, <2>3, BytesAssociate
  <2>7. Arriving(q)'
    <3>1. CASE ~chunks
      <4>1. q = line' BY <1>7, <2>2, <2>3, <3>1 DEF Arriving
      <4> QED BY <1>1, <3>1, <4>1 DEF Arriving
    <3>2. CASE chunks
      <4>1. InChunks(left, Cat(raw, line), p, <<>>) BY <1>10, <1>11, <2>3, <3>2 DEF Arriving, EndBytes
      <4>2. PICK y : y = <<ChunkOf(f), f>> OBVIOUS
      <4>3. y \in Chunkings(<<>>)
        <5> DEFINE e == <<>>
        <5>1. e \in Bytes BY NoBytes
        <5>2. Chunking(Chunkings(e), e) BY <5>1, ChunkingsMade
        <5>3. <<e, <<>>>> \in Chunkings(e) BY <5>2 DEF Chunking
        <5>4. OneMore(f, <<e, <<>>>>) \in Chunkings(e) BY <1>6, <5>2, <5>3 DEF Chunking
        <5>5. Cat(ChunkOf(f), <<>>) = ChunkOf(f) /\ Cat(f, <<>>) = f BY <1>5, <1>6, ChunkBytes, BytesJoin
        <5>6. OneMore(f, <<e, <<>>>>) = <<Cat(ChunkOf(f), <<>>), Cat(f, <<>>)>> BY DEF OneMore
        <5> QED BY <4>2, <5>4, <5>5, <5>6
      <4>4. y[1] = ChunkOf(f) /\ y[2] = f BY <4>2
      <4>5. <<>> \in Bytes BY NoBytes
      <4>6. InChunks(left, Cat(Cat(raw, line), y[1]), Cat(p, y[2]), <<>>) BY <4>1, <4>3, <4>5, InChunksGrows
      <4>7. Cat(Cat(raw, line), ChunkOf(f)) = Cat(raw, line')
        <5>1. ChunkOf(f) \in Bytes BY <1>6, ChunkBytes
        <5>2. line' = Cat(line, ChunkOf(f)) BY <1>7, <3>2
        <5> QED BY <1>2, <5>1, <5>2, BytesAssociate
      <4>8. InChunks(left, Cat(raw, line'), q, <<>>) BY <2>2, <4>4, <4>6, <4>7
      <4>9. InChunks(left', Cat(raw', line'), q, EndBytes') BY <1>1, <1>10, <4>8 DEF EndBytes
      <4>10. chunks' /\ ~done' BY <1>1, <1>11, <3>2
      <4> QED BY <4>9, <4>10 DEF Arriving
    <3> QED BY <3>1, <3>2
  <2>8. Flow(m, q)' BY <1>1, <2>3, <2>4, <2>5, <2>6, <2>7 DEF Flow
  <2> QED BY <2>8
<1>13. FailedAtOne' = FailedAtOne /\ AtRest' = AtRest BY <1>1 DEF FailedAtOne, AtRest
<1> QED BY <1>1, <1>9, <1>10, <1>11, <1>12, <1>13 DEF FramingInv

\* The box sends the last chunk, which carries nothing.
LEMMA BoxEndsStep == FramingInv /\ BoxEnds => FramingInv'
<1> SUFFICES ASSUME FramingInv, BoxEnds PROVE FramingInv' OBVIOUS
<1>0. FramingTypes BY DEF FramingInv
<1>1. /\ unsent = <<>> /\ chunks /\ ~over /\ over' = TRUE /\ line' = Cat(line, LastChunk)
      /\ UNCHANGED <<body, chunks, unsent, where, raw, left, done, decoded, buf, start, cut, ready, handed>>
  BY DEF BoxEnds, Cat
<1>2. line \in Bytes /\ raw \in Bytes /\ LastChunk \in Bytes BY <1>0, LastChunkBytes DEF FramingTypes
<1>3. line' \in Bytes BY <1>1, <1>2, BytesJoin
<1>4. FramingTypes' BY <1>0, <1>1, <1>3, Zenon DEF FramingTypes, Open
<1>5. ~done BY <1>1 DEF FramingInv
<1>6. ASSUME where \in Open PROVE \E m, q : Flow(m, q)'
  <2>1. PICK m, p : Flow(m, p) BY <1>6 DEF FramingInv
  <2>2. m \in 0..Len(body) /\ p \in Bytes /\ InHand = First(body, m)
        /\ Cat(Held, Cat(Fresh, Cat(p, unsent))) = WrittenAfter(body, m) /\ Arriving(p)
        /\ (where # "frames" /\ m < Len(body) => Len(Held) < Len(WriteFrame(body[m + 1])))
    BY <2>1 DEF Flow
  <2>3. Held' = Held /\ Fresh' = Fresh /\ InHand' = InHand BY <1>1 DEF Held, Fresh, InHand
  <2>4. Arriving(p)'
    <3>1. InChunks(left, Cat(raw, line), p, <<>>) BY <1>1, <1>5, <2>2 DEF Arriving, EndBytes
    <3>2. PICK y : y = <<LastChunk, <<>>>> OBVIOUS
    <3>3. y \in Chunkings(LastChunk) /\ y[1] = LastChunk /\ y[2] = <<>> BY <1>2, <3>2, ChunkingsMade DEF Chunking
    <3>4. InChunks(left, Cat(Cat(raw, line), y[1]), Cat(p, y[2]), LastChunk) BY <1>2, <3>1, <3>3, InChunksGrows
    <3>5. Cat(Cat(raw, line), LastChunk) = Cat(raw, line') BY <1>1, <1>2, BytesAssociate
    <3>6. Cat(p, <<>>) = p BY <2>2, BytesJoin
    <3>7. InChunks(left, Cat(raw, line'), p, LastChunk) BY <3>3, <3>4, <3>5, <3>6
    <3>8. EndBytes' = LastChunk BY <1>1 DEF EndBytes, LastChunk, Crlf
    <3>9. InChunks(left', Cat(raw', line'), p, EndBytes') BY <1>1, <3>7, <3>8
    <3> QED BY <1>1, <1>5, <3>9 DEF Arriving
  <2>5. Flow(m, p)' BY <1>1, <2>2, <2>3, <2>4 DEF Flow
  <2> QED BY <2>5
<1>7. FailedAtOne' = FailedAtOne /\ AtRest' = AtRest BY <1>1 DEF FailedAtOne, AtRest
<1> QED BY <1>1, <1>4, <1>5, <1>6, <1>7 DEF FramingInv

\* The head of one sequence put behind another.
LEMMA HeadMoves ==
  ASSUME NEW S, NEW h \in Seq(S), NEW r \in Seq(S), r # <<>>
  PROVE  /\ Cat(Append(h, Head(r)), Tail(r)) = Cat(h, r)
         /\ Append(h, Head(r)) \in Seq(S) /\ Tail(r) \in Seq(S)
<1> DEFINE e == Head(r)
           t == Tail(r)
           o == <<e>>
<1>1. e \in S /\ t \in Seq(S) BY HeadTailProperties
<1>2. Len(r) \in Nat /\ Len(r) # 0 BY LenProperties, EmptySeq
<1>3. o \in Seq(S) BY <1>1
<1>4. Cat(o, t) = r
  <2>1. 1 \in 1..Len(r) /\ Len(r) \in 1..Len(r) BY <1>2
  <2>2. SubSeq(r, 1, Len(r)) = <<r[1]>> \o SubSeq(r, 1 + 1, Len(r)) BY <2>1, SubSeqRecursiveFirst
  <2>3. SubSeq(r, 1, Len(r)) = r BY SubSeqFull
  <2>4. t = SubSeq(r, 2, Len(r)) BY TailIsSubSeq
  <2>5. e = r[1] OBVIOUS
  <2> QED BY <2>2, <2>3, <2>4, <2>5 DEF Cat
<1>5. Append(h, e) = Cat(h, o) BY <1>1, AppendIsConcat DEF Cat
<1> HIDE DEF e, t, o
<1>6. Cat(Cat(h, o), t) = Cat(h, Cat(o, t)) BY <1>1, <1>3, CatAssociates
<1>7. Cat(h, o) \in Seq(S) BY <1>3, CatTypes
<1> QED BY <1>1, <1>4, <1>5, <1>6, <1>7 DEF e, t, o

\* next_frame returns a frame that was ready.
LEMMA PopReadyStep == FramingInv /\ PopReady => FramingInv'
<1> SUFFICES ASSUME FramingInv, PopReady PROVE FramingInv' OBVIOUS
<1>0. FramingTypes BY DEF FramingInv
<1>1. /\ where = "idle" /\ ready # <<>> /\ handed' = Append(handed, Head(ready)) /\ ready' = Tail(ready)
      /\ UNCHANGED <<body, chunks, unsent, over, line, where, raw, left, done, decoded, buf, start, cut>>
  BY DEF PopReady
<1>2. Cat(handed', ready') = Cat(handed, ready) /\ handed' \in Seq(Bytes) /\ ready' \in Seq(Bytes)
  BY <1>0, <1>1, HeadMoves DEF FramingTypes
<1>3. FramingTypes' BY <1>0, <1>1, <1>2, Zenon DEF FramingTypes, Open
<1>4. PICK m, p : Flow(m, p) BY <1>1 DEF FramingInv, Open
<1>5. Held' = Held /\ Fresh' = Fresh /\ InHand' = InHand BY <1>1, <1>2 DEF Held, Fresh, InHand
<1>6. Arriving(p)' <=> Arriving(p) BY <1>1 DEF Arriving, EndBytes
<1>7. Flow(m, p)' BY <1>1, <1>4, <1>5, <1>6 DEF Flow
<1>8. AtRest' = AtRest BY <1>1 DEF AtRest
<1> QED BY <1>1, <1>3, <1>7, <1>8 DEF FramingInv

\* With every byte decoded and none held back, there is no frame left.
LEMMA AllTaken ==
  ASSUME FramingTypes, NEW m \in 0..Len(body), Held = WrittenAfter(body, m),
         m < Len(body) => Len(Held) < Len(WriteFrame(body[m + 1]))
  PROVE  m = Len(body)
<1>1. body \in Seq(Bytes) /\ Len(body) \in Nat BY LenProperties DEF FramingTypes
<1> SUFFICES ASSUME m < Len(body) PROVE FALSE BY <1>1
<1> DEFINE a == WriteFrame(body[m + 1])
           b == WrittenAfter(body, m + 1)
<1>2. m + 1 \in 1..Len(body) /\ m + 1 \in 0..Len(body) /\ m \in 0..(Len(body) - 1) BY <1>1
<1>3. body[m + 1] \in Bytes BY <1>1, <1>2, ElementOfSeq
<1>4. a \in Bytes /\ b \in Bytes BY <1>1, <1>2, <1>3, FrameBytes, WrittenIs
<1>5. Held = Cat(a, b) BY <1>1, <1>2, WrittenIs
<1>6. Len(Held) < Len(a) OBVIOUS
<1> HIDE DEF a, b
<1>7. Len(Held) = Len(a) + Len(b) /\ Len(a) \in Nat /\ Len(b) \in Nat BY <1>4, <1>5, BytesJoin
<1> QED BY <1>6, <1>7

\* The answer ends: its last chunk was read, so nothing of it is on the way.
LEMMA BodyEndedStep == FramingInv /\ BodyEnded => FramingInv'
<1> SUFFICES ASSUME FramingInv, BodyEnded PROVE FramingInv' OBVIOUS
<1>0. FramingTypes BY DEF FramingInv
<1>1. /\ where = "idle" /\ ready = <<>> /\ done /\ where' = "ended"
      /\ UNCHANGED <<body, chunks, unsent, over, line, raw, left, done, decoded, buf, start, cut, ready, handed>>
  BY DEF BodyEnded
<1>2. PICK m, p : Flow(m, p) BY <1>1 DEF FramingInv, Open
<1>3. m \in 0..Len(body) /\ p \in Bytes /\ InHand = First(body, m)
      /\ Cat(Held, Cat(Fresh, Cat(p, unsent))) = WrittenAfter(body, m) /\ Arriving(p)
      /\ (m < Len(body) => Len(Held) < Len(WriteFrame(body[m + 1])))
  BY <1>1, <1>2 DEF Flow
<1>4. over /\ chunks /\ unsent = <<>> BY <1>1 DEF FramingInv
<1>5. p = <<>> BY <1>1, <1>3, <1>4 DEF Arriving
<1>6. Fresh = <<>> BY <1>1 DEF Fresh
<1>7. Held \in Bytes BY <1>0, BytesCut DEF FramingTypes, Held
<1>8. Held = WrittenAfter(body, m)
  <2>1. Cat(<<>>, <<>>) = <<>> /\ Cat(Held, <<>>) = Held BY <1>7, NoBytes, BytesJoin
  <2> QED BY <1>3, <1>4, <1>5, <1>6, <2>1
<1>9. m = Len(body) BY <1>0, <1>3, <1>8, AllTaken
<1>10. Cat(handed, ready) = body
  <2>1. body \in Seq(Bytes) BY <1>0 DEF FramingTypes
  <2>2. First(body, Len(body)) = body BY <2>1, CutAtAnEnd
  <2> QED BY <1>1, <1>3, <1>9, <2>2 DEF InHand
<1>11. FramingTypes' BY <1>0, <1>1, Zenon DEF FramingTypes, Open
<1>12. where' \notin Open /\ where' # "failed" /\ where' \notin {"idle", "push", "frames"} /\ where' # "chunks" BY <1>1 DEF Open
<1> QED BY <1>1, <1>4, <1>10, <1>11, <1>12 DEF FramingInv

\* A read takes any part of what has arrived.
LEMMA ReadIntoStep == FramingInv /\ ReadInto => FramingInv'
<1> SUFFICES ASSUME FramingInv, ReadInto PROVE FramingInv' OBVIOUS
<1>0. FramingTypes BY DEF FramingInv
<1>1. PICK n \in 1..Len(line) :
        /\ line' = Drop(line, n)
        /\ IF chunks THEN raw' = raw \o First(line, n) /\ decoded' = <<>> /\ where' = "chunks"
                     ELSE raw' = raw /\ decoded' = First(line, n) /\ where' = "push"
  BY DEF ReadInto
<1>2. /\ where = "idle" /\ ready = <<>> /\ ~done
      /\ UNCHANGED <<body, chunks, unsent, over, left, done, buf, start, cut, ready, handed>>
  BY DEF ReadInto
<1>3. unsent \in Bytes /\ line \in Bytes /\ raw \in Bytes /\ Len(line) \in Nat BY <1>0 DEF FramingTypes, Bytes
<1>4. n \in 0..Len(line) BY <1>3
<1>5. PICK f : f = First(line, n) OBVIOUS
<1>6. f \in Bytes /\ line' \in Bytes /\ Cat(f, line') = line BY <1>1, <1>3, <1>4, <1>5, BytesCut
<1>7. chunks => raw' = Cat(raw, f) /\ decoded' = <<>> /\ where' = "chunks" BY <1>1, <1>5 DEF Cat
<1>8. ~chunks => raw' = raw /\ decoded' = f /\ where' = "push" BY <1>1, <1>5
<1>9. raw' \in Bytes /\ decoded' \in Bytes /\ where' \in {"chunks", "push"}
  <2>1. Cat(raw, f) \in Bytes BY <1>3, <1>6, BytesJoin
  <2> QED BY <1>3, <1>6, <1>7, <1>8, <2>1, NoBytes
<1>10. FramingTypes' BY <1>0, <1>2, <1>6, <1>9, Zenon DEF FramingTypes, Open
<1>11. PICK m, p : Flow(m, p) BY <1>2 DEF FramingInv, Open
<1>12. m \in 0..Len(body) /\ p \in Bytes /\ InHand = First(body, m)
       /\ Cat(Held, Cat(Fresh, Cat(p, unsent))) = WrittenAfter(body, m) /\ Arriving(p)
       /\ (m < Len(body) => Len(Held) < Len(WriteFrame(body[m + 1])))
  BY <1>2, <1>11 DEF Flow
<1>13. Held' = Held /\ Fresh = <<>> /\ Fresh' = decoded' /\ InHand' = InHand
  BY <1>2, <1>9 DEF Held, Fresh, InHand
<1>14. \E q : q \in Bytes /\ Cat(decoded', q) = p /\ Arriving(q)'
  <2>1. CASE chunks
    <3>1. InChunks(left, Cat(raw, line), p, EndBytes) BY <1>2, <1>12, <2>1 DEF Arriving
    <3>2. Cat(raw', line') = Cat(raw, line) BY <1>3, <1>6, <1>7, <2>1, BytesAssociate
    <3>3. EndBytes' = EndBytes BY <1>2 DEF EndBytes, LastChunk, Crlf
    <3>4. InChunks(left', Cat(raw', line'), p, EndBytes') BY <1>2, <3>1, <3>2, <3>3
    <3>5. chunks' /\ ~done' BY <1>2, <2>1
    <3>6. Arriving(p)' BY <3>4, <3>5 DEF Arriving
    <3>7. Cat(decoded', p) = p BY <1>7, <1>12, <2>1, NoBytes, BytesJoin
    <3> QED BY <1>12, <3>6, <3>7
  <2>2. CASE ~chunks
    <3>1. p = line BY <1>12, <2>2 DEF Arriving
    <3>2. PICK q : q = line' OBVIOUS
    <3>3. Arriving(q)' BY <1>2, <2>2, <3>2 DEF Arriving
    <3> QED BY <1>6, <1>8, <2>2, <3>1, <3>2, <3>3
  <2> QED BY <2>1, <2>2
<1>15. PICK q : q \in Bytes /\ Cat(decoded', q) = p /\ Arriving(q)' BY <1>14
<1>16. Cat(Held', Cat(Fresh', Cat(q, unsent'))) = WrittenAfter(body', m)
  <2>1. Cat(decoded', Cat(q, unsent)) = Cat(p, unsent) BY <1>3, <1>9, <1>15, BytesAssociate
  <2>2. Cat(p, unsent) \in Bytes BY <1>3, <1>12, BytesJoin
  <2>3. Cat(<<>>, Cat(p, unsent)) = Cat(p, unsent) BY <2>2, NoBytes, BytesJoin
  <2> QED BY <1>2, <1>12, <1>13, <2>1, <2>3
<1>17. Flow(m, q)' BY <1>2, <1>12, <1>13, <1>15, <1>16 DEF Flow
<1>18. chunks' /\ where' \in {"idle", "push", "frames"} => AtRest' BY <1>2, <1>7
<1>19. where' \in Open /\ where' # "failed" /\ where' # "ended" BY <1>9 DEF Open
<1>20. where' = "chunks" => chunks' /\ ~done' BY <1>2, <1>8
<1> QED BY <1>2, <1>10, <1>17, <1>18, <1>19, <1>20 DEF FramingInv

\* Chunked::push takes what is there of a chunk.
LEMMA TakeChunkStep == FramingInv /\ TakeChunk => FramingInv'
<1> SUFFICES ASSUME FramingInv, TakeChunk PROVE FramingInv' OBVIOUS
<1>0. FramingTypes BY DEF FramingInv
<1>1. PICK k : k = IF left < Len(raw) THEN left ELSE Len(raw) OBVIOUS
<1>2. /\ where = "chunks" /\ left > 0
      /\ decoded' = Cat(decoded, First(raw, k)) /\ raw' = Drop(raw, k) /\ left' = left - k
      /\ where' = (IF left' > 0 THEN "push" ELSE "chunks")
      /\ UNCHANGED <<body, chunks, unsent, over, line, done, buf, start, cut, ready, handed>>
  BY <1>1 DEF TakeChunk, Cat
<1>3. /\ unsent \in Bytes /\ line \in Bytes /\ raw \in Bytes /\ decoded \in Bytes /\ left \in Nat /\ Len(raw) \in Nat
  BY <1>0 DEF FramingTypes, Bytes
<1>4. k \in 0..Len(raw) /\ k <= left /\ k \in Nat /\ (k < left => k = Len(raw)) BY <1>1, <1>3
<1>5. PICK f : f = First(raw, k) OBVIOUS
<1>6. f \in Bytes /\ raw' \in Bytes /\ Cat(f, raw') = raw /\ Len(f) = k /\ Len(raw') = Len(raw) - k
  BY <1>2, <1>3, <1>4, <1>5, BytesCut
<1>7. decoded' = Cat(decoded, f) BY <1>2, <1>5
<1>8. decoded' \in Bytes BY <1>3, <1>6, <1>7, BytesJoin
<1>9. left' \in Nat /\ where' \in {"push", "chunks"} BY <1>2, <1>3, <1>4
<1>10. FramingTypes' BY <1>0, <1>2, <1>6, <1>8, <1>9, Zenon DEF FramingTypes, Open
<1>11. chunks /\ ~done BY <1>2 DEF FramingInv
<1>12. PICK m, p : Flow(m, p) BY <1>2 DEF FramingInv, Open
<1>13. m \in 0..Len(body) /\ p \in Bytes /\ InHand = First(body, m)
       /\ Cat(Held, Cat(Fresh, Cat(p, unsent))) = WrittenAfter(body, m) /\ Arriving(p)
       /\ (m < Len(body) => Len(Held) < Len(WriteFrame(body[m + 1])))
  BY <1>2, <1>12 DEF Flow
<1>14. Held' = Held /\ Fresh = decoded /\ Fresh' = decoded' /\ InHand' = InHand
  BY <1>2, <1>9 DEF Held, Fresh, InHand
<1>15. InChunks(left, Cat(raw, line), p, EndBytes) BY <1>11, <1>13 DEF Arriving
<1>16. PICK d \in Bytes, x \in Chunkings(EndBytes) :
         /\ Len(d) = left /\ p = Cat(d, x[2]) /\ Cat(raw, line) = Cat(d, Cat(Crlf, x[1]))
  BY <1>2, <1>3, <1>15 DEF InChunks
<1>17. EndBytes \in Bytes BY NoBytes, LastChunkBytes DEF EndBytes
<1>18. x[1] \in Bytes /\ x[2] \in Bytes /\ Crlf \in Bytes /\ Cat(Crlf, x[1]) \in Bytes
  <2>1. x[1] \in Bytes /\ x[2] \in Bytes /\ Crlf \in Bytes BY <1>17, ChunkingsMade, LineEnd DEF ChunkPairs
  <2> QED BY <2>1, BytesJoin
<1>19. PICK g : g = Drop(d, k) OBVIOUS
<1>20. k \in 0..Len(d) BY <1>4, <1>16
<1>21. g \in Bytes /\ Len(g) = left' /\ Cat(First(d, k), g) = d /\ First(d, k) \in Bytes /\ Len(First(d, k)) = k
  BY <1>2, <1>16, <1>19, <1>20, BytesCut
<1>22. f = First(d, k) /\ Cat(raw', line) = Cat(g, Cat(Crlf, x[1]))
  <2>1. Cat(f, Cat(raw', line)) = Cat(d, Cat(Crlf, x[1])) BY <1>3, <1>6, <1>16, BytesAssociate
  <2>2. Cat(raw', line) \in Bytes BY <1>3, <1>6, BytesJoin
  <2>3. Len(f) <= Len(d) BY <1>4, <1>6, <1>16
  <2>4. f = First(d, Len(f)) /\ Cat(raw', line) = Cat(Drop(d, Len(f)), Cat(Crlf, x[1]))
    BY <1>6, <1>18, <2>1, <2>2, <2>3, BytesElsewhere
  <2> QED BY <1>6, <1>19, <2>4
<1>23. PICK q : q = Cat(g, x[2]) OBVIOUS
<1>24. q \in Bytes /\ Cat(f, q) = p
  <2>1. q \in Bytes BY <1>18, <1>21, <1>23, BytesJoin
  <2>2. Cat(Cat(f, g), x[2]) = Cat(f, Cat(g, x[2])) BY <1>6, <1>18, <1>21, BytesAssociate
  <2> QED BY <1>16, <1>21, <1>22, <1>23, <2>1, <2>2
<1>25. Arriving(q)'
  <2>1. EndBytes' = EndBytes BY <1>2 DEF EndBytes, LastChunk, Crlf
  <2>2. InChunks(left', Cat(raw', line), q, EndBytes) BY <1>21, <1>22, <1>23 DEF InChunks
  <2>3. InChunks(left', Cat(raw', line'), q, EndBytes') BY <1>2, <2>1, <2>2
  <2>4. chunks' /\ ~done' BY <1>2, <1>11
  <2> QED BY <2>3, <2>4 DEF Arriving
<1>26. Cat(Held', Cat(Fresh', Cat(q, unsent'))) = WrittenAfter(body', m)
  <2>1. Cat(q, unsent) \in Bytes BY <1>3, <1>24, BytesJoin
  <2>2. Cat(Cat(decoded, f), Cat(q, unsent)) = Cat(decoded, Cat(f, Cat(q, unsent))) BY <1>3, <1>6, <2>1, BytesAssociate
  <2>3. Cat(f, Cat(q, unsent)) = Cat(p, unsent) BY <1>3, <1>6, <1>24, BytesAssociate
  <2> QED BY <1>2, <1>7, <1>13, <1>14, <2>2, <2>3
<1>27. Flow(m, q)' BY <1>2, <1>13, <1>14, <1>24, <1>25, <1>26 DEF Flow
<1>28. chunks' /\ where' \in {"idle", "push", "frames"} => AtRest'
  <2> SUFFICES ASSUME where' = "push" PROVE AtRest' BY <1>9
  <2>1. left' > 0 BY <1>2
  <2>2. k = Len(raw) BY <1>2, <1>3, <1>4, <2>1
  <2>3. raw' = <<>> BY <1>3, <1>6, <2>2 DEF Bytes
  <2> QED BY <2>1, <2>3 DEF AtRest
<1>29. where' \in Open /\ where' # "failed" /\ where' # "ended" BY <1>9 DEF Open
<1>30. where' = "chunks" => chunks' /\ ~done' BY <1>2, <1>11
<1> QED BY <1>2, <1>10, <1>27, <1>28, <1>29, <1>30 DEF FramingInv

\* Bytes that begin with a line end.
LEMMA CrlfFirst ==
  ASSUME NEW s \in Bytes
  PROVE  /\ StartsWithCrlf(s) <=> Len(s) >= 2 /\ s[1] = CR /\ s[2] = LF
         /\ StartsWithCrlf(s) => Cat(Crlf, Drop(s, 2)) = s
<1>0. Len(s) \in Nat BY DEF Bytes
<1>1. ASSUME Len(s) >= 2 PROVE First(s, 2) = Crlf <=> s[1] = CR /\ s[2] = LF
  <2>1. 0 \in 0..(Len(s) - 2) BY <1>0, <1>1
  <2>2. SubSeq(s, 0 + 1, 0 + 2) = Crlf <=> s[0 + 1] = CR /\ s[0 + 2] = LF BY <2>1, TwoBytes
  <2> QED BY <2>2 DEF First
<1>2. ASSUME StartsWithCrlf(s) PROVE Cat(Crlf, Drop(s, 2)) = s
  <2>1. 2 \in 0..Len(s) /\ First(s, 2) = Crlf BY <1>0, <1>2 DEF StartsWithCrlf
  <2>2. Cat(First(s, 2), Drop(s, 2)) = s BY <2>1, BytesCut
  <2> QED BY <2>1, <2>2
<1> QED BY <1>1, <1>2 DEF StartsWithCrlf

\* How the bytes on their way end.
LEMMA EndBytesTypes == EndBytes \in Bytes
BY NoBytes, LastChunkBytes DEF EndBytes

\* What a chunk is, byte by byte, before whatever follows.
LEMMA ChunkAt ==
  ASSUME NEW d \in Payloads, NEW y \in Bytes, NEW c, c = Cat(ChunkOf(d), y)
  PROVE  /\ c = Cat(SizeBytes(Len(d)), Cat(d, Cat(Crlf, y))) /\ Cat(d, Cat(Crlf, y)) \in Bytes
         /\ c[1] = Radix + Len(d) /\ c[2] = CR /\ c[3] = LF
<1> DEFINE a == SizeBytes(Len(d))
           z == Cat(d, Cat(Crlf, y))
<1>1. a \in Bytes /\ d \in Bytes /\ Crlf \in Bytes /\ Cat(d, Crlf) \in Bytes /\ Len(d) \in 0..(Radix - 1)
  BY ChunkBytes, LineEnd
<1>2. Len(a) = 3 /\ a[1] = Radix + Len(d) /\ a[2] = CR /\ a[3] = LF BY <1>1, SizeLineBytes
<1>3. Cat(Crlf, y) \in Bytes BY <1>1, BytesJoin
<1>4. z \in Bytes BY <1>1, <1>3, BytesJoin
<1>5. Cat(Cat(a, Cat(d, Crlf)), y) = Cat(a, Cat(Cat(d, Crlf), y)) BY <1>1, BytesAssociate
<1>6. Cat(Cat(d, Crlf), y) = z BY <1>1, BytesAssociate
<1>7. c = Cat(a, z) BY <1>5, <1>6 DEF ChunkOf
<1> HIDE DEF a, z
<1>8. \A i \in 1..Len(a) : Cat(a, z)[i] = a[i] BY <1>1, <1>4, BytesAt
<1>9. c[1] = a[1] /\ c[2] = a[2] /\ c[3] = a[3] BY <1>2, <1>7, <1>8
<1> QED BY <1>2, <1>4, <1>7, <1>9 DEF a, z

\* Between chunks: a line end that is still to come, or a chunk.
LEMMA NoneLeft ==
  ASSUME NEW b \in Bytes, NEW c, NEW p, InChunks(0, c, p, b)
  PROVE  \E x \in Chunkings(b) : /\ p = x[2] /\ (c = Cat(Crlf, x[1]) \/ c = x[1])
                                 /\ x[1] \in Bytes /\ x[2] \in Bytes
<1>1. PICK d \in Bytes, x \in Chunkings(b) :
        /\ Len(d) = 0 /\ p = Cat(d, x[2]) /\ (c = Cat(d, Cat(Crlf, x[1])) \/ c = x[1])
  BY DEF InChunks
<1>2. d = <<>> BY <1>1 DEF Bytes
<1>3. x[1] \in Bytes /\ x[2] \in Bytes BY ChunkingsMade DEF ChunkPairs
<1>4. Cat(Crlf, x[1]) \in Bytes BY <1>3, LineEnd, BytesJoin
<1>5. Cat(<<>>, x[2]) = x[2] /\ Cat(<<>>, Cat(Crlf, x[1])) = Cat(Crlf, x[1]) BY <1>3, <1>4, BytesJoin
<1> QED BY <1>1, <1>2, <1>3, <1>5

\* The byte a chunk begins with is not that of a line end.
LEMMA ChunksBeginWithASize ==
  ASSUME NEW x \in Chunkings(EndBytes), x[1] # <<>>
  PROVE  x[1][1] # CR
<1>1. x = <<EndBytes, <<>>>> \/ \E d \in Payloads, y \in Chunkings(EndBytes) : x = OneMore(d, y)
  BY EndBytesTypes, ChunkingsOnly
<1>2. CASE x = <<EndBytes, <<>>>>
  <2>1. x[1] = LastChunk BY <1>2 DEF EndBytes
  <2> QED BY <2>1, LastChunkBytes, LineEnd, RadixIs
<1>3. ASSUME NEW d \in Payloads, NEW y \in Chunkings(EndBytes), x = OneMore(d, y) PROVE x[1][1] # CR
  <2>1. y \in ChunkPairs BY EndBytesTypes, ChunkingsMade
  <2>2. y[1] \in Bytes /\ x[1] = Cat(ChunkOf(d), y[1]) BY <1>3, <2>1, OneMoreTypes
  <2>3. x[1][1] = Radix + Len(d) BY <2>2, ChunkAt
  <2>4. Len(d) \in Nat BY ChunkBytes, RadixIs
  <2> QED BY <2>3, <2>4, LineEnd, RadixIs
<1> QED BY <1>1, <1>2, <1>3

\* Chunked::push skips the line end behind a chunk, and never a byte of one.
LEMMA SkipCrlfStep == FramingInv /\ SkipCrlf => FramingInv'
<1> SUFFICES ASSUME FramingInv, SkipCrlf PROVE FramingInv' OBVIOUS
<1>0. FramingTypes BY DEF FramingInv
<1>1. /\ where = "chunks" /\ left = 0 /\ StartsWithCrlf(raw) /\ raw' = Drop(raw, 2)
      /\ UNCHANGED <<body, chunks, unsent, over, line, where, left, done, decoded, buf, start, cut, ready, handed>>
  BY DEF SkipCrlf, AtLineEnd
<1>2. line \in Bytes /\ raw \in Bytes /\ Len(raw) \in Nat /\ Crlf \in Bytes BY <1>0, LineEnd DEF FramingTypes, Bytes
<1>3. 2 \in 0..Len(raw) /\ Len(raw) >= 2 /\ raw[1] = CR /\ Cat(Crlf, raw') = raw
  BY <1>1, <1>2, CrlfFirst
<1>4. raw' \in Bytes BY <1>1, <1>2, <1>3, BytesCut
<1>5. FramingTypes' BY <1>0, <1>1, <1>4, Zenon DEF FramingTypes, Open
<1>6. chunks /\ ~done BY <1>1 DEF FramingInv
<1>7. PICK m, p : Flow(m, p) BY <1>1 DEF FramingInv, Open
<1>8. InChunks(0, Cat(raw, line), p, EndBytes) BY <1>1, <1>6, <1>7 DEF Flow, Arriving
<1>9. PICK x \in Chunkings(EndBytes) : /\ p = x[2] /\ (Cat(raw, line) = Cat(Crlf, x[1]) \/ Cat(raw, line) = x[1])
                                       /\ x[1] \in Bytes /\ x[2] \in Bytes
  BY <1>8, EndBytesTypes, NoneLeft
<1>10. Cat(raw, line) # x[1]
  <2> SUFFICES ASSUME Cat(raw, line) = x[1] PROVE FALSE OBVIOUS
  <2>1. 1 \in 1..Len(raw) BY <1>2, <1>3
  <2>2. Cat(raw, line)[1] = raw[1] BY <1>2, <2>1, BytesAt
  <2>3. Len(Cat(raw, line)) = Len(raw) + Len(line) /\ Len(line) \in Nat BY <1>2, BytesJoin
  <2>4. x[1] # <<>> BY <1>2, <1>3, <2>3, NoBytes
  <2> QED BY <1>3, <2>2, <2>4, ChunksBeginWithASize
<1>11. Cat(raw', line) = x[1]
  <2>1. Cat(Crlf, Cat(raw', line)) = Cat(Crlf, x[1]) BY <1>2, <1>3, <1>4, <1>9, <1>10, BytesAssociate
  <2>2. Cat(raw', line) \in Bytes BY <1>2, <1>4, BytesJoin
  <2>3. Len(Crlf) <= Len(Crlf) BY LineEnd
  <2>4. Cat(raw', line) = Cat(Drop(Crlf, Len(Crlf)), x[1]) BY <1>2, <1>9, <2>1, <2>2, <2>3, BytesElsewhere
  <2>5. Drop(Crlf, Len(Crlf)) = <<>> BY <1>2, CutAtAnEnd DEF Bytes
  <2>6. Cat(<<>>, x[1]) = x[1] BY <1>9, BytesJoin
  <2> QED BY <2>4, <2>5, <2>6
<1>12. Arriving(p)'
  <2>1. EndBytes' = EndBytes BY <1>1 DEF EndBytes, LastChunk, Crlf
  <2>2. InChunks(0, x[1], p, EndBytes)
    <3>1. Cat(<<>>, x[2]) = x[2] BY <1>9, BytesJoin
    <3> QED BY <1>9, <3>1, NoBytes DEF InChunks
  <2>3. InChunks(left', Cat(raw', line'), p, EndBytes') BY <1>1, <1>11, <2>1, <2>2
  <2>4. chunks' /\ ~done' BY <1>1, <1>6
  <2> QED BY <2>3, <2>4 DEF Arriving
<1>13. Held' = Held /\ Fresh' = Fresh /\ InHand' = InHand BY <1>1 DEF Held, Fresh, InHand
<1>14. Flow(m, p)' BY <1>1, <1>7, <1>12, <1>13 DEF Flow
<1>15. where' = "chunks" BY <1>1
<1> QED BY <1>1, <1>5, <1>6, <1>14, <1>15 DEF FramingInv, Open

\* A turn that finds no whole size line waits for more.
LEMMA SizeLineWaits ==
  ASSUME FramingInv, SizeLine, FindCrlf(raw) = -1, Len(raw) <= 3
  PROVE  FramingInv'
<1>0. FramingTypes BY DEF FramingInv
<1>1. Len(raw) \in Nat /\ MaxSizeLine \in Nat /\ MaxSizeLine >= 3 BY <1>0, FramingAssumption, LimitsFit DEF FramingTypes, Bytes
<1>2. ~(Len(raw) > MaxSizeLine) BY <1>1
<1>3. /\ where = "chunks" /\ left = 0 /\ ~StartsWithCrlf(raw) /\ where' = "push"
      /\ UNCHANGED <<body, chunks, unsent, over, line, raw, left, done, decoded, buf, start, cut, ready, handed>>
  BY <1>2 DEF SizeLine, AtLineEnd
<1>4. FramingTypes' BY <1>0, <1>3, Zenon DEF FramingTypes, Open
<1>5. PICK m, p : Flow(m, p) BY <1>3 DEF FramingInv, Open
<1>6. Held' = Held /\ Fresh' = Fresh /\ InHand' = InHand BY <1>3 DEF Held, Fresh, InHand
<1>7. Arriving(p)' <=> Arriving(p) BY <1>3 DEF Arriving, EndBytes, LastChunk, Crlf
<1>8. Flow(m, p)' BY <1>3, <1>5, <1>6, <1>7 DEF Flow
<1>9. AtRest'
  <2>1. raw' = raw /\ left' = 0 BY <1>3
  <2>2. ~StartsWithCrlf(raw') BY <1>3, <2>1
  <2>3. FindCrlf(raw') = -1 BY <2>1
  <2> QED BY <2>1, <2>2, <2>3 DEF AtRest
<1> QED BY <1>3, <1>4, <1>8, <1>9 DEF FramingInv, Open

\* What a size line says of the bytes r behind it.
Announced(size, r, p) == IF size = 0 THEN p = <<>> /\ over ELSE InChunks(size, Cat(r, line), p, EndBytes)

\* A turn that reads a size line.
LEMMA SizeLineReads ==
  ASSUME FramingInv, SizeLine, NEW at \in Nat, FindCrlf(raw) = at, NEW size \in 0..(Radix - 1),
         SizeOf(First(raw, at)) = size, at + 2 \in 0..Len(raw),
         NEW m, NEW p, Flow(m, p), Announced(size, Drop(raw, at + 2), p)
  PROVE  FramingInv'
<1>0. FramingTypes BY DEF FramingInv
<1>1. size \in Nat /\ ~(size > MaxChunk) /\ size # -1 /\ at # -1 BY RadixIs, LimitsFit, FramingAssumption
<1>2. /\ where = "chunks" /\ left = 0 /\ raw' = Drop(raw, at + 2) /\ left' = size /\ done' = (size = 0)
      /\ where' = (IF size = 0 THEN "push" ELSE "chunks")
      /\ UNCHANGED <<body, chunks, unsent, over, line, decoded, buf, start, cut, ready, handed>>
  BY <1>1 DEF SizeLine
<1>3. raw \in Bytes /\ line \in Bytes BY <1>0 DEF FramingTypes
<1>4. raw' \in Bytes BY <1>2, <1>3, BytesCut
<1>5. done' \in BOOLEAN /\ where' \in {"push", "chunks"} BY <1>2
<1>6. FramingTypes' BY <1>0, <1>1, <1>2, <1>4, <1>5, Zenon DEF FramingTypes, Open
<1>7. Flow(m, p) OBVIOUS
<1>8. Held' = Held /\ Fresh' = Fresh /\ InHand' = InHand BY <1>2, <1>5 DEF Held, Fresh, InHand
<1>9. chunks /\ ~done BY <1>2 DEF FramingInv
<1>10. Arriving(p)'
  <2>1. CASE size = 0
    <3>1. p = <<>> BY <2>1 DEF Announced
    <3>2. done' /\ chunks' BY <1>2, <1>9, <2>1
    <3> QED BY <3>1, <3>2 DEF Arriving
  <2>2. CASE size # 0
    <3>1. InChunks(size, Cat(raw', line), p, EndBytes) BY <1>2, <2>2 DEF Announced
    <3>2. EndBytes' = EndBytes BY <1>2 DEF EndBytes, LastChunk, Crlf
    <3>3. InChunks(left', Cat(raw', line'), p, EndBytes') BY <1>2, <3>1, <3>2
    <3>4. ~done' /\ chunks' BY <1>2, <1>9, <2>2
    <3> QED BY <3>3, <3>4 DEF Arriving
  <2> QED BY <2>1, <2>2
<1>11. Flow(m, p)' BY <1>2, <1>7, <1>8, <1>10 DEF Flow
<1>12. done' => over' BY <1>2 DEF Announced
<1>13. where' = "chunks" => chunks' /\ ~done' BY <1>2, <1>9
<1>14. where' \in {"idle", "push", "frames"} => AtRest' BY <1>2 DEF AtRest
<1>15. where' \in Open /\ where' # "failed" /\ where' # "ended" BY <1>5 DEF Open
<1>16. over' => chunks' /\ unsent' = <<>> BY <1>2 DEF FramingInv
<1> QED BY <1>6, <1>11, <1>12, <1>13, <1>14, <1>15, <1>16 DEF FramingInv

\* Between chunks nothing but the bytes of the next one can be there.
LEMMA SizeLineStep == FramingInv /\ SizeLine => FramingInv'
<1> SUFFICES ASSUME FramingInv, SizeLine PROVE FramingInv' OBVIOUS
<1>0. FramingTypes BY DEF FramingInv
<1>1. where = "chunks" /\ left = 0 /\ ~StartsWithCrlf(raw) BY DEF SizeLine, AtLineEnd
<1>2. line \in Bytes /\ raw \in Bytes /\ Len(raw) \in Nat /\ Crlf \in Bytes BY <1>0, LineEnd DEF FramingTypes, Bytes
<1>3. chunks /\ ~done BY <1>1 DEF FramingInv
<1>4. PICK m, p : Flow(m, p) BY <1>1 DEF FramingInv, Open
<1>5. InChunks(0, Cat(raw, line), p, EndBytes) BY <1>1, <1>3, <1>4 DEF Flow, Arriving
<1>6. PICK x \in Chunkings(EndBytes) : /\ p = x[2] /\ (Cat(raw, line) = Cat(Crlf, x[1]) \/ Cat(raw, line) = x[1])
                                       /\ x[1] \in Bytes /\ x[2] \in Bytes
  BY <1>5, EndBytesTypes, NoneLeft
<1>7. PICK c : c = Cat(raw, line) OBVIOUS
<1>8. c \in Bytes /\ Len(c) = Len(raw) + Len(line) /\ Len(line) \in Nat BY <1>2, <1>7, BytesJoin
<1>9. \A i \in 1..Len(raw) : c[i] = raw[i] BY <1>2, <1>7, BytesAt
<1>10. CASE Len(raw) <= 1
  <2>1. \A i \in 1..(Len(raw) - 1) : raw[i] # CR BY <1>2, <1>10
  <2>2. FindCrlf(raw) = -1 BY <1>2, <2>1, FindNone
  <2>3. Len(raw) <= 3 BY <1>2, <1>10
  <2> QED BY <2>2, <2>3, SizeLineWaits
<1>11. ASSUME Len(raw) >= 2 PROVE c = x[1]
  <2> SUFFICES ASSUME c = Cat(Crlf, x[1]) PROVE FALSE BY <1>6, <1>7
  <2>1. /\ \A i \in 1..Len(Crlf) : Cat(Crlf, x[1])[i] = Crlf[i] BY <1>2, <1>6, BytesAt
  <2>2. 1 \in 1..Len(Crlf) /\ 2 \in 1..Len(Crlf) /\ Crlf[1] = CR /\ Crlf[2] = LF BY LineEnd
  <2>3. c[1] = CR /\ c[2] = LF BY <2>1, <2>2
  <2>4. 1 \in 1..Len(raw) /\ 2 \in 1..Len(raw) BY <1>2, <1>11
  <2>5. raw[1] = CR /\ raw[2] = LF BY <1>9, <2>3, <2>4
  <2> QED BY <1>1, <1>2, <1>11, <2>5, CrlfFirst
<1>12. CASE Len(raw) >= 2 /\ x = <<EndBytes, <<>>>>
  <2>1. c = EndBytes /\ p = <<>> BY <1>6, <1>11, <1>12
  <2>2. over
    <3> SUFFICES ASSUME ~over PROVE FALSE OBVIOUS
    <3>1. Len(c) = 0 BY <2>1, NoBytes DEF EndBytes
    <3> QED BY <1>2, <1>8, <1>12, <3>1
  <2>3. c = LastChunk BY <2>1, <2>2 DEF EndBytes
  <2>4. c[1] = Radix /\ c[2] = Radix /\ c[3] = CR /\ c[4] = LF BY <2>3, LastChunkBytes
  <2>5. 1 \in 1..Len(raw) /\ 2 \in 1..Len(raw) BY <1>2, <1>12
  <2>6. raw[1] = Radix /\ raw[2] = Radix /\ Radix # CR BY <1>9, <2>4, <2>5, LineEnd, RadixIs
  <2>7. CASE Len(raw) <= 3
    <3>1. \A i \in 1..(Len(raw) - 1) : raw[i] # CR
      <4>1. \A i \in 1..(Len(raw) - 1) : i = 1 \/ i = 2 BY <1>2, <2>7
      <4> QED BY <2>6, <4>1
    <3>2. FindCrlf(raw) = -1 BY <1>2, <3>1, FindNone
    <3> QED BY <2>7, <3>2, SizeLineWaits
  <2>8. CASE Len(raw) >= 4
    <3>1. 3 \in 1..Len(raw) /\ 4 \in 1..Len(raw) /\ 2 \in 0..(Len(raw) - 2) /\ 2 + 2 \in 0..Len(raw) /\ 2 \in 0..Len(raw)
      BY <1>2, <2>8
    <3>2. raw[2 + 1] = CR /\ raw[2 + 2] = LF BY <1>9, <2>4, <3>1
    <3>3. \A i \in 1..2 : raw[i] # CR
      <4>1. \A i \in 1..2 : i = 1 \/ i = 2 OBVIOUS
      <4> QED BY <2>6, <4>1
    <3>4. FindCrlf(raw) = 2 BY <1>2, <3>1, <3>2, <3>3, FindFirst
    <3>5. PICK t : t = First(raw, 2) OBVIOUS
    <3>6. t \in Bytes /\ Len(t) = 2 /\ t[1] = Radix /\ t[2] = Radix
      <4>1. raw \in Seq(Byte) BY <1>2 DEF Bytes
      <4>2. Len(t) = 2 /\ (\A i \in 1..2 : t[i] = raw[i]) /\ t \in Seq(Byte) BY <3>1, <3>5, <4>1, CutAt
      <4>3. t[1] = raw[1] /\ t[2] = raw[2] BY <4>2
      <4> QED BY <2>6, <4>2, <4>3 DEF Bytes
    <3>7. SizeOf(First(raw, 2)) = 0 BY <3>5, <3>6, SizeOfChunk
    <3>8. PICK at \in Nat, size \in 0..(Radix - 1) : at = 2 /\ size = 0 BY RadixIs
    <3>9. FindCrlf(raw) = at /\ SizeOf(First(raw, at)) = size /\ at + 2 \in 0..Len(raw) BY <3>1, <3>4, <3>7, <3>8
    <3>10. Announced(size, Drop(raw, at + 2), p) BY <2>1, <2>2, <3>8 DEF Announced
    <3> QED BY <1>4, <3>9, <3>10, SizeLineReads
  <2>9. Len(raw) <= 3 \/ Len(raw) >= 4 BY <1>2
  <2> QED BY <2>7, <2>8, <2>9
<1>13. CASE Len(raw) >= 2 /\ x # <<EndBytes, <<>>>>
  <2>1. PICK d \in Payloads, y \in Chunkings(EndBytes) : x = OneMore(d, y) BY <1>13, EndBytesTypes, ChunkingsOnly
  <2>2. y \in ChunkPairs BY EndBytesTypes, ChunkingsMade
  <2>3. y[1] \in Bytes /\ y[2] \in Bytes /\ x[1] = Cat(ChunkOf(d), y[1]) /\ x[2] = Cat(d, y[2]) BY <2>1, <2>2, OneMoreTypes
  <2>4. c = Cat(ChunkOf(d), y[1]) BY <1>11, <1>13, <2>3
  <2>5. /\ c = Cat(SizeBytes(Len(d)), Cat(d, Cat(Crlf, y[1]))) /\ Cat(d, Cat(Crlf, y[1])) \in Bytes
        /\ c[1] = Radix + Len(d) /\ c[2] = CR /\ c[3] = LF
    BY <2>3, <2>4, ChunkAt
  <2>6. d \in Bytes /\ Len(d) \in 1..(Radix - 1) /\ Len(d) \in 0..(Radix - 1) /\ SizeBytes(Len(d)) \in Bytes BY ChunkBytes
  <2>7. 1 \in 1..Len(raw) /\ 2 \in 1..Len(raw) BY <1>2, <1>13
  <2>8. raw[1] = Radix + Len(d) /\ raw[2] = CR BY <1>9, <2>5, <2>7
  <2>9. raw[1] # CR BY <2>6, <2>8, LineEnd, RadixIs
  <2>10. CASE Len(raw) = 2
    <3>1. \A i \in 1..(Len(raw) - 1) : raw[i] # CR BY <2>9, <2>10
    <3>2. FindCrlf(raw) = -1 BY <1>2, <3>1, FindNone
    <3>3. Len(raw) <= 3 BY <2>10
    <3> QED BY <3>2, <3>3, SizeLineWaits
  <2>11. CASE Len(raw) >= 3
    <3>1. 3 \in 1..Len(raw) /\ 1 \in 0..(Len(raw) - 2) /\ 1 + 2 \in 0..Len(raw) /\ 1 \in 0..Len(raw) /\ 3 \in 0..Len(raw)
      BY <1>2, <2>11
    <3>2. raw[1 + 1] = CR /\ raw[1 + 2] = LF BY <1>9, <2>5, <2>8, <3>1
    <3>3. \A i \in 1..1 : raw[i] # CR BY <2>9
    <3>4. FindCrlf(raw) = 1 BY <1>2, <3>1, <3>2, <3>3, FindFirst
    <3>5. PICK t : t = First(raw, 1) OBVIOUS
    <3>6. t \in Bytes /\ Len(t) = 1 /\ t[1] = Radix + Len(d)
      <4>1. raw \in Seq(Byte) BY <1>2 DEF Bytes
      <4>2. Len(t) = 1 /\ (\A i \in 1..1 : t[i] = raw[i]) /\ t \in Seq(Byte) BY <3>1, <3>5, <4>1, CutAt
      <4>3. t[1] = raw[1] BY <4>2
      <4> QED BY <2>8, <4>2, <4>3 DEF Bytes
    <3>7. SizeOf(First(raw, 1)) = Len(d)
      <4>1. Len(d) \in Nat BY <2>6
      <4> QED BY <3>5, <3>6, <4>1, SizeOfChunk
    <3>8. PICK r : r = Drop(raw, 1 + 2) OBVIOUS
    <3>9. Cat(r, line) = Cat(d, Cat(Crlf, y[1]))
      <4>1. PICK s : s = SizeBytes(Len(d)) OBVIOUS
      <4>2. PICK z : z = Cat(d, Cat(Crlf, y[1])) OBVIOUS
      <4>3. s \in Bytes /\ Len(s) = 3 /\ z \in Bytes BY <2>5, <2>6, <4>1, <4>2, SizeLineBytes
      <4>4. Cat(s, z) = Cat(raw, line) BY <1>7, <2>5, <4>1, <4>2
      <4>5. Len(s) <= Len(raw) BY <2>11, <4>3
      <4>5a. raw \in Bytes /\ line \in Bytes /\ s \in Bytes /\ z \in Bytes BY <1>2, <4>3
      <4>6. s = First(raw, Len(s)) /\ z = Cat(Drop(raw, Len(s)), line) BY <4>4, <4>5, <4>5a, BytesElsewhere
      <4> QED BY <3>8, <4>2, <4>3, <4>6
    <3>10. InChunks(Len(d), Cat(r, line), p, EndBytes) BY <1>6, <2>3, <2>6, <3>9 DEF InChunks
    <3>11. Len(d) # 0 /\ 1 \in Nat BY <2>6
    <3>12. PICK size \in 0..(Radix - 1) : size = Len(d) BY <2>6
    <3>13. SizeOf(First(raw, 1)) = size /\ size # 0
           /\ InChunks(size, Cat(Drop(raw, 1 + 2), line), p, EndBytes)
      BY <2>6, <3>7, <3>8, <3>10, <3>11, <3>12
    <3>14. PICK at \in Nat : at = 1 OBVIOUS
    <3>15. FindCrlf(raw) = at /\ SizeOf(First(raw, at)) = size /\ at + 2 \in 0..Len(raw) BY <3>1, <3>4, <3>13, <3>14
    <3>16. Announced(size, Drop(raw, at + 2), p) BY <3>13, <3>14 DEF Announced
    <3> QED BY <1>4, <3>15, <3>16, SizeLineReads
  <2>12. Len(raw) = 2 \/ Len(raw) >= 3
    <3>1. PICK k : k = Len(raw) OBVIOUS
    <3>2. k \in Nat /\ k >= 2 BY <1>2, <1>13, <3>1, Zenon
    <3>3. k = 2 \/ k >= 3 BY <3>2
    <3> QED BY <3>1, <3>3
  <2> QED BY <2>10, <2>11, <2>12
<1>14. Len(raw) <= 1 \/ Len(raw) >= 2 BY <1>2
<1> QED BY <1>10, <1>12, <1>13, <1>14

\* What FrameReader::push moves to the front is what it held.
LEMMA CompactedKeeps ==
  ASSUME FramingTypes
  PROVE  \E a \in Bytes : \E s \in 0..Len(a) : Compacted[1] = a /\ Compacted[2] = s /\ Drop(a, s) = Held
<1>1. buf \in Bytes /\ start \in 0..Len(buf) /\ Len(buf) \in Nat BY DEF FramingTypes, Bytes
<1>2. CASE start > 0 /\ 2 * start >= Len(buf)
  <2>1. PICK a : a = Drop(buf, start) OBVIOUS
  <2>2. a \in Bytes BY <1>1, <2>1, BytesCut
  <2>3. Drop(a, 0) = a BY <2>2, CutAtAnEnd DEF Bytes
  <2>4. 0 \in 0..Len(a) BY <2>2 DEF Bytes
  <2>5. Compacted[1] = a /\ Compacted[2] = 0 BY <1>2, <2>1 DEF Compacted
  <2>6. Drop(a, 0) = Held BY <2>1, <2>3 DEF Held
  <2> QED BY <2>2, <2>4, <2>5, <2>6
<1>3. CASE ~(start > 0 /\ 2 * start >= Len(buf))
  <2>1. Compacted[1] = buf /\ Compacted[2] = start BY <1>3 DEF Compacted
  <2> QED BY <1>1, <2>1 DEF Held
<1> QED BY <1>2, <1>3

\* FrameReader::push takes what was decoded.
LEMMA PushFramesStep == FramingInv /\ PushFrames => FramingInv'
<1> SUFFICES ASSUME FramingInv, PushFrames PROVE FramingInv' OBVIOUS
<1>0. FramingTypes BY DEF FramingInv
<1>1. /\ where = "push"
      /\ UNCHANGED <<body, chunks, unsent, over, line, raw, left, done, decoded, ready, handed>>
  BY DEF PushFrames
<1>2. /\ unsent \in Bytes /\ decoded \in Bytes /\ ready \in Seq(Bytes) /\ handed \in Seq(Bytes)
  BY <1>0 DEF FramingTypes
<1>3. PICK m, p : Flow(m, p) BY <1>1 DEF FramingInv, Open
<1>4. m \in 0..Len(body) /\ p \in Bytes /\ InHand = First(body, m)
      /\ Cat(Held, Cat(Fresh, Cat(p, unsent))) = WrittenAfter(body, m) /\ Arriving(p)
      /\ (m < Len(body) => Len(Held) < Len(WriteFrame(body[m + 1])))
  BY <1>1, <1>3 DEF Flow
<1>5. Fresh = decoded /\ InHand = Cat(handed, ready) BY <1>1 DEF Fresh, InHand
<1>6. Arriving(p)' <=> Arriving(p) BY <1>1 DEF Arriving, EndBytes, LastChunk, Crlf
<1>7. AtRest' = AtRest BY <1>1 DEF AtRest
<1>8. chunks => AtRest BY <1>1 DEF FramingInv
<1>9. CASE decoded = <<>>
  <2>1. where' = "idle" /\ UNCHANGED <<buf, start, cut>> BY <1>9 DEF PushFrames
  <2>2. FramingTypes' BY <1>0, <1>1, <2>1, Zenon DEF FramingTypes, Open
  <2>3. Held' = Held /\ Fresh' = decoded /\ InHand' = InHand BY <1>1, <1>9, <2>1 DEF Held, Fresh, InHand
  <2>4. Flow(m, p)' BY <1>1, <1>4, <1>5, <1>6, <2>1, <2>3 DEF Flow
  <2> QED BY <1>1, <1>7, <1>8, <2>1, <2>2, <2>4 DEF FramingInv, Open
<1>10. CASE decoded # <<>>
  <2>1. PICK a \in Bytes : \E s \in 0..Len(a) : Compacted[1] = a /\ Compacted[2] = s /\ Drop(a, s) = Held
    BY <1>0, CompactedKeeps
  <2>2. PICK s \in 0..Len(a) : Compacted[1] = a /\ Compacted[2] = s /\ Drop(a, s) = Held BY <2>1
  <2>3. buf' = Cat(a, decoded) /\ start' = s /\ cut' = <<>> /\ where' = "frames" BY <1>10, <2>2 DEF PushFrames, Cat
  <2>4. buf' \in Bytes /\ Len(buf') = Len(a) + Len(decoded) /\ Len(a) \in Nat /\ Len(decoded) \in Nat
    BY <1>2, <2>3, BytesJoin
  <2>5. start' \in 0..Len(buf') BY <2>3, <2>4
  <2>6. cut' \in Seq(Bytes) BY <2>3
  <2>7. where' \in Open BY <2>3 DEF Open
  <2>8. FramingTypes' BY <1>0, <1>1, <2>4, <2>5, <2>6, <2>7, Zenon DEF FramingTypes, Open
  <2>9. Held' = Cat(Held, decoded)
    <3>1. a \in Seq(Byte) /\ decoded \in Seq(Byte) BY <1>2 DEF Bytes
    <3>2. Drop(Cat(a, decoded), s) = Cat(Drop(a, s), decoded) BY <3>1, CutOfJoined
    <3> QED BY <2>2, <2>3, <3>2 DEF Held
  <2>10. Held \in Bytes BY <2>2, BytesCut
  <2>11. Fresh' = <<>> BY <2>3 DEF Fresh
  <2>12. InHand' = InHand
    <3>1. Cat(handed, ready) \in Seq(Bytes) BY <1>2, CatTypes
    <3>2. Cat(Cat(handed, ready), <<>>) = Cat(handed, ready) BY <3>1, CatEmpty
    <3>3. InHand' = Cat(Cat(handed, ready), <<>>) BY <1>1, <2>3 DEF InHand
    <3> QED BY <1>5, <3>2, <3>3
  <2>13. Cat(Held', Cat(Fresh', Cat(p, unsent'))) = WrittenAfter(body', m)
    <3>1. Cat(p, unsent) \in Bytes BY <1>2, <1>4, BytesJoin
    <3>2. Cat(<<>>, Cat(p, unsent)) = Cat(p, unsent) BY <3>1, BytesJoin
    <3>3. Cat(Cat(Held, decoded), Cat(p, unsent)) = Cat(Held, Cat(decoded, Cat(p, unsent)))
      BY <1>2, <2>10, <3>1, BytesAssociate
    <3> QED BY <1>1, <1>4, <1>5, <2>9, <2>11, <3>2, <3>3
  <2>14. Flow(m, p)' BY <1>1, <1>4, <1>6, <2>3, <2>12, <2>13 DEF Flow
  <2>15. where' # "failed" /\ where' # "ended" /\ where' # "chunks" BY <2>3
  <2> QED BY <1>1, <1>7, <1>8, <2>7, <2>8, <2>14, <2>15 DEF FramingInv
<1> QED BY <1>9, <1>10

---------------------------------------------------------------------------
\* The frames.

\* Dropping twice.
LEMMA DropAgain ==
  ASSUME NEW s \in Bytes, NEW n \in 0..Len(s), NEW k \in 0..(Len(s) - n)
  PROVE  n + k \in 0..Len(s) /\ Drop(s, n + k) = Drop(Drop(s, n), k)
<1> DEFINE u == Drop(s, n)
           a == Drop(u, k)
           b == Drop(s, n + k)
<1>0. Len(s) \in Nat /\ s \in Seq(Byte) BY DEF Bytes
<1>1. n + k \in 0..Len(s) BY <1>0
<1>2. u \in Seq(Byte) /\ Len(u) = Len(s) - n /\ \A i \in 1..(Len(s) - n) : u[i] = s[n + i] BY <1>0, CutAt
<1> HIDE DEF u
<1>3. k \in 0..Len(u) BY <1>2
<1>4. a \in Seq(Byte) /\ Len(a) = Len(u) - k /\ \A i \in 1..(Len(u) - k) : a[i] = u[k + i] BY <1>2, <1>3, CutAt
<1> DEFINE nk == n + k
<1>5. nk \in 0..Len(s) BY <1>1
<1> HIDE DEF nk
<1>6. Drop(s, nk) \in Seq(Byte) /\ Len(Drop(s, nk)) = Len(s) - nk /\ \A i \in 1..(Len(s) - nk) : Drop(s, nk)[i] = s[nk + i]
  BY <1>0, <1>5, CutAt
<1>7. nk = n + k /\ b = Drop(s, nk) BY DEF nk
<1> HIDE DEF a, b
<1>8. Len(a) = Len(s) - nk /\ Len(b) = Len(a) BY <1>0, <1>2, <1>4, <1>6, <1>7
<1>9. ASSUME NEW i \in 1..Len(a) PROVE a[i] = b[i]
  <2>1. i \in 1..(Len(u) - k) /\ i \in 1..(Len(s) - nk) BY <1>4, <1>8
  <2>2. k + i \in 1..(Len(s) - n) /\ n + (k + i) = nk + i BY <1>0, <1>2, <1>7, <2>1
  <2>3. a[i] = s[n + (k + i)] BY <1>2, <1>4, <2>1, <2>2
  <2>4. b[i] = s[nk + i] BY <1>6, <1>7, <2>1
  <2> QED BY <2>2, <2>3, <2>4
<1>10. a = b BY <1>4, <1>6, <1>7, <1>8, <1>9, SeqEqual
<1> QED BY <1>1, <1>10 DEF a, b, u

\* The middle of three parts.
LEMMA MiddleOf ==
  ASSUME NEW w \in Bytes, NEW m \in Bytes, NEW d \in Bytes, NEW s, s = Cat(w, Cat(m, d))
  PROVE  SubSeq(s, Len(w) + 1, Len(w) + Len(m)) = m
<1> DEFINE z == Cat(m, d)
           i1 == Len(w) + 1
           i2 == Len(w) + Len(m)
           t == SubSeq(s, i1, i2)
<1>0. Len(w) \in Nat /\ Len(m) \in Nat /\ Len(d) \in Nat BY DEF Bytes
<1>1. z \in Bytes /\ Len(z) = Len(m) + Len(d) BY BytesJoin
<1>2. \A i \in 1..Len(m) : z[i] = m[i] BY BytesAt
<1> HIDE DEF z
<1>3. s = Cat(w, z) BY DEF z
<1>4. \A i \in 1..Len(z) : s[Len(w) + i] = z[i] BY <1>1, <1>3, BytesAt
<1>5. ASSUME NEW i \in 1..Len(m) PROVE s[Len(w) + i] = m[i]
  <2>1. i \in 1..Len(z) BY <1>0, <1>1
  <2> QED BY <1>2, <1>4, <2>1
<1>6. \A j \in i1..i2 : s[j] \in Byte
  <2> SUFFICES ASSUME NEW j \in i1..i2 PROVE s[j] \in Byte OBVIOUS
  <2>1. PICK i \in 1..Len(m) : j = Len(w) + i
    <3>1. j - Len(w) \in 1..Len(m) /\ j = Len(w) + (j - Len(w)) BY <1>0
    <3> QED BY <3>1
  <2>2. m[i] \in Byte BY ElementOfSeq DEF Bytes
  <2> QED BY <1>5, <2>1, <2>2
<1>7. i1 \in Int /\ i2 \in Int /\ i2 - i1 + 1 = Len(m) /\ (i1 <= i2 \/ Len(m) = 0) /\ (Len(m) = 0 => ~(i1 <= i2))
      /\ \A i \in 1..Len(m) : i1 + i - 1 = Len(w) + i
  BY <1>0
<1> HIDE DEF i1, i2
<1>8. /\ t \in Seq(Byte) /\ Len(t) = (IF i1 <= i2 THEN i2 - i1 + 1 ELSE 0)
      /\ \A i \in 1..(i2 - i1 + 1) : t[i] = s[i1 + i - 1]
  BY <1>6, <1>7, SubSeqProperties
<1> HIDE DEF t
<1>9. Len(t) = Len(m) BY <1>7, <1>8
<1>10. ASSUME NEW i \in 1..Len(m) PROVE t[i] = m[i]
  <2>1. i \in 1..(i2 - i1 + 1) BY <1>7
  <2>2. t[i] = s[i1 + i - 1] /\ i1 + i - 1 = Len(w) + i BY <1>7, <1>8, <2>1
  <2> QED BY <1>5, <2>2
<1>11. t = m
  <2>1. m \in Seq(Byte) BY DEF Bytes
  <2> QED BY <1>8, <1>9, <1>10, <2>1, SeqEqual
<1> QED BY <1>11 DEF t, i1, i2

\* The frames taken before some of them begin the body as well.
LEMMA BeginsTheBody ==
  ASSUME NEW S, NEW s \in Seq(S), NEW n \in 0..Len(s), NEW a \in Seq(S), NEW b \in Seq(S), Cat(a, b) = First(s, n)
  PROVE  Len(a) \in 0..n /\ a = First(s, Len(a))
<1>0. Len(s) \in Nat /\ n \in Nat BY LenProperties
<1>1. Drop(s, n) \in Seq(S) /\ Len(First(s, n)) = n /\ Cat(First(s, n), Drop(s, n)) = s BY CutAt, CutRejoined
<1>2. PICK d : d = Cat(b, Drop(s, n)) OBVIOUS
<1>3. d \in Seq(S) /\ Len(a) + Len(b) = n /\ Len(a) \in Nat /\ Len(b) \in Nat BY <1>1, <1>2, CatTypes
<1>4. Cat(a, d) = s BY <1>1, <1>2, CatAssociates
<1>5. Len(a) \in 0..Len(a) BY <1>3
<1>6. First(Cat(a, d), Len(a)) = First(a, Len(a)) BY <1>3, <1>5, CutOfJoined
<1>7. First(a, Len(a)) = a BY CutAtAnEnd
<1>8. Len(a) \in 0..n BY <1>0, <1>3
<1> QED BY <1>4, <1>6, <1>7, <1>8

\* One more of the first n.
LEMMA FirstGrows ==
  ASSUME NEW S, NEW s \in Seq(S), NEW n \in 0..(Len(s) - 1)
  PROVE  Append(First(s, n), s[n + 1]) = First(s, n + 1)
<1> DEFINE a == First(s, n)
           m == n + 1
           b == First(s, m)
           c == Append(a, s[m])
<1>0. Len(s) \in Nat BY LenProperties
<1>1. n \in 0..Len(s) /\ m \in 0..Len(s) /\ m \in 1..Len(s) BY <1>0
<1>2. a \in Seq(S) /\ Len(a) = n /\ \A i \in 1..n : a[i] = s[i] BY <1>1, CutAt
<1>3. b \in Seq(S) /\ Len(b) = m /\ \A i \in 1..m : b[i] = s[i]
  <2> HIDE DEF m
  <2> QED BY <1>1, CutAt
<1>4. s[m] \in S BY <1>1, ElementOfSeq
<1> HIDE DEF a, b
<1>5. c \in Seq(S) /\ Len(c) = n + 1 /\ (\A i \in 1..n : c[i] = a[i]) /\ c[n + 1] = s[m] BY <1>2, <1>4, AppendProperties
<1> HIDE DEF c
<1>6. ASSUME NEW i \in 1..m PROVE c[i] = b[i]
  <2>1. i \in 1..n \/ i = n + 1 BY <1>1
  <2> QED BY <1>2, <1>3, <1>5, <2>1
<1>7. c = b BY <1>3, <1>5, <1>6, SeqEqual
<1> QED BY <1>7 DEF a, b, c

\* Nothing but the frames is touched.
OnlyFrames == UNCHANGED <<body, chunks, unsent, over, line, raw, left, done, decoded, buf, handed>>

\* A turn of FrameReader::push that finds no whole frame.
LEMMA FrameWaits ==
  ASSUME FramingInv, where = "frames", OnlyFrames, where' = "idle", ready' = ready \o cut, UNCHANGED <<start, cut>>,
         NEW n, NEW p, Flow(n, p), n < Len(body) => Len(Held) < Len(WriteFrame(body[n + 1]))
  PROVE  FramingInv'
<1>0. FramingTypes BY DEF FramingInv
<1>1. cut \in Seq(Bytes) /\ ready \in Seq(Bytes) /\ handed \in Seq(Bytes) BY <1>0 DEF FramingTypes
<1>2. ready' = Cat(ready, cut) BY DEF Cat
<1>3. ready' \in Seq(Bytes) BY <1>1, <1>2, CatTypes
<1>4. FramingTypes' BY <1>0, <1>3, Zenon DEF FramingTypes, Open, OnlyFrames
<1>5. Held' = Held /\ Fresh = <<>> /\ Fresh' = <<>> BY DEF Held, Fresh, OnlyFrames
<1>6. InHand' = InHand
  <2>1. Cat(Cat(handed, ready), cut) = Cat(handed, Cat(ready, cut)) BY <1>1, CatAssociates
  <2> QED BY <1>2, <2>1 DEF InHand, OnlyFrames
<1>7. Arriving(p)' <=> Arriving(p) BY DEF Arriving, EndBytes, LastChunk, Crlf, OnlyFrames
<1>8. AtRest' = AtRest BY DEF AtRest, OnlyFrames
<1>9. n \in 0..Len(body) /\ p \in Bytes /\ InHand = First(body, n)
      /\ Cat(Held, Cat(Fresh, Cat(p, unsent))) = WrittenAfter(body, n) /\ Arriving(p)
  BY DEF Flow
<1>10. body' = body /\ unsent' = unsent /\ chunks' = chunks /\ over' = over /\ done' = done BY DEF OnlyFrames
<1>11. Flow(n, p)' BY <1>5, <1>6, <1>7, <1>9, <1>10 DEF Flow
<1> QED BY <1>4, <1>8, <1>10, <1>11 DEF FramingInv, Open

\* A turn that meets a frame over the limit.
LEMMA FrameFails ==
  ASSUME FramingInv, where = "frames", OnlyFrames, where' = "failed", UNCHANGED <<start, cut, ready>>,
         NEW n, NEW p, Flow(n, p), n < Len(body), Len(body[n + 1]) > MaxBoxFrame
  PROVE  FramingInv'
<1>0. FramingTypes BY DEF FramingInv
<1>1. cut \in Seq(Bytes) /\ ready \in Seq(Bytes) /\ handed \in Seq(Bytes) /\ body \in Seq(Bytes) /\ Len(body) \in Nat
  BY <1>0, LenProperties DEF FramingTypes
<1>2. FramingTypes' BY <1>0, Zenon DEF FramingTypes, Open, OnlyFrames
<1>3. n \in 0..Len(body) /\ Cat(Cat(handed, ready), cut) = First(body, n) BY DEF Flow, InHand
<1>4. PICK g : g = Cat(handed, ready) OBVIOUS
<1>5. g \in Seq(Bytes) BY <1>1, <1>4, CatTypes
<1>6. Len(g) \in 0..n /\ g = First(body, Len(g)) BY <1>1, <1>3, <1>4, <1>5, BeginsTheBody
<1>7. PICK i : i = n + 1 OBVIOUS
<1>8. i \in 1..Len(body) /\ Len(g) \in 0..Len(body) /\ Len(g) < i BY <1>1, <1>3, <1>6, <1>7
<1>9. FailedAtOne BY <1>4, <1>6, <1>7, <1>8 DEF FailedAtOne
<1>10. FailedAtOne' = FailedAtOne BY DEF FailedAtOne, OnlyFrames
<1>11. body' = body /\ unsent' = unsent /\ chunks' = chunks /\ over' = over /\ done' = done BY DEF OnlyFrames
<1> QED BY <1>2, <1>9, <1>10, <1>11 DEF FramingInv, Open

\* A turn that takes a frame.
LEMMA FrameTaken ==
  ASSUME FramingInv, where = "frames", OnlyFrames, where' = where, ready' = ready,
         NEW n, NEW p, Flow(n, p), n < Len(body),
         cut' = Append(cut, body[n + 1]), start' = start + Len(WriteFrame(body[n + 1])),
         Len(WriteFrame(body[n + 1])) <= Len(Held)
  PROVE  FramingInv'
<1>0. FramingTypes BY DEF FramingInv
<1>1. /\ cut \in Seq(Bytes) /\ ready \in Seq(Bytes) /\ handed \in Seq(Bytes) /\ body \in Seq(Bytes) /\ Len(body) \in Nat
      /\ buf \in Bytes /\ start \in 0..Len(buf) /\ Len(buf) \in Nat /\ unsent \in Bytes
  BY <1>0, LenProperties DEF FramingTypes, Bytes
<1>2. /\ n \in 0..Len(body) /\ p \in Bytes /\ Cat(Cat(handed, ready), cut) = First(body, n)
      /\ Cat(Held, Cat(Fresh, Cat(p, unsent))) = WrittenAfter(body, n) /\ Arriving(p)
  BY DEF Flow, InHand
<1>3. n \in 0..(Len(body) - 1) /\ n + 1 \in 1..Len(body) /\ n + 1 \in 0..Len(body) BY <1>1, <1>2
<1>4. PICK F : F = WriteFrame(body[n + 1]) OBVIOUS
<1>5. PICK R : R = WrittenAfter(body, n + 1) OBVIOUS
<1>6. body[n + 1] \in Bytes BY <1>1, <1>3, ElementOfSeq
<1>7. F \in Bytes /\ Len(F) \in Nat BY <1>4, <1>6, FrameBytes
<1>8. R \in Bytes /\ WrittenAfter(body, n) = Cat(F, R) BY <1>1, <1>3, <1>4, <1>5, WrittenIs
<1>9. Held \in Bytes /\ Len(Held) = Len(buf) - start BY <1>1, BytesCut DEF Held
<1>10. PICK t : t = Cat(p, unsent) OBVIOUS
<1>11. t \in Bytes /\ Cat(<<>>, t) = t BY <1>1, <1>2, <1>10, BytesJoin
<1>12. Fresh = <<>> /\ Fresh' = <<>> BY DEF Fresh
<1>13. Cat(F, R) = Cat(Held, t) BY <1>2, <1>8, <1>10, <1>11, <1>12
<1>14. Len(F) <= Len(Held) BY <1>4
<1>15. F = First(Held, Len(F)) /\ R = Cat(Drop(Held, Len(F)), t) BY <1>7, <1>8, <1>9, <1>11, <1>13, <1>14, BytesElsewhere
<1>16. Len(F) \in 0..(Len(buf) - start) BY <1>1, <1>7, <1>9, <1>14
<1>17. start' = start + Len(F) BY <1>4
<1>18. start + Len(F) \in 0..Len(buf) /\ Drop(buf, start + Len(F)) = Drop(Drop(buf, start), Len(F)) BY <1>1, <1>16, DropAgain
<1>19. Held' = Drop(Held, Len(F)) BY <1>17, <1>18 DEF Held, OnlyFrames
<1>20. body' = body /\ unsent' = unsent /\ chunks' = chunks /\ over' = over /\ done' = done /\ buf' = buf BY DEF OnlyFrames
<1>21. cut' \in Seq(Bytes) BY <1>1, <1>6, AppendProperties
<1>22. start' \in 0..Len(buf') BY <1>17, <1>18, <1>20
<1>23. FramingTypes' BY <1>0, <1>21, <1>22, Zenon DEF FramingTypes, Open, OnlyFrames
<1>24. InHand' = First(body', n + 1)
  <2>1. PICK g : g = Cat(handed, ready) OBVIOUS
  <2>2. g \in Seq(Bytes) BY <1>1, <2>1, CatTypes
  <2>3. g \o Append(cut, body[n + 1]) = Append(g \o cut, body[n + 1])
    <3>1. PICK e : e = <<body[n + 1]>> OBVIOUS
    <3>2. e \in Seq(Bytes) BY <1>6, <3>1
    <3>3. Append(cut, body[n + 1]) = Cat(cut, e) BY <1>1, <1>6, <3>1, AppendIsConcat DEF Cat
    <3>4. PICK h : h = Cat(g, cut) OBVIOUS
    <3>5. h \in Seq(Bytes) BY <1>1, <2>2, <3>4, CatTypes
    <3>6. Append(h, body[n + 1]) = Cat(h, e) BY <1>6, <3>1, <3>5, AppendIsConcat DEF Cat
    <3>7. Cat(Cat(g, cut), e) = Cat(g, Cat(cut, e)) BY <1>1, <2>2, <3>2, CatAssociates
    <3> QED BY <3>3, <3>4, <3>6, <3>7 DEF Cat
  <2>4. InHand' = g \o Append(cut, body[n + 1]) BY <2>1 DEF InHand, OnlyFrames, Cat
  <2>5. g \o cut = First(body, n) BY <1>2, <2>1 DEF Cat
  <2>6. Append(First(body, n), body[n + 1]) = First(body, n + 1) BY <1>1, <1>3, FirstGrows
  <2> QED BY <1>20, <2>3, <2>4, <2>5, <2>6
<1>25. Cat(Held', Cat(Fresh', Cat(p, unsent'))) = WrittenAfter(body', n + 1)
  BY <1>5, <1>10, <1>11, <1>12, <1>15, <1>19, <1>20
<1>26. Arriving(p)' <=> Arriving(p) BY DEF Arriving, EndBytes, LastChunk, Crlf, OnlyFrames
<1>27. PICK k : k = n + 1 OBVIOUS
<1>28. k \in 0..Len(body) /\ InHand' = First(body', k) /\ Cat(Held', Cat(Fresh', Cat(p, unsent'))) = WrittenAfter(body', k)
  BY <1>3, <1>24, <1>25, <1>27
<1>29. Flow(k, p)' BY <1>2, <1>20, <1>26, <1>28 DEF Flow
<1>30. AtRest' = AtRest BY DEF AtRest, OnlyFrames
<1> QED BY <1>20, <1>23, <1>29, <1>30 DEF FramingInv, Open

\* What is held begins with the length of the next frame, or with a part of it: a turn of
\* FrameReader::push reads that length, or waits for the rest of it.
LEMMA NextFrameStep == FramingInv /\ NextFrame => FramingInv'
<1> SUFFICES ASSUME FramingInv, NextFrame PROVE FramingInv' OBVIOUS
<1> DEFINE v == ReadVarint(Held)
           Fails == where' = "failed" /\ UNCHANGED <<start, cut, ready>>
           Waits == where' = "idle" /\ ready' = ready \o cut /\ UNCHANGED <<start, cut>>
<1>0. FramingTypes BY DEF FramingInv
<1>1. where = "frames" /\ OnlyFrames BY DEF NextFrame, OnlyFrames
<1>2. IF v.is = "long" THEN Fails
      ELSE IF v.is = "more" THEN Waits
      ELSE IF v.value > MaxBoxFrame THEN Fails
      ELSE IF Len(Held) < v.head + v.value THEN Waits
      ELSE /\ cut' = Append(cut, SubSeq(Held, v.head + 1, v.head + v.value))
           /\ start' = start + v.head + v.value
           /\ UNCHANGED <<where, ready>>
  BY DEF NextFrame, Held
<1>3. /\ body \in Seq(Bytes) /\ Len(body) \in Nat /\ buf \in Bytes /\ start \in 0..Len(buf) /\ unsent \in Bytes /\ start \in Int
  BY <1>0, LenProperties DEF FramingTypes
<1>4. Held \in Bytes /\ Len(Held) \in Nat BY <1>3, BytesCut DEF Held, Bytes
<1>5. PICK n, p : Flow(n, p) BY <1>1 DEF FramingInv, Open
<1>6. n \in 0..Len(body) /\ p \in Bytes /\ Cat(Held, Cat(Fresh, Cat(p, unsent))) = WrittenAfter(body, n) BY <1>5 DEF Flow
<1>7. PICK t : t = Cat(p, unsent) OBVIOUS
<1>8. t \in Bytes /\ Cat(<<>>, t) = t /\ Len(t) \in Nat BY <1>3, <1>6, <1>7, BytesJoin
<1>9. Cat(Held, t) = WrittenAfter(body, n)
  <2>1. Fresh = <<>> BY <1>1 DEF Fresh
  <2> QED BY <1>6, <1>7, <1>8, <2>1
<1> HIDE DEF v, Fails, Waits
<1>10. ASSUME Waits, n < Len(body) => Len(Held) < Len(WriteFrame(body[n + 1])) PROVE FramingInv'
  BY <1>1, <1>5, <1>10, FrameWaits DEF Waits
<1>11. ASSUME Fails, n < Len(body), Len(body[n + 1]) > MaxBoxFrame PROVE FramingInv'
  BY <1>1, <1>5, <1>11, FrameFails DEF Fails
<1>12. CASE n = Len(body)
  <2>1. Cat(Held, t) = <<>> BY <1>3, <1>9, <1>12, WrittenIs
  <2>2. Len(Held) = 0
    <3>1. Len(Cat(Held, t)) = Len(Held) + Len(t) BY <1>4, <1>8, BytesJoin
    <3>2. Len(Held) + Len(t) = 0 BY <2>1, <3>1, NoBytes
    <3> QED BY <1>4, <1>8, <3>2
  <2>3. \A i \in 1..Len(Held) : Held[i] >= Radix BY <2>2
  <2>4. v = [is |-> "more"] BY <1>4, <2>2, <2>3, ReadPart, VarintsAreShort DEF v
  <2>5. v.is = "more" BY <2>4
  <2>6. Waits BY <1>2, <2>5
  <2>7. ~(n < Len(body)) BY <1>3, <1>12
  <2> QED BY <1>10, <2>6, <2>7
<1>13. CASE n # Len(body)
  <2>0. n < Len(body) /\ n \in 0..(Len(body) - 1) /\ n + 1 \in 1..Len(body) /\ n + 1 \in 0..Len(body) BY <1>3, <1>6, <1>13
  <2>1. PICK m : m = body[n + 1] OBVIOUS
  <2>2. m \in Bytes BY <1>3, <2>0, <2>1, ElementOfSeq
  <2>3. PICK w : w = WriteVarint(Len(m)) OBVIOUS
  <2>4. PICK F : F = WriteFrame(m) OBVIOUS
  <2>5. /\ F = Cat(w, m) /\ w \in Bytes /\ F \in Bytes /\ Len(F) = Len(w) + Len(m)
        /\ Len(m) \in Nat /\ Len(w) \in Nat \ {0} /\ Len(F) \in Nat
    BY <2>2, <2>3, <2>4, FrameBytes
  <2>6. PICK R : R = WrittenAfter(body, n + 1) OBVIOUS
  <2>7. R \in Bytes /\ WrittenAfter(body, n) = Cat(F, R) BY <1>3, <2>0, <2>1, <2>4, <2>6, WrittenIs
  <2>8. PICK z : z = Cat(m, R) OBVIOUS
  <2>9. z \in Bytes /\ Cat(F, R) = Cat(w, z) BY <2>2, <2>5, <2>7, <2>8, BytesJoin, BytesAssociate
  <2>10. Cat(w, z) = Cat(Held, t) BY <1>9, <2>7, <2>9
  <2>11. F = WriteFrame(body[n + 1]) BY <2>1, <2>4
  <2>12. ASSUME Len(Held) < Len(F), Waits PROVE FramingInv' BY <1>10, <2>11, <2>12
  <2>13. ASSUME Len(m) > MaxBoxFrame, Fails PROVE FramingInv' BY <1>11, <2>0, <2>1, <2>13
  <2>14. CASE Len(w) <= Len(Held)
    <3>1. w = First(Held, Len(w)) /\ z = Cat(Drop(Held, Len(w)), t) BY <1>4, <1>8, <2>5, <2>9, <2>10, <2>14, BytesElsewhere
    <3>2. \A i \in 1..Len(w) : Held[i] = w[i]
      <4>1. Held \in Seq(Byte) /\ Len(w) \in 0..Len(Held) BY <1>4, <2>5, <2>14 DEF Bytes
      <4>2. \A i \in 1..Len(w) : First(Held, Len(w))[i] = Held[i] BY <4>1, CutAt
      <4> QED BY <3>1, <4>2
    <3>3. \/ v = [is |-> "whole", head |-> Len(w), value |-> Len(m)]
          \/ v = [is |-> "long"] /\ Len(m) > MaxBoxFrame
      BY <1>4, <2>3, <2>5, <2>14, <3>2, ReadWhole DEF v
    <3>4. CASE v = [is |-> "long"] /\ Len(m) > MaxBoxFrame
      <4>1. v.is = "long" BY <3>4
      <4>2. Fails BY <1>2, <4>1
      <4> QED BY <2>13, <3>4, <4>2
    <3>5. CASE v = [is |-> "whole", head |-> Len(w), value |-> Len(m)]
      <4>1. v.is # "long" /\ v.is # "more" /\ v.head = Len(w) /\ v.value = Len(m) BY <3>5
      <4>2. CASE Len(m) > MaxBoxFrame
        <5>1. Fails BY <1>2, <4>1, <4>2
        <5> QED BY <2>13, <4>2, <5>1
      <4>3. CASE ~(Len(m) > MaxBoxFrame) /\ Len(Held) < Len(w) + Len(m)
        <5>1. Waits BY <1>2, <4>1, <4>3
        <5>2. Len(Held) < Len(F) BY <2>5, <4>3
        <5> QED BY <2>12, <5>1, <5>2
      <4>4. CASE ~(Len(m) > MaxBoxFrame) /\ ~(Len(Held) < Len(w) + Len(m))
        <5>1. /\ cut' = Append(cut, SubSeq(Held, Len(w) + 1, Len(w) + Len(m)))
              /\ start' = start + Len(w) + Len(m) /\ where' = where /\ ready' = ready
          BY <1>2, <4>1, <4>4
        <5>2. Len(F) <= Len(Held) /\ Len(F) \in 0..Len(Held) BY <1>4, <2>5, <4>4
        <5>3. start' = start + Len(F) BY <1>3, <2>5, <5>1
        <5>4. PICK D : D = Drop(Held, Len(F)) OBVIOUS
        <5>5. D \in Bytes /\ Cat(First(Held, Len(F)), D) = Held BY <1>4, <5>2, <5>4, BytesCut
        <5>6. F = First(Held, Len(F)) /\ R = Cat(Drop(Held, Len(F)), t)
          <6>1. Cat(F, R) = Cat(Held, t) BY <1>9, <2>7
          <6> QED BY <1>4, <1>8, <2>5, <2>7, <5>2, <6>1, BytesElsewhere
        <5>7. Held = Cat(Cat(w, m), D) BY <2>5, <5>5, <5>6
        <5>8. Held = Cat(w, Cat(m, D)) BY <2>2, <2>5, <5>5, <5>7, BytesAssociate
        <5>9. SubSeq(Held, Len(w) + 1, Len(w) + Len(m)) = m BY <2>2, <2>5, <5>5, <5>8, MiddleOf
        <5>10. /\ cut' = Append(cut, body[n + 1]) /\ start' = start + Len(WriteFrame(body[n + 1]))
               /\ Len(WriteFrame(body[n + 1])) <= Len(Held)
          BY <2>1, <2>11, <5>1, <5>2, <5>3, <5>9
        <5> QED BY <1>1, <1>5, <2>0, <5>1, <5>10, FrameTaken
      <4> QED BY <4>2, <4>3, <4>4
    <3> QED BY <3>3, <3>4, <3>5
  <2>15. CASE ~(Len(w) <= Len(Held))
    <3>0. Len(Held) <= Len(w) /\ Len(Held) < Len(F) /\ Len(Held) \in 0..Len(w) /\ \A i \in 1..Len(Held) : i \in 1..(Len(w) - 1)
      BY <1>4, <2>5, <2>15
    <3>1. Held = First(w, Len(Held)) /\ t = Cat(Drop(w, Len(Held)), z) BY <1>4, <1>8, <2>5, <2>9, <2>10, <3>0, BytesElsewhere
    <3>2. \A i \in 1..Len(Held) : Held[i] >= Radix
      <4>1. w \in Seq(Byte) BY <2>5 DEF Bytes
      <4>2. \A i \in 1..Len(Held) : First(w, Len(Held))[i] = w[i] BY <3>0, <4>1, CutAt
      <4>3. \A i \in 1..Len(Held) : Held[i] = w[i] BY <3>1, <4>2
      <4>4. \A i \in 1..(Len(w) - 1) : w[i] >= Radix BY <2>3, <2>5, VarintOf DEF Varint
      <4> QED BY <3>0, <4>3, <4>4
    <3>3. \/ v = [is |-> "more"]
          \/ v = [is |-> "long"] /\ Len(Held) >= MaxVarintBytes
      BY <1>4, <3>2, ReadPart DEF v
    <3>4. CASE v = [is |-> "more"]
      <4>1. v.is = "more" BY <3>4
      <4>2. Waits BY <1>2, <4>1
      <4> QED BY <2>12, <3>0, <4>2
    <3>5. CASE v = [is |-> "long"] /\ Len(Held) >= MaxVarintBytes
      <4>1. v.is = "long" BY <3>5
      <4>2. Fails BY <1>2, <4>1
      <4>3. ~(Len(w) < MaxVarintBytes) BY <1>4, <2>5, <2>15, <3>5, VarintsAreShort
      <4>4. Len(m) > MaxBoxFrame BY <2>3, <2>5, <4>3, LongIsOver
      <4> QED BY <2>13, <4>2, <4>4
    <3> QED BY <3>3, <3>4, <3>5
  <2> QED BY <2>14, <2>15
<1> QED BY <1>12, <1>13

\* Every step of the specification keeps the invariant.
LEMMA FramingInductive == FramingInv /\ [FramingNext]_framingVars => FramingInv'
<1> SUFFICES ASSUME FramingInv, [FramingNext]_framingVars PROVE FramingInv' OBVIOUS
<1>1. ASSUME UNCHANGED framingVars PROVE FramingInv'
  <2>0. /\ body' = body /\ chunks' = chunks /\ unsent' = unsent /\ over' = over /\ line' = line /\ where' = where
        /\ raw' = raw /\ left' = left /\ done' = done /\ decoded' = decoded /\ buf' = buf /\ start' = start
        /\ cut' = cut /\ ready' = ready /\ handed' = handed
    BY <1>1 DEF framingVars
  <2>1. FramingTypes' = FramingTypes BY <2>0 DEF FramingTypes
  <2>2. AtRest' = AtRest /\ FailedAtOne' = FailedAtOne BY <2>0 DEF AtRest, FailedAtOne
  <2>3. ASSUME NEW n, NEW p, Flow(n, p) PROVE Flow(n, p)'
    <3>1. Held' = Held /\ Fresh' = Fresh /\ InHand' = InHand /\ EndBytes' = EndBytes
      BY <2>0 DEF Held, Fresh, InHand, EndBytes
    <3>2. Arriving(p)' <=> Arriving(p) BY <2>0, <3>1 DEF Arriving
    <3> QED BY <2>0, <2>3, <3>1, <3>2 DEF Flow
  <2>4. where \in Open => \E n, p : Flow(n, p)'
    <3> SUFFICES ASSUME where \in Open PROVE \E n, p : Flow(n, p)' OBVIOUS
    <3>1. PICK n, p : Flow(n, p) BY DEF FramingInv
    <3>2. Flow(n, p)' BY <2>3, <3>1
    <3> QED BY <3>2
  <2> QED BY <2>0, <2>1, <2>2, <2>4 DEF FramingInv
<1>2. CASE BoxSends BY <1>2, BoxSendsStep
<1>3. CASE BoxEnds BY <1>3, BoxEndsStep
<1>4. CASE PopReady BY <1>4, PopReadyStep
<1>5. CASE BodyEnded BY <1>5, BodyEndedStep
<1>6. CASE ReadInto BY <1>6, ReadIntoStep
<1>7. CASE TakeChunk BY <1>7, TakeChunkStep
<1>8. CASE SkipCrlf BY <1>8, SkipCrlfStep
<1>9. CASE SizeLine BY <1>9, SizeLineStep
<1>10. CASE PushFrames BY <1>10, PushFramesStep
<1>11. CASE NextFrame BY <1>11, NextFrameStep
<1>12. FramingNext \/ UNCHANGED framingVars OBVIOUS
<1> QED BY <1>1, <1>2, <1>3, <1>4, <1>5, <1>6, <1>7, <1>8, <1>9, <1>10, <1>11, <1>12 DEF FramingNext

\* With the line empty and the loop as far as it can go, nothing is on the way.
LEMMA NothingOnTheWay ==
  ASSUME FramingInv, where = "idle", line = <<>>, NEW n, NEW p, Flow(n, p)
  PROVE  p = <<>>
<1>0. raw \in Bytes /\ Len(raw) \in Nat /\ left \in Nat BY DEF FramingInv, FramingTypes, Bytes
<1>1. Arriving(p) BY DEF Flow
<1>2. CASE ~chunks BY <1>1, <1>2 DEF Arriving
<1>3. CASE chunks /\ done BY <1>1, <1>3 DEF Arriving
<1>4. CASE chunks /\ ~done
  <2>1. AtRest BY <1>4 DEF FramingInv
  <2>2. Cat(raw, line) = raw BY <1>0, BytesJoin
  <2>3. InChunks(left, raw, p, EndBytes) BY <1>1, <1>4, <2>2 DEF Arriving
  <2>4. CASE left > 0 /\ raw = <<>>
    <3>1. PICK d \in Bytes, x \in Chunkings(EndBytes) : Len(d) = left /\ raw = Cat(d, Cat(Crlf, x[1]))
      BY <1>0, <2>3, <2>4 DEF InChunks
    <3>2. x[1] \in Bytes BY EndBytesTypes, ChunkingsMade DEF ChunkPairs
    <3>3. PICK z : z = Cat(Crlf, x[1]) OBVIOUS
    <3>4. z \in Bytes BY <3>2, <3>3, LineEnd, BytesJoin
    <3>5. Len(Cat(d, z)) = Len(d) + Len(z) /\ Len(z) \in Nat BY <3>4, BytesJoin
    <3>6. Len(raw) = left + Len(z) BY <3>1, <3>3, <3>5
    <3>7. Len(raw) = 0 BY <2>4
    <3> QED BY <1>0, <2>4, <3>5, <3>6, <3>7
  <2>5. CASE left = 0 /\ ~StartsWithCrlf(raw) /\ FindCrlf(raw) = -1
    <3>1. InChunks(0, raw, p, EndBytes) BY <2>3, <2>5
    <3>2. PICK x \in Chunkings(EndBytes) : /\ p = x[2] /\ (raw = Cat(Crlf, x[1]) \/ raw = x[1])
                                           /\ x[1] \in Bytes /\ x[2] \in Bytes
      BY <3>1, EndBytesTypes, NoneLeft
    <3>3. raw = x[1]
      <4> SUFFICES ASSUME raw = Cat(Crlf, x[1]) PROVE FALSE BY <3>2
      <4>1. Crlf \in Bytes /\ Len(Crlf) = 2 /\ Crlf[1] = CR /\ Crlf[2] = LF BY LineEnd
      <4>2. \A i \in 1..Len(Crlf) : Cat(Crlf, x[1])[i] = Crlf[i] BY <3>2, <4>1, BytesAt
      <4>3. raw[1] = CR /\ raw[2] = LF BY <4>1, <4>2
      <4>4. Len(raw) = 2 + Len(x[1]) /\ Len(x[1]) \in Nat BY <3>2, <4>1, BytesJoin
      <4>5. Len(raw) >= 2 BY <4>4
      <4> QED BY <1>0, <2>5, <4>3, <4>5, CrlfFirst
    <3>4. CASE x = <<EndBytes, <<>>>> BY <3>2, <3>4
    <3>5. CASE x # <<EndBytes, <<>>>>
      <4>1. PICK d \in Payloads, y \in Chunkings(EndBytes) : x = OneMore(d, y) BY <3>5, EndBytesTypes, ChunkingsOnly
      <4>2. y \in ChunkPairs BY EndBytesTypes, ChunkingsMade
      <4>3. y[1] \in Bytes /\ x[1] = Cat(ChunkOf(d), y[1]) BY <4>1, <4>2, OneMoreTypes
      <4>4. raw = Cat(ChunkOf(d), y[1]) BY <3>3, <4>3
      <4>5. PICK z : z = Cat(d, Cat(Crlf, y[1])) OBVIOUS
      <4>6. /\ raw = Cat(SizeBytes(Len(d)), z) /\ z \in Bytes
            /\ raw[1] = Radix + Len(d) /\ raw[2] = CR /\ raw[3] = LF
        BY <4>3, <4>4, <4>5, ChunkAt
      <4>7. SizeBytes(Len(d)) \in Bytes /\ Len(SizeBytes(Len(d))) = 3 /\ Len(d) \in Nat BY ChunkBytes, SizeLineBytes, RadixIs
      <4>8. Len(raw) = 3 + Len(z) /\ Len(z) \in Nat BY <4>6, <4>7, BytesJoin
      <4>9. 1 \in 0..(Len(raw) - 2) BY <4>8
      <4>10. raw[1] # CR BY <4>6, <4>7, LineEnd, RadixIs
      <4>11. raw[1 + 1] = CR /\ raw[1 + 2] = LF /\ \A i \in 1..1 : raw[i] # CR BY <4>6, <4>10
      <4>12. FindCrlf(raw) = 1 BY <1>0, <4>9, <4>11, FindFirst
      <4> QED BY <2>5, <4>12
    <3> QED BY <3>4, <3>5
  <2> QED BY <1>4, <2>1, <2>4, <2>5 DEF AtRest
<1> QED BY <1>2, <1>3, <1>4

\* The frames found are then the ones whose last byte was sent.
LEMMA AllIsFound ==
  ASSUME FramingInv, where = "idle", line = <<>>, NEW n, NEW p, Flow(n, p)
  PROVE  WhollySent = n
<1>0. body \in Seq(Bytes) /\ Len(body) \in Nat /\ buf \in Bytes /\ start \in 0..Len(buf) /\ unsent \in Bytes
  BY LenProperties DEF FramingInv, FramingTypes
<1>1. n \in 0..Len(body) /\ Cat(Held, Cat(Fresh, Cat(p, unsent))) = WrittenAfter(body, n)
      /\ (n < Len(body) => Len(Held) < Len(WriteFrame(body[n + 1])))
  BY DEF Flow
<1>2. p = <<>> /\ Fresh = <<>> BY NothingOnTheWay DEF Fresh
<1>3. Cat(<<>>, unsent) = unsent BY <1>0, BytesJoin
<1>4. Cat(Held, unsent) = WrittenAfter(body, n) BY <1>1, <1>2, <1>3
<1>5. Held \in Bytes BY <1>0, BytesCut DEF Held
<1> DEFINE L(k) == Len(WrittenAfter(body, k))
           whole == {k \in 0..Len(body) : Len(unsent) <= L(k)}
<1>6. L(n) = Len(Held) + Len(unsent) /\ Len(Held) \in Nat /\ Len(unsent) \in Nat BY <1>0, <1>4, <1>5, BytesJoin
<1>7. \A k \in 0..Len(body) : L(k) \in Nat BY <1>0, WrittenIs, LenProperties DEF Bytes
<1>8. \A k \in 0..Len(body) : n + 1 <= k => ~(Len(unsent) <= L(k))
  <2> SUFFICES ASSUME NEW k \in 0..Len(body), n + 1 <= k PROVE ~(Len(unsent) <= L(k)) OBVIOUS
  <2>1. n < Len(body) /\ n \in 0..(Len(body) - 1) /\ n + 1 \in 1..Len(body) /\ n + 1 \in 0..Len(body) BY <1>0, <1>1
  <2>2. PICK F : F = WriteFrame(body[n + 1]) OBVIOUS
  <2>3. PICK R : R = WrittenAfter(body, n + 1) OBVIOUS
  <2>4. body[n + 1] \in Bytes BY <1>0, <2>1, ElementOfSeq
  <2>5. F \in Bytes BY <2>2, <2>4, FrameBytes
  <2>6. R \in Bytes /\ WrittenAfter(body, n) = Cat(F, R) BY <1>0, <2>1, <2>2, <2>3, WrittenIs
  <2>7. L(n) = Len(F) + Len(R) /\ Len(F) \in Nat /\ Len(R) \in Nat BY <2>5, <2>6, BytesJoin
  <2>8. L(k) <= Len(R) BY <1>0, <2>1, <2>3, WrittenShrinks
  <2>9. Len(Held) < Len(F) BY <1>1, <2>1, <2>2
  <2>10. L(k) \in Nat BY <1>7
  <2> HIDE DEF L
  <2> QED BY <1>6, <2>7, <2>8, <2>9, <2>10
<1>9. WhollySent = CHOOSE k \in whole : \A j \in whole : j <= k BY DEF WhollySent
<1> HIDE DEF L
<1>10. n \in whole BY <1>1, <1>6, <1>7
<1>11. \A j \in whole : j <= n /\ j \in Nat
  <2> SUFFICES ASSUME NEW j \in whole PROVE j <= n /\ j \in Nat OBVIOUS
  <2>1. j \in 0..Len(body) /\ Len(unsent) <= L(j) OBVIOUS
  <2>2. ~(n + 1 <= j) BY <1>8, <2>1
  <2> QED BY <1>0, <1>1, <2>1, <2>2
<1> HIDE DEF whole
<1> DEFINE c == CHOOSE k \in whole : \A j \in whole : j <= k
<1>12. c \in whole /\ \A j \in whole : j <= c BY <1>10, <1>11
<1>13. WhollySent = c BY <1>9
<1> HIDE DEF c
<1>14. n <= c /\ c <= n /\ n \in Nat /\ c \in Nat BY <1>10, <1>11, <1>12
<1> QED BY <1>13, <1>14

\* The invariant says what FramesIntact does.
LEMMA FramingInvSuffices == FramingInv => FramesIntact
<1> SUFFICES ASSUME FramingInv PROVE FramesIntact OBVIOUS
<1>0. /\ body \in Seq(Bytes) /\ Len(body) \in Nat /\ DOMAIN body = 1..Len(body) /\ ready \in Seq(Bytes) /\ handed \in Seq(Bytes)
      /\ cut \in Seq(Bytes)
  BY LenProperties DEF FramingInv, FramingTypes
<1>1. PICK g : g = handed \o ready OBVIOUS
<1>2. g = Cat(handed, ready) /\ g \in Seq(Bytes)
  <2>1. g = Cat(handed, ready) BY <1>1 DEF Cat
  <2> QED BY <1>0, <2>1, CatTypes
<1>3. ASSUME NEW n \in 0..Len(body), g = First(body, n) PROVE Len(g) = n BY <1>0, <1>3, CutAt
<1>4. ASSUME where = "failed" PROVE \E i \in DOMAIN body, n \in 0..Len(body) : Len(body[i]) > MaxBoxFrame /\ g = First(body, n) /\ n < i
  BY <1>0, <1>2, <1>4 DEF FramingInv, FailedAtOne
<1>5. ASSUME where = "ended" PROVE g = body BY <1>2, <1>5 DEF FramingInv
<1>6. ASSUME where \in Open PROVE \E n \in 0..Len(body) : g = First(body, n)
  <2>1. PICK n, p : Flow(n, p) BY <1>6 DEF FramingInv
  <2>2. n \in 0..Len(body) /\ InHand = First(body, n) BY <2>1 DEF Flow
  <2>3. CASE where # "frames" BY <1>2, <2>2, <2>3 DEF InHand
  <2>4. CASE where = "frames"
    <3>1. Cat(g, cut) = First(body, n) BY <1>2, <2>2, <2>4 DEF InHand
    <3>2. Len(g) \in 0..n /\ g = First(body, Len(g)) BY <1>0, <1>2, <2>2, <3>1, BeginsTheBody
    <3>3. Len(g) \in 0..Len(body) BY <1>0, <2>2, <3>2
    <3> QED BY <3>2, <3>3
  <2> QED BY <2>3, <2>4
<1>7. \E n \in 0..Len(body) : g = First(body, n)
  <2>1. CASE where = "failed" BY <1>4, <2>1
  <2>2. CASE where = "ended"
    <3>1. First(body, Len(body)) = body BY <1>0, CutAtAnEnd
    <3>2. Len(body) \in 0..Len(body) BY <1>0
    <3> QED BY <1>5, <2>2, <3>1, <3>2
  <2>3. CASE where \in Open BY <1>6, <2>3
  <2>4. where \in Open \cup {"failed", "ended"} BY DEF FramingInv, FramingTypes
  <2> QED BY <2>1, <2>2, <2>3, <2>4
<1>8. where = "idle" /\ line = <<>> => Len(g) = WhollySent
  <2> SUFFICES ASSUME where = "idle", line = <<>> PROVE Len(g) = WhollySent OBVIOUS
  <2>1. PICK n, p : Flow(n, p) BY DEF FramingInv, Open
  <2>2. WhollySent = n BY <2>1, AllIsFound
  <2>3. n \in 0..Len(body) /\ g = First(body, n) BY <1>2, <2>1 DEF Flow, InHand
  <2> QED BY <1>3, <2>2, <2>3
<1>9. where = "failed" => \E i \in DOMAIN body : Len(body[i]) > MaxBoxFrame /\ Len(g) < i
  <2> SUFFICES ASSUME where = "failed" PROVE \E i \in DOMAIN body : Len(body[i]) > MaxBoxFrame /\ Len(g) < i OBVIOUS
  <2>1. PICK i \in DOMAIN body, n \in 0..Len(body) : Len(body[i]) > MaxBoxFrame /\ g = First(body, n) /\ n < i BY <1>4
  <2>2. Len(g) = n BY <1>3, <2>1
  <2> QED BY <2>1, <2>2
<1> QED BY <1>1, <1>5, <1>7, <1>8, <1>9 DEF FramesIntact

\* read_varint of what write_varint wrote, for every length within the limit and whatever
\* follows it: the same length and the bytes it took; and of any part of it, that there is
\* more to come.
THEOREM VarintsReadBack ==
  ASSUME NEW v \in 0..MaxBoxFrame, NEW rest \in Seq(0..(2 * Radix - 1))
  PROVE  /\ ReadVarint(WriteVarint(v) \o rest) = [is |-> "whole", head |-> Len(WriteVarint(v)), value |-> v]
         /\ \A n \in 0..(Len(WriteVarint(v)) - 1) : ReadVarint(First(WriteVarint(v), n)) = [is |-> "more"]
<1>0. v \in Nat /\ ~(v > MaxBoxFrame) /\ MaxBoxFrame \in Nat BY FramingAssumption
<1>1. PICK w : w = WriteVarint(v) OBVIOUS
<1>2. w \in Bytes /\ Len(w) \in Nat \ {0} /\ \A i \in 1..(Len(w) - 1) : w[i] >= Radix
  BY <1>0, <1>1, VarintOf DEF Varint
<1>3. Len(w) < MaxVarintBytes /\ MaxVarintBytes \in Nat BY <1>1, LimitsFit, VarintsAreShort
<1>4. rest \in Bytes BY DEF Bytes, Byte
<1>5. PICK s : s = Cat(w, rest) OBVIOUS
<1>6. s \in Bytes /\ Len(w) <= Len(s)
  <2>1. s \in Bytes /\ Len(s) = Len(w) + Len(rest) /\ Len(rest) \in Nat BY <1>2, <1>4, <1>5, BytesJoin
  <2> QED BY <1>2, <2>1
<1>7. \A i \in 1..Len(w) : s[i] = w[i] BY <1>2, <1>4, <1>5, BytesAt
<1>8. ReadVarint(s) = [is |-> "whole", head |-> Len(w), value |-> v] BY <1>0, <1>1, <1>6, <1>7, ReadWhole
<1>9. ASSUME NEW n \in 0..(Len(w) - 1) PROVE ReadVarint(First(w, n)) = [is |-> "more"]
  <2>1. n \in 0..Len(w) /\ n \in Nat /\ ~(n >= MaxVarintBytes) /\ \A i \in 1..n : i \in 1..(Len(w) - 1) BY <1>2, <1>3
  <2>2. PICK f : f = First(w, n) OBVIOUS
  <2>3. f \in Bytes /\ Len(f) = n /\ \A i \in 1..n : f[i] = w[i] BY <1>2, <2>1, <2>2, CutAt DEF Bytes
  <2>4. \A i \in 1..Len(f) : f[i] >= Radix BY <1>2, <2>1, <2>3
  <2>5. ReadVarint(f) = [is |-> "more"] BY <2>1, <2>3, <2>4, ReadPart
  <2> QED BY <2>2, <2>5
<1> QED BY <1>1, <1>5, <1>8, <1>9 DEF Cat

\* Wherever the box cuts its chunks and the network its reads, whatever bytes the frames
\* hold and however long they are, next_frame returns the box's frames whole and in order,
\* holds none back once all that was sent is read, and fails only at a frame over the limit.
THEOREM FramesComeWhole == FramingSpec => []FramesIntact
<1>1. FramingInit => FramingInv BY FramingInitially
<1>2. FramingInv /\ [FramingNext]_framingVars => FramingInv' BY FramingInductive
<1>3. FramingInv => FramesIntact BY FramingInvSuffices
<1> QED BY <1>1, <1>2, <1>3, PTL DEF FramingSpec

=============================================================================
