------------------------------ MODULE HubProofs ------------------------------
(***************************************************************************)
(* What the hub's limits promise, for any number of shards, sockets, codes *)
(* and addresses and any rates: the pairing slots, the account slots, the  *)
(* budgets before a hello, and the work budget of an account.              *)
(***************************************************************************)
EXTENDS PairingSlots, AccountSlots, Gate, WorkBudget, FiniteSetTheorems, WellFoundedInduction, TLAPS

-----------------------------------------------------------------------------
\* Pairing slots.

Slot == [offer : Sockets, answer : {Nothing} \cup [for : Sockets, by : Devices], expires : Nat]

PairTypes ==
  /\ moment \in Nat
  /\ open \in [Codes -> {Nothing} \cup Slot]
  /\ socket \in [Sockets -> {"new", "held", "waiting", "paired", "refused", "over"}]
  /\ code \in [Sockets -> Codes \cup {Nothing}]
  /\ collected \in [Sockets -> {Nothing} \cup Slot]
  /\ fetched \in [Devices -> [Codes -> {Nothing} \cup Sockets]]
  /\ \A s \in Sockets : socket[s] # "new" => code[s] \in Codes

\* A slot, expired or not, is under the code of the socket that offered it, which
\* still waits; so a socket has one slot at most.
SlotsOwned ==
  \A k \in Codes : open[k] # Nothing =>
    code[open[k].offer] = k /\ socket[open[k].offer] \in {"held", "waiting"}

\* A slot whose answer somebody has is no more, and its socket, which offered under the
\* same code, offers no other.
CollectedGone ==
  \A s \in Sockets : collected[s] # Nothing =>
    /\ socket[s] # "new" /\ socket[collected[s].offer] # "new"
    /\ code[collected[s].offer] = code[s]
    /\ \A k \in Codes : open[k] # Nothing => open[k].offer # collected[s].offer
    /\ \A t \in Sockets : s # t /\ collected[t] # Nothing => collected[s].offer # collected[t].offer

SlotsBounded == IsFiniteSet({k \in Codes : open[k] # Nothing}) /\ SlotsHeld(open) <= MaxSlots

PairInv == PairTypes /\ SlotsOwned /\ CollectedGone /\ SlotsBounded

\* What is left of the slots once some are forgotten.
Fewer(now) == \A k \in Codes : now[k] \in {open[k], Nothing}

LEMMA LiveIsFewer ==
  ASSUME PairInv
  PROVE  /\ LiveSlots \in [Codes -> {Nothing} \cup Slot]
         /\ Fewer(LiveSlots)
         /\ \A k \in Codes : LiveSlots[k] # Nothing => LiveSlots[k] = open[k]
BY DEF PairInv, PairTypes, LiveSlots, Fewer

LEMMA FewerHeld ==
  ASSUME PairInv, NEW now, Fewer(now)
  PROVE  /\ IsFiniteSet({k \in Codes : now[k] # Nothing})
         /\ SlotsHeld(now) <= SlotsHeld(open) /\ SlotsHeld(now) \in Nat /\ SlotsHeld(now) <= MaxSlots
<1> DEFINE A == {k \in Codes : now[k] # Nothing}
           B == {k \in Codes : open[k] # Nothing}
<1>1. A \subseteq B BY DEF Fewer
<1>2. IsFiniteSet(B) /\ Cardinality(B) <= MaxSlots BY DEF PairInv, SlotsBounded, SlotsHeld
<1> HIDE DEF A, B
<1>3. IsFiniteSet(A) /\ Cardinality(A) <= Cardinality(B) BY <1>1, <1>2, FS_Subset
<1>4. Cardinality(A) \in Nat /\ Cardinality(B) \in Nat BY <1>2, <1>3, FS_CardinalityType
<1>5. Cardinality(A) <= MaxSlots BY <1>2, <1>3, <1>4, PairingBounds
<1> QED BY <1>3, <1>4, <1>5 DEF SlotsHeld, A, B

\* Forgetting slots disturbs nothing, whatever else a step does to them.
LEMMA ForgettingKeeps ==
  ASSUME PairInv, Fewer(open'), open' \in [Codes -> {Nothing} \cup Slot], UNCHANGED <<socket, code, collected>>
  PROVE  (SlotsOwned /\ CollectedGone /\ SlotsBounded)'
<1>1. \A k \in Codes : open'[k] # Nothing => open'[k] = open[k]
  BY DEF Fewer
<1>2. SlotsOwned'
  BY <1>1 DEF PairInv, SlotsOwned
<1>3. CollectedGone'
  BY <1>1 DEF PairInv, CollectedGone
<1>4. SlotsBounded'
  BY FewerHeld DEF SlotsBounded, SlotsHeld
<1> QED BY <1>2, <1>3, <1>4

LEMMA PairInitially == PairInit => PairInv
<1> SUFFICES ASSUME PairInit PROVE PairInv OBVIOUS
<1>1. PairTypes /\ SlotsOwned /\ CollectedGone
  BY DEF PairInit, PairTypes, SlotsOwned, CollectedGone
<1>2. {k \in Codes : open[k] # Nothing} = {}
  BY DEF PairInit
<1>3. SlotsBounded
  BY <1>2, FS_EmptySet, PairingBounds DEF SlotsBounded, SlotsHeld
<1> QED BY <1>1, <1>3 DEF PairInv

LEMMA OfferStep ==
  ASSUME PairInv, NEW s \in Sockets, NEW k \in Codes, Offer(s, k)
  PROVE  PairInv'
<1> DEFINE live == LiveSlots
           slot == [offer |-> s, answer |-> Nothing, expires |-> moment + Lifetime]
<1>0. /\ live \in [Codes -> {Nothing} \cup Slot] /\ Fewer(live)
      /\ \A j \in Codes : live[j] # Nothing => live[j] = open[j]
  BY LiveIsFewer
<1> HIDE DEF live
<1>1. CASE live[k] # Nothing \/ Full(live)
  <2>1. /\ open' = live /\ socket[s] = "new" /\ socket' = [socket EXCEPT ![s] = "refused"]
        /\ code' = [code EXCEPT ![s] = k] /\ UNCHANGED <<moment, deadline, collected, fetched>>
    BY <1>1 DEF Offer, live
  <2>2. PairTypes' BY <1>0, <2>1 DEF PairInv, PairTypes
  <2>3. SlotsOwned' BY <1>0, <2>1 DEF PairInv, PairTypes, SlotsOwned, Slot
  <2>4. CollectedGone' BY <1>0, <2>1 DEF PairInv, PairTypes, CollectedGone, Slot
  <2>5. SlotsBounded' BY <1>0, <2>1, FewerHeld DEF SlotsBounded, SlotsHeld
  <2> QED BY <2>2, <2>3, <2>4, <2>5 DEF PairInv
<1>2. CASE live[k] = Nothing /\ ~Full(live)
  <2>1. /\ open' = [live EXCEPT ![k] = slot]
        /\ socket[s] = "new" /\ socket' = [socket EXCEPT ![s] = "held"]
        /\ code' = [code EXCEPT ![s] = k] /\ UNCHANGED <<moment, deadline, collected, fetched>>
    BY <1>2 DEF Offer, live
  <2>2. slot \in Slot /\ slot.offer = s
    BY PairingBounds DEF PairInv, PairTypes, Slot
  <2> HIDE DEF slot
  <2>3. PairTypes' BY <1>0, <2>1, <2>2 DEF PairInv, PairTypes
  <2>4. \A j \in Codes : open[j] # Nothing => open[j] \in Slot /\ open[j].offer \in Sockets /\ open[j].offer # s
    BY <2>1 DEF PairInv, PairTypes, SlotsOwned, Slot
  <2>5. \A j \in Codes : open'[j] # Nothing => (j = k /\ open'[j] = slot) \/ (j # k /\ open'[j] = open[j])
    BY <1>0, <2>1
  <2>6. SlotsOwned' BY <2>1, <2>2, <2>4, <2>5 DEF PairInv, PairTypes, SlotsOwned
  <2>7. \A t \in Sockets : collected[t] # Nothing => collected[t].offer \in Sockets /\ collected[t].offer # s /\ t # s
    BY <2>1 DEF PairInv, PairTypes, CollectedGone, Slot
  <2>8. CollectedGone' BY <2>1, <2>2, <2>5, <2>7 DEF PairInv, PairTypes, CollectedGone
  <2>9. SlotsBounded'
    <3> DEFINE A == {j \in Codes : live[j] # Nothing}
               B == {j \in Codes : open'[j] # Nothing}
    <3>1. B \subseteq A \cup {k} BY <2>5, <1>0, <2>1
    <3>2. k \notin A /\ IsFiniteSet(A) /\ Cardinality(A) < MaxSlots /\ Cardinality(A) \in Nat
      <4>1. IsFiniteSet(A) /\ SlotsHeld(live) \in Nat BY <1>0, FewerHeld
      <4>2. Cardinality(A) = SlotsHeld(live) BY DEF SlotsHeld
      <4> QED BY <1>2, <4>1, <4>2, PairingBounds DEF Full
    <3> HIDE DEF A, B
    <3>3. IsFiniteSet(A \cup {k}) /\ Cardinality(A \cup {k}) = Cardinality(A) + 1
      BY <3>2, FS_AddElement
    <3>4. IsFiniteSet(B) /\ Cardinality(B) <= Cardinality(A \cup {k})
      BY <3>1, <3>3, FS_Subset
    <3>5. Cardinality(B) \in Nat BY <3>4, FS_CardinalityType
    <3>6. Cardinality(B) <= MaxSlots BY <3>2, <3>3, <3>4, <3>5, PairingBounds
    <3> QED BY <3>4, <3>6 DEF SlotsBounded, SlotsHeld, B
  <2> QED BY <2>3, <2>6, <2>8, <2>9 DEF PairInv
<1> QED BY <1>1, <1>2

LEMMA GiveUpStep ==
  ASSUME PairInv, NEW s \in Sockets, GiveUp(s)
  PROVE  PairInv'
<1>1. /\ open' = [open EXCEPT ![code[s]] = Nothing] /\ socket' = [socket EXCEPT ![s] = "over"]
      /\ socket[s] # "new" /\ UNCHANGED <<moment, code, deadline, collected, fetched>>
  BY DEF GiveUp, Without, Forgotten
<1>2. PairTypes' BY <1>1 DEF PairInv, PairTypes
<1>3. Fewer(open') /\ \A k \in Codes : open'[k] # Nothing => open'[k] = open[k] /\ k # code[s]
  BY <1>1 DEF PairInv, PairTypes, Fewer
<1>4. SlotsOwned' BY <1>1, <1>3 DEF PairInv, PairTypes, SlotsOwned, Slot
<1>5. CollectedGone' BY <1>1, <1>3 DEF PairInv, PairTypes, CollectedGone, Slot
<1>6. SlotsBounded' BY <1>3, FewerHeld DEF SlotsBounded, SlotsHeld
<1> QED BY <1>2, <1>4, <1>5, <1>6 DEF PairInv

LEMMA PollStep ==
  ASSUME PairInv, NEW s \in Sockets, Poll(s)
  PROVE  PairInv'
<1> DEFINE live == LiveSlots
           slot == live[code[s]]
<1>0. /\ live \in [Codes -> {Nothing} \cup Slot] /\ Fewer(live)
      /\ \A j \in Codes : live[j] # Nothing => live[j] = open[j]
  BY LiveIsFewer
<1> HIDE DEF live
<1>1. CASE ~(slot # Nothing /\ slot.answer # Nothing)
  <2>1. open' = live /\ UNCHANGED <<moment, socket, code, collected, fetched>>
    BY <1>1 DEF Poll, live
  <2>2. PairTypes' BY <1>0, <2>1 DEF PairInv, PairTypes
  <2> QED BY <1>0, <2>1, <2>2, ForgettingKeeps DEF PairInv
<1>2. CASE slot # Nothing /\ slot.answer # Nothing
  <2>1. /\ open' = [live EXCEPT ![code[s]] = Nothing] /\ collected' = [collected EXCEPT ![s] = slot]
        /\ socket[s] = "waiting" /\ socket' = [socket EXCEPT ![s] = "paired"]
        /\ UNCHANGED <<moment, code, deadline, fetched>>
    BY <1>2 DEF Poll, AfterCollecting, Forgotten, live
  <2>2. code[s] \in Codes /\ slot = open[code[s]] /\ slot \in Slot
    <3>1. code[s] \in Codes
      BY <2>1 DEF PairInv, PairTypes
    <3> QED BY <1>0, <1>2, <3>1 DEF PairInv, PairTypes
  <2>3. \A k \in Codes : open'[k] # Nothing => open'[k] = open[k] /\ k # code[s]
    BY <1>0, <2>1
  <2>4. PairTypes' BY <1>0, <2>1, <2>2 DEF PairInv, PairTypes
  <2>5. SlotsOwned' BY <2>1, <2>3 DEF PairInv, PairTypes, SlotsOwned, Slot
  <2>6. Fewer(open') BY <1>0, <2>1, <2>2 DEF Fewer
  <2>7. code[slot.offer] = code[s] /\ socket[slot.offer] \in {"held", "waiting"} /\ slot.offer \in Sockets
    BY <1>2, <2>2 DEF PairInv, SlotsOwned, Slot
  <2>8. \A k \in Codes : open'[k] # Nothing => open'[k].offer # slot.offer
    BY <2>3, <2>7 DEF PairInv, SlotsOwned
  <2>9. \A t \in Sockets : collected[t] # Nothing => collected[t].offer # slot.offer
    BY <1>2, <2>2 DEF PairInv, CollectedGone
  <2>10. CollectedGone'
    BY <2>1, <2>3, <2>7, <2>8, <2>9 DEF PairInv, PairTypes, CollectedGone, Slot
  <2>11. SlotsBounded' BY <2>6, FewerHeld DEF SlotsBounded, SlotsHeld
  <2> QED BY <2>4, <2>5, <2>10, <2>11 DEF PairInv
<1> QED BY <1>1, <1>2

LEMMA AnswerStep ==
  ASSUME PairInv, NEW d \in Devices, NEW k \in Codes, Answer(d, k)
  PROVE  PairInv'
<1> DEFINE live == LiveSlots
           answer == [for |-> fetched[d][k], by |-> d]
<1>0. /\ live \in [Codes -> {Nothing} \cup Slot] /\ Fewer(live)
      /\ \A j \in Codes : live[j] # Nothing => live[j] = open[j]
  BY LiveIsFewer
<1> HIDE DEF live
<1>1. CASE live[k] = Nothing \/ live[k].answer # Nothing
  <2>1. open' = live /\ UNCHANGED <<moment, socket, code, collected, fetched>>
    BY <1>1 DEF Answer, live
  <2>2. PairTypes' BY <1>0, <2>1 DEF PairInv, PairTypes
  <2> QED BY <1>0, <2>1, <2>2, ForgettingKeeps DEF PairInv
<1>2. CASE ~(live[k] = Nothing \/ live[k].answer # Nothing)
  <2>1. /\ open' = [live EXCEPT ![k] = [live[k] EXCEPT !.answer = answer]]
        /\ UNCHANGED <<moment, socket, code, collected, fetched>>
    BY <1>2 DEF Answer, live
  <2>2. answer \in [for : Sockets, by : Devices]
    BY DEF PairInv, PairTypes, Answer
  <2> HIDE DEF answer
  <2>3. open'[k] \in Slot /\ open'[k].offer = open[k].offer /\ open[k] # Nothing
    BY <1>0, <1>2, <2>1, <2>2 DEF Slot
  <2>4. PairTypes' BY <1>0, <2>1, <2>3 DEF PairInv, PairTypes
  <2>5. \A j \in Codes : open'[j] # Nothing => open[j] # Nothing /\ open'[j].offer = open[j].offer
    BY <1>0, <2>1, <2>3
  <2>6. SlotsOwned' BY <2>1, <2>5 DEF PairInv, SlotsOwned
  <2>7. CollectedGone' BY <2>1, <2>5 DEF PairInv, CollectedGone
  <2>8. SlotsBounded'
    <3> DEFINE A == {j \in Codes : open[j] # Nothing}
               B == {j \in Codes : open'[j] # Nothing}
    <3>1. B \subseteq A BY <2>5
    <3>2. IsFiniteSet(A) /\ Cardinality(A) <= MaxSlots
      BY DEF PairInv, SlotsBounded, SlotsHeld
    <3> HIDE DEF A, B
    <3>3. IsFiniteSet(B) /\ Cardinality(B) <= Cardinality(A) /\ Cardinality(A) \in Nat /\ Cardinality(B) \in Nat
      BY <3>1, <3>2, FS_Subset, FS_CardinalityType
    <3>4. Cardinality(B) <= MaxSlots BY <3>2, <3>3, PairingBounds
    <3> QED BY <3>3, <3>4 DEF SlotsBounded, SlotsHeld, B
  <2> QED BY <2>4, <2>6, <2>7, <2>8 DEF PairInv
<1> QED BY <1>1, <1>2

LEMMA PairStep == PairInv /\ [PairNext]_pairVars => PairInv'
<1> SUFFICES ASSUME PairInv, [PairNext]_pairVars PROVE PairInv' OBVIOUS
<1>1. ASSUME NEW s \in Sockets, SaidHeld(s) PROVE PairInv'
  BY <1>1 DEF SaidHeld, PairInv, PairTypes, SlotsOwned, CollectedGone, SlotsBounded, SlotsHeld, Slot
<1>2. ASSUME NEW d \in Devices, NEW k \in Codes, Fetch(d, k) PROVE PairInv'
  <2>1. open' = LiveSlots /\ UNCHANGED <<moment, socket, code, collected>>
    BY <1>2 DEF Fetch
  <2>2. LiveSlots[k] # Nothing => LiveSlots[k].offer \in Sockets
    BY LiveIsFewer DEF Slot
  <2>3. fetched' \in [Devices -> [Codes -> {Nothing} \cup Sockets]]
    BY <1>2, <2>2 DEF Fetch, PairInv, PairTypes
  <2>4. PairTypes' BY <2>1, <2>3, LiveIsFewer DEF PairInv, PairTypes
  <2> QED BY <2>1, <2>4, LiveIsFewer, ForgettingKeeps DEF PairInv
<1>3. CASE PairTick
  BY <1>3 DEF PairTick, PairInv, PairTypes, SlotsOwned, CollectedGone, SlotsBounded, SlotsHeld
<1>4. CASE UNCHANGED pairVars
  BY <1>4 DEF pairVars, PairInv, PairTypes, SlotsOwned, CollectedGone, SlotsBounded, SlotsHeld
<1> QED BY <1>1, <1>2, <1>3, <1>4, OfferStep, GiveUpStep, PollStep, AnswerStep DEF PairNext

\* Pairing answers reach one socket (pairing.rs, pairing_socket): for any codes, sockets
\* and devices, the socket that offered a live slot still waits, no answer is given to
\* two sockets, a socket is given one only from a slot under its own code, and no more
\* slots are held than the hub allows.
THEOREM AnswersServedOnce == PairSpec => []AnswersGoToOneSocket
<1>1. PairInv => AnswersGoToOneSocket
  <2> SUFFICES ASSUME PairInv PROVE AnswersGoToOneSocket OBVIOUS
  <2>1. \A k \in Codes : LiveSlots[k] # Nothing => socket[LiveSlots[k].offer] \in {"held", "waiting"}
    BY LiveIsFewer DEF PairInv, SlotsOwned
  <2> QED BY <2>1 DEF PairInv, CollectedGone, SlotsBounded, AnswersGoToOneSocket
<1> QED BY <1>1, PairInitially, PairStep, PTL DEF PairSpec

-----------------------------------------------------------------------------
\* Account slots.

\* The shards whose share of the count is not what they hold: one slot more.
Excess == {s \in Shards : counted[s] + reserved[s] # Cardinality(HeldBy(s))}

SlotTypes ==
  /\ total \in Nat /\ present \subseteq Accounts
  /\ counted \in [Shards -> Nat] /\ reserved \in [Shards -> {0, 1}]
  /\ call \in [Shards -> {"none", "admitting", "made"}]
  /\ newcomer \in [Shards -> Accounts \cup {NoAccount}]

\* What a shard has in the count is what it holds, or one slot more while its call
\* has reserved and not admitted, or has lost an account and not reconciled.
ShareOf(s) ==
  /\ counted[s] + reserved[s] - Cardinality(HeldBy(s)) \in {0, 1}
  /\ call[s] = "none" => reserved[s] = 0 /\ counted[s] = Cardinality(HeldBy(s))
  /\ call[s] = "admitting" =>
       /\ newcomer[s] \in Accounts /\ ShardOf[newcomer[s]] = s
       /\ counted[s] = Cardinality(HeldBy(s))
       /\ reserved[s] = IF newcomer[s] \in present THEN 0 ELSE 1

TotalExact ==
  /\ IsFiniteSet(Excess) /\ total = Cardinality(present) + Cardinality(Excess)
  /\ total <= MaxAccounts

SlotsInv == SlotTypes /\ (\A s \in Shards : ShareOf(s)) /\ TotalExact

LEMMA PresentFinite ==
  ASSUME NEW P, P \subseteq Accounts
  PROVE  IsFiniteSet(P) /\ Cardinality(P) \in Nat
BY ShardsAssumption, FS_Subset, FS_CardinalityType

LEMMA HeldFinite ==
  ASSUME SlotTypes, NEW s
  PROVE  IsFiniteSet(HeldBy(s)) /\ Cardinality(HeldBy(s)) \in Nat
BY PresentFinite DEF SlotTypes, HeldBy

LEMMA MoreExcess ==
  ASSUME SlotsInv, SlotTypes', NEW s \in Shards,
         \A t \in Shards \ {s} : HeldBy(t)' = HeldBy(t) /\ counted'[t] = counted[t] /\ reserved'[t] = reserved[t],
         s \notin Excess, s \in Excess'
  PROVE  IsFiniteSet(Excess') /\ Cardinality(Excess') = Cardinality(Excess) + 1 /\ Cardinality(Excess) \in Nat
<1>1. Excess' = Excess \cup {s} BY DEF Excess
<1>2. IsFiniteSet(Excess) BY DEF SlotsInv, TotalExact
<1> QED BY <1>1, <1>2, FS_AddElement, FS_CardinalityType

LEMMA LessExcess ==
  ASSUME SlotsInv, SlotTypes', NEW s \in Shards,
         \A t \in Shards \ {s} : HeldBy(t)' = HeldBy(t) /\ counted'[t] = counted[t] /\ reserved'[t] = reserved[t],
         s \in Excess, s \notin Excess'
  PROVE  IsFiniteSet(Excess') /\ Cardinality(Excess') = Cardinality(Excess) - 1 /\ Cardinality(Excess) \in Nat
<1>1. Excess' = Excess \ {s} BY DEF Excess
<1>2. IsFiniteSet(Excess) BY DEF SlotsInv, TotalExact
<1> QED BY <1>1, <1>2, FS_RemoveElement, FS_CardinalityType

LEMMA SlotsInitially == SlotsInit => SlotsInv
<1> SUFFICES ASSUME SlotsInit PROVE SlotsInv OBVIOUS
<1>1. SlotTypes BY DEF SlotsInit, SlotTypes
<1>2. \A s \in Shards : HeldBy(s) = {} BY DEF SlotsInit, HeldBy
<1>3. \A s \in Shards : Cardinality(HeldBy(s)) = 0 BY <1>2, FS_EmptySet
<1>4. \A s \in Shards : ShareOf(s) BY <1>3 DEF SlotsInit, ShareOf
<1>5. Excess = {} BY <1>3 DEF SlotsInit, Excess
<1>6. TotalExact BY <1>5, FS_EmptySet, ShardsAssumption DEF TotalExact, SlotsInit
<1> QED BY <1>1, <1>4, <1>6 DEF SlotsInv

LEMMA ReserveStep ==
  ASSUME SlotsInv, NEW s \in Shards, NEW a \in Accounts, Reserve(s, a)
  PROVE  SlotsInv'
<1>1. /\ ShardOf[a] = s /\ call[s] = "none" /\ call' = [call EXCEPT ![s] = "admitting"]
      /\ newcomer' = [newcomer EXCEPT ![s] = a] /\ UNCHANGED <<present, counted>>
  BY DEF Reserve
<1>2. \A t : HeldBy(t)' = HeldBy(t) BY <1>1 DEF HeldBy
<1>3. /\ Cardinality(HeldBy(s)) \in Nat /\ reserved[s] = 0 /\ counted[s] = Cardinality(HeldBy(s)) /\ s \notin Excess
      /\ Cardinality(present) \in Nat
  BY <1>1, HeldFinite, PresentFinite DEF SlotsInv, SlotTypes, ShareOf, Excess
<1>4. CASE a \in present
  <2>1. UNCHANGED <<total, reserved>> BY <1>4 DEF Reserve
  <2>2. SlotTypes' BY <1>1, <2>1 DEF SlotsInv, SlotTypes
  <2>3. ASSUME NEW t \in Shards PROVE ShareOf(t)'
    BY <1>1, <1>2, <1>3, <1>4, <2>1 DEF SlotsInv, SlotTypes, ShareOf
  <2>4. Excess' = Excess BY <1>1, <1>2, <2>1 DEF Excess
  <2> QED BY <1>1, <2>1, <2>2, <2>3, <2>4 DEF SlotsInv, TotalExact
<1>5. CASE a \notin present
  <2>1. total < MaxAccounts /\ total' = total + 1 /\ reserved' = [reserved EXCEPT ![s] = 1]
    BY <1>5 DEF Reserve, SlotLeft
  <2>2. SlotTypes' BY <1>1, <2>1 DEF SlotsInv, SlotTypes
  <2>3. ASSUME NEW t \in Shards PROVE ShareOf(t)'
    BY <1>1, <1>2, <1>3, <1>5, <2>1 DEF SlotsInv, SlotTypes, ShareOf
  <2>4. s \in Excess'
    BY <1>1, <1>2, <1>3, <2>1 DEF SlotsInv, SlotTypes, Excess
  <2>5. IsFiniteSet(Excess') /\ Cardinality(Excess') = Cardinality(Excess) + 1 /\ Cardinality(Excess) \in Nat
    BY <1>1, <1>2, <1>3, <2>1, <2>2, <2>4, MoreExcess DEF SlotsInv, SlotTypes
  <2>6. total' = Cardinality(present') + Cardinality(Excess')
    BY <1>1, <1>3, <2>1, <2>5 DEF SlotsInv, TotalExact
  <2>7. total' <= MaxAccounts BY <2>1, ShardsAssumption DEF SlotsInv, SlotTypes
  <2> QED BY <2>2, <2>3, <2>5, <2>6, <2>7 DEF SlotsInv, TotalExact
<1> QED BY <1>4, <1>5

\* A call that changes nothing of what the shards hold.
LEMMA MadeStep ==
  ASSUME SlotsInv, NEW s \in Shards, call' = [call EXCEPT ![s] = "made"], newcomer' \in [Shards -> Accounts \cup {NoAccount}],
         \A t \in Shards \ {s} : newcomer'[t] = newcomer[t], UNCHANGED <<total, present, counted, reserved>>
  PROVE  SlotsInv'
<1>1. SlotTypes' BY DEF SlotsInv, SlotTypes
<1>2. \A t : HeldBy(t)' = HeldBy(t) BY DEF HeldBy
<1>3. ASSUME NEW t \in Shards PROVE ShareOf(t)'
  BY <1>2 DEF SlotsInv, SlotTypes, ShareOf
<1>4. Excess' = Excess BY <1>2 DEF Excess
<1> QED BY <1>1, <1>3, <1>4 DEF SlotsInv, TotalExact

LEMMA AdmitStep ==
  ASSUME SlotsInv, NEW s \in Shards, NEW refused \in BOOLEAN, Admit(s, refused)
  PROVE  SlotsInv'
<1> DEFINE n == newcomer[s]
<1>1. /\ call[s] = "admitting" /\ call' = [call EXCEPT ![s] = "made"] /\ newcomer' = [newcomer EXCEPT ![s] = NoAccount]
      /\ UNCHANGED <<total, counted, reserved>>
  BY DEF Admit
<1>2. /\ n \in Accounts /\ ShardOf[n] = s /\ counted[s] = Cardinality(HeldBy(s))
      /\ reserved[s] = IF n \in present THEN 0 ELSE 1
  BY <1>1 DEF SlotsInv, ShareOf
<1>3. CASE refused \/ n \in present
  <2>1. present' = present BY <1>3 DEF Admit
  <2> QED BY <1>1, <2>1, MadeStep DEF SlotsInv, SlotTypes
<1>4. CASE ~refused /\ n \notin present
  <2>1. present' = present \cup {n} BY <1>4 DEF Admit
  <2>2. SlotTypes' BY <1>1, <1>2, <2>1 DEF SlotsInv, SlotTypes
  <2>3. \A t \in Shards \ {s} : HeldBy(t)' = HeldBy(t) BY <1>2, <2>1 DEF HeldBy
  <2>4. HeldBy(s)' = HeldBy(s) \cup {n} /\ n \notin HeldBy(s) BY <1>2, <1>4, <2>1 DEF HeldBy
  <2>5. Cardinality(HeldBy(s)') = Cardinality(HeldBy(s)) + 1 /\ Cardinality(HeldBy(s)) \in Nat
    BY <2>4, HeldFinite, FS_AddElement DEF SlotsInv
  <2>6. Cardinality(present') = Cardinality(present) + 1 /\ Cardinality(present) \in Nat
    BY <1>4, <2>1, PresentFinite, FS_AddElement DEF SlotsInv, SlotTypes
  <2>7. ASSUME NEW t \in Shards PROVE ShareOf(t)'
    <3>1. CASE t = s
      BY <1>1, <1>2, <1>4, <2>5, <3>1 DEF SlotsInv, SlotTypes, ShareOf
    <3>2. CASE t # s
      <4>1. ShareOf(t) /\ UNCHANGED <<counted, reserved, call[t], newcomer[t], HeldBy(t)>>
        BY <1>1, <2>3, <3>2 DEF SlotsInv, SlotTypes
      <4>2. call[t] = "admitting" => newcomer[t] \in present' <=> newcomer[t] \in present
        BY <4>1, <1>2, <2>1, <3>2 DEF ShareOf
      <4> QED BY <4>1, <4>2 DEF ShareOf
    <3> QED BY <3>1, <3>2
  <2>8. s \in Excess /\ s \notin Excess'
    BY <1>1, <1>2, <1>4, <2>5 DEF Excess
  <2>9. IsFiniteSet(Excess') /\ Cardinality(Excess') = Cardinality(Excess) - 1 /\ Cardinality(Excess) \in Nat
    BY <1>1, <2>2, <2>3, <2>8, LessExcess
  <2>10. TotalExact'
    BY <1>1, <2>6, <2>9 DEF SlotsInv, TotalExact
  <2> QED BY <2>2, <2>7, <2>10 DEF SlotsInv
<1> QED BY <1>3, <1>4

LEMMA CallStep ==
  ASSUME SlotsInv, NEW s \in Shards, NEW gone \in SUBSET Accounts, Call(s, gone)
  PROVE  SlotsInv'
<1>1. /\ call[s] = "none" /\ gone \subseteq HeldBy(s) /\ Cardinality(gone) <= 1 /\ present' = present \ gone
      /\ call' = [call EXCEPT ![s] = "made"] /\ UNCHANGED <<total, counted, reserved, newcomer>>
  BY DEF Call
<1>2. reserved[s] = 0 /\ counted[s] = Cardinality(HeldBy(s))
  BY <1>1 DEF SlotsInv, ShareOf
<1>3. gone = {} \/ \E a \in gone : gone = {a}
  <2>1. IsFiniteSet(gone) /\ Cardinality(gone) \in Nat BY PresentFinite
  <2>2. Cardinality(gone) = 0 \/ Cardinality(gone) = 1 BY <1>1, <2>1
  <2> QED BY <2>1, <2>2, FS_EmptySet, FS_Singleton
<1>4. CASE gone = {}
  <2>1. present' = present BY <1>1, <1>4
  <2> QED BY <1>1, <2>1, MadeStep DEF SlotsInv, SlotTypes
<1>5. ASSUME NEW a \in gone, gone = {a} PROVE SlotsInv'
  <2>1. present' = present \ {a} /\ a \in present /\ ShardOf[a] = s BY <1>1, <1>5 DEF HeldBy
  <2>2. SlotTypes' BY <1>1, <2>1 DEF SlotsInv, SlotTypes
  <2>3. \A t \in Shards \ {s} : HeldBy(t)' = HeldBy(t) BY <2>1 DEF HeldBy
  <2>4. HeldBy(s)' = HeldBy(s) \ {a} /\ a \in HeldBy(s) BY <2>1 DEF HeldBy
  <2>5. Cardinality(HeldBy(s)') = Cardinality(HeldBy(s)) - 1 /\ Cardinality(HeldBy(s)) \in Nat
        /\ Cardinality(HeldBy(s)') \in Nat
    BY <2>2, <2>4, HeldFinite, FS_RemoveElement, FS_CardinalityType DEF SlotsInv
  <2>6. Cardinality(present') = Cardinality(present) - 1 /\ Cardinality(present) \in Nat
    BY <2>1, PresentFinite, FS_RemoveElement DEF SlotsInv, SlotTypes
  <2>7. ASSUME NEW t \in Shards PROVE ShareOf(t)'
    <3>1. CASE t = s
      BY <1>1, <1>2, <2>5, <3>1 DEF SlotsInv, SlotTypes, ShareOf
    <3>2. CASE t # s
      <4>1. ShareOf(t) /\ UNCHANGED <<counted, reserved, call[t], newcomer[t], HeldBy(t)>>
        BY <1>1, <2>3, <3>2 DEF SlotsInv, SlotTypes
      <4>2. call[t] = "admitting" => newcomer[t] \in present' <=> newcomer[t] \in present
        BY <4>1, <2>1, <3>2 DEF ShareOf
      <4> QED BY <4>1, <4>2 DEF ShareOf
    <3> QED BY <3>1, <3>2
  <2>8. s \notin Excess /\ s \in Excess'
    BY <1>1, <1>2, <2>5 DEF Excess
  <2>9. IsFiniteSet(Excess') /\ Cardinality(Excess') = Cardinality(Excess) + 1 /\ Cardinality(Excess) \in Nat
    BY <1>1, <2>2, <2>3, <2>8, MoreExcess
  <2>10. TotalExact'
    BY <1>1, <2>6, <2>9 DEF SlotsInv, TotalExact
  <2> QED BY <2>2, <2>7, <2>10 DEF SlotsInv
<1> QED BY <1>3, <1>4, <1>5

LEMMA ReconcileStep ==
  ASSUME SlotsInv, NEW s \in Shards, Reconcile(s)
  PROVE  SlotsInv'
<1> DEFINE h == Cardinality(HeldBy(s))
<1>1. /\ call[s] = "made" /\ total' = total + (h - counted[s] - reserved[s])
      /\ counted' = [counted EXCEPT ![s] = h] /\ reserved' = [reserved EXCEPT ![s] = 0]
      /\ call' = [call EXCEPT ![s] = "none"] /\ UNCHANGED <<present, newcomer>>
  BY DEF Reconcile, Change
<1>2. h \in Nat /\ counted[s] + reserved[s] - h \in {0, 1} BY HeldFinite DEF SlotsInv, ShareOf
<1>3. \A t : HeldBy(t)' = HeldBy(t) BY <1>1 DEF HeldBy
<1>4. Cardinality(present) \in Nat /\ total = Cardinality(present) + Cardinality(Excess)
      /\ IsFiniteSet(Excess) /\ Cardinality(Excess) \in Nat /\ total <= MaxAccounts /\ total \in Nat
  BY PresentFinite, FS_CardinalityType DEF SlotsInv, SlotTypes, TotalExact
<1>5. s \notin Excess' BY <1>1, <1>2, <1>3 DEF SlotsInv, SlotTypes, Excess
<1>6. IsFiniteSet(Excess') /\ Cardinality(Excess') = Cardinality(Excess) + (h - counted[s] - reserved[s])
      /\ Cardinality(Excess') \in Nat
  <2>1. Excess' = Excess \ {s} BY <1>1, <1>3, <1>5 DEF SlotsInv, SlotTypes, Excess
  <2>2. s \in Excess <=> counted[s] + reserved[s] # h BY DEF Excess
  <2>3. CASE s \in Excess
    <3>1. h - counted[s] - reserved[s] = -1 BY <1>2, <2>2, <2>3 DEF SlotsInv, SlotTypes
    <3>2. IsFiniteSet(Excess \ {s}) /\ Cardinality(Excess \ {s}) = Cardinality(Excess) - 1
      BY <1>4, <2>3, FS_RemoveElement
    <3> QED BY <1>4, <2>1, <3>1, <3>2, FS_CardinalityType
  <2>4. CASE s \notin Excess
    <3>1. h - counted[s] - reserved[s] = 0 BY <1>2, <2>2, <2>4 DEF SlotsInv, SlotTypes
    <3>2. Excess' = Excess BY <2>1, <2>4
    <3>3. Cardinality(Excess) + (h - counted[s] - reserved[s]) = Cardinality(Excess) BY <1>4, <3>1
    <3> QED BY <1>4, <3>2, <3>3
  <2> QED BY <2>3, <2>4
<1>7. h - counted[s] - reserved[s] \in {0, -1} BY <1>2 DEF SlotsInv, SlotTypes
<1> HIDE DEF h
<1>8. total' = Cardinality(present') + Cardinality(Excess') /\ total' \in Nat /\ total' <= MaxAccounts
  BY <1>1, <1>4, <1>6, <1>7, ShardsAssumption
<1>9. SlotTypes' BY <1>1, <1>2, <1>8 DEF SlotsInv, SlotTypes
<1>10. ASSUME NEW t \in Shards PROVE ShareOf(t)'
  <2>1. CASE t = s BY <1>1, <1>2, <1>3, <2>1 DEF SlotsInv, SlotTypes, ShareOf, h
  <2>2. CASE t # s BY <1>1, <1>3, <2>2 DEF SlotsInv, SlotTypes, ShareOf
  <2> QED BY <2>1, <2>2
<1> QED BY <1>6, <1>8, <1>9, <1>10 DEF SlotsInv, TotalExact

LEMMA SlotsStep == SlotsInv /\ [SlotsNext]_slotVars => SlotsInv'
<1> SUFFICES ASSUME SlotsInv, [SlotsNext]_slotVars PROVE SlotsInv' OBVIOUS
<1>1. CASE UNCHANGED slotVars
  BY <1>1 DEF slotVars, SlotsInv, SlotTypes, ShareOf, TotalExact, Excess, HeldBy
<1> QED BY <1>1, ReserveStep, AdmitStep, CallStep, ReconcileStep DEF SlotsNext

\* The account limit (Shared::accounts, reconcile_accounts): for any number of shards
\* and any limit, the count is never below what the shards hold nor above the limit,
\* and exact whenever no call is under way.
THEOREM AccountLimitHolds == SlotsSpec => []AccountsCounted
<1>1. SlotsInv => AccountsCounted
  <2> SUFFICES ASSUME SlotsInv PROVE AccountsCounted OBVIOUS
  <2>1. Cardinality(present) \in Nat /\ Cardinality(Excess) \in Nat
    BY PresentFinite, FS_CardinalityType DEF SlotsInv, SlotTypes, TotalExact
  <2>2. ASSUME \A s \in Shards : call[s] = "none" PROVE Excess = {}
    BY <2>2 DEF SlotsInv, SlotTypes, ShareOf, Excess
  <2>3. ASSUME \A s \in Shards : call[s] = "none" PROVE Cardinality(Excess) = 0
    BY <2>2, <2>3, FS_EmptySet
  <2> QED BY <2>1, <2>3 DEF SlotsInv, TotalExact, AccountsCounted
<1> QED BY <1>1, SlotsInitially, SlotsStep, PTL DEF SlotsSpec

-----------------------------------------------------------------------------
\* Division that truncates: what a rate earns in two spans and in both together.

LEMMA TimesMonotone ==
  ASSUME NEW x \in Int, NEW y \in Int, NEW s \in Nat, x <= y
  PROVE  x * s <= y * s
<1> DEFINE d == y - x
<1>1. d \in Nat OBVIOUS
<1> HIDE DEF d
<1>2. d * s \in Nat BY <1>1
<1>3. y = x + d BY DEF d
<1>4. y * s = x * s + d * s BY <1>3, <1>1
<1>5. x * s \in Int OBVIOUS
<1> QED BY <1>2, <1>4, <1>5

LEMMA Quotient ==
  ASSUME NEW a \in Nat, NEW s \in Nat \ {0}
  PROVE  a \div s \in Nat /\ (a \div s) * s <= a /\ a < (a \div s) * s + s
<1> DEFINE q == a \div s
<1>2. q \in Nat /\ q * s <= a /\ a < (q + 1) * s OBVIOUS
<1>3. (q + 1) * s = q * s + s BY <1>2
<1> QED BY <1>2, <1>3

LEMMA QuotientAtLeast ==
  ASSUME NEW a \in Nat, NEW s \in Nat \ {0}, NEW q \in Int, q * s <= a
  PROVE  q <= a \div s
<1> DEFINE p == a \div s
<1>1. p \in Nat /\ a < p * s + s BY Quotient
<1> HIDE DEF p
<1>2. ASSUME p + 1 <= q PROVE FALSE
  <2>1. (p + 1) * s <= q * s BY <1>1, <1>2, TimesMonotone
  <2>2. (p + 1) * s = p * s + s BY <1>1
  <2>3. p * s \in Int /\ q * s \in Int BY <1>1
  <2> QED BY <1>1, <2>1, <2>2, <2>3
<1>3. q <= p BY <1>1, <1>2
<1> QED BY <1>3 DEF p

LEMMA QuotientsAdd ==
  ASSUME NEW a \in Nat, NEW b \in Nat, NEW s \in Nat \ {0}
  PROVE  /\ a \div s + b \div s <= (a + b) \div s
         /\ (a + b) \div s <= a \div s + b \div s + 1
<1> DEFINE p == a \div s
           q == b \div s
           r == (a + b) \div s
<1>1. p \in Nat /\ p * s <= a /\ a < p * s + s BY Quotient
<1>2. q \in Nat /\ q * s <= b /\ b < q * s + s BY Quotient
<1>3. r \in Nat /\ r * s <= a + b /\ a + b < r * s + s BY Quotient
<1> HIDE DEF p, q, r
<1>4. (p + q) * s = p * s + q * s BY <1>1, <1>2
<1>5. p * s \in Nat /\ q * s \in Nat /\ r * s \in Nat BY <1>1, <1>2, <1>3
<1>6. (p + q) * s <= a + b BY <1>1, <1>2, <1>4, <1>5
<1>7. p + q <= r BY <1>6, <1>1, <1>2, QuotientAtLeast DEF r
<1>8. ASSUME p + q + 2 <= r PROVE FALSE
  <2>1. (p + q + 2) * s <= r * s BY <1>1, <1>2, <1>3, <1>8, TimesMonotone
  <2>2. (p + q + 2) * s = p * s + q * s + s + s BY <1>1, <1>2
  <2> QED BY <1>1, <1>2, <1>3, <1>5, <2>1, <2>2
<1>9. r <= p + q + 1 BY <1>1, <1>2, <1>3, <1>8
<1> QED BY <1>7, <1>9 DEF p, q, r

-----------------------------------------------------------------------------
\* What strangers owe.

Earned(n) == (n * UsRate) \div UsScale
Unit == RefusedHelloUs + 1
Charged == {s \in Socks : charge[s] > 0}
Places == Cardinality(Charged)

GateTypes ==
  /\ time \in Nat /\ creditAt \in Nat /\ creditAt <= time
  /\ credit \in Int /\ credit <= UsBurst /\ late \in Nat
  /\ loop \in [peer : Peers \cup {NoPeer}, until : Nat]
  /\ sock \in [Socks -> Unauthenticated \cup {"off", "connected"}]
  /\ charge \in [Socks -> 0..RefusedHelloUs]

\* Whoever may still be charged has a place, and of those there are so many.
PlacesTaken ==
  /\ \A s \in Socks : charge[s] > 0 => s \in Pending
  /\ \A s \in Socks : sock[s] \in {"handshake", "challenged"} => charge[s] > 0
  /\ IsFiniteSet(Pending) /\ Cardinality(Pending) <= MaxPending

\* No place is taken while the loop sleeps: what was charged since, and what the
\* places may still cost, is what they all may cost.
BehindBounded == loop # Quiet => late + Places * Unit <= MaxPending * Unit

\* The debt, and what the places may still add to it.
DebtCovered == Places * Unit - Credited <= (MaxPending + 1) * Unit

\* Whenever the sleep ends, what was owed at its start has been earned.
RepaidInTime ==
  loop # Quiet =>
    \A t \in Nat : t >= loop.until /\ t >= creditAt => -late <= credit + Earned(t - creditAt)

PaceInv == GateTypes /\ PlacesTaken /\ BehindBounded /\ DebtCovered /\ RepaidInTime /\ DebtBounded

LEMMA RatesAreNatural ==
  /\ MaxPending \in Nat /\ UsBurst \in Nat /\ UsRate \in Nat \ {0} /\ UsScale \in Nat \ {0}
  /\ MaxTracked \in Nat /\ PerMinute \in Nat \ {0} /\ Minute \in Nat \ {0} /\ Whole \in Nat \ {0}
  /\ ArrivalBurst \in Nat \ {0} /\ ArrivalBurst >= Whole
  /\ NoHelloUs \in 1..RefusedHelloUs /\ RefusedHelloUs \in Nat \ {0} /\ Unit \in Nat \ {0}
BY GateAssumption DEF Unit

LEMMA EarnedAdds ==
  ASSUME NEW m \in Nat, NEW n \in Nat
  PROVE  /\ Earned(m) \in Nat /\ Earned(n) \in Nat /\ Earned(m + n) \in Nat
         /\ Earned(m) + Earned(n) <= Earned(m + n)
         /\ Earned(m + n) <= Earned(m) + Earned(n) + 1
<1> DEFINE a == m * UsRate
           b == n * UsRate
<1>1. a \in Nat /\ b \in Nat /\ (m + n) * UsRate = a + b BY RatesAreNatural
<1> HIDE DEF a, b
<1>2. /\ a \div UsScale \in Nat /\ b \div UsScale \in Nat /\ (a + b) \div UsScale \in Nat
  BY <1>1, Quotient, RatesAreNatural
<1>3. /\ a \div UsScale + b \div UsScale <= (a + b) \div UsScale
      /\ (a + b) \div UsScale <= a \div UsScale + b \div UsScale + 1
  BY <1>1, QuotientsAdd, RatesAreNatural
<1>4. Earned(m) = a \div UsScale /\ Earned(n) = b \div UsScale /\ Earned(m + n) = (a + b) \div UsScale
  BY <1>1 DEF Earned, a, b
<1> QED BY <1>2, <1>3, <1>4

LEMMA CreditedIs ==
  ASSUME GateTypes
  PROVE  /\ Credited \in Int /\ Credited <= UsBurst /\ Earned(time - creditAt) \in Nat
         /\ Credited = UsBurst \/ Credited = credit + Earned(time - creditAt)
         /\ credit <= Credited
<1>1. time - creditAt \in Nat BY DEF GateTypes
<1>2. Earned(time - creditAt) \in Nat BY <1>1, EarnedAdds
<1>3. Credited = Least(credit + Earned(time - creditAt), UsBurst) BY DEF Credited, Earned
<1> HIDE DEF Credited
<1> QED BY <1>2, <1>3, RatesAreNatural DEF GateTypes, Least

\* Strangers::wait rounds up: after it the debt is earned.
LEMMA OwedIsEnough ==
  ASSUME GateTypes, NEW n \in Nat, n >= Owed
  PROVE  Owed \in Nat /\ 0 <= Credited + Earned(n)
<1>0. Credited \in Int BY CreditedIs
<1>1. CASE Credited >= 0
  <2>1. Earned(n) \in Nat BY EarnedAdds
  <2> QED BY <1>0, <1>1, <2>1 DEF Owed
<1>2. CASE Credited < 0
  <2> DEFINE debt == -Credited
             d == debt * UsScale
             a == d + UsRate - 1
             o == a \div UsRate
  <2>1. debt \in Nat /\ d \in Nat /\ a \in Nat /\ UsRate \in Nat \ {0} /\ UsScale \in Nat \ {0}
    BY <1>0, <1>2, RatesAreNatural
  <2>2. Owed = o BY <1>0, <1>2 DEF Owed
  <2> HIDE DEF a
  <2>3. o \in Nat /\ a < o * UsRate + UsRate BY <2>1, Quotient
  <2> HIDE DEF o, d
  <2>4. o * UsRate \in Nat BY <2>1, <2>3
  <2>5. d <= o * UsRate BY <2>1, <2>3, <2>4 DEF a
  <2>6. o * UsRate <= n * UsRate BY <2>1, <2>2, <2>3, TimesMonotone
  <2>7. n * UsRate \in Nat BY <2>1
  <2>8. d <= n * UsRate BY <2>1, <2>4, <2>5, <2>6, <2>7
  <2>9. debt <= (n * UsRate) \div UsScale BY <2>1, <2>7, <2>8, QuotientAtLeast DEF d
  <2>10. debt <= Earned(n) /\ Earned(n) \in Nat BY <2>9, EarnedAdds DEF Earned
  <2> QED BY <1>0, <2>2, <2>3, <2>10
<1> QED BY <1>0, <1>1, <1>2

LEMMA PlacesCounted ==
  ASSUME PaceInv
  PROVE  /\ IsFiniteSet(Charged) /\ Places \in Nat /\ Places <= MaxPending
         /\ Places * Unit \in Nat /\ Places * Unit <= MaxPending * Unit /\ MaxPending * Unit \in Nat
         /\ (MaxPending + 1) * Unit = MaxPending * Unit + Unit
<1>1. Charged \subseteq Pending BY DEF PaceInv, PlacesTaken, Charged
<1>2. IsFiniteSet(Charged) /\ Places <= Cardinality(Pending) /\ Places \in Nat /\ Cardinality(Pending) \in Nat
  BY <1>1, FS_Subset, FS_CardinalityType DEF PaceInv, PlacesTaken, Places
<1>3. Places <= MaxPending BY <1>2, RatesAreNatural DEF PaceInv, PlacesTaken
<1>4. Places * Unit <= MaxPending * Unit BY <1>2, <1>3, RatesAreNatural, TimesMonotone
<1> QED BY <1>2, <1>3, <1>4, RatesAreNatural

LEMMA PaceInitially == GateInit => PaceInv
<1> SUFFICES ASSUME GateInit PROVE PaceInv OBVIOUS
<1>1. GateTypes /\ loop = Quiet
  BY RatesAreNatural DEF GateInit, GateTypes, Quiet, Unauthenticated
<1>2. Pending = {} /\ Charged = {}
  BY DEF GateInit, Pending, Unauthenticated, Charged
<1>3. PlacesTaken
  BY <1>2, FS_EmptySet, RatesAreNatural DEF PlacesTaken, GateInit, Charged
<1>4. Places = 0 BY <1>2, FS_EmptySet DEF Places
<1>5. credit = UsBurst /\ credit <= Credited /\ Credited \in Int BY <1>1, CreditedIs DEF GateInit
<1>6. Places * Unit = 0 /\ (MaxPending + 1) * Unit \in Nat BY <1>4, RatesAreNatural
<1>7. DebtCovered /\ DebtBounded
  BY <1>5, <1>6, RatesAreNatural DEF DebtCovered, DebtBounded, Unit
<1> QED BY <1>1, <1>3, <1>7 DEF PaceInv, BehindBounded, RepaidInTime

\* A step that leaves the clock, the credit and the charges due alone.
LEMMA SettleKeeps ==
  ASSUME PaceInv, GateTypes', PlacesTaken', UNCHANGED <<time, loop, credit, creditAt, late>>,
         Charged' \subseteq Charged
  PROVE  PaceInv'
<1>1. IsFiniteSet(Charged) /\ Places \in Nat BY PlacesCounted
<1>2. IsFiniteSet(Charged') /\ Places' <= Places /\ Places' \in Nat
  BY <1>1, FS_Subset, FS_CardinalityType DEF Places
<1> DEFINE n == Places
           o == Places'
<1>3. o * Unit <= n * Unit /\ o * Unit \in Nat /\ n * Unit \in Nat
  <2>1. n \in Nat /\ o \in Nat /\ o <= n /\ Unit \in Nat BY <1>1, <1>2, RatesAreNatural
  <2> HIDE DEF n, o
  <2>2. o * Unit <= n * Unit BY <2>1, TimesMonotone
  <2> QED BY <2>1, <2>2
<1>4. Credited' = Credited /\ Credited \in Int BY CreditedIs DEF Credited, PaceInv
<1>5. MaxPending * Unit \in Nat /\ (MaxPending + 1) * Unit \in Nat BY RatesAreNatural
<1>6. Unit' = Unit BY DEF Unit
<1>7. BehindBounded'
  BY <1>3, <1>5, <1>6 DEF PaceInv, BehindBounded, GateTypes, Quiet
<1>8. DebtCovered'
  BY <1>3, <1>4, <1>5, <1>6 DEF PaceInv, DebtCovered
<1>9. RepaidInTime' /\ DebtBounded'
  BY DEF PaceInv, RepaidInTime, Quiet, Earned, DebtBounded
<1> QED BY <1>7, <1>8, <1>9 DEF PaceInv

\* A place ends (the drop of a Stranger): what it is charged it no longer may cost.
LEMMA DropKeeps ==
  ASSUME PaceInv, NEW s \in Socks, Dropped(s), UNCHANGED <<time, loop>>
  PROVE  PaceInv'
<1> DEFINE c == charge[s]
<1>1. sock' = [sock EXCEPT ![s] = "off"] /\ charge' = [charge EXCEPT ![s] = 0] /\ c \in 0..RefusedHelloUs
  BY DEF Dropped, PaceInv, GateTypes
<1>2. PlacesTaken'
  <2>1. Pending' = Pending \ {s} BY <1>1 DEF Pending, Unauthenticated, PaceInv, GateTypes
  <2>2. IsFiniteSet(Pending) /\ Cardinality(Pending) <= MaxPending BY DEF PaceInv, PlacesTaken
  <2>3. IsFiniteSet(Pending') /\ Cardinality(Pending') <= Cardinality(Pending) /\ Cardinality(Pending') \in Nat
        /\ Cardinality(Pending) \in Nat
    BY <2>1, <2>2, FS_Subset, FS_CardinalityType
  <2>4. Cardinality(Pending') <= MaxPending BY <2>2, <2>3, RatesAreNatural
  <2> QED BY <1>1, <2>1, <2>3, <2>4 DEF PaceInv, PlacesTaken, GateTypes
<1>3. CASE c = 0
  <2>1. UNCHANGED <<credit, creditAt, late>> BY <1>3 DEF Dropped
  <2>2. GateTypes' BY <1>1, <2>1, RatesAreNatural DEF PaceInv, GateTypes, Unauthenticated
  <2>3. Charged' \subseteq Charged BY <1>1 DEF Charged, PaceInv, GateTypes
  <2> QED BY <1>2, <2>1, <2>2, <2>3, SettleKeeps
<1>4. CASE c > 0
  <2>1. credit' = Credited - c /\ creditAt' = time /\ late' = late + c + 1 BY <1>4 DEF Dropped
  <2>2. Credited \in Int /\ Credited <= UsBurst BY CreditedIs DEF PaceInv
  <2>3. GateTypes'
    BY <1>1, <2>1, <2>2, RatesAreNatural DEF PaceInv, GateTypes, Unauthenticated
  <2>4. Charged' = Charged \ {s} /\ s \in Charged BY <1>1, <1>4 DEF Charged, PaceInv, GateTypes
  <2>5. IsFiniteSet(Charged) /\ Places \in Nat /\ Places * Unit \in Nat /\ MaxPending * Unit \in Nat
        /\ (MaxPending + 1) * Unit = MaxPending * Unit + Unit
    BY PlacesCounted
  <2>6. Places' = Places - 1 BY <2>4, <2>5, FS_RemoveElement DEF Places
  <2>7. Places' * Unit = Places * Unit - Unit BY <2>5, <2>6, RatesAreNatural
  <2>8. Unit \in Nat /\ c + 1 <= Unit /\ c \in Nat BY <1>1, RatesAreNatural DEF Unit
  <2>9. Credited' = credit'
    <3>1. Earned(0) = 0
      <4>1. Earned(0) + Earned(0) <= Earned(0 + 0) /\ Earned(0) \in Nat BY EarnedAdds
      <4> QED BY <4>1
    <3>2. time' - creditAt' = 0 BY <2>1 DEF PaceInv, GateTypes
    <3>3. Credited' = Least(credit' + Earned(0), UsBurst) BY <3>2 DEF Credited, Earned
    <3> QED BY <3>1, <3>3, <2>3, RatesAreNatural DEF Least, GateTypes
  <2> DEFINE p == Places * Unit
             m == MaxPending * Unit
             cr == Credited
  <2>10. BehindBounded'
    <3>1. p \in Nat /\ m \in Nat /\ late \in Nat BY <2>5 DEF PaceInv, GateTypes
    <3>2. loop # Quiet => late + p <= m BY DEF PaceInv, BehindBounded
    <3> HIDE DEF p, m, c
    <3>3. loop # Quiet => (late + c + 1) + (p - Unit) <= m BY <3>1, <3>2, <2>8
    <3> QED BY <3>3, <2>1, <2>7 DEF BehindBounded, Quiet, p, m, Unit
  <2>11. p - cr <= m + Unit BY <2>5 DEF PaceInv, DebtCovered
  <2>12. p >= Unit
    <3>1. Places >= 1 BY <2>6, <2>5, <2>4, FS_RemoveElement, FS_CardinalityType DEF Places
    <3>2. 1 * Unit <= Places * Unit BY <3>1, <2>5, <2>8, TimesMonotone
    <3> QED BY <3>2, <2>8
  <2>13. p \in Nat /\ m \in Nat /\ cr \in Int BY <2>2, <2>5
  <2>14. DebtCovered'
    <3> HIDE DEF p, m, c, cr
    <3>1. (p - Unit) - (cr - c) <= m + Unit BY <2>8, <2>11, <2>13
    <3> QED BY <3>1, <2>1, <2>5, <2>7, <2>9 DEF DebtCovered, p, m, cr, Unit
  <2>15. DebtBounded'
    <3> HIDE DEF p, m, c, cr
    <3>1. -(cr - c) <= m + Unit BY <2>8, <2>11, <2>12, <2>13
    <3> QED BY <3>1, <2>1, <2>5 DEF DebtBounded, Unit, m, cr
  <2>16. RepaidInTime'
    <3> SUFFICES ASSUME loop # Quiet, NEW t \in Nat, t >= loop.until, t >= time
                 PROVE  -late' <= credit' + Earned(t - time)
      BY <2>1 DEF RepaidInTime, Quiet, Earned
    <3>1. /\ time - creditAt \in Nat /\ t - time \in Nat /\ t - creditAt = (time - creditAt) + (t - time)
          /\ t >= creditAt /\ late \in Nat /\ credit \in Int
      BY DEF PaceInv, GateTypes
    <3> DEFINE x == Earned(time - creditAt)
               y == Earned(t - time)
               z == Earned(t - creditAt)
    <3>2. x \in Nat /\ y \in Nat /\ z \in Nat /\ z <= x + y + 1 BY <3>1, EarnedAdds
    <3>3. -late <= credit + z BY <3>1 DEF PaceInv, RepaidInTime
    <3>4. cr = UsBurst \/ cr = credit + x BY CreditedIs DEF PaceInv
    <3> HIDE DEF x, y, z, cr, c
    <3>5. -(late + c + 1) <= (cr - c) + y BY <3>1, <3>2, <3>3, <3>4, <2>8, <2>13, RatesAreNatural
    <3> QED BY <3>5, <2>1 DEF cr, y
  <2> QED BY <1>2, <2>3, <2>10, <2>14, <2>15, <2>16 DEF PaceInv
<1>5. c = 0 \/ c > 0 BY <1>1
<1> QED BY <1>3, <1>4, <1>5

LEMMA AcceptPace ==
  ASSUME PaceInv, NEW p \in Peers, Accept(p)
  PROVE  PaceInv'
<1>1. /\ loop = Quiet /\ loop' = [peer |-> p, until |-> time + Owed] /\ credit' = Credited /\ creditAt' = time
      /\ late' = 0 /\ UNCHANGED <<time, sock, charge>>
  BY DEF Accept
<1>2. Credited \in Int /\ Credited <= UsBurst BY CreditedIs DEF PaceInv
<1>3. \A n \in Nat : n >= Owed => 0 <= Credited + Earned(n)
  BY OwedIsEnough DEF PaceInv
<1>4. Owed \in Nat
  <2>1. Credited >= 0 => Owed = 0 BY DEF Owed
  <2>2. ASSUME Credited < 0 PROVE Owed \in Nat
    <3> DEFINE a == (-Credited) * UsScale + UsRate - 1
    <3>1. a \in Nat /\ UsRate \in Nat \ {0} BY <1>2, <2>2, RatesAreNatural
    <3>2. Owed = a \div UsRate BY <1>2, <2>2 DEF Owed
    <3> HIDE DEF a
    <3> QED BY <3>1, <3>2, Quotient
  <2> QED BY <1>2, <2>1, <2>2
<1>5. GateTypes' BY <1>1, <1>2, <1>4 DEF PaceInv, GateTypes, Unauthenticated
<1>6. PlacesTaken' /\ Charged' = Charged /\ Places' = Places
  BY <1>1 DEF PaceInv, PlacesTaken, Pending, Unauthenticated, Charged, Places
<1>7. BehindBounded'
  <2>1. Places * Unit \in Nat /\ Places * Unit <= MaxPending * Unit BY PlacesCounted
  <2> QED BY <1>1, <1>6, <2>1 DEF BehindBounded, Unit
<1>8. Credited' = Credited
  <2>1. Earned(0) = 0
    <3>1. Earned(0) + Earned(0) <= Earned(0 + 0) /\ Earned(0) \in Nat BY EarnedAdds
    <3> QED BY <3>1
  <2>2. time' - creditAt' = 0 BY <1>1 DEF PaceInv, GateTypes
  <2>3. Credited' = Least(credit' + Earned(0), UsBurst) BY <2>2 DEF Credited, Earned
  <2> QED BY <1>1, <1>2, <2>1, <2>3, RatesAreNatural DEF Least
<1>9. DebtCovered' BY <1>6, <1>8 DEF PaceInv, DebtCovered, Unit
<1>10. DebtBounded'
  <2> DEFINE q == Places * Unit
             m == MaxPending * Unit
  <2>1. q \in Nat /\ m \in Nat /\ (MaxPending + 1) * Unit = m + Unit BY PlacesCounted
  <2>2. q - Credited <= m + Unit BY <2>1 DEF PaceInv, DebtCovered
  <2>3. Unit \in Nat BY RatesAreNatural
  <2> HIDE DEF q, m
  <2>4. -Credited <= m + Unit BY <1>2, <2>1, <2>2, <2>3
  <2> QED BY <1>1, <2>1, <2>4 DEF DebtBounded, Unit
<1>11. RepaidInTime'
  <2> SUFFICES ASSUME NEW t \in Nat, t >= time + Owed, t >= time
               PROVE  -0 <= Credited + Earned(t - time)
    BY <1>1 DEF RepaidInTime, Earned
  <2>1. t - time \in Nat /\ t - time >= Owed BY <1>4 DEF PaceInv, GateTypes
  <2> QED BY <1>2, <1>3, <2>1
<1> QED BY <1>5, <1>6, <1>7, <1>9, <1>10, <1>11 DEF PaceInv

LEMMA SleptEnough ==
  ASSUME PaceInv, loop # Quiet, time >= loop.until
  PROVE  -Credited <= late
<1>1. -late <= credit + Earned(time - creditAt)
  BY DEF PaceInv, RepaidInTime, GateTypes
<1>2. /\ Credited \in Int /\ Earned(time - creditAt) \in Nat
      /\ Credited = UsBurst \/ Credited = credit + Earned(time - creditAt)
  BY CreditedIs DEF PaceInv
<1> QED BY <1>1, <1>2, RatesAreNatural DEF PaceInv, GateTypes

LEMMA SpawnPace ==
  ASSUME PaceInv, Spawn
  PROVE  PaceInv'
<1>1. loop # Quiet /\ time >= loop.until /\ loop' = Quiet /\ UNCHANGED <<time, credit, creditAt, late>>
  BY DEF Spawn
<1>2. Quiet \in [peer : Peers \cup {NoPeer}, until : Nat] /\ Quiet' = Quiet BY DEF Quiet
<1>3. BehindBounded' /\ RepaidInTime' /\ DebtBounded'
  BY <1>1, <1>2 DEF BehindBounded, RepaidInTime, DebtBounded, PaceInv
<1>4. Credited' = Credited /\ Credited \in Int BY <1>1, CreditedIs DEF Credited, PaceInv
<1>5. CASE UNCHANGED <<sock, charge>>
  <2>1. GateTypes' /\ PlacesTaken' /\ Charged' = Charged
    BY <1>1, <1>2, <1>5 DEF PaceInv, GateTypes, PlacesTaken, Pending, Unauthenticated, Charged
  <2>2. DebtCovered' BY <1>4, <2>1 DEF PaceInv, DebtCovered, Places, Unit
  <2> QED BY <1>3, <2>1, <2>2 DEF PaceInv
<1>6. ASSUME NEW s \in Socks \ Open, NEW at \in {"handshake", "challenged"}, Cardinality(Pending) < MaxPending,
             sock' = [sock EXCEPT ![s] = at], charge' = [charge EXCEPT ![s] = NoHelloUs]
      PROVE  PaceInv'
  <2>1. sock[s] = "off" BY DEF Open
  <2>2. GateTypes' BY <1>1, <1>2, <1>6, RatesAreNatural DEF PaceInv, GateTypes, Unauthenticated
  <2>3. Pending' = Pending \cup {s} /\ s \notin Pending
    BY <1>6, <2>1 DEF PaceInv, GateTypes, Pending, Unauthenticated
  <2>4. IsFiniteSet(Pending) /\ Cardinality(Pending) \in Nat BY FS_CardinalityType DEF PaceInv, PlacesTaken
  <2>5. IsFiniteSet(Pending') /\ Cardinality(Pending') = Cardinality(Pending) + 1
    BY <2>3, <2>4, FS_AddElement
  <2>6. Cardinality(Pending') <= MaxPending BY <1>6, <2>4, <2>5, RatesAreNatural
  <2>7. PlacesTaken'
    BY <1>6, <2>3, <2>5, <2>6, RatesAreNatural DEF PaceInv, GateTypes, PlacesTaken
  <2>8. Charged' = Charged \cup {s} /\ s \notin Charged
    BY <1>6, <2>3, RatesAreNatural DEF PaceInv, GateTypes, PlacesTaken, Charged
  <2>9. IsFiniteSet(Charged) /\ Places \in Nat /\ Places * Unit \in Nat /\ MaxPending * Unit \in Nat
        /\ (MaxPending + 1) * Unit = MaxPending * Unit + Unit
    BY PlacesCounted
  <2>10. Places' = Places + 1 BY <2>8, <2>9, FS_AddElement DEF Places
  <2>11. Places' * Unit = Places * Unit + Unit BY <2>9, <2>10, RatesAreNatural
  <2> DEFINE q == Places * Unit
             m == MaxPending * Unit
  <2>12. late + q <= m BY <1>1 DEF PaceInv, BehindBounded
  <2>13. -Credited <= late BY <1>1, SleptEnough
  <2>14. q \in Nat /\ m \in Nat /\ late \in Nat /\ Unit \in Nat BY <2>9, RatesAreNatural DEF PaceInv, GateTypes
  <2> HIDE DEF q, m
  <2>15. (q + Unit) - Credited <= m + Unit BY <1>4, <2>12, <2>13, <2>14
  <2>16. DebtCovered' BY <1>4, <2>9, <2>11, <2>15 DEF DebtCovered, q, m, Unit
  <2> QED BY <1>3, <2>2, <2>7, <2>16 DEF PaceInv
<1> QED BY <1>5, <1>6 DEF Spawn

LEMMA TickPace ==
  ASSUME PaceInv, GateTick
  PROVE  PaceInv'
<1>1. time' = time + 1 /\ UNCHANGED <<loop, sock, charge, credit, creditAt, late>> BY DEF GateTick
<1>2. GateTypes' /\ PlacesTaken' /\ Charged' = Charged
  BY <1>1 DEF PaceInv, GateTypes, PlacesTaken, Pending, Unauthenticated, Charged
<1>3. BehindBounded' /\ RepaidInTime' /\ DebtBounded'
  BY <1>1, <1>2 DEF BehindBounded, RepaidInTime, DebtBounded, PaceInv, Quiet, Earned, Places, Unit
<1>4. Credited \in Int /\ Credited' \in Int /\ Credited <= Credited'
  <2>1. Credited \in Int /\ Credited <= UsBurst /\ Earned(time - creditAt) \in Nat
        /\ (Credited = UsBurst \/ Credited = credit + Earned(time - creditAt))
    BY CreditedIs DEF PaceInv
  <2>2. Credited = Least(credit + Earned(time - creditAt), UsBurst) BY DEF Credited, Earned
  <2>3. Credited' = Least(credit + Earned(time + 1 - creditAt), UsBurst)
    <3>1. Credited' = Least(credit' + Earned(time' - creditAt'), UsBurst) BY DEF Credited, Earned
    <3>2. credit' = credit /\ time' = time + 1 /\ creditAt' = creditAt BY <1>1
    <3>3. Earned(time' - creditAt') = Earned(time + 1 - creditAt)
      BY <3>2 DEF Earned, PaceInv, GateTypes
    <3> QED BY <3>1, <3>2, <3>3
  <2>4. time - creditAt \in Nat /\ time + 1 - creditAt = (time - creditAt) + 1 BY DEF PaceInv, GateTypes
  <2>5. Earned(time - creditAt) + Earned(1) <= Earned(time + 1 - creditAt) /\ Earned(1) \in Nat
        /\ Earned(time + 1 - creditAt) \in Nat
    BY <2>4, EarnedAdds
  <2> HIDE DEF Credited
  <2> QED BY <2>1, <2>2, <2>3, <2>5, RatesAreNatural DEF Least, PaceInv, GateTypes
<1>5. DebtCovered'
  <2> DEFINE q == Places * Unit
             m == (MaxPending + 1) * Unit
             before == Credited
             after == Credited'
  <2>1. q \in Nat /\ m \in Nat BY PlacesCounted, RatesAreNatural
  <2>2. q - before <= m BY DEF PaceInv, DebtCovered
  <2>3. before \in Int /\ after \in Int /\ before <= after BY <1>4
  <2> HIDE DEF q, m, before, after
  <2>4. q - after <= m BY <2>1, <2>2, <2>3
  <2> QED BY <1>2, <2>4 DEF DebtCovered, q, m, after, Places, Unit
<1> QED BY <1>2, <1>3, <1>5 DEF PaceInv

\* A stranger that stays one, or is let in: nothing is charged for it.
LEMMA StaysPace ==
  ASSUME PaceInv, NEW s \in Socks, NEW at \in Unauthenticated \cup {"connected"}, NEW c \in 0..RefusedHelloUs,
         sock[s] \in Unauthenticated, sock' = [sock EXCEPT ![s] = at], charge' = [charge EXCEPT ![s] = c],
         c > 0 => charge[s] > 0 /\ at # "connected", at \in {"handshake", "challenged"} => c > 0,
         UNCHANGED <<time, loop, credit, creditAt, late>>
  PROVE  PaceInv'
<1>1. GateTypes' BY DEF PaceInv, GateTypes, Unauthenticated
<1>2. Pending' \subseteq Pending BY DEF PaceInv, GateTypes, Pending, Unauthenticated
<1>3. IsFiniteSet(Pending) /\ Cardinality(Pending) <= MaxPending BY DEF PaceInv, PlacesTaken
<1>4. IsFiniteSet(Pending') /\ Cardinality(Pending') <= Cardinality(Pending) /\ Cardinality(Pending') \in Nat
      /\ Cardinality(Pending) \in Nat
  BY <1>2, <1>3, FS_Subset, FS_CardinalityType
<1>5. Cardinality(Pending') <= MaxPending BY <1>3, <1>4, RatesAreNatural
<1>6. \A t \in Socks : charge'[t] > 0 => t \in Pending'
  BY DEF PaceInv, GateTypes, PlacesTaken, Pending, Unauthenticated
<1>7. PlacesTaken' BY <1>4, <1>5, <1>6 DEF PaceInv, GateTypes, PlacesTaken
<1>8. Charged' \subseteq Charged BY DEF PaceInv, GateTypes, Charged
<1> QED BY <1>1, <1>7, <1>8, SettleKeeps

LEMMA PaceStep == PaceInv /\ [GateNext]_gateVars => PaceInv'
<1> SUFFICES ASSUME PaceInv, [GateNext]_gateVars PROVE PaceInv' OBVIOUS
<1>0. \A s \in Socks : sock[s] \in {"handshake", "challenged"} => charge[s] > 0
  BY DEF PaceInv, PlacesTaken
<1>1. ASSUME NEW s \in Socks, NoHello(s) \/ Refuse(s) \/ Ends(s) PROVE PaceInv'
  BY <1>1, DropKeeps DEF NoHello, Refuse, Ends
<1>2. ASSUME NEW s \in Socks, PairOffer(s) PROVE PaceInv'
  <2>1. /\ sock[s] \in Unauthenticated /\ "pairing" \in Unauthenticated /\ 0 \in 0..RefusedHelloUs /\ ~(0 > 0)
        /\ sock' = [sock EXCEPT ![s] = "pairing"] /\ charge' = [charge EXCEPT ![s] = 0]
        /\ UNCHANGED <<time, loop, credit, creditAt, late>> /\ "pairing" \notin {"handshake", "challenged"}
    BY <1>2, RatesAreNatural DEF PairOffer, Unauthenticated
  <2> QED BY <2>1, StaysPace
<1>3. ASSUME NEW s \in Socks, SendsHello(s) PROVE PaceInv'
  <2> DEFINE c == RefusedHelloUs
  <2>1. /\ sock[s] \in Unauthenticated /\ "hello" \in Unauthenticated /\ c \in 0..RefusedHelloUs /\ charge[s] > 0
        /\ sock' = [sock EXCEPT ![s] = "hello"] /\ charge' = [charge EXCEPT ![s] = c]
        /\ UNCHANGED <<time, loop, credit, creditAt, late>> /\ "hello" \notin {"handshake", "challenged", "connected"}
    BY <1>0, <1>3, RatesAreNatural DEF SendsHello, Unauthenticated
  <2> HIDE DEF c
  <2> QED BY <2>1, StaysPace
<1>4. ASSUME NEW s \in Socks, Authenticated(s) PROVE PaceInv'
  <2>1. /\ sock[s] \in Unauthenticated /\ 0 \in 0..RefusedHelloUs /\ ~(0 > 0)
        /\ sock' = [sock EXCEPT ![s] = "connected"] /\ charge' = [charge EXCEPT ![s] = 0]
        /\ UNCHANGED <<time, loop, credit, creditAt, late>> /\ "connected" \notin {"handshake", "challenged"}
    BY <1>4, RatesAreNatural DEF Authenticated, Unauthenticated
  <2> QED BY <2>1, StaysPace
<1>5. ASSUME NEW s \in Socks, NEW d \in Peers, Forwarded(s, d) PROVE PaceInv'
  <2>1. CASE MayArrive(d)
    <3>1. sock[s] = "handshake" /\ sock' = [sock EXCEPT ![s] = "challenged"]
          /\ UNCHANGED <<charge, credit, creditAt, late, time, loop>>
      BY <1>5, <2>1 DEF Forwarded
    <3>2. charge' = [charge EXCEPT ![s] = charge[s]] /\ charge[s] > 0 /\ charge[s] \in 0..RefusedHelloUs
      BY <1>0, <3>1 DEF PaceInv, GateTypes
    <3> QED BY <3>1, <3>2, StaysPace DEF Unauthenticated
  <2>2. CASE ~MayArrive(d)
    BY <1>5, <2>2, DropKeeps DEF Forwarded
  <2> QED BY <2>1, <2>2
<1>6. CASE UNCHANGED gateVars
  BY <1>6 DEF gateVars, PaceInv, GateTypes, PlacesTaken, BehindBounded, DebtCovered, RepaidInTime, DebtBounded,
       Pending, Charged, Places, Unit, Credited, Earned, Quiet, Unauthenticated, Least
<1> QED BY <1>1, <1>2, <1>3, <1>4, <1>5, <1>6, AcceptPace, SpawnPace, TickPace DEF GateNext

\* The strangers' budget (strangers.rs, serve): for any rate, burst, costs and number of
\* places, the debt is bounded by what the places and one socket more can cost, and
\* what the accept loop saw of it is repaid by the time it lets the next socket in.
THEOREM StrangersArePaced == GateSpec => []StrangersPaced
<1>1. PaceInv => StrangersPaced
  BY SleptEnough DEF StrangersPaced, PaceInv
<1> QED BY <1>1, PaceInitially, PaceStep, PTL DEF GateSpec

-----------------------------------------------------------------------------
\* How often an address may arrive.

LEMMA LeastOf ==
  ASSUME NEW T, T \subseteq Nat, T # {}
  PROVE  \E x \in T : \A y \in T : x <= y
<1>1. \E x \in T : \A y \in T : ~(<<y, x>> \in OpToRel(<, Nat))
  BY NatLessThanWellFounded, WFMin
<1>2. PICK x \in T : \A y \in T : ~(<<y, x>> \in OpToRel(<, Nat))
  BY <1>1
<1>3. ASSUME NEW y \in T PROVE x <= y
  <2>1. ~(<<y, x>> \in OpToRel(<, Nat)) BY <1>2
  <2>2. y \in Nat /\ x \in Nat OBVIOUS
  <2>3. ~(y < x) BY <2>1, <2>2 DEF OpToRel
  <2> QED BY <2>2, <2>3
<1> QED BY <1>3

IsMedian(B, f, half, t) ==
  /\ t \in {f[d] : d \in B}
  /\ Cardinality({d \in B : f[d] < t}) <= half
  /\ Cardinality({d \in B : f[d] <= t}) > half

\* forget_idle finds its cutoff: some address was seen when just more than half of
\* them had been.
LEMMA MedianExists ==
  ASSUME NEW B, IsFiniteSet(B), NEW N \in Nat, NEW f \in [B -> 0..N], NEW half \in Nat, half < Cardinality(B)
  PROVE  \E t : IsMedian(B, f, half, t)
<1> DEFINE Upto(t) == {d \in B : f[d] <= t}
           T == {t \in Nat : Cardinality(Upto(t)) > half}
<1>0. \A t : IsFiniteSet(Upto(t)) /\ Cardinality(Upto(t)) \in Nat
  <2> TAKE t
  <2>1. Upto(t) \subseteq B OBVIOUS
  <2> QED BY <2>1, FS_Subset, FS_CardinalityType
<1>1. Upto(N) = B OBVIOUS
<1>2. N \in T BY <1>1
<1>3. PICK x \in T : \A y \in T : x <= y
  <2>1. T \subseteq Nat /\ T # {} BY <1>2
  <2> HIDE DEF T
  <2> QED BY <2>1, LeastOf
<1>4. x \in Nat /\ Cardinality(Upto(x)) > half OBVIOUS
<1>5. CASE x = 0
  <2>1. {d \in B : f[d] < x} = {} BY <1>5
  <2>2. Cardinality({d \in B : f[d] < x}) <= half BY <2>1, FS_EmptySet
  <2>3. Upto(x) # {} BY <1>4, FS_EmptySet
  <2>4. PICK d \in B : f[d] = x BY <1>5, <2>3
  <2>5. x \in {f[e] : e \in B} BY <2>4
  <2> QED BY <1>4, <2>2, <2>5 DEF IsMedian
<1>6. CASE x > 0
  <2>1. x - 1 \in Nat /\ ~(x - 1 \in T) BY <1>3, <1>4, <1>6
  <2>2. Cardinality(Upto(x - 1)) <= half BY <1>0, <2>1
  <2>3. {d \in B : f[d] < x} = Upto(x - 1) BY <1>4, <1>6
  <2>4. Upto(x) # Upto(x - 1) BY <1>0, <1>4, <2>2
  <2>5. PICK d \in B : f[d] = x BY <1>4, <1>6, <2>4
  <2>6. x \in {f[e] : e \in B} BY <2>5
  <2>7. Cardinality({e \in B : f[e] < x}) <= half BY <2>2, <2>3
  <2> QED BY <1>4, <2>6, <2>7 DEF IsMedian
<1>7. x = 0 \/ x > 0 BY <1>4
<1> QED BY <1>5, <1>6, <1>7

ArrivalsEarned(n) == (n * PerMinute) \div Minute

\* What is known of a tracked address.
Tracked(d) ==
  /\ seen[d].milli \in Nat /\ seen[d].at \in Nat /\ since[d] \in Nat /\ admitted[d] \in Nat
  /\ since[d] <= seen[d].at /\ seen[d].at <= time
  /\ admitted[d] * Whole + seen[d].milli <= ArrivalBurst + ArrivalsEarned(seen[d].at - since[d])

ArrivalInv ==
  /\ time \in Nat
  /\ IsFiniteSet(DOMAIN seen) /\ Cardinality(DOMAIN seen) <= MaxTracked
  /\ \A d \in DOMAIN seen : Tracked(d)

LEMMA ArrivalsAdd ==
  ASSUME NEW m \in Nat, NEW n \in Nat
  PROVE  /\ ArrivalsEarned(m) \in Nat /\ ArrivalsEarned(n) \in Nat /\ ArrivalsEarned(m + n) \in Nat
         /\ ArrivalsEarned(m) + ArrivalsEarned(n) <= ArrivalsEarned(m + n)
<1> DEFINE a == m * PerMinute
           b == n * PerMinute
<1>1. a \in Nat /\ b \in Nat /\ (m + n) * PerMinute = a + b BY RatesAreNatural
<1> HIDE DEF a, b
<1>2. a \div Minute \in Nat /\ b \div Minute \in Nat /\ (a + b) \div Minute \in Nat
  BY <1>1, Quotient, RatesAreNatural
<1>3. a \div Minute + b \div Minute <= (a + b) \div Minute
  BY <1>1, QuotientsAdd, RatesAreNatural
<1>4. /\ ArrivalsEarned(m) = a \div Minute /\ ArrivalsEarned(n) = b \div Minute
      /\ ArrivalsEarned(m + n) = (a + b) \div Minute
  BY <1>1 DEF ArrivalsEarned, a, b
<1> QED BY <1>2, <1>3, <1>4

\* What forget_idle keeps is tracked already, and fits.
LEMMA KeptFits ==
  ASSUME ArrivalInv, NEW now, IsFiniteSet(DOMAIN now), Cardinality(DOMAIN now) <= MaxTracked + 1,
         \A d \in DOMAIN now : now[d].at \in Nat /\ now[d].at <= time
  PROVE  /\ Kept(now) \subseteq DOMAIN now
         /\ IsFiniteSet(Kept(now)) /\ Cardinality(Kept(now)) <= MaxTracked
<1> DEFINE busy == {d \in DOMAIN now :
                      now[d].milli + ((time - now[d].at) * PerMinute) \div Minute < ArrivalBurst}
           half == Cardinality(busy) \div 2
           Fits(t) == /\ Cardinality({d \in busy : now[d].at < t}) <= half
                      /\ Cardinality({d \in busy : now[d].at <= t}) > half
           cutoff == CHOOSE t \in {now[d].at : d \in busy} : Fits(t)
           late2 == {d \in busy : now[d].at > cutoff}
<1>1. Kept(now) = IF Cardinality(DOMAIN now) <= MaxTracked THEN DOMAIN now
                  ELSE IF Cardinality(busy) <= MaxTracked THEN busy ELSE late2
  BY DEF Kept
<1>2. busy \subseteq DOMAIN now OBVIOUS
<1> HIDE DEF busy
<1>3. IsFiniteSet(busy) /\ Cardinality(busy) \in Nat /\ Cardinality(busy) <= Cardinality(DOMAIN now)
      /\ Cardinality(DOMAIN now) \in Nat
  BY <1>2, FS_Subset, FS_CardinalityType
<1>4. CASE Cardinality(DOMAIN now) <= MaxTracked \/ Cardinality(busy) <= MaxTracked
  BY <1>1, <1>2, <1>3, <1>4
<1>5. CASE ~(Cardinality(DOMAIN now) <= MaxTracked) /\ ~(Cardinality(busy) <= MaxTracked)
  <2>1. Cardinality(busy) > 0 /\ half \in Nat /\ half < Cardinality(busy)
    BY <1>3, <1>5, RatesAreNatural
  <2> HIDE DEF half
  <2> DEFINE f == [d \in busy |-> now[d].at]
  <2>2. f \in [busy -> 0..time] BY <1>2 DEF ArrivalInv
  <2>3. PICK m : IsMedian(busy, f, half, m)
    <3>1. time \in Nat BY DEF ArrivalInv
    <3> HIDE DEF f
    <3> QED BY <2>1, <2>2, <1>3, <3>1, MedianExists
  <2>4. {f[d] : d \in busy} = {now[d].at : d \in busy} OBVIOUS
  <2>5. \A t : {d \in busy : f[d] < t} = {d \in busy : now[d].at < t}
               /\ {d \in busy : f[d] <= t} = {d \in busy : now[d].at <= t}
    OBVIOUS
  <2>6. m \in {now[d].at : d \in busy} /\ Fits(m) BY <2>3, <2>4, <2>5 DEF IsMedian
  <2>7. Cardinality({d \in busy : now[d].at <= cutoff}) > half /\ cutoff \in {now[d].at : d \in busy}
    <3> HIDE DEF Fits
    <3>1. cutoff \in {now[d].at : d \in busy} /\ Fits(cutoff) BY <2>6
    <3> HIDE DEF cutoff
    <3> QED BY <3>1 DEF Fits
  <2>8. cutoff \in Nat BY <1>2, <2>7
  <2> HIDE DEF cutoff
  <2> DEFINE early == {d \in busy : now[d].at <= cutoff}
  <2>9. IsFiniteSet(early) /\ Cardinality(early) > half BY <1>3, <2>7, FS_Subset
  <2>10. early # {} BY <2>9, <2>1, FS_EmptySet
  <2>11. PICK e \in busy : e \in early BY <2>10
  <2>12. late2 \subseteq busy \ {e}
    <3>1. now[e].at \in Nat /\ now[e].at <= cutoff BY <1>2, <2>11
    <3> QED BY <2>8, <3>1
  <2>13. IsFiniteSet(busy \ {e}) /\ Cardinality(busy \ {e}) = Cardinality(busy) - 1
    BY <1>3, FS_RemoveElement
  <2>14. IsFiniteSet(late2) /\ Cardinality(late2) <= Cardinality(busy \ {e}) /\ Cardinality(late2) \in Nat
    BY <2>12, <2>13, FS_Subset, FS_CardinalityType
  <2>15. Cardinality(late2) <= MaxTracked
    BY <1>3, <2>13, <2>14, RatesAreNatural
  <2>16. Kept(now) = late2 /\ late2 \subseteq DOMAIN now BY <1>1, <1>2, <1>5
  <2> QED BY <2>14, <2>15, <2>16
<1> QED BY <1>4, <1>5

LEMMA AllowanceIs ==
  ASSUME ArrivalInv, NEW d
  PROVE  /\ Allowance(d) \in Nat /\ Allowance(d) <= ArrivalBurst
         /\ d \in DOMAIN seen => Allowance(d) <= seen[d].milli + ArrivalsEarned(time - seen[d].at)
         /\ d \notin DOMAIN seen => Allowance(d) = ArrivalBurst /\ MayArrive(d)
<1>1. CASE d \in DOMAIN seen
  <2>1. Tracked(d) /\ time \in Nat BY <1>1 DEF ArrivalInv
  <2>2. time - seen[d].at \in Nat BY <2>1 DEF Tracked
  <2>3. ArrivalsEarned(time - seen[d].at) \in Nat BY <2>2, ArrivalsAdd
  <2>4. Allowance(d) = Least(seen[d].milli + ArrivalsEarned(time - seen[d].at), ArrivalBurst)
    BY <1>1 DEF Allowance, ArrivalsEarned
  <2> QED BY <1>1, <2>1, <2>3, <2>4, RatesAreNatural DEF Tracked, Least
<1>2. CASE d \notin DOMAIN seen
  BY <1>2, RatesAreNatural DEF Allowance, MayArrive
<1> QED BY <1>1, <1>2

LEMMA ArrivesKeeps ==
  ASSUME ArrivalInv, NEW d, Arrives(d), UNCHANGED time
  PROVE  ArrivalInv'
<1> DEFINE left == IF MayArrive(d) THEN Allowance(d) - Whole ELSE Allowance(d)
           all  == DOMAIN seen \cup {d}
           now  == [e \in all |-> IF e = d THEN [milli |-> left, at |-> time] ELSE seen[e]]
           keep == IF MayArrive(d) THEN Kept(now) ELSE all
           new  == d \notin DOMAIN seen
           first == IF new THEN time ELSE since[d]
           was == IF new THEN 0 ELSE admitted[d]
           count == was + (IF MayArrive(d) THEN 1 ELSE 0)
<1>1. /\ seen' = [e \in keep |-> now[e]]
      /\ since' = [e \in keep |-> IF e = d THEN first ELSE since[e]]
      /\ admitted' = [e \in keep |-> IF e = d THEN count ELSE admitted[e]]
  BY DEF Arrives, SeenAt, Restrict
<1>2. /\ time \in Nat /\ IsFiniteSet(DOMAIN seen) /\ Cardinality(DOMAIN seen) <= MaxTracked
      /\ Cardinality(DOMAIN seen) \in Nat
  BY FS_CardinalityType DEF ArrivalInv
<1>3. left \in Nat
  BY AllowanceIs, RatesAreNatural DEF MayArrive
<1>4. DOMAIN now = all /\ now[d] = [milli |-> left, at |-> time] /\ \A e \in all \ {d} : now[e] = seen[e] /\ e \in DOMAIN seen
  OBVIOUS
<1> HIDE DEF left, now
<1>5. now[d].milli = left /\ now[d].at = time BY <1>4
<1>6. \A e \in DOMAIN now : now[e].at \in Nat /\ now[e].at <= time
  BY <1>2, <1>4, <1>5 DEF ArrivalInv, Tracked
<1>7. keep \subseteq all /\ IsFiniteSet(keep) /\ Cardinality(keep) <= MaxTracked
  <2>1. CASE MayArrive(d)
    <3>1. IsFiniteSet(all) /\ Cardinality(all) <= Cardinality(DOMAIN seen) + 1 /\ Cardinality(all) \in Nat
      <4>1. CASE d \in DOMAIN seen
        <5>1. all = DOMAIN seen BY <4>1
        <5> QED BY <1>2, <5>1
      <4>2. CASE d \notin DOMAIN seen
        <5>1. IsFiniteSet(all) /\ Cardinality(all) = Cardinality(DOMAIN seen) + 1
          BY <1>2, <4>2, FS_AddElement
        <5> QED BY <1>2, <5>1
      <4> QED BY <4>1, <4>2
    <3>2. Cardinality(DOMAIN now) <= MaxTracked + 1 BY <1>2, <1>4, <3>1, RatesAreNatural
    <3> QED BY <1>4, <1>6, <2>1, <3>1, <3>2, KeptFits
  <2>2. CASE ~MayArrive(d)
    <3>1. d \in DOMAIN seen BY <2>2, AllowanceIs
    <3>2. all = DOMAIN seen BY <3>1
    <3> QED BY <1>2, <2>2, <3>2
  <2> QED BY <2>1, <2>2
<1> HIDE DEF keep
<1>8. DOMAIN seen' = keep BY <1>1
<1>9. ASSUME NEW e \in keep, e # d PROVE Tracked(e)'
  <2>1. e \in DOMAIN seen /\ seen'[e] = seen[e] /\ since'[e] = since[e] /\ admitted'[e] = admitted[e] /\ Tracked(e)
    BY <1>1, <1>4, <1>7, <1>9 DEF ArrivalInv
  <2> QED BY <2>1 DEF Tracked, ArrivalsEarned
<1>10. ASSUME d \in keep PROVE Tracked(d)'
  <2>1. seen'[d] = now[d] /\ since'[d] = first /\ admitted'[d] = count BY <1>1, <1>10
  <2>2. seen'[d].milli = left /\ seen'[d].at = time BY <2>1, <1>5
  <2>3. /\ was \in Nat /\ first \in Nat /\ first <= time /\ time - first \in Nat
        /\ was * Whole + Allowance(d) <= ArrivalBurst + ArrivalsEarned(time - first)
    <3>1. CASE new
      <4>1. was = 0 /\ first = time /\ Allowance(d) = ArrivalBurst BY <3>1, AllowanceIs
      <4> HIDE DEF was, first
      <4>2. time - first \in Nat BY <1>2, <4>1
      <4>3. ArrivalsEarned(time - first) \in Nat BY <4>2, ArrivalsAdd
      <4>4. was * Whole = 0 BY <4>1, RatesAreNatural
      <4> QED BY <1>2, <4>1, <4>2, <4>3, <4>4, RatesAreNatural
    <3>2. CASE ~new
      <4>1. Tracked(d) /\ was = admitted[d] /\ first = since[d] BY <3>2 DEF ArrivalInv
      <4> DEFINE a == seen[d].at
                 g == ArrivalsEarned(a - first)
                 h == ArrivalsEarned(time - a)
                 k == ArrivalsEarned(time - first)
                 w == was * Whole
                 m == seen[d].milli
      <4>2. /\ a - first \in Nat /\ time - a \in Nat /\ time - first = (a - first) + (time - a)
            /\ was \in Nat /\ first \in Nat /\ first <= time /\ time - first \in Nat /\ m \in Nat
        BY <1>2, <4>1 DEF Tracked
      <4>3. g \in Nat /\ h \in Nat /\ k \in Nat /\ g + h <= k BY <4>2, ArrivalsAdd
      <4>4. w \in Nat BY <4>2, RatesAreNatural
      <4>5. w + m <= ArrivalBurst + g BY <4>1 DEF Tracked
      <4>6. Allowance(d) <= m + h /\ Allowance(d) \in Nat BY <3>2, AllowanceIs
      <4> HIDE DEF g, h, k, w, m
      <4>7. w + Allowance(d) <= ArrivalBurst + k BY <4>2, <4>3, <4>4, <4>5, <4>6, RatesAreNatural
      <4> QED BY <4>2, <4>7 DEF k, w
    <3> QED BY <3>1, <3>2
  <2>4. count \in Nat /\ count * Whole + left = was * Whole + Allowance(d)
    <3>1. Allowance(d) \in Nat BY AllowanceIs
    <3>2. CASE MayArrive(d)
      <4>1. count = was + 1 /\ left = Allowance(d) - Whole BY <3>2 DEF left
      <4>2. (was + 1) * Whole = was * Whole + Whole /\ was * Whole \in Nat BY <2>3, RatesAreNatural
      <4> HIDE DEF count, was
      <4> QED BY <2>3, <3>1, <4>1, <4>2, RatesAreNatural
    <3>3. CASE ~MayArrive(d)
      BY <2>3, <3>3 DEF left
    <3> QED BY <3>2, <3>3
  <2> HIDE DEF count, first, was
  <2> QED BY <1>2, <1>3, <2>1, <2>2, <2>3, <2>4 DEF Tracked, ArrivalsEarned
<1> QED BY <1>2, <1>7, <1>8, <1>9, <1>10 DEF ArrivalInv

LEMMA ArrivalStep == ArrivalInv /\ [GateNext]_gateVars => ArrivalInv'
<1> SUFFICES ASSUME ArrivalInv, [GateNext]_gateVars PROVE ArrivalInv' OBVIOUS
<1>1. CASE UNCHANGED <<time, seen, since, admitted>>
  BY <1>1 DEF ArrivalInv, Tracked, ArrivalsEarned
<1>2. CASE GateTick
  <2>1. time' = time + 1 /\ UNCHANGED <<seen, since, admitted>> BY <1>2 DEF GateTick
  <2> QED BY <2>1 DEF ArrivalInv, Tracked, ArrivalsEarned
<1>3. CASE Spawn
  BY <1>1, <1>3, ArrivesKeeps DEF Spawn
<1>4. ASSUME NEW s \in Socks, NEW d \in Peers, Forwarded(s, d) PROVE ArrivalInv'
  BY <1>4, ArrivesKeeps DEF Forwarded
<1>5. ASSUME NEW p \in Peers, Accept(p) PROVE ArrivalInv'
  BY <1>1, <1>5 DEF Accept
<1>6. ASSUME NEW s \in Socks,
             NoHello(s) \/ PairOffer(s) \/ SendsHello(s) \/ Refuse(s) \/ Authenticated(s) \/ Ends(s)
      PROVE  ArrivalInv'
  BY <1>1, <1>6 DEF NoHello, PairOffer, SendsHello, Refuse, Authenticated, Ends
<1>7. CASE UNCHANGED gateVars
  BY <1>1, <1>7 DEF gateVars
<1> QED BY <1>2, <1>3, <1>4, <1>5, <1>6, <1>7 DEF GateNext

\* The arrivals gate (arrivals.rs): for any rate, burst and limit, no address is admitted
\* more than its burst and what its rate earned, and forget_idle keeps as many as it may.
THEOREM ArrivalsKeepToRate == GateSpec => []ArrivalsWithinRate
<1>1. GateInit => ArrivalInv
  <2> SUFFICES ASSUME GateInit PROVE ArrivalInv OBVIOUS
  <2>1. DOMAIN seen = {} /\ time = 0 BY DEF GateInit
  <2> QED BY <2>1, FS_EmptySet, RatesAreNatural DEF ArrivalInv
<1>2. ArrivalInv => ArrivalsWithinRate
  BY DEF ArrivalInv, Tracked, ArrivalsWithinRate, ArrivalsEarned
<1> QED BY <1>1, <1>2, ArrivalStep, PTL DEF GateSpec

-----------------------------------------------------------------------------
\* The work budget of an account: its bucket, for every rate, burst, cost and number
\* of connections.

\* What was charged for a waiting chunk is earned by the time it is handed over;
\* a connection that is there has a bucket; connects are part of what was spent.
BudgetInv ==
  /\ TypeOK /\ NothingMinted
  /\ \A c \in Conns : conn[c] # "off" => held
  /\ \A c \in Conns : conn[c] = "waiting" =>
       born <= until[c] /\ bill[c] * Milli <= (until[c] - born) * Rate
  /\ held => admits * ConnectCost <= spent
  /\ ConnectsPaidWhileHeld

\* The wait is long enough to earn the debt.
LEMMA WaitIsEnough ==
  ASSUME NEW b \in Int
  PROVE  WaitMs(b) \in Nat /\ -b <= WaitMs(b) * Rate
<1>1. CASE b >= 0
  BY <1>1, CostsAreNaturals, SomeRate DEF WaitMs
<1>2. CASE b < 0
  <2> DEFINE n == (-b) + Rate - 1
             w == n \div Rate
  <2>0. Rate \in Nat /\ Rate > 0 BY CostsAreNaturals, SomeRate
  <2>1. n \in Nat BY <1>2, <2>0
  <2> HIDE DEF n
  <2>2. w \in Nat /\ w * Rate <= n /\ n < (w + 1) * Rate BY <2>0, <2>1
  <2>3. (w + 1) * Rate = w * Rate + Rate BY <2>0, <2>2
  <2>4. n - Rate + 1 <= w * Rate BY <2>0, <2>1, <2>2, <2>3
  <2>5. WaitMs(b) = w BY <1>2 DEF WaitMs, n
  <2> QED BY <2>2, <2>4, <2>5, <2>0 DEF n
<1> QED BY <1>1, <1>2

\* Refilling credits at most the time since the last refill.
LEMMA RefillIsEarned ==
  ASSUME BudgetInv, held
  PROVE  /\ Refilled \in Int
         /\ spent * Milli + Refilled <= (clock - born) * Rate
<1>1. /\ Rate \in Nat /\ Milli \in Nat /\ Burst \in Nat /\ clock \in Int /\ born \in Int
      /\ credited \in Int /\ balance \in Int /\ spent \in Int
      /\ born <= credited /\ credited <= clock
      /\ spent * Milli + balance <= (credited - born) * Rate
  BY CostsAreNaturals DEF BudgetInv, TypeOK, NothingMinted
<1>2. (clock - born) * Rate = (credited - born) * Rate + (clock - credited) * Rate
  BY <1>1
<1>3. (clock - credited) * Rate \in Nat
  BY <1>1
<1>4. Refilled \in Int /\ Refilled <= balance + (clock - credited) * Rate
  BY <1>1, <1>3 DEF Refilled
<1> DEFINE s == spent * Milli
           e == (clock - credited) * Rate
           f == (credited - born) * Rate
           r == Refilled
<1>5. s \in Int /\ e \in Int /\ f \in Int /\ r \in Int /\ balance \in Int
      /\ s + balance <= f /\ r <= balance + e
  BY <1>1, <1>3, <1>4
<1> HIDE DEF s, e, f, r
<1>6. s + r <= f + e BY <1>5
<1> QED BY <1>2, <1>4, <1>6 DEF s, e, f, r

\* Spending moves work from the balance to what was spent.
LEMMA SpendKeepsSum ==
  ASSUME NEW cost \in Nat, NEW before \in Int, NEW earned \in Int,
         spent \in Nat, spent * Milli + before <= earned
  PROVE  (spent + cost) * Milli + (before - cost * Milli) <= earned
<1>1. Milli \in Nat BY CostsAreNaturals
<1>2. (spent + cost) * Milli = spent * Milli + cost * Milli BY <1>1
<1> DEFINE s == spent * Milli
           k == cost * Milli
<1>3. s \in Int /\ k \in Int BY <1>1
<1>4. s + before <= earned OBVIOUS
<1> HIDE DEF s, k
<1>5. s + k + (before - k) <= earned BY <1>3, <1>4
<1> QED BY <1>2, <1>5 DEF s, k

LEMMA InitBudget == Init => BudgetInv
<1> SUFFICES ASSUME Init PROVE BudgetInv OBVIOUS
<1>1. 0 \in 0..MaxClock /\ 0 \in Nat /\ 0 \in Int
  BY CostsAreNaturals
<1>2. TypeOK
  BY <1>1 DEF Init, TypeOK
<1>3. held = FALSE /\ \A c \in Conns : conn[c] = "off"
  BY DEF Init
<1> QED BY <1>2, <1>3 DEF BudgetInv, NothingMinted, ConnectsPaidWhileHeld

\* A charge to a bucket that exists, whoever it is for.
LEMMA SpendStep ==
  ASSUME BudgetInv, held, NEW cost \in Nat, Spend(cost, Refilled), UNCHANGED <<clock, held, born>>
  PROVE  /\ NothingMinted'
         /\ balance' \in Int /\ credited' \in 0..MaxClock /\ spent' \in Nat
         /\ spent' = spent + cost /\ balance' = Refilled - cost * Milli
         /\ spent' * Milli + balance' <= (clock - born) * Rate
<1>1. /\ clock \in 0..MaxClock /\ born \in Int /\ spent \in Nat /\ Milli \in Nat /\ Rate \in Nat
      /\ born <= clock /\ (clock - born) * Rate \in Int
  BY CostsAreNaturals DEF BudgetInv, TypeOK, NothingMinted
<1>2. Refilled \in Int /\ spent * Milli + Refilled <= (clock - born) * Rate
  BY RefillIsEarned
<1>3. (spent + cost) * Milli + (Refilled - cost * Milli) <= (clock - born) * Rate
  BY <1>1, <1>2, SpendKeepsSum
<1>4. balance' = Refilled - cost * Milli /\ credited' = clock /\ spent' = spent + cost
  BY DEF Spend
<1>5. balance' \in Int /\ credited' \in 0..MaxClock /\ spent' \in Nat
  BY <1>1, <1>2, <1>4
<1> QED BY <1>1, <1>3, <1>4, <1>5 DEF NothingMinted

LEMMA RefusedBudget ==
  ASSUME BudgetInv, NEW c \in Conns, Refused(c)
  PROVE  BudgetInv'
<1>1. held /\ UNCHANGED <<clock, held, born, spent>> /\ balance' = Refilled /\ credited' = clock
  BY DEF Refused, TooMuchDebt
<1>2. Refilled \in Int /\ spent * Milli + Refilled <= (clock - born) * Rate
  BY <1>1, RefillIsEarned
<1>3. NothingMinted'
  BY <1>1, <1>2 DEF NothingMinted, BudgetInv, TypeOK
<1>4. TypeOK'
  BY <1>1, <1>2 DEF BudgetInv, TypeOK, Refused
<1> QED BY <1>3, <1>4 DEF BudgetInv, Refused, ConnectsPaidWhileHeld

LEMMA ConnectBudget ==
  ASSUME BudgetInv, NEW c \in Conns, Connect(c)
  PROVE  BudgetInv'
<1>0. /\ Rate \in Nat /\ Milli \in Nat /\ ConnectCost \in Nat /\ RefuseAbove \in Nat /\ MaxClock \in Nat
      /\ clock \in 0..MaxClock /\ born \in 0..MaxClock /\ spent \in Nat /\ admits \in Nat
      /\ everAdmits \in Nat /\ conn \in [Conns -> {"off", "on", "waiting"}]
  BY CostsAreNaturals DEF BudgetInv, TypeOK
<1>1. /\ held' = TRUE /\ conn' = [conn EXCEPT ![c] = "on"] /\ everAdmits' = everAdmits + 1
      /\ UNCHANGED <<clock, retains, until, bill>>
  BY DEF Connect
<1>2. CASE held
  <2>1. /\ Spend(ConnectCost, Refilled) /\ admits' = admits + 1 /\ born' = born /\ held' = held
        /\ ~TooMuchDebt
    BY <1>2 DEF Connect
  <2>2. /\ NothingMinted'
        /\ balance' \in Int /\ credited' \in 0..MaxClock /\ spent' \in Nat
        /\ spent' = spent + ConnectCost /\ balance' = Refilled - ConnectCost * Milli
    BY <1>0, <1>1, <1>2, <2>1, SpendStep
  <2>3. TypeOK'
    BY <2>1, <2>2, <1>0, <1>1 DEF BudgetInv, TypeOK
  <2>4. admits' * ConnectCost <= spent'
    <3>1. admits * ConnectCost <= spent BY <1>2 DEF BudgetInv
    <3>2. (admits + 1) * ConnectCost = admits * ConnectCost + ConnectCost BY <1>0
    <3>3. admits * ConnectCost \in Int BY <1>0
    <3> QED BY <3>1, <3>2, <3>3, <2>1, <2>2, <1>0
  <2>5. ConnectsPaidWhileHeld'
    <3>1. Refilled \in Int /\ spent * Milli + Refilled <= (clock - born) * Rate
      BY <1>2, RefillIsEarned
    <3>2. WaitMs(Refilled) \in Nat /\ -Refilled <= WaitMs(Refilled) * Rate
      BY <3>1, WaitIsEnough
    <3>3. WaitMs(Refilled) <= RefuseAbove
      BY <2>1, <1>0, <1>2, <3>2 DEF TooMuchDebt
    <3>4. WaitMs(Refilled) * Rate <= RefuseAbove * Rate
      <4> DEFINE w == WaitMs(Refilled)
      <4>1. w \in Nat /\ w <= RefuseAbove BY <3>2, <3>3
      <4> HIDE DEF w
      <4>2. w * Rate <= RefuseAbove * Rate
        <5>1. RefuseAbove * Rate = w * Rate + (RefuseAbove - w) * Rate BY <4>1, <1>0
        <5>2. (RefuseAbove - w) * Rate \in Nat /\ w * Rate \in Int BY <4>1, <1>0
        <5> QED BY <5>1, <5>2
      <4> QED BY <4>2 DEF w
    <3>5. -Refilled <= RefuseAbove * Rate
      BY <3>1, <3>2, <3>4, <1>0
    <3> DEFINE a == admits * ConnectCost
               am == a * Milli
               sm == spent * Milli
               cm == ConnectCost * Milli
               t == (clock - born) * Rate
               d == RefuseAbove * Rate
               r == Refilled
    <3>6. a <= spent /\ a \in Nat BY <1>0, <1>2 DEF BudgetInv
    <3>7. am <= sm
      <4> HIDE DEF a
      <4>1. sm = am + (spent - a) * Milli BY <3>6, <1>0
      <4>2. (spent - a) * Milli \in Nat /\ am \in Int BY <3>6, <1>0
      <4> QED BY <4>1, <4>2
    <3>8. am \in Int /\ sm \in Int /\ cm \in Int /\ t \in Int /\ d \in Int /\ r \in Int
      BY <3>1, <3>6, <1>0
    <3>9. sm + r <= t /\ -r <= d
      BY <3>1, <3>5
    <3>10. (admits + 1) * ConnectCost * Milli = am + cm
      BY <1>0
    <3>11. am + cm <= t + d + cm
      <4> HIDE DEF am, sm, cm, t, d, r
      <4> QED BY <3>7, <3>8, <3>9
    <3>12. (admits + 1) * ConnectCost * Milli <= (clock - born) * Rate + RefuseAbove * Rate + ConnectCost * Milli
      BY <3>10, <3>11
    <3> QED BY <3>12, <2>1, <1>1 DEF ConnectsPaidWhileHeld
  <2>6. \A d \in Conns : conn'[d] = "waiting" =>
          born' <= until'[d] /\ bill'[d] * Milli <= (until'[d] - born') * Rate
    BY <2>1, <1>0, <1>1 DEF BudgetInv
  <2> QED BY <2>2, <2>3, <2>4, <2>5, <2>6, <1>1 DEF BudgetInv
<1>3. CASE ~held
  <2>1. /\ balance' = 0 - ConnectCost * Milli /\ credited' = clock
        /\ born' = clock /\ spent' = ConnectCost /\ admits' = 1
    BY <1>3 DEF Connect, NewBalance
  <2>2. ConnectCost * Milli \in Int /\ (clock - clock) * Rate = 0 /\ RefuseAbove * Rate \in Nat
        /\ 1 * ConnectCost = ConnectCost
    BY <1>0
  <2>3. NothingMinted'
    BY <2>1, <2>2, <1>0, <1>1 DEF NothingMinted
  <2>4. ConnectsPaidWhileHeld'
    BY <2>1, <2>2, <1>0, <1>1 DEF ConnectsPaidWhileHeld
  <2>5. TypeOK'
    BY <2>1, <2>2, <1>0, <1>1 DEF BudgetInv, TypeOK
  <2>6. \A d \in Conns : conn'[d] # "waiting"
    BY <1>0, <1>1, <1>3 DEF BudgetInv
  <2> QED BY <2>1, <2>2, <2>3, <2>4, <2>5, <2>6, <1>0, <1>1 DEF BudgetInv
<1> QED BY <1>2, <1>3

LEMMA ChargeBudget ==
  ASSUME BudgetInv, NEW c \in Conns, NEW cost \in ChunkCosts, NEW f \in FanOutCosts, Charge(c, cost, f)
  PROVE  BudgetInv'
<1>0. /\ Rate \in Nat /\ Milli \in Nat /\ cost \in Nat /\ f \in Nat /\ cost + f \in Nat
      /\ clock \in 0..MaxClock /\ born \in 0..MaxClock /\ MaxClock \in Nat
      /\ conn \in [Conns -> {"off", "on", "waiting"}]
      /\ until \in [Conns -> Nat] /\ bill \in [Conns -> Nat] /\ retains \in BOOLEAN
      /\ born <= clock
  BY CostsAreNaturals DEF BudgetInv, TypeOK, NothingMinted, Charge
<1>1. held /\ UNCHANGED <<clock, held, born, admits, everAdmits>>
  BY DEF Charge, BudgetInv
<1>2. CASE Spend(cost + f, Refilled) /\ retains' \in {retains, TRUE} /\ UNCHANGED <<conn, until, bill>>
  <2>1. /\ NothingMinted' /\ spent' = spent + (cost + f)
        /\ balance' \in Int /\ credited' \in 0..MaxClock /\ spent' \in Nat
    BY <1>0, <1>1, <1>2, SpendStep
  <2>2. TypeOK'
    BY <2>1, <1>0, <1>1, <1>2 DEF BudgetInv, TypeOK
  <2>3. admits' * ConnectCost <= spent'
    BY <2>1, <1>0, <1>1, CostsAreNaturals DEF BudgetInv, TypeOK
  <2> QED BY <2>1, <2>2, <2>3, <1>1, <1>2 DEF BudgetInv, ConnectsPaidWhileHeld
<1>3. CASE /\ Spend(cost, Refilled)
           /\ conn' = [conn EXCEPT ![c] = "waiting"]
           /\ until' = [until EXCEPT ![c] = clock + WaitMs(Refilled - cost * Milli)]
           /\ bill' = [bill EXCEPT ![c] = spent']
           /\ UNCHANGED retains
  <2>1. /\ NothingMinted' /\ spent' = spent + cost
        /\ balance' \in Int /\ credited' \in 0..MaxClock /\ spent' \in Nat
        /\ balance' = Refilled - cost * Milli
        /\ spent' * Milli + balance' <= (clock - born) * Rate
    BY <1>0, <1>1, <1>3, SpendStep
  <2> DEFINE w == WaitMs(Refilled - cost * Milli)
  <2>2. w \in Nat /\ -(balance') <= w * Rate
    BY <2>1, WaitIsEnough
  <2>3. TypeOK'
    BY <2>1, <2>2, <1>0, <1>1, <1>3 DEF BudgetInv, TypeOK
  <2>4. admits' * ConnectCost <= spent'
    BY <2>1, <1>0, <1>1, CostsAreNaturals DEF BudgetInv, TypeOK
  <2>5. spent' * Milli <= (clock + w - born) * Rate
    <3> DEFINE s == spent' * Milli
               t == (clock - born) * Rate
               e == w * Rate
               b == balance'
    <3> HIDE DEF w
    <3>1. (clock + w - born) * Rate = t + e BY <1>0, <2>2
    <3>2. s \in Int /\ t \in Int /\ e \in Int /\ b \in Int BY <1>0, <2>1, <2>2
    <3>3. s + b <= t /\ -b <= e BY <2>1, <2>2
    <3>4. s <= t + e
      <4> HIDE DEF s, t, e, b
      <4> QED BY <3>2, <3>3
    <3> QED BY <3>1, <3>4
  <2>6. ASSUME NEW d \in Conns, conn'[d] = "waiting"
        PROVE  born' <= until'[d] /\ bill'[d] * Milli <= (until'[d] - born') * Rate
    <3>1. CASE d = c
      <4>1. until'[d] = clock + w /\ bill'[d] = spent' /\ born' = born BY <3>1, <1>0, <1>1, <1>3
      <4> HIDE DEF w
      <4> QED BY <4>1, <2>2, <2>5, <1>0
    <3>2. CASE d # c
      <4>1. until'[d] = until[d] /\ bill'[d] = bill[d] /\ born' = born /\ conn[d] = "waiting"
        BY <3>2, <2>6, <1>0, <1>1, <1>3
      <4> QED BY <4>1 DEF BudgetInv
    <3> QED BY <3>1, <3>2
  <2> QED BY <2>1, <2>3, <2>4, <2>6, <1>1 DEF BudgetInv, ConnectsPaidWhileHeld
<1> QED BY <1>2, <1>3 DEF Charge

LEMMA HandOverBudget ==
  ASSUME BudgetInv, NEW c \in Conns, NEW f \in FanOutCosts, HandOver(c, f)
  PROVE  BudgetInv'
<1>0. /\ Rate \in Nat /\ Milli \in Nat /\ f \in Nat /\ spent \in Nat /\ balance \in Int
      /\ admits \in Nat /\ ConnectCost \in Nat
      /\ conn \in [Conns -> {"off", "on", "waiting"}] /\ retains \in BOOLEAN
      /\ credited \in Int /\ born \in Int
  BY CostsAreNaturals DEF BudgetInv, TypeOK
<1>1. /\ held /\ conn' = [conn EXCEPT ![c] = "on"]
      /\ balance' = balance - f * Milli /\ spent' = spent + f
      /\ retains' \in {retains, TRUE}
      /\ UNCHANGED <<clock, held, credited, until, born, admits, bill, everAdmits>>
  BY DEF HandOver, BudgetInv
<1>2. f * Milli \in Int /\ (credited - born) * Rate \in Int
  BY <1>0
<1>3. TypeOK'
  <2>1. balance' \in Int /\ spent' \in Nat BY <1>0, <1>1, <1>2
  <2>2. retains' \in BOOLEAN BY <1>0, <1>1, Zenon
  <2>3. conn' \in [Conns -> {"off", "on", "waiting"}] BY <1>0, <1>1
  <2> QED BY <2>1, <2>2, <2>3, <1>1 DEF BudgetInv, TypeOK
<1>4. NothingMinted'
  <2>1. spent * Milli + balance <= (credited - born) * Rate BY <1>1 DEF BudgetInv, NothingMinted
  <2>2. (spent + f) * Milli + (balance - f * Milli) <= (credited - born) * Rate
    BY <2>1, <1>0, <1>2, SpendKeepsSum
  <2> QED BY <2>2, <1>1 DEF BudgetInv, NothingMinted
<1>5. admits' * ConnectCost <= spent'
  BY <1>0, <1>1 DEF BudgetInv
<1>6. \A d \in Conns : conn'[d] = "waiting" => conn[d] = "waiting"
  BY <1>0, <1>1
<1> QED BY <1>1, <1>3, <1>4, <1>5, <1>6 DEF BudgetInv, ConnectsPaidWhileHeld

LEMMA LeaveBudget ==
  ASSUME BudgetInv, NEW c \in Conns, Leave(c)
  PROVE  BudgetInv'
<1>0. /\ conn \in [Conns -> {"off", "on", "waiting"}] /\ conn' = [conn EXCEPT ![c] = "off"]
      /\ UNCHANGED <<clock, retains, until, bill, everAdmits>>
  BY DEF BudgetInv, TypeOK, Leave
<1>1. CASE UNCHANGED <<held, balance, credited, born, spent, admits>>
  <2>1. TypeOK' BY <1>0, <1>1 DEF BudgetInv, TypeOK
  <2>2. \A d \in Conns : conn'[d] # "off" => conn[d] = conn'[d] BY <1>0
  <2> QED BY <2>1, <2>2, <1>0, <1>1 DEF BudgetInv, NothingMinted, ConnectsPaidWhileHeld
<1>2. CASE /\ ~(retains \/ \E d \in Conns \ {c} : conn[d] # "off")
           /\ held' = FALSE
           /\ balance' = 0 /\ credited' = 0
           /\ born' = 0 /\ spent' = 0 /\ admits' = 0
  <2>1. \A d \in Conns : conn'[d] = "off" BY <1>0, <1>2
  <2>2. TypeOK'
    <3>1. 0 \in 0..MaxClock /\ 0 \in Nat /\ 0 \in Int BY CostsAreNaturals
    <3>2. conn' \in [Conns -> {"off", "on", "waiting"}] BY <1>0
    <3>3. held' \in BOOLEAN BY <1>2, Zenon
    <3> QED BY <3>1, <3>2, <3>3, <1>0, <1>2 DEF BudgetInv, TypeOK
  <2> QED BY <2>1, <2>2, <1>2 DEF BudgetInv, NothingMinted, ConnectsPaidWhileHeld
<1> QED BY <1>1, <1>2 DEF Leave

LEMMA TickBudget ==
  ASSUME BudgetInv, Tick
  PROVE  BudgetInv'
<1>1. /\ clock' = clock + 1 /\ clock < MaxClock
      /\ UNCHANGED <<held, retains, balance, credited, conn, until, born, spent, admits, bill, everAdmits>>
  BY DEF Tick
<1>2. clock \in Nat /\ born \in Nat /\ Rate \in Nat /\ MaxClock \in Nat
  BY CostsAreNaturals DEF BudgetInv, TypeOK
<1>3. TypeOK'
  BY <1>1, <1>2 DEF BudgetInv, TypeOK
<1>4. NothingMinted'
  BY <1>1, <1>2 DEF BudgetInv, NothingMinted, TypeOK
<1>5. ConnectsPaidWhileHeld'
  <2>0. CASE ~held
    BY <2>0, <1>1 DEF ConnectsPaidWhileHeld
  <2> SUFFICES ASSUME held PROVE ConnectsPaidWhileHeld'
    BY <2>0
  <2> DEFINE a == admits * ConnectCost * Milli
             t == (clock - born) * Rate
             d == RefuseAbove * Rate
             m == ConnectCost * Milli
  <2>1. a <= t + d + m BY DEF BudgetInv, ConnectsPaidWhileHeld
  <2> DEFINE n == (clock' - born) * Rate
  <2>2. clock' - born = (clock - born) + 1 /\ clock - born \in Int BY <1>1, <1>2
  <2>3. n = t + Rate
    <3> DEFINE x == clock - born
    <3>1. x \in Int /\ clock' - born = x + 1 BY <2>2
    <3> HIDE DEF x
    <3>2. (x + 1) * Rate = x * Rate + Rate BY <3>1, <1>2
    <3> QED BY <3>1, <3>2 DEF x
  <2>4. a \in Int /\ t \in Int /\ d \in Int /\ m \in Int
    BY <1>2, CostsAreNaturals DEF BudgetInv, TypeOK
  <2>5. a <= n + d + m
    <3> HIDE DEF a, t, d, m, n
    <3> QED BY <2>1, <2>3, <2>4, <1>2
  <2>6. admits * ConnectCost * Milli <=
          (clock' - born) * Rate + RefuseAbove * Rate + ConnectCost * Milli
    BY <2>5
  <2> QED BY <2>6, <1>1, Zenon DEF ConnectsPaidWhileHeld
<1> QED BY <1>1, <1>3, <1>4, <1>5 DEF BudgetInv

LEMMA NextBudget == BudgetInv /\ [Next]_vars => BudgetInv'
<1> SUFFICES ASSUME BudgetInv, [Next]_vars PROVE BudgetInv' OBVIOUS
<1>1. ASSUME NEW c \in Conns, Refused(c) PROVE BudgetInv' BY <1>1, RefusedBudget
<1>2. ASSUME NEW c \in Conns, Connect(c) PROVE BudgetInv' BY <1>2, ConnectBudget
<1>3. ASSUME NEW c \in Conns, Leave(c) PROVE BudgetInv' BY <1>3, LeaveBudget
<1>4. ASSUME NEW c \in Conns, NEW cost \in ChunkCosts, NEW f \in FanOutCosts, Charge(c, cost, f)
      PROVE  BudgetInv'
  BY <1>4, ChargeBudget
<1>5. ASSUME NEW c \in Conns, NEW f \in FanOutCosts, HandOver(c, f) PROVE BudgetInv'
  BY <1>5, HandOverBudget
<1>6. CASE Tick BY <1>6, TickBudget
<1>7. CASE UNCHANGED vars
  BY <1>7 DEF vars, BudgetInv, TypeOK, NothingMinted, ConnectsPaidWhileHeld
<1> QED BY <1>1, <1>2, <1>3, <1>4, <1>5, <1>6, <1>7 DEF Next

\* A bucket never pays out more than its rate earned, whatever connections share
\* it and however their charges interleave (rate.rs: the bucket cannot mint work).
THEOREM BucketMintsNothing == Spec => []NothingMinted
<1>1. BudgetInv => NothingMinted BY DEF BudgetInv
<1> QED BY <1>1, InitBudget, NextBudget, PTL DEF Spec

\* A chunk that waited is handed over only once everything charged up to it has
\* been earned (Hub::charge: "The debt covers this message").
THEOREM WaitCoversDebt == Spec => []PaidBeforeHandedOver
<1>1. BudgetInv => PaidBeforeHandedOver
  <2> SUFFICES ASSUME BudgetInv, NEW c \in Conns, conn[c] = "waiting", clock >= until[c]
               PROVE  bill[c] * Milli <= (clock - born) * Rate
    BY DEF PaidBeforeHandedOver
  <2>1. /\ Rate \in Nat /\ Milli \in Nat /\ clock \in Int /\ born \in Int /\ until[c] \in Int
        /\ bill[c] \in Nat /\ bill[c] * Milli <= (until[c] - born) * Rate
    BY CostsAreNaturals DEF BudgetInv, TypeOK
  <2>2. (clock - born) * Rate = (until[c] - born) * Rate + (clock - until[c]) * Rate
    BY <2>1
  <2>3. (clock - until[c]) * Rate \in Nat /\ (until[c] - born) * Rate \in Int /\ bill[c] * Milli \in Int
    BY <2>1
  <2> QED BY <2>1, <2>2, <2>3
<1> QED BY <1>1, InitBudget, NextBudget, PTL DEF Spec

\* While an account is held, connecting costs it: see ConnectsPaidWhileHeld.
THEOREM ConnectsCost == Spec => []ConnectsPaidWhileHeld
<1>1. BudgetInv => ConnectsPaidWhileHeld BY DEF BudgetInv
<1> QED BY <1>1, InitBudget, NextBudget, PTL DEF Spec

=============================================================================
