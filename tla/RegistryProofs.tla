---------------------------- MODULE RegistryProofs ----------------------------
(***************************************************************************)
(* The registry, proved for any number of hellos, accounts, invites and    *)
(* grants: at most one principal signs an account's revocations at a time, *)
(* an invite registers at most one account, and the files and the lock     *)
(* together implement the atomic registry OneSigner.                       *)
(*                                                                         *)
(* The argument: a grant let in that stands, neither run out nor cut short *)
(* by another of its principal's, is covered by the record                 *)
(* (SignersCovered), and whoever is about to write a new record            *)
(* holds the lock and has found the old one spent or its own               *)
(* (ClaimsHeld), which stays so because the clock a hello read is never    *)
(* ahead (ClocksPast). For invites, the marker is the claim: whoever is    *)
(* past it is alone with it (InvitesClaimed).                              *)
(***************************************************************************)
EXTENDS Registry, TLAPS

Places == {"verified", "read", "mark", "remove", "create", "admitted", "write", "rename", "welcome"}

Busy == [at : Places, account : Accounts, leaf : Grants \cup {NoGrant}, invite : Invites \cup {NoInvite},
         address : Addresses, now : Nat, read : Nat]

\* Every variable the argument is about has its type.
RegistryTypes ==
  /\ clock \in Nat /\ mode \in {"invite", "open"}
  /\ accounts \in SUBSET Accounts /\ invites \in SUBSET Invites
  /\ issued \in SUBSET Invites /\ used \in SUBSET (Invites \cup {NoInvite})
  /\ expires \in [Invites -> Nat]
  /\ revokers \in [Accounts -> Grants \cup {NoRecord}]
  /\ signers \in [Accounts -> SUBSET Grants]
  /\ lock \in Tasks \cup {NoTask}
  /\ hello \in [Tasks -> Busy \cup {Idle}]
  /\ via \in [Accounts -> [invite : Invites \cup {NoInvite}, at : Nat]]

\* The clock a hello goes by is one that was.
ClocksPast == \A t \in Tasks : hello[t] # Idle => Now(t) <= clock

\* The record is a grant that was let in, and every one that stands is its principal's
\* and no later.
SignersCovered ==
  \A a \in Accounts :
    /\ revokers[a] # NoRecord => revokers[a] \in signers[a]
    /\ \A s \in signers[a] : Stands(a, s) =>
         /\ revokers[a] # NoRecord /\ revokers[a].principal = s.principal
         /\ s.since <= revokers[a].since

\* The record may be replaced by the leaf of t.
MayReplace(t) ==
  LET r == revokers[Account(t)]
  IN FreeFor(t, r) \/ (Mine(t, r) /\ r.since < Leaf(t).since)

Writing(t) == hello[t].at \in {"write", "rename"}

\* Whoever is about to write the record holds the lock and still may.
ClaimsHeld == \A t \in Tasks : Writing(t) => lock = t /\ Leaf(t) \in Grants /\ MayReplace(t)

SignerInv == RegistryTypes /\ ClocksPast /\ SignersCovered /\ ClaimsHeld

-----------------------------------------------------------------------------
\* A hello that is not idle is a record of what was asked.
LEMMA BusyIsARecord ==
  ASSUME RegistryTypes, NEW t \in Tasks, hello[t].at # "idle"
  PROVE  hello[t] \in Busy
BY DEF RegistryTypes, Idle

\* To changes a hello's place and nothing else of it, and no other hello.
LEMMA ToMoves ==
  ASSUME RegistryTypes, NEW t \in Tasks, hello[t].at # "idle", NEW place \in Places, To(t, place)
  PROVE  /\ hello' \in [Tasks -> Busy \cup {Idle}]
         /\ hello'[t] \in Busy /\ hello'[t].at = place
         /\ hello'[t].account = hello[t].account /\ hello'[t].leaf = hello[t].leaf
         /\ hello'[t].invite = hello[t].invite /\ hello'[t].now = hello[t].now
         /\ hello'[t].read = hello[t].read
         /\ \A u \in Tasks \ {t} : hello'[u] = hello[u]
<1>1. hello[t] \in Busy
  BY BusyIsARecord
<1>2. hello' = [hello EXCEPT ![t] = [hello[t] EXCEPT !.at = place]]
  BY DEF To
<1>3. [hello[t] EXCEPT !.at = place] \in Busy
  BY <1>1 DEF Busy
<1> QED
  BY <1>1, <1>2, <1>3 DEF RegistryTypes, Busy

\* End leaves a hello idle, and no other changed.
LEMMA EndIdles ==
  ASSUME RegistryTypes, NEW t \in Tasks, End(t)
  PROVE  /\ hello' \in [Tasks -> Busy \cup {Idle}]
         /\ hello'[t] = Idle
         /\ \A u \in Tasks \ {t} : hello'[u] = hello[u]
BY DEF End, RegistryTypes

\* An idle hello writes nothing, and a busy one is not idle.
LEMMA IdleOrBusy ==
  /\ Idle \notin Busy
  /\ Idle.at = "idle"
  /\ \A b \in Busy : b.at \in Places /\ b.at # "idle" /\ b # Idle
<1>1. Idle.at = "idle"
  BY DEF Idle
<1>2. \A b \in Busy : b.at \in Places /\ b.at # "idle"
  BY DEF Busy, Places
<1> QED
  BY <1>1, <1>2
-----------------------------------------------------------------------------
\* Most steps move one hello, to a place where it writes nothing, and leave the record,
\* the lock and the clock alone.
LEMMA QuietStep ==
  ASSUME SignerInv, RegistryTypes', NEW t \in Tasks,
         \A u \in Tasks \ {t} : hello'[u] = hello[u],
         \/ hello'[t] = Idle
         \/ /\ hello'[t] \in Busy /\ hello'[t].at \notin {"write", "rename"}
            /\ hello'[t].now <= clock,
         UNCHANGED <<clock, revokers, signers, lock>>
  PROVE  SignerInv'
<1>1. ClocksPast'
  BY DEF SignerInv, ClocksPast, Now
<1>2. SignersCovered'
  BY DEF SignerInv, SignersCovered, Stands, CutShort
<1>3. ClaimsHeld'
  <2> SUFFICES ASSUME NEW u \in Tasks, Writing(u)'
               PROVE  (lock = u /\ Leaf(u) \in Grants /\ MayReplace(u))'
    BY DEF ClaimsHeld
  <2>1. u # t
    BY IdleOrBusy DEF Writing
  <2>2. hello'[u] = hello[u]
    BY <2>1
  <2>3. lock = u /\ Leaf(u) \in Grants /\ MayReplace(u)
    BY <2>2 DEF SignerInv, ClaimsHeld, Writing
  <2> QED
    BY <2>2, <2>3 DEF Leaf, MayReplace, Account, FreeFor, Mine, Now
<1> QED
  BY <1>1, <1>2, <1>3 DEF SignerInv

\* Hello: the clock it will go by is the clock now.
LEMMA HelloKeeps ==
  ASSUME SignerInv, NEW t \in Tasks, NEW r \in Requests, Hello(t, r)
  PROVE  SignerInv'
<1> DEFINE b == [at |-> "verified", account |-> r.account, leaf |-> r.leaf, invite |-> r.invite,
                 address |-> r.address, now |-> clock, read |-> 0]
<1>1. r \in [account : Accounts, leaf : Grants \cup {NoGrant},
             invite : Invites \cup {NoInvite}, address : Addresses]
  BY RegistryAssumption
<1>2. b \in Busy /\ b.at = "verified" /\ b.now = clock
  BY <1>1 DEF Busy, Places, SignerInv, RegistryTypes
<1>3. hello' = [hello EXCEPT ![t] = b]
  BY DEF Hello
<1> HIDE DEF b
<1>4. hello' \in [Tasks -> Busy \cup {Idle}] /\ hello'[t] = b /\ \A u \in Tasks \ {t} : hello'[u] = hello[u]
  BY <1>2, <1>3 DEF SignerInv, RegistryTypes
<1>5. RegistryTypes'
  BY <1>4 DEF SignerInv, RegistryTypes, Hello, files
<1>6. hello'[t].now <= clock
  BY <1>2, <1>4 DEF SignerInv, RegistryTypes
<1>7. UNCHANGED <<clock, revokers, signers, lock>>
  BY DEF Hello
<1> QED
  BY <1>2, <1>4, <1>5, <1>6, <1>7, QuietStep

\* A hello that ends, or moves on without the record, keeps the invariant.
LEMMA MovesQuietly ==
  ASSUME SignerInv, NEW t \in Tasks, hello[t].at # "idle",
         \/ End(t)
         \/ \E place \in Places \ {"write", "rename"} : To(t, place),
         UNCHANGED <<clock, mode, expires, issued, revokers, lock, signers>>,
         accounts' \in SUBSET Accounts, invites' \in SUBSET Invites,
         used' \in SUBSET (Invites \cup {NoInvite}),
         via' \in [Accounts -> [invite : Invites \cup {NoInvite}, at : Nat]]
  PROVE  SignerInv'
<1>1. RegistryTypes
  BY DEF SignerInv
<1>2. hello[t] \in Busy /\ hello[t].now <= clock
  BY <1>1, BusyIsARecord, IdleOrBusy DEF SignerInv, ClocksPast, Now
<1>3. CASE End(t)
  <2>1. /\ hello' \in [Tasks -> Busy \cup {Idle}] /\ hello'[t] = Idle
        /\ \A u \in Tasks \ {t} : hello'[u] = hello[u]
    BY <1>1, <1>3, EndIdles
  <2>2. RegistryTypes'
    BY <1>1, <2>1 DEF RegistryTypes
  <2> QED
    BY <2>1, <2>2, QuietStep
<1>4. ASSUME NEW place \in Places \ {"write", "rename"}, To(t, place)
      PROVE  SignerInv'
  <2>1. /\ hello' \in [Tasks -> Busy \cup {Idle}]
        /\ hello'[t] \in Busy /\ hello'[t].at = place /\ hello'[t].now = hello[t].now
        /\ \A u \in Tasks \ {t} : hello'[u] = hello[u]
    BY <1>1, <1>4, ToMoves
  <2>2. RegistryTypes'
    BY <1>1, <2>1 DEF RegistryTypes
  <2>3. hello'[t].at \notin {"write", "rename"} /\ hello'[t].now <= clock
    BY <1>2, <2>1
  <2> QED
    BY <2>1, <2>2, <2>3, QuietStep
<1> QED
  BY <1>3, <1>4
\* admit, up to a slot, an invite or a known account.
LEMMA AdmitKeeps ==
  ASSUME SignerInv, NEW t \in Tasks, Admit(t)
  PROVE  SignerInv'
<1>1. hello[t].at # "idle"
  BY DEF Admit, At
<1>2. End(t) \/ \E place \in Places \ {"write", "rename"} : To(t, place)
  <2>1. {"create", "admitted", "read"} \subseteq Places \ {"write", "rename"}
    BY DEF Places
  <2> QED
    BY <2>1 DEF Admit, TakeOpenSlot
<1>3. UNCHANGED <<clock, mode, accounts, invites, expires, issued, used, revokers, lock, via, signers>>
  BY DEF Admit, files
<1> QED
  BY <1>1, <1>2, <1>3, MovesQuietly DEF SignerInv, RegistryTypes

\* ReadInvite also keeps what the file says.
LEMMA ReadInviteMoves ==
  ASSUME RegistryTypes, NEW t \in Tasks, ReadInvite(t), ~End(t)
  PROVE  /\ hello' \in [Tasks -> Busy \cup {Idle}]
         /\ hello'[t] \in Busy /\ hello'[t].at = "mark"
         /\ hello'[t].invite = hello[t].invite /\ hello'[t].now = hello[t].now
         /\ hello'[t].read = expires[hello[t].invite]
         /\ hello[t].invite \in invites
         /\ \A u \in Tasks \ {t} : hello'[u] = hello[u]
<1>1. hello[t] \in Busy
  BY BusyIsARecord DEF ReadInvite, At
<1>2. hello[t].invite \in invites /\ expires[hello[t].invite] \in Nat
  BY DEF ReadInvite, Invite, RegistryTypes
<1> DEFINE b == [hello[t] EXCEPT !.at = "mark", !.read = expires[hello[t].invite]]
<1>3. hello' = [hello EXCEPT ![t] = b]
  BY <1>2 DEF ReadInvite, Invite, RegistryTypes
<1>4. /\ b \in Busy /\ b.at = "mark" /\ b.invite = hello[t].invite /\ b.now = hello[t].now
      /\ b.read = expires[hello[t].invite]
  BY <1>1, <1>2 DEF Busy, Places
<1> HIDE DEF b
<1> QED
  BY <1>2, <1>3, <1>4 DEF RegistryTypes

LEMMA ReadInviteKeeps ==
  ASSUME SignerInv, NEW t \in Tasks, ReadInvite(t)
  PROVE  SignerInv'
<1>0. RegistryTypes /\ hello[t].at # "idle"
  BY DEF ReadInvite, At, SignerInv
<1>1. UNCHANGED <<clock, mode, accounts, invites, expires, issued, used, revokers, lock, via, signers>>
  BY DEF ReadInvite, files
<1>2. CASE End(t)
  BY <1>0, <1>1, <1>2, MovesQuietly DEF RegistryTypes
<1>3. CASE ~End(t)
  <2>1. /\ hello' \in [Tasks -> Busy \cup {Idle}]
        /\ hello'[t] \in Busy /\ hello'[t].at = "mark" /\ hello'[t].now = hello[t].now
        /\ \A u \in Tasks \ {t} : hello'[u] = hello[u]
    BY <1>0, <1>3, ReadInviteMoves
  <2>2. RegistryTypes'
    BY <1>0, <1>1, <2>1 DEF RegistryTypes
  <2>3. hello[t].now <= clock
    BY <1>0, BusyIsARecord, IdleOrBusy DEF SignerInv, ClocksPast, Now
  <2> QED
    BY <1>1, <2>1, <2>2, <2>3, QuietStep
<1> QED
  BY <1>2, <1>3

\* The marker, the invite's removal and the account's file do not touch the record.
LEMMA MarkInviteKeeps ==
  ASSUME SignerInv, NEW t \in Tasks, NEW fails \in BOOLEAN, MarkInvite(t, fails)
  PROVE  SignerInv'
<1>1. RegistryTypes /\ hello[t].at # "idle"
  BY DEF SignerInv, MarkInvite, At
<1>2. UNCHANGED <<clock, mode, accounts, invites, expires, issued, revokers, lock, via, signers>>
  BY DEF MarkInvite
<1>3. End(t) \/ \E place \in Places \ {"write", "rename"} : To(t, place)
  <2>1. "remove" \in Places \ {"write", "rename"}
    BY DEF Places
  <2> QED
    BY <2>1 DEF MarkInvite
<1>4. hello[t].invite \in Invites \cup {NoInvite}
  BY <1>1, BusyIsARecord DEF Busy
<1>5. used' \in SUBSET (Invites \cup {NoInvite})
  BY <1>1, <1>4 DEF MarkInvite, Invite, RegistryTypes
<1> QED
  BY <1>1, <1>2, <1>3, <1>5, MovesQuietly DEF RegistryTypes

LEMMA RemoveInviteKeeps ==
  ASSUME SignerInv, NEW t \in Tasks, NEW fails \in BOOLEAN, RemoveInvite(t, fails)
  PROVE  SignerInv'
<1>1. RegistryTypes /\ hello[t].at # "idle"
  BY DEF SignerInv, RemoveInvite, At
<1>2. UNCHANGED <<clock, mode, accounts, expires, issued, used, revokers, lock, via, signers>>
  BY DEF RemoveInvite
<1>3. End(t) \/ \E place \in Places \ {"write", "rename"} : To(t, place)
  <2>1. "create" \in Places \ {"write", "rename"}
    BY DEF Places
  <2> QED
    BY <2>1 DEF RemoveInvite
<1>4. invites' \in SUBSET Invites
  BY <1>1 DEF RemoveInvite, RegistryTypes
<1> QED
  BY <1>1, <1>2, <1>3, <1>4, MovesQuietly DEF RegistryTypes

LEMMA CreateAccountKeeps ==
  ASSUME SignerInv, NEW t \in Tasks, NEW result, CreateAccount(t, result)
  PROVE  SignerInv'
<1>1. RegistryTypes /\ hello[t].at # "idle"
  BY DEF SignerInv, CreateAccount, At
<1>2. UNCHANGED <<clock, mode, invites, expires, issued, used, revokers, lock, signers>>
  BY DEF CreateAccount
<1>3. End(t) \/ \E place \in Places \ {"write", "rename"} : To(t, place)
  <2>1. "admitted" \in Places \ {"write", "rename"}
    BY DEF Places
  <2> QED
    BY <2>1 DEF CreateAccount
<1>4. hello[t].account \in Accounts /\ hello[t].invite \in Invites \cup {NoInvite} /\ hello[t].now \in Nat
  BY <1>1, BusyIsARecord DEF Busy
<1>5. accounts' \in SUBSET Accounts
  BY <1>1, <1>4 DEF CreateAccount, Account, RegistryTypes
<1>6. via' \in [Accounts -> [invite : Invites \cup {NoInvite}, at : Nat]]
  <2>1. CASE via' = via
    BY <1>1, <2>1 DEF RegistryTypes
  <2>2. CASE via' = [via EXCEPT ![Account(t)] =
                       [invite |-> IF mode = "open" THEN NoInvite ELSE Invite(t), at |-> Now(t)]]
    BY <1>1, <1>4, <2>2 DEF RegistryTypes, Account, Invite, Now
  <2> QED
    BY <2>1, <2>2 DEF CreateAccount
<1> QED
  BY <1>1, <1>2, <1>3, <1>5, <1>6, MovesQuietly DEF RegistryTypes

LEMMA WelcomeKeeps ==
  ASSUME SignerInv, NEW t \in Tasks, Welcome(t)
  PROVE  SignerInv'
<1>1. RegistryTypes /\ hello[t].at # "idle" /\ End(t)
  BY DEF SignerInv, Welcome, WelcomeDue, At
<1>2. UNCHANGED <<clock, mode, accounts, invites, expires, issued, used, revokers, lock, via, signers>>
  BY DEF Welcome, files
<1> QED
  BY <1>1, <1>2, MovesQuietly DEF RegistryTypes

-----------------------------------------------------------------------------
\* Only one task is at its write or its rename: the lock names it.
LEMMA OneWriter ==
  ASSUME SignerInv, NEW t \in Tasks, NEW u \in Tasks, Writing(t), Writing(u)
  PROVE  t = u
BY DEF SignerInv, ClaimsHeld

LEMMA FreeLockNoWriter ==
  ASSUME SignerInv, LockFree, NEW t \in Tasks
  PROVE  ~Writing(t)
BY RegistryAssumption DEF SignerInv, ClaimsHeld, LockFree

\* Grants have natural times.
LEMMA GrantTimes ==
  \A g \in Grants : g.since \in Nat /\ g.until \in Nat /\ g # NoRecord /\ g # NoGrant
BY RegistryAssumption

\* A grant that stands after a step that lets more in stood before it.
LEMMA StoodBefore ==
  ASSUME RegistryTypes, NEW a \in Accounts, NEW s \in signers[a], signers[a] \subseteq signers'[a],
         clock' \in Nat, clock <= clock', Stands(a, s)'
  PROVE  Stands(a, s)
<1>1. clock \in Nat /\ s \in Grants
  BY DEF RegistryTypes
<1>2. s.until \in Nat /\ s.until > clock'
  BY <1>1, GrantTimes DEF Stands
<1>3. s.until > clock
  BY <1>1, <1>2
<1>4. ~CutShort(a, s)
  BY DEF Stands, CutShort
<1> QED
  BY <1>3, <1>4 DEF Stands

\* The record lasts as long as a grant that stands, which it would cut short otherwise.
LEMMA CoveredLasts ==
  ASSUME RegistryTypes, SignersCovered, NEW a \in Accounts, NEW s \in signers[a], Stands(a, s)
  PROVE  /\ revokers[a] \in Grants /\ revokers[a] # NoRecord /\ revokers[a].principal = s.principal
         /\ s.since <= revokers[a].since /\ s.until <= revokers[a].until
<1>1. /\ revokers[a] # NoRecord /\ revokers[a] \in signers[a] /\ revokers[a].principal = s.principal
      /\ s.since <= revokers[a].since
  BY DEF SignersCovered
<1>2. revokers[a] \in Grants /\ s \in Grants
  BY <1>1 DEF RegistryTypes
<1>3. ~ revokers[a].until < s.until
  BY <1>1 DEF Stands, CutShort
<1> QED
  BY <1>1, <1>2, <1>3, GrantTimes

\* claim_revoker's decision under its lock.
LEMMA ClaimKeeps ==
  ASSUME SignerInv, NEW t \in Tasks, Claim(t)
  PROVE  SignerInv'
<1> DEFINE a == Account(t)
           r == revokers[Account(t)]
<1>1. RegistryTypes /\ hello[t].at # "idle"
  BY DEF SignerInv, Claim, At
<1>2. hello[t] \in Busy /\ hello[t].account \in Accounts /\ Leaf(t) \in Grants /\ hello[t].now <= clock
      /\ hello[t].now \in Nat
  <2>1. hello[t] \in Busy
    BY <1>1, BusyIsARecord
  <2>2. hello[t].leaf \in Grants
    BY <2>1 DEF Busy, Claim, Leaf
  <2> QED
    BY <2>1, <2>2, IdleOrBusy DEF Busy, SignerInv, ClocksPast, Now, Leaf
<1>3. a \in Accounts /\ r \in Grants \cup {NoRecord}
  BY <1>1, <1>2 DEF Account, RegistryTypes
<1>4. UNCHANGED <<clock, mode, accounts, invites, expires, issued, used, revokers, via>>
  BY DEF Claim, files
<1>5. CASE /\ FreeFor(t, r) \/ (Mine(t, r) /\ r.since < Leaf(t).since)
           /\ To(t, "write") /\ lock' = t /\ UNCHANGED signers
  <2>1. /\ hello' \in [Tasks -> Busy \cup {Idle}]
        /\ hello'[t] \in Busy /\ hello'[t].at = "write"
        /\ hello'[t].account = hello[t].account /\ hello'[t].leaf = hello[t].leaf
        /\ hello'[t].now = hello[t].now
        /\ \A u \in Tasks \ {t} : hello'[u] = hello[u]
    <3>1. "write" \in Places
      BY DEF Places
    <3> QED
      BY <1>1, <1>5, <3>1, ToMoves
  <2>2. RegistryTypes'
    BY <1>1, <1>4, <1>5, <2>1 DEF RegistryTypes
  <2>3. ClocksPast'
    BY <1>2, <1>4, <2>1 DEF SignerInv, ClocksPast, Now
  <2>4. SignersCovered'
    BY <1>4, <1>5 DEF SignerInv, SignersCovered, Stands, CutShort
  <2>5. ClaimsHeld'
    <3> SUFFICES ASSUME NEW u \in Tasks, Writing(u)'
                 PROVE  (lock = u /\ Leaf(u) \in Grants /\ MayReplace(u))'
      BY DEF ClaimsHeld
    <3>1. LockFree
      BY DEF Claim
    <3>2. u = t
      <4>1. ~Writing(u)
        BY <3>1, FreeLockNoWriter
      <4> QED
        BY <2>1, <4>1 DEF Writing
    <3>3. Leaf(t)' = Leaf(t) /\ Account(t)' = Account(t) /\ Now(t)' = Now(t)
      BY <2>1 DEF Leaf, Account, Now
    <3> QED
      BY <1>2, <1>4, <1>5, <3>2, <3>3 DEF MayReplace, FreeFor, Mine
  <2> QED
    BY <2>2, <2>3, <2>4, <2>5 DEF SignerInv
<1>6. CASE /\ ~FreeFor(t, r) /\ Mine(t, r) /\ Leaf(t).since <= r.since
           /\ To(t, "welcome") /\ UNCHANGED lock
           /\ signers' = [signers EXCEPT ![a] = @ \cup {Leaf(t)}]
  <2>1. /\ hello' \in [Tasks -> Busy \cup {Idle}]
        /\ hello'[t] \in Busy /\ hello'[t].at = "welcome" /\ hello'[t].now = hello[t].now
        /\ \A u \in Tasks \ {t} : hello'[u] = hello[u]
    <3>1. "welcome" \in Places
      BY DEF Places
    <3> QED
      BY <1>1, <1>6, <3>1, ToMoves
  <2>2. RegistryTypes'
    BY <1>1, <1>2, <1>3, <1>4, <1>6, <2>1 DEF RegistryTypes
  <2>3. ClocksPast'
    BY <1>2, <1>4, <2>1 DEF SignerInv, ClocksPast, Now
  <2>4. r # NoRecord /\ r.principal = Leaf(t).principal /\ Leaf(t).since <= r.since
    BY <1>6 DEF Mine
  <2>5. SignersCovered'
    <3>1. \A b \in Accounts : signers[b] \subseteq signers'[b] /\ \A s \in signers'[b] :
            s \in signers[b] \/ (b = a /\ s = Leaf(t))
      BY <1>1, <1>3, <1>6 DEF RegistryTypes
    <3>2. \A b \in Accounts : revokers'[b] # NoRecord => revokers'[b] \in signers'[b]
      BY <1>4, <3>1 DEF SignerInv, SignersCovered
    <3> SUFFICES ASSUME NEW b \in Accounts, NEW s \in signers'[b], Stands(b, s)'
                 PROVE  /\ revokers[b] # NoRecord /\ revokers[b].principal = s.principal
                        /\ s.since <= revokers[b].since
      BY <1>4, <3>2 DEF SignersCovered
    <3>3. CASE s \in signers[b]
      <4>1. clock' \in Nat /\ clock <= clock'
        BY <1>1, <1>4 DEF RegistryTypes
      <4>2. Stands(b, s)
        BY <1>1, <3>1, <3>3, <4>1, StoodBefore
      <4> QED
        BY <3>3, <4>2 DEF SignerInv, SignersCovered
    <3>4. CASE b = a /\ s = Leaf(t)
      BY <2>4, <3>4
    <3> QED
      BY <3>1, <3>3, <3>4
  <2>6. ClaimsHeld'
    <3> SUFFICES ASSUME NEW u \in Tasks, Writing(u)'
                 PROVE  FALSE
      BY DEF ClaimsHeld
    <3>1. LockFree
      BY DEF Claim
    <3>2. ~Writing(u)
      BY <3>1, FreeLockNoWriter
    <3> QED
      BY <2>1, <3>2 DEF Writing
  <2> QED
    BY <2>2, <2>3, <2>5, <2>6 DEF SignerInv
<1>7. CASE End(t) /\ UNCHANGED <<lock, signers>>
  BY <1>1, <1>4, <1>7, MovesQuietly DEF RegistryTypes
<1> QED
  BY <1>5, <1>6, <1>7 DEF Claim

\* write_revoker: the file beside the record, or a failure that gives the lock back.
LEMMA WriteBesideKeeps ==
  ASSUME SignerInv, NEW t \in Tasks, NEW fails \in BOOLEAN, WriteBeside(t, fails)
  PROVE  SignerInv'
<1>1. RegistryTypes /\ hello[t].at # "idle" /\ Writing(t)
  BY DEF SignerInv, WriteBeside, At, Writing
<1>2. UNCHANGED <<clock, mode, accounts, invites, expires, issued, used, revokers, via, signers>>
  BY DEF WriteBeside, WrittenBeside, files
<1>3. hello[t] \in Busy /\ hello[t].now <= clock
  BY <1>1, BusyIsARecord, IdleOrBusy DEF SignerInv, ClocksPast, Now
<1>4. SignersCovered'
  BY <1>2 DEF SignerInv, SignersCovered, Stands, CutShort
<1>5. CASE End(t) /\ lock' = NoTask
  <2>1. /\ hello' \in [Tasks -> Busy \cup {Idle}] /\ hello'[t] = Idle
        /\ \A u \in Tasks \ {t} : hello'[u] = hello[u]
    BY <1>1, <1>5, EndIdles
  <2>2. RegistryTypes'
    BY <1>1, <1>2, <1>5, <2>1 DEF RegistryTypes
  <2>3. ClocksPast'
    BY <1>2, <2>1 DEF SignerInv, ClocksPast, Now
  <2>4. ClaimsHeld'
    <3> SUFFICES ASSUME NEW u \in Tasks, Writing(u)'
                 PROVE  FALSE
      BY DEF ClaimsHeld
    <3>1. u # t /\ hello'[u] = hello[u]
      BY <2>1, IdleOrBusy DEF Writing
    <3> QED
      BY <1>1, <3>1, OneWriter DEF Writing
  <2> QED
    BY <1>4, <2>2, <2>3, <2>4 DEF SignerInv
<1>6. CASE To(t, "rename") /\ UNCHANGED lock
  <2>1. /\ hello' \in [Tasks -> Busy \cup {Idle}]
        /\ hello'[t] \in Busy /\ hello'[t].at = "rename"
        /\ hello'[t].account = hello[t].account /\ hello'[t].leaf = hello[t].leaf
        /\ hello'[t].now = hello[t].now
        /\ \A u \in Tasks \ {t} : hello'[u] = hello[u]
    <3>1. "rename" \in Places
      BY DEF Places
    <3> QED
      BY <1>1, <1>6, <3>1, ToMoves
  <2>2. RegistryTypes'
    BY <1>1, <1>2, <1>6, <2>1 DEF RegistryTypes
  <2>3. ClocksPast'
    BY <1>2, <1>3, <2>1 DEF SignerInv, ClocksPast, Now
  <2>4. ClaimsHeld'
    <3> SUFFICES ASSUME NEW u \in Tasks, Writing(u)'
                 PROVE  (lock = u /\ Leaf(u) \in Grants /\ MayReplace(u))'
      BY DEF ClaimsHeld
    <3>1. Writing(u)
      BY <1>1, <2>1 DEF Writing
    <3>2. lock = u /\ Leaf(u) \in Grants /\ MayReplace(u)
      BY <3>1 DEF SignerInv, ClaimsHeld
    <3>3. Leaf(u)' = Leaf(u) /\ Account(u)' = Account(u) /\ Now(u)' = Now(u)
      BY <2>1 DEF Leaf, Account, Now
    <3> QED
      BY <1>2, <1>6, <3>2, <3>3 DEF MayReplace, FreeFor, Mine
  <2> QED
    BY <1>4, <2>2, <2>3, <2>4 DEF SignerInv
<1> QED
  BY <1>5, <1>6 DEF WriteBeside

\* The rename: whatever lives of the grants let in is the leaf's own principal's, and
\* the leaf lasts as long, for a record that stands was found to be its own and older.
LEMMA RenameOverKeeps ==
  ASSUME SignerInv, NEW t \in Tasks, NEW fails \in BOOLEAN, RenameOver(t, fails)
  PROVE  SignerInv'
<1> DEFINE a == Account(t)
           r == revokers[Account(t)]
<1>1. RegistryTypes /\ hello[t].at # "idle" /\ Writing(t)
  BY DEF SignerInv, RenameOver, At, Writing
<1>2. UNCHANGED <<clock, mode, accounts, invites, expires, issued, used, via>> /\ lock' = NoTask
  BY DEF RenameOver, files
<1>3. hello[t] \in Busy /\ hello[t].account \in Accounts /\ hello[t].now \in Nat /\ hello[t].now <= clock
  BY <1>1, BusyIsARecord, IdleOrBusy DEF SignerInv, ClocksPast, Now, Busy
<1>4. a \in Accounts /\ r \in Grants \cup {NoRecord} /\ Leaf(t) \in Grants
  BY <1>1, <1>3 DEF Account, RegistryTypes, SignerInv, ClaimsHeld
<1>5. \A u \in Tasks \ {t} : hello'[u] = hello[u] => ~Writing(u)'
  BY <1>1, OneWriter DEF Writing
<1>6. CASE End(t) /\ UNCHANGED <<revokers, signers>>
  <2>1. /\ hello' \in [Tasks -> Busy \cup {Idle}] /\ hello'[t] = Idle
        /\ \A u \in Tasks \ {t} : hello'[u] = hello[u]
    BY <1>1, <1>6, EndIdles
  <2>2. RegistryTypes'
    BY <1>1, <1>2, <1>6, <2>1 DEF RegistryTypes
  <2>3. ClocksPast'
    BY <1>2, <2>1 DEF SignerInv, ClocksPast, Now
  <2>4. SignersCovered'
    BY <1>2, <1>6 DEF SignerInv, SignersCovered, Stands, CutShort
  <2>5. ClaimsHeld'
    BY <1>5, <2>1, IdleOrBusy DEF ClaimsHeld, Writing
  <2> QED
    BY <2>2, <2>3, <2>4, <2>5 DEF SignerInv
<1>7. CASE /\ revokers' = [revokers EXCEPT ![a] = Leaf(t)]
           /\ signers' = [signers EXCEPT ![a] = @ \cup {Leaf(t)}]
           /\ To(t, "welcome")
  <2>1. /\ hello' \in [Tasks -> Busy \cup {Idle}]
        /\ hello'[t] \in Busy /\ hello'[t].at = "welcome" /\ hello'[t].now = hello[t].now
        /\ \A u \in Tasks \ {t} : hello'[u] = hello[u]
    <3>1. "welcome" \in Places
      BY DEF Places
    <3> QED
      BY <1>1, <1>7, <3>1, ToMoves
  <2>2. RegistryTypes'
    BY <1>1, <1>2, <1>4, <1>7, <2>1 DEF RegistryTypes
  <2>3. ClocksPast'
    BY <1>2, <1>3, <2>1 DEF SignerInv, ClocksPast, Now
  <2>4. SignersCovered'
    <3>1. \A b \in Accounts \ {a} : signers'[b] = signers[b] /\ revokers'[b] = revokers[b]
      BY <1>1, <1>4, <1>7 DEF RegistryTypes
    <3>2. revokers'[a] = Leaf(t) /\ Leaf(t) # NoRecord /\ signers'[a] = signers[a] \cup {Leaf(t)}
      BY <1>1, <1>4, <1>7, GrantTimes DEF RegistryTypes
    <3>3. clock' \in Nat /\ clock <= clock'
      BY <1>1, <1>2 DEF RegistryTypes
    <3> HIDE DEF a
    <3>4. \A b \in Accounts : revokers'[b] # NoRecord => revokers'[b] \in signers'[b]
      BY <3>1, <3>2 DEF SignerInv, SignersCovered
    <3> SUFFICES ASSUME NEW b \in Accounts, NEW s \in signers'[b], Stands(b, s)'
                 PROVE  /\ revokers'[b] # NoRecord /\ revokers'[b].principal = s.principal
                        /\ s.since <= revokers'[b].since
      BY <3>4 DEF SignersCovered
    <3>5. CASE b # a
      <4>1. signers'[b] = signers[b] /\ revokers'[b] = revokers[b]
        BY <3>1, <3>5
      <4>2. s \in signers[b] /\ Stands(b, s)
        BY <1>1, <3>3, <4>1, StoodBefore
      <4> QED
        BY <4>1, <4>2 DEF SignerInv, SignersCovered
    <3>6. CASE b = a /\ s = Leaf(t)
      BY <1>4, <3>2, <3>6, GrantTimes
    <3>7. CASE b = a /\ s \in signers[a]
      <4>1. a \in Accounts /\ Stands(a, s)
        BY <1>1, <3>2, <3>3, <3>7, StoodBefore
      <4>2. r # NoRecord /\ r \in Grants /\ r.principal = s.principal /\ s.since <= r.since /\ s.until <= r.until
        BY <1>1, <3>7, <4>1, CoveredLasts DEF SignerInv, a
      <4>3. s \in Grants
        BY <1>1, <3>7, <4>1 DEF RegistryTypes
      <4>4. s.until > clock
        BY <4>1 DEF Stands
      <4>5. ~FreeFor(t, r)
        BY <1>1, <1>3, <4>2, <4>3, <4>4, GrantTimes DEF FreeFor, Now, RegistryTypes
      <4>6. r.principal = Leaf(t).principal /\ r.since < Leaf(t).since
        BY <1>1, <4>5 DEF SignerInv, ClaimsHeld, MayReplace, Mine
      <4>7. s.since <= Leaf(t).since
        BY <1>4, <4>2, <4>3, <4>6, GrantTimes
      <4> QED
        BY <3>2, <3>7, <4>2, <4>6, <4>7
    <3> QED
      BY <3>2, <3>5, <3>6, <3>7
  <2>5. ClaimsHeld'
    BY <1>5, <2>1 DEF ClaimsHeld, Writing
  <2> QED
    BY <2>2, <2>3, <2>4, <2>5 DEF SignerInv
<1> QED
  BY <1>6, <1>7 DEF RenameOver

-----------------------------------------------------------------------------
\* An operator's commands, a restart and time.
LEMMA CreateInviteKeeps ==
  ASSUME SignerInv, NEW i \in Invites, CreateInvite(i)
  PROVE  SignerInv'
<1>1. UNCHANGED <<clock, mode, accounts, used, revokers, lock, hello, via, signers>>
  BY DEF CreateInvite
<1>2. RegistryTypes'
  <2>1. clock + Ttl \in Nat
    BY RegistryAssumption DEF SignerInv, RegistryTypes
  <2> QED
    BY <1>1, <2>1 DEF SignerInv, RegistryTypes, CreateInvite
<1>3. ClocksPast' /\ SignersCovered'
  BY <1>1 DEF SignerInv, ClocksPast, SignersCovered, Stands, CutShort, Now
<1>4. ClaimsHeld'
  BY <1>1 DEF SignerInv, ClaimsHeld, Writing, Leaf, MayReplace, FreeFor, Mine, Account, Now
<1> QED
  BY <1>2, <1>3, <1>4 DEF SignerInv

LEMMA ClearRevokerKeeps ==
  ASSUME SignerInv, NEW a \in Accounts, ClearRevoker(a)
  PROVE  SignerInv'
<1>1. UNCHANGED <<clock, mode, accounts, invites, expires, issued, used, lock, hello, via>>
  BY DEF ClearRevoker, files
<1>2. RegistryTypes'
  BY <1>1 DEF SignerInv, RegistryTypes, ClearRevoker
<1>3. \A b \in Accounts : \/ revokers'[b] = NoRecord /\ signers'[b] = {}
                          \/ revokers'[b] = revokers[b] /\ signers'[b] = signers[b]
  BY DEF SignerInv, RegistryTypes, ClearRevoker
<1>4. ClocksPast' /\ SignersCovered'
  BY <1>1, <1>3 DEF SignerInv, ClocksPast, SignersCovered, Stands, CutShort, Now
<1>5. ClaimsHeld'
  <2> SUFFICES ASSUME NEW u \in Tasks, Writing(u)'
               PROVE  (lock = u /\ Leaf(u) \in Grants /\ MayReplace(u))'
    BY DEF ClaimsHeld
  <2>1. Writing(u) /\ lock = u /\ Leaf(u) \in Grants /\ MayReplace(u)
    BY <1>1 DEF SignerInv, ClaimsHeld, Writing
  <2>2. Account(u) \in Accounts
    BY <2>1, BusyIsARecord DEF SignerInv, Writing, Account, Busy
  <2> QED
    BY <1>1, <1>3, <2>1, <2>2 DEF MayReplace, FreeFor, Mine, Account, Leaf, Now
<1> QED
  BY <1>2, <1>4, <1>5 DEF SignerInv

LEMMA RestartKeeps ==
  ASSUME SignerInv, NEW m \in {"invite", "open"}, Restart(m)
  PROVE  SignerInv'
<1>1. UNCHANGED <<clock, accounts, invites, expires, issued, used, revokers, via, signers>>
  BY DEF Restart, files
<1>2. RegistryTypes' /\ \A t \in Tasks : hello'[t] = Idle
  BY <1>1 DEF SignerInv, RegistryTypes, Restart
<1>3. ClocksPast' /\ SignersCovered'
  BY <1>1, <1>2 DEF SignerInv, ClocksPast, SignersCovered, Stands, CutShort
<1>4. ClaimsHeld'
  BY <1>2, IdleOrBusy DEF ClaimsHeld, Writing
<1> QED
  BY <1>2, <1>3, <1>4 DEF SignerInv

LEMMA TickKeeps ==
  ASSUME SignerInv, Tick
  PROVE  SignerInv'
<1>1. UNCHANGED <<mode, accounts, invites, expires, issued, used, revokers, lock, hello, via, signers>>
  BY DEF Tick, files
<1>2. RegistryTypes' /\ clock' = clock + 1
  BY <1>1 DEF SignerInv, RegistryTypes, Tick
<1>3. ClocksPast'
  <2>1. \A t \in Tasks : hello[t] # Idle => Now(t) \in Nat
    BY DEF SignerInv, RegistryTypes, Now, Busy
  <2> QED
    BY <1>1, <1>2, <2>1 DEF SignerInv, ClocksPast, Now, RegistryTypes
<1>4. SignersCovered'
  <2>1. clock' \in Nat /\ clock <= clock'
    BY <1>2 DEF SignerInv, RegistryTypes
  <2>2. \A b \in Accounts : \A s \in signers[b] : Stands(b, s)' => Stands(b, s)
    BY <1>1, <2>1, StoodBefore DEF SignerInv
  <2> QED
    BY <1>1, <2>2 DEF SignerInv, SignersCovered
<1>5. ClaimsHeld'
  BY <1>1 DEF SignerInv, ClaimsHeld, Writing, Leaf, MayReplace, FreeFor, Mine, Account, Now
<1> QED
  BY <1>2, <1>3, <1>4, <1>5 DEF SignerInv

-----------------------------------------------------------------------------
LEMMA SignerInvInit == Init => SignerInv
<1> SUFFICES ASSUME Init PROVE SignerInv
  OBVIOUS
<1>1. RegistryTypes
  BY DEF Init, RegistryTypes
<1>2. ClocksPast /\ SignersCovered /\ ClaimsHeld
  BY IdleOrBusy DEF Init, ClocksPast, SignersCovered, ClaimsHeld, Writing
<1> QED
  BY <1>1, <1>2 DEF SignerInv

LEMMA SignerInvStep == SignerInv /\ [Next]_vars => SignerInv'
<1> SUFFICES ASSUME SignerInv, [Next]_vars PROVE SignerInv'
  OBVIOUS
<1>1. ASSUME NEW t \in Tasks, Step(t) PROVE SignerInv'
  BY <1>1, HelloKeeps, AdmitKeeps, ReadInviteKeeps, MarkInviteKeeps, RemoveInviteKeeps, WriteBesideKeeps,
     RenameOverKeeps, CreateAccountKeeps, ClaimKeeps, WelcomeKeeps DEF Step
<1>2. CASE UNCHANGED vars
  BY <1>2 DEF vars, files, SignerInv, RegistryTypes, ClocksPast, SignersCovered, Stands, CutShort, ClaimsHeld,
     Writing, Leaf, MayReplace, FreeFor, Mine, Account, Now
<1> QED
  BY <1>1, <1>2, CreateInviteKeeps, ClearRevokerKeeps, RestartKeeps, TickKeeps DEF Next

\* A grant that stands is covered, so every one that does is the record's principal's;
\* and a hello goes by a clock that is not ahead, so a Welcome still sees that record.
LEMMA CoveredIsOne == SignerInv => OneLiveSigner
<1> SUFFICES ASSUME SignerInv, NEW a \in Accounts, NEW s \in signers[a], Stands(a, s)
             PROVE  /\ \A u \in signers[a] : Stands(a, u) => s.principal = u.principal
                    /\ \A t \in Tasks : WelcomeDue(t) /\ Account(t) = a =>
                         Told(t) # NoRecord /\ Told(t).principal = s.principal
  BY DEF OneLiveSigner
<1> DEFINE r == revokers[a]
<1>1. s \in Grants /\ s.until > clock
  BY DEF SignerInv, RegistryTypes, Stands
<1>2. \A u \in signers[a] : Stands(a, u) => r \in Grants /\ r # NoRecord /\ r.principal = u.principal /\ u.until <= r.until
  BY CoveredLasts DEF SignerInv
<1>3. r \in Grants /\ r.until \in Nat /\ s.until \in Nat /\ clock \in Nat
  BY <1>1, <1>2, GrantTimes DEF SignerInv, RegistryTypes
<1>4. ASSUME NEW t \in Tasks, WelcomeDue(t), Account(t) = a
      PROVE  Told(t) # NoRecord /\ Told(t).principal = s.principal
  <2>1. hello[t].at # "idle"
    BY <1>4 DEF WelcomeDue, At
  <2>2. hello[t] \in Busy /\ Now(t) \in Nat /\ Now(t) <= clock
    BY <2>1, BusyIsARecord, IdleOrBusy DEF SignerInv, ClocksPast, Now, Busy
  <2>3. ~FreeFor(t, r)
    BY <1>1, <1>2, <1>3, <2>2 DEF FreeFor
  <2> QED
    BY <1>2, <1>4, <2>3 DEF Told
<1> QED
  BY <1>2, <1>4

\* However hellos race, wherever the hub stops and whatever operators clear, for any
\* number of each and whatever grants the root issues: at most one principal signs an
\* account's revocations at a time, and every Welcome names it, where a grant that was
\* issued again to end sooner no longer counts (claim_revoker, Registry::revoker).
THEOREM OneSignerAtATime == Spec => []OneLiveSigner
BY SignerInvInit, SignerInvStep, CoveredIsOne, PTL DEF Spec

-----------------------------------------------------------------------------
\* A step of the files is a step of the atomic registry, or changes nothing of it.
LEMMA StepIsAtomic ==
  ASSUME SignerInv, NEW t \in Tasks, Step(t)
  PROVE  [Signer!Next]_<<revokers, signers, clock>>
<1> DEFINE r == revokers[Account(t)]
<1>1. CASE UNCHANGED <<revokers, signers, clock>>
  BY <1>1
<1>2. CASE Claim(t) /\ signers' # signers
  <2>1. hello[t] \in Busy /\ Account(t) \in Accounts /\ Leaf(t) \in Grants
    BY <1>2, BusyIsARecord DEF SignerInv, Claim, At, Account, Leaf, Busy
  <2>2. /\ Mine(t, r) /\ Leaf(t).since <= r.since
        /\ signers' = [signers EXCEPT ![Account(t)] = @ \cup {Leaf(t)}]
        /\ UNCHANGED <<revokers, clock>>
    BY <1>2 DEF Claim
  <2>3. Signer!Claim(Account(t), Leaf(t))
    BY <2>2 DEF Signer!Claim, Signer!Mine, Mine
  <2> QED
    BY <2>1, <2>3 DEF Signer!Next
<1>3. ASSUME NEW fails \in BOOLEAN, RenameOver(t, fails), ~UNCHANGED <<revokers, signers>>
      PROVE  [Signer!Next]_<<revokers, signers, clock>>
  <2>1. Writing(t) /\ hello[t].at # "idle"
    BY <1>3 DEF RenameOver, At, Writing
  <2>2. hello[t] \in Busy /\ Account(t) \in Accounts /\ Now(t) \in Nat /\ Now(t) <= clock
    BY <2>1, BusyIsARecord, IdleOrBusy DEF SignerInv, ClocksPast, Now, Account, Busy
  <2>3. Leaf(t) \in Grants /\ MayReplace(t)
    BY <2>1 DEF SignerInv, ClaimsHeld
  <2>4. /\ revokers' = [revokers EXCEPT ![Account(t)] = Leaf(t)]
        /\ signers' = [signers EXCEPT ![Account(t)] = @ \cup {Leaf(t)}]
        /\ UNCHANGED clock
    BY <1>3 DEF RenameOver
  <2>5. Signer!Free(Account(t)) \/ (Signer!Mine(Account(t), Leaf(t)) /\ r.since < Leaf(t).since)
    <3>1. r \in Grants \cup {NoRecord}
      BY <2>2 DEF SignerInv, RegistryTypes
    <3>2. clock \in Nat
      BY DEF SignerInv, RegistryTypes
    <3> QED
      BY <2>2, <2>3, <3>1, <3>2, GrantTimes DEF MayReplace, FreeFor, Mine, Signer!Free, Signer!Mine
  <2>6. Signer!Claim(Account(t), Leaf(t))
    BY <2>4, <2>5 DEF Signer!Claim
  <2> QED
    BY <2>2, <2>3, <2>6 DEF Signer!Next
<1> QED
  BY <1>1, <1>2, <1>3 DEF Step, Hello, Admit, ReadInvite, MarkInvite, RemoveInvite, CreateAccount, Claim, WriteBeside,
     WrittenBeside, RenameOver, Welcome

LEMMA NextIsAtomic == SignerInv /\ [Next]_vars => [Signer!Next]_<<revokers, signers, clock>>
<1> SUFFICES ASSUME SignerInv, [Next]_vars PROVE [Signer!Next]_<<revokers, signers, clock>>
  OBVIOUS
<1>1. ASSUME NEW a \in Accounts, ClearRevoker(a) PROVE Signer!Clear(a)
  BY <1>1 DEF ClearRevoker, Signer!Clear
<1>2. ASSUME Tick PROVE Signer!Tick
  BY <1>2 DEF Tick, Signer!Tick, SignerInv, RegistryTypes
<1>3. ASSUME NEW i \in Invites, CreateInvite(i) PROVE UNCHANGED <<revokers, signers, clock>>
  BY <1>3 DEF CreateInvite
<1>4. ASSUME NEW m \in {"invite", "open"}, Restart(m) PROVE UNCHANGED <<revokers, signers, clock>>
  BY <1>4 DEF Restart
<1>5. CASE UNCHANGED vars
  BY <1>5 DEF vars
<1> QED
  BY <1>1, <1>2, <1>3, <1>4, <1>5, StepIsAtomic DEF Next, Signer!Next

\* The registry of files, locks and crashes implements the atomic one: every behaviour
\* of its record and its signers is one of OneSigner.
THEOREM FilesImplementOneSigner == Spec => ClaimsAreAtomic
<1>1. Init => Signer!Init
  BY DEF Init, Signer!Init
<1> QED
  BY <1>1, SignerInvInit, SignerInvStep, NextIsAtomic, PTL DEF Spec, ClaimsAreAtomic, Signer!Spec

-----------------------------------------------------------------------------
(* Invites. The marker is the claim: once past it, a hello is the only one     *)
(* with its invite, and no account has been registered with it.               *)

Reading(t) == hello[t].at \in {"read", "mark", "remove"}

Knows(t) == hello[t].at \in {"mark", "remove"}

PastMarker(t) == hello[t].at = "remove" \/ (hello[t].at = "create" /\ mode = "invite")

\* An invite is read only where invites are wanted, and what a hello read of its expiry
\* is what the file said and will say: a token is issued once.
ReadTruly ==
  /\ invites \subseteq issued
  /\ \A t \in Tasks : /\ Reading(t) => mode = "invite"
                      /\ Knows(t) => Invite(t) \in issued /\ hello[t].read = expires[Invite(t)]

\* Whoever is past the marker is alone with its invite.
MarkersHeld ==
  \A t \in Tasks : PastMarker(t) =>
    /\ Invite(t) \in used /\ Invite(t) \in issued
    /\ hello[t].at = "create" => Now(t) <= expires[Invite(t)]
    /\ \A a \in Accounts : via[a].invite # Invite(t)
    /\ \A u \in Tasks : PastMarker(u) /\ Invite(u) = Invite(t) => u = t

\* What an account was registered with is marked, was good, and is its own.
AccountsOnce ==
  \A a \in Accounts : via[a].invite # NoInvite =>
    /\ via[a].invite \in used /\ via[a].invite \in issued
    /\ via[a].at <= expires[via[a].invite]
    /\ \A b \in Accounts : via[b].invite = via[a].invite => a = b

InvitesClaimed == ReadTruly /\ MarkersHeld /\ AccountsOnce

\* A step that takes one hello out of the way of invites, or nowhere near it.
LEMMA LeavesInvites ==
  ASSUME RegistryTypes, InvitesClaimed, NEW t \in Tasks,
         \A u \in Tasks \ {t} : hello'[u] = hello[u],
         hello'[t].at \notin {"read", "mark", "remove", "create"},
         UNCHANGED <<mode, issued, expires, used, via>>, invites' \subseteq invites
  PROVE  InvitesClaimed'
<1>1. \A u \in Tasks : u # t => hello'[u] = hello[u]
  OBVIOUS
<1>2. ReadTruly'
  BY <1>1 DEF InvitesClaimed, ReadTruly, Reading, Knows, Invite
<1>3. \A u \in Tasks : PastMarker(u)' => u # t /\ PastMarker(u) /\ hello'[u] = hello[u]
  BY <1>1 DEF PastMarker
<1>4. MarkersHeld'
  BY <1>3 DEF InvitesClaimed, MarkersHeld, Invite, Now
<1>5. AccountsOnce'
  BY DEF InvitesClaimed, AccountsOnce
<1> QED
  BY <1>2, <1>4, <1>5 DEF InvitesClaimed

\* So do a hello that ends and one that moves on past its admission.
LEMMA GoesOnWithoutInvites ==
  ASSUME RegistryTypes, InvitesClaimed, NEW t \in Tasks, hello[t].at # "idle",
         \/ End(t)
         \/ \E place \in {"admitted", "write", "rename", "welcome"} : To(t, place),
         UNCHANGED <<mode, issued, expires, used, via>>, invites' \subseteq invites
  PROVE  InvitesClaimed'
<1>1. CASE End(t)
  <2>1. hello'[t].at = "idle" /\ \A u \in Tasks \ {t} : hello'[u] = hello[u]
    BY <1>1, EndIdles, IdleOrBusy
  <2> QED
    BY <2>1, LeavesInvites
<1>2. ASSUME NEW place \in {"admitted", "write", "rename", "welcome"}, To(t, place)
      PROVE  InvitesClaimed'
  <2>1. place \in Places
    BY DEF Places
  <2>2. hello'[t].at = place /\ \A u \in Tasks \ {t} : hello'[u] = hello[u]
    BY <1>2, <2>1, ToMoves
  <2> QED
    BY <2>2, LeavesInvites
<1> QED
  BY <1>1, <1>2

\* admit: to the invite only where invites are wanted, to the account without one only
\* where they are not.
LEMMA AdmitKeepsInvites ==
  ASSUME RegistryTypes, InvitesClaimed, NEW t \in Tasks, Admit(t)
  PROVE  InvitesClaimed'
<1>1. hello[t].at # "idle" /\ UNCHANGED <<mode, accounts, invites, issued, expires, used, via>>
  BY DEF Admit, At, files
<1>2. CASE End(t) \/ To(t, "admitted")
  BY <1>1, <1>2, GoesOnWithoutInvites
<1>3. ASSUME NEW place, \/ place = "create" /\ mode = "open"
                        \/ place = "read" /\ mode = "invite", To(t, place)
      PROVE  InvitesClaimed'
  <2>1. place \in Places
    BY <1>3 DEF Places
  <2>2. hello'[t].at = place /\ \A u \in Tasks \ {t} : hello'[u] = hello[u]
    BY <1>1, <1>3, <2>1, ToMoves
  <2>3. ReadTruly'
    BY <1>1, <1>3, <2>2 DEF InvitesClaimed, ReadTruly, Reading, Knows, Invite
  <2>4. \A u \in Tasks : PastMarker(u)' => PastMarker(u) /\ hello'[u] = hello[u]
    BY <1>1, <1>3, <2>2 DEF PastMarker
  <2>5. MarkersHeld'
    BY <1>1, <2>4 DEF InvitesClaimed, MarkersHeld, Invite, Now
  <2>6. AccountsOnce'
    BY <1>1 DEF InvitesClaimed, AccountsOnce
  <2> QED
    BY <2>3, <2>5, <2>6 DEF InvitesClaimed
<1> QED
  BY <1>2, <1>3 DEF Admit, TakeOpenSlot

LEMMA ReadInviteKeepsInvites ==
  ASSUME RegistryTypes, InvitesClaimed, NEW t \in Tasks, ReadInvite(t)
  PROVE  InvitesClaimed'
<1>1. hello[t].at = "read" /\ UNCHANGED <<mode, accounts, invites, issued, expires, used, via>>
  BY DEF ReadInvite, At, files
<1>2. CASE End(t)
  BY <1>1, <1>2, GoesOnWithoutInvites
<1>3. CASE ~End(t)
  <2>1. /\ hello'[t].at = "mark" /\ hello'[t].invite = hello[t].invite
        /\ hello'[t].read = expires[hello[t].invite] /\ hello[t].invite \in invites
        /\ \A u \in Tasks \ {t} : hello'[u] = hello[u]
    BY <1>3, ReadInviteMoves
  <2>2. ReadTruly'
    BY <1>1, <2>1 DEF InvitesClaimed, ReadTruly, Reading, Knows, Invite
  <2>3. \A u \in Tasks : PastMarker(u)' => PastMarker(u) /\ hello'[u] = hello[u]
    BY <1>1, <2>1 DEF PastMarker
  <2>4. MarkersHeld'
    BY <1>1, <2>3 DEF InvitesClaimed, MarkersHeld, Invite, Now
  <2>5. AccountsOnce'
    BY <1>1 DEF InvitesClaimed, AccountsOnce
  <2> QED
    BY <2>2, <2>4, <2>5 DEF InvitesClaimed
<1> QED
  BY <1>2, <1>3

\* The marker was not there, so nobody else is past it.
LEMMA MarkInviteKeepsInvites ==
  ASSUME RegistryTypes, InvitesClaimed, NEW t \in Tasks, NEW fails \in BOOLEAN, MarkInvite(t, fails)
  PROVE  InvitesClaimed'
<1>1. hello[t].at = "mark" /\ UNCHANGED <<mode, accounts, invites, issued, expires, via>>
  BY DEF MarkInvite, At
<1>2. CASE End(t) /\ UNCHANGED used
  BY <1>1, <1>2, GoesOnWithoutInvites
<1>3. CASE MarkFree(t) /\ used' = used \cup {Invite(t)} /\ To(t, "remove")
  <2>1. "remove" \in Places
    BY DEF Places
  <2>2. /\ hello'[t].at = "remove" /\ hello'[t].invite = hello[t].invite /\ hello'[t].read = hello[t].read
        /\ \A u \in Tasks \ {t} : hello'[u] = hello[u]
    BY <1>1, <1>3, <2>1, ToMoves
  <2>3. ReadTruly'
    BY <1>1, <2>2 DEF InvitesClaimed, ReadTruly, Reading, Knows, Invite
  <2>4. Invite(t)' = Invite(t) /\ Invite(t) \notin used /\ Invite(t) \in issued /\ Invite(t) # NoInvite
    BY <1>1, <1>3, <2>2, RegistryAssumption
       DEF Invite, MarkFree, InvitesClaimed, ReadTruly, Knows, RegistryTypes
  <2>5. \A u \in Tasks : PastMarker(u)' /\ u # t => PastMarker(u) /\ hello'[u] = hello[u]
    BY <1>1, <2>2 DEF PastMarker
  <2>6. MarkersHeld'
    <3> SUFFICES ASSUME NEW u \in Tasks, PastMarker(u)'
                 PROVE  (/\ Invite(u) \in used /\ Invite(u) \in issued
                         /\ hello[u].at = "create" => Now(u) <= expires[Invite(u)]
                         /\ \A a \in Accounts : via[a].invite # Invite(u)
                         /\ \A w \in Tasks : PastMarker(w) /\ Invite(w) = Invite(u) => w = u)'
      BY DEF MarkersHeld
    <3>1. \A w \in Tasks : PastMarker(w)' /\ w # t => Invite(w)' = Invite(w) /\ Invite(w) \in used
      BY <2>5 DEF InvitesClaimed, MarkersHeld, Invite
    <3>2. CASE u = t
      <4>1. \A a \in Accounts : via[a].invite # Invite(t)
        BY <2>4 DEF InvitesClaimed, AccountsOnce
      <4> QED
        BY <1>1, <1>3, <2>2, <2>4, <3>1, <3>2, <4>1
    <3>3. CASE u # t
      <4>1. PastMarker(u) /\ hello'[u] = hello[u] /\ Invite(u)' = Invite(u) /\ Now(u)' = Now(u)
        BY <2>5, <3>3 DEF Invite, Now
      <4> QED
        BY <1>1, <1>3, <2>4, <2>5, <3>1, <3>3, <4>1 DEF InvitesClaimed, MarkersHeld
    <3> QED
      BY <3>2, <3>3
  <2>7. AccountsOnce'
    BY <1>1, <1>3 DEF InvitesClaimed, AccountsOnce
  <2> QED
    BY <2>3, <2>6, <2>7 DEF InvitesClaimed
<1> QED
  BY <1>2, <1>3 DEF MarkInvite

\* An invite that ran out before the hello is burned; one that did not goes on.
LEMMA RemoveInviteKeepsInvites ==
  ASSUME RegistryTypes, InvitesClaimed, NEW t \in Tasks, NEW fails \in BOOLEAN, RemoveInvite(t, fails)
  PROVE  InvitesClaimed'
<1>1. hello[t].at = "remove" /\ UNCHANGED <<mode, accounts, issued, expires, used, via>> /\ invites' \subseteq invites
  BY DEF RemoveInvite, At
<1>2. CASE End(t)
  BY <1>1, <1>2, GoesOnWithoutInvites
<1>3. CASE ~(Now(t) > hello[t].read) /\ To(t, "create")
  <2>1. "create" \in Places
    BY DEF Places
  <2>2. /\ hello'[t].at = "create" /\ hello'[t].invite = hello[t].invite /\ hello'[t].now = hello[t].now
        /\ \A u \in Tasks \ {t} : hello'[u] = hello[u]
    BY <1>1, <1>3, <2>1, ToMoves
  <2>3. ReadTruly'
    BY <1>1, <2>2 DEF InvitesClaimed, ReadTruly, Reading, Knows, Invite
  <2>4. \A u \in Tasks : PastMarker(u)' => PastMarker(u) /\ Invite(u)' = Invite(u) /\ Now(u)' = Now(u)
    BY <1>1, <2>2 DEF PastMarker, Invite, Now
  <2>5. Now(t) <= expires[Invite(t)]
    <3>1. hello[t] \in Busy
      BY <1>1, BusyIsARecord
    <3>2. Now(t) \in Nat /\ hello[t].read \in Nat
      BY <3>1 DEF Busy, Now
    <3> QED
      BY <1>1, <1>3, <3>2 DEF InvitesClaimed, ReadTruly, Knows
  <2>6. \A u \in Tasks : u # t => hello'[u] = hello[u]
    BY <2>2
  <2>7. MarkersHeld'
    BY <1>1, <2>4, <2>5, <2>6 DEF InvitesClaimed, MarkersHeld
  <2>8. AccountsOnce'
    BY <1>1 DEF InvitesClaimed, AccountsOnce
  <2> QED
    BY <2>3, <2>7, <2>8 DEF InvitesClaimed
<1> QED
  BY <1>2, <1>3 DEF RemoveInvite

\* The account's file: with the invite the hello is alone with, or with none.
LEMMA CreateAccountKeepsInvites ==
  ASSUME RegistryTypes, InvitesClaimed, NEW t \in Tasks, NEW result, CreateAccount(t, result)
  PROVE  InvitesClaimed'
<1> DEFINE with == [invite |-> IF mode = "open" THEN NoInvite ELSE Invite(t), at |-> Now(t)]
<1>1. hello[t].at = "create" /\ UNCHANGED <<mode, invites, issued, expires, used>>
  BY DEF CreateAccount, At
<1>2. End(t) \/ To(t, "admitted")
  BY DEF CreateAccount
<1>3. CASE UNCHANGED via
  BY <1>1, <1>2, <1>3, GoesOnWithoutInvites
<1>4. CASE via' = [via EXCEPT ![Account(t)] = with]
  <2>1. hello[t] \in Busy /\ Account(t) \in Accounts
    BY <1>1, BusyIsARecord DEF Account, Busy
  <2>2. hello'[t].at \notin {"read", "mark", "remove", "create"} /\ \A u \in Tasks \ {t} : hello'[u] = hello[u]
    <3>1. "admitted" \in Places
      BY DEF Places
    <3> QED
      BY <1>1, <1>2, <3>1, EndIdles, ToMoves, IdleOrBusy
  <2>3. ReadTruly'
    BY <1>1, <2>2 DEF InvitesClaimed, ReadTruly, Reading, Knows, Invite
  <2>4. via'[Account(t)] = with /\ \A a \in Accounts : a # Account(t) => via'[a] = via[a]
    BY <1>4, <2>1 DEF RegistryTypes
  <2>5. with.invite # NoInvite => PastMarker(t) /\ with.invite = Invite(t) /\ with.at = Now(t)
    BY <1>1 DEF PastMarker, RegistryTypes
  <2> HIDE DEF with
  <2>6. \A u \in Tasks : PastMarker(u)' => u # t /\ PastMarker(u) /\ Invite(u)' = Invite(u) /\ Now(u)' = Now(u)
                                            /\ hello'[u] = hello[u]
    BY <1>1, <2>2 DEF PastMarker, Invite, Now
  <2>7. \A u \in Tasks : PastMarker(u) => Invite(u) # NoInvite
    BY RegistryAssumption DEF InvitesClaimed, MarkersHeld, RegistryTypes
  <2>8. MarkersHeld'
    <3> SUFFICES ASSUME NEW u \in Tasks, PastMarker(u)'
                 PROVE  (/\ Invite(u) \in used /\ Invite(u) \in issued
                         /\ hello[u].at = "create" => Now(u) <= expires[Invite(u)]
                         /\ \A a \in Accounts : via[a].invite # Invite(u)
                         /\ \A w \in Tasks : PastMarker(w) /\ Invite(w) = Invite(u) => w = u)'
      BY DEF MarkersHeld
    <3>1. with.invite # Invite(u)
      BY <2>5, <2>6, <2>7 DEF InvitesClaimed, MarkersHeld
    <3>2. \A a \in Accounts : via'[a].invite # Invite(u)
      BY <2>4, <2>6, <3>1 DEF InvitesClaimed, MarkersHeld
    <3> QED
      BY <1>1, <2>6, <3>2 DEF InvitesClaimed, MarkersHeld
  <2>9. AccountsOnce'
    <3> SUFFICES ASSUME NEW a \in Accounts, via'[a].invite # NoInvite
                 PROVE  /\ via'[a].invite \in used /\ via'[a].invite \in issued
                        /\ via'[a].at <= expires[via'[a].invite]
                        /\ \A b \in Accounts : via'[b].invite = via'[a].invite => a = b
      BY <1>1 DEF AccountsOnce
    <3>1. with.invite # NoInvite =>
            /\ with.invite \in used /\ with.invite \in issued /\ with.at <= expires[with.invite]
            /\ \A b \in Accounts : via[b].invite # with.invite
      BY <1>1, <2>5 DEF InvitesClaimed, MarkersHeld
    <3> QED
      BY <2>4, <3>1 DEF InvitesClaimed, AccountsOnce
  <2> QED
    BY <2>3, <2>8, <2>9 DEF InvitesClaimed
<1> QED
  BY <1>3, <1>4 DEF CreateAccount

LEMMA StepKeepsInvites ==
  ASSUME SignerInv, InvitesClaimed, NEW t \in Tasks, Step(t)
  PROVE  InvitesClaimed'
<1>0. RegistryTypes
  BY DEF SignerInv
<1>1. ASSUME NEW r \in Requests, Hello(t, r) PROVE InvitesClaimed'
  <2>1. hello'[t].at = "verified" /\ \A u \in Tasks \ {t} : hello'[u] = hello[u]
    BY <1>0, <1>1 DEF Hello, RegistryTypes
  <2>2. UNCHANGED <<mode, invites, issued, expires, used, via>>
    BY <1>1 DEF Hello, files
  <2> QED
    BY <1>0, <2>1, <2>2, LeavesInvites
<1>2. CASE Claim(t)
  BY <1>0, <1>2, GoesOnWithoutInvites DEF Claim, At, files
<1>3. CASE Welcome(t)
  BY <1>0, <1>3, GoesOnWithoutInvites DEF Welcome, WelcomeDue, At, files
<1>4. ASSUME NEW fails \in BOOLEAN, WriteBeside(t, fails) \/ RenameOver(t, fails) PROVE InvitesClaimed'
  BY <1>0, <1>4, GoesOnWithoutInvites DEF WriteBeside, RenameOver, At, files
<1> QED
  BY <1>0, <1>1, <1>2, <1>3, <1>4, AdmitKeepsInvites, ReadInviteKeepsInvites, MarkInviteKeepsInvites,
     RemoveInviteKeepsInvites, CreateAccountKeepsInvites DEF Step

\* A new token changes what no file and no hello knows.
LEMMA CreateInviteKeepsInvites ==
  ASSUME RegistryTypes, InvitesClaimed, NEW i \in Invites, CreateInvite(i)
  PROVE  InvitesClaimed'
<1>1. UNCHANGED <<mode, accounts, used, hello, via>> /\ i \notin issued
      /\ issued' = issued \cup {i} /\ invites' = invites \cup {i}
  BY DEF CreateInvite
<1>2. \A j \in issued : expires'[j] = expires[j]
  BY <1>1 DEF CreateInvite, RegistryTypes
<1>3. ReadTruly'
  BY <1>1, <1>2 DEF InvitesClaimed, ReadTruly, Reading, Knows, Invite
<1>4. MarkersHeld'
  BY <1>1, <1>2 DEF InvitesClaimed, MarkersHeld, PastMarker, Invite, Now
<1>5. AccountsOnce'
  BY <1>1, <1>2 DEF InvitesClaimed, AccountsOnce
<1> QED
  BY <1>3, <1>4, <1>5 DEF InvitesClaimed

\* A restart may change the mode: every hello that relied on it is gone.
LEMMA RestartKeepsInvites ==
  ASSUME InvitesClaimed, NEW m \in {"invite", "open"}, Restart(m)
  PROVE  InvitesClaimed'
<1>1. UNCHANGED <<accounts, invites, issued, expires, used, via>>
  BY DEF Restart, files
<1>2. \A t \in Tasks : hello'[t].at = "idle"
  BY IdleOrBusy DEF Restart
<1>3. ReadTruly'
  BY <1>1, <1>2 DEF InvitesClaimed, ReadTruly, Reading, Knows
<1>4. MarkersHeld'
  BY <1>2 DEF MarkersHeld, PastMarker
<1>5. AccountsOnce'
  BY <1>1 DEF InvitesClaimed, AccountsOnce
<1> QED
  BY <1>3, <1>4, <1>5 DEF InvitesClaimed

LEMMA InvitesClaimedInit == Init => InvitesClaimed
BY IdleOrBusy DEF Init, InvitesClaimed, ReadTruly, MarkersHeld, AccountsOnce, Reading, Knows, PastMarker

LEMMA InvitesClaimedStep == SignerInv /\ InvitesClaimed /\ [Next]_vars => InvitesClaimed'
<1> SUFFICES ASSUME SignerInv, InvitesClaimed, [Next]_vars PROVE InvitesClaimed'
  OBVIOUS
<1>1. ASSUME UNCHANGED <<mode, files, hello, via>> PROVE InvitesClaimed'
  BY <1>1 DEF files, InvitesClaimed, ReadTruly, MarkersHeld, AccountsOnce, Reading, Knows, PastMarker, Invite, Now
<1>2. ASSUME NEW a \in Accounts, ClearRevoker(a) PROVE UNCHANGED <<mode, files, hello, via>>
  BY <1>2 DEF ClearRevoker
<1>3. ASSUME Tick PROVE UNCHANGED <<mode, files, hello, via>>
  BY <1>3 DEF Tick
<1>4. ASSUME UNCHANGED vars PROVE UNCHANGED <<mode, files, hello, via>>
  BY <1>4 DEF vars
<1> QED
  BY <1>1, <1>2, <1>3, <1>4, StepKeepsInvites, CreateInviteKeepsInvites, RestartKeepsInvites DEF Next, SignerInv

\* However connections race for an invite and wherever the hub stops between its files,
\* for any number of each: an invite registers at most one account, and none once it
\* has run out (consume_invite, admit).
THEOREM AnInviteAdmitsOnce == Spec => []InvitesAdmitOnce
<1>1. SignerInv /\ InvitesClaimed => InvitesAdmitOnce
  BY DEF SignerInv, RegistryTypes, InvitesClaimed, AccountsOnce, InvitesAdmitOnce
<1> QED
  BY <1>1, SignerInvInit, SignerInvStep, InvitesClaimedInit, InvitesClaimedStep, PTL DEF Spec

=============================================================================
