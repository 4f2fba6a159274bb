------------------------------- MODULE Registry -------------------------------
(***************************************************************************)
(* The hub's registry (crates/hub/src/registry.rs) as authenticate         *)
(* (crates/hub/src/lib.rs) uses it: which accounts exist, the invites that  *)
(* admit new ones, the slots of open registration, and the record of which *)
(* principal signs an account's revocations. Everything but the open slots *)
(* is a file. Hellos are authenticated at once on several tasks, and each  *)
(* file operation is one step, so steps of other hellos, of the operator's *)
(* commands (another process, which takes no lock) and a crash of the hub  *)
(* fall between any two of them.                                           *)
(***************************************************************************)
EXTENDS Integers, FiniteSets

CONSTANTS
  Tasks,        \* hellos being authenticated at once
  Accounts, Invites, Addresses,
  Grants,       \* leaf certificates with may_revoke: [principal, since, until]
  Requests,     \* what a hello asks for: [account, leaf, invite, address]
  NoRecord, NoGrant, NoInvite, NoTask,
  PerAddress, TotalSlots, Window,   \* OpenLimits
  Ttl,          \* of an invite
  MaxClock      \* bound on the clock

ASSUME RegistryAssumption ==
  /\ \A g \in Grants : g.since \in Nat /\ g.until \in Nat
  /\ NoRecord \notin Grants /\ NoGrant \notin Grants /\ NoInvite \notin Invites
  /\ NoTask \notin Tasks
  /\ Requests \subseteq [account : Accounts, leaf : Grants \cup {NoGrant},
                         invite : Invites \cup {NoInvite}, address : Addresses]
  /\ {PerAddress, TotalSlots, Window, Ttl, MaxClock} \subseteq Nat

VARIABLES
  clock, mode,
  accounts,     \* account files
  invites,      \* invite files: a set of invites
  expires,      \* what an invite's file says
  issued,       \* invites ever created: a token is drawn at random, so never twice
  used,         \* markers in invites-used
  revokers,     \* per account: the file revokers/<account>
  window,       \* Registry::window: [started, total, by]
  lock,         \* Registry::revoker, the task that holds it
  hello,        \* per task: where it is, what was asked, the clock it read, the expiry it read
  via,          \* history: the invite an account was registered with, and when
  signers       \* history: the grants let in since the record was last cleared

files == <<accounts, invites, expires, issued, used>>
vars  == <<clock, mode, files, revokers, window, lock, hello, via, signers>>

NewWindow(t) == [started |-> t, total |-> 0, by |-> [d \in Addresses |-> 0]]

Idle == [at |-> "idle"]

Init ==
  /\ clock = 0 /\ mode \in {"invite", "open"}
  /\ accounts = {} /\ invites = {} /\ issued = {} /\ used = {}
  /\ expires = [i \in Invites |-> 0]
  /\ revokers = [a \in Accounts |-> NoRecord]
  /\ window = NewWindow(0) /\ lock = NoTask
  /\ hello = [t \in Tasks |-> Idle]
  /\ via = [a \in Accounts |-> [invite |-> NoInvite, at |-> 0]]
  /\ signers = [a \in Accounts |-> {}]

At(t, place) == hello[t].at = place
To(t, place) == hello' = [hello EXCEPT ![t].at = place]
End(t) == hello' = [hello EXCEPT ![t] = Idle]

Account(t) == hello[t].account
Leaf(t) == hello[t].leaf
Invite(t) == hello[t].invite
Now(t) == hello[t].now

-----------------------------------------------------------------------------
\* authenticate: the clock is read once, and a hello whose chain and signature
\* verify at that time goes on. A certificate is still accepted in its last millisecond.
Hello(t, r) ==
  /\ At(t, "idle")
  /\ r.leaf # NoGrant => r.leaf.since <= clock /\ clock <= r.leaf.until
  /\ hello' = [hello EXCEPT ![t] = [at |-> "verified", account |-> r.account, leaf |-> r.leaf, invite |-> r.invite,
                                    address |-> r.address, now |-> clock, read |-> 0]]
  /\ UNCHANGED <<clock, mode, files, revokers, window, lock, via, signers>>

Current(t) == IF Now(t) - window.started >= Window THEN NewWindow(Now(t)) ELSE window

\* take_open_slot, under its own lock: a fixed window, begun again once it is over.
TakeOpenSlot(t) ==
  LET w == Current(t)
      d == hello[t].address
  IN IF w.by[d] >= PerAddress \/ w.total >= TotalSlots
     THEN window' = w /\ End(t)
     ELSE /\ window' = [w EXCEPT !.total = @ + 1, !.by[d] = @ + 1]
          /\ To(t, "create")

\* admit: a known account needs nothing more.
Admit(t) ==
  /\ At(t, "verified")
  /\ \/ Account(t) \in accounts /\ To(t, "admitted") /\ UNCHANGED window
     \/ Account(t) \notin accounts /\ mode = "open" /\ TakeOpenSlot(t)
     \/ /\ Account(t) \notin accounts /\ mode = "invite"
        /\ IF Invite(t) = NoInvite THEN End(t) ELSE To(t, "read")
        /\ UNCHANGED window
  /\ UNCHANGED <<clock, mode, files, revokers, lock, via, signers>>

\* consume_invite: what the invite's file says, or no such invite.
ReadInvite(t) ==
  /\ At(t, "read")
  /\ IF Invite(t) \in invites
     THEN hello' = [hello EXCEPT ![t].at = "mark", ![t].read = expires[Invite(t)]]
     ELSE End(t)
  /\ UNCHANGED <<clock, mode, files, revokers, window, lock, via, signers>>

\* Wrong: a marker that is there already is written over.
MarkFreeAny(t) == TRUE

MarkFree(t) == Invite(t) \notin used

\* The exclusive create of the marker, which may also fail for want of storage.
MarkInvite(t, fails) ==
  /\ At(t, "mark")
  /\ IF ~fails /\ MarkFree(t)
     THEN used' = used \cup {Invite(t)} /\ To(t, "remove")
     ELSE End(t) /\ UNCHANGED used
  /\ UNCHANGED <<clock, mode, accounts, invites, expires, issued, revokers, window, lock, via, signers>>

\* The invite's file goes, or its removal fails and nothing is made of it. An
\* invite found to have run out is burned all the same.
RemoveInvite(t, fails) ==
  /\ At(t, "remove")
  /\ invites' = IF fails THEN invites ELSE invites \ {Invite(t)}
  /\ IF Now(t) > hello[t].read THEN End(t) ELSE To(t, "create")
  /\ UNCHANGED <<clock, mode, accounts, expires, issued, used, revokers, window, lock, via, signers>>

\* The account's file, created exclusively: of two devices of a new account, the
\* second finds it known. A failed write after it was created refuses the hello of
\* an account that now exists.
CreateAccount(t, result) ==
  /\ At(t, "create")
  /\ IF result = "not created" THEN End(t) /\ UNCHANGED <<accounts, via>>
     ELSE IF Account(t) \in accounts THEN To(t, "admitted") /\ UNCHANGED <<accounts, via>>
     ELSE /\ accounts' = accounts \cup {Account(t)}
          /\ via' = [via EXCEPT ![Account(t)] =
                       [invite |-> IF mode = "open" THEN NoInvite ELSE Invite(t), at |-> Now(t)]]
          /\ IF result = "not written" THEN End(t) ELSE To(t, "admitted")
  /\ UNCHANGED <<clock, mode, invites, expires, issued, used, revokers, window, lock, signers>>

-----------------------------------------------------------------------------
\* Wrong: a record in its last millisecond counts as spent a moment early.
FreeEarly(t, r) == r # NoRecord => r.until <= Now(t) + 1

\* What read_revoker finds does not stand: no record, or a spent one.
FreeFor(t, r) == r # NoRecord => r.until <= Now(t)

Mine(t, r) == r # NoRecord /\ r.principal = Leaf(t).principal

\* Wrong: claims do not wait for each other.
LockFreeAlways == TRUE

LockFree == lock = NoTask

\* claim_revoker under its lock: the record as it is on disk decides. The holder
\* with no later grant needs no write; anyone else is refused while it stands.
Claim(t) ==
  LET r == revokers[Account(t)]
  IN /\ At(t, "admitted") /\ Leaf(t) # NoGrant /\ LockFree
     /\ \/ /\ FreeFor(t, r) \/ (Mine(t, r) /\ r.since < Leaf(t).since)
           /\ To(t, "write") /\ lock' = t /\ UNCHANGED signers
        \/ /\ ~FreeFor(t, r) /\ Mine(t, r) /\ Leaf(t).since <= r.since
           /\ To(t, "welcome") /\ UNCHANGED lock
           /\ signers' = [signers EXCEPT ![Account(t)] = @ \cup {Leaf(t)}]
        \/ /\ ~FreeFor(t, r) /\ ~Mine(t, r)
           /\ End(t) /\ UNCHANGED <<lock, signers>>
     /\ UNCHANGED <<clock, mode, files, revokers, window, via>>

\* Wrong: the record itself is written, and a crash leaves it half written.
WrittenInPlace(t) == [revokers EXCEPT ![Account(t)] = NoRecord]

\* write_revoker writes a file beside the record.
WrittenBeside(t) == revokers

WriteBeside(t, fails) ==
  /\ At(t, "write")
  /\ IF fails THEN End(t) /\ lock' = NoTask /\ UNCHANGED revokers
     ELSE To(t, "rename") /\ revokers' = WrittenBeside(t) /\ UNCHANGED lock
  /\ UNCHANGED <<clock, mode, files, window, via, signers>>

\* and renames it over the record; the lock is released on return.
RenameOver(t, fails) ==
  /\ At(t, "rename") /\ lock' = NoTask
  /\ IF fails THEN End(t) /\ UNCHANGED <<revokers, signers>>
     ELSE /\ revokers' = [revokers EXCEPT ![Account(t)] = Leaf(t)]
          /\ signers' = [signers EXCEPT ![Account(t)] = @ \cup {Leaf(t)}]
          /\ To(t, "welcome")
  /\ UNCHANGED <<clock, mode, files, window, via>>

Told(t) == LET r == revokers[Account(t)] IN IF FreeFor(t, r) THEN NoRecord ELSE r

\* The Welcome, told the record as Registry::revoker reads it under the lock; a
\* hello without the grant comes here from admission.
WelcomeDue(t) == At(t, "welcome") \/ (At(t, "admitted") /\ Leaf(t) = NoGrant)

Welcome(t) ==
  /\ WelcomeDue(t)
  /\ LockFree
  /\ End(t)
  /\ UNCHANGED <<clock, mode, files, revokers, window, lock, via, signers>>

-----------------------------------------------------------------------------
\* create_invite, a command in a process of its own.
CreateInvite(i) ==
  /\ i \notin issued
  /\ issued' = issued \cup {i} /\ invites' = invites \cup {i}
  /\ expires' = [expires EXCEPT ![i] = clock + Ttl]
  /\ UNCHANGED <<clock, mode, accounts, used, revokers, window, lock, hello, via, signers>>

\* clear_revoker, likewise: it takes no lock, and may fall between a claim's read
\* and its rename.
ClearRevoker(a) ==
  /\ revokers' = [revokers EXCEPT ![a] = NoRecord]
  /\ signers' = [signers EXCEPT ![a] = {}]
  /\ UNCHANGED <<clock, mode, files, window, lock, hello, via>>

\* The hub stops at any point and opens the registry again, perhaps in another
\* mode: every hello ends where it is, and the open window is forgotten.
Restart(m) ==
  /\ mode' = m
  /\ hello' = [t \in Tasks |-> Idle] /\ lock' = NoTask
  /\ window' = NewWindow(0)
  /\ UNCHANGED <<clock, files, revokers, via, signers>>

Tick ==
  /\ clock < MaxClock /\ clock' = clock + 1
  /\ UNCHANGED <<mode, files, revokers, window, lock, hello, via, signers>>

Step(t) ==
  \/ \E r \in Requests : Hello(t, r)
  \/ Admit(t) \/ ReadInvite(t)
  \/ \E fails \in BOOLEAN : \/ MarkInvite(t, fails) \/ RemoveInvite(t, fails)
                            \/ WriteBeside(t, fails) \/ RenameOver(t, fails)
  \/ \E result \in {"written", "not written", "not created"} : CreateAccount(t, result)
  \/ Claim(t) \/ Welcome(t)

Next ==
  \/ \E t \in Tasks : Step(t)
  \/ \E i \in Invites : CreateInvite(i)
  \/ \E a \in Accounts : ClearRevoker(a)
  \/ \E m \in {"invite", "open"} : Restart(m)
  \/ Tick

Spec == Init /\ [][Next]_vars

-----------------------------------------------------------------------------
\* The account let the same principal in with a grant from no earlier that ends sooner:
\* the root took back part of s by issuing it again, shorter.
CutShort(a, s) == \E u \in signers[a] : u.principal = s.principal /\ s.since <= u.since /\ u.until < s.until

Stands(a, s) == s.until > clock /\ ~CutShort(a, s)

\* "Exactly one principal holds may_revoke at a time": of the grants let in since
\* an operator last cleared the record, those that have not run out are one
\* principal's, whatever hellos raced, wherever the hub crashed, and although the
\* clock each hello goes by is older than the record it reads. And the silence of a
\* Welcome means that nothing can sign removals: while such a grant lives, a Welcome
\* names its principal, and never another. Of a grant cut short nothing is said: the
\* record is held to the shorter one, and frees when that ends, although the certificate
\* of the longer still verifies.
OneLiveSigner ==
  \A a \in Accounts : \A s \in signers[a] : Stands(a, s) =>
    /\ \A u \in signers[a] : Stands(a, u) => s.principal = u.principal
    /\ \A t \in Tasks : WelcomeDue(t) /\ Account(t) = a =>
         Told(t) # NoRecord /\ Told(t).principal = s.principal

\* An invite registers at most one account, and none once it has run out, however
\* many connections race for it and wherever the hub crashed in between: the
\* marker is the claim.
InvitesAdmitOnce ==
  \A a \in accounts : via[a].invite # NoInvite =>
    /\ via[a].at <= expires[via[a].invite]
    /\ \A b \in accounts : via[b].invite = via[a].invite => a = b

\* The files, the lock and the tasks together do what the abstract registry does
\* in one step: a claim takes effect where it reads the record, or where it
\* renames the new one over it.
Signer == INSTANCE OneSigner WITH holder <- revokers
ClaimsAreAtomic == Signer!Spec
=============================================================================
