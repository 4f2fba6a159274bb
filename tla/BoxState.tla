------------------------------- MODULE BoxState -------------------------------
(***************************************************************************)
(* The connector's state directory (crates/connector/src/state.rs) under   *)
(* the commands that use it (main.rs): pair, which makes the keys, offers  *)
(* them and writes what an account answered, and run, which loads all of   *)
(* it. Commands may be started side by side, and any of them may fail or   *)
(* crash between two steps.                                                *)
(*                                                                         *)
(* A key is a number, new with every generation. A file is absent, torn    *)
(* (it does not decode), blank (a paired file of no bytes, which decodes)  *)
(* or complete. A file written aside and renamed is never torn. What a     *)
(* certificate's dates do to loaded is left to Certificates.               *)
(***************************************************************************)
EXTENDS Integers, FiniteSets

CONSTANTS
  Procs,      \* invocations of the command
  Owners,     \* accounts
  Absent, Torn, Blank,    \* a file that is not there, does not decode, has no bytes
  MaxKeys     \* bound: keys generated

ASSUME BoxAssumption ==
  /\ MaxKeys \in Nat /\ Absent \notin Owners
  /\ Cardinality({Absent, Torn, Blank}) = 3 /\ {Absent, Torn, Blank} \cap 1..MaxKeys = {}

VARIABLES
  identity, agreement,    \* the key files
  paired,                 \* the paired file
  list,                   \* the account whose revocation list is kept
  job,                    \* per invocation: where it is, its keys and its account
  generated,              \* keys generated so far
  offered                 \* keys that were offered and accepted, by account

boxVars == <<identity, agreement, paired, list, job, generated, offered>>

At(place, i, a, who) == [at |-> place, identity |-> i, agreement |-> a, account |-> who]
Idle == At("idle", 0, 0, Absent)

BoxInit ==
  /\ identity = Absent /\ agreement = Absent /\ paired = Absent /\ list = Absent
  /\ job = [p \in Procs |-> Idle]
  /\ generated = 0 /\ offered = {}

IsKey(file) == file \in 1..MaxKeys
IsPaired == paired \notin {Absent, Torn, Blank}
Files == [identity |-> identity, agreement |-> agreement]
Goes(p, at) == job' = [job EXCEPT ![p] = At(at, job[p].identity, job[p].agreement, job[p].account)]

-----------------------------------------------------------------------------
\* pair: refused by a paired file that does not decode, and without --again by any.
Pair(p, again) ==
  /\ job[p].at = "idle" /\ paired # Torn /\ (paired # Absent => again)
  /\ Goes(p, "keys")
  /\ UNCHANGED <<identity, agreement, paired, list, generated, offered>>

\* keys: both, or none and they are generated. One that does not decode ends it.
LoadKeys(p) ==
  /\ job[p].at = "keys"
  /\ job' = [job EXCEPT ![p] =
       IF Torn \in {identity, agreement} THEN Idle
       ELSE IF Absent \in {identity, agreement} THEN At("identity", 0, 0, Absent)
       ELSE At("offer", identity, agreement, Absent)]
  /\ UNCHANGED <<identity, agreement, paired, list, generated, offered>>

\* Wrong: a key file that is there is written again.
MayCreateOver(file) == TRUE

\* write_secret without replace: create_new.
MayCreate(file) == file = Absent

\* generate_keys: a file is created, then filled; one that exists ends it.
CreateIdentity(p) ==
  /\ job[p].at = "identity"
  /\ IF MayCreate(identity) THEN identity' = Torn /\ Goes(p, "fill identity")
     ELSE job' = [job EXCEPT ![p] = Idle] /\ UNCHANGED identity
  /\ UNCHANGED <<agreement, paired, list, generated, offered>>

FillIdentity(p) ==
  /\ job[p].at = "fill identity" /\ generated < MaxKeys
  /\ identity' = generated + 1 /\ generated' = generated + 1
  /\ job' = [job EXCEPT ![p] = At("agreement", generated + 1, 0, Absent)]
  /\ UNCHANGED <<agreement, paired, list, offered>>

CreateAgreement(p) ==
  /\ job[p].at = "agreement"
  /\ IF MayCreate(agreement) THEN agreement' = Torn /\ Goes(p, "fill agreement")
     ELSE job' = [job EXCEPT ![p] = Idle] /\ UNCHANGED agreement
  /\ UNCHANGED <<identity, paired, list, generated, offered>>

FillAgreement(p) ==
  /\ job[p].at = "fill agreement" /\ generated < MaxKeys
  /\ agreement' = generated + 1 /\ generated' = generated + 1
  /\ job' = [job EXCEPT ![p] = At("offer", job[p].identity, generated + 1, Absent)]
  /\ UNCHANGED <<identity, paired, list, offered>>

\* Offer, leave and answer: some account's device certifies exactly these keys
\* (Left::check refuses anything else).
Answered(p, account) ==
  /\ job[p].at = "offer"
  /\ job' = [job EXCEPT ![p] = At("answered", job[p].identity, job[p].agreement, account)]
  /\ offered' = offered \cup {[identity |-> job[p].identity, agreement |-> job[p].agreement]}
  /\ UNCHANGED <<identity, agreement, paired, list, generated>>

\* write_paired: the file is truncated, then written in place.
TruncatePaired(p) ==
  /\ job[p].at = "answered"
  /\ paired' = Blank /\ Goes(p, "write")
  /\ UNCHANGED <<identity, agreement, list, generated, offered>>

\* Over what another invocation wrote since the truncation, the bytes may be of both.
WritePaired(p) ==
  /\ job[p].at = "write"
  /\ LET mine == [keys |-> [identity |-> job[p].identity, agreement |-> job[p].agreement],
                  account |-> job[p].account]
     IN  paired' \in (IF paired = Blank THEN {mine} ELSE {mine, Torn})
  /\ job' = [job EXCEPT ![p] = Idle]
  /\ UNCHANGED <<identity, agreement, list, generated, offered>>

-----------------------------------------------------------------------------
\* loaded, and State::revocations: a list of another account does not verify.
Loads == IsKey(identity) /\ IsKey(agreement) /\ IsPaired /\ list \in {Absent, paired.account}

Run(p) ==
  /\ job[p].at = "idle" /\ Loads
  /\ job' = [job EXCEPT ![p] = At("running", 0, 0, paired.account)]
  /\ UNCHANGED <<identity, agreement, paired, list, generated, offered>>

\* write_revocation_list, by a run of the account it was loaded for.
KeepList(p) ==
  /\ job[p].at = "running"
  /\ list' = job[p].account
  /\ UNCHANGED <<identity, agreement, paired, job, generated, offered>>

\* It fails, or it is killed, wherever it is; half of the paired file may be written.
Ends(p) ==
  /\ job[p].at # "idle"
  /\ job' = [job EXCEPT ![p] = Idle]
  /\ paired' \in (IF job[p].at = "write" THEN {paired, Torn} ELSE {paired})
  /\ UNCHANGED <<identity, agreement, list, generated, offered>>

\* "delete it to pair again": what a person is told of a key file that does not decode.
DeleteTorn ==
  /\ \A p \in Procs : job[p].at = "idle"
  /\ Torn \in {identity, agreement}
  /\ identity' = (IF identity = Torn THEN Absent ELSE identity)
  /\ agreement' = (IF agreement = Torn THEN Absent ELSE agreement)
  /\ UNCHANGED <<paired, list, job, generated, offered>>

BoxNext ==
  \/ \E p \in Procs :
       \/ \E again \in BOOLEAN : Pair(p, again)
       \/ LoadKeys(p) \/ CreateIdentity(p) \/ FillIdentity(p) \/ CreateAgreement(p) \/ FillAgreement(p)
       \/ \E account \in Owners : Answered(p, account)
       \/ TruncatePaired(p) \/ WritePaired(p) \/ Run(p) \/ KeepList(p) \/ Ends(p)
  \/ DeleteTorn

BoxSpec == BoxInit /\ [][BoxNext]_boxVars

-----------------------------------------------------------------------------
\* "a key that is replaced is a connector that silently became a different principal"
\* (generate_keys): through crashes, failures and invocations side by side, every pair
\* of keys an account ever certified is the one on disk, and so is the one the paired
\* file is about.
StaysTheSamePrincipal ==
  /\ \A keys \in offered : keys = Files
  /\ IsPaired => paired.keys = Files

\* "Pair again with a different account, replacing the certificate this connector
\* holds" (--again): a connector whose pairing was written can run.
PairedConnectorsStart ==
  IsPaired /\ (\A p \in Procs : job[p].at = "idle") => Loads
=============================================================================
