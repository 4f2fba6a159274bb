--------------------------- MODULE EndpointProofs ---------------------------
(***************************************************************************)
(* The two ends of a hub: a connector's state directory, the replay        *)
(* window, certificates, a sealed stream, the way of a box's frames to the *)
(* hub, and that of the hub's frames to a client.                          *)
(***************************************************************************)
EXTENDS BoxState, ReplayWindow, Certificates, SealedStream, Feed, Client, FiniteSetTheorems, WellFoundedInduction, TLAPS

-----------------------------------------------------------------------------
\* The state directory.

Places == {"idle", "keys", "identity", "fill identity", "agreement", "fill agreement",
           "offer", "answered", "write", "running"}

KeyFile == {Absent, Torn} \cup 1..MaxKeys

BoxTypes ==
  /\ identity \in KeyFile /\ agreement \in KeyFile
  /\ DOMAIN job = Procs
  /\ generated \in Nat
  /\ job = [p \in Procs |-> job[p]]

\* Whoever fills a file created it, and is the only one who does.
FillsItsOwn(p) ==
  /\ job[p].at = "fill identity" =>
       identity = Torn /\ \A q \in Procs \ {p} : job[q].at # "fill identity"
  /\ job[p].at = "fill agreement" =>
       agreement = Torn /\ \A q \in Procs \ {p} : job[q].at # "fill agreement"

\* The keys an invocation goes on with are those on disk.
HoldsTheKeys(p) ==
  /\ job[p].at \in {"agreement", "fill agreement", "offer", "answered", "write"} =>
       IsKey(identity) /\ job[p].identity = identity
  /\ job[p].at \in {"offer", "answered", "write"} =>
       IsKey(agreement) /\ job[p].agreement = agreement

HasKeys == IsKey(identity) /\ IsKey(agreement)

BoxInv ==
  /\ BoxTypes
  /\ \A p \in Procs : FillsItsOwn(p) /\ HoldsTheKeys(p)
  /\ \A keys \in offered : keys = Files /\ HasKeys
  /\ IsPaired => paired.keys = Files /\ HasKeys

LEMMA MarksAreNoKeys ==
  /\ \A k \in 1..MaxKeys : k # Absent /\ k # Torn /\ k # Blank
  /\ Absent # Torn /\ MaxKeys \in Nat
<1>1. \A k \in 1..MaxKeys : k # Absent /\ k # Torn /\ k # Blank
  BY BoxAssumption
<1>2. ASSUME Absent = Torn PROVE FALSE
  <2>1. {Absent, Torn, Blank} = {Absent} \cup {Blank} BY <1>2
  <2>2. IsFiniteSet({Absent}) /\ Cardinality({Absent}) = 1 BY FS_Singleton
  <2>3. Cardinality({Absent} \cup {Blank}) \in {1, 2} BY <2>2, FS_AddElement
  <2> QED BY <2>1, <2>3, BoxAssumption
<1> QED BY <1>1, <1>2, BoxAssumption

\* An invocation that leaves the files alone.
LEMMA JobMoves ==
  ASSUME BoxInv, NEW p \in Procs, NEW at \in Places \ {"fill identity", "fill agreement"}, NEW i, NEW a, NEW who,
         job' = [job EXCEPT ![p] = At(at, i, a, who)], UNCHANGED <<identity, agreement, generated>>,
         \A keys \in offered' : keys = Files /\ HasKeys,
         IsPaired' => paired'.keys = Files /\ HasKeys,
         at \in {"agreement", "offer", "answered", "write"} => IsKey(identity) /\ i = identity,
         at \in {"offer", "answered", "write"} => IsKey(agreement) /\ a = agreement
  PROVE  BoxInv'
<1>1. job'[p].at = at /\ job'[p].identity = i /\ job'[p].agreement = a /\ \A q \in Procs \ {p} : job'[q] = job[q]
  BY DEF BoxInv, BoxTypes, At
<1>2. BoxTypes' BY DEF BoxInv, BoxTypes
<1>3. ASSUME NEW q \in Procs PROVE FillsItsOwn(q)' /\ HoldsTheKeys(q)'
  BY <1>1 DEF BoxInv, FillsItsOwn, HoldsTheKeys, IsKey
<1>4. Files' = Files /\ (HasKeys => HasKeys') BY DEF Files, HasKeys, IsKey
<1> QED BY <1>2, <1>3, <1>4 DEF BoxInv

LEMMA BoxInitially == BoxInit => BoxInv
<1> SUFFICES ASSUME BoxInit PROVE BoxInv OBVIOUS
<1>1. BoxTypes BY DEF BoxInit, BoxTypes, KeyFile
<1>2. \A p \in Procs : job[p].at = "idle" BY DEF BoxInit, Idle, At
<1>3. \A p \in Procs : FillsItsOwn(p) /\ HoldsTheKeys(p) BY <1>2 DEF FillsItsOwn, HoldsTheKeys
<1>4. offered = {} /\ ~IsPaired BY DEF BoxInit, IsPaired
<1> QED BY <1>1, <1>3, <1>4 DEF BoxInv

LEMMA CreateIdentityStep ==
  ASSUME BoxInv, NEW p \in Procs, CreateIdentity(p)
  PROVE  BoxInv'
<1>1. CASE identity = Absent
  <2>1. /\ identity' = Torn /\ UNCHANGED <<agreement, paired, list, generated, offered>>
        /\ job' = [job EXCEPT ![p] = At("fill identity", job[p].identity, job[p].agreement, job[p].account)]
    BY <1>1 DEF CreateIdentity, MayCreate, Goes
  <2>2. job'[p].at = "fill identity" /\ \A q \in Procs \ {p} : job'[q] = job[q]
    BY <2>1 DEF BoxInv, BoxTypes, At
  <2>3. ~IsKey(identity) /\ identity # Torn BY <1>1, MarksAreNoKeys DEF IsKey
  <2>4. BoxTypes' BY <2>1 DEF BoxInv, BoxTypes, KeyFile
  <2>5. ASSUME NEW q \in Procs PROVE FillsItsOwn(q)' /\ HoldsTheKeys(q)'
    BY <2>1, <2>2, <2>3 DEF BoxInv, FillsItsOwn, HoldsTheKeys, IsKey
  <2>6. offered = {} /\ ~IsPaired BY <2>3 DEF BoxInv, HasKeys
  <2> QED BY <2>1, <2>4, <2>5, <2>6 DEF BoxInv, IsPaired
<1>2. CASE identity # Absent
  BY <1>2, JobMoves DEF CreateIdentity, MayCreate, Idle, Places, BoxInv, IsPaired
<1> QED BY <1>1, <1>2

LEMMA FillIdentityStep ==
  ASSUME BoxInv, NEW p \in Procs, FillIdentity(p)
  PROVE  BoxInv'
<1>1. /\ job[p].at = "fill identity" /\ generated < MaxKeys /\ identity' = generated + 1 /\ generated' = generated + 1
      /\ job' = [job EXCEPT ![p] = At("agreement", generated + 1, 0, Absent)] /\ UNCHANGED <<agreement, paired, offered>>
  BY DEF FillIdentity
<1>2. /\ job'[p].at = "agreement" /\ job'[p].identity = generated + 1 /\ \A q \in Procs \ {p} : job'[q] = job[q]
  BY <1>1 DEF BoxInv, BoxTypes, At
<1>3. identity = Torn /\ \A q \in Procs \ {p} : job[q].at # "fill identity" BY <1>1 DEF BoxInv, FillsItsOwn
<1>4. ~IsKey(identity) BY <1>3, MarksAreNoKeys DEF IsKey
<1>5. identity' \in 1..MaxKeys /\ generated' \in Nat
  <2>1. generated \in Nat /\ MaxKeys \in Nat BY MarksAreNoKeys DEF BoxInv, BoxTypes
  <2>2. generated < MaxKeys /\ identity' = generated + 1 /\ generated' = generated + 1 BY <1>1
  <2> QED BY <2>1, <2>2
<1>6. BoxTypes' BY <1>1, <1>5 DEF BoxInv, BoxTypes, KeyFile
<1>7. ASSUME NEW q \in Procs PROVE FillsItsOwn(q)' /\ HoldsTheKeys(q)'
  <2>1. CASE q = p BY <1>1, <1>2, <1>5, <2>1 DEF FillsItsOwn, HoldsTheKeys, IsKey
  <2>2. CASE q # p
    <3>1. job'[q] = job[q] /\ FillsItsOwn(q) /\ HoldsTheKeys(q) BY <1>2, <2>2 DEF BoxInv
    <3>2. job[q].at \notin {"fill identity", "agreement", "fill agreement", "offer", "answered", "write"}
      BY <1>3, <1>4, <2>2, <3>1 DEF HoldsTheKeys
    <3> QED BY <3>1, <3>2 DEF FillsItsOwn, HoldsTheKeys
  <2> QED BY <2>1, <2>2
<1>8. offered = {} /\ ~IsPaired BY <1>4 DEF BoxInv, HasKeys
<1> QED BY <1>1, <1>6, <1>7, <1>8 DEF BoxInv, IsPaired

LEMMA CreateAgreementStep ==
  ASSUME BoxInv, NEW p \in Procs, CreateAgreement(p)
  PROVE  BoxInv'
<1>1. CASE agreement = Absent
  <2>1. /\ agreement' = Torn /\ UNCHANGED <<identity, paired, list, generated, offered>> /\ job[p].at = "agreement"
        /\ job' = [job EXCEPT ![p] = At("fill agreement", job[p].identity, job[p].agreement, job[p].account)]
    BY <1>1 DEF CreateAgreement, MayCreate, Goes
  <2>2. job'[p].at = "fill agreement" /\ job'[p].identity = job[p].identity /\ \A q \in Procs \ {p} : job'[q] = job[q]
    BY <2>1 DEF BoxInv, BoxTypes, At
  <2>3. ~IsKey(agreement) /\ agreement # Torn BY <1>1, MarksAreNoKeys DEF IsKey
  <2>4. BoxTypes' BY <2>1 DEF BoxInv, BoxTypes, KeyFile
  <2>5. ASSUME NEW q \in Procs PROVE FillsItsOwn(q)' /\ HoldsTheKeys(q)'
    BY <2>1, <2>2, <2>3 DEF BoxInv, FillsItsOwn, HoldsTheKeys, IsKey
  <2>6. offered = {} /\ ~IsPaired BY <2>3 DEF BoxInv, HasKeys
  <2> QED BY <2>1, <2>4, <2>5, <2>6 DEF BoxInv, IsPaired
<1>2. CASE agreement # Absent
  BY <1>2, JobMoves DEF CreateAgreement, MayCreate, Idle, Places, BoxInv, IsPaired
<1> QED BY <1>1, <1>2

LEMMA FillAgreementStep ==
  ASSUME BoxInv, NEW p \in Procs, FillAgreement(p)
  PROVE  BoxInv'
<1>1. /\ job[p].at = "fill agreement" /\ generated < MaxKeys /\ agreement' = generated + 1 /\ generated' = generated + 1
      /\ job' = [job EXCEPT ![p] = At("offer", job[p].identity, generated + 1, Absent)] /\ UNCHANGED <<identity, paired, offered>>
  BY DEF FillAgreement
<1>2. /\ job'[p].at = "offer" /\ job'[p].identity = job[p].identity /\ job'[p].agreement = generated + 1
      /\ \A q \in Procs \ {p} : job'[q] = job[q]
  BY <1>1 DEF BoxInv, BoxTypes, At
<1>3. /\ agreement = Torn /\ IsKey(identity) /\ job[p].identity = identity
      /\ \A q \in Procs \ {p} : job[q].at # "fill agreement"
  BY <1>1 DEF BoxInv, FillsItsOwn, HoldsTheKeys
<1>4. ~IsKey(agreement) BY <1>3, MarksAreNoKeys DEF IsKey
<1>5. agreement' \in 1..MaxKeys /\ generated' \in Nat
  <2>1. generated \in Nat /\ MaxKeys \in Nat BY MarksAreNoKeys DEF BoxInv, BoxTypes
  <2>2. generated < MaxKeys /\ agreement' = generated + 1 /\ generated' = generated + 1 BY <1>1
  <2> QED BY <2>1, <2>2
<1>6. BoxTypes' BY <1>1, <1>5 DEF BoxInv, BoxTypes, KeyFile
<1>7. ASSUME NEW q \in Procs PROVE FillsItsOwn(q)' /\ HoldsTheKeys(q)'
  <2>1. CASE q = p BY <1>1, <1>2, <1>3, <1>5, <2>1 DEF FillsItsOwn, HoldsTheKeys, IsKey
  <2>2. CASE q # p
    <3>1. job'[q] = job[q] /\ FillsItsOwn(q) /\ HoldsTheKeys(q) BY <1>2, <2>2 DEF BoxInv
    <3>2. job[q].at \notin {"fill agreement", "offer", "answered", "write"}
      BY <1>3, <1>4, <2>2, <3>1 DEF HoldsTheKeys
    <3>3. \A r \in Procs \ {q} : job'[r].at = "fill identity" => job[r].at = "fill identity"
      BY <1>2
    <3> QED BY <1>1, <3>1, <3>2, <3>3 DEF FillsItsOwn, HoldsTheKeys, IsKey
  <2> QED BY <2>1, <2>2
<1>8. offered = {} /\ ~IsPaired BY <1>4 DEF BoxInv, HasKeys
<1> QED BY <1>1, <1>6, <1>7, <1>8 DEF BoxInv, IsPaired

LEMMA BoxStep == BoxInv /\ [BoxNext]_boxVars => BoxInv'
<1> SUFFICES ASSUME BoxInv, [BoxNext]_boxVars PROVE BoxInv' OBVIOUS
<1>0. /\ \A keys \in offered : keys = Files /\ HasKeys
      /\ IsPaired => paired.keys = Files /\ HasKeys
      /\ \A p \in Procs : HoldsTheKeys(p)
  BY DEF BoxInv
<1>1. ASSUME NEW p \in Procs, NEW again \in BOOLEAN, Pair(p, again) PROVE BoxInv'
  BY <1>0, <1>1, JobMoves DEF Pair, Goes, Places, IsPaired
<1>2. ASSUME NEW p \in Procs, LoadKeys(p) PROVE BoxInv'
  <2>1. UNCHANGED <<identity, agreement, paired, generated, offered>> BY <1>2 DEF LoadKeys
  <2>2. CASE Torn \in {identity, agreement}
    BY <1>0, <1>2, <2>1, <2>2, JobMoves DEF LoadKeys, Idle, Places, IsPaired
  <2>3. CASE Torn \notin {identity, agreement} /\ Absent \in {identity, agreement}
    BY <1>0, <1>2, <2>1, <2>3, JobMoves DEF LoadKeys, Places, IsPaired
  <2>4. CASE Torn \notin {identity, agreement} /\ Absent \notin {identity, agreement}
    <3>1. IsKey(identity) /\ IsKey(agreement) BY <2>4 DEF BoxInv, BoxTypes, KeyFile, IsKey
    <3>2. job' = [job EXCEPT ![p] = At("offer", identity, agreement, Absent)] BY <1>2, <2>4 DEF LoadKeys
    <3> QED BY <1>0, <2>1, <3>1, <3>2, JobMoves DEF Places, IsPaired
  <2> QED BY <2>2, <2>3, <2>4
<1>3. ASSUME NEW p \in Procs, NEW account \in Owners, Answered(p, account) PROVE BoxInv'
  <2>1. /\ job[p].at = "offer" /\ job' = [job EXCEPT ![p] = At("answered", job[p].identity, job[p].agreement, account)]
        /\ offered' = offered \cup {[identity |-> job[p].identity, agreement |-> job[p].agreement]}
        /\ UNCHANGED <<identity, agreement, paired, generated>>
    BY <1>3 DEF Answered
  <2>2. HasKeys /\ job[p].identity = identity /\ job[p].agreement = agreement
    BY <1>0, <2>1 DEF HoldsTheKeys, HasKeys
  <2>3. \A keys \in offered' : keys = Files /\ HasKeys BY <1>0, <2>1, <2>2 DEF Files
  <2> QED BY <1>0, <2>1, <2>2, <2>3, JobMoves DEF Places, IsPaired, HasKeys
<1>4. ASSUME NEW p \in Procs, TruncatePaired(p) PROVE BoxInv'
  <2>1. /\ job[p].at = "answered" /\ paired' = Blank /\ UNCHANGED <<identity, agreement, generated, offered>>
        /\ job' = [job EXCEPT ![p] = At("write", job[p].identity, job[p].agreement, job[p].account)]
    BY <1>4 DEF TruncatePaired, Goes
  <2>2. HasKeys /\ job[p].identity = identity /\ job[p].agreement = agreement
    BY <1>0, <2>1 DEF HoldsTheKeys, HasKeys
  <2> QED BY <1>0, <2>1, <2>2, JobMoves DEF Places, IsPaired, HasKeys
<1>5. ASSUME NEW p \in Procs, WritePaired(p) PROVE BoxInv'
  <2> DEFINE keys == [identity |-> job[p].identity, agreement |-> job[p].agreement]
             mine == [keys |-> keys, account |-> job[p].account]
  <2>1. /\ job[p].at = "write" /\ paired' \in {mine, Torn} /\ UNCHANGED <<identity, agreement, generated, offered>>
        /\ job' = [job EXCEPT ![p] = Idle]
    BY <1>5 DEF WritePaired
  <2>2. HasKeys /\ keys = Files
    BY <1>0, <2>1 DEF HoldsTheKeys, HasKeys, Files
  <2>3. mine.keys = keys OBVIOUS
  <2> HIDE DEF mine, keys
  <2>4. IsPaired' => paired'.keys = Files /\ HasKeys BY <2>1, <2>2, <2>3 DEF IsPaired
  <2> QED BY <1>0, <2>1, <2>4, JobMoves DEF Places, Idle
<1>6. ASSUME NEW p \in Procs, Run(p) PROVE BoxInv'
  BY <1>0, <1>6, JobMoves DEF Run, Places, IsPaired
<1>7. ASSUME NEW p \in Procs, Ends(p) PROVE BoxInv'
  <2>1. paired' \in {paired, Torn} /\ UNCHANGED <<identity, agreement, generated, offered>> /\ job' = [job EXCEPT ![p] = Idle]
    BY <1>7 DEF Ends
  <2>2. IsPaired' => paired'.keys = Files /\ HasKeys BY <1>0, <2>1 DEF IsPaired
  <2> QED BY <1>0, <2>1, <2>2, JobMoves DEF Places, Idle
<1>8. CASE DeleteTorn
  <2>1. /\ identity' = (IF identity = Torn THEN Absent ELSE identity)
        /\ agreement' = (IF agreement = Torn THEN Absent ELSE agreement)
        /\ UNCHANGED <<paired, list, job, generated, offered>> /\ \A p \in Procs : job[p].at = "idle"
    BY <1>8 DEF DeleteTorn
  <2>2. HasKeys => HasKeys' /\ Files' = Files
    BY <2>1, MarksAreNoKeys DEF HasKeys, IsKey, Files
  <2>3. BoxTypes' BY <2>1 DEF BoxInv, BoxTypes, KeyFile
  <2>4. \A p \in Procs : FillsItsOwn(p)' /\ HoldsTheKeys(p)' BY <2>1 DEF FillsItsOwn, HoldsTheKeys
  <2> QED BY <1>0, <2>1, <2>2, <2>3, <2>4 DEF BoxInv, IsPaired
<1>9. CASE UNCHANGED <<identity, agreement, paired, job, generated, offered>>
  <2>1. BoxTypes' BY <1>9 DEF BoxInv, BoxTypes
  <2>2. \A p \in Procs : FillsItsOwn(p)' BY <1>9 DEF BoxInv, FillsItsOwn
  <2>3. \A p \in Procs : HoldsTheKeys(p)' BY <1>9 DEF BoxInv, HoldsTheKeys, IsKey
  <2>4. /\ HasKeys' = HasKeys /\ Files' = Files /\ IsPaired' = IsPaired
        /\ offered' = offered /\ paired' = paired
    BY <1>9 DEF HasKeys, IsKey, Files, IsPaired
  <2>5. /\ \A keys \in offered : keys = Files /\ HasKeys
        /\ IsPaired => paired.keys = Files /\ HasKeys
    BY DEF BoxInv
  <2> QED BY <2>1, <2>2, <2>3, <2>4, <2>5 DEF BoxInv
<1>10. ASSUME NEW p \in Procs, KeepList(p) PROVE BoxInv'
  BY <1>9, <1>10 DEF KeepList
<1>11. CASE UNCHANGED boxVars
  BY <1>9, <1>11 DEF boxVars
<1> QED BY <1>1, <1>2, <1>3, <1>4, <1>5, <1>6, <1>7, <1>8, <1>10, <1>11,
           CreateIdentityStep, FillIdentityStep, CreateAgreementStep, FillAgreementStep DEF BoxNext

\* generate_keys and write_paired (state.rs): for any number of invocations side by side,
\* failing and crashing anywhere, every pair of keys an account certified is the one
\* on disk, and so is the one the paired file is about.
THEOREM PrincipalNeverChanges == BoxSpec => []StaysTheSamePrincipal
<1>1. BoxInv => StaysTheSamePrincipal BY DEF BoxInv, StaysTheSamePrincipal
<1> QED BY <1>1, BoxInitially, BoxStep, PTL DEF BoxSpec

-----------------------------------------------------------------------------
\* Certificates.

\* What verify_chain asks of the certificate the root signed, and of a delegate's.
RootVerifies(c) ==
  /\ c.terms.subject # Root /\ c.issuer = Root /\ c.signer = Root
  /\ Bounded(c) /\ ShortEnough(c) /\ InWindow(c) /\ BoxMayHold(c.terms)
  /\ c.renews # NoCert => Renews(c)

DelegateVerifies(c, d) ==
  /\ c.terms.subject # Root /\ c.issuer = d.terms.subject /\ c.signer = c.issuer
  /\ Bounded(c) /\ ShortEnough(c) /\ InWindow(c) /\ BoxMayHold(c.terms)
  /\ c.renews # NoCert => Renews(c)
  /\ d.terms.mayPair /\ c.to <= d.to /\ ~c.terms.mayRevoke
  /\ c.renews = NoCert => Delegable(c, d)

LEMMA OneVerifies ==
  ASSUME NEW c
  PROVE  Verifies(<<c>>) <=> RootVerifies(c)
<1> DEFINE chain == <<c>>
<1>1. Len(chain) = 1 /\ DOMAIN chain = {1} /\ chain[1] = c OBVIOUS
<1> HIDE DEF chain
<1>2. Verifies(chain) <=> RootVerifies(c) BY <1>1 DEF Verifies, RootVerifies
<1> QED BY <1>2 DEF chain

LEMMA TwoVerify ==
  ASSUME NEW c, NEW d
  PROVE  Verifies(<<c, d>>) <=> DelegateVerifies(c, d) /\ RootVerifies(d)
<1> DEFINE chain == <<c, d>>
<1>1. Len(chain) = 2 /\ DOMAIN chain = {1, 2} /\ chain[1] = c /\ chain[2] = d OBVIOUS
<1> HIDE DEF chain
<1>2. Verifies(chain) <=> DelegateVerifies(c, d) /\ RootVerifies(d)
  BY <1>1 DEF Verifies, RootVerifies, DelegateVerifies
<1> QED BY <1>2 DEF chain

Original(c) ==
  \E spec \in RootSpecs : MayIssue(spec.terms, spec.window) /\ c = Signed(Root, Root, spec.terms, spec.window, NoCert)

\* The root issued it, or renewed what it had issued.
RootSigned(c) ==
  /\ c.issuer = Root /\ c.signer = Root /\ c.terms \in Terms /\ c.from \in Nat /\ c.to \in Nat
  /\ Bounded(c) /\ ShortEnough(c) /\ BoxMayHold(c.terms)
  /\ Original(c) \/ (Original(c.renews) /\ c.renews \in grants /\ c.terms = c.renews.terms)

\* A delegate signed it with its own key; what it renews is the root's or made up.
DelegateSigned(c) ==
  /\ c.signer \in Principals /\ c.terms \in Terms /\ c.from \in Nat /\ c.to \in Nat
  /\ c.renews = NoCert \/ c.renews \in grants \/ c.renews.signer \in Principals
  /\ made = "renew" =>
       /\ c.issuer = c.signer /\ Bounded(c) /\ ShortEnough(c)
       /\ c.renews \in grants /\ Original(c.renews) /\ c.terms = c.renews.terms

CertInv == (\A c \in grants : RootSigned(c)) /\ (leaf # NoCert => DelegateSigned(leaf))

LEMMA OriginalIs ==
  ASSUME NEW c, Original(c)
  PROVE  /\ c # NoCert /\ c.renews = NoCert /\ c.issuer = Root /\ c.signer = Root /\ c.terms \in Terms
         /\ c.from \in Nat /\ c.to \in Nat /\ Bounded(c) /\ ShortEnough(c) /\ BoxMayHold(c.terms)
<1>1. PICK spec \in RootSpecs : MayIssue(spec.terms, spec.window) /\ c = Signed(Root, Root, spec.terms, spec.window, NoCert)
  BY DEF Original
<1>2. c # NoCert BY <1>1, CertificatesAssumption
<1>3. c.from = spec.window.from /\ c.to = spec.window.to /\ c.terms = spec.terms /\ c.renews = NoCert /\ c.issuer = Root
      /\ c.signer = Root
  BY <1>1 DEF Signed
<1>4. spec.terms \in Terms /\ spec.window.from \in Nat /\ spec.window.to \in Nat BY CertificatesAssumption
<1> QED BY <1>1, <1>2, <1>3, <1>4 DEF MayIssue, Bounded, ShortEnough

\* What the root renews it issued: a renewal is not renewed again.
LEMMA RenewedIsOriginal ==
  ASSUME CertInv, NEW c \in grants, c.renews = NoCert
  PROVE  Original(c)
BY OriginalIs DEF CertInv, RootSigned

LEMMA CertStep == CertInv /\ [CertNext]_certVars => CertInv'
<1> SUFFICES ASSUME CertInv, [CertNext]_certVars PROVE CertInv' OBVIOUS
<1>1. ASSUME NEW spec \in RootSpecs, RootIssues(spec) PROVE CertInv'
  <2> DEFINE n == Signed(Root, Root, spec.terms, spec.window, NoCert)
  <2>1. leaf = NoCert /\ UNCHANGED <<leaf, made>> /\ grants' = grants \cup {n} /\ MayIssue(spec.terms, spec.window)
    BY <1>1 DEF RootIssues
  <2>2. Original(n) BY <2>1 DEF Original
  <2> HIDE DEF n
  <2>3. RootSigned(n)' BY <2>2, OriginalIs DEF RootSigned, Original
  <2>4. \A c \in grants : RootSigned(c)' BY <2>1 DEF CertInv, RootSigned, Original
  <2> QED BY <2>1, <2>3, <2>4 DEF CertInv
<1>2. ASSUME NEW w \in Windows, NEW c \in grants, RootRenews(c, w) PROVE CertInv'
  <2> DEFINE n == Signed(Root, Root, c.terms, w, c)
  <2>1. leaf = NoCert /\ UNCHANGED <<leaf, made>> /\ grants' = grants \cup {n} /\ MayRenew(c, w)
    BY <1>2 DEF RootRenews
  <2>2. Original(c) BY <2>1, RenewedIsOriginal DEF MayRenew
  <2>3. n.issuer = Root /\ n.signer = Root /\ n.terms = c.terms /\ n.from = w.from /\ n.to = w.to /\ n.renews = c
    BY DEF Signed
  <2> HIDE DEF n
  <2>4. Bounded(n) /\ ShortEnough(n) /\ n.from \in Nat /\ n.to \in Nat
    BY <2>1, <2>3, CertificatesAssumption DEF MayRenew, Bounded, ShortEnough
  <2>5. c.terms \in Terms /\ BoxMayHold(c.terms) BY <2>2, OriginalIs
  <2>6. RootSigned(n)' BY <2>1, <2>2, <2>3, <2>4, <2>5 DEF RootSigned, Original
  <2>7. \A g \in grants : RootSigned(g)' BY <2>1 DEF CertInv, RootSigned, Original
  <2> QED BY <2>1, <2>6, <2>7 DEF CertInv
<1>3. ASSUME UNCHANGED grants, leaf' # NoCert => DelegateSigned(leaf)' PROVE CertInv'
  BY <1>3 DEF CertInv, RootSigned, Original
<1>4. ASSUME NEW w \in Windows, NEW c \in grants, NEW d \in Principals, DelegateRenews(d, c, w) PROVE CertInv'
  <2> DEFINE n == Signed(d, d, c.terms, w, c)
  <2>1. leaf' = n /\ made' = "renew" /\ UNCHANGED grants /\ MayRenew(c, w) BY <1>4 DEF DelegateRenews
  <2>2. Original(c) BY <2>1, RenewedIsOriginal DEF MayRenew
  <2>3. n.issuer = d /\ n.signer = d /\ n.terms = c.terms /\ n.from = w.from /\ n.to = w.to /\ n.renews = c
    BY DEF Signed
  <2> HIDE DEF n
  <2>4. Bounded(n) /\ ShortEnough(n) /\ n.from \in Nat /\ n.to \in Nat
    BY <2>1, <2>3, CertificatesAssumption DEF MayRenew, Bounded, ShortEnough
  <2>5. c.terms \in Terms BY <2>2, OriginalIs
  <2>6. DelegateSigned(leaf)' BY <2>1, <2>2, <2>3, <2>4, <2>5 DEF DelegateSigned, Original
  <2> QED BY <1>3, <2>1, <2>6
<1>5. ASSUME NEW d \in Principals, NEW t \in Terms, NEW w \in Windows, NEW issuer,
             NEW renews, renews = NoCert \/ renews \in grants \/ renews.signer \in Principals,
             leaf' = Signed(d, issuer, t, w, renews), made' # "renew", UNCHANGED grants
      PROVE  CertInv'
  <2>1. leaf'.signer = d /\ leaf'.terms = t /\ leaf'.from = w.from /\ leaf'.to = w.to /\ leaf'.renews = renews
    BY <1>5 DEF Signed
  <2>2. DelegateSigned(leaf)' BY <1>5, <2>1, CertificatesAssumption DEF DelegateSigned
  <2> QED BY <1>3, <1>5, <2>2
<1>6. ASSUME NEW d \in Principals, NEW t \in Terms, NEW w \in Windows, DelegateIssues(d, t, w) PROVE CertInv'
  <2>1. leaf' = Signed(d, d, t, w, NoCert) /\ made' # "renew" /\ UNCHANGED grants BY <1>6 DEF DelegateIssues
  <2> QED BY <1>5, <2>1
<1>7. ASSUME NEW d \in Principals, NEW t \in Terms, NEW w \in Windows, NEW issuer \in {d, Root},
             NEW renews \in grants \cup MadeUp(d, t, w) \cup {NoCert}, DelegateSigns(d, issuer, t, w, renews)
      PROVE  CertInv'
  <2>1. leaf' = Signed(d, issuer, t, w, renews) /\ made' # "renew" /\ UNCHANGED grants BY <1>7 DEF DelegateSigns
  <2>2. renews = NoCert \/ renews \in grants \/ renews.signer \in Principals
    BY DEF MadeUp, Signed
  <2> QED BY <1>5, <2>1, <2>2
<1>8. CASE UNCHANGED <<grants, leaf, made>>
  BY <1>8 DEF CertInv, RootSigned, DelegateSigned, Original
<1>9. CASE CertTick \/ UNCHANGED certVars
  BY <1>8, <1>9 DEF CertTick, certVars
<1> QED BY <1>1, <1>2, <1>4, <1>6, <1>7, <1>9 DEF CertNext

LEMMA GrantVerifies ==
  ASSUME CertInv, NEW c \in grants
  PROVE  InWindow(c) <=> RootVerifies(c)
<1>1. RootSigned(c) BY DEF CertInv
<1>2. c.terms.subject # Root BY <1>1, CertificatesAssumption DEF RootSigned, Terms
<1>3. c.renews # NoCert => Renews(c)
  <2>1. CASE Original(c) BY <2>1, OriginalIs
  <2>2. CASE Original(c.renews) /\ c.terms = c.renews.terms
    BY <2>2, OriginalIs DEF Renews, Predecessor, SameTerms
  <2> QED BY <1>1, <2>1, <2>2 DEF RootSigned
<1> QED BY <1>1, <1>2, <1>3 DEF RootVerifies, RootSigned

LEMMA AuthorityIsRoots ==
  ASSUME CertInv
  PROVE  AuthorityFromRoot
<1> SUFFICES ASSUME NEW chain \in Chains, Verifies(chain)
             PROVE  LET c == chain[1] IN
                    /\ c.terms.mayRevoke => c \in grants
                    /\ \A s \in c.terms.scopes \cap NeverDelegable :
                         \E g \in grants : g.terms.subject = c.terms.subject /\ g.terms.key = c.terms.key /\ s \in g.terms.scopes
                    /\ \A s \in c.terms.scopes :
                         \E g \in grants : s \in g.terms.scopes /\ (g.terms.subject = c.terms.subject \/ g.terms.mayPair)
                    /\ \E g \in grants : g.to >= c.to /\ InWindow(g) /\ (g = c \/ g.terms.mayPair)
  BY DEF AuthorityFromRoot
<1>1. ASSUME NEW c \in grants, chain = <<c>> PROVE chain[1] = c /\ InWindow(c) /\ c.to >= c.to
  <2>1. RootVerifies(c) BY <1>1, OneVerifies
  <2>2. c.to \in Nat BY DEF CertInv, RootSigned
  <2> QED BY <1>1, <2>1, <2>2 DEF RootVerifies
<1>2. ASSUME leaf # NoCert PROVE chain # <<leaf>> /\ chain # <<leaf, leaf>>
  <2>1. leaf.signer # Root BY <1>2, CertificatesAssumption DEF CertInv, DelegateSigned
  <2> QED BY <2>1, OneVerifies, TwoVerify DEF RootVerifies
<1>3. ASSUME leaf # NoCert, NEW d \in grants, chain = <<leaf, d>>
      PROVE  /\ chain[1] = leaf /\ ~leaf.terms.mayRevoke
             /\ \A s \in leaf.terms.scopes \cap NeverDelegable :
                  \E g \in grants : g.terms.subject = leaf.terms.subject /\ g.terms.key = leaf.terms.key /\ s \in g.terms.scopes
             /\ \A s \in leaf.terms.scopes :
                  \E g \in grants : s \in g.terms.scopes /\ (g.terms.subject = leaf.terms.subject \/ g.terms.mayPair)
             /\ d.to >= leaf.to /\ InWindow(d) /\ d.terms.mayPair
  <2>1. DelegateVerifies(leaf, d) /\ RootVerifies(d) /\ chain[1] = leaf BY <1>3, TwoVerify
  <2>2. DelegateSigned(leaf) /\ RootSigned(d) BY <1>3 DEF CertInv
  <2>3. d.to >= leaf.to /\ InWindow(d) /\ d.terms.mayPair /\ ~leaf.terms.mayRevoke
    BY <2>1, <2>2 DEF DelegateVerifies, RootVerifies, DelegateSigned, RootSigned
  <2>4. CASE leaf.renews = NoCert
    <3>1. Delegable(leaf, d) BY <2>1, <2>4 DEF DelegateVerifies
    <3> QED BY <2>1, <2>3, <3>1 DEF Delegable
  <2>5. CASE leaf.renews # NoCert
    <3>1. leaf.renews.signer = Root /\ leaf.terms = leaf.renews.terms
      BY <2>1, <2>5 DEF DelegateVerifies, Renews, Predecessor, SameTerms
    <3>2. leaf.renews \in grants BY <2>2, <2>5, <3>1, CertificatesAssumption DEF DelegateSigned
    <3> QED BY <2>1, <2>3, <3>1, <3>2
  <2> QED BY <2>4, <2>5
<1>4. \/ \E c \in grants : chain = <<c>>
      \/ leaf # NoCert /\ \E d \in grants : chain = <<leaf, d>>
  BY <1>2 DEF Chains
<1> QED BY <1>1, <1>3, <1>4

LEMMA IssuedVerify ==
  ASSUME CertInv
  PROVE  IssuedCertificatesVerify
<1>1. \A c \in grants : InWindow(c) => Verifies(<<c>>)
  BY GrantVerifies, OneVerifies
<1>2. ASSUME NEW d \in grants, leaf # NoCert, made = "renew", InWindow(leaf), InWindow(d),
             d.terms.subject = leaf.signer, d.terms.mayPair, leaf.to <= d.to
      PROVE  Verifies(<<leaf, d>>) <=> ~leaf.terms.mayRevoke
  <2>1. DelegateSigned(leaf) BY <1>2 DEF CertInv
  <2>2. leaf.terms.subject # Root BY <2>1, CertificatesAssumption DEF DelegateSigned, Terms
  <2>3. /\ leaf.issuer = leaf.signer /\ Bounded(leaf) /\ ShortEnough(leaf)
        /\ leaf.renews \in grants /\ Original(leaf.renews) /\ leaf.terms = leaf.renews.terms
    BY <1>2, <2>1 DEF DelegateSigned
  <2>4. leaf.renews # NoCert /\ Renews(leaf) /\ BoxMayHold(leaf.terms)
    BY <2>3, OriginalIs DEF Renews, Predecessor, SameTerms
  <2>5. DelegateVerifies(leaf, d) <=> ~leaf.terms.mayRevoke
    BY <1>2, <2>2, <2>3, <2>4 DEF DelegateVerifies
  <2> QED BY <1>2, <2>5, TwoVerify, GrantVerifies
<1> QED BY <1>1, <1>2 DEF IssuedCertificatesVerify

\* Certificates (keys/lib.rs, verify_chain, issue, renew): for any principals, terms, windows
\* and limits, and whatever delegates sign, a chain that verifies goes back to the root's
\* word, and what was issued or renewed by the book verifies for as long as it says.
THEOREM CertificatesAreSound == CertSpec => []CertificatesSound
<1>1. CertInit => CertInv BY DEF CertInit, CertInv
<1>2. CertInv => CertificatesSound BY AuthorityIsRoots, IssuedVerify DEF CertificatesSound
<1> QED BY <1>1, <1>2, CertStep, PTL DEF CertSpec

-----------------------------------------------------------------------------
\* The replay window.

\* Every nonempty set of naturals has a least element.
LEMMA LeastOf ==
  ASSUME NEW T, T \subseteq Nat, T # {}
  PROVE  \E x \in T : \A y \in T : x <= y
<1>1. \E x \in T : \A y \in T : ~(<<y, x>> \in OpToRel(<, Nat))
  BY NatLessThanWellFounded, WFMin
<1>2. PICK x \in T : \A y \in T : ~(<<y, x>> \in OpToRel(<, Nat))
  BY <1>1
<1>3. ASSUME NEW y \in T PROVE x <= y
  <2>1. ~(<<y, x>> \in OpToRel(<, Nat)) BY <1>2
  <2>2. y \in Nat /\ x \in Nat OBVIOUS
  <2>3. ~(y < x) BY <2>1, <2>2 DEF OpToRel
  <2> QED BY <2>2, <2>3
<1> QED BY <1>3

Entries == [forgetAt : Nat, key : Keys]

KeysOf(s) == {s[i].key : i \in 1..Len(s)}

Distinct(s) == \A i, j \in 1..Len(s) : s[i].key = s[j].key => i = j

WindowTypes ==
  /\ wall \in Nat /\ back \in Nat /\ sealed \in [Keys -> Nat \cup {Unsealed}]
  /\ order \in Seq(Entries) /\ accepted \in [Keys -> Nat]

\* The nonces held against a sender.
Of(s, K) == {k \in K : k[1] = s}

\* The window's three views of what it remembers.
ViewsAgree ==
  /\ Distinct(order) /\ seen = KeysOf(order)
  /\ held = [s \in Senders |-> Cardinality(Of(s, seen))]

\* The order and the nonces are within the limits.
WithinShares ==
  /\ Len(order) <= WindowCapacity
  /\ \A s \in Senders : held[s] <= PerSender

\* Accepted once, and refused ever after: the window remembers the nonce for longer than
\* the envelope is fresh, or it is stale already.
Refused(k) ==
  accepted[k] > 0 =>
    /\ accepted[k] = 1 /\ sealed[k] \in Nat
    /\ \/ wall > sealed[k] + Window
       \/ \E i \in 1..Len(order) : order[i].key = k /\ order[i].forgetAt > sealed[k] + Window

WindowInv ==
  /\ WindowTypes /\ ViewsAgree /\ WithinShares
  /\ \A k \in seen : accepted[k] > 0
  /\ back = 0 => \A k \in Keys : Refused(k)

\* As many keys as entries.
LEMMA KeysCounted ==
  ASSUME NEW s \in Seq(Entries), Distinct(s)
  PROVE  IsFiniteSet(KeysOf(s)) /\ Cardinality(KeysOf(s)) = Len(s) /\ KeysOf(s) \subseteq Keys
<1> DEFINE n == Len(s)
           f == [i \in 1..n |-> s[i].key]
<1>1. n \in Nat OBVIOUS
<1>2. IsFiniteSet(1..n) /\ Cardinality(1..n) = n
  <2> HIDE DEF n
  <2>1. 1 \in Int /\ n \in Int BY <1>1
  <2>2. IsFiniteSet(1..n) /\ Cardinality(1..n) = IF 1 > n THEN 0 ELSE n - 1 + 1 BY <2>1, FS_Interval, Zenon
  <2> QED BY <1>1, <2>2
<1>3. f \in Surjection(1..n, KeysOf(s))
  <2>1. \A i \in 1..n : f[i] = s[i].key /\ f[i] \in KeysOf(s) BY DEF KeysOf
  <2>2. f \in [1..n -> KeysOf(s)] BY <2>1
  <2>3. \A k \in KeysOf(s) : \E i \in 1..n : f[i] = k BY <2>1 DEF KeysOf
  <2> QED BY <2>2, <2>3 DEF Surjection
<1>4. f \in Injection(1..n, KeysOf(s)) BY <1>3 DEF Injection, Surjection, IsInjective, Distinct
<1>5. IsFiniteSet(KeysOf(s)) /\ Cardinality(KeysOf(s)) = n
  BY <1>2, <1>3, <1>4, FS_Surjection
<1>6. \A i \in 1..n : s[i] \in Entries OBVIOUS
<1>7. \A i \in 1..n : s[i].key \in Keys BY <1>6 DEF Entries
<1> QED BY <1>5, <1>7 DEF KeysOf

\* admit drops entries from the front, and only such as are over.
LEMMA DropsTheFront ==
  ASSUME WindowTypes
  PROVE  Expired \in 0..Len(order) /\ \A i \in 1..Expired : order[i].forgetAt <= wall
<1> DEFINE live == {i \in DOMAIN order : order[i].forgetAt > wall}
           first == CHOOSE i \in live : \A j \in live : i <= j
<1>1. DOMAIN order = 1..Len(order) /\ Len(order) \in Nat BY DEF WindowTypes
<1>2. \A i \in 1..Len(order) : order[i].forgetAt \in Nat
  <2>1. \A i \in 1..Len(order) : order[i] \in Entries BY DEF WindowTypes
  <2> QED BY <2>1 DEF Entries
<1>3. wall \in Nat BY DEF WindowTypes
<1>4. CASE live = {}
  <2>1. Expired = Len(order) BY <1>4 DEF Expired
  <2> QED BY <1>1, <1>2, <1>3, <1>4, <2>1
<1>5. CASE live # {}
  <2>0. live \subseteq Nat BY <1>1
  <2>1. \E i \in live : \A j \in live : i <= j BY <1>5, <2>0, LeastOf
  <2>2. first \in live /\ \A j \in live : first <= j BY <2>1
  <2>3. Expired = first - 1 BY <1>5 DEF Expired
  <2>4. first \in 1..Len(order) BY <1>1, <2>2
  <2> HIDE DEF first
  <2>5. \A i \in 1..(first - 1) : i \notin live BY <2>2, <2>4
  <2> QED BY <1>1, <1>2, <1>3, <2>3, <2>4, <2>5
<1> QED BY <1>4, <1>5

\* What stays is the rest of the order, and every view of it agrees.
LEMMA WhatStays ==
  ASSUME WindowInv
  PROVE  /\ Kept \in Seq(Entries) /\ Distinct(Kept) /\ seen \ Forgotten = KeysOf(Kept)
         /\ IsFiniteSet(seen) /\ Len(Kept) <= Len(order)
         /\ HeldAfter = [s \in Senders |-> Cardinality(Of(s, seen \ Forgotten))]
         /\ \A s \in Senders : HeldAfter[s] \in Nat /\ HeldAfter[s] <= PerSender
         /\ \A i \in 1..Len(order) : order[i].forgetAt <= wall \/ \E j \in 1..Len(Kept) : Kept[j] = order[i]
<1> DEFINE n == Expired
<1>1. n \in 0..Len(order) /\ \A i \in 1..n : order[i].forgetAt <= wall BY DropsTheFront DEF WindowInv
<1>2. order \in Seq(Entries) /\ Len(order) \in Nat BY DEF WindowInv, WindowTypes
<1>3. Distinct(order) /\ seen = KeysOf(order) BY DEF WindowInv, ViewsAgree
<1>4. Kept = SubSeq(order, n + 1, Len(order)) BY DEF Kept
<1>5. Forgotten = {order[i].key : i \in 1..n} BY DEF Forgotten
<1> HIDE DEF n
<1>6. Kept \in Seq(Entries) /\ Len(Kept) = Len(order) - n /\ \A i \in 1..Len(Kept) : Kept[i] = order[i + n]
  BY <1>1, <1>2, <1>4
<1>7. Distinct(Kept)
  <2> SUFFICES ASSUME NEW i \in 1..Len(Kept), NEW j \in 1..Len(Kept), Kept[i].key = Kept[j].key PROVE i = j
    BY DEF Distinct
  <2>1. i + n \in 1..Len(order) /\ j + n \in 1..Len(order) BY <1>1, <1>2, <1>6
  <2>2. order[i + n].key = order[j + n].key BY <1>6
  <2>3. i + n = j + n BY <1>3, <2>1, <2>2 DEF Distinct
  <2> QED BY <1>1, <2>3
<1>8. \A i \in (n + 1)..Len(order) : i - n \in 1..Len(Kept) /\ Kept[i - n] = order[i]
  BY <1>1, <1>2, <1>6
<1>9. seen \ Forgotten = KeysOf(Kept)
  <2>1. ASSUME NEW k \in seen \ Forgotten PROVE k \in KeysOf(Kept)
    <3>1. PICK i \in 1..Len(order) : order[i].key = k BY <1>3 DEF KeysOf
    <3>2. i \in (n + 1)..Len(order) BY <1>1, <1>2, <1>5, <2>1, <3>1
    <3> QED BY <1>8, <3>1, <3>2 DEF KeysOf
  <2>2. ASSUME NEW k \in KeysOf(Kept) PROVE k \in seen \ Forgotten
    <3>1. PICK i \in 1..Len(Kept) : Kept[i].key = k BY DEF KeysOf
    <3>2. i + n \in 1..Len(order) /\ order[i + n].key = k /\ ~(i + n <= n) BY <1>1, <1>2, <1>6, <3>1
    <3>3. k \in seen BY <1>3, <3>2 DEF KeysOf
    <3>4. ASSUME k \in Forgotten PROVE FALSE
      <4>1. PICK j \in 1..n : order[j].key = k BY <1>5, <3>4
      <4>2. j \in 1..Len(order) BY <1>1, <1>2
      <4>3. j = i + n BY <1>3, <3>2, <4>1, <4>2 DEF Distinct
      <4> QED BY <1>1, <3>2, <4>3
    <3> QED BY <3>3, <3>4
  <2> QED BY <2>1, <2>2
<1>10. IsFiniteSet(seen) BY <1>2, <1>3, KeysCounted
<1>11. Forgotten \subseteq seen BY <1>1, <1>2, <1>3, <1>5 DEF KeysOf
<1>12. ASSUME NEW s \in Senders
       PROVE  /\ HeldAfter[s] = Cardinality(Of(s, seen \ Forgotten))
              /\ HeldAfter[s] \in Nat /\ HeldAfter[s] <= PerSender
  <2>1. IsFiniteSet(Of(s, seen)) BY <1>10, FS_Subset DEF Of
  <2>2. Of(s, seen \ Forgotten) = Of(s, seen) \ Of(s, Forgotten) BY DEF Of
  <2>3. Of(s, seen) \cap Of(s, Forgotten) = Of(s, Forgotten) BY <1>11 DEF Of
  <2>4. /\ IsFiniteSet(Of(s, seen \ Forgotten))
        /\ Cardinality(Of(s, seen \ Forgotten)) = Cardinality(Of(s, seen)) - Cardinality(Of(s, Forgotten))
    BY <2>1, <2>2, <2>3, FS_Difference
  <2>5. held[s] = Cardinality(Of(s, seen)) /\ held[s] <= PerSender BY DEF WindowInv, ViewsAgree, WithinShares
  <2>6. HeldAfter[s] = held[s] - Cardinality(Of(s, Forgotten)) BY DEF HeldAfter, Of
  <2>7. Of(s, Forgotten) \subseteq Of(s, seen) BY <1>11 DEF Of
  <2>8. IsFiniteSet(Of(s, Forgotten)) BY <2>1, <2>7, FS_Subset
  <2>9. Cardinality(Of(s, Forgotten)) \in Nat /\ Cardinality(Of(s, seen \ Forgotten)) \in Nat
        /\ Cardinality(Of(s, seen)) \in Nat /\ PerSender \in Nat
    BY <2>1, <2>4, <2>8, FS_CardinalityType, WindowBounds
  <2> QED BY <2>4, <2>5, <2>6, <2>9
<1>13. HeldAfter = [s \in Senders |-> Cardinality(Of(s, seen \ Forgotten))] BY <1>12 DEF HeldAfter
<1>14. ASSUME NEW i \in 1..Len(order)
       PROVE  order[i].forgetAt <= wall \/ \E j \in 1..Len(Kept) : Kept[j] = order[i]
  <2>1. CASE i <= n BY <1>1, <1>2, <2>1
  <2>2. CASE ~(i <= n)
    <3>1. i \in (n + 1)..Len(order) BY <1>1, <1>2, <2>2
    <3> QED BY <1>8, <3>1
  <2> QED BY <2>1, <2>2
<1>15. Len(Kept) <= Len(order) BY <1>1, <1>2, <1>6
<1> QED BY <1>6, <1>7, <1>9, <1>10, <1>12, <1>13, <1>14, <1>15

\* A nonce that takes its place at the end.
LEMMA TakesItsPlace ==
  ASSUME NEW s \in Seq(Entries), Distinct(s), NEW e \in Entries, e.key \notin KeysOf(s)
  PROVE  /\ Append(s, e) \in Seq(Entries) /\ Len(Append(s, e)) = Len(s) + 1
         /\ Distinct(Append(s, e)) /\ KeysOf(Append(s, e)) = KeysOf(s) \cup {e.key}
         /\ \A i \in 1..Len(s) : Append(s, e)[i] = s[i]
         /\ Append(s, e)[Len(s) + 1] = e
<1> DEFINE t == Append(s, e)
<1>1. t \in Seq(Entries) /\ Len(t) = Len(s) + 1 /\ t[Len(s) + 1] = e /\ \A i \in 1..Len(s) : t[i] = s[i]
  OBVIOUS
<1>2. Len(s) \in Nat OBVIOUS
<1> HIDE DEF t
<1>3. \A i \in 1..Len(t) : i \in 1..Len(s) \/ i = Len(s) + 1 BY <1>1, <1>2
<1>4. 1..Len(s) \subseteq 1..Len(t) /\ Len(s) + 1 \in 1..Len(t) BY <1>1, <1>2
<1>5. KeysOf(t) = KeysOf(s) \cup {e.key} BY <1>1, <1>3, <1>4 DEF KeysOf
<1>6. Distinct(t)
  <2> SUFFICES ASSUME NEW i \in 1..Len(t), NEW j \in 1..Len(t), t[i].key = t[j].key PROVE i = j
    BY DEF Distinct
  <2>1. CASE i \in 1..Len(s) /\ j \in 1..Len(s) BY <1>1, <2>1 DEF Distinct
  <2>2. CASE i \in 1..Len(s) /\ j = Len(s) + 1 BY <1>1, <2>2 DEF KeysOf
  <2>3. CASE j \in 1..Len(s) /\ i = Len(s) + 1 BY <1>1, <2>3 DEF KeysOf
  <2> QED BY <1>3, <2>1, <2>2, <2>3
<1> QED BY <1>1, <1>5, <1>6 DEF t

\* What is refused stays refused while the clock does not go back.
LEMMA StaysRefused ==
  ASSUME WindowInv, back = 0, back' = 0, NEW k \in Keys, Refused(k), accepted'[k] = accepted[k],
         sealed'[k] = sealed[k], wall' \in Nat, wall' >= wall,
         \A i \in 1..Len(order) : order[i].forgetAt <= wall' \/ \E j \in 1..Len(order') : order'[j] = order[i]
  PROVE  Refused(k)'
<1>1. CASE accepted[k] > 0
  <2>1. accepted[k] = 1 /\ sealed[k] \in Nat /\ wall \in Nat /\ Window \in Nat
    BY <1>1, WindowBounds DEF Refused, WindowInv, WindowTypes
  <2>2. CASE wall > sealed[k] + Window BY <2>1, <2>2 DEF Refused
  <2>3. ASSUME NEW i \in 1..Len(order), order[i].key = k, order[i].forgetAt > sealed[k] + Window
        PROVE  Refused(k)'
    <3>1. order[i] \in Entries BY DEF WindowInv, WindowTypes
    <3>2. order[i].forgetAt \in Nat BY <3>1 DEF Entries
    <3>3. CASE order[i].forgetAt <= wall' 
      <4>1. wall' > sealed[k] + Window BY <2>1, <2>3, <3>2, <3>3
      <4> QED BY <2>1, <4>1 DEF Refused
    <3>4. CASE \E j \in 1..Len(order') : order'[j] = order[i]
      BY <2>1, <2>3, <3>4 DEF Refused
    <3> QED BY <3>3, <3>4
  <2> QED BY <1>1, <2>2, <2>3 DEF Refused
<1>2. CASE ~(accepted[k] > 0) BY <1>2 DEF Refused
<1> QED BY <1>1, <1>2

LEMMA WindowInitially == ReplayInit => WindowInv
<1> SUFFICES ASSUME ReplayInit PROVE WindowInv OBVIOUS
<1>1. /\ wall = 0 /\ back = 0 /\ sealed = [k \in Keys |-> Unsealed] /\ seen = {} /\ held = [s \in Senders |-> 0]
      /\ order = <<>> /\ accepted = [k \in Keys |-> 0]
  BY DEF ReplayInit
<1>2. order \in Seq(Entries) /\ Len(order) = 0 BY <1>1
<1>3. WindowTypes BY <1>1, <1>2 DEF WindowTypes
<1>4. KeysOf(order) = {} /\ Distinct(order) BY <1>2 DEF KeysOf, Distinct
<1>5. \A s \in Senders : Of(s, seen) = {} BY <1>1 DEF Of
<1>6. ViewsAgree BY <1>1, <1>4, <1>5, FS_EmptySet DEF ViewsAgree
<1>7. WithinShares BY <1>1, <1>2, WindowBounds DEF WithinShares
<1>8. \A k \in Keys : Refused(k) BY <1>1 DEF Refused
<1> QED BY <1>1, <1>3, <1>6, <1>7, <1>8 DEF WindowInv

LEMMA AdmitStep ==
  ASSUME WindowInv, NEW k \in Keys, Admit(k, TRUE), sealed[k] # Unsealed, Fresh(sealed[k]),
         UNCHANGED <<wall, back, sealed>>
  PROVE  WindowInv'
<1> DEFINE live == seen \ Forgotten
<1>1. WindowTypes /\ sealed[k] \in Nat BY DEF WindowInv, WindowTypes
<1>2. /\ Kept \in Seq(Entries) /\ Distinct(Kept) /\ live = KeysOf(Kept)
      /\ IsFiniteSet(seen) /\ Len(Kept) <= Len(order)
      /\ HeldAfter = [s \in Senders |-> Cardinality(Of(s, live))]
      /\ \A s \in Senders : HeldAfter[s] \in Nat /\ HeldAfter[s] <= PerSender
  BY WhatStays
<1>3. \A i \in 1..Len(order) : order[i].forgetAt <= wall \/ \E j \in 1..Len(Kept) : Kept[j] = order[i]
  BY WhatStays
<1>4. Cardinality(live) = Len(Kept) /\ live \subseteq Keys /\ IsFiniteSet(live) BY <1>2, KeysCounted
<1>5. wall \in Nat /\ Window \in Nat /\ WindowCapacity \in Nat /\ PerSender \in Nat /\ Len(order) \in Nat
      /\ Len(Kept) \in Nat /\ Len(order) <= WindowCapacity
  BY <1>1, <1>2, WindowBounds DEF WindowTypes, WindowInv, WithinShares
<1>6. \A l \in live : accepted[l] > 0 BY DEF WindowInv
<1>7. CASE seen' = live /\ held' = HeldAfter /\ order' = Kept /\ UNCHANGED accepted
  <2>1. WindowTypes' BY <1>1, <1>2, <1>7 DEF WindowTypes
  <2>2. ViewsAgree' BY <1>2, <1>7 DEF ViewsAgree
  <2>3. WithinShares'
    <3>1. Len(order') <= WindowCapacity BY <1>2, <1>5, <1>7
    <3>2. \A s \in Senders : held'[s] <= PerSender BY <1>2, <1>7
    <3> QED BY <3>1, <3>2 DEF WithinShares
  <2>4. ASSUME back' = 0, NEW l \in Keys PROVE Refused(l)'
    <3>1. Refused(l) /\ back = 0 BY <2>4 DEF WindowInv
    <3> QED BY <1>3, <1>5, <1>7, <2>4, <3>1, StaysRefused
  <2> QED BY <1>6, <1>7, <2>1, <2>2, <2>3, <2>4 DEF WindowInv
<1>8. CASE ~(k \in live \/ HeldAfter[k[1]] >= PerSender \/ Cardinality(live) >= WindowCapacity)
  <2> DEFINE e == [forgetAt |-> ForgetAt, key |-> k]
  <2>1. /\ seen' = live \cup {k} /\ order' = Append(Kept, e)
        /\ held' = [HeldAfter EXCEPT ![k[1]] = @ + 1]
        /\ accepted' = [accepted EXCEPT ![k] = @ + 1]
    BY <1>8 DEF Admit
  <2>2. ForgetAt = wall + 2 * Window + 1 /\ ForgetAt \in Nat BY <1>5 DEF ForgetAt
  <2>3. e \in Entries /\ e.key = k /\ e.forgetAt = ForgetAt BY <2>2 DEF Entries
  <2> HIDE DEF e
  <2>4. /\ order' \in Seq(Entries) /\ Len(order') = Len(Kept) + 1
        /\ Distinct(order') /\ KeysOf(order') = KeysOf(Kept) \cup {k}
        /\ \A i \in 1..Len(Kept) : order'[i] = Kept[i]
        /\ order'[Len(Kept) + 1] = e
    BY <1>2, <1>8, <2>1, <2>3, TakesItsPlace
  <2>5. k[1] \in Senders BY DEF Keys
  <2>6. accepted' \in [Keys -> Nat] BY <1>1, <2>1 DEF WindowTypes
  <2>7. WindowTypes' BY <1>1, <2>4, <2>6 DEF WindowTypes
  <2>8. ASSUME NEW s \in Senders PROVE held'[s] = Cardinality(Of(s, seen')) /\ held'[s] <= PerSender
    <3>1. CASE s = k[1]
      <4>1. Of(s, seen') = Of(s, live) \cup {k} /\ k \notin Of(s, live) BY <1>8, <2>1, <3>1 DEF Of
      <4>2. IsFiniteSet(Of(s, live)) BY <1>4, FS_Subset DEF Of
      <4>3. Cardinality(Of(s, seen')) = Cardinality(Of(s, live)) + 1 BY <4>1, <4>2, FS_AddElement
      <4>4. HeldAfter[s] = Cardinality(Of(s, live)) /\ held'[s] = HeldAfter[s] + 1 BY <1>2, <2>1, <3>1
      <4>5. HeldAfter[s] \in Nat /\ ~(HeldAfter[s] >= PerSender) BY <1>2, <1>8, <3>1
      <4> QED BY <1>5, <4>3, <4>4, <4>5
    <3>2. CASE s # k[1]
      <4>1. Of(s, seen') = Of(s, live) BY <2>1, <3>2 DEF Of
      <4> QED BY <1>2, <2>1, <3>2, <4>1
    <3> QED BY <3>1, <3>2
  <2>9. held' = [s \in Senders |-> held'[s]] BY <1>2, <2>1
  <2>10. ViewsAgree'
    <3>1. held' = [s \in Senders |-> Cardinality(Of(s, seen'))] BY <2>8, <2>9
    <3> QED BY <1>2, <2>1, <2>4, <3>1 DEF ViewsAgree
  <2>11. WithinShares' BY <1>4, <1>5, <1>8, <2>4, <2>8 DEF WithinShares
  <2>12. \A l \in seen' : accepted'[l] > 0
    BY <1>1, <1>4, <1>6, <2>1 DEF WindowTypes
  <2>13. \A i \in 1..Len(order) : order[i].forgetAt <= wall' \/ \E j \in 1..Len(order') : order'[j] = order[i]
    <3>1. 1..Len(Kept) \subseteq 1..Len(order') BY <1>5, <2>4
    <3> QED BY <1>3, <2>4, <3>1
  <2>14. ASSUME back' = 0, NEW l \in Keys PROVE Refused(l)'
    <3>1. Refused(l) /\ back = 0 /\ Refused(k) BY <2>14 DEF WindowInv
    <3>2. CASE l = k
      <4>1. sealed[k] - wall <= Window /\ wall - sealed[k] <= Window BY DEF Fresh
      <4>2. ~(wall > sealed[k] + Window) BY <1>1, <1>5, <4>1
      <4>3. ASSUME accepted[k] > 0 PROVE FALSE
        <5>1. PICK i \in 1..Len(order) : order[i].key = k /\ order[i].forgetAt > sealed[k] + Window
          BY <3>1, <4>2, <4>3 DEF Refused
        <5>2. order[i] \in Entries BY <1>1 DEF WindowTypes
        <5>3. order[i].forgetAt \in Nat BY <5>2 DEF Entries
        <5>4. CASE order[i].forgetAt <= wall
          BY <1>1, <1>5, <4>2, <5>1, <5>3, <5>4
        <5>5. ASSUME NEW j \in 1..Len(Kept), Kept[j] = order[i] PROVE FALSE
          BY <1>2, <1>8, <5>1, <5>5 DEF KeysOf
        <5> QED BY <1>3, <5>4, <5>5
      <4>4. accepted[k] = 0 BY <1>1, <4>3 DEF WindowTypes
      <4>5. accepted'[k] = 1 BY <1>1, <2>1, <4>4 DEF WindowTypes
      <4>6. e.forgetAt > sealed[k] + Window BY <1>1, <1>5, <2>2, <2>3, <4>1, SMTT(30)
      <4>7. Len(Kept) + 1 \in 1..Len(order') BY <1>5, <2>4
      <4>8. \E i \in 1..Len(order') : order'[i].key = k /\ order'[i].forgetAt > sealed[k] + Window
        BY <2>3, <2>4, <4>6, <4>7
      <4> QED BY <1>1, <3>2, <4>5, <4>8 DEF Refused
    <3>3. CASE l # k
      <4>1. accepted'[l] = accepted[l] BY <1>1, <2>1, <3>3 DEF WindowTypes
      <4> QED BY <1>5, <2>13, <2>14, <3>1, <4>1, StaysRefused
    <3> QED BY <3>2, <3>3
  <2> QED BY <2>7, <2>10, <2>11, <2>12, <2>14 DEF WindowInv
<1> QED BY <1>7, <1>8 DEF Admit

LEMMA WindowStep == WindowInv /\ [ReplayNext]_replayVars => WindowInv'
<1> SUFFICES ASSUME WindowInv, [ReplayNext]_replayVars PROVE WindowInv' OBVIOUS
<1>0. WindowTypes BY DEF WindowInv
<1>1. ASSUME NEW k \in Keys, NEW time \in 0..MaxWall, Seal(k, time) PROVE WindowInv'
  <2>1. /\ sealed[k] = Unsealed /\ sealed' = [sealed EXCEPT ![k] = time]
        /\ UNCHANGED <<wall, back, seen, held, order, accepted>>
    BY <1>1 DEF Seal
  <2>2. time \in Nat BY WindowBounds
  <2>3. WindowTypes' BY <1>0, <2>1, <2>2 DEF WindowTypes
  <2>4. ViewsAgree' /\ WithinShares' BY <2>1 DEF WindowInv, ViewsAgree, WithinShares
  <2>5. ASSUME back' = 0, NEW l \in Keys PROVE Refused(l)'
    <3>1. Refused(l) BY <2>1, <2>5 DEF WindowInv
    <3>2. CASE l = k BY <2>1, <3>1, <3>2, WindowBounds DEF Refused
    <3>3. CASE l # k
      <4>1. sealed'[l] = sealed[l] BY <1>0, <2>1, <3>3 DEF WindowTypes
      <4> QED BY <2>1, <3>1, <4>1 DEF Refused
    <3> QED BY <3>2, <3>3
  <2> QED BY <2>1, <2>3, <2>4, <2>5 DEF WindowInv
<1>2. ASSUME NEW k \in Keys, NEW label, NEW stamp \in Senders, OpenSealed(k, label, stamp) PROVE WindowInv'
  <2>1. /\ sealed[k] # Unsealed /\ Verified(k, label, stamp) /\ Fresh(sealed[k])
        /\ Admit(k, Verified(k, label, stamp)) /\ UNCHANGED <<wall, back, sealed>>
    BY <1>2 DEF OpenSealed, ReachesWindow
  <2>2. Admit(k, TRUE) BY <2>1 DEF Admit
  <2> QED BY <2>1, <2>2, AdmitStep
<1>3. ASSUME UNCHANGED <<sealed, seen, held, order, accepted>>, wall' \in Nat, back' \in Nat,
             back' = 0 => back = 0 /\ wall' >= wall
      PROVE  WindowInv'
  <2>1. WindowTypes' BY <1>0, <1>3 DEF WindowTypes
  <2>2. ViewsAgree' /\ WithinShares' BY <1>3 DEF WindowInv, ViewsAgree, WithinShares
  <2>3. ASSUME back' = 0, NEW l \in Keys PROVE Refused(l)'
    <3>1. Refused(l) BY <1>3, <2>3 DEF WindowInv
    <3> QED BY <1>3, <2>3, <3>1, StaysRefused
  <2> QED BY <1>3, <2>1, <2>2, <2>3 DEF WindowInv
<1>4. CASE WallTick
  BY <1>0, <1>3, <1>4 DEF WallTick, WindowTypes
<1>5. CASE StepBack
  BY <1>0, <1>3, <1>5 DEF StepBack, WindowTypes
<1>6. CASE Restart
  <2>1. /\ seen' = {} /\ held' = [s \in Senders |-> 0] /\ order' = <<>> /\ accepted' = [k \in Keys |-> 0]
        /\ UNCHANGED <<wall, back, sealed>>
    BY <1>6 DEF Restart
  <2>2. order' \in Seq(Entries) /\ Len(order') = 0 BY <2>1
  <2>3. WindowTypes' BY <1>0, <2>1, <2>2 DEF WindowTypes
  <2>4. KeysOf(order') = {} /\ Distinct(order') BY <2>2 DEF KeysOf, Distinct
  <2>5. \A s \in Senders : Of(s, seen') = {} BY <2>1 DEF Of
  <2>6. ViewsAgree' BY <2>1, <2>4, <2>5, FS_EmptySet DEF ViewsAgree
  <2>7. WithinShares' BY <2>1, <2>2, WindowBounds DEF WithinShares
  <2>8. \A k \in Keys : Refused(k)' BY <2>1 DEF Refused
  <2> QED BY <2>1, <2>3, <2>6, <2>7, <2>8 DEF WindowInv
<1>7. CASE UNCHANGED replayVars
  BY <1>0, <1>3, <1>7 DEF replayVars, WindowTypes
<1> QED BY <1>1, <1>2, <1>4, <1>5, <1>6, <1>7 DEF ReplayNext, OpenCommand, OpenGrant

\* Receiver::open and ReplayWindow::admit: for any window, any limits, any senders and
\* any delays, an envelope is accepted a second time only after the wall clock went
\* back, and the window's three views of what it remembers agree and keep to their
\* limits.
THEOREM EnvelopesAcceptedOnce == ReplaySpec => []AcceptedOnce
<1>1. WindowInv => AcceptedOnce
  <2> SUFFICES ASSUME WindowInv PROVE AcceptedOnce OBVIOUS
  <2>1. WindowTypes /\ ViewsAgree /\ WithinShares BY DEF WindowInv
  <2>2. order \in Seq(Entries) /\ Distinct(order) BY <2>1 DEF WindowTypes, ViewsAgree
  <2>3. DOMAIN order = 1..Len(order) BY <2>2
  <2>4. seen = {order[i].key : i \in DOMAIN order} BY <2>1, <2>3 DEF ViewsAgree, KeysOf
  <2>5. Len(order) = Cardinality(seen) BY <2>1, <2>2, KeysCounted DEF ViewsAgree
  <2>6. ASSUME back = 0, NEW k \in Keys PROVE accepted[k] <= 1
    <3>1. Refused(k) BY <2>6 DEF WindowInv
    <3>2. accepted[k] \in Nat BY <2>1 DEF WindowTypes
    <3> QED BY <3>1, <3>2 DEF Refused
  <2>7. \A s \in Senders : held[s] = Cardinality({k \in seen : k[1] = s}) /\ held[s] <= PerSender
    BY <2>1 DEF ViewsAgree, WithinShares, Of
  <2> QED BY <2>1, <2>4, <2>5, <2>6, <2>7 DEF AcceptedOnce, WindowInv, WithinShares
<1> QED BY <1>1, WindowInitially, WindowStep, PTL DEF ReplaySpec

-----------------------------------------------------------------------------
\* A sealed stream.

SealedFrames == [key : Nat, counter : Nat, round : Nat]

Grants == [key : Nat, from : Nat, round : Nat]

StreamTypes ==
  /\ counter \in Nat /\ streamKey \in Nat /\ keyFrom \in Nat /\ round \in Nat
  /\ keyFrom <= counter + 1
  /\ published \in Seq(SealedFrames) /\ wrapped \subseteq Grants /\ position \in 0..Len(published)

\* Within a run the counters are the order of publication.
InStep(i, j) ==
  i <= j =>
    /\ published[i].round <= published[j].round
    /\ published[i].round = published[j].round => published[j].counter - published[i].counter = j - i

\* Of a frame, the last counter and the key of the moment.
CountedOn(i) ==
  /\ published[i].counter > 0 /\ published[i].round <= round /\ published[i].key <= streamKey
  /\ published[i].round = round => published[i].counter = counter - (Len(published) - i)
  /\ published[i].key = streamKey => published[i].round = round /\ published[i].counter >= keyFrom

\* A key is of one run, and its grant covers every frame sealed under it.
Covers(g) ==
  /\ g.key <= streamKey /\ g.round <= round
  /\ g.key = streamKey => g.from = keyFrom /\ g.round = round
  /\ \A i \in 1..Len(published) :
       published[i].key = g.key => published[i].round = g.round /\ published[i].counter >= g.from
  /\ \A h \in wrapped : h.key = g.key => h = g

\* The reader holds what it was granted, and is at the counter of its position.
ReaderAt ==
  /\ \A k \in DOMAIN reader.keys : reader.keys[k] \in wrapped /\ reader.keys[k].key = k
  /\ reader.last = IF position = 0 THEN 0 ELSE published[position].counter

\* While it reads one run, it stands in that run, and the last gap was told truly.
InItsRun ==
  OneRun =>
    /\ position > 0 => OfItsRun(position)
    /\ told.before > 0 => told.no > told.before /\ told.skipped = told.no - told.before - 1

StreamInv ==
  /\ StreamTypes
  /\ \A i, j \in 1..Len(published) : InStep(i, j)
  /\ \A i \in 1..Len(published) : CountedOn(i)
  /\ \A g \in wrapped : Covers(g)
  /\ reader # NoReader => ReaderAt /\ InItsRun

LEMMA FrameTypes ==
  ASSUME StreamTypes
  PROVE  /\ Len(published) \in Nat /\ DOMAIN published = 1..Len(published)
         /\ \A i \in 1..Len(published) :
              /\ published[i] \in SealedFrames
              /\ published[i].key \in Nat /\ published[i].counter \in Nat /\ published[i].round \in Nat
<1>1. published \in Seq(SealedFrames) BY DEF StreamTypes
<1>2. \A i \in 1..Len(published) : published[i] \in SealedFrames BY <1>1
<1> QED BY <1>1, <1>2 DEF SealedFrames

\* A reader in one run opens what is past its position, of that run.
LEMMA OpensWhatIsNext ==
  ASSUME StreamInv, reader # NoReader, OneRun, NEW no \in 1..Len(published),
         published[no].key \in DOMAIN reader.keys
  PROVE  /\ OfItsRun(no)
         /\ Opens(published[no]) <=> no > position
         /\ position > 0 => published[no].counter - reader.last = no - position
<1> DEFINE g == reader.keys[published[no].key]
<1>1. g \in wrapped /\ g.key = published[no].key BY DEF StreamInv, ReaderAt
<1>2. published[no].round = g.round /\ published[no].counter >= g.from BY <1>1 DEF StreamInv, Covers
<1>3. OfItsRun(no) BY <1>2 DEF OfItsRun, RunOf
<1>4. /\ published[no].counter \in Nat /\ published[no].counter > 0 /\ position \in 0..Len(published)
      /\ Len(published) \in Nat
  BY FrameTypes DEF StreamInv, CountedOn, StreamTypes
<1>5. reader.last = IF position = 0 THEN 0 ELSE published[position].counter BY DEF StreamInv, ReaderAt
<1>6. Opens(published[no]) <=> published[no].counter > reader.last BY <1>2 DEF Opens
<1>7. CASE position = 0 BY <1>3, <1>4, <1>5, <1>6, <1>7
<1>8. CASE position > 0
  <2>1. position \in 1..Len(published) BY <1>4, <1>8
  <2>2. OfItsRun(position) BY <1>8 DEF StreamInv, InItsRun
  <2>3. PICK k \in DOMAIN reader.keys : published[position].round = RunOf(k) BY <2>2 DEF OfItsRun
  <2>4. published[no].round = RunOf(published[no].key) BY <1>2 DEF RunOf
  <2>5. published[no].round = published[position].round BY <2>3, <2>4 DEF OneRun
  <2>6. InStep(no, position) /\ InStep(position, no) BY <2>1 DEF StreamInv
  <2>7. published[position].counter \in Nat BY <2>1, FrameTypes DEF StreamInv
  <2>8. published[no].counter - published[position].counter = no - position
    BY <1>4, <2>1, <2>5, <2>6, <2>7 DEF InStep
  <2> QED BY <1>3, <1>4, <1>5, <1>6, <1>8, <2>1, <2>7, <2>8
<1> QED BY <1>4, <1>7, <1>8

LEMMA StreamInitially == StreamInit => StreamInv
<1> SUFFICES ASSUME StreamInit PROVE StreamInv OBVIOUS
<1>1. /\ counter = 0 /\ streamKey = 1 /\ keyFrom = 1 /\ round = 1
      /\ published = <<>> /\ wrapped = {} /\ reader = NoReader /\ position = 0
  BY DEF StreamInit
<1>2. published \in Seq(SealedFrames) /\ Len(published) = 0 BY <1>1
<1>3. StreamTypes BY <1>1, <1>2 DEF StreamTypes
<1> QED BY <1>1, <1>2, <1>3 DEF StreamInv

LEMMA PublishStep ==
  ASSUME StreamInv, PublishFrame
  PROVE  StreamInv'
<1> DEFINE n == Len(published)
           f == [key |-> streamKey, counter |-> counter + 1, round |-> round]
<1>1. /\ counter' = counter + 1 /\ published' = Append(published, f)
      /\ UNCHANGED <<streamKey, keyFrom, round, wrapped, reader, position, told>>
  BY DEF PublishFrame, SealFrame
<1>2. /\ counter \in Nat /\ streamKey \in Nat /\ keyFrom \in Nat /\ round \in Nat /\ keyFrom <= counter + 1
      /\ published \in Seq(SealedFrames) /\ wrapped \subseteq Grants /\ position \in 0..n
  BY DEF StreamInv, StreamTypes
<1>3. f \in SealedFrames /\ f.key = streamKey /\ f.counter = counter + 1 /\ f.round = round BY <1>2 DEF SealedFrames
<1> HIDE DEF f
<1>4. /\ published' \in Seq(SealedFrames) /\ Len(published') = n + 1 /\ published'[n + 1] = f /\ n \in Nat
      /\ \A i \in 1..n : published'[i] = published[i]
  BY <1>1, <1>2, <1>3
<1>5. \A i \in 1..n : published[i].key \in Nat /\ published[i].counter \in Nat /\ published[i].round \in Nat
  BY FrameTypes DEF StreamInv
<1> HIDE DEF n
<1>6. \A i \in 1..Len(published') : i \in 1..n \/ i = n + 1 BY <1>4
<1>7. StreamTypes' BY <1>1, <1>2, <1>4 DEF StreamTypes
<1>8. \A i \in 1..n : CountedOn(i) BY DEF StreamInv, n
<1>9. ASSUME NEW i \in 1..Len(published'), NEW j \in 1..Len(published') PROVE InStep(i, j)'
  <2>1. CASE i \in 1..n /\ j \in 1..n
    <3>1. InStep(i, j) BY <2>1 DEF StreamInv, n
    <3> QED BY <1>4, <2>1, <3>1 DEF InStep
  <2>2. CASE i \in 1..n /\ j = n + 1
    <3>1. published[i].round <= round /\ (published[i].round = round => published[i].counter = counter - (n - i))
      BY <1>8, <2>2 DEF CountedOn, n
    <3>2. published'[i] = published[i] /\ published'[j] = f BY <1>4, <2>2
    <3>3. published[i].round \in Nat /\ published[i].counter \in Nat /\ j \in Nat /\ i \in Nat BY <1>4, <1>5, <2>2
    <3>4. published[i].round <= f.round BY <1>3, <3>1
    <3>5. published[i].round = f.round => f.counter - published[i].counter = j - i
      BY <1>2, <1>3, <1>4, <2>2, <3>1, <3>3
    <3> QED BY <3>2, <3>4, <3>5 DEF InStep
  <2>3. CASE i = n + 1 /\ j \in 1..n BY <1>4, <2>3 DEF InStep
  <2>4. CASE i = n + 1 /\ j = n + 1 BY <1>2, <1>3, <1>4, <2>4 DEF InStep
  <2> QED BY <1>6, <2>1, <2>2, <2>3, <2>4
<1>10. ASSUME NEW i \in 1..Len(published') PROVE CountedOn(i)'
  <2>1. CASE i \in 1..n
    <3>1. CountedOn(i) BY <1>8, <2>1
    <3>2. published'[i] = published[i] BY <1>4, <2>1
    <3>3. i \in Nat /\ n \in Nat /\ counter \in Nat BY <1>2, <1>4, <2>1
    <3>4. counter' - (Len(published') - i) = counter - (n - i) BY <1>1, <1>4, <3>3
    <3>5. /\ published[i].counter > 0 /\ published[i].round <= round /\ published[i].key <= streamKey
          /\ published[i].round = round => published[i].counter = counter - (n - i)
          /\ published[i].key = streamKey => published[i].round = round /\ published[i].counter >= keyFrom
      BY <3>1 DEF CountedOn, n
    <3>6. round' = round /\ streamKey' = streamKey /\ keyFrom' = keyFrom BY <1>1
    <3> QED BY <3>2, <3>4, <3>5, <3>6 DEF CountedOn
  <2>2. CASE i = n + 1 BY <1>1, <1>2, <1>3, <1>4, <2>2 DEF CountedOn
  <2> QED BY <1>6, <2>1, <2>2
<1>11. ASSUME NEW g \in wrapped' PROVE Covers(g)'
  <2>1. g \in wrapped /\ Covers(g) BY <1>1 DEF StreamInv
  <2>2. ASSUME NEW i \in 1..Len(published'), published'[i].key = g.key
        PROVE  published'[i].round = g.round /\ published'[i].counter >= g.from
    <3>1. CASE i \in 1..n BY <1>4, <2>1, <2>2, <3>1 DEF Covers, n
    <3>2. CASE i = n + 1 BY <1>2, <1>3, <1>4, <2>1, <2>2, <3>2 DEF Covers
    <3> QED BY <1>6, <3>1, <3>2
  <2> QED BY <1>1, <2>1, <2>2 DEF Covers
<1>12. ASSUME reader' # NoReader PROVE ReaderAt' /\ InItsRun'
  <2>1. ReaderAt /\ InItsRun BY <1>1, <1>12 DEF StreamInv
  <2>2. position > 0 => position \in 1..n BY <1>2, <1>4
  <2>3. position > 0 => published'[position] = published[position] BY <1>4, <2>2
  <2>4. position = 0 \/ position > 0 BY <1>2, <1>4
  <2> QED BY <1>1, <2>1, <2>3, <2>4 DEF ReaderAt, InItsRun, OneRun, OfItsRun, RunOf
<1> QED BY <1>7, <1>9, <1>10, <1>11, <1>12 DEF StreamInv

\* The key turns over, on a new count or on the old one.
LEMMA TurnOver ==
  ASSUME StreamInv, streamKey' = streamKey + 1, counter' \in Nat, keyFrom' \in Nat, keyFrom' <= counter' + 1,
         \/ round' = round /\ counter' = counter
         \/ round' = round + 1,
         UNCHANGED <<published, wrapped, reader, position, told>>
  PROVE  StreamInv'
<1>1. /\ counter \in Nat /\ streamKey \in Nat /\ keyFrom \in Nat /\ round \in Nat
      /\ published \in Seq(SealedFrames) /\ wrapped \subseteq Grants /\ position \in 0..Len(published)
  BY DEF StreamInv, StreamTypes
<1>2. \A i \in 1..Len(published) :
        published[i].key \in Nat /\ published[i].counter \in Nat /\ published[i].round \in Nat
  BY FrameTypes DEF StreamInv
<1>3. StreamTypes'
  <2>1. streamKey' \in Nat /\ round' \in Nat BY <1>1
  <2> QED BY <1>1, <2>1 DEF StreamTypes
<1>4. \A i, j \in 1..Len(published') : InStep(i, j)' BY DEF StreamInv, InStep
<1>5. ASSUME NEW i \in 1..Len(published') PROVE CountedOn(i)'
  <2>1. published' = published OBVIOUS
  <2>2. CountedOn(i) BY <2>1 DEF StreamInv
  <2>3. /\ published[i].counter > 0 /\ published[i].round <= round /\ published[i].key <= streamKey
        /\ published[i].round = round => published[i].counter = counter - (Len(published) - i)
    BY <2>2 DEF CountedOn
  <2>4. published[i].key \in Nat /\ published[i].round \in Nat BY <1>2, <2>1
  <2>5. published[i].key <= streamKey' /\ published[i].key # streamKey' BY <1>1, <2>3, <2>4
  <2>6. published[i].round <= round'
        /\ (published[i].round = round' => published[i].counter = counter' - (Len(published) - i))
    <3>1. CASE round' = round /\ counter' = counter BY <2>3, <3>1
    <3>2. CASE round' = round + 1 BY <1>1, <2>3, <2>4, <3>2
    <3> QED BY <3>1, <3>2
  <2> QED BY <2>1, <2>3, <2>5, <2>6 DEF CountedOn
<1>6. ASSUME NEW g \in wrapped' PROVE Covers(g)'
  <2>1. Covers(g) /\ g.key \in Nat /\ g.round \in Nat BY <1>1 DEF StreamInv, Grants
  <2>2. g.key <= streamKey /\ g.round <= round BY <2>1 DEF Covers
  <2>3. g.key <= streamKey' /\ g.round <= round' /\ g.key # streamKey' BY <1>1, <2>1, <2>2
  <2> QED BY <2>1, <2>3 DEF Covers
<1>7. reader' # NoReader => ReaderAt' /\ InItsRun'
  BY DEF StreamInv, ReaderAt, InItsRun, OneRun, OfItsRun, RunOf
<1> QED BY <1>3, <1>4, <1>5, <1>6, <1>7 DEF StreamInv

LEMMA WrapStep ==
  ASSUME StreamInv, WrapKey
  PROVE  StreamInv'
<1>0. PICK n : n = [key |-> streamKey, from |-> keyFrom, round |-> round] OBVIOUS
<1>1. /\ wrapped' = wrapped \cup {n}
      /\ UNCHANGED <<counter, streamKey, keyFrom, round, published, reader, position, told>>
  BY <1>0 DEF WrapKey
<1>2. StreamTypes BY DEF StreamInv
<1>3. streamKey \in Nat /\ keyFrom \in Nat /\ round \in Nat /\ wrapped \subseteq Grants BY <1>2 DEF StreamTypes
<1>4. n \in Grants /\ n.key = streamKey /\ n.from = keyFrom /\ n.round = round BY <1>0, <1>3 DEF Grants
<1>5. \A h \in wrapped : h.key = streamKey => h = n
  <2> SUFFICES ASSUME NEW h \in wrapped, h.key = streamKey PROVE h = n OBVIOUS
  <2>1. h.from = keyFrom /\ h.round = round BY DEF StreamInv, Covers
  <2>2. h \in Grants BY <1>3
  <2> QED BY <1>0, <2>1, <2>2 DEF Grants
<1>6. StreamTypes' BY <1>1, <1>2, <1>4 DEF StreamTypes
<1>7. /\ \A i, j \in 1..Len(published') : InStep(i, j)'
      /\ \A i \in 1..Len(published') : CountedOn(i)'
  BY <1>1 DEF StreamInv, InStep, CountedOn
<1>8. ASSUME NEW g \in wrapped PROVE Covers(g)'
  <2>1. Covers(g) BY DEF StreamInv
  <2> QED BY <1>1, <1>4, <1>5, <2>1 DEF Covers
<1>9. Covers(n)'
  <2>1. \A i \in 1..Len(published) : CountedOn(i) BY DEF StreamInv
  <2>2. \A i \in 1..Len(published') :
          published'[i].key = n.key => published'[i].round = n.round /\ published'[i].counter >= n.from
    BY <1>1, <1>4, <2>1 DEF CountedOn
  <2>3. \A h \in wrapped' : h.key = n.key => h = n BY <1>1, <1>4, <1>5
  <2>4. n.key <= streamKey' /\ n.round <= round' BY <1>1, <1>3, <1>4
  <2>5. n.key = streamKey' => n.from = keyFrom' /\ n.round = round' BY <1>1, <1>4
  <2> QED BY <2>2, <2>3, <2>4, <2>5 DEF Covers
<1>10. reader' # NoReader => ReaderAt' /\ InItsRun'
  BY <1>1 DEF StreamInv, ReaderAt, InItsRun, OneRun, OfItsRun, RunOf
<1>11. \A g \in wrapped' : Covers(g)' BY <1>1, <1>8, <1>9
<1> QED BY <1>6, <1>7, <1>10, <1>11 DEF StreamInv

\* What a reader does leaves the stream alone.
LEMMA ReaderMoves ==
  ASSUME StreamInv, UNCHANGED <<counter, streamKey, keyFrom, round, published, wrapped>>,
         position' \in 0..Len(published), reader' # NoReader => ReaderAt' /\ InItsRun'
  PROVE  StreamInv'
<1>1. StreamTypes' BY DEF StreamInv, StreamTypes
<1>2. \A i, j \in 1..Len(published') : InStep(i, j)' BY DEF StreamInv, InStep
<1>3. \A i \in 1..Len(published') : CountedOn(i)' BY DEF StreamInv, CountedOn
<1>4. \A g \in wrapped' : Covers(g)' BY DEF StreamInv, Covers
<1> QED BY <1>1, <1>2, <1>3, <1>4 DEF StreamInv

LEMMA StreamStep == StreamInv /\ [StreamNext]_streamVars => StreamInv'
<1> SUFFICES ASSUME StreamInv, [StreamNext]_streamVars PROVE StreamInv' OBVIOUS
<1>0. /\ counter \in Nat /\ position \in 0..Len(published) /\ Len(published) \in Nat
      /\ DOMAIN published = 1..Len(published)
  BY FrameTypes DEF StreamInv, StreamTypes
<1>1. CASE Rotate BY <1>0, <1>1, TurnOver DEF Rotate, AfterRotation
<1>2. CASE RestartStream BY <1>0, <1>2, TurnOver DEF RestartStream
<1>3. ASSUME NEW grant \in wrapped, NewReader(grant) PROVE StreamInv'
  <2>1. /\ reader' = [keys |-> [k \in {grant.key} |-> grant], last |-> 0]
        /\ position' = 0 /\ told' = NothingTold
        /\ UNCHANGED <<counter, streamKey, keyFrom, round, published, wrapped>>
    BY <1>3 DEF NewReader
  <2>2. reader'.keys = [k \in {grant.key} |-> grant] /\ reader'.last = 0 BY <2>1
  <2>3. ReaderAt' BY <2>1, <2>2 DEF ReaderAt
  <2>4. InItsRun' BY <2>1, <2>2 DEF InItsRun, NothingTold
  <2> QED BY <1>0, <2>1, <2>3, <2>4, ReaderMoves
<1>4. ASSUME NEW grant \in wrapped, AddKey(grant) PROVE StreamInv'
  <2> DEFINE D == DOMAIN reader.keys
             more == [k \in D \cup {grant.key} |-> IF k = grant.key THEN grant ELSE reader.keys[k]]
  <2>1. /\ reader # NoReader /\ reader' = [keys |-> more, last |-> reader.last]
        /\ UNCHANGED <<counter, streamKey, keyFrom, round, published, wrapped, position, told>>
    BY <1>4 DEF AddKey
  <2>2. reader'.keys = more /\ reader'.last = reader.last BY <2>1
  <2>3. ReaderAt /\ InItsRun BY <2>1 DEF StreamInv
  <2>4. \A k \in D : more[k] = reader.keys[k]
    <3>1. \A g \in wrapped : g.key = grant.key => g = grant BY DEF StreamInv, Covers
    <3> QED BY <2>3, <3>1 DEF ReaderAt
  <2>5. DOMAIN more = D \cup {grant.key} /\ more[grant.key] = grant OBVIOUS
  <2> HIDE DEF more
  <2>6. ReaderAt' BY <2>1, <2>2, <2>3, <2>4, <2>5 DEF ReaderAt
  <2>7. OneRun' => OneRun BY <2>2, <2>4, <2>5 DEF OneRun, RunOf
  <2>8. OfItsRun(position) => OfItsRun(position)' BY <2>1, <2>2, <2>4, <2>5 DEF OfItsRun, RunOf
  <2>9. InItsRun' BY <2>1, <2>3, <2>7, <2>8 DEF InItsRun
  <2> QED BY <1>0, <2>1, <2>6, <2>9, ReaderMoves
<1>5. ASSUME NEW no \in DOMAIN published, OpenFrame(no) PROVE StreamInv'
  <2>1. /\ reader # NoReader /\ Opens(published[no])
        /\ reader' = [keys |-> reader.keys, last |-> published[no].counter] /\ position' = no
        /\ told' = [before |-> position, no |-> no, skipped |-> published[no].counter - reader.last - 1]
        /\ UNCHANGED <<counter, streamKey, keyFrom, round, published, wrapped>>
    BY <1>5 DEF OpenFrame
  <2>2. reader'.keys = reader.keys /\ reader'.last = published[no].counter BY <2>1
  <2>3. told'.before = position /\ told'.no = no /\ told'.skipped = published[no].counter - reader.last - 1 BY <2>1
  <2>4. ReaderAt' BY <1>0, <2>1, <2>2 DEF StreamInv, ReaderAt
  <2>5. OneRun' <=> OneRun BY <2>2 DEF OneRun, RunOf
  <2>6. ASSUME OneRun PROVE /\ OfItsRun(no) /\ no > position
                            /\ position > 0 => published[no].counter - reader.last = no - position
    BY <1>0, <2>1, <2>6, OpensWhatIsNext DEF Opens
  <2>7. OfItsRun(no) => OfItsRun(position)' BY <2>1, <2>2 DEF OfItsRun, RunOf
  <2>8. InItsRun' BY <1>0, <2>3, <2>5, <2>6, <2>7 DEF InItsRun
  <2> QED BY <1>0, <2>1, <2>4, <2>8, ReaderMoves
<1>6. ASSUME NEW no \in 0..Len(published), RewindTo(no) PROVE StreamInv'
  <2>1. /\ reader # NoReader /\ no <= position /\ (no # 0 => published[no].round = round)
        /\ reader' = [keys |-> reader.keys, last |-> IF no = 0 THEN 0 ELSE published[no].counter]
        /\ position' = no /\ told' = NothingTold
        /\ UNCHANGED <<counter, streamKey, keyFrom, round, published, wrapped>>
    BY <1>6 DEF RewindTo
  <2>2. reader'.keys = reader.keys /\ reader'.last = (IF no = 0 THEN 0 ELSE published[no].counter) BY <2>1
  <2>3. ReaderAt' BY <2>1, <2>2 DEF StreamInv, ReaderAt
  <2>4. ASSUME OneRun', no > 0 PROVE OfItsRun(no)
    <3>1. OneRun BY <2>2, <2>4 DEF OneRun, RunOf
    <3>2. position \in 1..Len(published) /\ no \in 1..Len(published) BY <1>0, <2>1, <2>4
    <3>3. OfItsRun(position) BY <1>0, <2>1, <3>1, <3>2 DEF StreamInv, InItsRun
    <3>4. published[no].round <= published[position].round BY <2>1, <3>2 DEF StreamInv, InStep
    <3>5. published[position].round <= round BY <3>2 DEF StreamInv, CountedOn
    <3>6. published[no].round \in Nat /\ published[position].round \in Nat /\ round \in Nat
      BY <3>2, FrameTypes DEF StreamInv, StreamTypes
    <3>7. published[no].round = published[position].round BY <1>0, <2>1, <2>4, <3>4, <3>5, <3>6
    <3> QED BY <3>3, <3>7 DEF OfItsRun
  <2>5. OfItsRun(no) => OfItsRun(position)' BY <2>1, <2>2 DEF OfItsRun, RunOf
  <2>6. InItsRun' BY <2>1, <2>4, <2>5 DEF InItsRun, NothingTold
  <2> QED BY <2>1, <2>3, <2>6, ReaderMoves
<1>7. CASE UNCHANGED streamVars
  <2>1. UNCHANGED <<counter, streamKey, keyFrom, round, published, wrapped, reader, position, told>>
    BY <1>7 DEF streamVars
  <2>2. reader' # NoReader => ReaderAt' /\ InItsRun'
    BY <2>1 DEF StreamInv, ReaderAt, InItsRun, OneRun, OfItsRun, RunOf
  <2> QED BY <1>0, <2>1, <2>2, ReaderMoves
<1> QED BY <1>1, <1>2, <1>3, <1>4, <1>5, <1>6, <1>7, PublishStep, WrapStep DEF StreamNext

\* rotate, wrap_key and StreamReader::open: however many frames, keys and runs of the
\* connector there are and in whatever order frames and grants arrive, a reader with
\* the keys of one run goes forward only, tells every gap as it is, and refuses
\* nothing that is still ahead of it.
THEOREM GapsAreToldTruly == StreamSpec => []GapsToldTruly
<1>1. StreamInv => GapsToldTruly
  <2> SUFFICES ASSUME StreamInv, reader # NoReader, OneRun PROVE GapsToldTruly BY DEF GapsToldTruly
  <2>1. told.before > 0 => told.no > told.before /\ told.skipped = told.no - told.before - 1
    BY DEF StreamInv, InItsRun
  <2>2. DOMAIN published = 1..Len(published) BY FrameTypes DEF StreamInv
  <2> QED BY <2>1, <2>2, OpensWhatIsNext DEF GapsToldTruly
<1> QED BY <1>1, StreamInitially, StreamStep, PTL DEF StreamSpec

-----------------------------------------------------------------------------
\* From a box to the hub.

LogFrames == [time : Nat, read : BoxFrames]

Requests == [since : Nat \cup {Never}, at : Nat]

FeedTypes ==
  /\ boxTime \in Nat /\ ownTime \in Nat
  /\ log \in Seq(LogFrames)
  /\ asking # Never => asking \in Requests
  /\ link # Never => link \in Seq(0..Len(log))
  /\ waiting \in Seq(1..Len(log)) /\ recall \in Seq(1..Len(log)) /\ out \in Seq(1..Len(log))
  /\ newest \in Nat \cup {Never} /\ from \in (Nat \ {0}) \cup {Never}

\* Nothing has come before the first connection.
NothingCame == from = Never => link = Never /\ waiting = <<>> /\ out = <<>> /\ newest = Never

Gap(now, time) == IF now > time THEN now - time ELSE 0

\* What is asked for is the gap up to a frame that was published, and the slack; the
\* newest may have been published since.
AskedOfOut ==
  asking # Never /\ asking.since # Never => \E i \in Members(out) : asking.since = Gap(asking.at, log[i].time) + Slack

\* The newest time published is that of a published frame.
NewestIsOut == newest # Never => \E i \in Members(out) : log[i].time = newest

\* Every frame from a on that is before a frame of s comes before it in s, or is in B.
Ordered(a, s, B) == \A j \in DOMAIN s : \A f \in a..(s[j] - 1) : f \in B \/ \E i \in 1..(j - 1) : s[i] = f

\* What is published, waits and is on its way is in the box's order.
InOrder ==
  /\ Ordered(from, out, {}) /\ Ordered(from, waiting, Members(out))
  /\ link # Never => Ordered(from, link, Members(out) \cup Members(waiting))

AllUnderway ==
  link # Never => \A f \in from..Len(log) : f \in Members(out) \cup Members(waiting) \cup Members(link)

\* What is remembered is the end of what was published.
RecallIsEnd ==
  /\ Len(recall) = IF Len(out) < Dedupe THEN Len(out) ELSE Dedupe
  /\ \A k \in DOMAIN recall : recall[k] = out[Len(out) - Len(recall) + k]

Spaced == \A i, j \in DOMAIN out : i < j /\ out[i] = out[j] => j - i > Dedupe

FeedInv ==
  /\ FeedTypes /\ NothingCame /\ AskedOfOut /\ NewestIsOut /\ InOrder /\ AllUnderway /\ RecallIsEnd /\ Spaced

FeedNats == Slack \in Nat /\ PendingFrames \in Nat /\ Dedupe \in Nat /\ LastBoxTime \in Nat /\ Never \notin Nat

LEMMA FeedConstants == FeedNats
BY FeedAssumption DEF FeedNats

\* Sequences, as what they hold.
LEMMA Appended ==
  ASSUME NEW S, NEW s \in Seq(S), NEW e \in S
  PROVE  /\ Append(s, e) \in Seq(S) /\ Len(Append(s, e)) = Len(s) + 1 /\ DOMAIN Append(s, e) = 1..(Len(s) + 1)
         /\ \A i \in 1..Len(s) : Append(s, e)[i] = s[i]
         /\ Append(s, e)[Len(s) + 1] = e
         /\ Members(Append(s, e)) = Members(s) \cup {e}
         /\ Len(s) \in Nat /\ DOMAIN s = 1..Len(s)
<1> DEFINE t == Append(s, e)
<1>1. /\ t \in Seq(S) /\ Len(t) = Len(s) + 1 /\ DOMAIN t = 1..(Len(s) + 1)
      /\ Len(s) \in Nat /\ DOMAIN s = 1..Len(s)
      /\ t[Len(s) + 1] = e /\ \A i \in 1..Len(s) : t[i] = s[i]
  OBVIOUS
<1> HIDE DEF t
<1>2. Members(t) = Members(s) \cup {e}
  <2>1. \A x : x \in Members(t) <=> \E i \in 1..(Len(s) + 1) : x = t[i] BY <1>1 DEF Members
  <2>2. \A x : x \in Members(s) <=> \E i \in 1..Len(s) : x = s[i] BY <1>1 DEF Members
  <2>3. \A i \in 1..(Len(s) + 1) : i \in 1..Len(s) \/ i = Len(s) + 1 BY <1>1
  <2>4. \A i \in 1..Len(s) : i \in 1..(Len(s) + 1) BY <1>1
  <2>5. Len(s) + 1 \in 1..(Len(s) + 1) BY <1>1
  <2> QED BY <1>1, <2>1, <2>2, <2>3, <2>4, <2>5
<1> QED BY <1>1, <1>2 DEF t

LEMMA Tailed ==
  ASSUME NEW S, NEW s \in Seq(S), s # <<>>
  PROVE  /\ Tail(s) \in Seq(S) /\ Len(Tail(s)) = Len(s) - 1 /\ DOMAIN Tail(s) = 1..(Len(s) - 1)
         /\ Len(s) \in Nat /\ Len(s) # 0 /\ DOMAIN s = 1..Len(s) /\ 1 \in DOMAIN s
         /\ \A i \in 1..(Len(s) - 1) : Tail(s)[i] = s[i + 1] /\ i + 1 \in 1..Len(s)
         /\ Head(s) = s[1] /\ Head(s) \in S
         /\ Members(s) = {Head(s)} \cup Members(Tail(s))
<1> DEFINE t == Tail(s)
<1>1. /\ t \in Seq(S) /\ Len(t) = Len(s) - 1 /\ DOMAIN t = 1..(Len(s) - 1)
      /\ Len(s) \in Nat /\ Len(s) # 0 /\ DOMAIN s = 1..Len(s)
      /\ Head(s) = s[1] /\ \A i \in 1..(Len(s) - 1) : t[i] = s[i + 1]
  OBVIOUS
<1>2. \A i \in 1..(Len(s) - 1) : i + 1 \in 1..Len(s) BY <1>1
<1>3. 1 \in DOMAIN s BY <1>1
<1> HIDE DEF t
<1>4. Members(s) = {Head(s)} \cup Members(t)
  <2>1. \A x : x \in Members(t) <=> \E i \in 1..(Len(s) - 1) : x = t[i] BY <1>1 DEF Members
  <2>2. \A x : x \in Members(s) <=> \E i \in 1..Len(s) : x = s[i] BY <1>1 DEF Members
  <2>3. \A i \in 1..Len(s) : i = 1 \/ (i - 1 \in 1..(Len(s) - 1) /\ (i - 1) + 1 = i) BY <1>1
  <2>4. ASSUME NEW x \in Members(s) PROVE x \in {Head(s)} \cup Members(t)
    <3>1. PICK i \in 1..Len(s) : x = s[i] BY <2>2
    <3>2. CASE i = 1 BY <1>1, <3>1, <3>2
    <3>3. CASE i - 1 \in 1..(Len(s) - 1) /\ (i - 1) + 1 = i
      <4>1. t[i - 1] = s[(i - 1) + 1] BY <1>1, <3>3
      <4>2. t[i - 1] = x BY <3>1, <3>3, <4>1
      <4> QED BY <2>1, <3>3, <4>2
    <3> QED BY <2>3, <3>2, <3>3
  <2>5. ASSUME NEW x \in {Head(s)} \cup Members(t) PROVE x \in Members(s) BY <1>1, <1>2, <1>3, <2>1, <2>2
  <2> QED BY <2>4, <2>5
<1> QED BY <1>1, <1>2, <1>3, <1>4 DEF t

\* A hello is the connection's own, and a frame of the log never is.
LEMMA LogIsRelayed ==
  ASSUME FeedTypes, NEW f \in 0..Len(log)
  PROVE  Consume(f) <=> f = Hello
<1>1. CASE f = Hello BY <1>1 DEF Consume, Read
<1>2. CASE f # Hello
  <2>1. log \in Seq(LogFrames) /\ f \in DOMAIN log BY <1>2 DEF FeedTypes, Hello
  <2>2. log[f] \in LogFrames BY <2>1
  <2>3. log[f].read \in BoxFrames BY <2>2 DEF LogFrames
  <2>4. log[f].read \in [readable : BOOLEAN, kind : STRING \ {"hello"}, atMs : BOOLEAN] BY <2>3, FeedAssumption
  <2>5. log[f].read.kind # "hello" BY <2>4
  <2>6. Read(f) = log[f].read BY <1>2 DEF Read
  <2> QED BY <1>2, <2>5, <2>6 DEF Consume
<1> QED BY <1>1, <1>2

LEMMA FeedInitially == FeedInit => FeedInv
<1> SUFFICES ASSUME FeedInit PROVE FeedInv OBVIOUS
<1>1. FeedNats BY FeedConstants
<1>2. /\ boxTime \in 0..LastBoxTime /\ ownTime \in 0..LastBoxTime
      /\ log = <<>> /\ asking = Never /\ link = Never /\ waiting = <<>> /\ recall = <<>>
      /\ newest = Never /\ out = <<>> /\ from = Never
  BY DEF FeedInit
<1>3. Len(log) = 0 /\ DOMAIN log = {} /\ DOMAIN waiting = {} /\ DOMAIN recall = {} /\ DOMAIN out = {} /\ Len(out) = 0
      /\ Len(recall) = 0
  BY <1>2
<1>4. FeedTypes
  <2>1. boxTime \in Nat /\ ownTime \in Nat BY <1>1, <1>2 DEF FeedNats
  <2>2. <<>> \in Seq(LogFrames) /\ <<>> \in Seq(1..0) OBVIOUS
  <2> QED BY <1>2, <1>3, <2>1, <2>2 DEF FeedTypes
<1>5. RecallIsEnd BY <1>1, <1>3 DEF RecallIsEnd, FeedNats
<1> QED BY <1>2, <1>3, <1>4, <1>5 DEF FeedInv, NothingCame, AskedOfOut, NewestIsOut, InOrder, Ordered, AllUnderway, Spaced

LEMMA OrderedAppend ==
  ASSUME NEW s \in Seq(Nat), NEW e \in Nat, NEW a \in Nat, NEW B, Ordered(a, s, B),
         \A f \in a..(e - 1) : f \in B \cup Members(s)
  PROVE  Ordered(a, Append(s, e), B)
<1> DEFINE t == Append(s, e)
<1>1. /\ t \in Seq(Nat) /\ Len(t) = Len(s) + 1 /\ DOMAIN t = 1..(Len(s) + 1)
      /\ \A i \in 1..Len(s) : t[i] = s[i]
      /\ t[Len(s) + 1] = e /\ Len(s) \in Nat /\ DOMAIN s = 1..Len(s)
  BY Appended
<1> HIDE DEF t
<1>2. SUFFICES ASSUME NEW j \in DOMAIN t, NEW f \in a..(t[j] - 1), f \notin B
      PROVE \E i \in 1..(j - 1) : t[i] = f
  BY DEF Ordered, t
<1>3. CASE j \in 1..Len(s)
  <2>1. t[j] = s[j] BY <1>1, <1>3
  <2>2. PICK i \in 1..(j - 1) : s[i] = f BY <1>1, <1>2, <1>3, <2>1 DEF Ordered
  <2>3. i \in 1..Len(s) BY <1>1, <1>3
  <2> QED BY <1>1, <2>2, <2>3
<1>4. CASE j = Len(s) + 1
  <2>1. f \in Members(s) BY <1>1, <1>2, <1>4
  <2>2. PICK i \in 1..Len(s) : s[i] = f BY <1>1, <2>1 DEF Members
  <2>3. i \in 1..(j - 1) /\ t[i] = f BY <1>1, <1>4, <2>2
  <2> QED BY <2>3
<1>5. j \in 1..Len(s) \/ j = Len(s) + 1 BY <1>1, <1>2
<1> QED BY <1>3, <1>4, <1>5

LEMMA OrderedTail ==
  ASSUME NEW s \in Seq(Nat), s # <<>>, NEW a \in Nat, a # 0, NEW B, NEW D, Ordered(a, s, B),
         B \cup {Head(s)} \subseteq D \cup {0}
  PROVE  Ordered(a, Tail(s), D)
<1> DEFINE t == Tail(s)
<1>1. /\ DOMAIN t = 1..(Len(s) - 1)
      /\ Len(s) \in Nat /\ Len(s) # 0 /\ DOMAIN s = 1..Len(s)
      /\ \A i \in 1..(Len(s) - 1) : t[i] = s[i + 1] /\ i + 1 \in 1..Len(s)
      /\ Head(s) = s[1]
  BY Tailed
<1> HIDE DEF t
<1>2. SUFFICES ASSUME NEW j \in DOMAIN t, NEW f \in a..(t[j] - 1), f \notin D
      PROVE \E i \in 1..(j - 1) : t[i] = f
  BY DEF Ordered, t
<1>3. f \notin B /\ f # Head(s)
  <2>1. s[j + 1] \in Nat /\ t[j] = s[j + 1] BY <1>1, <1>2
  <2>2. f # 0 BY <1>2, <2>1
  <2> QED BY <1>2, <2>2
<1>4. j + 1 \in DOMAIN s /\ f \in a..(s[j + 1] - 1) BY <1>1, <1>2
<1>5. PICK i \in 1..((j + 1) - 1) : s[i] = f BY <1>3, <1>4 DEF Ordered
<1>6. i # 1 BY <1>1, <1>3, <1>5
<1>7. i - 1 \in 1..(j - 1) /\ i - 1 \in 1..(Len(s) - 1) /\ (i - 1) + 1 = i BY <1>1, <1>2, <1>5, <1>6
<1>8. t[i - 1] = s[(i - 1) + 1] BY <1>1, <1>7
<1>9. t[i - 1] = f BY <1>5, <1>7, <1>8
<1> QED BY <1>7, <1>9

LEMMA OrderedHead ==
  ASSUME NEW s \in Seq(Nat), s # <<>>, NEW a \in Nat, NEW B, Ordered(a, s, B)
  PROVE  \A f \in a..(Head(s) - 1) : f \in B
<1>1. 1 \in DOMAIN s /\ Head(s) = s[1] BY Tailed
<1>2. \A f \in a..(s[1] - 1) : f \in B \/ \E i \in 1..(1 - 1) : s[i] = f BY <1>1 DEF Ordered
<1> QED BY <1>1, <1>2

LEMMA OrderedWidens ==
  ASSUME NEW a, NEW s, NEW B, NEW D, Ordered(a, s, B), B \subseteq D
  PROVE  Ordered(a, s, D)
BY DEF Ordered

\* The sequences of the feed, as numbers.
LEMMA FeedSeqs ==
  ASSUME FeedTypes
  PROVE  /\ Len(log) \in Nat /\ DOMAIN log = 1..Len(log)
         /\ waiting \in Seq(Nat) /\ recall \in Seq(Nat) /\ out \in Seq(Nat)
         /\ link # Never => link \in Seq(Nat)
         /\ \A i \in DOMAIN log : log[i].time \in Nat
         /\ Members(out) \subseteq DOMAIN log /\ Members(waiting) \subseteq DOMAIN log
<1>1. Len(log) \in Nat /\ DOMAIN log = 1..Len(log) BY DEF FeedTypes
<1>2. waiting \in Seq(1..Len(log)) /\ recall \in Seq(1..Len(log)) /\ out \in Seq(1..Len(log)) BY DEF FeedTypes
<1>3. waiting \in Seq(Nat) /\ recall \in Seq(Nat) /\ out \in Seq(Nat) BY <1>1, <1>2
<1>4. link # Never => link \in Seq(Nat) BY <1>1 DEF FeedTypes
<1>5. ASSUME NEW i \in DOMAIN log PROVE log[i].time \in Nat
  <2>1. log[i] \in LogFrames BY <1>5 DEF FeedTypes
  <2> QED BY <2>1 DEF LogFrames
<1>6. Members(out) \subseteq DOMAIN log /\ Members(waiting) \subseteq DOMAIN log BY <1>1, <1>2 DEF Members
<1> QED BY <1>1, <1>3, <1>4, <1>5, <1>6

LEMMA HandsOver ==
  ASSUME FeedInv, HandOver
  PROVE  FeedInv'
<1> DEFINE h == Head(link)
<1>1. FeedNats BY FeedConstants
<1>2. FeedTypes /\ NothingCame /\ AskedOfOut /\ NewestIsOut /\ InOrder /\ AllUnderway /\ RecallIsEnd /\ Spaced BY DEF FeedInv
<1>3. link # Never /\ link # <<>> /\ link' = Tail(link)
      /\ boxTime' = boxTime /\ ownTime' = ownTime /\ log' = log /\ asking' = asking /\ recall' = recall
      /\ newest' = newest /\ out' = out /\ from' = from
  BY DEF HandOver
<1>4. from \in Nat /\ from # 0 BY <1>2, <1>3 DEF NothingCame, FeedTypes
<1>5. link \in Seq(0..Len(log)) /\ link \in Seq(Nat) /\ waiting \in Seq(1..Len(log)) /\ waiting \in Seq(Nat)
      /\ Len(log) \in Nat
  BY <1>2, <1>3, FeedSeqs DEF FeedTypes
<1>6. /\ Tail(link) \in Seq(0..Len(log)) /\ h \in 0..Len(log)
      /\ Members(link) = {h} \cup Members(Tail(link))
  BY <1>3, <1>5, Tailed
<1>7. link' # Never => link' \in Seq(0..Len(log)) BY <1>3, <1>6
<1>8. Ordered(from, waiting, Members(out)) /\ Ordered(from, link, Members(out) \cup Members(waiting))
      /\ Ordered(from, out, {})
  BY <1>2, <1>3 DEF InOrder
<1>9. \A f \in from..Len(log) : f \in Members(out) \cup Members(waiting) \cup Members(link)
  BY <1>2, <1>3 DEF AllUnderway
<1>10. /\ waiting' \in Seq(1..Len(log)) /\ Ordered(from, waiting', Members(out))
       /\ Members(waiting) \cup {h} \subseteq Members(waiting') \cup {0}
  <2>1. CASE Consume(h)
    <3>1. waiting' = waiting BY <2>1 DEF HandOver
    <3>2. h = 0 BY <1>2, <1>6, <2>1, LogIsRelayed DEF Hello
    <3> QED BY <1>5, <1>8, <3>1, <3>2
  <2>2. CASE ~Consume(h)
    <3>1. waiting' = Append(waiting, h) BY <2>2 DEF HandOver
    <3>2. h # 0 BY <1>2, <1>6, <2>2, LogIsRelayed DEF Hello
    <3>3. h \in 1..Len(log) /\ h \in Nat BY <1>5, <1>6, <3>2
    <3>4. Append(waiting, h) \in Seq(1..Len(log)) BY <1>5, <3>3, Appended
    <3>5. Members(Append(waiting, h)) = Members(waiting) \cup {h} BY <1>5, <3>3, Appended
    <3>6. \A f \in from..(h - 1) : f \in Members(out) \cup Members(waiting) BY <1>3, <1>4, <1>5, <1>8, OrderedHead
    <3>7. Ordered(from, Append(waiting, h), Members(out)) BY <1>4, <1>5, <1>8, <3>3, <3>6, OrderedAppend
    <3> QED BY <3>1, <3>4, <3>5, <3>7
  <2> QED BY <2>1, <2>2
<1>11. Ordered(from, Tail(link), Members(out) \cup Members(waiting'))
  <2>1. (Members(out) \cup Members(waiting)) \cup {h} \subseteq (Members(out) \cup Members(waiting')) \cup {0} BY <1>10
  <2> QED BY <1>3, <1>4, <1>5, <1>8, <2>1, OrderedTail
<1>12. ASSUME NEW f \in from..Len(log) PROVE f \in Members(out) \cup Members(waiting') \cup Members(Tail(link))
  <2>1. f # 0 BY <1>4, <1>5
  <2> QED BY <1>6, <1>9, <1>10, <2>1
<1> HIDE DEF h
<1>13. FeedTypes' BY <1>2, <1>3, <1>7, <1>10 DEF FeedTypes
<1>14. NothingCame' BY <1>1, <1>3, <1>4 DEF NothingCame, FeedNats
<1>15. InOrder' BY <1>3, <1>8, <1>10, <1>11 DEF InOrder
<1>16. AllUnderway' BY <1>3, <1>12 DEF AllUnderway
<1>17. AskedOfOut' /\ NewestIsOut' /\ RecallIsEnd' /\ Spaced'
  BY <1>2, <1>3 DEF AskedOfOut, NewestIsOut, RecallIsEnd, Spaced, Members
<1> QED BY <1>13, <1>14, <1>15, <1>16, <1>17 DEF FeedInv

LEMMA Happened ==
  ASSUME FeedInv, NEW frame \in BoxFrames, Happens(frame)
  PROVE  FeedInv'
<1> DEFINE n == Len(log)
           e == [time |-> boxTime, read |-> frame]
<1>1. FeedNats BY FeedConstants
<1>2. FeedTypes /\ NothingCame /\ AskedOfOut /\ NewestIsOut /\ InOrder /\ AllUnderway /\ RecallIsEnd /\ Spaced BY DEF FeedInv
<1>3. log' = Append(log, e) /\ link' = (IF link = Never THEN Never ELSE Append(link, n + 1))
      /\ boxTime' = boxTime /\ ownTime' = ownTime /\ asking' = asking /\ waiting' = waiting /\ recall' = recall
      /\ newest' = newest /\ out' = out /\ from' = from
  BY DEF Happens
<1>4. e \in LogFrames /\ log \in Seq(LogFrames) /\ e.time = boxTime BY <1>2 DEF FeedTypes, LogFrames
<1> HIDE DEF e
<1>5. /\ Append(log, e) \in Seq(LogFrames) /\ Len(Append(log, e)) = n + 1 /\ DOMAIN Append(log, e) = 1..(n + 1)
      /\ \A i \in 1..n : Append(log, e)[i] = log[i]
      /\ Append(log, e)[n + 1] = e /\ n \in Nat /\ DOMAIN log = 1..n
  BY <1>4, Appended
<1>6. /\ log' \in Seq(LogFrames) /\ Len(log') = n + 1 /\ DOMAIN log' = 1..(n + 1)
      /\ \A i \in 1..n : log'[i] = log[i]
      /\ log'[n + 1].time = boxTime /\ n \in Nat /\ DOMAIN log = 1..n
  BY <1>3, <1>4, <1>5
<1>7. /\ Members(out) \subseteq 1..n /\ Members(waiting) \subseteq 1..n /\ \A i \in 1..n : log[i].time \in Nat
      /\ link # Never => link \in Seq(Nat)
  BY <1>2, <1>6, FeedSeqs
<1> HIDE DEF n
<1>8. /\ waiting' \in Seq(1..(n + 1)) /\ recall' \in Seq(1..(n + 1)) /\ out' \in Seq(1..(n + 1))
      /\ link # Never => link \in Seq(0..(n + 1))
  <2>1. /\ waiting \in Seq(1..n) /\ recall \in Seq(1..n) /\ out \in Seq(1..n)
        /\ link # Never => link \in Seq(0..n)
    BY <1>2 DEF FeedTypes, n
  <2>2. ASSUME NEW s \in Seq(1..n) PROVE s \in Seq(1..(n + 1)) BY <1>6
  <2>3. ASSUME NEW s \in Seq(0..n) PROVE s \in Seq(0..(n + 1)) BY <1>6
  <2> QED BY <1>3, <2>1, <2>2, <2>3
<1>9. link' # Never => link # Never BY <1>3
<1>10. ASSUME link # Never
       PROVE  /\ link' \in Seq(0..(n + 1)) /\ Members(link') = Members(link) \cup {n + 1}
              /\ Ordered(from, link', Members(out) \cup Members(waiting))
              /\ \A f \in from..(n + 1) : f \in Members(out) \cup Members(waiting) \cup Members(link')
  <2>1. link' = Append(link, n + 1) BY <1>3, <1>10
  <2>2. link \in Seq(0..(n + 1)) /\ n + 1 \in 0..(n + 1) /\ link \in Seq(Nat) /\ n + 1 \in Nat BY <1>6, <1>7, <1>8, <1>10
  <2>3. Append(link, n + 1) \in Seq(0..(n + 1)) /\ Members(Append(link, n + 1)) = Members(link) \cup {n + 1}
    BY <2>2, Appended
  <2>4. from \in Nat BY <1>2, <1>10 DEF NothingCame, FeedTypes
  <2>5. \A f \in from..n : f \in Members(out) \cup Members(waiting) \cup Members(link)
    BY <1>2, <1>10 DEF AllUnderway, n
  <2>6. \A f \in from..((n + 1) - 1) : f \in (Members(out) \cup Members(waiting)) \cup Members(link)
    <3>1. (n + 1) - 1 = n BY <1>6
    <3> QED BY <2>5, <3>1
  <2>7. Ordered(from, link, Members(out) \cup Members(waiting)) BY <1>2, <1>10 DEF InOrder
  <2>8. Ordered(from, Append(link, n + 1), Members(out) \cup Members(waiting))
    BY <2>2, <2>4, <2>6, <2>7, OrderedAppend
  <2>9. \A f \in from..(n + 1) : f \in from..n \/ f = n + 1 BY <1>6, <2>4
  <2> QED BY <2>1, <2>3, <2>5, <2>8, <2>9
<1>11. FeedTypes' BY <1>2, <1>3, <1>6, <1>8, <1>9, <1>10 DEF FeedTypes
<1>12. NothingCame' BY <1>2, <1>3 DEF NothingCame
<1>13. AskedOfOut'
  <2> SUFFICES ASSUME asking # Never, asking.since # Never
      PROVE \E i \in Members(out) : asking.since = Gap(asking.at, log'[i].time) + Slack
    BY <1>3 DEF AskedOfOut, Members
  <2>1. PICK i \in Members(out) : asking.since = Gap(asking.at, log[i].time) + Slack BY <1>2 DEF AskedOfOut
  <2>2. log'[i] = log[i] BY <1>6, <1>7, <2>1
  <2> QED BY <2>1, <2>2
<1>14. NewestIsOut'
  <2> SUFFICES ASSUME newest # Never PROVE \E i \in Members(out) : log'[i].time = newest BY <1>3 DEF NewestIsOut, Members
  <2>1. PICK i \in Members(out) : log[i].time = newest BY <1>2 DEF NewestIsOut
  <2> QED BY <1>6, <1>7, <2>1
<1>15. InOrder' BY <1>2, <1>3, <1>9, <1>10 DEF InOrder
<1>16. AllUnderway' BY <1>3, <1>6, <1>9, <1>10 DEF AllUnderway
<1>17. RecallIsEnd' /\ Spaced' BY <1>2, <1>3 DEF RecallIsEnd, Spaced
<1> QED BY <1>11, <1>12, <1>13, <1>14, <1>15, <1>16, <1>17 DEF FeedInv

LEMMA Passed ==
  ASSUME FeedInv, Pass
  PROVE  FeedInv'
<1>1. FeedNats BY FeedConstants
<1>2. FeedTypes /\ NothingCame /\ AskedOfOut /\ NewestIsOut /\ InOrder /\ AllUnderway /\ RecallIsEnd /\ Spaced BY DEF FeedInv
<1>3. asking' = [since |-> Since(ownTime), at |-> ownTime]
      /\ UNCHANGED <<boxTime, ownTime, log, link, waiting, recall, newest, out, from>>
  BY DEF Pass
<1>4. \A i \in DOMAIN log : log[i].time \in Nat BY <1>2, FeedSeqs
<1>5. Members(out) \subseteq DOMAIN log BY <1>2, FeedSeqs
<1>6. Since(ownTime) = IF newest = Never THEN Never ELSE Gap(ownTime, newest) + Slack BY DEF Since, Gap
<1>7. newest # Never => newest \in Nat /\ Gap(ownTime, newest) \in Nat /\ Gap(ownTime, newest) + Slack \in Nat
  BY <1>1, <1>2 DEF FeedTypes, FeedNats, Gap
<1>8. asking' \in Requests BY <1>2, <1>3, <1>6, <1>7 DEF Requests, FeedTypes
<1>9. asking'.since = Since(ownTime) /\ asking'.at = ownTime BY <1>3
<1>10. FeedTypes' BY <1>2, <1>3, <1>8 DEF FeedTypes
<1>11. AskedOfOut'
  <2> SUFFICES ASSUME asking'.since # Never
      PROVE \E i \in Members(out) : asking'.since = Gap(asking'.at, log[i].time) + Slack
    BY <1>3 DEF AskedOfOut, Members
  <2>1. newest # Never /\ asking'.since = Gap(ownTime, newest) + Slack BY <1>6, <1>9
  <2>2. PICK i \in Members(out) : log[i].time = newest BY <1>2, <2>1 DEF NewestIsOut
  <2> QED BY <1>9, <2>1, <2>2
<1>12. NothingCame' /\ InOrder' BY <1>2, <1>3 DEF NothingCame, InOrder
<1>13. NewestIsOut' /\ AllUnderway' /\ RecallIsEnd' /\ Spaced'
  BY <1>2, <1>3 DEF NewestIsOut, AllUnderway, RecallIsEnd, Spaced, Members
<1> QED BY <1>10, <1>11, <1>12, <1>13 DEF FeedInv

\* What was asked for reaches back past every frame the slack is enough for.
LEMMA ReachesBack ==
  ASSUME NEW time \in Nat, NEW later \in Nat, NEW box \in Nat, NEW at \in Nat, NEW slack \in Nat,
         (box - at) + (IF time > later THEN time - later ELSE 0) <= slack
  PROVE  later >= box - (Gap(at, time) + slack)
<1>1. CASE at > time BY <1>1 DEF Gap
<1>2. CASE ~ at > time BY <1>2 DEF Gap
<1> QED BY <1>1, <1>2

LEMMA Opened ==
  ASSUME FeedInv, OpenEvents
  PROVE  FeedInv'
<1>1. FeedNats BY FeedConstants
<1>2. FeedTypes /\ NothingCame /\ AskedOfOut /\ NewestIsOut /\ InOrder /\ AllUnderway /\ RecallIsEnd /\ Spaced BY DEF FeedInv
<1>3. boxTime' = boxTime /\ ownTime' = ownTime /\ log' = log /\ waiting' = waiting /\ recall' = recall /\ newest' = newest
      /\ out' = out /\ asking # Never /\ asking' = Never
  BY DEF OpenEvents
<1>4. /\ Len(log) \in Nat /\ DOMAIN log = 1..Len(log) /\ waiting \in Seq(Nat) /\ out \in Seq(Nat)
      /\ \A i \in DOMAIN log : log[i].time \in Nat
      /\ Members(out) \subseteq DOMAIN log /\ Members(waiting) \subseteq DOMAIN log
  BY <1>2, FeedSeqs
<1>5. AskedOfOut' /\ NewestIsOut' /\ RecallIsEnd' /\ Spaced'
  BY <1>2, <1>3 DEF AskedOfOut, NewestIsOut, RecallIsEnd, Spaced, Members
<1>6. Hello = 0 /\ <<0>> \in Seq(Nat) /\ <<0>> \in Seq(0..Len(log)) /\ DOMAIN <<0>> = {1} /\ <<0>>[1] = 0
  BY <1>4 DEF Hello
<1>7. PICK r \in SomeOfLog : /\ IF asking.since = Never THEN r = <<>> ELSE Replay(r, boxTime - asking.since)
                             /\ link' = <<Hello>> \o r
  BY DEF OpenEvents
<1>8. PICK m \in 0..Len(log) : r \in [1..m -> DOMAIN log] BY <1>7 DEF SomeOfLog
<1>9. r \in Seq(DOMAIN log) /\ Len(r) = m /\ DOMAIN r = 1..m /\ m \in Nat BY <1>4, <1>8
<1>10. r \in Seq(0..Len(log)) BY <1>4, <1>9
<1> DEFINE l == <<0>> \o r
<1>11. /\ l \in Seq(0..Len(log)) /\ DOMAIN l = 1..(m + 1) /\ l[1] = 0
       /\ \A i \in 1..m : l[i + 1] = r[i]
  <2>1. l \in Seq(0..Len(log)) BY <1>6, <1>10
  <2>2. Len(l) = m + 1 /\ l[1] = 0 BY <1>6, <1>9, <1>10
  <2>3. \A i \in 1..m : l[i + 1] = r[i] BY <1>6, <1>9, <1>10
  <2> QED BY <2>1, <2>2, <2>3
<1>12. link' = l BY <1>6, <1>7
<1> HIDE DEF l
<1>13. CASE ~(asking.since # Never /\ SlackIsEnough)
  <2> DEFINE n == Len(log) + 1
  <2>1. from' = n BY <1>13 DEF OpenEvents
  <2>2. n \in Nat /\ n # 0 /\ n # Never BY <1>1, <1>4 DEF FeedNats
  <2>3. ASSUME NEW B PROVE Ordered(n, out, B) /\ Ordered(n, waiting, B) /\ Ordered(n, l, B)
    <3>1. ASSUME NEW x \in 0..Len(log) PROVE n..(x - 1) = {} BY <1>4
    <3>2. \A j \in DOMAIN out : out[j] \in 0..Len(log) BY <1>4 DEF Members
    <3>3. \A j \in DOMAIN waiting : waiting[j] \in 0..Len(log) BY <1>4 DEF Members
    <3>4. \A j \in DOMAIN l : l[j] \in 0..Len(log) BY <1>11
    <3> HIDE DEF n
    <3> QED BY <3>1, <3>2, <3>3, <3>4 DEF Ordered
  <2>4. n..Len(log) = {} BY <1>4
  <2> HIDE DEF n
  <2>5. FeedTypes' BY <1>2, <1>3, <1>11, <1>12, <2>1, <2>2 DEF FeedTypes
  <2>6. NothingCame' BY <2>1, <2>2 DEF NothingCame
  <2>7. InOrder' BY <1>3, <1>12, <2>1, <2>3 DEF InOrder
  <2>8. AllUnderway' BY <1>3, <2>1, <2>4 DEF AllUnderway
  <2> QED BY <1>5, <2>5, <2>6, <2>7, <2>8 DEF FeedInv
<1>14. CASE asking.since # Never /\ SlackIsEnough
  <2> DEFINE cut == boxTime - asking.since
             B == Members(out) \cup Members(waiting)
  <2>1. Replay(r, cut) BY <1>7, <1>14
  <2>2. from' = from BY <1>14 DEF OpenEvents
  <2>3. PICK i \in Members(out) : asking.since = Gap(asking.at, log[i].time) + Slack BY <1>2, <1>3, <1>14 DEF AskedOfOut
  <2>4. PICK k \in DOMAIN out : out[k] = i BY <2>3 DEF Members
  <2>5. from \in Nat /\ from # 0
    <3>1. out # <<>> BY <2>4
    <3> QED BY <1>2, <3>1 DEF NothingCame, FeedTypes
  <2>6. ASSUME NEW f \in from..Len(log), f \notin B PROVE \E x \in 1..m : r[x] = f
    <3>1. i \in DOMAIN log /\ i \in Nat /\ f \in DOMAIN log /\ f \in Nat BY <1>4, <2>3, <2>5, <2>6
    <3>2. i # f BY <2>3, <2>6
    <3>3. ~ f < i
      <4> SUFFICES ASSUME f < i PROVE FALSE OBVIOUS
      <4>1. f \in from..(out[k] - 1) BY <1>4, <2>4, <2>5, <2>6, <3>1
      <4>2. PICK x \in 1..(k - 1) : out[x] = f BY <1>2, <2>4, <4>1 DEF InOrder, Ordered
      <4>3. DOMAIN out = 1..Len(out) /\ Len(out) \in Nat BY <1>4
      <4>4. x \in DOMAIN out BY <2>4, <4>2, <4>3
      <4>5. f \in Members(out) BY <4>2, <4>4 DEF Members
      <4> QED BY <2>6, <4>5
    <3>4. i < f BY <3>1, <3>2, <3>3
    <3>5. Ahead + SetBack(i, f) <= Slack BY <1>14, <2>3, <3>1, <3>4 DEF SlackIsEnough
    <3>6. asking.at \in Nat /\ boxTime \in Nat /\ Slack \in Nat /\ log[f].time \in Nat /\ log[i].time \in Nat
      BY <1>1, <1>2, <1>3, <1>4, <3>1 DEF FeedTypes, FeedNats, Requests
    <3>7. (boxTime - asking.at) + (IF log[i].time > log[f].time THEN log[i].time - log[f].time ELSE 0) <= Slack
      BY <3>5 DEF Ahead, SetBack
    <3>8. log[f].time >= boxTime - (Gap(asking.at, log[i].time) + Slack) BY <3>6, <3>7, ReachesBack
    <3>9. log[f].time >= cut BY <2>3, <3>8
    <3> HIDE DEF cut
    <3>10. f \in Members(r) BY <2>1, <3>1, <3>9 DEF Replay
    <3> QED BY <1>9, <3>10 DEF Members
  <2>7. \A x, j \in 1..m : x < j => r[x] < r[j] BY <1>9, <2>1 DEF Replay
  <2>8. \A x \in 1..m : r[x] \in Nat /\ r[x] <= Len(log) BY <1>4, <1>8
  <2> HIDE DEF cut, B
  <2>9. Ordered(from, l, B)
    <3> SUFFICES ASSUME NEW j \in 1..(m + 1), NEW f \in from..(l[j] - 1), f \notin B PROVE \E x \in 1..(j - 1) : l[x] = f
      BY <1>11 DEF Ordered
    <3>1. j # 1 BY <1>11, <2>5
    <3>2. j - 1 \in 1..m /\ (j - 1) + 1 = j BY <1>9, <3>1
    <3>3. l[(j - 1) + 1] = r[j - 1] BY <1>11, <3>2
    <3>4. l[j] = r[j - 1] BY <3>2, <3>3
    <3>5. f \in from..Len(log) /\ f < r[j - 1] /\ f \in Nat BY <1>4, <2>5, <2>8, <3>2, <3>4
    <3>6. PICK x \in 1..m : r[x] = f BY <2>6, <3>5
    <3>7. ~ j - 1 < x
      <4> SUFFICES ASSUME j - 1 < x PROVE FALSE OBVIOUS
      <4>1. r[j - 1] < r[x] BY <2>7, <3>2
      <4> QED BY <2>8, <3>2, <3>5, <3>6, <4>1
    <3>8. x # j - 1 BY <2>8, <3>2, <3>5, <3>6
    <3>9. x + 1 \in 1..(j - 1) BY <1>9, <3>2, <3>7, <3>8
    <3> QED BY <1>11, <3>6, <3>9
  <2>10. ASSUME NEW f \in from..Len(log), f \notin B PROVE f \in Members(l)
    <3>1. PICK x \in 1..m : r[x] = f BY <2>6, <2>10
    <3>2. x + 1 \in DOMAIN l /\ l[x + 1] = f BY <1>9, <1>11, <3>1
    <3> QED BY <3>2 DEF Members
  <2>11. FeedTypes' BY <1>2, <1>3, <1>11, <1>12, <2>2 DEF FeedTypes
  <2>12. NothingCame' BY <1>1, <2>2, <2>5 DEF NothingCame, FeedNats
  <2>13. InOrder' BY <1>2, <1>3, <1>12, <2>2, <2>9 DEF InOrder, B
  <2>14. AllUnderway' BY <1>3, <1>12, <2>2, <2>10 DEF AllUnderway, B
  <2> QED BY <1>5, <2>11, <2>12, <2>13, <2>14 DEF FeedInv
<1> QED BY <1>13, <1>14

\* What is remembered after one more, of a sequence and its end.
LEMMA Remembers ==
  ASSUME FeedTypes, RecallIsEnd, NEW f \in 1..Len(log), out' = Append(out, f), recall' = Remembered(f)
  PROVE  recall' \in Seq(1..Len(log)) /\ RecallIsEnd'
<1> DEFINE n == Len(out)
           k == Len(recall)
           more == Append(recall, f)
<1>1. FeedNats BY FeedConstants
<1>2. out \in Seq(1..Len(log)) /\ recall \in Seq(1..Len(log)) BY DEF FeedTypes
<1>3. /\ Len(out') = n + 1 /\ DOMAIN out' = 1..(n + 1) /\ n \in Nat
      /\ \A i \in 1..n : out'[i] = out[i]
      /\ out'[n + 1] = f
  BY <1>2, Appended
<1>4. /\ more \in Seq(1..Len(log)) /\ Len(more) = k + 1 /\ DOMAIN more = 1..(k + 1) /\ k \in Nat
      /\ \A i \in 1..k : more[i] = recall[i]
      /\ more[k + 1] = f /\ DOMAIN recall = 1..k
  BY <1>2, Appended
<1>5. /\ k = IF n < Dedupe THEN n ELSE Dedupe
      /\ \A i \in 1..k : recall[i] = out[n - k + i]
  BY <1>4 DEF RecallIsEnd
<1>6. k <= n BY <1>1, <1>3, <1>5 DEF FeedNats
<1>7. recall' = IF Len(more) > Dedupe THEN Tail(more) ELSE more BY DEF Remembered
<1> HIDE DEF n, k, more
<1>8. \A i \in 1..(k + 1) : more[i] = out'[n - k + i]
  <2> TAKE i \in 1..(k + 1)
  <2>1. CASE i \in 1..k
    <3>1. n - k + i \in 1..n BY <1>3, <1>4, <1>6, <2>1
    <3> QED BY <1>3, <1>4, <1>5, <2>1, <3>1
  <2>2. CASE i = k + 1
    <3>1. n - k + i = n + 1 BY <1>3, <1>4, <2>2
    <3> QED BY <1>3, <1>4, <2>2, <3>1
  <2>3. i \in 1..k \/ i = k + 1 BY <1>4
  <2> QED BY <2>1, <2>2, <2>3
<1>9. CASE k + 1 > Dedupe
  <2>1. recall' = Tail(more) BY <1>4, <1>7, <1>9
  <2>2. k = Dedupe BY <1>1, <1>3, <1>5, <1>9 DEF FeedNats
  <2>3. more # <<>> BY <1>4
  <2>4. /\ Tail(more) \in Seq(1..Len(log)) /\ Len(Tail(more)) = Len(more) - 1 /\ DOMAIN Tail(more) = 1..(Len(more) - 1)
        /\ \A i \in 1..(Len(more) - 1) : Tail(more)[i] = more[i + 1] /\ i + 1 \in 1..Len(more)
    BY <1>4, <2>3, Tailed
  <2>5. Len(more) - 1 = k BY <1>4
  <2>6. recall' \in Seq(1..Len(log)) /\ Len(recall') = k /\ DOMAIN recall' = 1..k BY <2>1, <2>4, <2>5
  <2>7. ASSUME NEW i \in 1..k PROVE recall'[i] = out'[(n + 1) - k + i]
    <3>1. recall'[i] = more[i + 1] /\ i + 1 \in 1..(k + 1) BY <1>4, <2>1, <2>4, <2>5, <2>7
    <3>2. n - k + (i + 1) = (n + 1) - k + i BY <1>3, <1>4, <2>7
    <3>3. more[i + 1] = out'[n - k + (i + 1)] BY <1>8, <3>1
    <3> QED BY <3>1, <3>2, <3>3
  <2>8. k = IF n + 1 < Dedupe THEN n + 1 ELSE Dedupe BY <1>1, <1>3, <1>6, <2>2 DEF FeedNats
  <2> QED BY <1>3, <2>6, <2>7, <2>8 DEF RecallIsEnd
<1>10. CASE ~ k + 1 > Dedupe
  <2>1. recall' = more BY <1>4, <1>7, <1>10
  <2>2. k = n BY <1>1, <1>3, <1>4, <1>5, <1>10 DEF FeedNats
  <2>3. k + 1 = IF n + 1 < Dedupe THEN n + 1 ELSE Dedupe BY <1>1, <1>3, <1>4, <1>10, <2>2 DEF FeedNats
  <2>4. (n + 1) - (k + 1) = n - k BY <1>3, <1>4
  <2>5. Len(out') - Len(recall') = n - k BY <1>3, <1>4, <2>1, <2>4
  <2>6. DOMAIN recall' = 1..(k + 1) BY <1>4, <2>1
  <2>7. \A i \in DOMAIN recall' : recall'[i] = out'[Len(out') - Len(recall') + i] BY <1>8, <2>1, <2>5, <2>6
  <2> QED BY <1>3, <1>4, <2>1, <2>3, <2>7 DEF RecallIsEnd
<1> QED BY <1>9, <1>10

\* A frame that is not remembered was not among the last published.
LEMMA StaysSpaced ==
  ASSUME FeedTypes, RecallIsEnd, Spaced, NEW f \in 1..Len(log), f \notin Members(recall), out' = Append(out, f)
  PROVE  Spaced'
<1> DEFINE n == Len(out)
           k == Len(recall)
<1>1. FeedNats BY FeedConstants
<1>2. out \in Seq(1..Len(log)) /\ recall \in Seq(1..Len(log)) BY DEF FeedTypes
<1>3. /\ Len(out') = n + 1 /\ DOMAIN out' = 1..(n + 1) /\ n \in Nat /\ DOMAIN out = 1..n
      /\ \A i \in 1..n : out'[i] = out[i]
      /\ out'[n + 1] = f
  BY <1>2, Appended
<1>4. k \in Nat /\ DOMAIN recall = 1..k BY <1>2
<1>5. /\ k = IF n < Dedupe THEN n ELSE Dedupe
      /\ \A i \in 1..k : recall[i] = out[n - k + i]
  BY <1>4 DEF RecallIsEnd
<1>6. \A i, j \in 1..n : i < j /\ out[i] = out[j] => j - i > Dedupe BY <1>3 DEF Spaced
<1>7. \A i \in 1..k : recall[i] # f BY <1>4 DEF Members
<1> HIDE DEF n, k
<1>8. SUFFICES ASSUME NEW i \in 1..(n + 1), NEW j \in 1..(n + 1), i < j, out'[i] = out'[j] PROVE j - i > Dedupe
  BY <1>3 DEF Spaced
<1>9. i \in 1..n /\ (j \in 1..n \/ j = n + 1) BY <1>3, <1>8
<1>10. CASE j \in 1..n BY <1>3, <1>6, <1>8, <1>9, <1>10
<1>11. CASE j = n + 1
  <2> SUFFICES ASSUME ~ (j - i > Dedupe) PROVE FALSE OBVIOUS
  <2>1. i - (n - k) \in 1..k BY <1>1, <1>3, <1>4, <1>5, <1>9, <1>11 DEF FeedNats
  <2>2. n - k + (i - (n - k)) = i BY <1>3, <1>4, <1>9
  <2>3. recall[i - (n - k)] = out[n - k + (i - (n - k))] BY <1>5, <2>1
  <2>4. out[i] = f BY <1>3, <1>8, <1>9, <1>11
  <2> QED BY <1>7, <2>1, <2>2, <2>3, <2>4
<1> QED BY <1>9, <1>10, <1>11

LEMMA Published ==
  ASSUME FeedInv, Publish
  PROVE  FeedInv'
<1> DEFINE h == Head(waiting)
<1>1. FeedNats BY FeedConstants
<1>2. FeedTypes /\ NothingCame /\ AskedOfOut /\ NewestIsOut /\ InOrder /\ AllUnderway /\ RecallIsEnd /\ Spaced BY DEF FeedInv
<1>3. waiting # <<>> /\ waiting' = Tail(waiting)
      /\ boxTime' = boxTime /\ ownTime' = ownTime /\ log' = log /\ asking' = asking /\ link' = link /\ from' = from
  BY DEF Publish
<1>4. from \in Nat /\ from # 0 BY <1>2, <1>3 DEF NothingCame, FeedTypes
<1>5. /\ Len(log) \in Nat /\ DOMAIN log = 1..Len(log) /\ waiting \in Seq(Nat) /\ out \in Seq(Nat)
      /\ \A i \in DOMAIN log : log[i].time \in Nat
      /\ waiting \in Seq(1..Len(log)) /\ out \in Seq(1..Len(log)) /\ recall \in Seq(1..Len(log))
  BY <1>2, FeedSeqs DEF FeedTypes
<1>6. /\ Tail(waiting) \in Seq(1..Len(log)) /\ h \in 1..Len(log)
      /\ Members(waiting) = {h} \cup Members(Tail(waiting))
  BY <1>3, <1>5, Tailed
<1>7. h \in Nat /\ h # 0 /\ h \in 0..Len(log) BY <1>5, <1>6
<1>8. ~Consume(h) BY <1>2, <1>7, LogIsRelayed DEF Hello
<1>9. Ordered(from, out, {}) /\ Ordered(from, waiting, Members(out))
      /\ (link # Never => Ordered(from, link, Members(out) \cup Members(waiting)))
  BY <1>2 DEF InOrder
<1>11. NothingCame' BY <1>1, <1>3, <1>4 DEF NothingCame, FeedNats
<1>12. ASSUME recall' \in Seq(1..Len(log)), out' \in Seq(1..Len(log)), newest' \in Nat \cup {Never},
              Members(out') = Members(out) \cup {h}, Ordered(from, out', {}), NewestIsOut', RecallIsEnd', Spaced'
       PROVE  FeedInv'
  <2>0. AskedOfOut'
    <3>1. \A i \in Members(out) : i \in Members(out') BY <1>12
    <3> QED BY <1>2, <1>3, <3>1 DEF AskedOfOut
  <2>1. FeedTypes' BY <1>2, <1>3, <1>6, <1>12 DEF FeedTypes
  <2>2. Ordered(from, Tail(waiting), Members(out'))
    <3>1. Members(out) \cup {Head(waiting)} \subseteq Members(out') \cup {0} BY <1>12
    <3> QED BY <1>3, <1>4, <1>5, <1>9, <3>1, OrderedTail
  <2>3. Members(out) \cup Members(waiting) = Members(out') \cup Members(Tail(waiting)) BY <1>6, <1>12
  <2> HIDE DEF h
  <2>4. InOrder' BY <1>3, <1>9, <1>12, <2>2, <2>3 DEF InOrder
  <2>5. AllUnderway'
    <3> SUFFICES ASSUME link # Never, NEW f \in from..Len(log)
        PROVE f \in Members(out') \cup Members(Tail(waiting)) \cup Members(link)
      BY <1>3 DEF AllUnderway
    <3>1. f \in Members(out) \cup Members(waiting) \cup Members(link) BY <1>2 DEF AllUnderway
    <3> QED BY <2>3, <3>1
  <2> QED BY <1>11, <1>12, <2>0, <2>1, <2>4, <2>5 DEF FeedInv
<1>13. CASE h \in Members(recall)
  <2>1. recall' = recall /\ newest' = newest /\ out' = out BY <1>13 DEF Publish
  <2>2. h \in Members(out)
    <3>1. PICK i \in DOMAIN recall : recall[i] = h BY <1>13 DEF Members
    <3>2. DOMAIN recall = 1..Len(recall) /\ DOMAIN out = 1..Len(out) /\ Len(recall) \in Nat /\ Len(out) \in Nat BY <1>5
    <3>3. Len(recall) <= Len(out) BY <1>1, <1>2, <3>2 DEF RecallIsEnd, FeedNats
    <3>4. Len(out) - Len(recall) + i \in DOMAIN out BY <3>1, <3>2, <3>3
    <3>5. out[Len(out) - Len(recall) + i] = h BY <1>2, <3>1 DEF RecallIsEnd
    <3> QED BY <3>4, <3>5 DEF Members
  <2>3. NewestIsOut' /\ RecallIsEnd' /\ Spaced' BY <1>2, <1>3, <2>1 DEF NewestIsOut, RecallIsEnd, Spaced, Members
  <2>4. newest \in Nat \cup {Never} BY <1>2 DEF FeedTypes
  <2>5. Members(out') = Members(out) \cup {h} BY <2>1, <2>2
  <2>6. recall' \in Seq(1..Len(log)) /\ out' \in Seq(1..Len(log)) /\ Ordered(from, out', {}) BY <1>5, <1>9, <2>1
  <2>7. newest' \in Nat \cup {Never} BY <2>1, <2>4
  <2> QED BY <1>12, <2>3, <2>5, <2>6, <2>7
<1>14. CASE h \notin Members(recall)
  <2>1. /\ out' = Append(out, h) /\ recall' = Remembered(h)
        /\ newest' = IF Read(h).atMs /\ (newest = Never \/ log[h].time > newest) THEN log[h].time ELSE newest
    BY <1>8, <1>14 DEF Publish
  <2>2. recall' \in Seq(1..Len(log)) /\ RecallIsEnd' BY <1>2, <1>6, <2>1, Remembers
  <2>3. Spaced' BY <1>2, <1>6, <1>14, <2>1, StaysSpaced
  <2>4. out' \in Seq(1..Len(log)) /\ Members(out') = Members(out) \cup {h} BY <1>5, <1>6, <2>1, Appended
  <2>5. Ordered(from, out', {})
    <3>1. \A f \in from..(h - 1) : f \in {} \cup Members(out)
      <4>1. \A f \in from..(h - 1) : f \in Members(out) BY <1>3, <1>4, <1>5, <1>9, OrderedHead
      <4> QED BY <4>1
    <3> QED BY <1>4, <1>5, <1>7, <1>9, <2>1, <3>1, OrderedAppend
  <2>6. newest' \in Nat \cup {Never}
    <3>1. log[h].time \in Nat BY <1>5, <1>6
    <3>2. newest \in Nat \cup {Never} BY <1>2 DEF FeedTypes
    <3> QED BY <2>1, <3>1, <3>2
  <2>7. NewestIsOut'
    <3>1. newest' = log[h].time \/ newest' = newest BY <2>1
    <3> HIDE DEF h
    <3>2. SUFFICES ASSUME newest' # Never PROVE \E i \in Members(out') : log[i].time = newest'
      BY <1>3 DEF NewestIsOut, Members
    <3>3. CASE newest' = log[h].time BY <2>4, <3>3
    <3>4. CASE newest' = newest BY <1>2, <2>4, <3>2, <3>4 DEF NewestIsOut
    <3> QED BY <3>1, <3>3, <3>4
  <2> QED BY <1>12, <2>2, <2>3, <2>4, <2>5, <2>6, <2>7
<1> QED BY <1>13, <1>14

LEMMA FeedStep == FeedInv /\ [FeedNext]_feedVars => FeedInv'
<1> SUFFICES ASSUME FeedInv, [FeedNext]_feedVars PROVE FeedInv' OBVIOUS
<1>1. FeedNats BY FeedConstants
<1>2. FeedTypes /\ NothingCame /\ AskedOfOut /\ NewestIsOut /\ InOrder /\ AllUnderway /\ RecallIsEnd /\ Spaced BY DEF FeedInv
<1>3. ASSUME NEW frame \in BoxFrames, Happens(frame) PROVE FeedInv' BY <1>3, Happened
<1>4. CASE Pass \/ OpenEvents BY <1>4, Passed, Opened
<1>5. CASE HandOver BY <1>5, HandsOver
<1>6. CASE Publish BY <1>6, Published
<1>7. CASE Lost
  <2>1. asking' = Never /\ link' = Never /\ UNCHANGED <<boxTime, ownTime, log, waiting, recall, newest, out, from>>
    BY <1>7 DEF Lost
  <2>2. FeedTypes' BY <1>2, <2>1 DEF FeedTypes
  <2>3. NothingCame' BY <1>2, <2>1 DEF NothingCame
  <2>4. InOrder' BY <1>2, <2>1 DEF InOrder
  <2>5. AskedOfOut' /\ NewestIsOut' /\ AllUnderway' /\ RecallIsEnd' /\ Spaced'
    BY <1>2, <2>1 DEF AskedOfOut, NewestIsOut, AllUnderway, RecallIsEnd, Spaced, Members
  <2> QED BY <2>2, <2>3, <2>4, <2>5 DEF FeedInv
<1>8. CASE Stops
  <2>1. asking' = Never /\ link' = Never /\ waiting' = <<>> /\ recall' = <<>> /\ newest' = Never /\ out' = <<>>
        /\ from' = Never /\ UNCHANGED <<boxTime, ownTime, log>>
    BY <1>8 DEF Stops
  <2>2. DOMAIN waiting' = {} /\ DOMAIN recall' = {} /\ DOMAIN out' = {} /\ Len(out') = 0 /\ Len(recall') = 0 BY <2>1
  <2>3. FeedTypes'
    <3>1. <<>> \in Seq(1..Len(log)) OBVIOUS
    <3> QED BY <1>2, <2>1, <3>1 DEF FeedTypes
  <2>4. NothingCame' /\ NewestIsOut' /\ AllUnderway' BY <2>1 DEF NothingCame, NewestIsOut, AllUnderway
  <2>5. InOrder' BY <2>1, <2>2 DEF InOrder, Ordered
  <2>6. RecallIsEnd' BY <1>1, <2>2 DEF RecallIsEnd, FeedNats
  <2>7. Spaced' BY <2>2 DEF Spaced
  <2>8. AskedOfOut' BY <2>1 DEF AskedOfOut
  <2> QED BY <2>3, <2>4, <2>5, <2>6, <2>7, <2>8 DEF FeedInv
<1>9. CASE TimePasses \/ BoxClockSet \/ OwnClockSet
  <2>1. UNCHANGED <<log, asking, link, waiting, recall, newest, out, from>> BY <1>9 DEF TimePasses, BoxClockSet, OwnClockSet
  <2>2. boxTime' \in Nat /\ ownTime' \in Nat
    BY <1>1, <1>2, <1>9 DEF TimePasses, BoxClockSet, OwnClockSet, FeedTypes, FeedNats
  <2>3. FeedTypes' BY <1>2, <2>1, <2>2 DEF FeedTypes
  <2>4. NothingCame' /\ InOrder' BY <1>2, <2>1 DEF NothingCame, InOrder
  <2>5. AskedOfOut' /\ NewestIsOut' /\ AllUnderway' /\ RecallIsEnd' /\ Spaced'
    BY <1>2, <2>1 DEF AskedOfOut, NewestIsOut, AllUnderway, RecallIsEnd, Spaced, Members
  <2> QED BY <2>3, <2>4, <2>5 DEF FeedInv
<1>10. CASE UNCHANGED feedVars
  <2>1. UNCHANGED <<boxTime, ownTime, log, asking, link, waiting, recall, newest, out, from>> BY <1>10 DEF feedVars
  <2>2. FeedTypes' /\ NothingCame' /\ InOrder' BY <1>2, <2>1 DEF FeedTypes, NothingCame, InOrder
  <2>3. AskedOfOut' /\ NewestIsOut' /\ AllUnderway' /\ RecallIsEnd' /\ Spaced'
    BY <1>2, <2>1 DEF AskedOfOut, NewestIsOut, AllUnderway, RecallIsEnd, Spaced, Members
  <2> QED BY <2>2, <2>3 DEF FeedInv
<1> QED BY <1>3, <1>4, <1>5, <1>6, <1>7, <1>8, <1>9, <1>10 DEF FeedNext

\* Nothing a box said is missed once the connector is connected again, whatever is lost
\* on the way and however the clocks are set, from the last connection asked for before a
\* frame with a time was published and as long as BACKFILL_SLACK covers, at each reconnect,
\* how far the box's clock is ahead when the box is reached and how far it had been set
\* back; what is published is in the box's order, again only after DEDUPE_FRAMES others,
\* and never a hello (run.rs pass and next_frame, serve.rs publish and remember).
THEOREM NothingIsMissed == FeedSpec => []NothingMissed
<1>1. FeedInv => NothingMissed
  <2> SUFFICES ASSUME FeedInv PROVE NothingMissed OBVIOUS
  <2>1. FeedTypes /\ NothingCame /\ InOrder /\ AllUnderway /\ Spaced BY DEF FeedInv
  <2>2. Len(log) \in Nat /\ DOMAIN log = 1..Len(log) /\ Members(out) \subseteq DOMAIN log /\ out \in Seq(Nat)
    BY <2>1, FeedSeqs
  <2>3. Hello \notin Members(out) BY <2>2 DEF Hello
  <2>4. ASSUME NEW j \in DOMAIN out, NEW f \in 1..Len(log), f >= from, f < out[j], f \in Members(out)
        PROVE  \E i \in 1..j : out[i] = f
    <3>1. out # <<>> /\ j \in Nat /\ out[j] \in Nat BY <2>2, <2>4
    <3>2. from \in Nat BY <2>1, <3>1 DEF NothingCame, FeedTypes
    <3>3. f \in from..(out[j] - 1) BY <2>4, <3>1, <3>2
    <3>4. PICK i \in 1..(j - 1) : out[i] = f BY <2>1, <2>4, <3>3 DEF InOrder, Ordered
    <3>5. i \in 1..j BY <3>1, <3>4
    <3> QED BY <3>4, <3>5
  <2> QED BY <2>1, <2>3, <2>4 DEF NothingMissed, AllUnderway, Spaced
<1> QED BY <1>1, FeedInitially, FeedStep, PTL DEF FeedSpec

-----------------------------------------------------------------------------
\* From the hub to a client.

Kinds == {"challenge", "welcome", "error", "holding", "answer", "presence", "event", "ping", "unrouted", "paired"}

AnyFrame == [no : Nat, kind : Kinds, call : Nat \cup {NoCall}]

Ascends(s) == \A i, j \in DOMAIN s : i < j => s[i].no < s[j].no

Before(S, T) == \A f \in S, g \in T : f.no < g.no

CourseTypes ==
  /\ written \in Seq(AnyFrame) /\ outbox \in Seq(AnyFrame) /\ pending \in Seq(AnyFrame) /\ got \in Seq(AnyFrame)
  /\ wire \in Seq(Seq(AnyFrame) \ {<<>>})
  /\ \A i \in DOMAIN written : written[i].no = i

\* Frames are handed on in the order in which they were written: one that is further on
\* its way is earlier.
InTurn ==
  /\ Ascends(outbox) /\ Ascends(pending) /\ Ascends(got)
  /\ \A m \in ToSet(wire) : Ascends(m)
  /\ \A k, l \in DOMAIN wire : k < l => Before(ToSet(wire[k]), ToSet(wire[l]))
  /\ Before(ToSet(pending), Sent) /\ Before(ToSet(pending), ToSet(outbox)) /\ Before(Sent, ToSet(outbox))
  /\ Before(ToSet(got), InFlight)

\* What is on its way is the end of what was written.
EndIsInFlight ==
  /\ InFlight \cup ToSet(got) \subseteq ToSet(written)
  /\ \A f \in InFlight, g \in ToSet(written) : g.no >= f.no => g \in InFlight

Early == stage \in {"off", "dialled", "hello", "offering", "held"}

NothingYet ==
  Early => got = <<>> /\ pending = <<>> /\ base = 0 /\ calls = <<>> /\ calling = NoCall /\ asked = <<>>

AfterWelcome ==
  stage = "on" =>
    /\ \A f \in InFlight \cup ToSet(got) : f.no > base
    /\ \A f \in ToSet(written) : f.no > base /\ IsEvent(f) => f \in ToSet(got) \cup InFlight
    /\ \A f \in ToSet(got) : IsEvent(f)

CallTypes ==
  /\ base \in 0..Len(written)
  /\ calls \in Seq([took : Nat, outcome : {"ok", "refused", "protocol"}, by : Nat \cup {NoCall}]) /\ asked \in Seq(Nat)
  /\ calling \in {NoCall, Len(calls) + 1}

\* How many calls there were.
Asking == IF calling = NoCall THEN Len(calls) ELSE Len(calls) + 1

\* Calls are answered in turn.
AnsweredInTurn ==
  /\ \A f, g \in ToSet(written) : f.no < g.no /\ f.call # NoCall /\ g.call # NoCall => f.call < g.call
  /\ \A f \in ToSet(written) : f.kind = "paired" => f.call # NoCall
  /\ \A f \in ToSet(written) : f.call # NoCall =>
       f.call \in 1..Asking /\ \A i \in DOMAIN asked : f.call < asked[i]
  /\ \A i, j \in DOMAIN asked : i < j => asked[i] < asked[j]
  /\ \A i \in DOMAIN asked : asked[i] \in 1..Asking

OwnAnswers ==
  \A i \in DOMAIN calls :
    /\ \E g \in ToSet(got) : g.no = calls[i].took
    /\ \A j \in 1..(i - 1) : calls[j].took < calls[i].took
    /\ calls[i].outcome = "ok" => calls[i].by # NoCall
    /\ calls[i].by # NoCall => \E g \in ToSet(got) : g.call = calls[i].by
    /\ calls[i].outcome = "ok" /\ (\A j \in 1..(i - 1) : calls[j].by = j) => calls[i].by = i

\* To one who dials and offers a pairing, each frame is a message.
OfferAlone ==
  stage \in {"off", "dialled", "offering", "held"} =>
    /\ \A m \in ToSet(wire) : Len(m) = 1
    /\ Len(outbox) <= 1
    /\ \A f \in ToSet(written) : f.kind = "answer" => stage = "held" /\ f \in InFlight
    /\ stage = "off" => outbox = <<>> /\ wire = <<>> /\ written = <<>>

Course == CourseTypes /\ InTurn /\ EndIsInFlight

ClientInv ==
  Course /\ NothingYet /\ AfterWelcome /\ CallTypes /\ AnsweredInTurn /\ OwnAnswers /\ OfferAlone

LEMMA ClientConstants == MaxFrames \in Nat /\ MaxCalls \in Nat /\ NoCall \notin Nat
BY ClientAssumption

\* The members of sequences.
LEMMA SetOf ==
  ASSUME NEW S, NEW s \in Seq(S)
  PROVE  /\ DOMAIN s = 1..Len(s) /\ Len(s) \in Nat
         /\ \A x : x \in ToSet(s) <=> \E i \in 1..Len(s) : s[i] = x
         /\ ToSet(s) \subseteq S
<1>1. DOMAIN s = 1..Len(s) /\ Len(s) \in Nat OBVIOUS
<1>2. \A x : x \in ToSet(s) <=> \E i \in 1..Len(s) : s[i] = x BY <1>1 DEF ToSet
<1>3. \A i \in 1..Len(s) : s[i] \in S BY <1>1
<1> QED BY <1>1, <1>2, <1>3

LEMMA SetOfEmpty == ToSet(<<>>) = {}
BY DEF ToSet

LEMMA SetOfAppend ==
  ASSUME NEW S, NEW s \in Seq(S), NEW e \in S
  PROVE  /\ Append(s, e) \in Seq(S) /\ ToSet(Append(s, e)) = ToSet(s) \cup {e}
         /\ Len(Append(s, e)) = Len(s) + 1 /\ DOMAIN Append(s, e) = 1..(Len(s) + 1) /\ Len(s) \in Nat /\ DOMAIN s = 1..Len(s)
         /\ \A i \in 1..Len(s) : Append(s, e)[i] = s[i]
         /\ Append(s, e)[Len(s) + 1] = e
BY Appended DEF Members, ToSet

LEMMA SetOfTail ==
  ASSUME NEW S, NEW s \in Seq(S), s # <<>>
  PROVE  /\ Tail(s) \in Seq(S) /\ ToSet(s) = {Head(s)} \cup ToSet(Tail(s)) /\ Head(s) \in S
         /\ DOMAIN Tail(s) = 1..(Len(s) - 1) /\ Len(s) \in Nat /\ Len(s) # 0 /\ DOMAIN s = 1..Len(s) /\ Head(s) = s[1]
         /\ 1 \in DOMAIN s
         /\ \A i \in 1..(Len(s) - 1) : Tail(s)[i] = s[i + 1] /\ i + 1 \in 1..Len(s)
BY Tailed DEF Members, ToSet

LEMMA SetOfConcat ==
  ASSUME NEW S, NEW s \in Seq(S), NEW t \in Seq(S)
  PROVE  /\ s \o t \in Seq(S) /\ ToSet(s \o t) = ToSet(s) \cup ToSet(t)
         /\ DOMAIN (s \o t) = 1..(Len(s) + Len(t)) /\ Len(s \o t) = Len(s) + Len(t)
         /\ \A i \in 1..Len(s) : (s \o t)[i] = s[i]
         /\ \A i \in 1..Len(t) : (s \o t)[Len(s) + i] = t[i]
<1> DEFINE u == s \o t
<1>1. /\ u \in Seq(S) /\ Len(u) = Len(s) + Len(t) /\ DOMAIN u = 1..(Len(s) + Len(t))
      /\ Len(s) \in Nat /\ Len(t) \in Nat
      /\ \A i \in 1..Len(s) : u[i] = s[i]
      /\ \A i \in 1..Len(t) : u[Len(s) + i] = t[i]
  OBVIOUS
<1> HIDE DEF u
<1>2. \A x : x \in ToSet(u) <=> \E i \in 1..(Len(s) + Len(t)) : u[i] = x BY <1>1 DEF ToSet
<1>3. \A x : x \in ToSet(s) <=> \E i \in 1..Len(s) : s[i] = x BY SetOf
<1>4. \A x : x \in ToSet(t) <=> \E i \in 1..Len(t) : t[i] = x BY SetOf
<1>5. ASSUME NEW x \in ToSet(u) PROVE x \in ToSet(s) \cup ToSet(t)
  <2>1. PICK i \in 1..(Len(s) + Len(t)) : u[i] = x BY <1>2
  <2>2. CASE i \in 1..Len(s) BY <1>1, <1>3, <2>1, <2>2
  <2>3. CASE i \notin 1..Len(s)
    <3>1. i - Len(s) \in 1..Len(t) /\ Len(s) + (i - Len(s)) = i BY <1>1, <2>1, <2>3
    <3>2. u[Len(s) + (i - Len(s))] = t[i - Len(s)] BY <1>1, <3>1
    <3> QED BY <1>4, <2>1, <3>1, <3>2
  <2> QED BY <2>2, <2>3
<1>6. ASSUME NEW x \in ToSet(s) PROVE x \in ToSet(u)
  <2>1. PICK i \in 1..Len(s) : s[i] = x BY <1>3
  <2>2. i \in 1..(Len(s) + Len(t)) BY <1>1
  <2> QED BY <1>1, <1>2, <2>1, <2>2
<1>7. ASSUME NEW x \in ToSet(t) PROVE x \in ToSet(u)
  <2>1. PICK i \in 1..Len(t) : t[i] = x BY <1>4
  <2>2. Len(s) + i \in 1..(Len(s) + Len(t)) BY <1>1
  <2> QED BY <1>1, <1>2, <2>1, <2>2
<1>8. ToSet(u) = ToSet(s) \cup ToSet(t) BY <1>5, <1>6, <1>7
<1> QED BY <1>1, <1>8 DEF u

LEMMA SetOfCut ==
  ASSUME NEW S, NEW s \in Seq(S), NEW n \in 1..Len(s)
  PROVE  /\ SubSeq(s, 1, n) \in Seq(S) /\ SubSeq(s, n + 1, Len(s)) \in Seq(S)
         /\ Len(SubSeq(s, 1, n)) = n /\ DOMAIN SubSeq(s, 1, n) = 1..n
         /\ DOMAIN SubSeq(s, n + 1, Len(s)) = 1..(Len(s) - n) /\ Len(SubSeq(s, n + 1, Len(s))) = Len(s) - n
         /\ \A i \in 1..n : SubSeq(s, 1, n)[i] = s[i] /\ i \in 1..Len(s)
         /\ \A i \in 1..(Len(s) - n) : SubSeq(s, n + 1, Len(s))[i] = s[n + i] /\ n + i \in 1..Len(s)
         /\ ToSet(s) = ToSet(SubSeq(s, 1, n)) \cup ToSet(SubSeq(s, n + 1, Len(s)))
<1> DEFINE a == SubSeq(s, 1, n)
           b == SubSeq(s, n + 1, Len(s))
<1>1. Len(s) \in Nat /\ n \in Nat /\ n >= 1 /\ n <= Len(s) /\ DOMAIN s = 1..Len(s) OBVIOUS
<1>2. a \in Seq(S) /\ Len(a) = n /\ DOMAIN a = 1..n /\ \A i \in 1..n : a[i] = s[i] BY <1>1
<1>3. b = [i \in 1..(Len(s) - n) |-> s[n + i]]
  <2>1. Len(s) - (n + 1) + 1 = Len(s) - n BY <1>1
  <2>2. \A i \in 1..(Len(s) - n) : i + (n + 1) - 1 = n + i BY <1>1
  <2> QED BY <1>1, <2>1, <2>2
<1>4. \A i \in 1..(Len(s) - n) : n + i \in 1..Len(s) BY <1>1
<1>5. \A i \in 1..n : i \in 1..Len(s) BY <1>1
<1>6. Len(s) - n \in Nat BY <1>1
<1> HIDE DEF a, b
<1>7. b \in Seq(S) /\ Len(b) = Len(s) - n /\ DOMAIN b = 1..(Len(s) - n) /\ \A i \in 1..(Len(s) - n) : b[i] = s[n + i]
  BY <1>1, <1>3, <1>4, <1>6
<1>8. \A x : x \in ToSet(s) <=> \E i \in 1..Len(s) : s[i] = x BY SetOf
<1>9. \A x : x \in ToSet(a) <=> \E i \in 1..n : a[i] = x BY <1>2 DEF ToSet
<1>10. \A x : x \in ToSet(b) <=> \E i \in 1..(Len(s) - n) : b[i] = x BY <1>7 DEF ToSet
<1>11. ASSUME NEW x \in ToSet(s) PROVE x \in ToSet(a) \cup ToSet(b)
  <2>1. PICK i \in 1..Len(s) : s[i] = x BY <1>8
  <2>2. CASE i \in 1..n BY <1>2, <1>9, <2>1, <2>2
  <2>3. CASE i \notin 1..n
    <3>1. i - n \in 1..(Len(s) - n) /\ n + (i - n) = i BY <1>1, <2>1, <2>3
    <3>2. b[i - n] = s[n + (i - n)] BY <1>7, <3>1
    <3> QED BY <1>10, <2>1, <3>1, <3>2
  <2> QED BY <2>2, <2>3
<1>12. ToSet(a) \subseteq ToSet(s) BY <1>2, <1>5, <1>8, <1>9
<1>13. ToSet(b) \subseteq ToSet(s) BY <1>4, <1>7, <1>8, <1>10
<1>14. ToSet(s) = ToSet(a) \cup ToSet(b) BY <1>11, <1>12, <1>13
<1> QED BY <1>2, <1>4, <1>5, <1>7, <1>14 DEF a, b

\* The frames at each place, as sets.
LEMMA CourseSets ==
  ASSUME CourseTypes
  PROVE  /\ InFlight = ToSet(pending) \cup Sent \cup ToSet(outbox)
         /\ ToSet(written) \subseteq AnyFrame /\ ToSet(pending) \subseteq AnyFrame /\ ToSet(outbox) \subseteq AnyFrame
         /\ ToSet(got) \subseteq AnyFrame /\ Sent \subseteq AnyFrame
         /\ \A f \in ToSet(written) : f.no \in 1..Len(written) /\ f.no \in Nat /\ written[f.no] = f
         /\ \A f \in AnyFrame : f.no \in Nat
<1>1. InFlight = ToSet(pending) \cup Sent \cup ToSet(outbox) BY DEF InFlight
<1>2. ToSet(written) \subseteq AnyFrame /\ ToSet(pending) \subseteq AnyFrame /\ ToSet(outbox) \subseteq AnyFrame
      /\ ToSet(got) \subseteq AnyFrame
  BY SetOf DEF CourseTypes
<1>3. Sent \subseteq AnyFrame
  <2> SUFFICES ASSUME NEW m \in ToSet(wire) PROVE ToSet(m) \subseteq AnyFrame BY DEF Sent
  <2>1. m \in Seq(AnyFrame) \ {<<>>} BY SetOf DEF CourseTypes
  <2> QED BY <2>1, SetOf
<1>4. ASSUME NEW f \in ToSet(written) PROVE f.no \in 1..Len(written) /\ f.no \in Nat /\ written[f.no] = f
  <2>1. PICK i \in 1..Len(written) : written[i] = f BY SetOf DEF CourseTypes
  <2>2. f.no = i BY <2>1 DEF CourseTypes
  <2> QED BY <2>1, <2>2
<1>5. \A f \in AnyFrame : f.no \in Nat BY DEF AnyFrame
<1> QED BY <1>1, <1>2, <1>3, <1>4, <1>5

\* The hub queues frames.
LEMMA Queued ==
  ASSUME Course, NEW frames \in Seq(AnyFrame), \A i \in 1..Len(frames) : frames[i].no = Len(written) + i,
         Queue(frames), UNCHANGED <<wire, pending, got>>
  PROVE  /\ Course'
         /\ InFlight' = InFlight \cup ToSet(frames) /\ ToSet(written') = ToSet(written) \cup ToSet(frames)
         /\ Before(ToSet(written), ToSet(frames))
         /\ ToSet(outbox') = ToSet(outbox) \cup ToSet(frames)
<1>1. CourseTypes /\ InTurn /\ EndIsInFlight BY DEF Course
<1>2. outbox' = outbox \o frames /\ written' = written \o frames /\ wire' = wire /\ pending' = pending /\ got' = got
  BY DEF Queue
<1>3. written \in Seq(AnyFrame) /\ outbox \in Seq(AnyFrame) BY <1>1 DEF CourseTypes
<1>4. Len(written) \in Nat /\ Len(outbox) \in Nat /\ Len(frames) \in Nat /\ DOMAIN frames = 1..Len(frames)
      /\ DOMAIN outbox = 1..Len(outbox) /\ DOMAIN written = 1..Len(written)
  BY <1>3
<1>5. /\ outbox' \in Seq(AnyFrame) /\ ToSet(outbox') = ToSet(outbox) \cup ToSet(frames)
      /\ DOMAIN outbox' = 1..(Len(outbox) + Len(frames))
      /\ \A i \in 1..Len(outbox) : outbox'[i] = outbox[i]
      /\ \A i \in 1..Len(frames) : outbox'[Len(outbox) + i] = frames[i]
  BY <1>2, <1>3, SetOfConcat
<1>6. /\ written' \in Seq(AnyFrame) /\ ToSet(written') = ToSet(written) \cup ToSet(frames)
      /\ DOMAIN written' = 1..(Len(written) + Len(frames))
      /\ \A i \in 1..Len(written) : written'[i] = written[i]
      /\ \A i \in 1..Len(frames) : written'[Len(written) + i] = frames[i]
  BY <1>2, <1>3, SetOfConcat
<1>7. /\ InFlight = ToSet(pending) \cup Sent \cup ToSet(outbox)
      /\ ToSet(written) \subseteq AnyFrame /\ ToSet(got) \subseteq AnyFrame
      /\ \A f \in ToSet(written) : f.no \in 1..Len(written) /\ f.no \in Nat
  BY <1>1, CourseSets
<1>8. Sent' = Sent BY <1>2 DEF Sent
<1>9. InFlight' = InFlight \cup ToSet(frames) BY <1>2, <1>5, <1>7, <1>8 DEF InFlight
<1>10. \A f \in ToSet(frames) : f.no > Len(written) /\ f.no \in Nat
  <2> TAKE f \in ToSet(frames)
  <2>1. PICK i \in 1..Len(frames) : frames[i] = f BY SetOf
  <2>2. f.no = Len(written) + i BY <2>1
  <2> QED BY <1>4, <2>1, <2>2
<1>11. Before(ToSet(written), ToSet(frames))
  <2> SUFFICES ASSUME NEW f \in ToSet(written), NEW g \in ToSet(frames) PROVE f.no < g.no BY DEF Before
  <2> QED BY <1>4, <1>7, <1>10
<1>12. CourseTypes'
  <2>1. ASSUME NEW i \in DOMAIN written' PROVE written'[i].no = i
    <3>1. CASE i \in 1..Len(written) BY <1>1, <1>4, <1>6, <3>1 DEF CourseTypes
    <3>2. CASE i \notin 1..Len(written)
      <4>1. i - Len(written) \in 1..Len(frames) /\ Len(written) + (i - Len(written)) = i BY <1>4, <1>6, <2>1, <3>2
      <4>2. written'[Len(written) + (i - Len(written))] = frames[i - Len(written)] BY <1>6, <4>1
      <4> QED BY <4>1, <4>2
    <3> QED BY <3>1, <3>2
  <2> QED BY <1>1, <1>2, <1>5, <1>6, <2>1 DEF CourseTypes
<1>13. InFlight \subseteq ToSet(written) /\ ToSet(got) \subseteq ToSet(written) BY <1>1 DEF EndIsInFlight
<1>14. Ascends(outbox')
  <2> SUFFICES ASSUME NEW i \in DOMAIN outbox', NEW j \in DOMAIN outbox', i < j PROVE outbox'[i].no < outbox'[j].no
    BY DEF Ascends
  <2> DEFINE n == Len(outbox)
  <2>1. CASE j \in 1..n
    <3>1. i \in 1..n BY <1>4, <1>5, <2>1
    <3>2. outbox[i].no < outbox[j].no BY <1>1, <1>4, <2>1, <3>1 DEF InTurn, Ascends
    <3> QED BY <1>5, <2>1, <3>1, <3>2
  <2>2. CASE j \notin 1..n
    <3>1. j - n \in 1..Len(frames) /\ n + (j - n) = j BY <1>4, <1>5, <2>2
    <3>2. outbox'[n + (j - n)] = frames[j - n] BY <1>5, <3>1
    <3>3. outbox'[j] = frames[j - n] BY <3>1, <3>2
    <3>4. CASE i \in 1..n
      <4>1. outbox[i] \in ToSet(outbox) BY <1>4, <3>4 DEF ToSet
      <4>2. outbox[i] \in ToSet(written) BY <1>7, <1>13, <4>1
      <4>3. frames[j - n] \in ToSet(frames) BY <1>4, <3>1 DEF ToSet
      <4>4. outbox[i].no < frames[j - n].no BY <1>11, <4>2, <4>3 DEF Before
      <4> QED BY <1>5, <3>3, <3>4, <4>4
    <3>5. CASE i \notin 1..n
      <4>1. i - n \in 1..Len(frames) /\ n + (i - n) = i BY <1>4, <1>5, <3>5
      <4>2. outbox'[n + (i - n)] = frames[i - n] BY <1>5, <4>1
      <4>3. outbox'[i] = frames[i - n] BY <4>1, <4>2
      <4>4. frames[i - n].no = Len(written) + (i - n) /\ frames[j - n].no = Len(written) + (j - n) BY <3>1, <4>1
      <4>5. Len(written) + (i - n) < Len(written) + (j - n) BY <1>4, <3>1, <4>1
      <4> QED BY <3>3, <4>3, <4>4, <4>5
    <3> QED BY <3>4, <3>5
  <2> QED BY <2>1, <2>2
<1>15. InTurn'
  <2>1. Before(ToSet(pending), ToSet(frames)) /\ Before(Sent, ToSet(frames)) /\ Before(ToSet(got), ToSet(frames))
    BY <1>7, <1>11, <1>13 DEF Before
  <2>2. Before(ToSet(pending), ToSet(outbox')) /\ Before(Sent, ToSet(outbox')) /\ Before(ToSet(got), InFlight')
    BY <1>1, <1>5, <1>9, <2>1 DEF Before, InTurn
  <2> QED BY <1>1, <1>2, <1>8, <1>14, <2>2 DEF InTurn
<1>16. EndIsInFlight'
  <2>1. InFlight' \cup ToSet(got') \subseteq ToSet(written') BY <1>2, <1>6, <1>9, <1>13
  <2>2. ASSUME NEW f \in InFlight', NEW g \in ToSet(written'), g.no >= f.no PROVE g \in InFlight'
    <3>1. CASE g \in ToSet(frames) BY <1>9, <3>1
    <3>2. CASE g \in ToSet(written) /\ f \in InFlight BY <1>1, <1>9, <2>2, <3>2 DEF EndIsInFlight
    <3>3. CASE g \in ToSet(written) /\ f \in ToSet(frames)
      <4>1. g.no < f.no /\ g.no \in Nat /\ f.no \in Nat BY <1>7, <1>10, <1>11, <3>3 DEF Before
      <4> QED BY <2>2, <4>1
    <3> QED BY <1>6, <1>9, <2>2, <3>1, <3>2, <3>3
  <2> QED BY <2>1, <2>2 DEF EndIsInFlight
<1> QED BY <1>5, <1>6, <1>9, <1>11, <1>12, <1>15, <1>16 DEF Course

\* The hub sends a message.
LEMMA Flushed ==
  ASSUME Course, NEW n, Flush(n)
  PROVE  /\ Course' /\ InFlight' = InFlight
         /\ ToSet(wire') = ToSet(wire) \cup {SubSeq(outbox, 1, n)}
         /\ Len(SubSeq(outbox, 1, n)) = n /\ Len(outbox') = Len(outbox) - n
         /\ Len(outbox) \in Nat /\ n \in 1..Len(outbox)
<1> DEFINE a == SubSeq(outbox, 1, n)
           b == SubSeq(outbox, n + 1, Len(outbox))
<1>1. CourseTypes /\ InTurn /\ EndIsInFlight BY DEF Course
<1>2. n \in 1..Len(outbox) /\ wire' = Append(wire, a) /\ outbox' = b
      /\ pending' = pending /\ got' = got /\ written' = written
  BY DEF Flush
<1>3. outbox \in Seq(AnyFrame) /\ wire \in Seq(Seq(AnyFrame) \ {<<>>}) BY <1>1 DEF CourseTypes
<1>4. Len(outbox) \in Nat /\ DOMAIN outbox = 1..Len(outbox) BY <1>3
<1>5. /\ a \in Seq(AnyFrame) /\ b \in Seq(AnyFrame)
      /\ Len(a) = n /\ DOMAIN a = 1..n
      /\ DOMAIN b = 1..(Len(outbox) - n) /\ Len(b) = Len(outbox) - n
      /\ \A i \in 1..n : a[i] = outbox[i] /\ i \in 1..Len(outbox)
      /\ \A i \in 1..(Len(outbox) - n) : b[i] = outbox[n + i] /\ n + i \in 1..Len(outbox)
      /\ ToSet(outbox) = ToSet(a) \cup ToSet(b)
  BY <1>2, <1>3, SetOfCut
<1> HIDE DEF a, b
<1>6. a \in Seq(AnyFrame) \ {<<>>} BY <1>2, <1>4, <1>5
<1>7. /\ wire' \in Seq(Seq(AnyFrame) \ {<<>>}) /\ ToSet(wire') = ToSet(wire) \cup {a}
      /\ DOMAIN wire' = 1..(Len(wire) + 1) /\ Len(wire) \in Nat /\ DOMAIN wire = 1..Len(wire)
      /\ \A i \in 1..Len(wire) : wire'[i] = wire[i]
      /\ wire'[Len(wire) + 1] = a
  <2> DEFINE S == Seq(AnyFrame) \ {<<>>}
  <2>1. wire \in Seq(S) /\ a \in S BY <1>3, <1>6
  <2> HIDE DEF S
  <2>2. Append(wire, a) \in Seq(S) /\ ToSet(Append(wire, a)) = ToSet(wire) \cup {a} BY <2>1, SetOfAppend
  <2>3. DOMAIN Append(wire, a) = 1..(Len(wire) + 1) /\ Len(wire) \in Nat /\ DOMAIN wire = 1..Len(wire)
    BY <2>1, SetOfAppend
  <2>4. \A i \in 1..Len(wire) : Append(wire, a)[i] = wire[i] BY <2>1, SetOfAppend
  <2>5. Append(wire, a)[Len(wire) + 1] = a BY <2>1, SetOfAppend
  <2> QED BY <1>2, <2>2, <2>3, <2>4, <2>5 DEF S
<1>8. Sent' = Sent \cup ToSet(a) BY <1>7 DEF Sent
<1>9. CourseTypes' BY <1>1, <1>2, <1>5, <1>7 DEF CourseTypes
<1>10. InFlight' = InFlight
  <2>1. InFlight = ToSet(pending) \cup Sent \cup ToSet(outbox) BY DEF InFlight
  <2>2. InFlight' = ToSet(pending) \cup Sent' \cup ToSet(b) BY <1>2 DEF InFlight
  <2> QED BY <1>5, <1>8, <2>1, <2>2
<1>11. Before(ToSet(a), ToSet(b))
  <2> SUFFICES ASSUME NEW f \in ToSet(a), NEW g \in ToSet(b) PROVE f.no < g.no BY DEF Before
  <2>1. PICK i \in 1..n : a[i] = f BY <1>5 DEF ToSet
  <2>2. PICK j \in 1..(Len(outbox) - n) : b[j] = g BY <1>5 DEF ToSet
  <2>3. i \in DOMAIN outbox /\ n + j \in DOMAIN outbox /\ i < n + j BY <1>2, <1>4, <1>5
  <2>4. outbox[i].no < outbox[n + j].no BY <1>1, <2>3 DEF InTurn, Ascends
  <2> QED BY <1>5, <2>1, <2>2, <2>4
<1>12. Ascends(a)
  <2> SUFFICES ASSUME NEW i \in 1..n, NEW j \in 1..n, i < j PROVE a[i].no < a[j].no BY <1>5 DEF Ascends
  <2>1. outbox[i].no < outbox[j].no BY <1>1, <1>4, <1>5 DEF InTurn, Ascends
  <2> QED BY <1>5, <2>1
<1>13. Ascends(b)
  <2> SUFFICES ASSUME NEW i \in 1..(Len(outbox) - n), NEW j \in 1..(Len(outbox) - n), i < j PROVE b[i].no < b[j].no
    BY <1>5 DEF Ascends
  <2>1. n + i < n + j /\ n + i \in DOMAIN outbox /\ n + j \in DOMAIN outbox BY <1>2, <1>4, <1>5
  <2>2. outbox[n + i].no < outbox[n + j].no BY <1>1, <2>1 DEF InTurn, Ascends
  <2> QED BY <1>5, <2>2
<1>14. Before(ToSet(pending), Sent) /\ Before(ToSet(pending), ToSet(outbox)) /\ Before(Sent, ToSet(outbox))
       /\ Before(ToSet(got), InFlight)
  BY <1>1 DEF InTurn
<1>15. Before(ToSet(pending), Sent') /\ Before(ToSet(pending), ToSet(b)) /\ Before(Sent', ToSet(b))
  BY <1>5, <1>8, <1>11, <1>14 DEF Before
<1>16. ASSUME NEW k \in DOMAIN wire', NEW l \in DOMAIN wire', k < l PROVE Before(ToSet(wire'[k]), ToSet(wire'[l]))
  <2>1. k \in 1..Len(wire) BY <1>7, <1>16
  <2>2. CASE l \in 1..Len(wire)
    <3>1. Before(ToSet(wire[k]), ToSet(wire[l])) BY <1>1, <1>7, <1>16, <2>1, <2>2 DEF InTurn
    <3> QED BY <1>7, <2>1, <2>2, <3>1
  <2>3. CASE l = Len(wire) + 1
    <3>1. ToSet(wire[k]) \subseteq Sent
      <4>1. wire[k] \in ToSet(wire) BY <1>7, <2>1 DEF ToSet
      <4> QED BY <4>1 DEF Sent
    <3>2. Before(ToSet(wire[k]), ToSet(a)) BY <1>5, <1>14, <3>1 DEF Before
    <3> QED BY <1>7, <2>1, <2>3, <3>2
  <2> QED BY <1>7, <1>16, <2>2, <2>3
<1>17. \A m \in ToSet(wire') : Ascends(m) BY <1>1, <1>7, <1>12 DEF InTurn
<1>18. InTurn' BY <1>1, <1>2, <1>10, <1>13, <1>14, <1>15, <1>16, <1>17 DEF InTurn
<1>19. EndIsInFlight' BY <1>1, <1>2, <1>10 DEF EndIsInFlight
<1> QED BY <1>2, <1>4, <1>5, <1>7, <1>9, <1>10, <1>18, <1>19 DEF Course, a

\* The front message goes from the wire.
LEMMA FrontSent ==
  ASSUME CourseTypes, InTurn, wire # <<>>
  PROVE  /\ Tail(wire) \in Seq(Seq(AnyFrame) \ {<<>>}) /\ Head(wire) \in Seq(AnyFrame) \ {<<>>} /\ Head(wire) \in ToSet(wire)
         /\ ToSet(Tail(wire)) \subseteq ToSet(wire)
         /\ Sent = ToSet(Head(wire)) \cup UNION {ToSet(message) : message \in ToSet(Tail(wire))}
         /\ Before(ToSet(Head(wire)), UNION {ToSet(message) : message \in ToSet(Tail(wire))})
         /\ \A k, l \in DOMAIN Tail(wire) : k < l => Before(ToSet(Tail(wire)[k]), ToSet(Tail(wire)[l]))
<1> DEFINE h == Head(wire)
           t == Tail(wire)
           rest == UNION {ToSet(message) : message \in ToSet(t)}
<1>1. wire \in Seq(Seq(AnyFrame) \ {<<>>}) BY DEF CourseTypes
<1>2. /\ t \in Seq(Seq(AnyFrame) \ {<<>>}) /\ ToSet(wire) = {h} \cup ToSet(t) /\ h \in Seq(AnyFrame) \ {<<>>}
      /\ DOMAIN t = 1..(Len(wire) - 1) /\ Len(wire) \in Nat /\ Len(wire) # 0 /\ DOMAIN wire = 1..Len(wire)
      /\ h = wire[1] /\ 1 \in DOMAIN wire
      /\ \A i \in 1..(Len(wire) - 1) : t[i] = wire[i + 1] /\ i + 1 \in 1..Len(wire)
  BY <1>1, SetOfTail
<1> HIDE DEF h, t
<1>3. Sent = ToSet(h) \cup rest BY <1>2 DEF Sent
<1>4. Before(ToSet(h), rest)
  <2> SUFFICES ASSUME NEW f \in ToSet(h), NEW m \in ToSet(t), NEW g \in ToSet(m) PROVE f.no < g.no BY DEF Before
  <2>1. PICK i \in 1..(Len(wire) - 1) : t[i] = m BY <1>2 DEF ToSet
  <2>2. wire[i + 1] = m /\ i + 1 \in DOMAIN wire /\ 1 < i + 1 BY <1>2, <2>1
  <2>3. Before(ToSet(wire[1]), ToSet(wire[i + 1])) BY <1>2, <2>2 DEF InTurn
  <2> QED BY <1>2, <2>2, <2>3 DEF Before
<1>5. ASSUME NEW k \in DOMAIN t, NEW l \in DOMAIN t, k < l PROVE Before(ToSet(t[k]), ToSet(t[l]))
  <2>0. k \in 1..(Len(wire) - 1) /\ l \in 1..(Len(wire) - 1) /\ Len(wire) \in Nat BY <1>2
  <2>1. k + 1 \in DOMAIN wire /\ l + 1 \in DOMAIN wire /\ k + 1 < l + 1
    <3>1. k + 1 \in 1..Len(wire) /\ l + 1 \in 1..Len(wire) /\ k + 1 < l + 1 BY <1>5, <2>0
    <3>2. DOMAIN wire = 1..Len(wire) BY <1>2
    <3> QED BY <3>1, <3>2
  <2>2. Before(ToSet(wire[k + 1]), ToSet(wire[l + 1])) BY <2>1 DEF InTurn
  <2>3. t[k] = wire[k + 1] /\ t[l] = wire[l + 1] BY <1>2, <2>0
  <2> QED BY <2>2, <2>3
<1> QED BY <1>2, <1>3, <1>4, <1>5 DEF h, t

LEMMA FrontDropped ==
  ASSUME Course, wire # <<>>, wire' = Tail(wire), pending = <<>>, got = <<>>, UNCHANGED <<outbox, pending, got, written>>
  PROVE  /\ Course' /\ InFlight = ToSet(Head(wire)) \cup InFlight' /\ Before(ToSet(Head(wire)), InFlight')
         /\ Head(wire) \in Seq(AnyFrame) \ {<<>>} /\ Head(wire) \in ToSet(wire) /\ ToSet(wire') \subseteq ToSet(wire)
         /\ ToSet(Head(wire)) \subseteq ToSet(written) /\ Ascends(Head(wire))
<1> DEFINE h == Head(wire)
<1>1. CourseTypes /\ InTurn /\ EndIsInFlight BY DEF Course
<1>2. outbox' = outbox /\ pending' = pending /\ got' = got /\ written' = written OBVIOUS
<1>3. /\ wire' \in Seq(Seq(AnyFrame) \ {<<>>}) /\ h \in Seq(AnyFrame) \ {<<>>} /\ h \in ToSet(wire)
      /\ ToSet(wire') \subseteq ToSet(wire)
      /\ Sent = ToSet(h) \cup Sent'
      /\ Before(ToSet(h), Sent')
      /\ \A k, l \in DOMAIN wire' : k < l => Before(ToSet(wire'[k]), ToSet(wire'[l]))
  BY <1>1, FrontSent DEF Sent
<1>4. ToSet(pending) = {} /\ ToSet(got) = {} BY SetOfEmpty
<1> HIDE DEF h
<1>5. InFlight = Sent \cup ToSet(outbox) /\ InFlight' = Sent' \cup ToSet(outbox) BY <1>2, <1>4 DEF InFlight
<1>6. InFlight = ToSet(h) \cup InFlight' BY <1>3, <1>5
<1>7. Before(ToSet(h), InFlight') BY <1>1, <1>3, <1>5 DEF InTurn, Before
<1>8. CourseTypes' BY <1>1, <1>2, <1>3 DEF CourseTypes
<1>9. InTurn'
  <2>1. Before(Sent', ToSet(outbox)) BY <1>1, <1>3 DEF InTurn, Before
  <2>2. \A m \in ToSet(wire') : Ascends(m) BY <1>1, <1>3 DEF InTurn
  <2>3. Before(ToSet(pending), Sent') /\ Before(ToSet(got), InFlight') BY <1>4 DEF Before
  <2> QED BY <1>1, <1>2, <1>3, <2>1, <2>2, <2>3 DEF InTurn
<1>10. InFlight \subseteq ToSet(written) BY <1>1 DEF EndIsInFlight
<1>11. \A f \in ToSet(written) : f.no \in Nat BY <1>1, CourseSets
<1>12. EndIsInFlight'
  <2>1. ASSUME NEW f \in InFlight', NEW g \in ToSet(written), g.no >= f.no PROVE g \in InFlight'
    <3>1. f \in InFlight /\ g \in InFlight BY <1>1, <1>6, <2>1 DEF EndIsInFlight
    <3>2. g \notin ToSet(h)
      <4> SUFFICES ASSUME g \in ToSet(h) PROVE FALSE OBVIOUS
      <4>1. g.no < f.no BY <1>7, <2>1 DEF Before
      <4> QED BY <1>10, <1>11, <2>1, <3>1, <4>1
    <3> QED BY <1>6, <3>1, <3>2
  <2> QED BY <1>2, <1>4, <1>6, <1>10, <2>1 DEF EndIsInFlight
<1>13. Ascends(h) BY <1>1, <1>3 DEF InTurn
<1> QED BY <1>3, <1>6, <1>7, <1>8, <1>9, <1>10, <1>12, <1>13 DEF Course, h

LEMMA MessageRead ==
  ASSUME Course, ReadMessage
  PROVE  Course' /\ InFlight' = InFlight /\ ToSet(wire') \subseteq ToSet(wire)
<1> DEFINE h == Head(wire)
<1>1. CourseTypes /\ InTurn /\ EndIsInFlight BY DEF Course
<1>2. wire # <<>> /\ pending = <<>> /\ pending' = h /\ wire' = Tail(wire)
      /\ outbox' = outbox /\ got' = got /\ written' = written
  BY DEF ReadMessage, MayRead
<1>3. /\ wire' \in Seq(Seq(AnyFrame) \ {<<>>}) /\ h \in Seq(AnyFrame) \ {<<>>} /\ h \in ToSet(wire)
      /\ ToSet(wire') \subseteq ToSet(wire)
      /\ Sent = ToSet(h) \cup Sent'
      /\ Before(ToSet(h), Sent')
      /\ \A k, l \in DOMAIN wire' : k < l => Before(ToSet(wire'[k]), ToSet(wire'[l]))
  BY <1>1, <1>2, FrontSent DEF Sent
<1>4. ToSet(pending) = {} BY <1>2, SetOfEmpty
<1> HIDE DEF h
<1>5. InFlight' = InFlight BY <1>2, <1>3, <1>4 DEF InFlight
<1>6. CourseTypes' BY <1>1, <1>2, <1>3 DEF CourseTypes
<1>7. InTurn'
  <2>1. Before(Sent', ToSet(outbox)) /\ Before(ToSet(h), ToSet(outbox)) BY <1>1, <1>3 DEF InTurn, Before
  <2>2. \A m \in ToSet(wire') : Ascends(m) BY <1>1, <1>3 DEF InTurn
  <2>3. Ascends(h) BY <1>1, <1>3 DEF InTurn
  <2> QED BY <1>1, <1>2, <1>3, <1>5, <2>1, <2>2, <2>3 DEF InTurn
<1>8. EndIsInFlight' BY <1>1, <1>2, <1>5 DEF EndIsInFlight
<1> QED BY <1>3, <1>5, <1>6, <1>7, <1>8 DEF Course

\* A frame leaves pending; h is handed out or not.
LEMMA FrameTaken ==
  ASSUME Course, pending # <<>>, pending' = Tail(pending), got' = got \/ got' = Append(got, Head(pending)),
         UNCHANGED <<outbox, wire, written>>
  PROVE  /\ Course' /\ InFlight = {Head(pending)} \cup InFlight' /\ Before({Head(pending)}, InFlight')
         /\ Head(pending) \in AnyFrame /\ Head(pending) \in ToSet(written)
         /\ got' # got => ToSet(got') = ToSet(got) \cup {Head(pending)}
         /\ Before(ToSet(got), {Head(pending)})
<1> DEFINE h == Head(pending)
<1>1. CourseTypes /\ InTurn /\ EndIsInFlight BY DEF Course
<1>2. outbox' = outbox /\ wire' = wire /\ written' = written /\ Sent' = Sent BY DEF Sent
<1>3. pending \in Seq(AnyFrame) /\ got \in Seq(AnyFrame) BY <1>1 DEF CourseTypes
<1>4. /\ pending' \in Seq(AnyFrame) /\ ToSet(pending) = {h} \cup ToSet(pending') /\ h \in AnyFrame
      /\ DOMAIN pending' = 1..(Len(pending) - 1) /\ Len(pending) \in Nat /\ Len(pending) # 0 /\ DOMAIN pending = 1..Len(pending)
      /\ h = pending[1] /\ 1 \in DOMAIN pending
      /\ \A i \in 1..(Len(pending) - 1) : pending'[i] = pending[i + 1] /\ i + 1 \in 1..Len(pending)
  BY <1>3, SetOfTail
<1>5. /\ Append(got, h) \in Seq(AnyFrame) /\ ToSet(Append(got, h)) = ToSet(got) \cup {h}
      /\ DOMAIN Append(got, h) = 1..(Len(got) + 1) /\ Len(got) \in Nat /\ DOMAIN got = 1..Len(got)
      /\ \A i \in 1..Len(got) : Append(got, h)[i] = got[i]
      /\ Append(got, h)[Len(got) + 1] = h
  BY <1>3, <1>4, SetOfAppend
<1>6. got' = got \/ got' = Append(got, h) OBVIOUS
<1> HIDE DEF h
<1>7. InFlight = ToSet(pending) \cup Sent \cup ToSet(outbox) /\ InFlight' = ToSet(pending') \cup Sent \cup ToSet(outbox)
  BY <1>2 DEF InFlight
<1>8. InFlight = {h} \cup InFlight' BY <1>4, <1>7
<1>9. Before({h}, ToSet(pending'))
  <2> SUFFICES ASSUME NEW g \in ToSet(pending') PROVE h.no < g.no BY DEF Before
  <2>1. PICK i \in 1..(Len(pending) - 1) : pending'[i] = g BY <1>4 DEF ToSet
  <2>2. i + 1 \in DOMAIN pending /\ 1 < i + 1 BY <1>4, <2>1
  <2>3. pending[1].no < pending[i + 1].no BY <1>1, <1>4, <2>2 DEF InTurn, Ascends
  <2> QED BY <1>4, <2>1, <2>3
<1>10. Before({h}, InFlight') BY <1>1, <1>4, <1>7, <1>9 DEF InTurn, Before
<1>11. Before(ToSet(got), {h}) BY <1>1, <1>8 DEF InTurn, Before
<1>12. CourseTypes' BY <1>1, <1>2, <1>4, <1>5, <1>6 DEF CourseTypes
<1>13. Ascends(pending')
  <2> SUFFICES ASSUME NEW i \in 1..(Len(pending) - 1), NEW j \in 1..(Len(pending) - 1), i < j
      PROVE pending'[i].no < pending'[j].no
    BY <1>4 DEF Ascends
  <2>1. i + 1 \in DOMAIN pending /\ j + 1 \in DOMAIN pending /\ i + 1 < j + 1 BY <1>4
  <2>2. pending[i + 1].no < pending[j + 1].no BY <1>1, <2>1 DEF InTurn, Ascends
  <2> QED BY <1>4, <2>2
<1>14. Ascends(got')
  <2>1. CASE got' = got BY <1>1, <2>1 DEF InTurn
  <2>2. CASE got' = Append(got, h)
    <3> SUFFICES ASSUME NEW i \in 1..(Len(got) + 1), NEW j \in 1..(Len(got) + 1), i < j
        PROVE Append(got, h)[i].no < Append(got, h)[j].no
      BY <1>5, <2>2 DEF Ascends
    <3>1. i \in 1..Len(got) BY <1>5
    <3>2. CASE j \in 1..Len(got)
      <4>1. got[i].no < got[j].no BY <1>1, <1>5, <3>1, <3>2 DEF InTurn, Ascends
      <4> QED BY <1>5, <3>1, <3>2, <4>1
    <3>3. CASE j = Len(got) + 1
      <4>1. got[i] \in ToSet(got) BY <1>5, <3>1 DEF ToSet
      <4>2. got[i].no < h.no BY <1>11, <4>1 DEF Before
      <4> QED BY <1>5, <3>1, <3>3, <4>2
    <3> QED BY <1>5, <3>2, <3>3
  <2> QED BY <1>6, <2>1, <2>2
<1>15. ToSet(got') \subseteq ToSet(got) \cup {h} BY <1>5, <1>6
<1>16. InTurn'
  <2>1. Before(ToSet(got'), InFlight') BY <1>1, <1>8, <1>10, <1>15 DEF InTurn, Before
  <2>2. Before(ToSet(pending'), Sent) /\ Before(ToSet(pending'), ToSet(outbox)) BY <1>1, <1>4 DEF InTurn, Before
  <2> QED BY <1>1, <1>2, <1>13, <1>14, <2>1, <2>2 DEF InTurn
<1>17. h \in ToSet(written) /\ InFlight \cup ToSet(got) \subseteq ToSet(written) BY <1>1, <1>8 DEF EndIsInFlight
<1>18. EndIsInFlight'
  <2>1. \A f \in ToSet(written) : f.no \in Nat BY <1>1, CourseSets
  <2>2. ASSUME NEW f \in InFlight', NEW g \in ToSet(written), g.no >= f.no PROVE g \in InFlight'
    <3>1. f \in InFlight /\ g \in InFlight BY <1>1, <1>8, <2>2 DEF EndIsInFlight
    <3>2. g # h
      <4> SUFFICES ASSUME g = h PROVE FALSE OBVIOUS
      <4>1. g.no < f.no BY <1>10, <2>2 DEF Before
      <4> QED BY <1>17, <2>1, <2>2, <3>1, <4>1
    <3> QED BY <1>8, <3>1, <3>2
  <2>3. InFlight' \cup ToSet(got') \subseteq ToSet(written) BY <1>8, <1>15, <1>17
  <2> QED BY <1>2, <2>2, <2>3 DEF EndIsInFlight
<1> QED BY <1>4, <1>5, <1>6, <1>8, <1>10, <1>11, <1>12, <1>16, <1>17, <1>18 DEF Course, h

LEMMA FramesOf ==
  ASSUME CourseTypes, NEW kinds \in Seq(Kinds), NEW call \in Nat \cup {NoCall}
  PROVE  /\ Frames(kinds, call) \in Seq(AnyFrame) /\ Len(Frames(kinds, call)) = Len(kinds)
         /\ \A i \in 1..Len(Frames(kinds, call)) : Frames(kinds, call)[i].no = Len(written) + i
         /\ \A f \in ToSet(Frames(kinds, call)) : f.call = call /\ \E i \in 1..Len(kinds) : f.kind = kinds[i]
<1> DEFINE F == Frames(kinds, call)
<1>1. Len(written) \in Nat /\ Len(kinds) \in Nat /\ DOMAIN kinds = 1..Len(kinds) BY DEF CourseTypes
<1>2. F = [i \in 1..Len(kinds) |-> [no |-> Len(written) + i, kind |-> kinds[i], call |-> call]] BY <1>1 DEF Frames
<1> HIDE DEF F
<1>3. ASSUME NEW i \in 1..Len(kinds)
      PROVE F[i] \in AnyFrame /\ F[i].no = Len(written) + i /\ F[i].kind = kinds[i] /\ F[i].call = call
  <2>1. F[i] = [no |-> Len(written) + i, kind |-> kinds[i], call |-> call] BY <1>2
  <2>2. Len(written) + i \in Nat /\ kinds[i] \in Kinds BY <1>1
  <2> QED BY <2>1, <2>2 DEF AnyFrame
<1>4. F \in Seq(AnyFrame) /\ Len(F) = Len(kinds) /\ DOMAIN F = 1..Len(kinds) BY <1>1, <1>2, <1>3
<1>5. ASSUME NEW f \in ToSet(F) PROVE f.call = call /\ \E i \in 1..Len(kinds) : f.kind = kinds[i]
  <2>1. PICK i \in 1..Len(kinds) : F[i] = f BY <1>4 DEF ToSet
  <2> QED BY <1>3, <2>1
<1> QED BY <1>3, <1>4, <1>5 DEF F

\* What the hub writes unasked.
LEMMA HubWrites ==
  ASSUME ClientInv, NEW kinds \in Seq(Kinds), \A i \in 1..Len(kinds) : kinds[i] # "paired",
         Queue(Frames(kinds, NoCall)), UNCHANGED <<wire, pending, calling, asked, calls, got, base>>,
         stage' = stage \/ (stage = "off" /\ stage' = "dialled")
  PROVE  /\ Course' /\ NothingYet' /\ AfterWelcome' /\ CallTypes' /\ AnsweredInTurn' /\ OwnAnswers'
         /\ InFlight' = InFlight \cup ToSet(Frames(kinds, NoCall))
         /\ ToSet(written') = ToSet(written) \cup ToSet(Frames(kinds, NoCall))
         /\ outbox' = outbox \o Frames(kinds, NoCall)
         /\ Frames(kinds, NoCall) \in Seq(AnyFrame) /\ Len(Frames(kinds, NoCall)) = Len(kinds)
<1> DEFINE F == Frames(kinds, NoCall)
<1>1. Course /\ NothingYet /\ AfterWelcome /\ CallTypes /\ AnsweredInTurn /\ OwnAnswers BY DEF ClientInv
<1>2. CourseTypes BY <1>1 DEF Course
<1>3. /\ F \in Seq(AnyFrame) /\ Len(F) = Len(kinds)
      /\ \A i \in 1..Len(F) : F[i].no = Len(written) + i
      /\ \A f \in ToSet(F) : f.call = NoCall /\ \E i \in 1..Len(kinds) : f.kind = kinds[i]
  <2>1. NoCall \in Nat \cup {NoCall} OBVIOUS
  <2> QED BY <1>2, <2>1, FramesOf, Zenon
<1>4. /\ Course'
      /\ InFlight' = InFlight \cup ToSet(F) /\ ToSet(written') = ToSet(written) \cup ToSet(F)
      /\ Before(ToSet(written), ToSet(F))
  BY <1>1, <1>3, Queued
<1>5. outbox' = outbox \o F /\ written' = written \o F BY DEF Queue
<1> HIDE DEF F
<1>6. wire' = wire /\ pending' = pending /\ calling' = calling /\ asked' = asked /\ calls' = calls /\ got' = got /\ base' = base
  OBVIOUS
<1>7. Len(written') \in Nat /\ Len(written) \in Nat /\ Len(written') >= Len(written)
  <2>1. written \in Seq(AnyFrame) BY <1>2 DEF CourseTypes
  <2> QED BY <1>3, <1>5, <2>1
<1>8. NothingYet' BY <1>1, <1>6 DEF NothingYet, Early
<1>9. CallTypes'
  <2>1. base \in 0..Len(written') BY <1>1, <1>7 DEF CallTypes
  <2> QED BY <1>1, <1>6, <2>1 DEF CallTypes
<1>10. \A f \in ToSet(F) : f.no > Len(written) /\ f.no \in Nat
  <2> TAKE f \in ToSet(F)
  <2>1. PICK i \in 1..Len(F) : F[i] = f BY <1>3, SetOf
  <2>2. f.no = Len(written) + i /\ i \in Nat /\ i > 0 BY <1>3, <2>1
  <2> QED BY <1>7, <2>2
<1>11. AfterWelcome'
  <2> SUFFICES ASSUME stage = "on" PROVE AfterWelcome' BY DEF AfterWelcome
  <2>1. \A f \in ToSet(F) : f.no > base BY <1>1, <1>7, <1>10 DEF CallTypes
  <2>2. \A f \in InFlight' \cup ToSet(got) : f.no > base BY <1>1, <1>4, <2>1 DEF AfterWelcome
  <2>3. ASSUME NEW f \in ToSet(written'), f.no > base, IsEvent(f) PROVE f \in ToSet(got) \cup InFlight'
    BY <1>1, <1>4, <2>3 DEF AfterWelcome
  <2>4. \A f \in ToSet(got) : IsEvent(f) BY <1>1 DEF AfterWelcome
  <2> QED BY <1>6, <2>2, <2>3, <2>4 DEF AfterWelcome, IsEvent
<1>12. AnsweredInTurn'
  <2>1. \A f \in ToSet(F) : f.call = NoCall /\ f.kind # "paired" BY <1>3
  <2>2. Asking' = Asking BY <1>6 DEF Asking
  <2> QED BY <1>1, <1>4, <1>6, <2>1, <2>2 DEF AnsweredInTurn
<1>13. OwnAnswers' BY <1>1, <1>6 DEF OwnAnswers
<1> QED BY <1>3, <1>4, <1>5, <1>8, <1>9, <1>11, <1>12, <1>13 DEF F

\* Frames that only move.
LEMMA OnlyMoved ==
  ASSUME ClientInv, Course', InFlight' = InFlight, UNCHANGED <<stage, written, got, base, calls, calling, asked>>,
         stage = "on" \/ pending' = pending
  PROVE  NothingYet' /\ AfterWelcome' /\ CallTypes' /\ AnsweredInTurn' /\ OwnAnswers'
<1>1. NothingYet /\ AfterWelcome /\ CallTypes /\ AnsweredInTurn /\ OwnAnswers BY DEF ClientInv
<1>2. NothingYet' BY <1>1 DEF NothingYet, Early
<1>3. AfterWelcome' BY <1>1 DEF AfterWelcome, IsEvent
<1>4. CallTypes' BY <1>1 DEF CallTypes
<1>5. AnsweredInTurn' BY <1>1 DEF AnsweredInTurn, Asking
<1>6. OwnAnswers' BY <1>1 DEF OwnAnswers
<1> QED BY <1>2, <1>3, <1>4, <1>5, <1>6

LEMMA HubAnswered ==
  ASSUME ClientInv, NEW kind \in {"paired", "error"}, HubAnswers(kind)
  PROVE  ClientInv'
<1> DEFINE c == Head(asked)
           F == Frames(<<kind>>, c)
<1>1. Course /\ NothingYet /\ AfterWelcome /\ CallTypes /\ AnsweredInTurn /\ OwnAnswers BY DEF ClientInv
<1>2. CourseTypes /\ NoCall \notin Nat BY <1>1, ClientConstants DEF Course
<1>3. /\ stage = "on" /\ stage' = "on" /\ asked # <<>> /\ asked' = Tail(asked) /\ Queue(F)
      /\ wire' = wire /\ pending' = pending /\ calling' = calling /\ calls' = calls /\ got' = got /\ base' = base
  BY DEF HubAnswers
<1>4. asked \in Seq(Nat) BY <1>1 DEF CallTypes
<1>5. /\ asked' \in Seq(Nat) /\ c \in Nat
      /\ DOMAIN asked' = 1..(Len(asked) - 1) /\ Len(asked) \in Nat /\ DOMAIN asked = 1..Len(asked) /\ c = asked[1] /\ 1 \in DOMAIN asked
      /\ \A i \in 1..(Len(asked) - 1) : asked'[i] = asked[i + 1] /\ i + 1 \in 1..Len(asked)
  BY <1>3, <1>4, SetOfTail
<1>6. <<kind>> \in Seq(Kinds) /\ Len(<<kind>>) = 1
  <2>1. kind \in Kinds BY DEF Kinds
  <2> QED BY <2>1
<1> HIDE DEF c
<1>7. /\ F \in Seq(AnyFrame) /\ Len(F) = 1
      /\ \A i \in 1..Len(F) : F[i].no = Len(written) + i
      /\ \A f \in ToSet(F) : f.call = c
  <2>1. c \in Nat \cup {NoCall} BY <1>5
  <2>2. /\ F \in Seq(AnyFrame) /\ Len(F) = Len(<<kind>>)
        /\ \A i \in 1..Len(F) : F[i].no = Len(written) + i
        /\ \A f \in ToSet(F) : f.call = c /\ \E i \in 1..Len(<<kind>>) : f.kind = <<kind>>[i]
    BY <1>2, <1>6, <2>1, FramesOf, Zenon
  <2> QED BY <1>6, <2>2
<1>8. /\ Course'
      /\ InFlight' = InFlight \cup ToSet(F) /\ ToSet(written') = ToSet(written) \cup ToSet(F)
      /\ Before(ToSet(written), ToSet(F))
  BY <1>1, <1>3, <1>7, Queued
<1>9. outbox' = outbox \o F /\ written' = written \o F BY <1>3 DEF Queue
<1> HIDE DEF F
<1>10. Len(written') \in Nat /\ Len(written) \in Nat /\ Len(written') >= Len(written)
  <2>1. written \in Seq(AnyFrame) BY <1>2 DEF CourseTypes
  <2> QED BY <1>7, <1>9, <2>1
<1>11. \A f \in ToSet(F) : f.no = Len(written) + 1
  <2> TAKE f \in ToSet(F)
  <2>1. PICK i \in 1..Len(F) : F[i] = f BY <1>7, SetOf
  <2> QED BY <1>7, <2>1
<1>12. NothingYet' /\ OfferAlone' BY <1>3 DEF NothingYet, Early, OfferAlone
<1>13. CallTypes'
  <2>1. base \in 0..Len(written') BY <1>1, <1>10 DEF CallTypes
  <2> QED BY <1>1, <1>3, <1>5, <2>1 DEF CallTypes
<1>14. AfterWelcome'
  <2>1. \A f \in ToSet(F) : f.no > base BY <1>1, <1>10, <1>11 DEF CallTypes
  <2>2. \A f \in InFlight' \cup ToSet(got) : f.no > base BY <1>1, <1>3, <1>8, <2>1 DEF AfterWelcome
  <2>3. ASSUME NEW f \in ToSet(written'), f.no > base, IsEvent(f) PROVE f \in ToSet(got) \cup InFlight'
    BY <1>1, <1>3, <1>8, <2>3 DEF AfterWelcome
  <2>4. \A f \in ToSet(got) : IsEvent(f) BY <1>1, <1>3 DEF AfterWelcome
  <2> QED BY <1>3, <2>2, <2>3, <2>4 DEF AfterWelcome, IsEvent
<1>15. AnsweredInTurn'
  <2>1. Asking' = Asking /\ Asking \in Nat BY <1>1, <1>3 DEF Asking, CallTypes
  <2>2. c \in 1..Asking BY <1>1, <1>5 DEF AnsweredInTurn
  <2>3. \A f \in ToSet(written) : f.call # NoCall => f.call \in 1..Asking /\ f.call < c
        /\ \A i \in DOMAIN asked : f.call < asked[i]
    BY <1>1, <1>5 DEF AnsweredInTurn
  <2>4. \A i \in DOMAIN asked' : asked'[i] = asked[i + 1] /\ i + 1 \in DOMAIN asked BY <1>5
  <2>5. \A i, j \in DOMAIN asked : i < j => asked[i] < asked[j] BY <1>1 DEF AnsweredInTurn
  <2>6. \A i \in DOMAIN asked' : c < asked'[i] /\ asked'[i] \in 1..Asking
    <3> TAKE i \in DOMAIN asked'
    <3>1. 1 < i + 1 BY <1>5
    <3>2. asked[1] < asked[i + 1] BY <1>5, <2>4, <2>5, <3>1
    <3>3. asked[i + 1] \in 1..Asking BY <1>1, <2>4 DEF AnsweredInTurn
    <3> QED BY <1>5, <2>4, <3>2, <3>3
  <2>7. \A i, j \in DOMAIN asked' : i < j => asked'[i] < asked'[j]
    <3> TAKE i, j \in DOMAIN asked'
    <3> HAVE i < j
    <3>1. i + 1 < j + 1 BY <1>5
    <3>2. asked[i + 1] < asked[j + 1] BY <2>4, <2>5, <3>1
    <3> QED BY <2>4, <3>2
  <2>8. \A f \in ToSet(F) : f.call = c /\ c # NoCall BY <1>2, <1>5, <1>7
  <2>9. ASSUME NEW f \in ToSet(written'), NEW g \in ToSet(written'), f.no < g.no, f.call # NoCall, g.call # NoCall
        PROVE  f.call < g.call
    <3>1. CASE f \in ToSet(written) /\ g \in ToSet(written) BY <1>1, <2>9, <3>1 DEF AnsweredInTurn
    <3>2. CASE f \in ToSet(written) /\ g \in ToSet(F) BY <2>3, <2>8, <2>9, <3>2
    <3>3. CASE f \in ToSet(F)
      <4>1. f.no = Len(written) + 1 BY <1>11, <3>3
      <4>2. g.no <= Len(written) + 1 /\ g.no \in Nat
        <5>1. CASE g \in ToSet(F) BY <1>10, <1>11, <5>1
        <5>2. CASE g \in ToSet(written)
          <6>1. g.no \in 1..Len(written) BY <1>2, <5>2, CourseSets
          <6> QED BY <1>10, <6>1
        <5> QED BY <1>8, <2>9, <5>1, <5>2
      <4> QED BY <1>10, <2>9, <4>1, <4>2
    <3> QED BY <1>8, <2>9, <3>1, <3>2, <3>3
  <2>10. ASSUME NEW f \in ToSet(written') PROVE f.kind = "paired" => f.call # NoCall
    BY <1>1, <1>8, <2>8, <2>10 DEF AnsweredInTurn
  <2>11. ASSUME NEW f \in ToSet(written'), f.call # NoCall
         PROVE  f.call \in 1..Asking /\ \A i \in DOMAIN asked' : f.call < asked'[i]
    <3>1. CASE f \in ToSet(written) BY <2>3, <2>4, <2>11, <3>1
    <3>2. CASE f \in ToSet(F) BY <2>2, <2>6, <2>8, <3>2
    <3> QED BY <1>8, <2>11, <3>1, <3>2
  <2> QED BY <2>1, <2>6, <2>7, <2>9, <2>10, <2>11 DEF AnsweredInTurn
<1>16. OwnAnswers' BY <1>1, <1>3 DEF OwnAnswers
<1> QED BY <1>8, <1>12, <1>13, <1>14, <1>15, <1>16 DEF ClientInv

LEMMA Called ==
  ASSUME ClientInv, PairingCall
  PROVE  ClientInv'
<1> DEFINE n == Len(calls) + 1
<1>1. Course /\ NothingYet /\ AfterWelcome /\ CallTypes /\ AnsweredInTurn /\ OwnAnswers BY DEF ClientInv
<1>2. /\ stage = "on" /\ stage' = "on" /\ calling = NoCall /\ calling' = n /\ asked' = Append(asked, n)
      /\ outbox' = outbox /\ wire' = wire /\ pending' = pending /\ calls' = calls /\ got' = got
      /\ written' = written /\ base' = base
  BY DEF PairingCall
<1>3. NoCall \notin Nat /\ asked \in Seq(Nat) /\ Len(calls) \in Nat /\ n \in Nat BY <1>1, ClientConstants DEF CallTypes
<1>4. /\ asked' \in Seq(Nat) /\ DOMAIN asked' = 1..(Len(asked) + 1) /\ Len(asked) \in Nat /\ DOMAIN asked = 1..Len(asked)
      /\ \A i \in 1..Len(asked) : asked'[i] = asked[i]
      /\ asked'[Len(asked) + 1] = n
  BY <1>2, <1>3, SetOfAppend
<1>5. Sent' = Sent BY <1>2 DEF Sent
<1>6. InFlight' = InFlight BY <1>2, <1>5 DEF InFlight
<1>7. Course' BY <1>1, <1>2, <1>5, <1>6 DEF Course, CourseTypes, InTurn, EndIsInFlight
<1>8. NothingYet' /\ OfferAlone' BY <1>2 DEF NothingYet, Early, OfferAlone
<1>9. AfterWelcome' BY <1>1, <1>2, <1>6 DEF AfterWelcome, IsEvent
<1>10. OwnAnswers' BY <1>1, <1>2 DEF OwnAnswers
<1> HIDE DEF n
<1>11. CallTypes' BY <1>1, <1>2, <1>4 DEF CallTypes, n
<1>12. Asking = Len(calls) /\ Asking' = Len(calls) + 1 /\ n = Len(calls) + 1 BY <1>2, <1>3 DEF Asking, n
<1>13. AnsweredInTurn'
  <2>1. ASSUME NEW f \in ToSet(written), f.call # NoCall
        PROVE  f.call \in 1..Asking' /\ \A i \in DOMAIN asked' : f.call < asked'[i]
    <3>1. f.call \in 1..Asking /\ \A i \in DOMAIN asked : f.call < asked[i] BY <1>1, <2>1 DEF AnsweredInTurn
    <3>2. f.call \in 1..Asking' /\ f.call < n BY <1>3, <1>12, <3>1
    <3>3. ASSUME NEW i \in DOMAIN asked' PROVE f.call < asked'[i]
      <4>1. CASE i \in 1..Len(asked) BY <1>4, <3>1, <4>1
      <4>2. CASE i = Len(asked) + 1 BY <1>4, <3>2, <4>2
      <4> QED BY <1>4, <3>3, <4>1, <4>2
    <3> QED BY <3>2, <3>3
  <2>2. \A i \in DOMAIN asked : asked[i] \in 1..Asking BY <1>1 DEF AnsweredInTurn
  <2>3. ASSUME NEW i \in DOMAIN asked' PROVE asked'[i] \in 1..Asking'
    <3>1. CASE i \in 1..Len(asked)
      <4>1. asked[i] \in 1..Asking BY <1>4, <2>2, <3>1
      <4> QED BY <1>3, <1>4, <1>12, <3>1, <4>1
    <3>2. CASE i = Len(asked) + 1 BY <1>3, <1>4, <1>12, <3>2
    <3> QED BY <1>4, <2>3, <3>1, <3>2
  <2>4. ASSUME NEW i \in DOMAIN asked', NEW j \in DOMAIN asked', i < j PROVE asked'[i] < asked'[j]
    <3>1. i \in 1..Len(asked) BY <1>4, <2>4
    <3>2. CASE j \in 1..Len(asked)
      <4>1. asked[i] < asked[j] BY <1>1, <1>4, <2>4, <3>1, <3>2 DEF AnsweredInTurn
      <4> QED BY <1>4, <3>1, <3>2, <4>1
    <3>3. CASE j = Len(asked) + 1
      <4>1. asked[i] \in 1..Asking BY <1>4, <2>2, <3>1
      <4> QED BY <1>3, <1>4, <1>12, <3>1, <3>3, <4>1
    <3> QED BY <1>4, <2>4, <3>2, <3>3
  <2> QED BY <1>1, <1>2, <2>1, <2>3, <2>4 DEF AnsweredInTurn
<1> QED BY <1>7, <1>8, <1>9, <1>10, <1>11, <1>13 DEF ClientInv

LEMMA EventTaken ==
  ASSUME ClientInv, TakeFrame
  PROVE  ClientInv'
<1> DEFINE h == Head(pending)
           e == [took |-> h.no, outcome |-> Outcome(h.kind), by |-> h.call]
           n == Len(calls) + 1
<1>1. Course /\ NothingYet /\ AfterWelcome /\ CallTypes /\ AnsweredInTurn /\ OwnAnswers BY DEF ClientInv
<1>2. /\ stage = "on" /\ stage' = "on" /\ pending # <<>> /\ pending' = Tail(pending)
      /\ outbox' = outbox /\ wire' = wire /\ asked' = asked /\ written' = written /\ base' = base
  BY DEF TakeFrame
<1>3. \/ ~IsEvent(h) /\ got' = got /\ calling' = calling /\ calls' = calls
      \/ /\ IsEvent(h) /\ got' = Append(got, h) /\ calling' = NoCall
         /\ calls' = IF calling = NoCall THEN calls ELSE Append(calls, e)
  BY DEF TakeFrame, IsEvent
<1>4. got' = got \/ got' = Append(got, Head(pending)) BY <1>3
<1>5. /\ Course' /\ InFlight = {h} \cup InFlight' /\ Before({h}, InFlight')
      /\ h \in AnyFrame /\ h \in ToSet(written)
      /\ Before(ToSet(got), {h})
  BY <1>1, <1>2, <1>4, FrameTaken
<1>6. NoCall \notin Nat /\ Len(calls) \in Nat /\ n \in Nat BY <1>1, ClientConstants DEF CallTypes
<1>7. CourseTypes /\ got \in Seq(AnyFrame) BY <1>1 DEF Course, CourseTypes
<1>8. h.kind \in Kinds /\ h.call \in Nat \cup {NoCall} /\ h.no \in Nat BY <1>5 DEF AnyFrame
<1>9. e.took = h.no /\ e.outcome = Outcome(h.kind) /\ e.by = h.call /\ e \in [took : Nat, outcome : {"ok", "refused", "protocol"}, by : Nat \cup {NoCall}]
  <2>1. Outcome(h.kind) \in {"ok", "refused", "protocol"} BY DEF Outcome
  <2> QED BY <1>8, <2>1
<1>10. ToSet(Append(got, h)) = ToSet(got) \cup {h} BY <1>5, <1>7, SetOfAppend
<1>11. calls \in Seq([took : Nat, outcome : {"ok", "refused", "protocol"}, by : Nat \cup {NoCall}]) BY <1>1 DEF CallTypes
<1>12. /\ Append(calls, e) \in Seq([took : Nat, outcome : {"ok", "refused", "protocol"}, by : Nat \cup {NoCall}])
       /\ Len(Append(calls, e)) = n /\ DOMAIN Append(calls, e) = 1..n /\ DOMAIN calls = 1..Len(calls)
       /\ \A i \in 1..Len(calls) : Append(calls, e)[i] = calls[i]
       /\ Append(calls, e)[n] = e
  BY <1>9, <1>11, SetOfAppend
<1> HIDE DEF h, e
<1>13. NothingYet' /\ OfferAlone' BY <1>2 DEF NothingYet, Early, OfferAlone
<1>14. ToSet(got') = IF IsEvent(h) THEN ToSet(got) \cup {h} ELSE ToSet(got) BY <1>3, <1>10
<1>15. AfterWelcome'
  <2>1. \A f \in InFlight' \cup ToSet(got') : f.no > base BY <1>1, <1>2, <1>5, <1>14 DEF AfterWelcome
  <2>2. ASSUME NEW f \in ToSet(written), f.no > base, IsEvent(f) PROVE f \in ToSet(got') \cup InFlight'
    BY <1>1, <1>2, <1>5, <1>14, <2>2 DEF AfterWelcome
  <2>3. \A f \in ToSet(got') : IsEvent(f) BY <1>1, <1>2, <1>14 DEF AfterWelcome
  <2> QED BY <1>2, <2>1, <2>2, <2>3 DEF AfterWelcome, IsEvent
<1>16. CASE ~IsEvent(h) \/ calling = NoCall
  <2>1. calls' = calls /\ calling' = calling BY <1>3, <1>16
  <2>2. CallTypes' BY <1>1, <1>2, <2>1 DEF CallTypes
  <2>3. AnsweredInTurn' BY <1>1, <1>2, <2>1 DEF AnsweredInTurn, Asking
  <2>4. OwnAnswers' BY <1>1, <1>14, <2>1 DEF OwnAnswers
  <2> QED BY <1>5, <1>13, <1>15, <2>2, <2>3, <2>4 DEF ClientInv
<1>17. CASE IsEvent(h) /\ calling # NoCall
  <2>1. calls' = Append(calls, e) /\ calling' = NoCall /\ calling = n BY <1>1, <1>3, <1>17 DEF CallTypes
  <2> HIDE DEF n
  <2>2. CallTypes' BY <1>1, <1>2, <1>12, <2>1 DEF CallTypes
  <2>3. Asking = n /\ Asking' = n BY <1>12, <1>17, <2>1 DEF Asking, n
  <2>4. AnsweredInTurn' BY <1>1, <1>2, <2>3 DEF AnsweredInTurn
  <2>5. OwnAnswers'
    <3> SUFFICES ASSUME NEW i \in 1..n
        PROVE  /\ \E g \in ToSet(got') : g.no = calls'[i].took
               /\ \A j \in 1..(i - 1) : calls'[j].took < calls'[i].took
               /\ calls'[i].outcome = "ok" => calls'[i].by # NoCall
               /\ calls'[i].by # NoCall => \E g \in ToSet(got') : g.call = calls'[i].by
               /\ calls'[i].outcome = "ok" /\ (\A j \in 1..(i - 1) : calls'[j].by = j) => calls'[i].by = i
      BY <1>12, <2>1 DEF OwnAnswers
    <3>1. n = Len(calls) + 1 BY DEF n
    <3>2. \A j \in 1..(i - 1) : j \in 1..Len(calls) /\ calls'[j] = calls[j] BY <1>6, <1>12, <2>1, <3>1
    <3>3. CASE i \in 1..Len(calls)
      <4>1. calls'[i] = calls[i] /\ i \in DOMAIN calls BY <1>12, <2>1, <3>3
      <4>2. /\ \E g \in ToSet(got) : g.no = calls[i].took
            /\ \A j \in 1..(i - 1) : calls[j].took < calls[i].took
            /\ calls[i].outcome = "ok" => calls[i].by # NoCall
            /\ calls[i].by # NoCall => \E g \in ToSet(got) : g.call = calls[i].by
            /\ calls[i].outcome = "ok" /\ (\A j \in 1..(i - 1) : calls[j].by = j) => calls[i].by = i
        BY <1>1, <4>1 DEF OwnAnswers
      <4> QED BY <1>14, <3>2, <4>1, <4>2
    <3>4. CASE i = n
      <4>1. calls'[i] = e BY <1>12, <2>1, <3>4
      <4>2. h \in ToSet(got') BY <1>14, <1>17
      <4>3. ASSUME e.outcome = "ok" PROVE h.call # NoCall
        <5>1. h.kind = "paired" BY <1>9, <4>3 DEF Outcome
        <5> QED BY <1>1, <1>5, <5>1 DEF AnsweredInTurn
      <4>4. ASSUME e.outcome = "ok", \A j \in 1..(n - 1) : calls[j].by = j PROVE h.call = n
        <5>1. h.call \in Nat /\ h.call \in 1..n BY <1>1, <1>5, <1>8, <2>3, <4>3, <4>4 DEF AnsweredInTurn
        <5>2. CASE n = 1 BY <5>1, <5>2
        <5>3. CASE n # 1
          <6>1. n - 1 \in 1..Len(calls) /\ n - 1 \in 1..(n - 1) BY <1>6, <3>1, <5>3
          <6>2. calls[n - 1].by = n - 1 BY <4>4, <6>1
          <6>3. n - 1 \in Nat /\ n - 1 # NoCall BY <1>6, <6>1
          <6>4. PICK g \in ToSet(got) : g.call = n - 1 BY <1>1, <1>12, <6>1, <6>2, <6>3 DEF OwnAnswers
          <6>5. g.no < h.no BY <1>5 DEF Before
          <6>6. g \in ToSet(written) BY <1>1 DEF Course, EndIsInFlight
          <6>7. g.call < h.call BY <1>1, <1>5, <4>3, <4>4, <6>3, <6>4, <6>5, <6>6 DEF AnsweredInTurn
          <6> QED BY <1>6, <5>1, <6>4, <6>7
        <5> QED BY <5>2, <5>3
      <4>5. i - 1 = n - 1 BY <3>4
      <4>6. (\A j \in 1..(n - 1) : calls'[j].by = j) => \A j \in 1..(n - 1) : calls[j].by = j BY <3>2, <4>5
      <4>7. ASSUME NEW j \in 1..(n - 1) PROVE calls'[j].took < e.took
        <5>1. j \in DOMAIN calls /\ calls'[j] = calls[j] BY <1>12, <3>2, <4>5
        <5>2. PICK g \in ToSet(got) : g.no = calls[j].took BY <1>1, <5>1 DEF OwnAnswers
        <5>3. g.no < h.no BY <1>5, <5>2 DEF Before
        <5> QED BY <1>9, <5>1, <5>2, <5>3
      <4> QED BY <1>9, <3>4, <4>1, <4>2, <4>3, <4>4, <4>6, <4>7
    <3> QED BY <1>6, <3>1, <3>3, <3>4
  <2> QED BY <1>5, <1>13, <1>15, <2>2, <2>4, <2>5 DEF ClientInv
<1> QED BY <1>16, <1>17

\* One who is not connected yet uses the first frame of a message.
LEMMA FirstUsed ==
  ASSUME ClientInv, Early, NEW kind, FirstFrame(kind),
         UNCHANGED <<outbox, pending, calling, asked, calls, got, written>>
  PROVE  /\ Course' /\ AnsweredInTurn' /\ OwnAnswers'
         /\ InFlight = ToSet(Head(wire)) \cup InFlight' /\ Before(ToSet(Head(wire)), InFlight')
         /\ Head(wire) \in Seq(AnyFrame) \ {<<>>} /\ Head(wire) \in ToSet(wire) /\ ToSet(wire') \subseteq ToSet(wire)
         /\ ToSet(Head(wire)) \subseteq ToSet(written) /\ Ascends(Head(wire)) /\ Head(wire)[1].kind = kind
         /\ got = <<>> /\ pending = <<>> /\ base = 0 /\ calls = <<>> /\ calling = NoCall /\ asked = <<>>
         /\ 0 \in 0..Len(written)
<1>1. Course /\ NothingYet /\ CallTypes /\ AnsweredInTurn /\ OwnAnswers BY DEF ClientInv
<1>2. got = <<>> /\ pending = <<>> /\ base = 0 /\ calls = <<>> /\ calling = NoCall /\ asked = <<>>
  BY <1>1 DEF NothingYet
<1>3. wire # <<>> /\ Head(wire)[1].kind = kind /\ wire' = Tail(wire) BY DEF FirstFrame
<1>4. AnsweredInTurn' BY <1>1 DEF AnsweredInTurn, Asking
<1>5. OwnAnswers' BY <1>1 DEF OwnAnswers
<1>6. 0 \in 0..Len(written) BY <1>1, <1>2 DEF CallTypes
<1> QED BY <1>1, <1>2, <1>3, <1>4, <1>5, <1>6, FrontDropped

LEMMA StillEarly ==
  ASSUME ClientInv, Early, NEW kind, FirstFrame(kind), stage' # "on",
         UNCHANGED <<outbox, pending, calling, asked, calls, got, written, base>>
  PROVE  NothingYet' /\ AfterWelcome' /\ CallTypes'
<1>1. NothingYet /\ CallTypes BY DEF ClientInv
<1>2. NothingYet' BY <1>1 DEF NothingYet, Early
<1>3. CallTypes' BY <1>1 DEF CallTypes
<1> QED BY <1>2, <1>3 DEF AfterWelcome

LEMMA BecomesClient ==
  ASSUME ClientInv, Welcomed
  PROVE  ClientInv'
<1> DEFINE h == Head(wire)
           n == Len(h)
<1>1. /\ stage = "hello" /\ stage' = "on" /\ FirstFrame("welcome") /\ base' = Last(h).no
      /\ UNCHANGED <<outbox, pending, calling, asked, calls, got, written>>
  BY DEF Welcomed
<1>2. Early BY <1>1 DEF Early
<1>3. /\ Course' /\ AnsweredInTurn' /\ OwnAnswers'
      /\ InFlight = ToSet(h) \cup InFlight' /\ Before(ToSet(h), InFlight')
      /\ h \in Seq(AnyFrame) \ {<<>>} /\ ToSet(h) \subseteq ToSet(written) /\ Ascends(h)
      /\ got = <<>>
  BY <1>1, <1>2, FirstUsed
<1>4. Course /\ CourseTypes /\ EndIsInFlight /\ CallTypes BY DEF ClientInv, Course
<1>5. DOMAIN h = 1..n /\ n \in Nat /\ n # 0 /\ n \in DOMAIN h BY <1>3
<1>6. got' = got /\ written' = written /\ calls' = calls /\ asked' = asked /\ calling' = calling BY <1>1
<1>14. n = Len(h) OBVIOUS
<1> HIDE DEF h, n
<1>7. Last(h) = h[n] /\ h[n] \in ToSet(h) /\ h[n] \in ToSet(written) BY <1>3, <1>5, <1>14 DEF Last, ToSet
<1>8. base' = h[n].no /\ h[n].no \in 1..Len(written) /\ h[n].no \in Nat BY <1>1, <1>4, <1>7, CourseSets
<1>9. ASSUME NEW f \in ToSet(written), f.no > h[n].no PROVE f \in InFlight'
  <2>1. f.no \in Nat BY <1>4, <1>9, CourseSets
  <2>2. f \in InFlight BY <1>3, <1>4, <1>7, <1>8, <1>9, <2>1 DEF EndIsInFlight
  <2>3. f \notin ToSet(h)
    <3> SUFFICES ASSUME f \in ToSet(h) PROVE FALSE OBVIOUS
    <3>1. PICK i \in 1..n : h[i] = f BY <1>5 DEF ToSet
    <3>2. CASE i = n BY <1>8, <1>9, <2>1, <3>1, <3>2
    <3>3. CASE i # n
      <4>1. i < n BY <1>5, <3>1, <3>3
      <4>2. h[i].no < h[n].no BY <1>3, <1>5, <4>1 DEF Ascends
      <4> QED BY <1>8, <1>9, <2>1, <3>1, <4>2
    <3> QED BY <3>2, <3>3
  <2> QED BY <1>3, <2>2, <2>3
<1>10. ToSet(got) = {} BY <1>3, SetOfEmpty
<1>11. AfterWelcome'
  <2>1. \A f \in InFlight' : f.no > h[n].no
    <3> TAKE f \in InFlight'
    <3>1. h[n].no < f.no BY <1>3, <1>7 DEF Before
    <3>2. f \in ToSet(written) BY <1>3, <1>4 DEF EndIsInFlight
    <3>3. f.no \in Nat BY <1>4, <3>2, CourseSets
    <3> QED BY <1>8, <3>1, <3>3
  <2> QED BY <1>6, <1>8, <1>9, <1>10, <2>1 DEF AfterWelcome
<1>12. CallTypes'
  <2>1. base' \in 0..Len(written) BY <1>8
  <2> QED BY <1>4, <1>6, <2>1 DEF CallTypes
<1>13. NothingYet' /\ OfferAlone' BY <1>1 DEF NothingYet, Early, OfferAlone
<1> QED BY <1>3, <1>11, <1>12, <1>13 DEF ClientInv

LEMMA ClientInitially == ClientInit => ClientInv
<1> SUFFICES ASSUME ClientInit PROVE ClientInv OBVIOUS
<1>1. /\ stage = "off" /\ outbox = <<>> /\ wire = <<>> /\ pending = <<>>
      /\ calling = NoCall /\ asked = <<>> /\ calls = <<>>
      /\ got = <<>> /\ written = <<>> /\ base = 0
  BY DEF ClientInit
<1>2. ToSet(<<>>) = {} BY SetOfEmpty
<1>3. Sent = {} BY <1>1, <1>2 DEF Sent
<1>4. InFlight = {} BY <1>1, <1>2, <1>3 DEF InFlight
<1>5. CourseTypes
  <2>1. <<>> \in Seq(AnyFrame) /\ <<>> \in Seq(Seq(AnyFrame) \ {<<>>}) /\ DOMAIN <<>> = {} OBVIOUS
  <2> QED BY <1>1, <2>1 DEF CourseTypes
<1>6. InTurn
  <2>1. DOMAIN <<>> = {} OBVIOUS
  <2>2. Ascends(<<>>) BY <2>1 DEF Ascends
  <2> QED BY <1>1, <1>2, <1>3, <1>4, <2>1, <2>2 DEF InTurn, Before
<1>7. EndIsInFlight BY <1>1, <1>2, <1>4 DEF EndIsInFlight
<1>8. NothingYet /\ AfterWelcome BY <1>1 DEF NothingYet, AfterWelcome
<1>9. CallTypes
  <2>1. <<>> \in Seq([took : Nat, outcome : {"ok", "refused", "protocol"}, by : Nat \cup {NoCall}]) /\ <<>> \in Seq(Nat) /\ Len(<<>>) = 0
    OBVIOUS
  <2> QED BY <1>1, <2>1 DEF CallTypes
<1>10. AnsweredInTurn /\ OwnAnswers
  <2>1. DOMAIN <<>> = {} OBVIOUS
  <2> QED BY <1>1, <1>2, <2>1 DEF AnsweredInTurn, OwnAnswers
<1>11. OfferAlone
  <2>1. Len(<<>>) = 0 OBVIOUS
  <2> QED BY <1>1, <1>2, <2>1 DEF OfferAlone
<1> QED BY <1>5, <1>6, <1>7, <1>8, <1>9, <1>10, <1>11 DEF ClientInv, Course

LEMMA OneKind ==
  ASSUME NEW kind \in Kinds
  PROVE  <<kind>> \in Seq(Kinds) /\ Len(<<kind>>) = 1 /\ \A i \in 1..Len(<<kind>>) : <<kind>>[i] = kind
OBVIOUS

LEMMA FirstOut ==
  ASSUME NEW frames \in Seq(AnyFrame), Len(frames) = 1
  PROVE  Len(<<>> \o frames) <= 1
<1> DEFINE e == <<>>
<1>1. e \in Seq(AnyFrame) /\ Len(e) = 0 OBVIOUS
<1> HIDE DEF e
<1>2. Len(e \o frames) = Len(e) + Len(frames) BY <1>1, SetOfConcat
<1>3. Len(e \o frames) <= 1 BY <1>1, <1>2
<1> QED BY <1>3, Zenon DEF e

LEMMA ClientStep == ClientInv /\ [ClientNext]_clientVars => ClientInv'
<1> SUFFICES ASSUME ClientInv, [ClientNext]_clientVars PROVE ClientInv' OBVIOUS
<1>1. Course /\ NothingYet /\ AfterWelcome /\ CallTypes /\ AnsweredInTurn /\ OwnAnswers /\ OfferAlone BY DEF ClientInv
<1>2. CourseTypes BY <1>1 DEF Course
<1>3. CASE Dial
  <2> DEFINE kinds == <<"challenge">>
  <2>1. /\ stage = "off" /\ stage' = "dialled" /\ Queue(Frames(kinds, NoCall))
        /\ UNCHANGED <<wire, pending, calling, asked, calls, got, base>>
    BY <1>3 DEF Dial
  <2>2. kinds \in Seq(Kinds) /\ Len(kinds) = 1 /\ \A i \in 1..Len(kinds) : kinds[i] = "challenge"
    <3>1. "challenge" \in Kinds BY DEF Kinds
    <3> QED BY <3>1, OneKind
  <2>3. \A i \in 1..Len(kinds) : kinds[i] # "paired" BY <2>2
  <2> HIDE DEF kinds
  <2>4. /\ Course' /\ NothingYet' /\ AfterWelcome' /\ CallTypes' /\ AnsweredInTurn' /\ OwnAnswers'
        /\ ToSet(written') = ToSet(written) \cup ToSet(Frames(kinds, NoCall))
        /\ outbox' = outbox \o Frames(kinds, NoCall)
        /\ Frames(kinds, NoCall) \in Seq(AnyFrame) /\ Len(Frames(kinds, NoCall)) = Len(kinds)
    BY <2>1, <2>2, <2>3, HubWrites
  <2>5. outbox = <<>> /\ wire = <<>> /\ written = <<>> BY <1>1, <2>1 DEF OfferAlone
  <2>6. Len(outbox') <= 1 BY <2>2, <2>4, <2>5, FirstOut
  <2>7. ToSet(wire') = {} /\ ToSet(written) = {} BY <2>1, <2>5, SetOfEmpty
  <2>8. \A f \in ToSet(Frames(kinds, NoCall)) : f.kind # "answer"
    <3>1. NoCall \in Nat \cup {NoCall} OBVIOUS
    <3>2. \A f \in ToSet(Frames(kinds, NoCall)) : \E i \in 1..Len(kinds) : f.kind = kinds[i]
      BY <1>2, <2>2, <3>1, FramesOf, Zenon
    <3> QED BY <2>2, <3>2
  <2>9. OfferAlone' BY <2>1, <2>4, <2>6, <2>7, <2>8 DEF OfferAlone
  <2> QED BY <2>4, <2>9 DEF ClientInv
<1>4. ASSUME NEW kinds \in Seq(Kinds), HubWelcomes(kinds), \A i \in 1..Len(kinds) : kinds[i] # "paired" PROVE ClientInv'
  <2>1. /\ stage = "hello" /\ stage' = "hello" /\ Queue(Frames(kinds, NoCall))
        /\ UNCHANGED <<wire, pending, calling, asked, calls, got, base>>
    BY <1>4 DEF HubWelcomes
  <2>2. Course' /\ NothingYet' /\ AfterWelcome' /\ CallTypes' /\ AnsweredInTurn' /\ OwnAnswers' BY <1>4, <2>1, HubWrites
  <2>3. OfferAlone' BY <2>1 DEF OfferAlone
  <2> QED BY <2>2, <2>3 DEF ClientInv
<1>5. ASSUME NEW kind \in {"holding", "answer", "error"}, HubPairs(kind) PROVE ClientInv'
  <2> DEFINE kinds == <<kind>>
  <2>1. /\ stage \in {"offering", "held"} /\ stage' = stage /\ outbox = <<>> /\ Queue(Frames(kinds, NoCall))
        /\ kind = "answer" => stage = "held"
        /\ UNCHANGED <<wire, pending, calling, asked, calls, got, base>>
    BY <1>5 DEF HubPairs
  <2>2. kinds \in Seq(Kinds) /\ Len(kinds) = 1 /\ \A i \in 1..Len(kinds) : kinds[i] = kind
    <3>1. kind \in Kinds BY DEF Kinds
    <3> QED BY <3>1, OneKind
  <2>3. \A i \in 1..Len(kinds) : kinds[i] # "paired" BY <2>2
  <2> HIDE DEF kinds
  <2>4. /\ Course' /\ NothingYet' /\ AfterWelcome' /\ CallTypes' /\ AnsweredInTurn' /\ OwnAnswers'
        /\ InFlight' = InFlight \cup ToSet(Frames(kinds, NoCall))
        /\ ToSet(written') = ToSet(written) \cup ToSet(Frames(kinds, NoCall))
        /\ outbox' = outbox \o Frames(kinds, NoCall)
        /\ Frames(kinds, NoCall) \in Seq(AnyFrame) /\ Len(Frames(kinds, NoCall)) = Len(kinds)
    BY <2>1, <2>2, <2>3, HubWrites
  <2>5. Len(outbox') <= 1 BY <2>1, <2>2, <2>4, FirstOut
  <2>6. \A f \in ToSet(Frames(kinds, NoCall)) : f.kind = kind
    <3>1. NoCall \in Nat \cup {NoCall} OBVIOUS
    <3>2. \A f \in ToSet(Frames(kinds, NoCall)) : \E i \in 1..Len(kinds) : f.kind = kinds[i]
      BY <1>2, <2>2, <3>1, FramesOf, Zenon
    <3> QED BY <2>2, <3>2
  <2>7. OfferAlone' BY <1>1, <2>1, <2>4, <2>5, <2>6 DEF OfferAlone
  <2> QED BY <2>4, <2>7 DEF ClientInv
<1>6. ASSUME NEW kind \in {"presence", "event", "error", "ping", "unrouted"}, HubSends(kind) PROVE ClientInv'
  <2>1. /\ stage = "on" /\ stage' = "on" /\ Queue(Frames(<<kind>>, NoCall))
        /\ UNCHANGED <<wire, pending, calling, asked, calls, got, base>>
    BY <1>6 DEF HubSends
  <2>2. <<kind>> \in Seq(Kinds) /\ \A i \in 1..Len(<<kind>>) : <<kind>>[i] # "paired"
    <3>1. kind \in Kinds BY DEF Kinds
    <3>2. kind # "paired" OBVIOUS
    <3> QED BY <3>1, <3>2, OneKind
  <2>3. Course' /\ NothingYet' /\ AfterWelcome' /\ CallTypes' /\ AnsweredInTurn' /\ OwnAnswers' BY <2>1, <2>2, HubWrites
  <2>4. OfferAlone' BY <2>1 DEF OfferAlone
  <2> QED BY <2>3, <2>4 DEF ClientInv
<1>7. ASSUME NEW n, Flush(n) PROVE ClientInv'
  <2> DEFINE a == SubSeq(outbox, 1, n)
  <2>1. /\ Course' /\ InFlight' = InFlight
        /\ ToSet(wire') = ToSet(wire) \cup {a}
        /\ Len(a) = n /\ Len(outbox') = Len(outbox) - n
        /\ Len(outbox) \in Nat /\ n \in 1..Len(outbox)
    BY <1>1, <1>7, Flushed
  <2>2. UNCHANGED <<stage, pending, calling, asked, calls, got, written, base>> BY <1>7 DEF Flush
  <2>3. NothingYet' /\ AfterWelcome' /\ CallTypes' /\ AnsweredInTurn' /\ OwnAnswers' BY <2>1, <2>2, OnlyMoved
  <2> HIDE DEF a
  <2>4. OfferAlone'
    <3> SUFFICES ASSUME stage \in {"off", "dialled", "offering", "held"} PROVE OfferAlone' BY <2>2 DEF OfferAlone
    <3>1. Len(outbox) <= 1 BY <1>1 DEF OfferAlone
    <3>2. n = 1 /\ Len(outbox') <= 1 BY <2>1, <3>1
    <3>3. stage # "off"
      <4>1. outbox # <<>> BY <2>1
      <4> QED BY <1>1, <4>1 DEF OfferAlone
    <3> QED BY <1>1, <2>1, <2>2, <3>2, <3>3 DEF OfferAlone
  <2> QED BY <2>1, <2>3, <2>4 DEF ClientInv
<1>8. ASSUME NEW to \in {"hello", "offering", "failed"}, Challenged(to) PROVE ClientInv'
  <2>1. /\ stage = "dialled" /\ stage' = to /\ FirstFrame("challenge")
        /\ UNCHANGED <<outbox, pending, calling, asked, calls, got, written, base>>
    BY <1>8 DEF Challenged
  <2>2. Early /\ stage' # "on" BY <2>1 DEF Early
  <2>3. Course' /\ AnsweredInTurn' /\ OwnAnswers' /\ ToSet(wire') \subseteq ToSet(wire) BY <2>1, <2>2, FirstUsed
  <2>4. NothingYet' /\ AfterWelcome' /\ CallTypes' BY <2>1, <2>2, StillEarly
  <2>5. OfferAlone' BY <1>1, <2>1, <2>3 DEF OfferAlone
  <2> QED BY <2>3, <2>4, <2>5 DEF ClientInv
<1>9. CASE Held
  <2>1. /\ stage \in {"offering", "held"} /\ stage' = "held" /\ FirstFrame("holding")
        /\ UNCHANGED <<outbox, pending, calling, asked, calls, got, written, base>>
    BY <1>9 DEF Held
  <2>2. Early /\ stage' # "on" BY <2>1 DEF Early
  <2>3. /\ Course' /\ AnsweredInTurn' /\ OwnAnswers' /\ ToSet(wire') \subseteq ToSet(wire)
        /\ InFlight = ToSet(Head(wire)) \cup InFlight'
        /\ Head(wire) \in Seq(AnyFrame) \ {<<>>} /\ Head(wire) \in ToSet(wire) /\ Head(wire)[1].kind = "holding"
    BY <2>1, <2>2, FirstUsed
  <2>4. NothingYet' /\ AfterWelcome' /\ CallTypes' BY <2>1, <2>2, StillEarly
  <2>5. \A f \in ToSet(Head(wire)) : f.kind = "holding"
    <3>1. Len(Head(wire)) = 1 BY <1>1, <2>1, <2>3 DEF OfferAlone
    <3> QED BY <2>3, <3>1, SetOf
  <2>6. OfferAlone' BY <1>1, <2>1, <2>3, <2>5 DEF OfferAlone
  <2> QED BY <2>3, <2>4, <2>6 DEF ClientInv
<1>10. CASE PairingAnswered \/ RefusedByHub
  <2>1. /\ Early /\ stage' \notin {"off", "dialled", "offering", "held", "on"} /\ \E kind \in {"answer", "error"} : FirstFrame(kind)
        /\ UNCHANGED <<outbox, pending, calling, asked, calls, got, written, base>>
    BY <1>10 DEF PairingAnswered, RefusedByHub, Early
  <2>2. PICK kind \in {"answer", "error"} : FirstFrame(kind) BY <2>1
  <2>3. Course' /\ AnsweredInTurn' /\ OwnAnswers' BY <2>1, <2>2, FirstUsed
  <2>4. NothingYet' /\ AfterWelcome' /\ CallTypes' BY <2>1, <2>2, StillEarly
  <2>5. OfferAlone' BY <2>1 DEF OfferAlone
  <2> QED BY <2>3, <2>4, <2>5 DEF ClientInv
<1>11. CASE Welcomed BY <1>11, BecomesClient
<1>12. CASE ReadMessage
  <2>1. Course' /\ InFlight' = InFlight BY <1>1, <1>12, MessageRead
  <2>2. stage = "on" /\ UNCHANGED <<stage, written, got, base, calls, calling, asked>> BY <1>12 DEF ReadMessage
  <2>3. NothingYet' /\ AfterWelcome' /\ CallTypes' /\ AnsweredInTurn' /\ OwnAnswers' BY <2>1, <2>2, OnlyMoved
  <2>4. OfferAlone' BY <2>2 DEF OfferAlone
  <2> QED BY <2>1, <2>3, <2>4 DEF ClientInv
<1>13. CASE TakeFrame BY <1>13, EventTaken
<1>14. CASE PairingCall BY <1>14, Called
<1>15. ASSUME NEW kind \in {"paired", "error"}, HubAnswers(kind) PROVE ClientInv' BY <1>15, HubAnswered
<1>16. CASE Closed \/ UNCHANGED clientVars
  <2>1. UNCHANGED <<outbox, wire, pending, calling, asked, calls, got, written, base>> /\ (stage' = stage \/ stage' = "failed")
    BY <1>16 DEF Closed, clientVars
  <2>2. Sent' = Sent BY <2>1 DEF Sent
  <2>3. InFlight' = InFlight BY <2>1, <2>2 DEF InFlight
  <2>4. Course' BY <1>1, <2>1, <2>2, <2>3 DEF Course, CourseTypes, InTurn, EndIsInFlight
  <2>5. NothingYet' BY <1>1, <2>1 DEF NothingYet, Early
  <2>6. AfterWelcome' BY <1>1, <2>1, <2>3 DEF AfterWelcome, IsEvent
  <2>7. CallTypes' BY <1>1, <2>1 DEF CallTypes
  <2>8. AnsweredInTurn' BY <1>1, <2>1 DEF AnsweredInTurn, Asking
  <2>9. OwnAnswers' BY <1>1, <2>1 DEF OwnAnswers
  <2>10. OfferAlone' BY <1>1, <2>1, <2>3 DEF OfferAlone
  <2> QED BY <2>4, <2>5, <2>6, <2>7, <2>8, <2>9, <2>10 DEF ClientInv
<1>17. ASSUME NEW kinds \in {<<"error">>, <<"welcome">>, <<"welcome", "presence">>, <<"welcome", "presence", "presence">>}
       PROVE  kinds \in Seq(Kinds) /\ \A i \in 1..Len(kinds) : kinds[i] # "paired"
  <2>1. "error" \in Kinds /\ "welcome" \in Kinds /\ "presence" \in Kinds BY DEF Kinds
  <2>2. CASE kinds = <<"error">> BY <2>1, <2>2
  <2>3. CASE kinds = <<"welcome">> BY <2>1, <2>3
  <2>4. CASE kinds = <<"welcome", "presence">> BY <2>1, <2>4
  <2>5. CASE kinds = <<"welcome", "presence", "presence">> BY <2>1, <2>5
  <2> QED BY <2>2, <2>3, <2>4, <2>5
<1>18. ASSUME NEW kinds \in {<<"error">>, <<"welcome">>, <<"welcome", "presence">>, <<"welcome", "presence", "presence">>},
              HubWelcomes(kinds)
       PROVE  ClientInv'
  BY <1>4, <1>17, <1>18
<1> QED BY <1>3, <1>5, <1>6, <1>7, <1>8, <1>9, <1>10, <1>11, <1>12, <1>13, <1>14, <1>15, <1>16, <1>18 DEF ClientNext

\* Every event written after the welcome's message is returned by next once and in order,
\* or is on its way; each pairing call that ended took one of them, in turn; a call has
\* its own answer unless an earlier one took something else; and the answer to an offered
\* pairing is not passed over (client lib.rs connect, next, read_message,
\* pairing_offered, pairing_answer, Pairing::answer).
THEOREM EventsAreHandedOut == ClientSpec => []EventsReachTheCaller
<1>1. ClientInv => EventsReachTheCaller
  <2> SUFFICES ASSUME ClientInv PROVE EventsReachTheCaller OBVIOUS
  <2>1. Course /\ CourseTypes /\ InTurn /\ EndIsInFlight /\ AfterWelcome /\ OwnAnswers /\ OfferAlone BY DEF ClientInv, Course
  <2>2. \A f \in ToSet(written) : f.no \in Nat BY <2>1, CourseSets
  <2>3. InFlight \cup ToSet(got) \subseteq ToSet(written) BY <2>1 DEF EndIsInFlight
  <2>4. ToSet(got) \cap InFlight = {}
    <3> SUFFICES ASSUME NEW f \in ToSet(got), f \in InFlight PROVE FALSE OBVIOUS
    <3>1. f.no < f.no BY <2>1 DEF InTurn, Before
    <3> QED BY <2>2, <2>3, <3>1
  <2>5. \A i, j \in DOMAIN got : i < j => got[i].no < got[j].no BY <2>1 DEF InTurn, Ascends
  <2>6. ASSUME stage = "on"
        PROVE {f \in ToSet(got) \cup InFlight : IsEvent(f)} = {f \in ToSet(written) : f.no > base /\ IsEvent(f)}
    BY <2>1, <2>3, <2>6 DEF AfterWelcome
  <2>7. stage = "on" => \A f \in ToSet(got) : IsEvent(f) BY <2>1 DEF AfterWelcome
  <2>8. \A i \in DOMAIN calls :
            /\ \E g \in ToSet(got) : g.no = calls[i].took
            /\ \A j \in 1..(i - 1) : calls[j].took < calls[i].took
            /\ calls[i].outcome = "ok" /\ (\A j \in 1..(i - 1) : calls[j].by = j) => calls[i].by = i
    BY <2>1 DEF OwnAnswers
  <2>9. stage = "held" => \A f \in ToSet(written) : f.kind = "answer" => f \in InFlight BY <2>1 DEF OfferAlone
  <2> QED BY <2>4, <2>5, <2>6, <2>7, <2>8, <2>9 DEF EventsReachTheCaller
<1> QED BY <1>1, ClientInitially, ClientStep, PTL DEF ClientSpec
=============================================================================
