----------------------------- MODULE Certificates -----------------------------
(***************************************************************************)
(* Certificates and the chains a verifier accepts (crates/keys/src/lib.rs): *)
(* the account root issues and renews, a principal it allowed to pair may  *)
(* do either for another, and verify_chain decides what comes of it. A     *)
(* delegate is not trusted to use issue and renew: it may sign any body,   *)
(* a predecessor it made up included.                                      *)
(*                                                                         *)
(* A certificate is its body and the key that signed it; nobody signs with *)
(* another's key. Encodings, their sizes, scope names and labels are left  *)
(* out (decode_body).                                                      *)
(***************************************************************************)
EXTENDS Integers, Sequences, FiniteSets

CONSTANTS
  Root, Principals,    \* identity keys
  AgreementKeys,
  RootSpecs,           \* what the root is asked to issue: CertSpec
  Windows,             \* validity windows a delegate may write: [from, to]
  MaxCertificate,      \* MAX_CERTIFICATE_MS
  MaxGrants,           \* bound: certificates the root signs
  LastTime,            \* bound on the clock
  NoCert

Scopes == {"approve", "view"}
NeverDelegable == {"approve"}
BoxForbids == {"approve"}
Roles == {"client", "box"}

Terms == [subject : Principals, key : AgreementKeys, role : Roles, scopes : SUBSET Scopes,
          mayPair : BOOLEAN, mayRevoke : BOOLEAN]

\* sign_certificate; renews is the predecessor, or NoCert.
Signed(signer, issuer, terms, window, renews) ==
  [terms |-> terms, issuer |-> issuer, from |-> window.from, to |-> window.to,
   renews |-> renews, signer |-> signer]

\* NoCert is no certificate the root issues.
ASSUME CertificatesAssumption ==
  /\ Root \notin Principals /\ {MaxCertificate, MaxGrants, LastTime} \subseteq Nat
  /\ \A w \in Windows : w.from \in Nat /\ w.to \in Nat
  /\ \A spec \in RootSpecs :
       /\ spec.terms \in Terms /\ spec.window.from \in Nat /\ spec.window.to \in Nat
       /\ Signed(Root, Root, spec.terms, spec.window, NoCert) # NoCert

VARIABLES
  today,
  grants,   \* certificates the root has signed
  leaf,     \* one a delegate has signed, or NoCert
  made      \* how: "issue", "renew" or "by hand"

certVars == <<today, grants, leaf, made>>

CertInit == today = 1 /\ grants = {} /\ leaf = NoCert /\ made = "no"

Bounded(w) == w.from # 0 /\ w.to # 0
ShortEnough(w) == w.from < w.to /\ w.to - w.from <= MaxCertificate
BoxMayHold(t) == t.role = "box" => ~t.mayPair /\ t.scopes \cap BoxForbids = {}

\* What issue refuses, and what renew refuses.
MayIssue(t, w) == Bounded(w) /\ ShortEnough(w) /\ BoxMayHold(t) /\ (t.role = "box" => ~t.mayRevoke)
MayRenew(c, w) == Bounded(w) /\ ShortEnough(w) /\ c.renews = NoCert

-----------------------------------------------------------------------------
InWindow(c) == c.from <= today /\ today <= c.to

\* Wrong: only what may be done is compared, not the key it is sealed to.
SameTermsButKey(c, d) == c.terms = [d.terms EXCEPT !.key = c.terms.key]

SameTerms(c, d) == c.terms = d.terms

\* Wrong: the predecessor has to be in its window still.
PredecessorLive(d) == d.issuer = Root /\ d.signer = Root /\ d.renews = NoCert /\ InWindow(d)

\* The predecessor is the root's word, and not itself a renewal. Its window is not looked at.
Predecessor(d) == d.issuer = Root /\ d.signer = Root /\ d.renews = NoCert

\* verify_renewal.
Renews(c) == Predecessor(c.renews) /\ SameTerms(c, c.renews)

\* What a delegate may pass on: nothing only the root grants, and nothing it does not hold.
Delegable(c, parent) ==
  c.terms.scopes \subseteq parent.terms.scopes /\ c.terms.scopes \cap NeverDelegable = {}

\* verify_chain, leaf first; the first failing check refuses, and no more than that is told.
Verifies(chain) ==
  /\ Len(chain) \in {1, 2}
  /\ \A i \in DOMAIN chain :
       LET c == chain[i] IN
       /\ c.terms.subject # Root
       /\ c.issuer = IF i = Len(chain) THEN Root ELSE chain[i + 1].terms.subject
       /\ c.signer = c.issuer
       /\ Bounded(c) /\ ShortEnough(c) /\ InWindow(c)
       /\ BoxMayHold(c.terms)
       /\ c.renews # NoCert => Renews(c)
       /\ i < Len(chain) =>
            /\ chain[i + 1].terms.mayPair
            /\ c.to <= chain[i + 1].to
            /\ ~c.terms.mayRevoke
            /\ c.renews = NoCert => Delegable(c, chain[i + 1])

\* Every chain there is to present.
Chains ==
  {<<c>> : c \in grants} \cup
  (IF leaf = NoCert THEN {} ELSE {<<leaf>>} \cup {<<leaf, c>> : c \in grants} \cup {<<leaf, leaf>>})

-----------------------------------------------------------------------------
\* The root issues what it is asked to, or refuses.
RootIssues(spec) ==
  /\ Cardinality(grants) < MaxGrants /\ leaf = NoCert
  /\ MayIssue(spec.terms, spec.window)
  /\ grants' = grants \cup {Signed(Root, Root, spec.terms, spec.window, NoCert)}
  /\ UNCHANGED <<today, leaf, made>>

\* The root renews what it issued.
RootRenews(c, w) ==
  /\ Cardinality(grants) < MaxGrants /\ leaf = NoCert
  /\ MayRenew(c, w)
  /\ grants' = grants \cup {Signed(Root, Root, c.terms, w, c)}
  /\ UNCHANGED <<today, leaf, made>>

\* A delegate renews by the book.
DelegateRenews(d, c, w) ==
  /\ leaf = NoCert
  /\ MayRenew(c, w)
  /\ leaf' = Signed(d, d, c.terms, w, c) /\ made' = "renew"
  /\ UNCHANGED <<today, grants>>

\* A delegate issues by the book.
DelegateIssues(d, t, w) ==
  /\ leaf = NoCert
  /\ MayIssue(t, w)
  /\ leaf' = Signed(d, d, t, w, NoCert) /\ made' = "issue"
  /\ UNCHANGED <<today, grants>>

\* Or it signs what it likes, naming itself or the root as the issuer and renewing
\* anything, the same terms under its own signature included.
DelegateSigns(d, issuer, t, w, renews) ==
  /\ leaf = NoCert
  /\ leaf' = Signed(d, issuer, t, w, renews) /\ made' = "by hand"
  /\ UNCHANGED <<today, grants>>

MadeUp(d, t, w) == {Signed(d, issuer, t, w, NoCert) : issuer \in {d, Root}}

CertTick == today < LastTime /\ today' = today + 1 /\ UNCHANGED <<grants, leaf, made>>

CertNext ==
  \/ \E spec \in RootSpecs : RootIssues(spec)
  \/ \E w \in Windows, c \in grants :
       RootRenews(c, w) \/ \E d \in Principals : DelegateRenews(d, c, w)
  \/ /\ leaf = NoCert
     /\ \E d \in Principals, t \in Terms, w \in Windows :
       \/ DelegateIssues(d, t, w)
       \/ \E issuer \in {d, Root}, renews \in grants \cup MadeUp(d, t, w) \cup {NoCert} :
            DelegateSigns(d, issuer, t, w, renews)
  \/ CertTick

CertSpec == CertInit /\ [][CertNext]_certVars

-----------------------------------------------------------------------------
\* No delegate widens anything, whatever it signs: a chain that verifies has a leaf
\* with a scope only the root grants, or an agreement key along with it, or the
\* right to revoke, only if the root itself signed that for that subject; and any
\* other scope only if the root gave it to the subject or to a delegate. Nothing
\* verifies past the end of the root's own signature in its chain.
AuthorityFromRoot ==
  \A chain \in Chains : Verifies(chain) =>
    LET c == chain[1] IN
    /\ c.terms.mayRevoke => c \in grants
    /\ \A s \in c.terms.scopes \cap NeverDelegable :
         \E g \in grants : g.terms.subject = c.terms.subject /\ g.terms.key = c.terms.key /\ s \in g.terms.scopes
    /\ \A s \in c.terms.scopes :
         \E g \in grants : s \in g.terms.scopes /\ (g.terms.subject = c.terms.subject \/ g.terms.mayPair)
    /\ \E g \in grants : g.to >= c.to /\ InWindow(g) /\ (g = c \/ g.terms.mayPair)

\* issue and renew refuse "what every verifier would": what the root issued verifies
\* by itself through its whole window, and what a delegate renewed verifies while its
\* own certificate outlives it, however long the predecessor has been over; the one
\* thing it cannot keep alive is the right to revoke.
IssuedCertificatesVerify ==
  /\ \A c \in grants : InWindow(c) => Verifies(<<c>>)
  /\ \A d \in grants :
       /\ leaf # NoCert /\ made = "renew" /\ InWindow(leaf) /\ InWindow(d)
       /\ d.terms.subject = leaf.signer /\ d.terms.mayPair /\ leaf.to <= d.to
       => (Verifies(<<leaf, d>>) <=> ~leaf.terms.mayRevoke)

\* Both: what a verifier accepts goes back to the root's word, and what was issued by
\* the book is accepted for as long as it says.
CertificatesSound == AuthorityFromRoot /\ IssuedCertificatesVerify
=============================================================================
