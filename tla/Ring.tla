-------------------------------- MODULE Ring --------------------------------
(***************************************************************************)
(* One stream's ring (crates/relay/src/ring.rs): the bounded recent        *)
(* history a subscriber backfills from. An entry is the envelope's seq and *)
(* its coalesce key; the encoded bytes are left out.                       *)
(*                                                                         *)
(* Here and in the modules above this one, a definition commented "Wrong:" *)
(* is a mistake the code could have made where the definition after it     *)
(* models what it does; nothing uses it, and a property is violated if it  *)
(* takes its place.                                                        *)
(***************************************************************************)
EXTENDS Integers, Sequences, FiniteSets, Limits

CONSTANTS Keys, NoKey    \* coalesce keys; NoKey is the empty one

NoRing     == [kind |-> "none", epoch |-> 0, seq |-> 0, entries |-> <<>>, touched |-> 0]
NoPosition == [epoch |-> 0, seq |-> 0, given |-> FALSE]
Position(e, n) == [epoch |-> e, seq |-> n, given |-> TRUE]

Entries == [seq : Nat \ {0}, key : Keys \cup {NoKey}]
Rings   == [kind : {"session", "telemetry"}, epoch : Nat, seq : Nat,
            entries : Seq(Entries), touched : Nat]

\* The subsequence of s at the indices I: its j-th item is the one at the
\* index of rank j. Retaining and filtering are both this.
AtIndices(s, I) ==
  [j \in 1..Cardinality(I) |->
     s[CHOOSE i \in I : Cardinality({x \in I : x <= i}) = j]]

Capacity(kind) == IF kind = "session" THEN RingSessionEvents ELSE RingTelemetry

NewRing(kind, epoch, touched) ==
  [kind |-> kind, epoch |-> epoch, seq |-> 0, entries |-> <<>>, touched |-> touched]

\* Drop the oldest retained entry.
EvictOldest(r) == [r EXCEPT !.entries = Tail(@)]

\* Wrong: a full ring turns the new entry away instead of the oldest.
PublishInKeepsOldest(r, key, touched) ==
  [r EXCEPT !.seq     = @ + 1,
            !.touched = touched,
            !.entries = IF Len(@) >= Capacity(r.kind) THEN @
                        ELSE Append(@, [seq |-> r.seq + 1, key |-> key])]

\* Stamp the next seq and retain the entry, evicting past the capacity. A
\* capacity of zero retains nothing and still advances the seq.
PublishIn(r, key, touched) ==
  LET entry    == [seq |-> r.seq + 1, key |-> key]
      retained == Append(r.entries, entry)
  IN  [r EXCEPT !.seq     = @ + 1,
                !.touched = touched,
                !.entries = IF Capacity(r.kind) = 0 THEN @
                            ELSE IF Len(retained) > Capacity(r.kind) THEN Tail(retained)
                            ELSE retained]

\* Where the entries after since begin: from the start when since is absent or
\* from another epoch.
After(r, since) ==
  IF since.given /\ since.epoch = r.epoch THEN since.seq ELSE 0

\* Everything retained after since.
BackfillEntries(r, since) ==
  AtIndices(r.entries, {i \in DOMAIN r.entries : r.entries[i].seq > After(r, since)})

FirstRetained(r) == IF r.entries = <<>> THEN r.seq + 1 ELSE r.entries[1].seq

\* Wrong: one missing entry goes unnoticed.
TruncatedLate(r, since) ==
  IF r = NoRing THEN since.given /\ since.seq > 0
  ELSE \/ FirstRetained(r) > After(r, since) + 2
       \/ since.given /\ since.epoch # r.epoch /\ since.seq > 0

\* Whether the subscriber's record has a gap before what it is sent. With no
\* ring at all, any position past the start is of a ring that is gone.
Truncated(r, since) ==
  IF r = NoRing THEN since.given /\ since.seq > 0
  ELSE \/ FirstRetained(r) > After(r, since) + 1
       \/ since.given /\ since.epoch # r.epoch /\ since.seq > 0

=============================================================================
