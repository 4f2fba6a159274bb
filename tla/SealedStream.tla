----------------------------- MODULE SealedStream -----------------------------
(***************************************************************************)
(* A published stream, sealed under a key that rotates                     *)
(* (crates/connector/src/relay.rs), the grants that carry its keys and a   *)
(* device's reader (crates/seal/src/stream.rs). The hub in between may     *)
(* lose, repeat and reorder what it delivers, grants too; a connector that *)
(* restarts counts from 1 again under a new key (main.rs).                 *)
(*                                                                         *)
(* A frame is the key it is sealed under and its counter, both signed, and *)
(* its number among all that was published, which nothing in the code      *)
(* knows.                                                                  *)
(* One channel; ciphertexts and signatures are left out: a frame nobody    *)
(* published is refused.                                                   *)
(***************************************************************************)
EXTENDS Integers, Sequences

CONSTANTS
  NoReader,
  MaxPublished, MaxStreamKeys    \* bounds

ASSUME StreamAssumption == MaxPublished \in Nat /\ MaxStreamKeys \in Nat \ {0}

VARIABLES
  counter, streamKey, keyFrom,    \* Relay
  round,      \* the run of the connector
  published,  \* all that was published
  wrapped,    \* grants made: a key and the first counter it covers
  reader,     \* StreamReader: keys and last; or NoReader
  \* for the properties
  position,   \* the number of the frame the reader is at
  told        \* the last frame opened: what came before it, and what it was said to skip

streamVars == <<counter, streamKey, keyFrom, round, published, wrapped, reader, position, told>>

NothingTold == [before |-> 0, no |-> 0, skipped |-> 0]

StreamInit ==
  /\ counter = 0 /\ streamKey = 1 /\ keyFrom = 1 /\ round = 1
  /\ published = <<>> /\ wrapped = {} /\ reader = NoReader /\ position = 0 /\ told = NothingTold

-----------------------------------------------------------------------------
\* seal_frame: the key and the counter are signed with it.
SealFrame(n) == [key |-> streamKey, counter |-> n, round |-> round]

\* frame: sealed under the key of the moment with the next counter.
PublishFrame ==
  /\ Len(published) < MaxPublished
  /\ counter' = counter + 1
  /\ published' = Append(published, SealFrame(counter + 1))
  /\ UNCHANGED <<streamKey, keyFrom, round, wrapped, reader, position, told>>

\* Wrong: a new key starts a new count.
AfterRotationReset == 0

\* rotate: "The counters carry on".
AfterRotation == counter

Rotate ==
  /\ streamKey < MaxStreamKeys
  /\ streamKey' = streamKey + 1 /\ counter' = AfterRotation /\ keyFrom' = AfterRotation + 1
  /\ UNCHANGED <<round, published, wrapped, reader, position, told>>

\* The process starts again: Relay::new under a fresh key.
RestartStream ==
  /\ streamKey < MaxStreamKeys
  /\ streamKey' = streamKey + 1 /\ counter' = 0 /\ keyFrom' = 1 /\ round' = round + 1
  /\ UNCHANGED <<published, wrapped, reader, position, told>>

\* wrap_key, for a device that asks.
WrapKey ==
  /\ wrapped' = wrapped \cup {[key |-> streamKey, from |-> keyFrom, round |-> round]}
  /\ UNCHANGED <<counter, streamKey, keyFrom, round, published, reader, position, told>>

-----------------------------------------------------------------------------
\* open_grant, then StreamReader::new, also in place of a reader there was.
NewReader(grant) ==
  /\ reader' = [keys |-> [k \in {grant.key} |-> grant], last |-> 0]
  /\ position' = 0 /\ told' = NothingTold
  /\ UNCHANGED <<counter, streamKey, keyFrom, round, published, wrapped>>

\* add_key, of a rotation or of an earlier key.
AddKey(grant) ==
  /\ reader # NoReader
  /\ reader' = [keys |-> [k \in DOMAIN reader.keys \cup {grant.key} |->
                            IF k = grant.key THEN grant ELSE reader.keys[k]],
                 last |-> reader.last]
  /\ UNCHANGED <<counter, streamKey, keyFrom, round, published, wrapped, position, told>>

\* Not UnknownKey, BeforeGrant or OutOfOrder, in this order.
Opens(f) ==
  /\ f.key \in DOMAIN reader.keys
  /\ f.counter >= reader.keys[f.key].from
  /\ f.counter > reader.last

\* open: any frame there ever was, at any time; a refusal changes nothing.
OpenFrame(no) ==
  /\ reader # NoReader /\ Opens(published[no])
  /\ reader' = [keys |-> reader.keys, last |-> published[no].counter]
  /\ position' = no
  /\ told' = [before |-> position, no |-> no, skipped |-> published[no].counter - reader.last - 1]
  /\ UNCHANGED <<counter, streamKey, keyFrom, round, published, wrapped>>

\* rewind_to the frame before one of this run, or to the start.
RewindTo(no) ==
  /\ reader # NoReader /\ no <= position
  /\ no # 0 => published[no].round = round
  /\ reader' = [keys |-> reader.keys, last |-> IF no = 0 THEN 0 ELSE published[no].counter]
  /\ position' = no /\ told' = NothingTold
  /\ UNCHANGED <<counter, streamKey, keyFrom, round, published, wrapped>>

StreamNext ==
  \/ PublishFrame \/ Rotate \/ RestartStream \/ WrapKey
  \/ \E grant \in wrapped : NewReader(grant) \/ AddKey(grant)
  \/ \E no \in DOMAIN published : OpenFrame(no)
  \/ \E no \in 0..Len(published) : RewindTo(no)

StreamSpec == StreamInit /\ [][StreamNext]_streamVars

-----------------------------------------------------------------------------
\* The reader's keys are all of one run of the connector, and so is what is said below.
RunOf(k) == reader.keys[k].round
OneRun == \A k, l \in DOMAIN reader.keys : RunOf(k) = RunOf(l)
OfItsRun(no) == \E k \in DOMAIN reader.keys : published[no].round = RunOf(k)

\* However the hub reorders and repeats, and through rotations and late grants, a
\* reader with the keys of one run of the connector opens frames in the order they
\* were published, and says truly how many it passed over since the one before; and
\* it refuses nothing published since that it has the key of ("no subscriber sees one
\* go backwards", rotate).
GapsToldTruly ==
  reader # NoReader /\ OneRun =>
    /\ told.before > 0 => told.no > told.before /\ told.skipped = told.no - told.before - 1
    /\ \A no \in DOMAIN published :
         OfItsRun(no) /\ published[no].key \in DOMAIN reader.keys => (Opens(published[no]) <=> no > position)
=============================================================================
