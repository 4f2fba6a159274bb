-------------------------------- MODULE Client --------------------------------
(***************************************************************************)
(* The client (crates/client/src/lib.rs): connecting, the frames of a      *)
(* message waiting in pending, next, and the two pairing calls that wait   *)
(* for the next event and take it for their answer; and the other kind of  *)
(* connection, which offers a pairing and waits.                           *)
(*                                                                         *)
(* The hub queues frames for a client and sends any number of them, from   *)
(* the front, as one message. A frame is its number, its kind, and the     *)
(* pairing call it answers, if any. Sealing is left out: a command that    *)
(* does not open is an event too (on_envelope).                            *)
(***************************************************************************)
EXTENDS Integers, Sequences, SequencesExt

CONSTANTS
  NoCall,
  MaxFrames,    \* bound: frames the hub writes
  MaxCalls      \* bound: pairing calls

ASSUME ClientAssumption == MaxFrames \in Nat /\ MaxCalls \in Nat /\ NoCall \notin Nat

VARIABLES
  stage,      \* "off", "dialled", "hello", "on"; "offering", "held", "answered"; or "failed"
  outbox,     \* frames the hub has queued for it
  wire,       \* messages on the way
  pending,    \* frames of the last message not handed out yet
  calling,    \* the pairing call that waits, or NoCall
  asked,      \* pairing calls the hub has not answered
  calls,      \* the event each call took, and what became of the call
  got,        \* frames handed out as events, to the caller or to a call
  written,    \* frames the hub has queued, all of them
  base        \* how many there were up to the end of the Welcome's message

clientVars == <<stage, outbox, wire, pending, calling, asked, calls, got, written, base>>

ClientInit ==
  /\ stage = "off" /\ outbox = <<>> /\ wire = <<>> /\ pending = <<>>
  /\ calling = NoCall /\ asked = <<>> /\ calls = <<>>
  /\ got = <<>> /\ written = <<>> /\ base = 0

Frames(kinds, call) == [i \in DOMAIN kinds |-> [no |-> Len(written) + i, kind |-> kinds[i], call |-> call]]

\* The hub queues frames: they are sent later.
Queue(frames) ==
  /\ Len(written) + Len(frames) <= MaxFrames
  /\ outbox' = outbox \o frames /\ written' = written \o frames

-----------------------------------------------------------------------------
\* The hub, as a client meets it: a challenge first.
Dial ==
  /\ stage = "off" /\ stage' = "dialled"
  /\ Queue(Frames(<<"challenge">>, NoCall))
  /\ UNCHANGED <<wire, pending, calling, asked, calls, got, base>>

\* What is queued at that moment is one message.
Flush(n) ==
  /\ n \in 1..Len(outbox)
  /\ wire' = Append(wire, SubSeq(outbox, 1, n))
  /\ outbox' = SubSeq(outbox, n + 1, Len(outbox))
  /\ UNCHANGED <<stage, pending, calling, asked, calls, got, written, base>>

\* A hello is answered by an error, or by the welcome and everybody who is online.
HubWelcomes(kinds) ==
  /\ stage = "hello" /\ Len(written) = 1
  /\ Queue(Frames(kinds, NoCall))
  /\ UNCHANGED <<stage, wire, pending, calling, asked, calls, got, base>>

\* A pairing's offer is held, or refused; and then answered. Each is a message of its own.
HubPairs(kind) ==
  /\ stage \in {"offering", "held"} /\ outbox = <<>>
  /\ Len(written) = (IF stage = "offering" THEN 1 ELSE 2)
  /\ kind \in (IF stage = "offering" THEN {"holding", "error"} ELSE {"holding", "answer", "error"})
  /\ Queue(Frames(<<kind>>, NoCall))
  /\ UNCHANGED <<stage, wire, pending, calling, asked, calls, got, base>>

\* To a client that is connected it sends what it likes, when it likes.
HubSends(kind) ==
  /\ stage = "on"
  /\ Queue(Frames(<<kind>>, NoCall))
  /\ UNCHANGED <<stage, wire, pending, calling, asked, calls, got, base>>

\* And it answers what it was asked, in turn.
HubAnswers(kind) ==
  /\ stage = "on" /\ asked # <<>>
  /\ Queue(Frames(<<kind>>, Head(asked)))
  /\ asked' = Tail(asked)
  /\ UNCHANGED <<stage, wire, pending, calling, calls, got, base>>

-----------------------------------------------------------------------------
\* first_frame: a message is read, its first frame is used and no other.
FirstFrame(kind) == wire # <<>> /\ Head(wire)[1].kind = kind /\ wire' = Tail(wire)

\* connect and Pairing::offer: the challenge of a hub by another name is refused.
\* Otherwise the hello or the offer is sent.
Challenged(to) ==
  /\ stage = "dialled" /\ to \in {"hello", "offering", "failed"}
  /\ FirstFrame("challenge")
  /\ stage' = to
  /\ UNCHANGED <<outbox, pending, calling, asked, calls, got, written, base>>

\* connect: the welcome makes a client, with nothing pending.
Welcomed ==
  /\ stage = "hello" /\ FirstFrame("welcome")
  /\ stage' = "on" /\ base' = Last(Head(wire)).no
  /\ UNCHANGED <<outbox, pending, calling, asked, calls, got, written>>

\* Pairing::offer, and Pairing::answer past every frame that holds no answer.
Held ==
  /\ stage \in {"offering", "held"} /\ FirstFrame("holding")
  /\ stage' = "held"
  /\ UNCHANGED <<outbox, pending, calling, asked, calls, got, written, base>>

PairingAnswered ==
  /\ stage = "held" /\ FirstFrame("answer")
  /\ stage' = "answered"
  /\ UNCHANGED <<outbox, pending, calling, asked, calls, got, written, base>>

\* Any of them, refused by the hub.
RefusedByHub ==
  /\ stage \in {"hello", "offering", "held"} /\ FirstFrame("error")
  /\ stage' = "failed"
  /\ UNCHANGED <<outbox, pending, calling, asked, calls, got, written, base>>

\* Wrong: a message is read while frames of the last one are still pending.
MayReadEarly == TRUE

MayRead == pending = <<>>

\* read_message, from next, which reads only when nothing is pending.
ReadMessage ==
  /\ stage = "on" /\ MayRead /\ wire # <<>>
  /\ pending' = Head(wire) /\ wire' = Tail(wire)
  /\ UNCHANGED <<stage, outbox, calling, asked, calls, got, written, base>>

\* What next returns as an event. The rest it answers or passes over: keepalives, and
\* envelopes of no kind or to no channel.
Events == {"presence", "event", "error", "paired"}

\* What a pairing call makes of the next event, whichever it is.
Outcome(kind) ==
  CASE kind = "paired" -> "ok" [] kind = "error" -> "refused" [] OTHER -> "protocol"

\* next takes a frame; a waiting pairing call takes the event.
TakeFrame ==
  /\ stage = "on" /\ pending # <<>>
  /\ pending' = Tail(pending)
  /\ IF Head(pending).kind \notin Events THEN UNCHANGED <<got, calling, calls>>
     ELSE /\ got' = Append(got, Head(pending))
          /\ calling' = NoCall
          /\ calls' = IF calling = NoCall THEN calls
                      ELSE Append(calls, [took |-> Head(pending).no, outcome |-> Outcome(Head(pending).kind),
                                          by |-> Head(pending).call])
  /\ UNCHANGED <<stage, outbox, wire, asked, written, base>>

\* pairing_offered and pairing_answer: ask, then wait for the next event.
PairingCall ==
  /\ stage = "on" /\ calling = NoCall /\ Len(calls) < MaxCalls
  /\ calling' = Len(calls) + 1 /\ asked' = Append(asked, Len(calls) + 1)
  /\ UNCHANGED <<stage, outbox, wire, pending, calls, got, written, base>>

\* The hub closes, or the transport fails: every call fails.
Closed ==
  /\ stage \in {"dialled", "hello", "on", "offering", "held"}
  /\ stage' = "failed"
  /\ UNCHANGED <<outbox, wire, pending, calling, asked, calls, got, written, base>>

ClientNext ==
  \/ Dial \/ Welcomed \/ Held \/ PairingAnswered \/ RefusedByHub \/ ReadMessage \/ TakeFrame \/ PairingCall \/ Closed
  \/ \E to \in {"hello", "offering", "failed"} : Challenged(to)
  \/ \E n \in 1..MaxFrames : Flush(n)
  \/ \E kinds \in {<<"error">>, <<"welcome">>, <<"welcome", "presence">>, <<"welcome", "presence", "presence">>} :
       HubWelcomes(kinds)
  \/ \E kind \in {"holding", "answer", "error"} : HubPairs(kind)
  \/ \E kind \in {"presence", "event", "error", "ping", "unrouted"} : HubSends(kind)
  \/ \E kind \in {"paired", "error"} : HubAnswers(kind)

ClientSpec == ClientInit /\ [][ClientNext]_clientVars

-----------------------------------------------------------------------------
IsEvent(f) == f.kind \in Events

\* The frames on the way to a client, wherever they are now.
Sent == UNION {ToSet(message) : message \in ToSet(wire)}

InFlight == ToSet(pending) \cup Sent \cup ToSet(outbox)

\* "The next event" (next): every event the hub wrote after the Welcome's message is
\* returned by next once and in order, or is on its way, whichever way the hub cut the
\* stream into messages. What the Welcome's own message holds after the Welcome is not
\* among them (DirectoryReachesTheCaller). Of what next returned, each pairing call that
\* ended took one event, in turn, and the caller has the others: a call whose event is
\* no answer fails, and drops it. A call that returns an answer has its own, unless an
\* earlier call took something else. The answer to an offered pairing is never passed over.
EventsReachTheCaller ==
  /\ stage = "on" =>
       /\ \A i, j \in DOMAIN got : i < j => got[i].no < got[j].no
       /\ ToSet(got) \cap InFlight = {}
       /\ {f \in ToSet(got) \cup InFlight : IsEvent(f)} =
            {f \in ToSet(written) : f.no > base /\ IsEvent(f)}
       /\ \A f \in ToSet(got) : IsEvent(f)
       /\ \A i \in DOMAIN calls :
            /\ \E g \in ToSet(got) : g.no = calls[i].took
            /\ \A j \in 1..(i - 1) : calls[j].took < calls[i].took
            /\ calls[i].outcome = "ok" /\ (\A j \in 1..(i - 1) : calls[j].by = j) => calls[i].by = i
  /\ stage = "held" =>
       \A f \in ToSet(written) : f.kind = "answer" => f \in InFlight

\* "`Presence` is the account's directory: every online principal right after
\* `Welcome`, then each change" (docs/PROTOCOL.md): a client that is connected is
\* handed every presence the hub wrote for it, sooner or later.
DirectoryReachesTheCaller ==
  stage = "on" =>
    \A f \in ToSet(written) : f.kind = "presence" => f \in ToSet(got) \cup InFlight
=============================================================================
