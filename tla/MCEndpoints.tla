---------------------------- MODULE MCEndpoints ----------------------------
(* What runs at the two ends of a hub: on devices and beside a box. The parts  *)
(* keep no state in common, so each behaviour runs one of them and the others  *)
(* stand still.                                                                *)
EXTENDS ReplayWindow, Certificates, Feed, SealedStream, BoxState, Client, Framing

CONSTANTS i1, i2, e1, e2, q1, q2, n1, n2

\* A command, the result of another and a grant; and a command its sender may not give.
MCSays ==
  [k \in {q1, q2} \X {n1, n2} |->
     [label |-> IF k = <<q2, n1>> THEN "grant" ELSE "command", to |-> Me,
      scope |-> CASE k = <<q1, n1>> -> "view" [] k = <<q2, n2>> -> "approve" [] OTHER -> Nothing,
      answers |-> IF k = <<q1, n2>> THEN n1 ELSE Nothing]]

\* One certificate starts a little later than the first envelopes arrive, one ends.
MCLeafOf ==
  [s \in {q1, q2} |-> [from |-> IF s = q1 THEN 1 ELSE 0, until |-> IF s = q1 THEN 9 ELSE 3, scopes |-> {"view"}]]

W(a, b) == [from |-> a, to |-> b]
T(s, role, scopes, pair, revoke) ==
  [subject |-> s, key |-> e1, role |-> role, scopes |-> scopes, mayPair |-> pair, mayRevoke |-> revoke]

MCWindows == {W(2, 3), W(1, 4), W(0, 3)}

\* A delegate with little and one with much, two devices, a box, and what issue refuses.
MCSpecs ==
  { [terms |-> T(i2, "client", {"view"}, TRUE, FALSE), window |-> W(1, 3)],
    [terms |-> T(i2, "client", {"view", "approve"}, TRUE, FALSE), window |-> W(1, 4)],
    [terms |-> T(i1, "client", {"view", "approve"}, FALSE, FALSE), window |-> W(1, 2)],
    [terms |-> T(i1, "client", {}, FALSE, TRUE), window |-> W(1, 2)],
    [terms |-> T(i1, "box", {"view"}, FALSE, FALSE), window |-> W(2, 4)],
    [terms |-> T(i1, "box", {"approve"}, FALSE, TRUE), window |-> W(0, 9)] }

\* A sample, and one whose tags end early, before its time.
MCBoxFrames == { [readable |-> r, kind |-> "sample", atMs |-> r] : r \in BOOLEAN }

\* Bound: one such frame in a log.
OneUnreadable == \A i, j \in DOMAIN log : i # j => log[i].read.readable \/ log[j].read.readable

\* Bound: the connector's clock, less than the box's.
OwnClockBound == ownTime < LastBoxTime

\* Frames of line ends and digits, one with a length of two bytes, one of no bytes; and
\* one over the limit behind one within it.
MCBodies == { << <<3, 2>>, <<4, 3, 2, 5>>, <<>> >>, << <<1>>, <<0, 0, 0, 0, 0>> >> }

MCPrincipals == {i1, i2}
MCAgreementKeys == {e1, e2}

VARIABLE part    \* which of them this behaviour is about

Others(p) ==
  /\ p # "commands" => UNCHANGED replayVars
  /\ p # "certificates" => UNCHANGED certVars
  /\ p # "feed" => UNCHANGED feedVars
  /\ p # "stream" => UNCHANGED streamVars
  /\ p # "box" => UNCHANGED boxVars
  /\ p # "client" => UNCHANGED clientVars
  /\ p # "framing" => UNCHANGED framingVars

MCInit ==
  /\ part \in {"commands", "certificates", "feed", "stream", "box", "client", "framing"}
  /\ ReplayInit /\ CertInit /\ FeedInit /\ StreamInit /\ BoxInit /\ ClientInit /\ FramingInit
  /\ OwnClockBound /\ (part # "feed" => boxTime = 0 /\ ownTime = 0)
  /\ part # "framing" => ~chunks /\ Len(body) = 2

MCNext ==
  /\ \/ part = "commands" /\ ReplayNext
     \/ part = "certificates" /\ CertNext
     \/ part = "feed" /\ FeedNext /\ OneUnreadable' /\ OwnClockBound'
     \/ part = "stream" /\ StreamNext
     \/ part = "box" /\ BoxNext
     \/ part = "client" /\ ClientNext
     \/ part = "framing" /\ FramingNext
  /\ Others(part) /\ UNCHANGED part

MCSpec ==
  MCInit /\ [][MCNext]_<<part, replayVars, certVars, feedVars, streamVars, boxVars, clientVars,
                       framingVars>>
=============================================================================
