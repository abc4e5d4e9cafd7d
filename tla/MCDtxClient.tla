----------------------------- MODULE MCDtxClient ----------------------------
(***************************************************************************)
(* DtxClient on small instances: what the device may send on its own and   *)
(* the payloads it may answer with.                                        *)
(***************************************************************************)
EXTENDS DtxClient, TLC

Event(id, len) == [conv |-> 0, id |-> id, expects |-> FALSE, notify |-> FALSE,
                   ok |-> TRUE, frags |-> 1, len |-> len]
Capabilities   == [Event(1, 1) EXCEPT !.notify = TRUE]
Question       == [Event(1, 1) EXCEPT !.expects = TRUE, !.frags = 2]

\* An event numbered ahead of the client's requests, the capabilities, and a
\* request of the device's own in two fragments.
TurnsUnsolicited == {Event(2, 2), Capabilities, Question}
\* A short answer in two fragments.
TurnsReplies     == {[ok |-> TRUE, frags |-> 2, len |-> 1]}

\* A request of the device's own that does not decode, one that does, and one with
\* a conversation index the client does not know.
LiveUnsolicited  == {[Event(1, 1) EXCEPT !.expects = TRUE, !.ok = FALSE],
                     [Event(1, 3) EXCEPT !.expects = TRUE],
                     [Event(1, 1) EXCEPT !.conv = 2]}
LiveReplies      == {[ok |-> ok, frags |-> 1, len |-> 2] : ok \in BOOLEAN}

OverlapUnsolicited == {Question}

Symmetric == Permutations(Channels) \cup Permutations(Callers)
=============================================================================
