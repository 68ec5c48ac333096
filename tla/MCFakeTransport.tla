--------------------------- MODULE MCFakeTransport ---------------------------
(***************************************************************************)
(* FakeTransport for TLC, with the one property that adds up payloads.     *)
(***************************************************************************)
EXTENDS FakeTransport, MessageBodies

IsPending(id) ==
    \E i \in 1..Len(batch \o signals) :
        LET signal == (batch \o signals)[i] IN
            signal.type # "closing" /\ signal.streamId = id

\* No body byte is lost, invented, repeated or reordered: the DataReceived
\* payloads of a stream are what the peer sent before its end, all of it once
\* no signal of the stream is left to consume.
BodyConserved ==
    \A id \in StreamIds :
        /\ IsPrefix(BodyOf(History, id), peerBody[id])
        /\ IsPending(id) \/ BodyOf(History, id) = peerBody[id]
=============================================================================
