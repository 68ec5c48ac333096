-------------------------- MODULE MCQuicTransport --------------------------
(***************************************************************************)
(* QuicTransport for TLC, with the properties that add up payloads.        *)
(***************************************************************************)
EXTENDS QuicTransport, MessageBodies

\* While no call throws, what the application got of a live stream and what
\* QUIC still holds of it are together what the peer sent, in order, however
\* the arrivals, the polls and the bound on reads interleave.
BodyAccounted ==
    failures = 0 =>
        \A id \in StreamIds \ terminal : BodyOf(History, id) \o unread[id] = peerBody[id]

\* When a read() or isClosed() throws, what was read before it is lost, and that
\* is all: what the application gets later is what the peer sent with gaps,
\* nothing of it twice and nothing out of order.
BodyHasOnlyGaps ==
    \A id \in StreamIds : IsWithin(BodyOf(History, id) \o unread[id], peerBody[id])

\* A stream that is reported complete, and that the application did not end
\* itself, has delivered all of its body: test 110 says that the readable
\* drain preserves the full payload.
CompletedInFull ==
    failures = 0 =>
        \A id \in remoteEnded \ hungUp : BodyOf(History, id) = peerBody[id]
=============================================================================
