------------------------- MODULE MCNativeTransport -------------------------
(***************************************************************************)
(* NativeTransport for TLC, with the property that adds up payloads.       *)
(***************************************************************************)
EXTENDS NativeTransport, MessageBodies

BodyIn(chunks) ==
    FlattenSeq([i \in 1..Len(chunks) |->
        IF chunks[i] \in HeaderBlocks THEN <<>> ELSE <<chunks[i]>>])

\* While no call throws and nghttp3 refuses nothing, what the application got of
\* the body of a live stream, what nghttp3 is parsing and what QUIC still holds
\* are together what the peer sent, in order.
NativeBodyAccounted ==
    failures = 0 /\ ~refused =>
        \A id \in StreamIds \ terminal :
            BodyOf(History, id) \o BodyIn((IF feed.id = id THEN feed.data ELSE <<>>) \o unread[id])
            = BodyIn(peerBody[id])

\* A stream that is reported complete, and that the application did not end
\* itself, has told all of its body, also what the peer sends before a reset with
\* code 0: nghttp3 is given the end of a stream behind all of its data, and
\* neither its callbacks nor STREAM_CLOSED overtake what is still to be read.
NativeCompletedInFull ==
    failures = 0 /\ ~refused =>
        \A id \in remoteEnded \ hungUp : BodyOf(History, id) = BodyIn(peerBody[id])
=============================================================================
