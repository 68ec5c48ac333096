---------------------------- MODULE QuicTransport ----------------------------
(***************************************************************************)
(* An Http3Connection constructed with a QUIC connection object of a class *)
(* of its own, such as the stubs of the phase 5 and 6 tests: pollEvents()  *)
(* drains the QUIC events, reads the streams that became readable and      *)
(* consumes one signal per event; request streams write to QUIC streams.   *)
(*                                                                         *)
(* The QUIC connection and its streams are external: they are what the     *)
(* code calls (openStream, getStream, drainEvents or pollEvents, read,     *)
(* isClosed, end, reset) and any of these calls may throw.                 *)
(***************************************************************************)
EXTENDS Http3Connection

CONSTANTS
    PeerIds,      \* streams the peer opens; openStream() never returns them
    FinCloses,    \* isClosed() answers TRUE as soon as one side has ended
    MaxReads,     \* the reads of one readable event (1024 in the code)
    MaxArrivals,  \* bound: QUIC events in a behaviour
    MaxFailures   \* bound: calls of the QUIC objects that throw

ASSUME PeerIdsAssumption == PeerIds \subseteq StreamIds
ASSUME FinClosesAssumption == FinCloses \in BOOLEAN
ASSUME MaxReadsAssumption == MaxReads \in 1..MaxPayload
ASSUME MaxArrivalsAssumption == MaxArrivals \in Nat
ASSUME MaxFailuresAssumption == MaxFailures \in Nat

VARIABLES
    quicStreams,  \* the streams getStream() finds
    unread,       \* per stream, what the successive read() calls return
    quicClosed,   \* streams whose isClosed() answers TRUE
    quicEvents,   \* QUIC events not yet drained
    batch,        \* drained by the pollEvents() in progress, not yet consumed
    cached,       \* ids in php_http3_connection.quic_streams
    arrivals,     \* history: number of QUIC events so far
    failures,     \* history: number of calls that threw so far
    peerBody,     \* history: per stream, the body the peer sent
    peerDone,     \* history: streams the peer, or QUIC itself, ended
    hungUp        \* history: streams the application ended or reset

quicVars == <<quicStreams, unread, quicClosed, quicEvents>>
quicHistory == <<arrivals, peerBody, peerDone>>
vars == <<connectionVars, quicVars, batch, cached, quicHistory, failures, hungUp>>

QuicEventTypes == {"STREAM_READABLE", "STREAM_CLOSED", "STREAM_RESET",
                   "CONNECTION_CLOSED", "CONNECTION_DRAINING"}

QuicEvent == [type : QuicEventTypes, streamId : StreamIds \cup {NoStream}, errorCode : ErrorCodes]

QuicTypeOK ==
    /\ quicStreams \subseteq StreamIds
    /\ unread \in [StreamIds -> Seq(Chunks)]
    /\ quicClosed \subseteq quicStreams
    /\ quicEvents \in Seq(QuicEvent)
    /\ batch \in Seq(QuicEvent)
    /\ cached \subseteq quicStreams
    /\ arrivals \in 0..MaxArrivals
    /\ failures \in 0..MaxFailures
    /\ peerBody \in [StreamIds -> Seq(Chunks)]
    /\ peerDone \subseteq quicStreams
    /\ hungUp \subseteq quicStreams

TypeOK == ConnectionTypeOK /\ QuicTypeOK

Init ==
    /\ ConnectionInit
    /\ quicStreams = {}
    /\ unread = [id \in StreamIds |-> <<>>]
    /\ quicClosed = {}
    /\ quicEvents = <<>>
    /\ batch = <<>>
    /\ cached = {}
    /\ arrivals = 0
    /\ failures = 0
    /\ peerBody = [id \in StreamIds |-> <<>>]
    /\ peerDone = {}
    /\ hungUp = {}

-----------------------------------------------------------------------------
(* The QUIC side, between two calls of the application. *)

QuicEventArrives(type, id, code) ==
    /\ ~polling
    /\ arrivals < MaxArrivals
    /\ arrivals' = arrivals + 1
    /\ quicEvents' = Append(quicEvents, [type |-> type, streamId |-> id, errorCode |-> code])
    /\ UNCHANGED <<connectionVars, batch, cached, failures, hungUp>>

\* A peer uses its own streams at any time, ours once they are open.
PeerUses(id) ==
    /\ id \in PeerIds \cup quicStreams
    /\ quicStreams' = quicStreams \cup {id}

\* What one arrival adds to a stream: nothing, or what one read() returns.
Arrivals == {<<>>} \cup {<<chunk>> : chunk \in Chunks}

\* Which streams isClosed() says are closed when one side of id ends: the
\* stubs of the tests close a stream with the first side that ends; a class may
\* also wait for the second.
ClosedWith(id, bothEnded) == IF FinCloses \/ bothEnded THEN quicClosed \cup {id} ELSE quicClosed

\* The peer sends more of the body, and ends the stream or not.
PeerSends(id, data, fin) ==
    /\ PeerUses(id)
    /\ id \notin peerDone
    /\ QuicEventArrives("STREAM_READABLE", id, 0)
    /\ unread' = [unread EXCEPT ![id] = @ \o data]
    /\ peerBody' = [peerBody EXCEPT ![id] = @ \o data]
    /\ IF fin THEN /\ quicClosed' = ClosedWith(id, id \in hungUp)
                   /\ peerDone' = peerDone \cup {id}
              ELSE UNCHANGED <<quicClosed, peerDone>>

\* The peer abandons the stream; isClosed() may answer TRUE from then on.
PeerResets(id, code) ==
    /\ PeerUses(id)
    /\ id \notin peerDone
    /\ QuicEventArrives("STREAM_RESET", id, code)
    /\ quicClosed' \in {quicClosed, quicClosed \cup {id}}
    /\ peerDone' = peerDone \cup {id}
    /\ UNCHANGED <<unread, peerBody>>

\* QUIC is done with the stream, whether or not the peer ended it.
QuicCloses(id) ==
    /\ id \in quicStreams
    /\ QuicEventArrives("STREAM_CLOSED", id, 0)
    /\ quicClosed' = quicClosed \cup {id}
    /\ peerDone' = peerDone \cup {id}
    /\ UNCHANGED <<quicStreams, unread, peerBody>>

ConnectionEnds(type, code) ==
    /\ QuicEventArrives(type, NoStream, code)
    /\ UNCHANGED <<quicStreams, unread, quicClosed, peerBody, peerDone>>

-----------------------------------------------------------------------------
(* pollEvents() *)

\* What find_quic_stream() finds, in its cache or through getStream().
Reachable == cached \cup quicStreams

DrainEvents ==
    /\ ~polling
    /\ polling' = TRUE
    /\ batch' = quicEvents
    /\ quicEvents' = <<>>
    /\ UNCHANGED <<lifecycleVars, streamStateVars, handleVars, eventVars, quicStreams, unread,
                   quicClosed, cached, quicHistory, failures, hungUp>>

\* The chunks the read loop gets: it stops when the stream is empty or after
\* MaxReads reads.
ReadCount(id) == IF Len(unread[id]) <= MaxReads THEN Len(unread[id]) ELSE MaxReads

\* Mutant: an empty read is taken for the end of the stream.
EmptyReadEnds(id) ==
    LET n == ReadCount(id) IN
        /\ id \in Reachable
        /\ cached' = cached \cup {id}
        /\ unread' = [unread EXCEPT ![id] = SubSeq(@, n + 1, Len(@))]
        /\ ConsumeReadable(id, SubSeq(unread[id], 1, n), n = Len(unread[id]))

\* Mutant: the chunk of the last allowed read is not kept.
DropLastRead(id) ==
    LET n == ReadCount(id) IN
        /\ id \in Reachable
        /\ cached' = cached \cup {id}
        /\ unread' = [unread EXCEPT ![id] = SubSeq(@, n + 1, Len(@))]
        /\ ConsumeReadable(id, SubSeq(unread[id], 1, IF n = MaxReads THEN n - 1 ELSE n),
                           id \in quicClosed)

\* Reading a stream and asking isClosed() makes one readable signal.
ReadStream(id) ==
    LET n == ReadCount(id) IN
        /\ id \in Reachable
        /\ cached' = cached \cup {id}
        /\ unread' = [unread EXCEPT ![id] = SubSeq(@, n + 1, Len(@))]
        /\ ConsumeReadable(id, SubSeq(unread[id], 1, n), id \in quicClosed)

\* STREAM_CLOSED is a readable signal without data that ends the stream; the
\* stream itself is not looked at.
ConsumeQuicEvent ==
    /\ polling
    /\ batch # <<>>
    /\ LET event == Head(batch) IN
         \/ /\ event.type = "STREAM_READABLE"
            /\ ReadStream(event.streamId)
         \/ /\ event.type = "STREAM_CLOSED"
            /\ ConsumeReadable(event.streamId, <<>>, TRUE)
            /\ UNCHANGED <<cached, unread>>
         \/ /\ event.type = "STREAM_RESET"
            /\ ConsumeReset(event.streamId, event.errorCode)
            /\ UNCHANGED <<cached, unread>>
         \/ /\ event.type \in {"CONNECTION_CLOSED", "CONNECTION_DRAINING"}
            /\ ConsumeClosing(event.errorCode, event.type = "CONNECTION_CLOSED")
            /\ UNCHANGED <<cached, unread>>
    /\ batch' = Tail(batch)
    /\ UNCHANGED <<delivered, polling, quicStreams, quicClosed, quicEvents, quicHistory,
                   failures, hungUp>>

\* Mutant: what was read before the throw is put back behind the rest.
PutBackRead(id) ==
    /\ cached' = cached \cup {id}
    /\ \E n \in 0..ReadCount(id) :
          unread' = [unread EXCEPT ![id] = SubSeq(@, n + 1, Len(@)) \o SubSeq(@, 1, n)]

\* A throwing read() or isClosed() loses what the loop had read; a throwing or
\* empty-handed getStream(), or a throwing getter of the event, only the event.
FailedRead(id) ==
    /\ cached' = cached \cup {id}
    /\ \E n \in 0..ReadCount(id) : unread' = [unread EXCEPT ![id] = SubSeq(@, n + 1, Len(@))]

\* Mutant: the queue is emptied although pollEvents() throws.
AbortAndClear ==
    /\ polling
    /\ batch # <<>>
    /\ failures < MaxFailures
    /\ failures' = failures + 1
    /\ batch' = <<>>
    /\ polling' = FALSE
    /\ eventQueue' = <<>>
    /\ UNCHANGED <<lifecycleVars, streamStateVars, handleVars, delivered, quicVars, cached,
                   quicHistory, hungUp>>

\* pollEvents() throws: the rest of the drained events is gone, the event queue
\* stays for the next poll.
AbortPoll ==
    /\ polling
    /\ batch # <<>>
    /\ failures < MaxFailures
    /\ failures' = failures + 1
    /\ \/ Head(batch).type = "STREAM_READABLE" /\ FailedRead(Head(batch).streamId)
       \/ UNCHANGED <<cached, unread>>
    /\ batch' = <<>>
    /\ polling' = FALSE
    /\ UNCHANGED <<lifecycleVars, streamStateVars, handleVars, eventVars, quicStreams,
                   quicClosed, quicEvents, quicHistory, hungUp>>

PollReturn ==
    /\ polling
    /\ batch = <<>>
    /\ ReturnEvents
    /\ UNCHANGED <<quicVars, batch, cached, quicHistory, failures, hungUp>>

-----------------------------------------------------------------------------
(* The application calls the connection. *)

\* openStream() allocates an id QUIC has not used.
OpenRequestStream(id) ==
    /\ id \notin PeerIds \cup quicStreams
    /\ CreateRequestStream(id)
    /\ quicStreams' = quicStreams \cup {id}
    /\ cached' = cached \cup {id}
    /\ UNCHANGED <<unread, quicClosed, quicEvents, batch, quicHistory, failures, hungUp>>

\* openStream() has opened a stream but its getId() throws: the stream exists
\* and the connection does not know it.
RefusedOpen(id) ==
    /\ ~polling
    /\ connState \in {"INITIAL", "ACTIVE"} /\ ~closing
    /\ id \notin PeerIds \cup quicStreams
    /\ failures < MaxFailures
    /\ failures' = failures + 1
    /\ quicStreams' = quicStreams \cup {id}
    /\ UNCHANGED <<connectionVars, unread, quicClosed, quicEvents, batch, cached, quicHistory,
                   hungUp>>

\* Only for an id without an entry in stream_states is QUIC asked.
FetchRequestStream(id) ==
    /\ GetRequestStream(id, id \in Reachable)
    /\ cached' = IF id \in known THEN cached ELSE cached \cup {id}
    /\ UNCHANGED <<quicVars, batch, quicHistory, failures, hungUp>>

CloseConnection ==
    /\ Close
    /\ UNCHANGED <<quicVars, batch, cached, quicHistory, failures, hungUp>>

-----------------------------------------------------------------------------
(* The application calls a request stream, which calls the QUIC stream. *)

OnQuicStream(id) ==
    /\ id \in Reachable
    /\ cached' = cached \cup {id}
    /\ UNCHANGED <<quicStreams, unread, quicEvents, batch, quicHistory>>

WriteHeaders(id) ==
    SubmitHeaders(id) /\ OnQuicStream(id) /\ UNCHANGED <<quicClosed, failures, hungUp>>

WriteData(id) ==
    SubmitData(id) /\ OnQuicStream(id) /\ UNCHANGED <<quicClosed, failures, hungUp>>

\* end() or reset() of the QUIC stream.
HangUp(id) ==
    /\ OnQuicStream(id)
    /\ quicClosed' = ClosedWith(id, id \in peerDone)
    /\ hungUp' = hungUp \cup {id}
    /\ UNCHANGED failures

FinishStream(id) == End(id) /\ HangUp(id)
ResetStream(id) == Reset(id) /\ HangUp(id)

\* write(), end() or reset() throws: the request stream keeps its state.
RefusedCall(id) ==
    /\ ~polling
    /\ id \in handles
    /\ failures < MaxFailures
    /\ failures' = failures + 1
    /\ OnQuicStream(id)
    /\ UNCHANGED <<connectionVars, quicClosed, hungUp>>

-----------------------------------------------------------------------------

Arrival ==
    \/ \E id \in StreamIds, data \in Arrivals, fin \in BOOLEAN : PeerSends(id, data, fin)
    \/ \E id \in StreamIds, code \in ErrorCodes : PeerResets(id, code)
    \/ \E id \in StreamIds : QuicCloses(id)
    \/ \E type \in {"CONNECTION_CLOSED", "CONNECTION_DRAINING"}, code \in ErrorCodes :
          ConnectionEnds(type, code)

ConnectionCall ==
    \/ \E id \in StreamIds : OpenRequestStream(id)
    \/ \E id \in StreamIds : RefusedOpen(id)
    \/ \E id \in StreamIds : FetchRequestStream(id)
    \/ CloseConnection

StreamCall ==
    \E id \in StreamIds :
        \/ WriteHeaders(id)
        \/ WriteData(id)
        \/ FinishStream(id)
        \/ ResetStream(id)
        \/ RefusedCall(id)

Poll == DrainEvents \/ ConsumeQuicEvent \/ AbortPoll \/ PollReturn

Next == Arrival \/ ConnectionCall \/ StreamCall \/ Poll

Spec == Init /\ [][Next]_vars

\* The event loop keeps polling, as that of examples/http3_server_echo.php, and a pollEvents()
\* that has started runs to its end.
FairSpec == Spec /\ WF_vars(Poll)

-----------------------------------------------------------------------------
(* Properties *)

\* An event once queued reaches the application, in its place: a pollEvents()
\* that throws half way keeps what it had queued for the next one.
NoEventIsLost ==
    [][/\ Len(History') >= Len(History)
       /\ SubSeq(History', 1, Len(History)) = History]_vars

\* The streams that isClosed() may call closed: those the peer or QUIC ended and,
\* where one side is enough for the class, those the application ended.
MayBeClosed == peerDone \cup IF FinCloses THEN hungUp ELSE {}

\* RequestCompleted is for a stream that is over: isClosed(), asked when the data
\* is read, is not taken for the end of a stream the peer goes on sending on,
\* unless the application ended it and the class says that this closes it.
CompletionIsEarned == remoteEnded \subseteq MayBeClosed

\* While no call throws, a stream that ended is eventually reported as such.
EndIsDelivered == \A id \in StreamIds : id \in peerDone ~> EndDelivered(id)
=============================================================================
