--------------------------- MODULE Http3Connection ---------------------------
(***************************************************************************)
(* The state of one Http3Connection and of its Http3RequestStream objects, *)
(* and what each method and each transport signal does to it.              *)
(*                                                                         *)
(* The module holds what the transports share; FakeTransport and           *)
(* QuicTransport compose it with the object that carries the bytes.  A     *)
(* hash table of flags per stream is a set of stream ids per flag.         *)
(* PHP runs the extension on one thread: while a pollEvents() call is in   *)
(* progress (polling) no other method runs.                                *)
(***************************************************************************)
EXTENDS Http3Events

VARIABLES
    connState,      \* php_http3_connection.state
    closing,        \* php_http3_connection.closing
    closeCalled,    \* php_http3_connection.close_called
    known,          \* ids with an entry in stream_states
    remoteHeaders,  \* ... whose entry has remoteHeadersReceived set
    remoteEnded,    \* ... remoteEnded
    terminal,       \* ... terminal
    wasReset,       \* ... reset
    handles,        \* ids with an Http3RequestStream in request_streams
    closed,         \* handles with closed set
    headersSubmitted,  \* handles with headers_submitted set
    localEnded,     \* handles with local_ended set
    eventQueue,     \* events waiting for pollEvents() to return
    delivered,      \* events pollEvents() has returned
    polling         \* a pollEvents() call is in progress

lifecycleVars == <<connState, closing, closeCalled>>
streamStateVars == <<known, remoteHeaders, remoteEnded, terminal, wasReset>>
handleVars == <<handles, closed, headersSubmitted, localEnded>>
eventVars == <<eventQueue, delivered>>
connectionVars == <<lifecycleVars, streamStateVars, handleVars, eventVars, polling>>

ConnStates == {"INITIAL", "ACTIVE", "GOAWAY_RECEIVED", "CLOSING", "CLOSED"}

ConnectionTypeOK ==
    /\ connState \in ConnStates
    /\ closing \in BOOLEAN
    /\ closeCalled \in BOOLEAN
    /\ known \subseteq StreamIds
    /\ remoteHeaders \subseteq known
    /\ remoteEnded \subseteq known
    /\ terminal \subseteq known
    /\ wasReset \subseteq known
    /\ handles \subseteq known
    /\ closed \subseteq handles
    /\ headersSubmitted \subseteq handles
    /\ localEnded \subseteq handles
    /\ eventQueue \in Seq(Event)
    /\ delivered \in Seq(Event)
    /\ polling \in BOOLEAN

ConnectionInit ==
    /\ connState = "INITIAL"
    /\ closing = FALSE
    /\ closeCalled = FALSE
    /\ known = {}
    /\ remoteHeaders = {}
    /\ remoteEnded = {}
    /\ terminal = {}
    /\ wasReset = {}
    /\ handles = {}
    /\ closed = {}
    /\ headersSubmitted = {}
    /\ localEnded = {}
    /\ eventQueue = <<>>
    /\ delivered = <<>>
    /\ polling = FALSE

-----------------------------------------------------------------------------
(* Transport signals *)

\* Mutant: closes a handle that request_streams does not hold.
MarkUnknownClosed(id) == closed' = closed \cup {id}

\* Mutant: leaves the handle of an ended stream open.
MarkNothingClosed(id) == closed' = closed

MarkStreamClosed(id) == closed' = closed \cup ({id} \cap handles)

\* A readable signal for a stream whose terminal event is out is dropped.
ConsumeLateReadable(id) ==
    /\ id \in terminal
    /\ UNCHANGED <<lifecycleVars, streamStateVars, handleVars, eventQueue>>

\* Mutant: a fin that completes the stream does not make it terminal.
CompleteWithoutTerminal(id, data, fin) ==
    /\ id \notin terminal
    /\ known' = known \cup {id}
    /\ remoteHeaders' = remoteHeaders \cup {id}
    /\ eventQueue' = eventQueue \o ReadableEvents(id, id \notin remoteHeaders, data, fin)
    /\ remoteEnded' = IF fin THEN remoteEnded \cup {id} ELSE remoteEnded
    /\ UNCHANGED <<lifecycleVars, terminal, wasReset, handleVars>>

\* Mutant: the data that comes with a fin is dropped.
CompleteWithoutData(id, data, fin) ==
    /\ id \notin terminal
    /\ known' = known \cup {id}
    /\ remoteHeaders' = remoteHeaders \cup {id}
    /\ eventQueue' = eventQueue \o
          ReadableEvents(id, id \notin remoteHeaders, IF fin THEN <<>> ELSE data, fin)
    /\ remoteEnded' = IF fin THEN remoteEnded \cup {id} ELSE remoteEnded
    /\ terminal' = IF fin THEN terminal \cup {id} ELSE terminal
    /\ closed' = IF fin THEN closed \cup ({id} \cap handles) ELSE closed
    /\ UNCHANGED <<lifecycleVars, wasReset, handles, headersSubmitted, localEnded>>

ConsumeLiveReadable(id, data, fin) ==
    /\ id \notin terminal
    /\ known' = known \cup {id}
    /\ remoteHeaders' = remoteHeaders \cup {id}
    /\ eventQueue' = eventQueue \o ReadableEvents(id, id \notin remoteHeaders, data, fin)
    /\ IF fin
       THEN /\ remoteEnded' = remoteEnded \cup {id}
            /\ terminal' = terminal \cup {id}
            /\ MarkStreamClosed(id)
       ELSE UNCHANGED <<remoteEnded, terminal, closed>>
    /\ UNCHANGED <<lifecycleVars, wasReset, handles, headersSubmitted, localEnded>>

ConsumeReadable(id, data, fin) ==
    \/ ConsumeLateReadable(id)
    \/ ConsumeLiveReadable(id, data, fin)

ConsumeLateReset(id) ==
    /\ id \in terminal
    /\ UNCHANGED <<lifecycleVars, streamStateVars, handleVars, eventQueue>>

\* Mutant: a reset is consumed even after the stream's terminal event.
ConsumeAnyReset(id, code) ==
    /\ known' = known \cup {id}
    /\ eventQueue' = Append(eventQueue, StreamReset(id, code))
    /\ wasReset' = wasReset \cup {id}
    /\ terminal' = terminal \cup {id}
    /\ MarkStreamClosed(id)
    /\ UNCHANGED <<lifecycleVars, remoteHeaders, remoteEnded,
                   handles, headersSubmitted, localEnded>>

\* Mutant: a reset ends the stream without an event.
ConsumeSilentReset(id, code) ==
    /\ id \notin terminal
    /\ known' = known \cup {id}
    /\ wasReset' = wasReset \cup {id}
    /\ terminal' = terminal \cup {id}
    /\ MarkStreamClosed(id)
    /\ UNCHANGED <<lifecycleVars, remoteHeaders, remoteEnded, eventQueue,
                   handles, headersSubmitted, localEnded>>

ConsumeLiveReset(id, code) ==
    /\ id \notin terminal
    /\ known' = known \cup {id}
    /\ eventQueue' = Append(eventQueue, StreamReset(id, code))
    /\ wasReset' = wasReset \cup {id}
    /\ terminal' = terminal \cup {id}
    /\ MarkStreamClosed(id)
    /\ UNCHANGED <<lifecycleVars, remoteHeaders, remoteEnded,
                   handles, headersSubmitted, localEnded>>

ConsumeReset(id, code) ==
    \/ ConsumeLateReset(id)
    \/ ConsumeLiveReset(id, code)

\* The first sign that the connection ends is told to the application ...
ConsumeFirstClosing(code, isClosed) ==
    /\ connState \in {"INITIAL", "ACTIVE"}
    /\ closing' = TRUE
    /\ connState' = IF isClosed THEN "CLOSED" ELSE "GOAWAY_RECEIVED"
    /\ eventQueue' = Append(eventQueue, GoawayReceived(code))
    /\ UNCHANGED <<closeCalled, streamStateVars, handleVars>>

\* Mutant: every closing signal is told to the application.
AnnounceAgain(isClosed) ==
    /\ connState \in {"GOAWAY_RECEIVED", "CLOSING"}
    /\ closing' = TRUE
    /\ connState' = IF isClosed THEN "CLOSED" ELSE connState
    /\ eventQueue' = Append(eventQueue, GoawayReceived(0))
    /\ UNCHANGED <<closeCalled, streamStateVars, handleVars>>

\* Mutant: a closing connection ignores that the transport closed.
IgnoreLaterClosed(isClosed) ==
    /\ connState \in {"GOAWAY_RECEIVED", "CLOSING"}
    /\ closing' = TRUE
    /\ UNCHANGED <<connState, closeCalled, streamStateVars, handleVars, eventQueue>>

\* ... a later one, or one after close(), only advances the state ...
ConsumeLaterClosing(isClosed) ==
    /\ connState \in {"GOAWAY_RECEIVED", "CLOSING"}
    /\ closing' = TRUE
    /\ connState' = IF isClosed THEN "CLOSED" ELSE connState
    /\ UNCHANGED <<closeCalled, streamStateVars, handleVars, eventQueue>>

\* ... and a closed connection ignores it.
ConsumeLateClosing ==
    /\ connState = "CLOSED"
    /\ UNCHANGED <<lifecycleVars, streamStateVars, handleVars, eventQueue>>

ConsumeClosing(code, isClosed) ==
    \/ ConsumeFirstClosing(code, isClosed)
    \/ ConsumeLaterClosing(isClosed)
    \/ ConsumeLateClosing

-----------------------------------------------------------------------------
(* Methods of Http3Connection *)

\* Mutant: createRequestStream() only refuses after close() or transport close.
CreateAfterGoaway(id) ==
    /\ ~polling
    /\ connState \notin {"CLOSING", "CLOSED"}
    /\ connState' = "ACTIVE"
    /\ known' = known \cup {id}
    /\ handles' = handles \cup {id}
    /\ UNCHANGED <<closing, closeCalled, remoteHeaders, remoteEnded, terminal, wasReset,
                   closed, headersSubmitted, localEnded, eventVars, polling>>

\* createRequestStream(), for the id the transport opened.
CreateRequestStream(id) ==
    /\ ~polling
    /\ connState \notin {"GOAWAY_RECEIVED", "CLOSING", "CLOSED"}
    /\ ~closing
    /\ connState' = "ACTIVE"
    /\ known' = known \cup {id}
    /\ remoteHeaders' = remoteHeaders \ {id}
    /\ remoteEnded' = remoteEnded \ {id}
    /\ terminal' = terminal \ {id}
    /\ wasReset' = wasReset \ {id}
    /\ handles' = handles \cup {id}
    /\ closed' = closed \ {id}
    /\ headersSubmitted' = headersSubmitted \ {id}
    /\ localEnded' = localEnded \ {id}
    /\ UNCHANGED <<closing, closeCalled, eventVars, polling>>

\* Mutant: the new object is open even when its stream has ended.
GetOpenStream(id, transportHasIt) ==
    /\ ~polling
    /\ id \notin handles
    /\ id \in known \/ transportHasIt
    /\ known' = known \cup {id}
    /\ handles' = handles \cup {id}
    /\ UNCHANGED <<lifecycleVars, remoteHeaders, remoteEnded, terminal, wasReset,
                   closed, headersSubmitted, localEnded, eventVars, polling>>

\* Mutant: the stream of the new object gets no entry in stream_states.
GetUnrecorded(id, transportHasIt) ==
    /\ ~polling
    /\ id \notin handles
    /\ id \in known \/ transportHasIt
    /\ handles' = handles \cup {id}
    /\ closed' = closed \cup ({id} \cap terminal)
    /\ UNCHANGED <<lifecycleVars, streamStateVars, headersSubmitted, localEnded, eventVars, polling>>

\* getRequestStream() wraps a stream the connection knows, or one the
\* transport can find; it returns the existing object when there is one.
GetRequestStream(id, transportHasIt) ==
    /\ ~polling
    /\ id \notin handles
    /\ id \in known \/ transportHasIt
    /\ known' = known \cup {id}
    /\ handles' = handles \cup {id}
    /\ closed' = closed \cup ({id} \cap terminal)
    /\ UNCHANGED <<lifecycleVars, remoteHeaders, remoteEnded, terminal, wasReset,
                   headersSubmitted, localEnded, eventVars, polling>>

\* Mutant: close() leaves isClosing() as it was.
CloseUnnoticed ==
    /\ ~polling
    /\ ~closeCalled
    /\ closeCalled' = TRUE
    /\ connState' = IF connState = "CLOSED" THEN "CLOSED" ELSE "CLOSING"
    /\ UNCHANGED <<closing, streamStateVars, handleVars, eventVars, polling>>

\* Mutant: close() takes a connection the transport closed back to CLOSING.
CloseAgain ==
    /\ ~polling
    /\ ~closeCalled
    /\ closeCalled' = TRUE
    /\ closing' = TRUE
    /\ connState' = "CLOSING"
    /\ UNCHANGED <<streamStateVars, handleVars, eventVars, polling>>

\* The first close(); later calls return at once.
Close ==
    /\ ~polling
    /\ ~closeCalled
    /\ closeCalled' = TRUE
    /\ closing' = TRUE
    /\ connState' = IF connState = "CLOSED" THEN "CLOSED" ELSE "CLOSING"
    /\ UNCHANGED <<streamStateVars, handleVars, eventVars, polling>>

\* The last step of pollEvents(): the caller gets the queue, which is emptied.
ReturnEvents ==
    /\ delivered' = delivered \o eventQueue
    /\ eventQueue' = <<>>
    /\ polling' = FALSE
    /\ UNCHANGED <<lifecycleVars, streamStateVars, handleVars>>

-----------------------------------------------------------------------------
(* Methods of Http3RequestStream, when the transport accepts the call *)

\* Mutant: submitHeaders() may be called again.
SubmitHeadersAgain(id) ==
    /\ ~polling
    /\ id \in handles \ closed
    /\ headersSubmitted' = headersSubmitted \cup {id}
    /\ UNCHANGED <<lifecycleVars, streamStateVars, handles, closed, localEnded,
                   eventVars, polling>>

SubmitHeaders(id) ==
    /\ ~polling
    /\ id \in handles \ closed
    /\ id \notin headersSubmitted
    /\ headersSubmitted' = headersSubmitted \cup {id}
    /\ UNCHANGED <<lifecycleVars, streamStateVars, handles, closed, localEnded,
                   eventVars, polling>>

SubmitData(id) ==
    /\ ~polling
    /\ id \in handles \ closed
    /\ id \in headersSubmitted \ localEnded
    /\ UNCHANGED connectionVars

End(id) ==
    /\ ~polling
    /\ id \in handles \ closed
    /\ id \in headersSubmitted \ localEnded
    /\ localEnded' = localEnded \cup {id}
    /\ closed' = closed \cup {id}
    /\ UNCHANGED <<lifecycleVars, streamStateVars, handles, headersSubmitted,
                   eventVars, polling>>

\* reset() has no guard of its own: it may follow end() or another reset().
Reset(id) ==
    /\ ~polling
    /\ id \in handles
    /\ closed' = closed \cup {id}
    /\ UNCHANGED <<lifecycleVars, streamStateVars, handles, headersSubmitted, localEnded,
                   eventVars, polling>>

-----------------------------------------------------------------------------
(* The contract this connection implements, and its state invariants *)

Contract == INSTANCE EventContract WITH
    log      <- delivered \o eventQueue,
    phase    <- [id \in StreamIds |->
                    IF id \in terminal THEN "ended"
                    ELSE IF id \in remoteHeaders THEN "open" ELSE "idle"],
    goneAway <- closing

\* The connection behaves, event by event, as EventContract allows: no event of
\* a stream after its terminal one, no GOAWAY after one or after close().
ImplementsContract == Contract!ContractSpec

\* What the application has been told, or is about to be told.
History == delivered \o eventQueue

\* The application has been told how stream id ended.
EndDelivered(id) ==
    \E i \in 1..Len(delivered) :
        delivered[i].streamId = id /\ delivered[i].type \in TerminalTypes

\* The application sees each stream in order across any number of polls:
\* HeadersReceived once and first, then data, then one terminal event and
\* nothing more; and one GOAWAY per connection.
EventsInOrder ==
    /\ Contract!StreamOrder
    /\ Contract!HeadersFirst
    /\ Contract!GoawayOnce

\* isClosing() answers TRUE exactly when the state machine has left ACTIVE,
\* and the local close() is never forgotten, whichever of close(), GOAWAY and
\* transport close came first.
ClosingAgreesWithState ==
    /\ closing <=> connState \in {"GOAWAY_RECEIVED", "CLOSING", "CLOSED"}
    /\ closeCalled => connState \in {"CLOSING", "CLOSED"}

\* Once a stream's terminal event is queued its Http3RequestStream, made before
\* or after, refuses to send.
TerminalClosesHandle == terminal \cap handles \subseteq closed

\* A stream ends in exactly one of two ways, and only an ended stream has one.
OneEnding ==
    /\ terminal = remoteEnded \cup wasReset
    /\ remoteEnded \cap wasReset = {}

\* The order of php_http3_connection_state.
Rank(s) == CASE s = "INITIAL" -> 0
             [] s = "ACTIVE" -> 1
             [] s = "GOAWAY_RECEIVED" -> 2
             [] s = "CLOSING" -> 3
             [] s = "CLOSED" -> 4
=============================================================================
