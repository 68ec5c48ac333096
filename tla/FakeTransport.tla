---------------------------- MODULE FakeTransport ----------------------------
(***************************************************************************)
(* An Http3Connection made by Http3ConnectionFactory::fromFake(), with its *)
(* FakeQuicAdapter: signals are injected in memory, pollEvents() takes     *)
(* them all and consumes them one by one, and every call of a request      *)
(* stream is recorded by the adapter.                                      *)
(***************************************************************************)
EXTENDS Http3Connection

CONSTANTS
    PeerIds,      \* streams the peer opens; the adapter never allocates them
    StartId,      \* the adapter's $startStreamId
    MaxSignals,   \* bound: signals injected in a behaviour
    MaxCalls      \* bound: adapter calls recorded per stream

ASSUME PeerIdsAssumption == PeerIds \subseteq StreamIds
ASSUME StartIdAssumption == StartId \in Nat
ASSUME MaxSignalsAssumption == MaxSignals \in Nat

VARIABLES
    nextStreamId,  \* next id openBidirectionalStream() hands out
    signals,       \* injected, not yet polled
    batch,         \* polled by the pollEvents() in progress, not yet consumed
    calls,         \* per stream, the adapter calls in order
    injected,      \* history: number of signals injected so far
    peerBody,      \* history: per stream, the body injected before its end
    peerDone       \* history: streams injected with a fin or a reset

adapterVars == <<nextStreamId, signals, batch, calls>>
historyVars == <<injected, peerBody, peerDone>>
vars == <<connectionVars, adapterVars, historyVars>>

Signal ==
    [type : {"readable"}, streamId : StreamIds, data : Payloads, fin : BOOLEAN]
    \cup [type : {"reset"}, streamId : StreamIds, errorCode : ErrorCodes]
    \cup [type : {"closing"}, errorCode : ErrorCodes, closed : BOOLEAN]

AdapterCalls == {"headers", "data", "finish", "reset"}

AdapterTypeOK ==
    /\ nextStreamId \in Nat
    /\ signals \in Seq(Signal)
    /\ batch \in Seq(Signal)
    /\ calls \in [StreamIds -> Seq(AdapterCalls)]
    /\ injected \in 0..MaxSignals
    /\ peerBody \in [StreamIds -> Seq(Chunks)]
    /\ peerDone \subseteq StreamIds

TypeOK == ConnectionTypeOK /\ AdapterTypeOK

Init ==
    /\ ConnectionInit
    /\ nextStreamId = StartId
    /\ signals = <<>>
    /\ batch = <<>>
    /\ calls = [id \in StreamIds |-> <<>>]
    /\ injected = 0
    /\ peerBody = [id \in StreamIds |-> <<>>]
    /\ peerDone = {}

-----------------------------------------------------------------------------
(* The test driver injects signals. *)

\* A peer sends on its own streams at any time, on ours once they are open.
IsOpened(id) == id \in PeerIds \/ id < nextStreamId

PushSignal(signal) ==
    /\ ~polling
    /\ injected < MaxSignals
    /\ injected' = injected + 1
    /\ signals' = Append(signals, signal)
    /\ UNCHANGED <<connectionVars, nextStreamId, batch, calls>>

InjectReadable(id, data, fin) ==
    /\ IsOpened(id)
    /\ PushSignal([type |-> "readable", streamId |-> id, data |-> data, fin |-> fin])
    /\ peerBody' = IF id \in peerDone THEN peerBody
                   ELSE [peerBody EXCEPT ![id] = @ \o data]
    /\ peerDone' = IF fin THEN peerDone \cup {id} ELSE peerDone

InjectReset(id, code) ==
    /\ IsOpened(id)
    /\ PushSignal([type |-> "reset", streamId |-> id, errorCode |-> code])
    /\ peerDone' = peerDone \cup {id}
    /\ UNCHANGED peerBody

\* injectConnectionClosing() and injectConnectionClosed().
InjectClosing(code, isClosed) ==
    /\ PushSignal([type |-> "closing", errorCode |-> code, closed |-> isClosed])
    /\ UNCHANGED <<peerBody, peerDone>>

-----------------------------------------------------------------------------
(* The application calls the connection. *)

OpenRequestStream ==
    /\ nextStreamId \in StreamIds \ PeerIds
    /\ CreateRequestStream(nextStreamId)
    /\ nextStreamId' = nextStreamId + 4
    /\ UNCHANGED <<signals, batch, calls, historyVars>>

\* There is no QUIC connection behind the fake adapter to ask for a stream.
FetchRequestStream(id) ==
    /\ GetRequestStream(id, FALSE)
    /\ UNCHANGED <<adapterVars, historyVars>>

CloseConnection ==
    /\ Close
    /\ UNCHANGED <<adapterVars, historyVars>>

\* pollEvents() first empties the adapter's signals ...
PollSignals ==
    /\ ~polling
    /\ polling' = TRUE
    /\ batch' = signals
    /\ signals' = <<>>
    /\ UNCHANGED <<lifecycleVars, streamStateVars, handleVars, eventVars,
                   nextStreamId, calls, historyVars>>

\* ... then consumes them in order ...
ConsumeSignal ==
    /\ polling
    /\ batch # <<>>
    /\ LET signal == Head(batch) IN
         \/ /\ signal.type = "readable"
            /\ ConsumeReadable(signal.streamId, signal.data, signal.fin)
         \/ /\ signal.type = "reset"
            /\ ConsumeReset(signal.streamId, signal.errorCode)
         \/ /\ signal.type = "closing"
            /\ ConsumeClosing(signal.errorCode, signal.closed)
    /\ batch' = Tail(batch)
    /\ UNCHANGED <<delivered, polling, nextStreamId, signals, calls, historyVars>>

\* ... and returns the queue.
PollReturn ==
    /\ polling
    /\ batch = <<>>
    /\ ReturnEvents
    /\ UNCHANGED <<adapterVars, historyVars>>

-----------------------------------------------------------------------------
(* The application calls a request stream; the adapter records the call. *)

RecordCall(id, call) ==
    /\ Len(calls[id]) < MaxCalls
    /\ calls' = [calls EXCEPT ![id] = Append(@, call)]
    /\ UNCHANGED <<nextStreamId, signals, batch, historyVars>>

WriteHeaders(id) == SubmitHeaders(id) /\ RecordCall(id, "headers")
WriteData(id) == SubmitData(id) /\ RecordCall(id, "data")
FinishStream(id) == End(id) /\ RecordCall(id, "finish")
ResetStream(id) == Reset(id) /\ RecordCall(id, "reset")

-----------------------------------------------------------------------------

Inject ==
    \/ \E id \in StreamIds, data \in Payloads, fin \in BOOLEAN : InjectReadable(id, data, fin)
    \/ \E id \in StreamIds, code \in ErrorCodes : InjectReset(id, code)
    \/ \E code \in ErrorCodes, isClosed \in BOOLEAN : InjectClosing(code, isClosed)

ConnectionCall ==
    \/ OpenRequestStream
    \/ \E id \in StreamIds : FetchRequestStream(id)
    \/ CloseConnection

StreamCall ==
    \E id \in StreamIds :
        \/ WriteHeaders(id)
        \/ WriteData(id)
        \/ FinishStream(id)
        \/ ResetStream(id)

Poll == PollSignals \/ ConsumeSignal \/ PollReturn

Next == Inject \/ ConnectionCall \/ StreamCall \/ Poll

Spec == Init /\ [][Next]_vars

\* Every event loop of the examples and tests keeps polling, and a
\* pollEvents() that has started runs to its end.
FairSpec == Spec /\ WF_vars(Poll)

-----------------------------------------------------------------------------
(* Properties *)

\* A connection never returns to an earlier state: openBidirectionalStream()
\* answering late does not undo a GOAWAY, and close() does not reopen a
\* connection the transport has closed.
StateOnlyAdvances ==
    [][/\ Rank(connState') >= Rank(connState)
       /\ closing => closing']_vars

\* Once a GOAWAY is queued, polled or not, or close() was called, no request
\* stream is opened on the transport.
NoRequestAfterGoaway ==
    [][closeCalled \/ (\E i \in 1..Len(History) : History[i].type = "GoawayReceived")
       => UNCHANGED nextStreamId]_vars

\* What the transport is asked to send on a stream is a request: the headers
\* first and once, no body after finishing, nothing but resets after a reset.
SendDiscipline ==
    \A id \in StreamIds : \A i, j \in 1..Len(calls[id]) :
        i < j =>
            /\ calls[id][j] # "headers"
            /\ calls[id][i] \in {"finish", "reset"} => calls[id][j] = "reset"
            /\ calls[id][i] = "headers" \/ calls[id][1] = "headers"
               \/ calls[id][1] = "reset"

\* From the moment a stream's terminal event is queued, even before the
\* application has polled it, only reset() still reaches the transport.
NoSendAfterTerminal ==
    [][\A id \in terminal :
          calls'[id] \in {calls[id], Append(calls[id], "reset")}]_vars

\* A stream the peer finished or reset is eventually reported as such.
EndIsDelivered == \A id \in StreamIds : id \in peerDone ~> EndDelivered(id)

\* A connection the transport announced closed ends up closed.
CloseIsNoticed ==
    (\E i \in 1..Len(signals) : signals[i].type = "closing" /\ signals[i].closed)
    ~> connState = "CLOSED"
=============================================================================
