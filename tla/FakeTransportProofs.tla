------------------------- MODULE FakeTransportProofs -------------------------
(***************************************************************************)
(* What holds of an Http3Connection over the fake adapter for every set of *)
(* streams, every payload and any number of signals and calls: its type    *)
(* invariant, the agreement of its state tables, that it implements        *)
(* EventContract, hence delivers every stream's events in order, what it   *)
(* asks the transport to send, and that the body it tells is the body the  *)
(* peer sent.                                                              *)
(***************************************************************************)
EXTENDS MCFakeTransport, Http3ConnectionProofs

-----------------------------------------------------------------------------
(* The type invariant *)

\* What a signal carries, by its type.
LEMMA SignalsAreTyped ==
  ASSUME NEW signal \in Signal
  PROVE  /\ signal.type = "readable" =>
               /\ signal.streamId \in StreamIds
               /\ signal.data \in Payloads
               /\ signal.fin \in BOOLEAN
         /\ signal.type = "reset" =>
               signal.streamId \in StreamIds /\ signal.errorCode \in ErrorCodes
         /\ signal.type = "closing" =>
               signal.errorCode \in ErrorCodes /\ signal.closed \in BOOLEAN
BY DEF Signal

\* Injecting a signal keeps the types.
LEMMA InjectTyped ==
  ASSUME TypeOK, Inject
  PROVE  TypeOK'
<1>1. ASSUME NEW signal \in Signal, PushSignal(signal)
      PROVE  /\ ConnectionTypeOK'
             /\ nextStreamId' \in Nat
             /\ signals' \in Seq(Signal)
             /\ batch' \in Seq(Signal)
             /\ calls' \in [StreamIds -> Seq(AdapterCalls)]
             /\ injected' \in 0..MaxSignals
  <2>1. ConnectionTypeOK'
    BY <1>1 DEF TypeOK, ConnectionTypeOK, PushSignal, connectionVars, lifecycleVars,
                streamStateVars, handleVars, eventVars
  <2>2. signals' \in Seq(Signal)
    BY <1>1 DEF TypeOK, AdapterTypeOK, PushSignal
  <2>3. injected' \in 0..MaxSignals
    BY <1>1, MaxSignalsAssumption DEF TypeOK, AdapterTypeOK, PushSignal
  <2>4. QED  BY <1>1, <2>1, <2>2, <2>3 DEF TypeOK, AdapterTypeOK, PushSignal
<1>2. ASSUME NEW id \in StreamIds, NEW data \in Payloads, NEW fin \in BOOLEAN,
             InjectReadable(id, data, fin)
      PROVE  TypeOK'
  <2> DEFINE signal == [type |-> "readable", streamId |-> id, data |-> data, fin |-> fin]
  <2>1. signal \in Signal
    BY DEF Signal
  <2>2. PushSignal(signal)
    BY <1>2 DEF InjectReadable
  <2> HIDE DEF signal
  <2>3. data \in Seq(Chunks)
    BY DEF Payloads
  <2>4. peerBody \in [StreamIds -> Seq(Chunks)]
    BY DEF TypeOK, AdapterTypeOK
  <2>5. peerBody[id] \o data \in Seq(Chunks)
    BY <2>3, <2>4, ConcatProperties
  <2>6. peerBody' \in [StreamIds -> Seq(Chunks)]
    BY <1>2, <2>4, <2>5 DEF InjectReadable
  <2>7. peerDone' \subseteq StreamIds
    BY <1>2 DEF InjectReadable, TypeOK, AdapterTypeOK
  <2>8. QED  BY <1>1, <2>1, <2>2, <2>6, <2>7 DEF TypeOK, AdapterTypeOK
<1>3. ASSUME NEW id \in StreamIds, NEW code \in ErrorCodes, InjectReset(id, code)
      PROVE  TypeOK'
  <2> DEFINE signal == [type |-> "reset", streamId |-> id, errorCode |-> code]
  <2>1. signal \in Signal
    BY DEF Signal
  <2>2. PushSignal(signal)
    BY <1>3 DEF InjectReset
  <2> HIDE DEF signal
  <2>3. peerDone' \subseteq StreamIds /\ peerBody' \in [StreamIds -> Seq(Chunks)]
    BY <1>3 DEF InjectReset, TypeOK, AdapterTypeOK
  <2>4. QED  BY <1>1, <2>1, <2>2, <2>3 DEF TypeOK, AdapterTypeOK
<1>4. ASSUME NEW code \in ErrorCodes, NEW isClosed \in BOOLEAN, InjectClosing(code, isClosed)
      PROVE  TypeOK'
  <2> DEFINE signal == [type |-> "closing", errorCode |-> code, closed |-> isClosed]
  <2>1. signal \in Signal
    BY DEF Signal
  <2>2. PushSignal(signal)
    BY <1>4 DEF InjectClosing
  <2> HIDE DEF signal
  <2>3. peerDone' \subseteq StreamIds /\ peerBody' \in [StreamIds -> Seq(Chunks)]
    BY <1>4 DEF InjectClosing, TypeOK, AdapterTypeOK
  <2>4. QED  BY <1>1, <2>1, <2>2, <2>3 DEF TypeOK, AdapterTypeOK
<1>5. QED  BY <1>2, <1>3, <1>4 DEF Inject

\* The methods of the connection keep the types.
LEMMA ConnectionCallTyped ==
  ASSUME TypeOK, ConnectionCall
  PROVE  TypeOK'
<1>1. ConnectionTypeOK
  BY DEF TypeOK
<1>2. CASE OpenRequestStream
  <2>1. ConnectionTypeOK'
    BY <1>1, <1>2, ConnectionCallsTyped DEF OpenRequestStream
  <2>2. AdapterTypeOK'
    BY <1>2 DEF OpenRequestStream, TypeOK, AdapterTypeOK, historyVars
  <2>3. QED  BY <2>1, <2>2 DEF TypeOK
<1>3. ASSUME NEW id \in StreamIds, FetchRequestStream(id)
      PROVE  TypeOK'
  <2>1. ConnectionTypeOK'
    BY <1>1, <1>3, ConnectionCallsTyped DEF FetchRequestStream
  <2>2. AdapterTypeOK'
    BY <1>3 DEF FetchRequestStream, TypeOK, AdapterTypeOK, adapterVars, historyVars
  <2>3. QED  BY <2>1, <2>2 DEF TypeOK
<1>4. CASE CloseConnection
  <2>1. ConnectionTypeOK'
    BY <1>1, <1>4, ConnectionCallsTyped DEF CloseConnection
  <2>2. AdapterTypeOK'
    BY <1>4 DEF CloseConnection, TypeOK, AdapterTypeOK, adapterVars, historyVars
  <2>3. QED  BY <2>1, <2>2 DEF TypeOK
<1>5. QED  BY <1>2, <1>3, <1>4 DEF ConnectionCall

\* The methods of a request stream keep the types.
LEMMA StreamCallTyped ==
  ASSUME TypeOK, StreamCall
  PROVE  TypeOK'
<1>1. ASSUME NEW id \in StreamIds, NEW call \in AdapterCalls, RecordCall(id, call)
      PROVE  AdapterTypeOK'
  <2>1. calls' \in [StreamIds -> Seq(AdapterCalls)]
    BY <1>1 DEF RecordCall, TypeOK, AdapterTypeOK
  <2>2. QED  BY <1>1, <2>1 DEF RecordCall, TypeOK, AdapterTypeOK, historyVars
<1>2. PICK id \in StreamIds :
         WriteHeaders(id) \/ WriteData(id) \/ FinishStream(id) \/ ResetStream(id)
  BY DEF StreamCall
<1>3. ConnectionTypeOK'
  <2>1. SubmitHeaders(id) \/ SubmitData(id) \/ End(id) \/ Reset(id)
    BY <1>2 DEF WriteHeaders, WriteData, FinishStream, ResetStream
  <2>2. QED  BY <2>1, StreamCallsTyped DEF TypeOK
<1>4. \E call \in AdapterCalls : RecordCall(id, call)
  <2>1. {"headers", "data", "finish", "reset"} \subseteq AdapterCalls
    BY DEF AdapterCalls
  <2>2. QED  BY <1>2, <2>1 DEF WriteHeaders, WriteData, FinishStream, ResetStream
<1>5. QED  BY <1>1, <1>3, <1>4 DEF TypeOK

\* Each step of pollEvents() keeps the types.
LEMMA PollTyped ==
  ASSUME TypeOK, Poll
  PROVE  TypeOK'
<1>1. ConnectionTypeOK
  BY DEF TypeOK
<1>2. CASE PollSignals
  <2>1. ConnectionTypeOK'
    BY <1>1, <1>2 DEF PollSignals, ConnectionTypeOK, lifecycleVars, streamStateVars,
                      handleVars, eventVars
  <2>2. AdapterTypeOK'
    BY <1>2 DEF PollSignals, TypeOK, AdapterTypeOK, historyVars
  <2>3. QED  BY <2>1, <2>2 DEF TypeOK
<1>3. CASE ConsumeSignal
  <2> DEFINE signal == Head(batch)
  <2>1. signal \in Signal /\ Tail(batch) \in Seq(Signal)
    BY <1>3 DEF ConsumeSignal, TypeOK, AdapterTypeOK
  <2>2. AdapterTypeOK'
    BY <1>3, <2>1 DEF ConsumeSignal, TypeOK, AdapterTypeOK, historyVars
  <2>3. /\ \/ /\ signal.type = "readable"
              /\ ConsumeReadable(signal.streamId, signal.data, signal.fin)
           \/ /\ signal.type = "reset"
              /\ ConsumeReset(signal.streamId, signal.errorCode)
           \/ /\ signal.type = "closing"
              /\ ConsumeClosing(signal.errorCode, signal.closed)
        /\ UNCHANGED <<delivered, polling>>
    BY <1>3 DEF ConsumeSignal
  <2> HIDE DEF signal
  <2>4. ConnectionTypeOK'
    BY <1>1, <2>1, <2>3, SignalsAreTyped, ConsumeReadableTyped, ConsumeResetTyped,
       ConsumeClosingTyped
  <2>5. QED  BY <2>2, <2>4 DEF TypeOK
<1>4. CASE PollReturn
  <2>1. ConnectionTypeOK'
    BY <1>1, <1>4, ConnectionCallsTyped DEF PollReturn
  <2>2. AdapterTypeOK'
    BY <1>4 DEF PollReturn, TypeOK, AdapterTypeOK, adapterVars, historyVars
  <2>3. QED  BY <2>1, <2>2 DEF TypeOK
<1>5. QED  BY <1>2, <1>3, <1>4 DEF Poll

\* A new connection is well typed.
LEMMA InitTyped == Init => TypeOK
<1> SUFFICES ASSUME Init
             PROVE  TypeOK
  OBVIOUS
<1>1. ConnectionTypeOK
  BY ConnectionInitTyped DEF Init
<1>2. AdapterTypeOK
  <2>1. signals \in Seq(Signal) /\ batch \in Seq(Signal)
    BY DEF Init
  <2>2. calls \in [StreamIds -> Seq(AdapterCalls)] /\ peerBody \in [StreamIds -> Seq(Chunks)]
    BY DEF Init
  <2>3. nextStreamId \in Nat /\ injected \in 0..MaxSignals /\ peerDone \subseteq StreamIds
    BY StartIdAssumption, MaxSignalsAssumption DEF Init
  <2>4. QED  BY <2>1, <2>2, <2>3 DEF AdapterTypeOK
<1>3. QED  BY <1>1, <1>2 DEF TypeOK

\* Every step keeps the types.
LEMMA StepTyped == TypeOK /\ [Next]_vars => TypeOK'
<1> SUFFICES ASSUME TypeOK, [Next]_vars
             PROVE  TypeOK'
  OBVIOUS
<1>1. CASE UNCHANGED vars
  BY <1>1 DEF TypeOK, ConnectionTypeOK, AdapterTypeOK, vars, connectionVars, lifecycleVars,
              streamStateVars, handleVars, eventVars, adapterVars, historyVars
<1>2. QED
  BY <1>1, InjectTyped, ConnectionCallTyped, StreamCallTyped, PollTyped DEF Next

\* The C structs never hold a state outside their enums, a flag without its
\* table entry, or a handle the connection does not know.
THEOREM TypeCorrect == Spec => []TypeOK
BY InitTyped, StepTyped, PTL DEF Spec

-----------------------------------------------------------------------------
(* The state tables agree *)

\* The connection, and the signals it is about to consume, only know streams
\* that are open.  So the id createRequestStream() gets is new to the tables
\* it overwrites.
FreshIds ==
    /\ \A id \in known : IsOpened(id)
    /\ \A i \in 1..Len(signals) :
          signals[i].type # "closing" => IsOpened(signals[i].streamId)
    /\ \A i \in 1..Len(batch) :
          batch[i].type # "closing" => IsOpened(batch[i].streamId)

Inv ==
    /\ TypeOK
    /\ FreshIds
    /\ ClosingAgreesWithState
    /\ TerminalClosesHandle
    /\ OneEnding

\* A stream the adapter has not opened has no entry in any table.
LEMMA NewIdIsUnknown ==
  ASSUME TypeOK, FreshIds, nextStreamId \in StreamIds \ PeerIds
  PROVE  nextStreamId \notin known
<1>1. nextStreamId \in Nat
  BY DEF TypeOK, AdapterTypeOK
<1>2. ~(nextStreamId < nextStreamId)
  BY <1>1
<1>3. QED  BY <1>2 DEF FreshIds, IsOpened

\* Every step keeps the state tables in agreement.
LEMMA StepAgrees ==
  ASSUME Inv, [Next]_vars
  PROVE  TablesAgree'
<1>1. TypeOK /\ ConnectionTypeOK /\ FreshIds /\ TablesAgree
  BY DEF Inv, TablesAgree, TypeOK
<1>2. ASSUME UNCHANGED <<lifecycleVars, streamStateVars, handleVars>>
      PROVE  TablesAgree'
  BY <1>1, <1>2 DEF lifecycleVars, streamStateVars, handleVars, TablesAgree,
                    ClosingAgreesWithState, TerminalClosesHandle, OneEnding
<1>3. CASE Inject
  BY <1>2, <1>3 DEF Inject, InjectReadable, InjectReset, InjectClosing, PushSignal, connectionVars
<1>4. CASE ConnectionCall
  BY <1>1, <1>4, NewIdIsUnknown, MethodsAgree
     DEF ConnectionCall, OpenRequestStream, FetchRequestStream, CloseConnection
<1>5. CASE StreamCall
  BY <1>1, <1>5, MethodsAgree DEF StreamCall, WriteHeaders, WriteData, FinishStream, ResetStream
<1>6. CASE PollSignals
  BY <1>2, <1>6 DEF PollSignals
<1>7. CASE PollReturn
  BY <1>1, <1>7, MethodsAgree DEF PollReturn
<1>8. CASE ConsumeSignal
  <2> DEFINE signal == Head(batch)
  <2>1. signal \in Signal
    BY <1>1, <1>8 DEF ConsumeSignal, TypeOK, AdapterTypeOK
  <2>2. \/ /\ signal.type = "readable"
           /\ ConsumeReadable(signal.streamId, signal.data, signal.fin)
        \/ /\ signal.type = "reset"
           /\ ConsumeReset(signal.streamId, signal.errorCode)
        \/ /\ signal.type = "closing"
           /\ ConsumeClosing(signal.errorCode, signal.closed)
    BY <1>8 DEF ConsumeSignal
  <2> HIDE DEF signal
  <2>3. QED  BY <1>1, <2>1, <2>2, SignalsAreTyped, HandlersAgree
<1>9. CASE UNCHANGED vars
  BY <1>2, <1>9 DEF vars, connectionVars
<1>10. QED
  BY <1>3, <1>4, <1>5, <1>6, <1>7, <1>8, <1>9 DEF Next, Poll

\* Every step keeps to streams that are open.
LEMMA StepFresh ==
  ASSUME Inv, [Next]_vars
  PROVE  FreshIds'
<1>1. TypeOK /\ FreshIds
  BY DEF Inv
<1>2. /\ nextStreamId \in Nat
      /\ StreamIds \subseteq Nat
      /\ known \subseteq StreamIds
      /\ signals \in Seq(Signal)
      /\ batch \in Seq(Signal)
  BY <1>1, StreamIdsAssumption DEF TypeOK, AdapterTypeOK, ConnectionTypeOK
<1>3. ASSUME UNCHANGED <<known, nextStreamId, signals, batch>>
      PROVE  FreshIds'
  BY <1>1, <1>3 DEF FreshIds, IsOpened
<1>4. CASE Inject
  <2>1. ASSUME NEW signal \in Signal, PushSignal(signal),
               signal.type # "closing" => IsOpened(signal.streamId)
        PROVE  FreshIds'
    <3>1. /\ known' = known /\ nextStreamId' = nextStreamId /\ batch' = batch
          /\ signals' = Append(signals, signal)
      BY <2>1 DEF PushSignal, connectionVars, streamStateVars
    <3>2. ASSUME NEW i \in 1..Len(signals')
          PROVE  \/ i \in 1..Len(signals) /\ signals'[i] = signals[i]
                 \/ signals'[i] = signal
      BY <1>2, <3>1
    <3>3. \A id : IsOpened(id)' <=> IsOpened(id)
      BY <3>1 DEF IsOpened
    <3>4. \A i \in 1..Len(signals') :
             signals'[i].type # "closing" => IsOpened(signals'[i].streamId)
      BY <1>1, <2>1, <3>2 DEF FreshIds
    <3>5. QED  BY <1>1, <3>1, <3>3, <3>4 DEF FreshIds, IsOpened
  <2>2. ASSUME NEW id \in StreamIds, NEW data \in Payloads, NEW fin \in BOOLEAN,
               InjectReadable(id, data, fin)
        PROVE  FreshIds'
    <3> DEFINE signal == [type |-> "readable", streamId |-> id, data |-> data, fin |-> fin]
    <3>1. signal \in Signal /\ signal.streamId = id
      BY DEF Signal
    <3>2. PushSignal(signal) /\ IsOpened(id)
      BY <2>2 DEF InjectReadable
    <3> HIDE DEF signal
    <3>3. QED  BY <2>1, <3>1, <3>2
  <2>3. ASSUME NEW id \in StreamIds, NEW code \in ErrorCodes, InjectReset(id, code)
        PROVE  FreshIds'
    <3> DEFINE signal == [type |-> "reset", streamId |-> id, errorCode |-> code]
    <3>1. signal \in Signal /\ signal.streamId = id
      BY DEF Signal
    <3>2. PushSignal(signal) /\ IsOpened(id)
      BY <2>3 DEF InjectReset
    <3> HIDE DEF signal
    <3>3. QED  BY <2>1, <3>1, <3>2
  <2>4. ASSUME NEW code \in ErrorCodes, NEW isClosed \in BOOLEAN, InjectClosing(code, isClosed)
        PROVE  FreshIds'
    <3> DEFINE signal == [type |-> "closing", errorCode |-> code, closed |-> isClosed]
    <3>1. signal \in Signal /\ signal.type = "closing"
      BY DEF Signal
    <3>2. PushSignal(signal)
      BY <2>4 DEF InjectClosing
    <3> HIDE DEF signal
    <3>3. QED  BY <2>1, <3>1, <3>2
  <2>5. QED  BY <1>4, <2>2, <2>3, <2>4 DEF Inject
<1>5. CASE OpenRequestStream
  <2>1. /\ known' = known \cup {nextStreamId}
        /\ nextStreamId' = nextStreamId + 4
        /\ signals' = signals /\ batch' = batch
    BY <1>5 DEF OpenRequestStream, CreateRequestStream
  <2> DEFINE NowOpened(id) == id \in PeerIds \/ id < nextStreamId + 4
  <2>2. \A id \in StreamIds : IsOpened(id) => NowOpened(id)
    BY <1>2 DEF IsOpened
  <2>3. NowOpened(nextStreamId)
    BY <1>2
  <2>4. \A signal \in Signal : signal.type # "closing" => signal.streamId \in StreamIds
    BY DEF Signal
  <2> HIDE DEF NowOpened
  <2>5. \A id \in known' : NowOpened(id)
    BY <1>1, <1>2, <2>1, <2>2, <2>3 DEF FreshIds
  <2>6. ASSUME NEW queue \in Seq(Signal),
               \A i \in 1..Len(queue) : queue[i].type # "closing" => IsOpened(queue[i].streamId),
               NEW i \in 1..Len(queue), queue[i].type # "closing"
        PROVE  NowOpened(queue[i].streamId)
    <3>1. queue[i] \in Signal
      BY <2>6
    <3>2. queue[i].streamId \in StreamIds /\ IsOpened(queue[i].streamId)
      BY <2>4, <2>6, <3>1
    <3>3. QED  BY <2>2, <3>2
  <2>7. /\ \A i \in 1..Len(signals) : signals[i].type # "closing" => NowOpened(signals[i].streamId)
        /\ \A i \in 1..Len(batch) : batch[i].type # "closing" => NowOpened(batch[i].streamId)
    BY <1>1, <1>2, <2>6 DEF FreshIds
  <2>8. QED  BY <2>1, <2>5, <2>7 DEF FreshIds, IsOpened, NowOpened
<1>6. ASSUME NEW id \in StreamIds, FetchRequestStream(id)
      PROVE  FreshIds'
  <2>1. known' = known
    BY <1>6 DEF FetchRequestStream, GetRequestStream
  <2>2. QED  BY <1>3, <1>6, <2>1 DEF FetchRequestStream, adapterVars
<1>7. CASE CloseConnection
  BY <1>3, <1>7 DEF CloseConnection, Close, streamStateVars, adapterVars
<1>8. CASE StreamCall
  BY <1>3, <1>8 DEF StreamCall, WriteHeaders, WriteData, FinishStream, ResetStream, RecordCall,
                    SubmitHeaders, SubmitData, End, Reset, streamStateVars, connectionVars
<1>9. CASE PollSignals
  <2>1. /\ known' = known /\ nextStreamId' = nextStreamId
        /\ batch' = signals /\ signals' = <<>>
    BY <1>9 DEF PollSignals, streamStateVars
  <2>2. QED  BY <1>1, <2>1 DEF FreshIds, IsOpened
<1>10. CASE ConsumeSignal
  <2> DEFINE signal == Head(batch)
  <2>1. /\ batch # <<>>
        /\ batch' = Tail(batch) /\ signals' = signals /\ nextStreamId' = nextStreamId
    BY <1>10 DEF ConsumeSignal
  <2>2. \/ /\ signal.type = "readable"
           /\ ConsumeReadable(signal.streamId, signal.data, signal.fin)
        \/ /\ signal.type = "reset"
           /\ ConsumeReset(signal.streamId, signal.errorCode)
        \/ /\ signal.type = "closing"
           /\ ConsumeClosing(signal.errorCode, signal.closed)
    BY <1>10 DEF ConsumeSignal
  <2>3. signal = batch[1] /\ 1 \in 1..Len(batch)
    BY <1>2, <2>1
  <2>4. \A i \in 1..Len(batch') : i + 1 \in 1..Len(batch) /\ batch'[i] = batch[i + 1]
    BY <1>2, <2>1
  <2> HIDE DEF signal
  <2>5. \/ known' = known
        \/ known' = known \cup {signal.streamId} /\ signal.type # "closing"
    BY <2>2 DEF ConsumeReadable, ConsumeLateReadable, ConsumeLiveReadable, ConsumeReset,
                ConsumeLateReset, ConsumeLiveReset, ConsumeClosing, ConsumeFirstClosing,
                ConsumeLaterClosing, ConsumeLateClosing, streamStateVars
  <2>6. \A id \in known' : IsOpened(id)
    BY <1>1, <2>3, <2>5 DEF FreshIds
  <2>7. \A i \in 1..Len(batch') : batch'[i].type # "closing" => IsOpened(batch'[i].streamId)
    BY <1>1, <2>4 DEF FreshIds
  <2>8. QED  BY <1>1, <2>1, <2>6, <2>7 DEF FreshIds, IsOpened
<1>11. CASE PollReturn
  BY <1>3, <1>11 DEF PollReturn, ReturnEvents, streamStateVars, adapterVars
<1>12. CASE UNCHANGED vars
  BY <1>3, <1>12 DEF vars, connectionVars, streamStateVars, adapterVars
<1>13. QED
  BY <1>4, <1>5, <1>6, <1>7, <1>8, <1>9, <1>10, <1>11, <1>12 DEF Next, ConnectionCall, Poll

\* A new connection satisfies the invariant.
LEMMA InitInv == Init => Inv
<1> SUFFICES ASSUME Init
             PROVE  Inv
  OBVIOUS
<1>1. TypeOK
  BY InitTyped
<1>2. FreshIds
  BY DEF Init, ConnectionInit, FreshIds
<1>3. ClosingAgreesWithState /\ TerminalClosesHandle /\ OneEnding
  BY DEF Init, ConnectionInit, ClosingAgreesWithState, TerminalClosesHandle, OneEnding
<1>4. QED  BY <1>1, <1>2, <1>3 DEF Inv

\* Every step keeps the invariant.
LEMMA StepInv == Inv /\ [Next]_vars => Inv'
BY StepTyped, StepFresh, StepAgrees DEF Inv, TablesAgree

\* The inductive invariant holds throughout.
THEOREM Invariance == Spec => []Inv
BY InitInv, StepInv, PTL DEF Spec

\* isClosing() and the state machine never disagree, in whatever order
\* close(), GOAWAY and transport close arrive.
THEOREM ClosingAgrees == Spec => []ClosingAgreesWithState
<1>1. Inv => ClosingAgreesWithState
  BY DEF Inv
<1>2. QED  BY <1>1, Invariance, PTL

\* No Http3RequestStream of an ended stream is left open for sending, made
\* before its terminal event or after.
THEOREM TerminalCloses == Spec => []TerminalClosesHandle
<1>1. Inv => TerminalClosesHandle
  BY DEF Inv
<1>2. QED  BY <1>1, Invariance, PTL

\* Completion and reset of a stream exclude each other.
THEOREM EndsOneWay == Spec => []OneEnding
<1>1. Inv => OneEnding
  BY DEF Inv
<1>2. QED  BY <1>1, Invariance, PTL

-----------------------------------------------------------------------------
(* What a step may never do *)

\* No step takes the connection back to an earlier state.
THEOREM StateAdvances == Spec => StateOnlyAdvances
<1>1. ASSUME Inv, [Next]_vars
      PROVE  [/\ Rank(connState') >= Rank(connState)
              /\ closing => closing']_vars
  <2>1. connState \in ConnStates /\ ClosingAgreesWithState
    BY <1>1 DEF Inv, TypeOK, ConnectionTypeOK
  <2>2. ASSUME UNCHANGED lifecycleVars
        PROVE  Rank(connState') >= Rank(connState) /\ (closing => closing')
    BY <2>1, <2>2 DEF lifecycleVars, Rank, ConnStates
  <2>3. CASE Inject \/ StreamCall
    BY <1>1, <2>2, <2>3
       DEF Inject, InjectReadable, InjectReset, InjectClosing, PushSignal, StreamCall, WriteHeaders,
           WriteData, FinishStream, ResetStream, SubmitHeaders, SubmitData, End, Reset,
           connectionVars
  <2>4. CASE OpenRequestStream
    BY <2>1, <2>4 DEF OpenRequestStream, CreateRequestStream, Rank, ConnStates
  <2>5. ASSUME NEW id \in StreamIds, FetchRequestStream(id)
        PROVE  Rank(connState') >= Rank(connState) /\ (closing => closing')
    BY <2>2, <2>5 DEF FetchRequestStream, GetRequestStream
  <2>6. CASE CloseConnection
    BY <2>1, <2>6 DEF CloseConnection, Close, Rank, ConnStates
  <2>7. CASE PollSignals \/ PollReturn
    BY <2>2, <2>7 DEF PollSignals, PollReturn, ReturnEvents
  <2>8. CASE ConsumeSignal
    <3>1. ASSUME NEW code, NEW isClosed, ConsumeClosing(code, isClosed)
          PROVE  Rank(connState') >= Rank(connState) /\ (closing => closing')
      <4>1. CASE ConsumeFirstClosing(code, isClosed)
        BY <2>1, <4>1 DEF ConsumeFirstClosing, Rank, ConnStates
      <4>2. CASE ConsumeLaterClosing(isClosed)
        BY <2>1, <4>2 DEF ConsumeLaterClosing, Rank, ConnStates
      <4>3. CASE ConsumeLateClosing
        BY <2>2, <4>3 DEF ConsumeLateClosing
      <4>4. QED  BY <3>1, <4>1, <4>2, <4>3 DEF ConsumeClosing
    <3>2. ASSUME NEW id, NEW data, NEW fin, ConsumeReadable(id, data, fin)
          PROVE  UNCHANGED lifecycleVars
      BY <3>2 DEF ConsumeReadable, ConsumeLateReadable, ConsumeLiveReadable
    <3>3. ASSUME NEW id, NEW code, ConsumeReset(id, code)
          PROVE  UNCHANGED lifecycleVars
      BY <3>3 DEF ConsumeReset, ConsumeLateReset, ConsumeLiveReset
    <3>4. QED  BY <2>2, <2>8, <3>1, <3>2, <3>3 DEF ConsumeSignal
  <2>9. QED
    BY <1>1, <2>3, <2>4, <2>5, <2>6, <2>7, <2>8 DEF Next, ConnectionCall, Poll
<1>2. QED  BY <1>1, Invariance, PTL DEF Spec, StateOnlyAdvances

-----------------------------------------------------------------------------
(* Refinement of EventContract *)

\* Every step of the program is a step of the contract or a stutter.
LEMMA StepRefines ==
  ASSUME Inv, [Next]_vars
  PROVE  [Contract!ContractNext]_(Contract!contractVars)
<1>1. TypeOK /\ ConnectionTypeOK /\ FreshIds /\ ClosingAgreesWithState
  BY DEF Inv, TypeOK
<1>2. CASE Inject
  BY <1>2, OtherwiseStutter
     DEF Inject, InjectReadable, InjectReset, InjectClosing, PushSignal, connectionVars,
         lifecycleVars, streamStateVars
<1>3. CASE OpenRequestStream \/ \E id \in StreamIds : FetchRequestStream(id)
  BY <1>1, <1>3, NewIdIsUnknown, MethodsRefine DEF OpenRequestStream, FetchRequestStream
<1>4. CASE CloseConnection
  BY <1>1, <1>4, MethodsRefine DEF CloseConnection, Contract!ContractNext
<1>5. CASE StreamCall
  BY <1>1, <1>5, MethodsRefine DEF StreamCall, WriteHeaders, WriteData, FinishStream, ResetStream
<1>6. CASE PollSignals
  BY <1>6, OtherwiseStutter DEF PollSignals, lifecycleVars, streamStateVars
<1>7. CASE ConsumeSignal
  <2> DEFINE signal == Head(batch)
  <2>1. signal \in Signal
    BY <1>1, <1>7 DEF ConsumeSignal, TypeOK, AdapterTypeOK
  <2>2. /\ \/ /\ signal.type = "readable"
              /\ ConsumeReadable(signal.streamId, signal.data, signal.fin)
           \/ /\ signal.type = "reset"
              /\ ConsumeReset(signal.streamId, signal.errorCode)
           \/ /\ signal.type = "closing"
              /\ ConsumeClosing(signal.errorCode, signal.closed)
        /\ UNCHANGED <<delivered, polling>>
    BY <1>7 DEF ConsumeSignal
  <2> HIDE DEF signal
  <2>3. CASE signal.type = "readable"
    <3>1. PICK id \in StreamIds, data \in Payloads, fin \in BOOLEAN :
             ConsumeReadable(id, data, fin)
      BY <2>1, <2>2, <2>3, SignalsAreTyped
    <3>2. Contract!Receive(id, data, fin) \/ UNCHANGED Contract!contractVars
      BY <1>1, <2>2, <3>1, ReadableRefines
    <3>3. data \in Contract!Payloads
      BY DEF Payloads, Contract!Payloads
    <3>4. QED  BY <3>2, <3>3 DEF Contract!ContractNext
  <2>4. CASE signal.type = "reset"
    <3>1. PICK id \in StreamIds, code \in ErrorCodes : ConsumeReset(id, code)
      BY <2>1, <2>2, <2>4, SignalsAreTyped
    <3>2. Contract!Abandon(id, code) \/ UNCHANGED Contract!contractVars
      BY <1>1, <2>2, <3>1, ResetRefines
    <3>3. QED  BY <3>2 DEF Contract!ContractNext
  <2>5. CASE signal.type = "closing"
    <3>1. PICK code \in ErrorCodes, isClosed \in BOOLEAN : ConsumeClosing(code, isClosed)
      BY <2>1, <2>2, <2>5, SignalsAreTyped
    <3>2. Contract!GoAway(code) \/ UNCHANGED Contract!contractVars
      BY <1>1, <2>2, <3>1, ClosingRefines
    <3>3. QED  BY <3>2 DEF Contract!ContractNext
  <2>6. QED  BY <2>2, <2>3, <2>4, <2>5
<1>8. CASE PollReturn
  BY <1>1, <1>8, MethodsRefine DEF PollReturn
<1>9. CASE UNCHANGED vars
  BY <1>9, OtherwiseStutter DEF vars, connectionVars, lifecycleVars, streamStateVars
<1>10. QED
  BY <1>2, <1>3, <1>4, <1>5, <1>6, <1>7, <1>8, <1>9 DEF Next, ConnectionCall, Poll

\* The fake transport implements the event contract: whatever the peer
\* injects and the application calls, the connection only produces the
\* events the contract allows.
THEOREM Refinement == Spec => ImplementsContract
<1>1. Init => Contract!ContractInit
  BY ConnectionInitRefines DEF Init
<1>2. QED
  BY <1>1, StepRefines, Invariance, PTL DEF Spec, ImplementsContract, Contract!ContractSpec

\* Every stream's events reach the application in order: headers first and
\* once, one terminal event last, and one GOAWAY per connection.
THEOREM Order == Spec => []EventsInOrder
BY Refinement, ContractGivesOrder, PTL

-----------------------------------------------------------------------------
(* What the transport is asked to send *)

\* The calls recorded of a stream and the flags of its Http3RequestStream: a
\* stream without an object has no calls; the headers are the first call
\* unless a reset is, and there are calls once headers_submitted is set; a
\* HEADERS call is remembered by headers_submitted, a call that ends sending
\* by closed.
CallsMatchHandle ==
    \A id \in StreamIds :
        /\ calls[id] # <<>> => id \in handles /\ calls[id][1] \in {"headers", "reset"}
        /\ id \in headersSubmitted => calls[id] # <<>>
        /\ \A i \in 1..Len(calls[id]) :
              /\ calls[id][i] = "headers" => id \in headersSubmitted
              /\ calls[id][i] \in {"finish", "reset"} => id \in closed

\* The discipline of one stream's calls.
Disciplined(log) ==
    \A i, j \in 1..Len(log) :
        i < j =>
            /\ log[j] # "headers"
            /\ log[i] \in {"finish", "reset"} => log[j] = "reset"
            /\ log[i] = "headers" \/ log[1] = "headers" \/ log[1] = "reset"

\* SendDiscipline is inductive together with the flags that stand for the calls.
SendInv == CallsMatchHandle /\ SendDiscipline

\* A call that is not the headers again, and only a reset behind a finish or a
\* reset, keeps the discipline.
LEMMA AppendDisciplined ==
  ASSUME NEW log \in Seq(AdapterCalls), NEW call \in AdapterCalls, Disciplined(log),
         log # <<>> => call # "headers" /\ log[1] \in {"headers", "reset"},
         \A i \in 1..Len(log) : log[i] \in {"finish", "reset"} => call = "reset"
  PROVE  Disciplined(Append(log, call))
<1> DEFINE new == Append(log, call)
<1>1. /\ Len(new) = Len(log) + 1 /\ Len(log) \in Nat
      /\ \A i \in 1..Len(log) : new[i] = log[i]
      /\ new[Len(log) + 1] = call
  OBVIOUS
<1> HIDE DEF new
<1>2. SUFFICES ASSUME NEW i \in 1..Len(new), NEW j \in 1..Len(new), i < j
               PROVE  /\ new[j] # "headers"
                      /\ new[i] \in {"finish", "reset"} => new[j] = "reset"
                      /\ new[i] = "headers" \/ new[1] = "headers" \/ new[1] = "reset"
  BY DEF Disciplined, new
<1>3. i \in 1..Len(log) /\ new[i] = log[i] /\ log # <<>> /\ new[1] = log[1]
  BY <1>1, <1>2
<1>4. CASE j \in 1..Len(log)
  BY <1>1, <1>2, <1>3, <1>4 DEF Disciplined
<1>5. CASE j = Len(log) + 1
  BY <1>1, <1>3, <1>5
<1>6. QED  BY <1>1, <1>2, <1>4, <1>5

\* A step that records no call and takes nothing back from the tables keeps
\* the agreement.
LEMMA UncalledKeepsSendInv ==
  ASSUME SendInv, calls' = calls, handles \subseteq handles', closed \subseteq closed',
         headersSubmitted' = headersSubmitted
  PROVE  SendInv'
BY DEF SendInv, CallsMatchHandle, SendDiscipline

\* A call the flags allow, with the flags it sets, keeps the agreement.
LEMMA CallKeepsSendInv ==
  ASSUME TypeOK, SendInv, NEW id \in StreamIds, NEW call \in AdapterCalls,
         RecordCall(id, call), id \in handles, handles' = handles, closed \subseteq closed',
         headersSubmitted' = IF call = "headers" THEN headersSubmitted \cup {id}
                             ELSE headersSubmitted,
         call \in {"finish", "reset"} => id \in closed',
         call # "reset" => id \notin closed,
         call = "headers" => id \notin headersSubmitted,
         call \in {"data", "finish"} => id \in headersSubmitted
  PROVE  SendInv'
<1> DEFINE log == calls[id]
           new == Append(log, call)
<1>1. log \in Seq(AdapterCalls)
  BY DEF TypeOK, AdapterTypeOK
<1>2. /\ calls' = [calls EXCEPT ![id] = new]
      /\ calls'[id] = new
      /\ \A other \in StreamIds : other # id => calls'[other] = calls[other]
  BY DEF RecordCall, TypeOK, AdapterTypeOK
<1>3. /\ log # <<>> => log[1] \in {"headers", "reset"}
      /\ id \in headersSubmitted => log # <<>>
      /\ \A i \in 1..Len(log) :
            /\ log[i] = "headers" => id \in headersSubmitted
            /\ log[i] \in {"finish", "reset"} => id \in closed
  BY DEF SendInv, CallsMatchHandle
<1>4. Disciplined(log)
  BY DEF SendInv, SendDiscipline, Disciplined
<1> HIDE DEF log
<1>5. /\ Len(new) = Len(log) + 1 /\ Len(log) \in Nat
      /\ \A i \in 1..Len(log) : new[i] = log[i]
      /\ new[Len(log) + 1] = call
      /\ new # <<>>
  BY <1>1
<1>6. log # <<>> => 1 \in 1..Len(log)
  BY <1>1
<1>7. call = "headers" => log = <<>>
  BY <1>3, <1>6
<1>8. Disciplined(new)
  BY <1>1, <1>3, <1>4, <1>7, AppendDisciplined
<1>9. \A i \in 1..Len(new) : i \in 1..Len(log) \/ i = Len(log) + 1
  BY <1>5
<1>10. new[1] \in {"headers", "reset"}
  <2>1. CASE log = <<>>
    BY <1>3, <1>5, <2>1 DEF AdapterCalls
  <2>2. CASE log # <<>>
    BY <1>3, <1>5, <1>6, <2>2
  <2>3. QED  BY <2>1, <2>2
<1> HIDE DEF new
<1>11. \A i \in 1..Len(new) :
          /\ new[i] = "headers" => id \in headersSubmitted'
          /\ new[i] \in {"finish", "reset"} => id \in closed'
  BY <1>3, <1>5, <1>9
<1>12. \A other \in StreamIds :
          other # id => (other \in headersSubmitted' <=> other \in headersSubmitted)
  OBVIOUS
<1>13. CallsMatchHandle'
  BY <1>2, <1>5, <1>10, <1>11, <1>12 DEF SendInv, CallsMatchHandle
<1>14. SendDiscipline'
  BY <1>2, <1>8 DEF SendInv, SendDiscipline, Disciplined
<1>15. QED  BY <1>13, <1>14 DEF SendInv

\* The calls of a request stream keep the discipline.
LEMMA StreamCallKeepsSendInv ==
  ASSUME TypeOK, SendInv, StreamCall
  PROVE  SendInv'
<1>1. PICK id \in StreamIds :
         WriteHeaders(id) \/ WriteData(id) \/ FinishStream(id) \/ ResetStream(id)
  BY DEF StreamCall
<1>2. {"headers", "data", "finish", "reset"} \subseteq AdapterCalls
  BY DEF AdapterCalls
<1>3. CASE WriteHeaders(id)
  <2>1. /\ RecordCall(id, "headers") /\ id \in handles \ closed /\ id \notin headersSubmitted
        /\ handles' = handles /\ closed' = closed
        /\ headersSubmitted' = headersSubmitted \cup {id}
    BY <1>3 DEF WriteHeaders, SubmitHeaders
  <2>2. QED  BY <1>2, <2>1, CallKeepsSendInv
<1>4. CASE WriteData(id)
  <2>1. /\ RecordCall(id, "data") /\ id \in handles \ closed /\ id \in headersSubmitted
        /\ handles' = handles /\ closed' = closed /\ headersSubmitted' = headersSubmitted
    BY <1>4 DEF WriteData, SubmitData, connectionVars, handleVars
  <2>2. QED  BY <1>2, <2>1, CallKeepsSendInv
<1>5. CASE FinishStream(id)
  <2>1. /\ RecordCall(id, "finish") /\ id \in handles \ closed /\ id \in headersSubmitted
        /\ handles' = handles /\ closed' = closed \cup {id}
        /\ headersSubmitted' = headersSubmitted
    BY <1>5 DEF FinishStream, End
  <2>2. QED  BY <1>2, <2>1, CallKeepsSendInv
<1>6. CASE ResetStream(id)
  <2>1. /\ RecordCall(id, "reset") /\ id \in handles
        /\ handles' = handles /\ closed' = closed \cup {id}
        /\ headersSubmitted' = headersSubmitted
    BY <1>6 DEF ResetStream, Reset
  <2>2. QED  BY <1>2, <2>1, CallKeepsSendInv
<1>7. QED  BY <1>1, <1>3, <1>4, <1>5, <1>6

\* No other step records a call; the one that clears a stream's flags is the
\* one that opens it, when nothing has been called on it.
LEMMA StepKeepsSendInv ==
  ASSUME Inv, SendInv, [Next]_vars
  PROVE  SendInv'
<1>1. TypeOK /\ FreshIds /\ ConnectionTypeOK
  BY DEF Inv, TypeOK
<1>2. CASE Inject
  BY <1>2, UncalledKeepsSendInv
     DEF Inject, InjectReadable, InjectReset, InjectClosing, PushSignal, connectionVars, handleVars
<1>3. CASE OpenRequestStream
  <2> DEFINE new == nextStreamId
  <2>1. /\ new \in StreamIds /\ new \notin known
        /\ calls' = calls /\ handles' = handles \cup {new} /\ closed' = closed \ {new}
        /\ headersSubmitted' = headersSubmitted \ {new}
    BY <1>1, <1>3, NewIdIsUnknown DEF OpenRequestStream, CreateRequestStream
  <2>2. new \notin handles /\ new \notin closed /\ new \notin headersSubmitted
    BY <1>1, <2>1 DEF ConnectionTypeOK
  <2>3. closed' = closed /\ headersSubmitted' = headersSubmitted
    BY <2>1, <2>2
  <2>4. QED  BY <2>1, <2>3, UncalledKeepsSendInv
<1>4. ASSUME NEW id \in StreamIds, FetchRequestStream(id)
      PROVE  SendInv'
  BY <1>4, UncalledKeepsSendInv DEF FetchRequestStream, GetRequestStream, adapterVars
<1>5. CASE CloseConnection
  BY <1>5, UncalledKeepsSendInv DEF CloseConnection, Close, adapterVars, handleVars
<1>6. CASE StreamCall
  BY <1>1, <1>6, StreamCallKeepsSendInv
<1>7. CASE PollSignals \/ PollReturn
  BY <1>7, UncalledKeepsSendInv DEF PollSignals, PollReturn, ReturnEvents, adapterVars, handleVars
<1>8. CASE ConsumeSignal
  <2>1. \/ \E id, data, fin : ConsumeReadable(id, data, fin)
        \/ \E id, code : ConsumeReset(id, code)
        \/ \E code, isClosed : ConsumeClosing(code, isClosed)
    BY <1>8 DEF ConsumeSignal
  <2>2. ASSUME NEW id, NEW data, NEW fin, ConsumeReadable(id, data, fin)
        PROVE  handles' = handles /\ closed \subseteq closed' /\ headersSubmitted' = headersSubmitted
    BY <2>2 DEF ConsumeReadable, ConsumeLateReadable, ConsumeLiveReadable, MarkStreamClosed, handleVars
  <2>3. ASSUME NEW id, NEW code, ConsumeReset(id, code)
        PROVE  handles' = handles /\ closed \subseteq closed' /\ headersSubmitted' = headersSubmitted
    BY <2>3 DEF ConsumeReset, ConsumeLateReset, ConsumeLiveReset, MarkStreamClosed, handleVars
  <2>4. ASSUME NEW code, NEW isClosed, ConsumeClosing(code, isClosed)
        PROVE  handles' = handles /\ closed \subseteq closed' /\ headersSubmitted' = headersSubmitted
    BY <2>4 DEF ConsumeClosing, ConsumeFirstClosing, ConsumeLaterClosing, ConsumeLateClosing,
                handleVars
  <2>5. calls' = calls
    BY <1>8 DEF ConsumeSignal
  <2>6. handles' = handles /\ closed \subseteq closed' /\ headersSubmitted' = headersSubmitted
    BY <2>1, <2>2, <2>3, <2>4
  <2>7. QED  BY <2>5, <2>6, UncalledKeepsSendInv
<1>9. CASE UNCHANGED vars
  BY <1>9, UncalledKeepsSendInv DEF vars, connectionVars, handleVars, adapterVars
<1>10. QED
  BY <1>2, <1>3, <1>4, <1>5, <1>6, <1>7, <1>8, <1>9 DEF Next, ConnectionCall, Poll

\* What an Http3RequestStream lets through to the transport is a request in
\* whatever order its methods, polls and terminal events come: headers first
\* and once, no body after the end, nothing but resets after a reset.
THEOREM SendsInOrder == Spec => []SendDiscipline
<1>1. Init => SendInv
  BY DEF Init, ConnectionInit, SendInv, CallsMatchHandle, SendDiscipline
<1>2. Inv /\ SendInv /\ [Next]_vars => SendInv'
  BY StepKeepsSendInv
<1>3. SendInv => SendDiscipline
  BY DEF SendInv
<1>4. QED  BY <1>1, <1>2, <1>3, Invariance, PTL DEF Spec

\* A stream whose terminal event is queued, polled or not, sends nothing more
\* but resets.
THEOREM SilentAfterTerminal == Spec => NoSendAfterTerminal
<1>1. ASSUME Inv, [Next]_vars
      PROVE  [\A id \in terminal :
                 calls'[id] \in {calls[id], Append(calls[id], "reset")}]_vars
  <2>1. /\ terminal \cap handles \subseteq closed
        /\ terminal \subseteq StreamIds
        /\ calls \in [StreamIds -> Seq(AdapterCalls)]
    BY <1>1 DEF Inv, TerminalClosesHandle, TypeOK, ConnectionTypeOK, AdapterTypeOK
  <2>2. CASE StreamCall
    <3>1. PICK id \in StreamIds :
             WriteHeaders(id) \/ WriteData(id) \/ FinishStream(id) \/ ResetStream(id)
      BY <2>2 DEF StreamCall
    <3>2. CASE ResetStream(id)
      BY <2>1, <3>2 DEF ResetStream, RecordCall
    <3>3. CASE WriteHeaders(id) \/ WriteData(id) \/ FinishStream(id)
      <4>1. id \notin terminal
        BY <2>1, <3>3 DEF WriteHeaders, WriteData, FinishStream, SubmitHeaders, SubmitData, End
      <4>2. \A other \in terminal : calls'[other] = calls[other]
        BY <2>1, <3>3, <4>1 DEF WriteHeaders, WriteData, FinishStream, RecordCall
      <4>3. QED  BY <4>2
    <3>4. QED  BY <3>1, <3>2, <3>3
  <2>3. CASE ~StreamCall
    <3>1. calls' = calls
      BY <1>1, <2>3
         DEF Next, ConnectionCall, Poll, Inject, InjectReadable, InjectReset, InjectClosing,
             PushSignal, OpenRequestStream, FetchRequestStream, CloseConnection, PollSignals,
             ConsumeSignal, PollReturn, adapterVars, vars
    <3>2. QED  BY <3>1
  <2>4. QED  BY <2>2, <2>3
<1>2. QED  BY <1>1, Invariance, PTL DEF Spec, NoSendAfterTerminal

\* No request stream is opened once close() was called or a GOAWAY is queued,
\* however long ago.
THEOREM NoLateRequest == Spec => NoRequestAfterGoaway
<1>1. ASSUME Inv, GoawayMeansClosing, [Next]_vars
      PROVE  [closeCalled \/ (\E i \in 1..Len(History) : History[i].type = "GoawayReceived")
              => UNCHANGED nextStreamId]_vars
  <2>1. ASSUME closeCalled \/ (\E i \in 1..Len(History) : History[i].type = "GoawayReceived")
        PROVE  closing
    BY <1>1, <2>1 DEF Inv, ClosingAgreesWithState, GoawayMeansClosing
  <2>2. closing => ~OpenRequestStream
    BY DEF OpenRequestStream, CreateRequestStream
  <2>3. ~OpenRequestStream => nextStreamId' = nextStreamId
    BY <1>1
       DEF Next, ConnectionCall, StreamCall, Poll, Inject, InjectReadable, InjectReset,
           InjectClosing, PushSignal, FetchRequestStream, CloseConnection, WriteHeaders,
           WriteData, FinishStream, ResetStream, RecordCall, PollSignals, ConsumeSignal,
           PollReturn, adapterVars, vars
  <2>4. QED  BY <2>1, <2>2, <2>3
<1>2. Spec => []GoawayMeansClosing
  BY Refinement, ContractGivesClosing, PTL
<1>3. QED  BY <1>1, <1>2, Invariance, PTL DEF Spec, NoRequestAfterGoaway

-----------------------------------------------------------------------------
(* The body a stream delivers *)

\* The signals that have not been consumed: none is injected while a poll runs.
Waiting == IF polling THEN batch ELSE signals

OneQueue ==
    /\ polling => signals = <<>>
    /\ ~polling => batch = <<>>

Carries(signal, id) == signal.type = "readable" /\ signal.streamId = id

Ends(signal, id) ==
    \/ Carries(signal, id) /\ signal.fin
    \/ signal.type = "reset" /\ signal.streamId = id

IsEnding(queue, id) == \E i \in 1..Len(queue) : Ends(queue[i], id)

\* What each signal of a queue will add to the body of a live stream.
Offered(queue, id) ==
    [i \in 1..Len(queue) |->
        IF Carries(queue[i], id) /\ (\A j \in 1..Len(queue) : j < i => ~Ends(queue[j], id))
        THEN queue[i].data ELSE <<>>]

\* A live stream will get the rest of its body from the signals before its end,
\* an ended one has got all of it.
BodyComes(id) ==
    IF id \in terminal
    THEN BodyOf(History, id) = peerBody[id] /\ id \in peerDone
    ELSE /\ BodyOf(History, id) \o FlattenSeq(Offered(Waiting, id)) = peerBody[id]
         /\ id \in peerDone <=> IsEnding(Waiting, id)

BodyInv == OneQueue /\ \A id \in StreamIds : BodyComes(id)

\* What a signal adds is a piece.
LEMMA OfferIsPiece ==
  ASSUME NEW signal \in Signal, NEW id, Carries(signal, id)
  PROVE  signal.data \in Pieces
<1>1. signal.data \in Payloads
  BY SignalsAreTyped DEF Carries
<1> QED
  BY <1>1 DEF Payloads, Pieces

\* What a queue offers are pieces.
LEMMA OfferedTyped ==
  ASSUME NEW queue \in Seq(Signal), NEW id
  PROVE  /\ Offered(queue, id) \in Seq(Pieces)
         /\ Len(Offered(queue, id)) = Len(queue)
         /\ FlattenSeq(Offered(queue, id)) \in Pieces
<1>1. Len(queue) \in Nat /\ <<>> \in Pieces
  BY EmptySeq DEF Pieces
<1>2. \A i \in 1..Len(queue) : Carries(queue[i], id) => queue[i].data \in Pieces
  BY OfferIsPiece
<1>3. Offered(queue, id) \in Seq(Pieces) /\ Len(Offered(queue, id)) = Len(queue)
  BY <1>1, <1>2 DEF Offered
<1> QED
  BY <1>3, FlattenTyped

\* A signal behind the others adds its data, unless the stream ends before it.
LEMMA OfferedAppend ==
  ASSUME NEW queue \in Seq(Signal), NEW signal \in Signal, NEW id
  PROVE  /\ FlattenSeq(Offered(Append(queue, signal), id))
              = FlattenSeq(Offered(queue, id))
                \o (IF Carries(signal, id) /\ ~IsEnding(queue, id) THEN signal.data ELSE <<>>)
         /\ IsEnding(Append(queue, signal), id) <=> IsEnding(queue, id) \/ Ends(signal, id)
<1> DEFINE longer == Append(queue, signal)
           piece == IF Carries(signal, id) /\ ~IsEnding(queue, id) THEN signal.data ELSE <<>>
           n == Len(queue)
<1>1. /\ Len(longer) = n + 1 /\ n \in Nat /\ longer[n + 1] = signal
      /\ \A i \in 1..n : longer[i] = queue[i]
  OBVIOUS
<1>2. piece \in Pieces
  BY OfferIsPiece, EmptySeq DEF Pieces
<1>3. longer \in Seq(Signal)
  OBVIOUS
<1> HIDE DEF longer, n
<1> DEFINE old == Offered(queue, id)
           new == Offered(longer, id)
<1>4. /\ old \in Seq(Pieces) /\ Len(old) = n /\ new \in Seq(Pieces) /\ Len(new) = n + 1
  BY <1>1, <1>3, OfferedTyped DEF n
<1>5. \A i \in 1..n : new[i] = old[i]
  <2> SUFFICES ASSUME NEW i \in 1..n
               PROVE  new[i] = old[i]
    OBVIOUS
  <2>1. i \in 1..Len(longer) /\ i \in 1..Len(queue) /\ longer[i] = queue[i]
    BY <1>1 DEF n
  <2>2. (\A j \in 1..Len(longer) : j < i => ~Ends(longer[j], id))
        <=> (\A j \in 1..Len(queue) : j < i => ~Ends(queue[j], id))
    BY <1>1, <2>1 DEF n
  <2> QED
    BY <2>1, <2>2 DEF Offered
<1>6. new[n + 1] = piece
  <2>1. n + 1 \in 1..Len(longer)
    BY <1>1
  <2>2. (\A j \in 1..Len(longer) : j < n + 1 => ~Ends(longer[j], id)) <=> ~IsEnding(queue, id)
    BY <1>1 DEF IsEnding, n
  <2>3. new[n + 1] = IF Carries(longer[n + 1], id)
                        /\ (\A j \in 1..Len(longer) : j < n + 1 => ~Ends(longer[j], id))
                     THEN longer[n + 1].data ELSE <<>>
    BY <2>1 DEF Offered
  <2> QED
    BY <1>1, <2>2, <2>3
<1>7. IsEnding(longer, id) <=> IsEnding(queue, id) \/ Ends(signal, id)
  <2>1. 1..Len(longer) = 1..n \cup {n + 1}
    BY <1>1
  <2> QED
    BY <1>1, <2>1 DEF IsEnding, n
<1> HIDE DEF old, new, piece
<1>8. new = Append(old, piece)
  <2>1. /\ Append(old, piece) \in Seq(Pieces) /\ Len(Append(old, piece)) = n + 1
        /\ \A i \in 1..n : Append(old, piece)[i] = old[i]
        /\ Append(old, piece)[n + 1] = piece
    BY <1>1, <1>2, <1>4, AppendProperties
  <2>2. \A i \in 1..Len(new) : new[i] = Append(old, piece)[i]
    BY <1>1, <1>4, <1>5, <1>6, <2>1
  <2> QED
    BY <1>4, <2>1, <2>2, SeqEqual
<1>9. FlattenSeq(new) = FlattenSeq(old) \o piece
  BY <1>2, <1>4, <1>8, FlattenAppend
<1> QED
  BY <1>7, <1>9 DEF longer, old, new, piece

\* The first signal gives its data, and the rest theirs unless the first ends
\* the stream.
LEMMA OfferedHead ==
  ASSUME NEW queue \in Seq(Signal), queue # <<>>, NEW id
  PROVE  /\ FlattenSeq(Offered(queue, id))
              = (IF Carries(Head(queue), id) THEN Head(queue).data ELSE <<>>)
                \o (IF Ends(Head(queue), id) THEN <<>>
                    ELSE FlattenSeq(Offered(Tail(queue), id)))
         /\ IsEnding(queue, id) <=> Ends(Head(queue), id) \/ IsEnding(Tail(queue), id)
<1> DEFINE signal == Head(queue)
           rest == Tail(queue)
           first == IF Carries(signal, id) THEN signal.data ELSE <<>>
           n == Len(rest)
<1>1. /\ signal \in Signal /\ rest \in Seq(Signal) /\ signal = queue[1]
      /\ n \in Nat /\ Len(queue) = n + 1
      /\ \A i \in 1..n : rest[i] = queue[i + 1]
  OBVIOUS
<1>2. first \in Pieces
  BY <1>1, OfferIsPiece, EmptySeq DEF Pieces
<1> HIDE DEF signal, rest, n
<1>3. \A i \in 1..Len(queue) : i = 1 \/ (i # 1 /\ i - 1 \in 1..n /\ queue[i] = rest[i - 1])
  BY <1>1
<1>4. IsEnding(queue, id) <=> Ends(signal, id) \/ IsEnding(rest, id)
  <2>1. ASSUME IsEnding(queue, id) PROVE Ends(signal, id) \/ IsEnding(rest, id)
    BY <1>1, <1>3, <2>1 DEF IsEnding, n
  <2>2. ASSUME Ends(signal, id) PROVE IsEnding(queue, id)
    <3>1. 1 \in 1..Len(queue)
      BY <1>1
    <3> QED
      BY <1>1, <2>2, <3>1 DEF IsEnding
  <2>3. ASSUME IsEnding(rest, id) PROVE IsEnding(queue, id)
    <3>1. \A i \in 1..Len(rest) : i + 1 \in 1..Len(queue) /\ rest[i] = queue[i + 1]
      BY <1>1 DEF n
    <3> QED
      BY <2>3, <3>1 DEF IsEnding
  <2> QED
    BY <2>1, <2>2, <2>3
<1> DEFINE all == Offered(queue, id)
           tail == IF Ends(signal, id) THEN [i \in 1..n |-> <<>>] ELSE Offered(rest, id)
           one == <<first>>
<1>5. /\ all \in Seq(Pieces) /\ Len(all) = n + 1
      /\ tail \in Seq(Pieces) /\ Len(tail) = n
  <2>1. all \in Seq(Pieces) /\ Len(all) = n + 1
    BY <1>1, OfferedTyped
  <2>2. Offered(rest, id) \in Seq(Pieces) /\ Len(Offered(rest, id)) = n
    BY <1>1, OfferedTyped DEF n
  <2>3. <<>> \in Pieces
    BY EmptySeq DEF Pieces
  <2>4. [i \in 1..n |-> <<>>] \in Seq(Pieces) /\ Len([i \in 1..n |-> <<>>]) = n
    BY <1>1, <2>3
  <2> QED
    BY <2>1, <2>2, <2>4
<1>6. all[1] = first
  <2>1. 1 \in 1..Len(queue) /\ \A j \in 1..Len(queue) : ~(j < 1)
    BY <1>1
  <2>2. all[1] = IF Carries(queue[1], id) /\ (\A j \in 1..Len(queue) : j < 1 => ~Ends(queue[j], id))
                 THEN queue[1].data ELSE <<>>
    BY <2>1 DEF Offered
  <2> QED
    BY <1>1, <2>1, <2>2
<1>7. \A i \in 1..n : all[i + 1] = tail[i]
  <2> SUFFICES ASSUME NEW i \in 1..n
               PROVE  all[i + 1] = tail[i]
    OBVIOUS
  <2> DEFINE k == i + 1
  <2>1. k \in 1..Len(queue) /\ queue[k] = rest[i] /\ 1 \in 1..Len(queue) /\ 1 < k
    BY <1>1
  <2>2. all[k] = IF Carries(queue[k], id) /\ (\A j \in 1..Len(queue) : j < k => ~Ends(queue[j], id))
                 THEN queue[k].data ELSE <<>>
    BY <2>1 DEF Offered
  <2>3. CASE Ends(signal, id)
    <3>1. tail[i] = <<>>
      BY <2>3
    <3>2. ~(\A j \in 1..Len(queue) : j < k => ~Ends(queue[j], id))
      BY <1>1, <2>1, <2>3
    <3> QED
      BY <2>2, <3>1, <3>2
  <2>4. CASE ~Ends(signal, id)
    <3>1. i \in 1..Len(rest)
      BY <1>1 DEF n
    <3>2. tail[i] = IF Carries(rest[i], id)
                       /\ (\A j \in 1..Len(rest) : j < i => ~Ends(rest[j], id))
                    THEN rest[i].data ELSE <<>>
      BY <2>4, <3>1 DEF Offered
    <3>3. ASSUME \A j \in 1..Len(rest) : j < i => ~Ends(rest[j], id), NEW j \in 1..Len(queue), j < k
          PROVE  ~Ends(queue[j], id)
      <4>1. CASE j = 1
        BY <1>1, <2>4, <4>1
      <4>2. CASE j # 1
        <5>1. j - 1 \in 1..Len(rest) /\ j - 1 < i /\ queue[j] = rest[j - 1]
          BY <1>3, <3>3, <4>2 DEF n
        <5> QED
          BY <3>3, <5>1
      <4> QED
        BY <4>1, <4>2
    <3>4. ASSUME \A j \in 1..Len(queue) : j < k => ~Ends(queue[j], id), NEW j \in 1..Len(rest), j < i
          PROVE  ~Ends(rest[j], id)
      <4>1. j + 1 \in 1..Len(queue) /\ j + 1 < k /\ rest[j] = queue[j + 1]
        BY <1>1, <3>4 DEF n
      <4> QED
        BY <3>4, <4>1
    <3> QED
      BY <2>1, <2>2, <3>2, <3>3, <3>4
  <2> QED
    BY <2>3, <2>4
<1>8. FlattenSeq(tail) = IF Ends(signal, id) THEN <<>> ELSE FlattenSeq(Offered(rest, id))
  <2>1. CASE Ends(signal, id)
    <3>1. \A i \in 1..Len(tail) : tail[i] = <<>>
      BY <1>5, <2>1
    <3> HIDE DEF tail
    <3> QED
      BY <1>5, <2>1, <3>1, FlattenNothing
  <2> QED
    BY <2>1
<1> HIDE DEF all, tail
<1>9. one \in Seq(Pieces) /\ Len(one) = 1 /\ one[1] = first
  BY <1>2
<1> HIDE DEF one
<1>10. all = one \o tail
  <2>1. /\ one \o tail \in Seq(Pieces) /\ Len(one \o tail) = 1 + n
        /\ \A i \in 1..1 + n : (one \o tail)[i] = IF i <= 1 THEN one[i] ELSE tail[i - 1]
    <3>1. one \in Seq(Pieces)
      BY <1>9
    <3>2. tail \in Seq(Pieces)
      BY <1>5
    <3>3. /\ one \o tail \in Seq(Pieces) /\ Len(one \o tail) = Len(one) + Len(tail)
          /\ \A i \in 1..Len(one) + Len(tail) :
                (one \o tail)[i] = IF i <= Len(one) THEN one[i] ELSE tail[i - Len(one)]
      BY <3>1, <3>2, ConcatProperties
    <3> QED
      BY <1>5, <1>9, <3>3
  <2>2. \A i \in 1..Len(all) : all[i] = (one \o tail)[i]
    <3> SUFFICES ASSUME NEW i \in 1..Len(all)
                 PROVE  all[i] = (one \o tail)[i]
      OBVIOUS
    <3>1. CASE i = 1
      BY <1>1, <1>5, <1>6, <1>9, <2>1, <3>1
    <3>2. CASE i # 1
      <4>1. ~(i <= 1) /\ i - 1 \in 1..n /\ (i - 1) + 1 = i /\ i \in 1..1 + n
        BY <1>1, <1>5, <3>2
      <4> QED
        BY <1>7, <2>1, <4>1
    <3> QED
      BY <3>1, <3>2
  <2>3. Len(all) = Len(one \o tail)
    BY <1>1, <1>5, <2>1
  <2> QED
    BY <1>5, <2>1, <2>2, <2>3, SeqEqual
<1>11. FlattenSeq(one) = first
  <2>1. one = Append(<<>>, first) /\ <<>> \in Seq(Pieces)
    BY EmptySeq DEF one
  <2>2. FlattenSeq(one) = FlattenSeq(<<>>) \o first
    BY <1>2, <2>1, FlattenAppend
  <2> QED
    BY <1>2, <2>2, FlattenEmpty, PieceConcat
<1>12. FlattenSeq(all) = first \o FlattenSeq(tail)
  BY <1>5, <1>9, <1>10, <1>11, FlattenConcat
<1> QED
  BY <1>4, <1>8, <1>12 DEF all, signal, rest, first

\* A step that touches neither the signals nor the events nor the ends keeps
\* what is to come.
LEMMA NothingComes ==
  ASSUME NEW id, BodyComes(id), History' = History, Waiting' = Waiting,
         peerBody' = peerBody, peerDone' = peerDone, id \in terminal' <=> id \in terminal
  PROVE  BodyComes(id)'
BY DEF BodyComes

\* An injected signal joins the queue and brings its data, unless the stream
\* has been ended before.
LEMMA PushComes ==
  ASSUME TypeOK, ~polling, ~polling', NEW signal \in Signal, NEW id \in StreamIds, BodyComes(id),
         signals' = Append(signals, signal), UNCHANGED <<eventVars, terminal>>,
         peerBody'[id] = peerBody[id]
             \o (IF Carries(signal, id) /\ id \notin peerDone THEN signal.data ELSE <<>>),
         id \in peerDone' <=> id \in peerDone \/ Ends(signal, id)
  PROVE  BodyComes(id)'
<1> DEFINE told == BodyOf(History, id)
           piece == IF Carries(signal, id) /\ id \notin peerDone THEN signal.data ELSE <<>>
           coming == FlattenSeq(Offered(signals, id))
<1>1. Waiting = signals /\ Waiting' = Append(signals, signal)
  BY DEF Waiting
<1>2. signals \in Seq(Signal) /\ peerBody[id] \in Pieces
  BY DEF TypeOK, AdapterTypeOK, Pieces
<1>3. History' = History /\ told \in Pieces
  BY HistoryBodyTyped DEF eventVars, History, TypeOK
<1>4. piece \in Pieces /\ coming \in Pieces
  BY <1>2, OfferIsPiece, OfferedTyped, EmptySeq DEF Pieces
<1>5. CASE id \in terminal
  <2>1. id \in peerDone /\ told = peerBody[id]
    BY <1>5 DEF BodyComes
  <2>2. peerBody'[id] = peerBody[id] \o <<>>
    BY <2>1
  <2>3. peerBody'[id] = peerBody[id]
    BY <1>2, <2>2, PieceConcat
  <2> QED
    BY <1>3, <1>5, <2>1, <2>3 DEF BodyComes
<1>6. CASE id \notin terminal
  <2>1. told \o coming = peerBody[id] /\ (id \in peerDone <=> IsEnding(signals, id))
    BY <1>1, <1>6 DEF BodyComes
  <2>2. FlattenSeq(Offered(Append(signals, signal), id)) = coming \o piece
    BY <1>2, <2>1, OfferedAppend
  <2>3. IsEnding(Append(signals, signal), id) <=> IsEnding(signals, id) \/ Ends(signal, id)
    BY <1>2, OfferedAppend
  <2>4. peerBody'[id] = peerBody[id] \o piece
    OBVIOUS
  <2> HIDE DEF told, piece, coming
  <2>5. (told \o coming) \o piece = told \o (coming \o piece)
    BY <1>3, <1>4, PieceAssociative
  <2>6. told \o FlattenSeq(Offered(Append(signals, signal), id)) = peerBody'[id]
    BY <2>1, <2>2, <2>4, <2>5
  <2>7. id \in peerDone' <=> IsEnding(Append(signals, signal), id)
    BY <2>1, <2>3
  <2> QED
    BY <1>1, <1>3, <1>6, <2>6, <2>7 DEF BodyComes, told
<1> QED
  BY <1>5, <1>6

\* Injecting brings what the signal carries.
LEMMA InjectComes ==
  ASSUME TypeOK, BodyInv, Inject
  PROVE  BodyInv'
<1>1. ASSUME NEW signal \in Signal, PushSignal(signal),
             \A id \in StreamIds :
                /\ peerBody'[id] = peerBody[id]
                      \o (IF Carries(signal, id) /\ id \notin peerDone THEN signal.data ELSE <<>>)
                /\ id \in peerDone' <=> id \in peerDone \/ Ends(signal, id)
      PROVE  BodyInv'
  <2>1. /\ ~polling /\ signals' = Append(signals, signal)
        /\ UNCHANGED connectionVars /\ UNCHANGED batch
    BY <1>1 DEF PushSignal
  <2>2. UNCHANGED <<eventVars, terminal>> /\ UNCHANGED polling
    BY <2>1 DEF connectionVars, streamStateVars
  <2>3. ~polling'
    BY <2>1, <2>2, Zenon
  <2>4. OneQueue'
    BY <2>1, <2>3 DEF BodyInv, OneQueue
  <2>5. \A id \in StreamIds : BodyComes(id)'
    BY <1>1, <2>1, <2>2, <2>3, PushComes DEF BodyInv
  <2> QED
    BY <2>4, <2>5 DEF BodyInv
<1>2. /\ peerBody \in [StreamIds -> Seq(Chunks)] /\ peerDone \subseteq StreamIds
      /\ \A id \in StreamIds : peerBody[id] \o <<>> = peerBody[id]
  BY ConcatEmptySeq DEF TypeOK, AdapterTypeOK
<1>3. ASSUME NEW x \in StreamIds, NEW data \in Payloads, NEW fin \in BOOLEAN,
             InjectReadable(x, data, fin)
      PROVE  BodyInv'
  <2> DEFINE signal == [type |-> "readable", streamId |-> x, data |-> data, fin |-> fin]
  <2>1. signal \in Signal
    BY DEF Signal
  <2>2. PushSignal(signal)
    BY <1>3 DEF InjectReadable
  <2>3. \A id \in StreamIds : /\ Carries(signal, id) <=> id = x
                              /\ Ends(signal, id) <=> id = x /\ fin
                              /\ signal.data = data
    BY DEF Carries, Ends
  <2> HIDE DEF signal
  <2>4. /\ peerBody' = IF x \in peerDone THEN peerBody ELSE [peerBody EXCEPT ![x] = @ \o data]
        /\ peerDone' = IF fin THEN peerDone \cup {x} ELSE peerDone
    BY <1>3 DEF InjectReadable
  <2>5. ASSUME NEW id \in StreamIds
        PROVE  /\ peerBody'[id] = peerBody[id]
                      \o (IF Carries(signal, id) /\ id \notin peerDone THEN signal.data ELSE <<>>)
               /\ id \in peerDone' <=> id \in peerDone \/ Ends(signal, id)
    <3>1. CASE id = x
      BY <1>2, <2>3, <2>4, <3>1
    <3>2. CASE id # x
      BY <1>2, <2>3, <2>4, <3>2
    <3> QED
      BY <3>1, <3>2
  <2> QED
    BY <1>1, <2>1, <2>2, <2>5
<1>4. ASSUME NEW x \in StreamIds, NEW code \in ErrorCodes, InjectReset(x, code)
      PROVE  BodyInv'
  <2> DEFINE signal == [type |-> "reset", streamId |-> x, errorCode |-> code]
  <2>1. signal \in Signal
    BY DEF Signal
  <2>2. PushSignal(signal) /\ peerDone' = peerDone \cup {x} /\ peerBody' = peerBody
    BY <1>4 DEF InjectReset
  <2>3. \A id \in StreamIds : ~Carries(signal, id) /\ (Ends(signal, id) <=> id = x)
    BY DEF Carries, Ends
  <2> HIDE DEF signal
  <2> QED
    BY <1>1, <1>2, <2>1, <2>2, <2>3
<1>5. ASSUME NEW code \in ErrorCodes, NEW isClosed \in BOOLEAN, InjectClosing(code, isClosed)
      PROVE  BodyInv'
  <2> DEFINE signal == [type |-> "closing", errorCode |-> code, closed |-> isClosed]
  <2>1. signal \in Signal
    BY DEF Signal
  <2>2. PushSignal(signal) /\ peerDone' = peerDone /\ peerBody' = peerBody
    BY <1>5 DEF InjectClosing
  <2>3. \A id \in StreamIds : ~Carries(signal, id) /\ ~Ends(signal, id)
    BY DEF Carries, Ends
  <2> HIDE DEF signal
  <2> QED
    BY <1>1, <1>2, <2>1, <2>2, <2>3
<1> QED
  BY <1>3, <1>4, <1>5 DEF Inject

\* Consuming a signal tells its data, and with the end all of the body is told.
LEMMA ConsumeComes ==
  ASSUME TypeOK, BodyInv, ConsumeSignal, NEW id \in StreamIds
  PROVE  BodyComes(id)'
<1> DEFINE signal == Head(batch)
           rest == Tail(batch)
           told == BodyOf(History, id)
           piece == IF Carries(signal, id) THEN signal.data ELSE <<>>
           coming == FlattenSeq(Offered(rest, id))
<1>1. /\ polling /\ polling' /\ batch # <<>> /\ batch' = rest
      /\ UNCHANGED <<delivered, peerBody, peerDone>>
      /\ batch \in Seq(Signal) /\ ConnectionTypeOK
  BY DEF ConsumeSignal, historyVars, TypeOK, AdapterTypeOK
<1>2. Waiting = batch /\ Waiting' = rest
  BY <1>1 DEF Waiting
<1>3. signal \in Signal /\ rest \in Seq(Signal)
  BY <1>1
<1>4. told \in Pieces /\ piece \in Pieces /\ coming \in Pieces
  BY <1>1, <1>3, HistoryBodyTyped, OfferIsPiece, OfferedTyped, EmptySeq DEF Pieces
<1>5. /\ FlattenSeq(Offered(batch, id)) = piece \o (IF Ends(signal, id) THEN <<>> ELSE coming)
      /\ IsEnding(batch, id) <=> Ends(signal, id) \/ IsEnding(rest, id)
  BY <1>1, OfferedHead
<1>6. \/ /\ signal.type = "readable"
         /\ ConsumeReadable(signal.streamId, signal.data, signal.fin)
      \/ /\ signal.type = "reset"
         /\ ConsumeReset(signal.streamId, signal.errorCode)
      \/ /\ signal.type = "closing"
         /\ ConsumeClosing(signal.errorCode, signal.closed)
  BY DEF ConsumeSignal
<1>7. /\ BodyOf(History', id) = IF id \in terminal THEN told ELSE told \o piece
      /\ id \in terminal' <=> id \in terminal \/ Ends(signal, id)
  <2> HIDE DEF signal, rest, coming
  <2>1. CASE signal.type = "readable" /\ ConsumeReadable(signal.streamId, signal.data, signal.fin)
    <3> DEFINE x == signal.streamId
               data == signal.data
               fin == signal.fin
    <3>1. x \in StreamIds /\ data \in Payloads
      BY <1>3, <2>1, SignalsAreTyped
    <3>2. (Carries(signal, id) <=> id = x) /\ (Ends(signal, id) <=> id = x /\ fin)
      BY <2>1 DEF Carries, Ends
    <3>3. ConsumeReadable(x, data, fin)
      BY <2>1
    <3>4. piece = IF id = x THEN data ELSE <<>>
      BY <3>2
    <3> HIDE DEF x, data, fin
    <3>5. BodyOf(History', id) = told \o (IF id = x /\ x \notin terminal THEN data ELSE <<>>)
      BY <1>1, <3>1, <3>3, ReadableBody
    <3>6. terminal' = IF x \notin terminal /\ fin THEN terminal \cup {x} ELSE terminal
      BY <3>3 DEF ConsumeReadable, ConsumeLateReadable, ConsumeLiveReadable, streamStateVars
    <3>7. told \o <<>> = told
      BY <1>4, PieceConcat
    <3>8. BodyOf(History', id) = IF id \in terminal THEN told ELSE told \o piece
      <4> HIDE DEF told, piece
      <4>1. CASE id = x
        BY <3>4, <3>5, <3>7, <4>1
      <4>2. CASE id # x
        BY <3>4, <3>5, <3>7, <4>2
      <4> QED
        BY <4>1, <4>2
    <3> QED
      BY <3>2, <3>6, <3>8
  <2>2. CASE signal.type = "reset" /\ ConsumeReset(signal.streamId, signal.errorCode)
    <3> DEFINE x == signal.streamId
               code == signal.errorCode
    <3>1. x \in StreamIds /\ code \in ErrorCodes
      BY <1>3, <2>2, SignalsAreTyped
    <3>2. ~Carries(signal, id) /\ (Ends(signal, id) <=> id = x)
      BY <2>2 DEF Carries, Ends
    <3>3. ConsumeReset(x, code)
      BY <2>2
    <3> HIDE DEF x, code
    <3>4. BodyOf(History', id) = told
      BY <1>1, <3>1, <3>3, QuietBody
    <3>5. terminal' = terminal \cup {x}
      BY <3>3 DEF ConsumeReset, ConsumeLateReset, ConsumeLiveReset, streamStateVars
    <3>6. piece = <<>> /\ told \o <<>> = told
      BY <1>4, <3>2, PieceConcat
    <3> QED
      BY <3>2, <3>4, <3>5, <3>6
  <2>3. CASE signal.type = "closing" /\ ConsumeClosing(signal.errorCode, signal.closed)
    <3>1. signal.errorCode \in ErrorCodes
      BY <1>3, <2>3, SignalsAreTyped
    <3>2. ~Carries(signal, id) /\ ~Ends(signal, id)
      BY <2>3 DEF Carries, Ends
    <3>3. BodyOf(History', id) = told
      BY <1>1, <2>3, <3>1, QuietBody
    <3>4. terminal' = terminal
      BY <2>3 DEF ConsumeClosing, ConsumeFirstClosing, ConsumeLaterClosing, ConsumeLateClosing,
                  streamStateVars
    <3>5. piece = <<>> /\ told \o <<>> = told
      BY <1>4, <3>2, PieceConcat
    <3> QED
      BY <3>2, <3>3, <3>4, <3>5
  <2> QED
    BY <1>6, <2>1, <2>2, <2>3
<1>8. CASE id \in terminal
  BY <1>1, <1>7, <1>8 DEF BodyInv, BodyComes
<1>9. CASE id \notin terminal
  <2>1. /\ told \o FlattenSeq(Offered(batch, id)) = peerBody[id]
        /\ id \in peerDone <=> IsEnding(batch, id)
    BY <1>2, <1>9 DEF BodyInv, BodyComes
  <2> HIDE DEF told, piece, coming, signal, rest
  <2>2. (told \o piece) \o coming = told \o (piece \o coming) /\ piece \o <<>> = piece
    <3>1. (told \o piece) \o coming = told \o (piece \o coming)
      BY <1>4, PieceAssociative
    <3>2. piece \o <<>> = piece
      BY <1>4, PieceConcat
    <3> QED
      BY <3>1, <3>2
  <2>3. CASE Ends(signal, id)
    <3>1. told \o piece = peerBody[id] /\ id \in peerDone
      BY <1>5, <2>1, <2>2, <2>3
    <3>2. id \in terminal' /\ BodyOf(History', id) = told \o piece
      BY <1>7, <1>9, <2>3
    <3> QED
      BY <1>1, <3>1, <3>2 DEF BodyComes
  <2>4. CASE ~Ends(signal, id)
    <3>1. (told \o piece) \o coming = peerBody[id] /\ (id \in peerDone <=> IsEnding(rest, id))
      BY <1>5, <2>1, <2>2, <2>4
    <3>2. id \notin terminal' /\ BodyOf(History', id) = told \o piece
      BY <1>7, <1>9, <2>4
    <3> QED
      BY <1>1, <1>2, <3>1, <3>2 DEF BodyComes, coming
  <2> QED
    BY <2>3, <2>4
<1> QED
  BY <1>8, <1>9

\* A step that leaves the signals, the events and the ends alone keeps what
\* every stream is to get.
LEMMA QuietComes ==
  ASSUME BodyInv, OneQueue', Waiting' = Waiting, History' = History,
         UNCHANGED <<peerBody, peerDone, terminal>>
  PROVE  BodyInv'
<1>1. \A id \in StreamIds : BodyComes(id)'
  BY NothingComes DEF BodyInv
<1> QED
  BY <1>1 DEF BodyInv

\* Every step keeps what a stream has got and what it will get together the
\* body the peer sent.
LEMMA StepComes ==
  ASSUME Inv, BodyInv, [Next]_vars
  PROVE  BodyInv'
<1>1. /\ TypeOK /\ FreshIds /\ ConnectionTypeOK /\ OneQueue
      /\ \A id \in StreamIds : BodyComes(id)
  BY DEF Inv, TypeOK, BodyInv
<1>2. ASSUME UNCHANGED <<polling, signals, batch, eventVars, peerBody, peerDone, terminal>>
      PROVE  BodyInv'
  <2>1. OneQueue'
    BY <1>1, <1>2 DEF OneQueue
  <2>2. Waiting' = Waiting /\ History' = History
    BY <1>2 DEF Waiting, History, eventVars
  <2> QED
    BY <1>2, <2>1, <2>2, QuietComes
<1>3. CASE Inject
  BY <1>1, <1>3, InjectComes
<1>4. CASE OpenRequestStream
  <2>1. nextStreamId \notin terminal
    BY <1>1, <1>4, NewIdIsUnknown DEF OpenRequestStream, ConnectionTypeOK
  <2>2. terminal' = terminal
    BY <1>4, <2>1 DEF OpenRequestStream, CreateRequestStream
  <2> QED
    BY <1>2, <1>4, <2>2 DEF OpenRequestStream, CreateRequestStream, historyVars
<1>5. CASE \E id \in StreamIds : FetchRequestStream(id)
  BY <1>2, <1>5 DEF FetchRequestStream, GetRequestStream, adapterVars, historyVars
<1>6. CASE CloseConnection
  BY <1>2, <1>6 DEF CloseConnection, Close, adapterVars, historyVars, streamStateVars
<1>7. CASE StreamCall
  <2>1. PICK id \in StreamIds :
           WriteHeaders(id) \/ WriteData(id) \/ FinishStream(id) \/ ResetStream(id)
    BY <1>7 DEF StreamCall
  <2>2. UNCHANGED <<signals, batch, peerBody, peerDone>>
    BY <2>1 DEF WriteHeaders, WriteData, FinishStream, ResetStream, RecordCall, historyVars
  <2>3. UNCHANGED <<polling, eventVars, terminal>>
    BY <2>1 DEF WriteHeaders, WriteData, FinishStream, ResetStream, SubmitHeaders, SubmitData,
                End, Reset, connectionVars, streamStateVars
  <2> QED
    BY <1>2, <2>2, <2>3
<1>8. CASE PollSignals
  <2>1. ~polling /\ polling' /\ batch' = signals /\ signals' = <<>>
    BY <1>8 DEF PollSignals
  <2>2. UNCHANGED <<eventVars, peerBody, peerDone, terminal>>
    BY <1>8 DEF PollSignals, historyVars, streamStateVars
  <2>3. OneQueue' /\ Waiting' = Waiting
    BY <2>1 DEF OneQueue, Waiting
  <2>4. History' = History
    BY <2>2 DEF History, eventVars
  <2> QED
    BY <2>2, <2>3, <2>4, QuietComes
<1>9. CASE ConsumeSignal
  <2>1. \A id \in StreamIds : BodyComes(id)'
    BY <1>1, <1>9, ConsumeComes
  <2>2. polling /\ polling' = polling /\ signals' = signals
    BY <1>9 DEF ConsumeSignal
  <2>3. polling' /\ signals' = <<>>
    BY <1>1, <2>2 DEF OneQueue
  <2> QED
    BY <2>1, <2>3 DEF BodyInv, OneQueue
<1>10. CASE PollReturn
  <2>1. polling /\ ~polling' /\ batch = <<>> /\ batch' = batch /\ signals' = signals
    BY <1>10 DEF PollReturn, ReturnEvents, adapterVars
  <2>2. UNCHANGED <<peerBody, peerDone, terminal>>
    BY <1>10 DEF PollReturn, ReturnEvents, historyVars, streamStateVars
  <2>3. signals = <<>>
    BY <1>1, <2>1 DEF OneQueue
  <2>4. OneQueue' /\ Waiting' = Waiting
    BY <2>1, <2>3 DEF OneQueue, Waiting
  <2>5. History' = History
    BY <1>1, <1>10, ReturnKeepsHistory DEF PollReturn
  <2> QED
    BY <2>2, <2>4, <2>5, QuietComes
<1>11. CASE UNCHANGED vars
  BY <1>2, <1>11 DEF vars, connectionVars, streamStateVars, adapterVars, historyVars
<1> QED
  BY <1>3, <1>4, <1>5, <1>6, <1>7, <1>8, <1>9, <1>10, <1>11 DEF Next, ConnectionCall, Poll

\* No body has been sent on a new connection.
LEMMA InitComes == Init => BodyInv
<1> SUFFICES ASSUME Init
             PROVE  BodyInv
  OBVIOUS
<1>1. /\ signals = <<>> /\ batch = <<>> /\ terminal = {} /\ peerDone = {}
      /\ \A id \in StreamIds : peerBody[id] = <<>>
      /\ delivered = <<>> /\ eventQueue = <<>>
  BY DEF Init, ConnectionInit
<1>2. Waiting = <<>> /\ OneQueue
  BY <1>1 DEF Waiting, OneQueue
<1>3. History = <<>>
  BY <1>1 DEF History
<1>4. ASSUME NEW id \in StreamIds
      PROVE  BodyComes(id)
  <2>1. ~IsEnding(Waiting, id)
    BY <1>2 DEF IsEnding
  <2>2. Offered(Waiting, id) = <<>>
    BY <1>2, EmptySeq DEF Offered
  <2>3. BodyOf(History, id) = <<>>
    BY <1>3, BodyOfNone
  <2>4. BodyOf(History, id) \o FlattenSeq(Offered(Waiting, id)) = <<>>
    BY <2>2, <2>3, FlattenEmpty
  <2> QED
    BY <1>1, <2>1, <2>4 DEF BodyComes
<1> QED
  BY <1>2, <1>4 DEF BodyInv

\* A sequence is a prefix of what it begins.
LEMMA PrefixOfConcat ==
  ASSUME NEW a \in Pieces, NEW b \in Pieces
  PROVE  IsPrefix(a, a \o b)
<1>1. a \in Seq(Chunks) /\ b \in Seq(Chunks) /\ Len(a) \in Nat /\ Len(b) \in Nat
  BY DEF Pieces
<1> DEFINE t == a \o b
<1>2. /\ t \in Seq(Chunks) /\ Len(t) = Len(a) + Len(b)
      /\ \A i \in 1..Len(a) : t[i] = a[i]
  BY <1>1
<1> HIDE DEF t
<1>3. SubSeq(a, 1, Len(a)) = SubSeq(t, 1, Len(a))
  BY <1>1, <1>2
<1>4. Len(a) <= Len(t)
  BY <1>1, <1>2
<1> QED
  BY <1>3, <1>4 DEF IsPrefix, t

\* What is told of a body is a prefix of it, and all of it when no signal of
\* the stream is waiting.
LEMMA ComesInFull ==
  ASSUME TypeOK, BodyInv
  PROVE  BodyConserved
<1> SUFFICES ASSUME NEW id \in StreamIds
             PROVE  /\ IsPrefix(BodyOf(History, id), peerBody[id])
                    /\ IsPending(id) \/ BodyOf(History, id) = peerBody[id]
  BY DEF BodyConserved
<1> DEFINE told == BodyOf(History, id)
           offers == Offered(Waiting, id)
           coming == FlattenSeq(offers)
<1>1. Waiting \in Seq(Signal) /\ ConnectionTypeOK
  BY DEF Waiting, TypeOK, AdapterTypeOK
<1>2. /\ told \in Pieces /\ coming \in Pieces
      /\ offers \in Seq(Pieces) /\ Len(offers) = Len(Waiting)
  BY <1>1, HistoryBodyTyped, OfferedTyped
<1>3. batch \o signals = Waiting
  <2>1. batch \in Seq(Signal) /\ signals \in Seq(Signal)
    BY DEF TypeOK, AdapterTypeOK
  <2>2. CASE polling
    BY <2>1, <2>2, ConcatEmptySeq DEF BodyInv, OneQueue, Waiting
  <2>3. CASE ~polling
    BY <2>1, <2>3, ConcatEmptySeq DEF BodyInv, OneQueue, Waiting
  <2> QED
    BY <2>2, <2>3
<1>4. CASE id \in terminal
  <2>1. told = peerBody[id]
    BY <1>4 DEF BodyInv, BodyComes
  <2> HIDE DEF told
  <2>2. <<>> \in Pieces /\ told \o <<>> = told
    BY <1>2, PieceConcat
  <2>3. IsPrefix(told, told \o <<>>)
    BY <1>2, <2>2, PrefixOfConcat
  <2>4. IsPrefix(told, told)
    BY <2>2, <2>3
  <2> QED
    BY <2>1, <2>4 DEF told
<1>5. CASE id \notin terminal
  <2>1. told \o coming = peerBody[id]
    BY <1>5 DEF BodyInv, BodyComes
  <2>2. ASSUME ~IsPending(id)
        PROVE  coming = <<>>
    <3>1. \A i \in 1..Len(Waiting) : ~(Waiting[i].type # "closing" /\ Waiting[i].streamId = id)
      BY <1>3, <2>2 DEF IsPending
    <3>2. \A i \in 1..Len(Waiting) : ~Carries(Waiting[i], id)
      BY <3>1 DEF Carries
    <3>3. \A i \in 1..Len(offers) : offers[i] = <<>>
      BY <1>2, <3>2 DEF Offered
    <3> HIDE DEF offers
    <3> QED
      BY <1>2, <3>3, FlattenNothing
  <2> HIDE DEF told, coming
  <2>3. IsPrefix(told, told \o coming)
    BY <1>2, PrefixOfConcat
  <2>4. told \o <<>> = told
    BY <1>2, PieceConcat
  <2>5. IsPrefix(told, peerBody[id])
    BY <2>1, <2>3
  <2>6. IsPending(id) \/ told = peerBody[id]
    BY <2>1, <2>2, <2>4
  <2> QED
    BY <2>5, <2>6 DEF told
<1> QED
  BY <1>4, <1>5

\* Whatever the peer injects, in however many pieces and polls, and whatever
\* the application calls in between, the DataReceived payloads of a stream are
\* a prefix of the body the peer sent before its end, and the whole body once
\* no signal of the stream is waiting.
THEOREM BodyIsConserved == Spec => []BodyConserved
<1>1. Inv /\ BodyInv /\ [Next]_vars => BodyInv'
  BY StepComes
<1>2. Inv /\ BodyInv => BodyConserved
  BY ComesInFull DEF Inv
<1> QED
  BY InitComes, <1>1, <1>2, Invariance, PTL DEF Spec
=============================================================================
