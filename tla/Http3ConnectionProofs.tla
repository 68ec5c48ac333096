------------------------ MODULE Http3ConnectionProofs ------------------------
(***************************************************************************)
(* What each operation of Http3Connection does to its types, to the        *)
(* agreement of its state tables, to the contract and to the bodies it has *)
(* told, whatever the transport around it: the lemmas the transports'      *)
(* proofs are built from.                                                  *)
(***************************************************************************)
EXTENDS Http3Connection, MessageBodies, SequenceTheorems, WellFoundedInduction, TLAPS

ContractProofs == INSTANCE EventContractProofs WITH
    log      <- delivered \o eventQueue,
    phase    <- [id \in StreamIds |->
                    IF id \in terminal THEN "ended"
                    ELSE IF id \in remoteHeaders THEN "open" ELSE "idle"],
    goneAway <- closing

-----------------------------------------------------------------------------
(* Typing *)

\* The empty byte string is a payload.
LEMMA EmptyPayload == <<>> \in Payloads
<1>1. <<>> \in [1..0 -> Chunks]
  OBVIOUS
<1>2. QED  BY <1>1, MaxPayloadAssumption DEF Payloads

\* Every event the code makes is one of the event classes.
LEMMA EventsAreTyped ==
  /\ \A id \in StreamIds : HeadersReceived(id) \in Event
  /\ \A id \in StreamIds, data \in Payloads : DataReceived(id, data) \in Event
  /\ \A id \in StreamIds : RequestCompleted(id) \in Event
  /\ \A id \in StreamIds, code \in ErrorCodes : StreamReset(id, code) \in Event
  /\ \A code \in ErrorCodes : GoawayReceived(code) \in Event
BY EmptyPayload, ErrorCodesAssumption
   DEF Event, EventTypes, HeadersReceived, DataReceived, RequestCompleted, StreamReset,
       GoawayReceived

\* What one readable signal queues is a sequence of events.
LEMMA BurstIsTyped ==
  ASSUME NEW id \in StreamIds, NEW data \in Payloads, NEW fin
  PROVE  ReadableEvents(id, id \notin remoteHeaders, data, fin) \in Seq(Event)
<1>1. (IF id \notin remoteHeaders THEN <<HeadersReceived(id)>> ELSE <<>>) \in Seq(Event)
  BY EventsAreTyped
<1>2. (IF data # <<>> THEN <<DataReceived(id, data)>> ELSE <<>>) \in Seq(Event)
  BY EventsAreTyped
<1>3. (IF fin THEN <<RequestCompleted(id)>> ELSE <<>>) \in Seq(Event)
  BY EventsAreTyped
<1>4. QED  BY <1>1, <1>2, <1>3 DEF ReadableEvents, When

\* What each handler does to the connection keeps its types, whatever the
\* transport around it.
LEMMA ConsumeReadableTyped ==
  ASSUME ConnectionTypeOK, NEW id \in StreamIds, NEW data \in Payloads, NEW fin,
         ConsumeReadable(id, data, fin), UNCHANGED <<delivered, polling>>
  PROVE  ConnectionTypeOK'
<1>1. CASE ConsumeLateReadable(id)
  BY <1>1 DEF ConnectionTypeOK, ConsumeLateReadable, lifecycleVars, streamStateVars, handleVars
<1>2. CASE ConsumeLiveReadable(id, data, fin)
  <2>1. eventQueue' \in Seq(Event)
    <3>1. eventQueue \in Seq(Event)
      BY DEF ConnectionTypeOK
    <3>2. eventQueue' = eventQueue \o ReadableEvents(id, id \notin remoteHeaders, data, fin)
      BY <1>2 DEF ConsumeLiveReadable
    <3> DEFINE burst == ReadableEvents(id, id \notin remoteHeaders, data, fin)
    <3>3. burst \in Seq(Event)
      BY BurstIsTyped
    <3> HIDE DEF burst
    <3>4. eventQueue' = eventQueue \o burst
      BY <3>2 DEF burst
    <3>5. QED  BY <3>1, <3>3, <3>4
  <2>2. CASE fin
    BY <1>2, <2>1, <2>2
       DEF ConnectionTypeOK, ConsumeLiveReadable, MarkStreamClosed, lifecycleVars
  <2>3. CASE ~fin
    BY <1>2, <2>1, <2>3 DEF ConnectionTypeOK, ConsumeLiveReadable, lifecycleVars
  <2>4. QED  BY <2>2, <2>3
<1>3. QED  BY <1>1, <1>2 DEF ConsumeReadable

\* The same for a reset signal ...
LEMMA ConsumeResetTyped ==
  ASSUME ConnectionTypeOK, NEW id \in StreamIds, NEW code \in ErrorCodes,
         ConsumeReset(id, code), UNCHANGED <<delivered, polling>>
  PROVE  ConnectionTypeOK'
<1>1. CASE ConsumeLateReset(id)
  BY <1>1 DEF ConnectionTypeOK, ConsumeLateReset, lifecycleVars, streamStateVars, handleVars
<1>2. CASE ConsumeLiveReset(id, code)
  <2>1. eventQueue' \in Seq(Event)
    BY <1>2, EventsAreTyped DEF ConnectionTypeOK, ConsumeLiveReset
  <2>2. QED
    BY <1>2, <2>1 DEF ConnectionTypeOK, ConsumeLiveReset, MarkStreamClosed, lifecycleVars
<1>3. QED  BY <1>1, <1>2 DEF ConsumeReset

\* ... and for a closing signal.
LEMMA ConsumeClosingTyped ==
  ASSUME ConnectionTypeOK, NEW code \in ErrorCodes, NEW isClosed,
         ConsumeClosing(code, isClosed), UNCHANGED <<delivered, polling>>
  PROVE  ConnectionTypeOK'
<1>1. CASE ConsumeFirstClosing(code, isClosed)
  <2>1. eventQueue' \in Seq(Event)
    BY <1>1, EventsAreTyped DEF ConnectionTypeOK, ConsumeFirstClosing
  <2>2. connState' \in ConnStates /\ closing' \in BOOLEAN
    BY <1>1 DEF ConsumeFirstClosing, ConnStates
  <2>3. QED
    BY <1>1, <2>1, <2>2 DEF ConnectionTypeOK, ConsumeFirstClosing, streamStateVars, handleVars
<1>2. CASE ConsumeLaterClosing(isClosed)
  <2>1. connState' \in ConnStates /\ closing' \in BOOLEAN
    BY <1>2 DEF ConnectionTypeOK, ConsumeLaterClosing, ConnStates
  <2>2. QED
    BY <1>2, <2>1 DEF ConnectionTypeOK, ConsumeLaterClosing, streamStateVars, handleVars
<1>3. CASE ConsumeLateClosing
  BY <1>3 DEF ConnectionTypeOK, ConsumeLateClosing, lifecycleVars, streamStateVars, handleVars
<1>4. QED  BY <1>1, <1>2, <1>3 DEF ConsumeClosing

\* The methods of the connection keep the types ...
LEMMA ConnectionCallsTyped ==
  ASSUME ConnectionTypeOK
  PROVE  /\ \A id \in StreamIds : CreateRequestStream(id) => ConnectionTypeOK'
         /\ \A id \in StreamIds, found \in BOOLEAN :
               GetRequestStream(id, found) => ConnectionTypeOK'
         /\ Close => ConnectionTypeOK'
         /\ ReturnEvents => ConnectionTypeOK'
<1>1. ASSUME NEW id \in StreamIds, CreateRequestStream(id)
      PROVE  ConnectionTypeOK'
  BY <1>1 DEF ConnectionTypeOK, CreateRequestStream, ConnStates, eventVars
<1>2. ASSUME NEW id \in StreamIds, NEW found \in BOOLEAN, GetRequestStream(id, found)
      PROVE  ConnectionTypeOK'
  <2>1. /\ known' \subseteq StreamIds
        /\ remoteHeaders' \subseteq known'
        /\ remoteEnded' \subseteq known'
        /\ terminal' \subseteq known'
        /\ wasReset' \subseteq known'
        /\ handles' \subseteq known'
        /\ closed' \subseteq handles'
        /\ headersSubmitted' \subseteq handles'
        /\ localEnded' \subseteq handles'
    BY <1>2 DEF ConnectionTypeOK, GetRequestStream
  <2>2. QED
    BY <1>2, <2>1 DEF ConnectionTypeOK, GetRequestStream, lifecycleVars, eventVars
<1>3. ASSUME Close
      PROVE  ConnectionTypeOK'
  BY <1>3 DEF ConnectionTypeOK, Close, ConnStates, streamStateVars, handleVars, eventVars
<1>4. ASSUME ReturnEvents
      PROVE  ConnectionTypeOK'
  <2>1. eventQueue' \in Seq(Event) /\ delivered' \in Seq(Event)
    BY <1>4, ConcatProperties DEF ConnectionTypeOK, ReturnEvents
  <2>2. QED
    BY <1>4, <2>1 DEF ConnectionTypeOK, ReturnEvents, lifecycleVars, streamStateVars, handleVars
<1>5. QED  BY <1>1, <1>2, <1>3, <1>4

\* ... and so do those of a request stream.
LEMMA StreamCallsTyped ==
  ASSUME ConnectionTypeOK, NEW id \in StreamIds,
         SubmitHeaders(id) \/ SubmitData(id) \/ End(id) \/ Reset(id)
  PROVE  ConnectionTypeOK'
<1>1. CASE SubmitHeaders(id)
  BY <1>1 DEF ConnectionTypeOK, SubmitHeaders, lifecycleVars, streamStateVars, eventVars
<1>2. CASE SubmitData(id)
  BY <1>2 DEF ConnectionTypeOK, SubmitData, connectionVars, lifecycleVars, streamStateVars,
              handleVars, eventVars
<1>3. CASE End(id)
  BY <1>3 DEF ConnectionTypeOK, End, lifecycleVars, streamStateVars, eventVars
<1>4. CASE Reset(id)
  BY <1>4 DEF ConnectionTypeOK, Reset, lifecycleVars, streamStateVars, eventVars
<1>5. QED  BY <1>1, <1>2, <1>3, <1>4

\* A new connection is well typed.
LEMMA ConnectionInitTyped == ConnectionInit => ConnectionTypeOK
<1> SUFFICES ASSUME ConnectionInit
             PROVE  ConnectionTypeOK
  OBVIOUS
<1>1. eventQueue \in Seq(Event) /\ delivered \in Seq(Event)
  BY DEF ConnectionInit
<1>2. connState \in ConnStates
  BY DEF ConnectionInit, ConnStates
<1>3. closing \in BOOLEAN /\ closeCalled \in BOOLEAN /\ polling \in BOOLEAN
  BY DEF ConnectionInit
<1>4. QED  BY <1>1, <1>2, <1>3 DEF ConnectionInit, ConnectionTypeOK

-----------------------------------------------------------------------------
(* The state tables agree *)

TablesAgree == ClosingAgreesWithState /\ TerminalClosesHandle /\ OneEnding

\* The handlers of the three signals keep the tables in agreement.
LEMMA HandlersAgree ==
  ASSUME ConnectionTypeOK, TablesAgree
  PROVE  /\ \A id \in StreamIds, data \in Payloads, fin \in BOOLEAN :
               ConsumeReadable(id, data, fin) => TablesAgree'
         /\ \A id \in StreamIds, code \in ErrorCodes :
               ConsumeReset(id, code) => TablesAgree'
         /\ \A code \in ErrorCodes, isClosed \in BOOLEAN :
               ConsumeClosing(code, isClosed) => TablesAgree'
<1> USE DEF TablesAgree, ClosingAgreesWithState, TerminalClosesHandle, OneEnding
<1>1. ASSUME NEW id \in StreamIds, NEW data \in Payloads, NEW fin \in BOOLEAN,
             ConsumeReadable(id, data, fin)
      PROVE  TablesAgree'
  <2>1. CASE ConsumeLateReadable(id)
    BY <2>1 DEF ConsumeLateReadable, lifecycleVars, streamStateVars, handleVars
  <2>2. CASE ConsumeLiveReadable(id, data, fin) /\ fin
    BY <2>2 DEF ConsumeLiveReadable, MarkStreamClosed, lifecycleVars
  <2>3. CASE ConsumeLiveReadable(id, data, fin) /\ ~fin
    BY <2>3 DEF ConsumeLiveReadable, lifecycleVars
  <2>4. QED  BY <1>1, <2>1, <2>2, <2>3 DEF ConsumeReadable
<1>2. ASSUME NEW id \in StreamIds, NEW code \in ErrorCodes, ConsumeReset(id, code)
      PROVE  TablesAgree'
  <2>1. CASE ConsumeLateReset(id)
    BY <2>1 DEF ConsumeLateReset, lifecycleVars, streamStateVars, handleVars
  <2>2. CASE ConsumeLiveReset(id, code)
    BY <2>2 DEF ConsumeLiveReset, MarkStreamClosed, lifecycleVars
  <2>3. QED  BY <1>2, <2>1, <2>2 DEF ConsumeReset
<1>3. ASSUME NEW code \in ErrorCodes, NEW isClosed \in BOOLEAN, ConsumeClosing(code, isClosed)
      PROVE  TablesAgree'
  <2>1. CASE ConsumeFirstClosing(code, isClosed)
    BY <2>1 DEF ConsumeFirstClosing, streamStateVars, handleVars
  <2>2. CASE ConsumeLaterClosing(isClosed)
    BY <2>2 DEF ConsumeLaterClosing, streamStateVars, handleVars
  <2>3. CASE ConsumeLateClosing
    BY <2>3 DEF ConsumeLateClosing, lifecycleVars, streamStateVars, handleVars
  <2>4. QED  BY <1>3, <2>1, <2>2, <2>3 DEF ConsumeClosing
<1>4. QED  BY <1>1, <1>2, <1>3

\* The methods do too, if a stream that is opened is new to the tables.
LEMMA MethodsAgree ==
  ASSUME ConnectionTypeOK, TablesAgree
  PROVE  /\ \A id \in StreamIds : id \notin known /\ CreateRequestStream(id) => TablesAgree'
         /\ \A id \in StreamIds : GetRequestStream(id, FALSE) => TablesAgree'
         /\ \A id \in StreamIds : GetRequestStream(id, TRUE) => TablesAgree'
         /\ Close => TablesAgree'
         /\ ReturnEvents => TablesAgree'
         /\ \A id \in StreamIds :
               SubmitHeaders(id) \/ SubmitData(id) \/ End(id) \/ Reset(id) => TablesAgree'
<1> USE DEF TablesAgree, ClosingAgreesWithState, TerminalClosesHandle, OneEnding
<1>1. ASSUME NEW id \in StreamIds, id \notin known, CreateRequestStream(id)
      PROVE  TablesAgree'
  BY <1>1 DEF CreateRequestStream, ConnectionTypeOK
<1>2. ASSUME NEW id \in StreamIds, NEW found \in BOOLEAN, GetRequestStream(id, found)
      PROVE  TablesAgree'
  BY <1>2 DEF GetRequestStream, lifecycleVars, ConnectionTypeOK
<1>3. ASSUME Close
      PROVE  TablesAgree'
  BY <1>3 DEF Close, streamStateVars, handleVars
<1>4. ASSUME ReturnEvents
      PROVE  TablesAgree'
  BY <1>4 DEF ReturnEvents, lifecycleVars, streamStateVars, handleVars
<1>5. ASSUME NEW id \in StreamIds, SubmitHeaders(id) \/ SubmitData(id) \/ End(id) \/ Reset(id)
      PROVE  TablesAgree'
  BY <1>5 DEF SubmitHeaders, SubmitData, End, Reset, connectionVars, lifecycleVars,
              streamStateVars, handleVars
<1>6. QED  BY <1>1, <1>2, <1>3, <1>4, <1>5

-----------------------------------------------------------------------------
(* Refinement of EventContract *)

\* The stream phases EventContract sees; its log is History.
Phase == [id \in StreamIds |->
            IF id \in terminal THEN "ended"
            ELSE IF id \in remoteHeaders THEN "open" ELSE "idle"]

\* A handler extends the log exactly by what it queues.
LEMMA QueueExtendsLog ==
  ASSUME ConnectionTypeOK, UNCHANGED delivered,
         NEW burst \in Seq(Event), eventQueue' = eventQueue \o burst
  PROVE  History' = History \o burst
BY ConcatAssociative DEF ConnectionTypeOK, History

\* The same for a single event.
LEMMA AppendExtendsLog ==
  ASSUME ConnectionTypeOK, UNCHANGED delivered,
         NEW event \in Event, eventQueue' = Append(eventQueue, event)
  PROVE  History' = Append(History, event)
<1>1. delivered \in Seq(Event) /\ eventQueue \in Seq(Event) /\ History \in Seq(Event)
  BY ConcatProperties DEF ConnectionTypeOK, History
<1>2. eventQueue' = eventQueue \o <<event>> /\ <<event>> \in Seq(Event)
  BY <1>1, AppendIsConcat
<1>3. History' = History \o <<event>>
  BY <1>2, QueueExtendsLog
<1>4. QED  BY <1>1, <1>3, AppendIsConcat

\* A readable signal is a Receive of the contract, or nothing.
LEMMA ReadableRefines ==
  ASSUME ConnectionTypeOK, NEW id \in StreamIds, NEW data \in Payloads, NEW fin \in BOOLEAN,
         ConsumeReadable(id, data, fin), UNCHANGED <<delivered, polling>>
  PROVE  Contract!Receive(id, data, fin) \/ UNCHANGED Contract!contractVars
<1>1. CASE ConsumeLateReadable(id)
  BY <1>1 DEF ConsumeLateReadable, streamStateVars, lifecycleVars, Contract!contractVars
<1>2. CASE ConsumeLiveReadable(id, data, fin)
  <2> DEFINE burst == ReadableEvents(id, id \notin remoteHeaders, data, fin)
  <2>1. burst \in Seq(Event)
    BY BurstIsTyped
  <2>2. eventQueue' = eventQueue \o burst
    BY <1>2 DEF ConsumeLiveReadable
  <2> HIDE DEF burst
  <2>3. History' = History \o burst
    BY <2>1, <2>2, QueueExtendsLog
  <2>4. id \notin terminal /\ closing' = closing
    BY <1>2 DEF ConsumeLiveReadable, lifecycleVars
  <2>5. Phase[id] # "ended" /\ (Phase[id] = "idle" <=> id \notin remoteHeaders)
    BY <2>4 DEF Phase
  <2>6. burst = Contract!ReadableEvents(id, Phase[id] = "idle", data, fin)
    <3>1. (Phase[id] = "idle") = (id \notin remoteHeaders)
      BY <2>5
    <3>2. QED
      BY <3>1 DEF burst, ReadableEvents, When, HeadersReceived, DataReceived, RequestCompleted,
                  Contract!ReadableEvents, Contract!When, Contract!HeadersReceived,
                  Contract!DataReceived, Contract!RequestCompleted
  <2>7. Phase' = [Phase EXCEPT ![id] = IF fin THEN "ended" ELSE "open"]
    <3>1. CASE fin
      BY <1>2, <3>1 DEF ConsumeLiveReadable, Phase
    <3>2. CASE ~fin
      BY <1>2, <3>2 DEF ConsumeLiveReadable, Phase
    <3>3. QED  BY <3>1, <3>2
  <2>8. Contract!Receive(id, data, fin)
    BY <2>3, <2>4, <2>5, <2>6, <2>7 DEF Contract!Receive, History, Phase
  <2>9. QED  BY <2>8
<1>3. QED  BY <1>1, <1>2 DEF ConsumeReadable

\* A reset signal is an Abandon of the contract, or nothing.
LEMMA ResetRefines ==
  ASSUME ConnectionTypeOK, NEW id \in StreamIds, NEW code \in ErrorCodes,
         ConsumeReset(id, code), UNCHANGED <<delivered, polling>>
  PROVE  Contract!Abandon(id, code) \/ UNCHANGED Contract!contractVars
<1>1. CASE ConsumeLateReset(id)
  BY <1>1 DEF ConsumeLateReset, streamStateVars, lifecycleVars, Contract!contractVars
<1>2. CASE ConsumeLiveReset(id, code)
  <2>1. History' = Append(History, StreamReset(id, code))
    BY <1>2, EventsAreTyped, AppendExtendsLog DEF ConsumeLiveReset
  <2>2. id \notin terminal /\ closing' = closing
    BY <1>2 DEF ConsumeLiveReset, lifecycleVars
  <2>3. Phase[id] # "ended"
    BY <2>2 DEF Phase
  <2>4. Phase' = [Phase EXCEPT ![id] = "ended"]
    BY <1>2 DEF ConsumeLiveReset, Phase
  <2>5. StreamReset(id, code) = Contract!StreamReset(id, code)
    BY DEF StreamReset, Contract!StreamReset
  <2>6. Contract!Abandon(id, code)
    BY <2>1, <2>2, <2>3, <2>4, <2>5 DEF Contract!Abandon, History, Phase
  <2>7. QED  BY <2>6
<1>3. QED  BY <1>1, <1>2 DEF ConsumeReset

\* A closing signal is a GoAway of the contract, or nothing.
LEMMA ClosingRefines ==
  ASSUME ConnectionTypeOK, ClosingAgreesWithState,
         NEW code \in ErrorCodes, NEW isClosed \in BOOLEAN,
         ConsumeClosing(code, isClosed), UNCHANGED <<delivered, polling>>
  PROVE  Contract!GoAway(code) \/ UNCHANGED Contract!contractVars
<1>1. CASE ConsumeFirstClosing(code, isClosed)
  <2>1. History' = Append(History, GoawayReceived(code))
    BY <1>1, EventsAreTyped, AppendExtendsLog DEF ConsumeFirstClosing
  <2>2. ~closing /\ closing' = TRUE
    BY <1>1 DEF ConsumeFirstClosing, ClosingAgreesWithState
  <2>3. Phase' = Phase
    BY <1>1 DEF ConsumeFirstClosing, Phase, streamStateVars
  <2>4. GoawayReceived(code) = Contract!GoawayReceived(code)
    BY DEF GoawayReceived, Contract!GoawayReceived, NoStream, Contract!NoStream
  <2>5. Contract!GoAway(code)
    BY <2>1, <2>2, <2>3, <2>4 DEF Contract!GoAway, History, Phase
  <2>6. QED  BY <2>5
<1>2. CASE ConsumeLaterClosing(isClosed)
  <2>1. closing /\ closing'
    BY <1>2 DEF ConsumeLaterClosing, ClosingAgreesWithState
  <2>2. closing' = closing
    BY <1>2, <2>1 DEF ConsumeLaterClosing, ConnectionTypeOK
  <2>3. QED
    BY <1>2, <2>2 DEF ConsumeLaterClosing, streamStateVars, Contract!contractVars
<1>3. CASE ConsumeLateClosing
  BY <1>3 DEF ConsumeLateClosing, lifecycleVars, streamStateVars, Contract!contractVars
<1>4. QED  BY <1>1, <1>2, <1>3 DEF ConsumeClosing

\* A new connection is a new contract.
LEMMA ConnectionInitRefines == ConnectionInit => Contract!ContractInit
<1> SUFFICES ASSUME ConnectionInit
             PROVE  Contract!ContractInit
  OBVIOUS
<1>1. History = <<>>
  BY DEF ConnectionInit, History
<1>2. Phase = [id \in StreamIds |-> "idle"]
  BY DEF ConnectionInit, Phase
<1>3. closing = FALSE
  BY DEF ConnectionInit
<1>4. QED  BY <1>1, <1>2, <1>3 DEF Contract!ContractInit, History, Phase

\* A step that touches neither the events nor the phases is a stutter.
LEMMA OtherwiseStutter ==
  ASSUME UNCHANGED <<closing, terminal, remoteHeaders, eventVars>>
  PROVE  UNCHANGED Contract!contractVars
BY DEF Contract!contractVars, eventVars

\* The methods are steps of the contract, if a stream that is opened is new to
\* the tables.
LEMMA MethodsRefine ==
  ASSUME ConnectionTypeOK
  PROVE  /\ \A id \in StreamIds :
               id \notin known /\ CreateRequestStream(id) => UNCHANGED Contract!contractVars
         /\ \A id \in StreamIds :
               GetRequestStream(id, FALSE) => UNCHANGED Contract!contractVars
         /\ \A id \in StreamIds :
               GetRequestStream(id, TRUE) => UNCHANGED Contract!contractVars
         /\ Close => Contract!CloseLocally
         /\ ReturnEvents => UNCHANGED Contract!contractVars
         /\ \A id \in StreamIds :
               SubmitHeaders(id) \/ SubmitData(id) \/ End(id) \/ Reset(id)
               => UNCHANGED Contract!contractVars
<1>1. ASSUME NEW id \in StreamIds, id \notin known, CreateRequestStream(id)
      PROVE  UNCHANGED Contract!contractVars
  <2>1. terminal' = terminal /\ remoteHeaders' = remoteHeaders
    BY <1>1 DEF CreateRequestStream, ConnectionTypeOK
  <2>2. QED  BY <1>1, <2>1, OtherwiseStutter DEF CreateRequestStream
<1>2. ASSUME NEW id \in StreamIds, NEW found \in BOOLEAN, GetRequestStream(id, found)
      PROVE  UNCHANGED Contract!contractVars
  BY <1>2, OtherwiseStutter DEF GetRequestStream, lifecycleVars
<1>3. ASSUME Close
      PROVE  Contract!CloseLocally
  <2>1. closing' = TRUE /\ UNCHANGED <<streamStateVars, eventVars>>
    BY <1>3 DEF Close
  <2>2. QED  BY <2>1 DEF Contract!CloseLocally, streamStateVars, eventVars
<1>4. ASSUME ReturnEvents
      PROVE  UNCHANGED Contract!contractVars
  <2>1. delivered' = delivered \o eventQueue /\ eventQueue' = <<>>
    BY <1>4 DEF ReturnEvents
  <2>2. History' = History
    <3>1. delivered \o eventQueue \in Seq(Event)
      BY ConcatProperties DEF ConnectionTypeOK
    <3>2. (delivered \o eventQueue) \o <<>> = delivered \o eventQueue
      BY <3>1, ConcatEmptySeq
    <3>3. QED  BY <2>1, <3>2 DEF History
  <2>3. Phase' = Phase /\ closing' = closing
    BY <1>4 DEF ReturnEvents, lifecycleVars, streamStateVars, Phase
  <2>4. QED  BY <2>2, <2>3 DEF Contract!contractVars, History, Phase
<1>5. ASSUME NEW id \in StreamIds, SubmitHeaders(id) \/ SubmitData(id) \/ End(id) \/ Reset(id)
      PROVE  UNCHANGED Contract!contractVars
  BY <1>5, OtherwiseStutter
     DEF SubmitHeaders, SubmitData, End, Reset, lifecycleVars, streamStateVars, connectionVars
<1>6. QED  BY <1>1, <1>2, <1>3, <1>4, <1>5

\* What one readable signal queues, in the contract's words, is a sequence of events.
LEMMA ContractBurstIsTyped ==
  ASSUME NEW id \in StreamIds, NEW data \in Payloads, NEW first, NEW fin
  PROVE  Contract!ReadableEvents(id, first, data, fin) \in Seq(Event)
<1>1. (IF first THEN <<HeadersReceived(id)>> ELSE <<>>) \in Seq(Event)
  BY EventsAreTyped
<1>2. (IF data # <<>> THEN <<DataReceived(id, data)>> ELSE <<>>) \in Seq(Event)
  BY EventsAreTyped
<1>3. (IF fin THEN <<RequestCompleted(id)>> ELSE <<>>) \in Seq(Event)
  BY EventsAreTyped
<1>4. ReadableEvents(id, first, data, fin) \in Seq(Event)
  BY <1>1, <1>2, <1>3 DEF ReadableEvents, When
<1>5. ReadableEvents(id, first, data, fin) = Contract!ReadableEvents(id, first, data, fin)
  BY DEF ReadableEvents, When, HeadersReceived, DataReceived, RequestCompleted,
         Contract!ReadableEvents, Contract!When, Contract!HeadersReceived,
         Contract!DataReceived, Contract!RequestCompleted
<1>6. QED  BY <1>4, <1>5

\* No step of the contract takes back or changes an event of the log.
LEMMA ContractKeepsLog ==
  ASSUME ConnectionTypeOK, [Contract!ContractNext]_(Contract!contractVars)
  PROVE  /\ Len(History') >= Len(History)
         /\ SubSeq(History', 1, Len(History)) = History
<1>1. History \in Seq(Event)
  BY ConcatProperties DEF ConnectionTypeOK, History
<1> DEFINE old == History
<1>2. ASSUME NEW burst \in Seq(Event), History' = old \o burst
      PROVE  /\ Len(History') >= Len(old)
             /\ SubSeq(History', 1, Len(old)) = old
  <2> DEFINE new == old \o burst
  <2>1. old \in Seq(Event) /\ new \in Seq(Event)
    BY <1>1, ConcatProperties
  <2>2. Len(new) = Len(old) + Len(burst) /\ Len(old) \in Nat /\ Len(burst) \in Nat
    BY <2>1, ConcatProperties
  <2>3. \A i \in 1..Len(old) : new[i] = old[i]
    BY <2>1, ConcatProperties
  <2>4. History' = new
    BY <1>2
  <2> HIDE DEF old, new
  <2>5. /\ SubSeq(new, 1, Len(old)) \in Seq(Event)
        /\ Len(SubSeq(new, 1, Len(old))) = Len(old)
        /\ \A i \in 1..Len(old) : SubSeq(new, 1, Len(old))[i] = new[i]
    BY <2>1, <2>2
  <2>6. SubSeq(new, 1, Len(old)) = old
    BY <2>1, <2>3, <2>5
  <2>7. Len(new) >= Len(old)
    BY <2>2
  <2>8. QED  BY <2>4, <2>6, <2>7
<1>3. ASSUME NEW id \in StreamIds, NEW data \in Payloads, NEW fin \in BOOLEAN,
             Contract!Receive(id, data, fin)
      PROVE  \E burst \in Seq(Event) : History' = old \o burst
  BY <1>3, ContractBurstIsTyped DEF Contract!Receive, History
<1>4. ASSUME NEW event \in Event, History' = Append(History, event)
      PROVE  \E burst \in Seq(Event) : History' = old \o burst
  <2>1. Append(History, event) = History \o <<event>> /\ <<event>> \in Seq(Event)
    BY <1>1, AppendIsConcat
  <2>2. QED  BY <1>4, <2>1
<1>5. ASSUME NEW id \in StreamIds, NEW code \in ErrorCodes, Contract!Abandon(id, code)
      PROVE  \E burst \in Seq(Event) : History' = old \o burst
  <2>1. History' = Append(History, StreamReset(id, code))
    BY <1>5 DEF Contract!Abandon, Contract!StreamReset, StreamReset, History
  <2>2. QED  BY <1>4, <2>1, EventsAreTyped
<1>6. ASSUME NEW code \in ErrorCodes, Contract!GoAway(code)
      PROVE  \E burst \in Seq(Event) : History' = old \o burst
  <2>1. History' = Append(History, GoawayReceived(code))
    BY <1>6 DEF Contract!GoAway, Contract!GoawayReceived, GoawayReceived, Contract!NoStream,
                NoStream, History
  <2>2. QED  BY <1>4, <2>1, EventsAreTyped
<1>7. CASE Contract!CloseLocally \/ UNCHANGED Contract!contractVars
  <2>1. History' = History
    BY <1>7 DEF Contract!CloseLocally, Contract!contractVars, History
  <2>2. old \o <<>> = old /\ <<>> \in Seq(Event)
    BY <1>1, ConcatEmptySeq
  <2> HIDE DEF old
  <2>3. History' = old \o <<>>
    BY <2>1, <2>2 DEF old
  <2>4. QED  BY <1>2, <2>2, <2>3 DEF old
<1>8. Contract!Payloads = Payloads
  BY DEF Payloads, Contract!Payloads
<1>9. QED
  BY <1>2, <1>3, <1>5, <1>6, <1>7, <1>8 DEF Contract!ContractNext

\* The contract of Http3Connection is the one its proofs are about.
LEMMA ContractsAgree == ImplementsContract => ContractProofs!ContractSpec
<1>1. Contract!ContractInit => ContractProofs!ContractInit
  BY DEF Contract!ContractInit, ContractProofs!ContractInit
<1>2. [Contract!ContractNext]_(Contract!contractVars)
      => [ContractProofs!ContractNext]_(ContractProofs!contractVars)
  BY DEF Contract!ContractNext, Contract!contractVars, Contract!Receive, Contract!Abandon,
         Contract!GoAway, Contract!CloseLocally, Contract!ReadableEvents, Contract!When,
         Contract!HeadersReceived, Contract!DataReceived, Contract!RequestCompleted,
         Contract!StreamReset, Contract!GoawayReceived, Contract!NoStream, Contract!Payloads,
         ContractProofs!ContractNext, ContractProofs!contractVars, ContractProofs!Receive,
         ContractProofs!Abandon, ContractProofs!GoAway, ContractProofs!CloseLocally,
         ContractProofs!ReadableEvents, ContractProofs!When, ContractProofs!HeadersReceived,
         ContractProofs!DataReceived, ContractProofs!RequestCompleted,
         ContractProofs!StreamReset, ContractProofs!GoawayReceived, ContractProofs!NoStream,
         ContractProofs!Payloads
<1>3. QED
  BY <1>1, <1>2, PTL
     DEF ImplementsContract, Contract!ContractSpec, ContractProofs!ContractSpec

\* Whoever implements the contract delivers its events in order.
LEMMA ContractGivesOrder == ImplementsContract => []EventsInOrder
<1>1. ContractProofs!StreamOrder /\ ContractProofs!HeadersFirst /\ ContractProofs!GoawayOnce
      => EventsInOrder
  BY DEF EventsInOrder, Contract!StreamOrder, Contract!HeadersFirst, Contract!GoawayOnce,
         Contract!TerminalTypes, Contract!NoStream, ContractProofs!StreamOrder,
         ContractProofs!HeadersFirst, ContractProofs!GoawayOnce, ContractProofs!TerminalTypes,
         ContractProofs!NoStream
<1>2. ContractProofs!ContractSpec
      => [](ContractProofs!StreamOrder /\ ContractProofs!HeadersFirst /\ ContractProofs!GoawayOnce)
  BY StreamIdsAssumption, ErrorCodesAssumption, MaxPayloadAssumption, ContractProofs!ContractOrder
<1>3. QED  BY <1>1, <1>2, ContractsAgree, PTL

\* A connection with a GOAWAY in its history, polled or not, is closing.
GoawayMeansClosing ==
    (\E i \in 1..Len(History) : History[i].type = "GoawayReceived") => closing

\* Whoever implements the contract is closing from the first GOAWAY on.
LEMMA ContractGivesClosing == ImplementsContract => []GoawayMeansClosing
<1>1. ContractProofs!GoawayMeansGone => GoawayMeansClosing
  BY DEF GoawayMeansClosing, ContractProofs!GoawayMeansGone, History
<1>2. ContractProofs!ContractSpec => []ContractProofs!GoawayMeansGone
  BY StreamIdsAssumption, ErrorCodesAssumption, MaxPayloadAssumption, ContractProofs!ContractGone
<1>3. QED  BY <1>1, <1>2, ContractsAgree, PTL

-----------------------------------------------------------------------------
(* The body that the events of a stream carry *)

\* Induction on the naturals, in the form of a set.
LEMMA SetInduction ==
  ASSUME NEW S, 0 \in S, \A n \in Nat : n \in S => n + 1 \in S
  PROVE  Nat \subseteq S
<1> DEFINE R == OpToRel(<, Nat)
           T == Nat \ S
<1>1. IsWellFoundedOn(R, Nat)
  BY NatLessThanWellFounded, Zenon
<1>2. \A x, y \in Nat : x < y => <<x, y>> \in R
  BY SMT DEF OpToRel
<1> HIDE DEF R
<1>3. SUFFICES ASSUME T # {} PROVE FALSE
  OBVIOUS
<1>4. PICK x \in T : \A y \in T : ~(<<y, x>> \in R)
  BY <1>1, <1>3, WFMin
<1>5. x \in Nat \ {0}
  OBVIOUS
<1>6. x - 1 \in Nat /\ x - 1 < x
  BY <1>5
<1>7. x - 1 \in S
  BY <1>2, <1>4, <1>6
<1>8. (x - 1) + 1 \in S
  BY <1>6, <1>7
<1> QED
  BY <1>5, <1>8

\* The pieces of bodies.  The name keeps sequences of them from being sequences
\* of sequences to the provers.
Pieces == Seq(Chunks)

\* Pieces are joined.
LEMMA PieceConcat ==
  ASSUME NEW a \in Pieces, NEW b \in Pieces
  PROVE  /\ <<>> \in Pieces
         /\ a \o b \in Pieces
         /\ a \o <<>> = a /\ <<>> \o a = a
BY EmptySeq, ConcatProperties, ConcatEmptySeq DEF Pieces

\* In whatever grouping.
LEMMA PieceAssociative == \A a, b, c \in Pieces : (a \o b) \o c = a \o (b \o c)
BY ConcatAssociative DEF Pieces

\* f is the function FlattenSeq defines by recursion, on the first n sequences.
Flattens(f, seqs, n) ==
    f = [i \in 1..n |-> IF i = 1 THEN seqs[i] ELSE f[i - 1] \o seqs[i]]

\* The recursion has a solution for every sequence of pieces.
LEMMA FlattensExists ==
  ASSUME NEW seqs \in Seq(Pieces)
  PROVE  \E f \in [1..Len(seqs) -> Pieces] : Flattens(f, seqs, Len(seqs))
<1> DEFINE N == Len(seqs)
           T == {n \in Nat : n <= N => \E f \in [1..n -> Pieces] : Flattens(f, seqs, n)}
<1>1. N \in Nat /\ \A i \in 1..N : seqs[i] \in Pieces
  BY LenProperties
<1> HIDE DEF N
<1>2. 0 \in T
  <2> DEFINE f0 == [i \in 1..0 |-> IF i = 1 THEN seqs[i] ELSE <<>>]
  <2>1. f0 \in [1..0 -> Pieces]
    OBVIOUS
  <2>2. Flattens(f0, seqs, 0)
    BY DEF Flattens
  <2> QED
    BY <2>1, <2>2
<1>3. ASSUME NEW n \in Nat, n \in T
      PROVE  n + 1 \in T
  <2>1. SUFFICES ASSUME n + 1 <= N
                 PROVE  \E g \in [1..(n + 1) -> Pieces] : Flattens(g, seqs, n + 1)
    OBVIOUS
  <2>2. PICK f \in [1..n -> Pieces] : Flattens(f, seqs, n)
    BY <1>1, <1>3, <2>1
  <2>3. \A i \in 1..n : f[i] = IF i = 1 THEN seqs[i] ELSE f[i - 1] \o seqs[i]
    BY <2>2 DEF Flattens
  <2> DEFINE last == IF n = 0 THEN seqs[1] ELSE f[n] \o seqs[n + 1]
             g == [i \in 1..(n + 1) |-> IF i = n + 1 THEN last ELSE f[i]]
  <2>4. n + 1 \in 1..N
    BY <1>1, <2>1
  <2>5. last \in Pieces
    <3>1. CASE n = 0
      BY <1>1, <2>4, <3>1
    <3>2. CASE n # 0
      <4>1. f[n] \in Pieces /\ seqs[n + 1] \in Pieces
        BY <1>1, <2>4, <3>2
      <4> QED
        BY <3>2, <4>1, PieceConcat
    <3> QED
      BY <3>1, <3>2
  <2> HIDE DEF last
  <2>6. g \in [1..(n + 1) -> Pieces]
    BY <2>5
  <2>7. \A i \in 1..(n + 1) : g[i] = IF i = 1 THEN seqs[i] ELSE g[i - 1] \o seqs[i]
    <3> SUFFICES ASSUME NEW i \in 1..(n + 1)
                 PROVE  g[i] = IF i = 1 THEN seqs[i] ELSE g[i - 1] \o seqs[i]
      OBVIOUS
    <3>1. CASE i = n + 1 /\ n = 0
      BY <3>1 DEF last
    <3>2. CASE i = n + 1 /\ n # 0
      <4>1. i - 1 = n /\ n \in 1..(n + 1) /\ n # n + 1 /\ i # 1
        BY <3>2
      <4>2. g[n] = f[n]
        BY <4>1
      <4>3. g[i] = f[n] \o seqs[n + 1]
        BY <3>2 DEF last
      <4> QED
        BY <3>2, <4>1, <4>2, <4>3
    <3>3. CASE i # n + 1
      <4>1. i \in 1..n /\ g[i] = f[i]
        BY <3>3
      <4>2. i # 1 => i - 1 \in 1..(n + 1) /\ i - 1 # n + 1
        BY <4>1
      <4>3. i # 1 => g[i - 1] = f[i - 1]
        BY <4>2
      <4> QED
        BY <2>3, <4>1, <4>3
    <3> QED
      BY <3>1, <3>2, <3>3
  <2>8. Flattens(g, seqs, n + 1)
    <3> HIDE DEF g
    <3> QED
      BY <2>6, <2>7 DEF Flattens
  <2> QED
    BY <2>6, <2>8
<1> HIDE DEF T
<1>4. Nat \subseteq T
  BY <1>2, <1>3, SetInduction
<1>5. N \in T
  BY <1>1, <1>4
<1> QED
  BY <1>1, <1>5 DEF T, N

\* And one only: sequences that agree so far flatten alike.
LEMMA FlattensAgree ==
  ASSUME NEW n \in Nat, NEW m \in Nat, n <= m, NEW s, NEW t, NEW f, NEW g,
         Flattens(f, s, n), Flattens(g, t, m), \A i \in 1..n : s[i] = t[i]
  PROVE  \A i \in 1..n : f[i] = g[i]
<1> DEFINE T == {k \in Nat : k \in 1..n => f[k] = g[k]}
<1>1. \A i \in 1..n : f[i] = IF i = 1 THEN s[i] ELSE f[i - 1] \o s[i]
  BY DEF Flattens
<1>2. \A i \in 1..m : g[i] = IF i = 1 THEN t[i] ELSE g[i - 1] \o t[i]
  BY DEF Flattens
<1>3. 0 \in T
  OBVIOUS
<1>4. ASSUME NEW k \in Nat, k \in T
      PROVE  k + 1 \in T
  <2>1. SUFFICES ASSUME k + 1 \in 1..n
                 PROVE  f[k + 1] = g[k + 1]
    OBVIOUS
  <2>2. k + 1 \in 1..m /\ (k + 1) - 1 = k /\ s[k + 1] = t[k + 1]
    BY <2>1
  <2>3. k # 0 => f[k] = g[k]
    BY <1>4, <2>1
  <2>4. k + 1 = 1 <=> k = 0
    OBVIOUS
  <2> QED
    BY <1>1, <1>2, <2>1, <2>2, <2>3, <2>4
<1> HIDE DEF T
<1>5. Nat \subseteq T
  BY <1>3, <1>4, SetInduction
<1> QED
  BY <1>5 DEF T

\* FlattenSeq is the last value of that function.
LEMMA FlattenIs ==
  ASSUME NEW seqs \in Seq(Pieces), Len(seqs) # 0
  PROVE  \E f \in [1..Len(seqs) -> Pieces] :
            Flattens(f, seqs, Len(seqs)) /\ FlattenSeq(seqs) = f[Len(seqs)]
<1> DEFINE F == CHOOSE f : f = [i \in 1..Len(seqs) |-> IF i = 1 THEN seqs[i] ELSE f[i - 1] \o seqs[i]]
<1>1. FlattenSeq(seqs) = F[Len(seqs)]
  BY DEF FlattenSeq
<1>2. PICK f \in [1..Len(seqs) -> Pieces] : Flattens(f, seqs, Len(seqs))
  BY FlattensExists
<1>3. F = [i \in 1..Len(seqs) |-> IF i = 1 THEN seqs[i] ELSE F[i - 1] \o seqs[i]]
  BY <1>2 DEF Flattens
<1> HIDE DEF F
<1>4. Flattens(F, seqs, Len(seqs))
  BY <1>3 DEF Flattens
<1>5. \A i \in 1..Len(seqs) : f[i] = F[i]
  BY <1>2, <1>4, FlattensAgree, LenProperties
<1>6. F[Len(seqs)] = f[Len(seqs)]
  <2>1. Len(seqs) \in 1..Len(seqs)
    BY LenProperties
  <2> QED
    BY <1>5, <2>1
<1> QED
  BY <1>1, <1>2, <1>6

\* The pieces add up to a piece.
LEMMA FlattenTyped ==
  ASSUME NEW seqs \in Seq(Pieces)
  PROVE  FlattenSeq(seqs) \in Pieces
<1>1. CASE Len(seqs) = 0
  <2>1. seqs = <<>> /\ FlattenSeq(seqs) = seqs
    BY <1>1, EmptySeq DEF FlattenSeq
  <2>2. FlattenSeq(seqs) = <<>>
    BY <2>1
  <2>3. <<>> \in Pieces
    BY EmptySeq DEF Pieces
  <2> QED
    BY <2>2, <2>3
<1>2. CASE Len(seqs) # 0
  <2>1. PICK f \in [1..Len(seqs) -> Pieces] : FlattenSeq(seqs) = f[Len(seqs)]
    BY <1>2, FlattenIs
  <2>2. Len(seqs) \in 1..Len(seqs)
    BY <1>2, LenProperties
  <2> QED
    BY <2>1, <2>2
<1> QED
  BY <1>1, <1>2

\* One more piece is joined at the end.
LEMMA FlattenAppend ==
  ASSUME NEW seqs \in Seq(Pieces), NEW s \in Pieces
  PROVE  FlattenSeq(Append(seqs, s)) = FlattenSeq(seqs) \o s
<1> DEFINE t == Append(seqs, s)
           n == Len(seqs)
<1>1. /\ t \in Seq(Pieces) /\ n \in Nat /\ Len(t) = n + 1
      /\ \A i \in 1..n : t[i] = seqs[i]
      /\ t[n + 1] = s
  BY AppendProperties, LenProperties
<1> HIDE DEF t
<1>2. PICK g \in [1..Len(t) -> Pieces] : Flattens(g, t, Len(t)) /\ FlattenSeq(t) = g[Len(t)]
  <2>1. t \in Seq(Pieces) /\ Len(t) # 0
    BY <1>1
  <2> QED
    BY <2>1, FlattenIs
<1>3. g[n + 1] = IF n + 1 = 1 THEN t[n + 1] ELSE g[(n + 1) - 1] \o t[n + 1]
  <2>1. n + 1 \in 1..Len(t)
    BY <1>1
  <2> QED
    BY <1>2, <2>1 DEF Flattens
<1>4. CASE n = 0
  <2>1. seqs = <<>>
    BY <1>4, EmptySeq
  <2>2. FlattenSeq(seqs) = <<>>
    BY <1>4, <2>1 DEF FlattenSeq
  <2>3. FlattenSeq(t) = s
    BY <1>1, <1>2, <1>3, <1>4
  <2> QED
    BY <2>2, <2>3, PieceConcat DEF t
<1>5. CASE n # 0
  <2>1. PICK f \in [1..n -> Pieces] : Flattens(f, seqs, n) /\ FlattenSeq(seqs) = f[n]
    BY <1>5, FlattenIs
  <2>2. n <= Len(t) /\ Len(t) \in Nat /\ n \in 1..n
    BY <1>1, <1>5
  <2>3. \A i \in 1..n : f[i] = g[i]
    <3> DEFINE m == Len(t)
    <3>1. n \in Nat
      BY <1>1
    <3>2. m \in Nat
      BY <2>2
    <3>3. n <= m
      BY <2>2
    <3>4. Flattens(f, seqs, n)
      BY <2>1
    <3>5. Flattens(g, t, m)
      BY <1>2
    <3>6. \A i \in 1..n : seqs[i] = t[i]
      BY <1>1
    <3> HIDE DEF n, m
    <3> QED
      BY <3>1, <3>2, <3>3, <3>4, <3>5, <3>6, FlattensAgree
  <2>4. f[n] = g[n]
    BY <2>2, <2>3
  <2>5. g[n + 1] = g[n] \o s
    BY <1>1, <1>3, <1>5
  <2> QED
    BY <1>1, <1>2, <2>1, <2>4, <2>5 DEF t
<1> QED
  BY <1>4, <1>5

\* No pieces, no body.
LEMMA FlattenEmpty == FlattenSeq(<<>>) = <<>>
BY EmptySeq DEF FlattenSeq

\* The body of two sequences of pieces is the one body and then the other.
LEMMA FlattenConcat ==
  ASSUME NEW s \in Seq(Pieces), NEW t \in Seq(Pieces)
  PROVE  FlattenSeq(s \o t) = FlattenSeq(s) \o FlattenSeq(t)
<1> DEFINE T == {n \in Nat : \A u \in Seq(Pieces) :
                     Len(u) = n => FlattenSeq(s \o u) = FlattenSeq(s) \o FlattenSeq(u)}
<1>1. 0 \in T
  <2> SUFFICES ASSUME NEW u \in Seq(Pieces), Len(u) = 0
               PROVE  FlattenSeq(s \o u) = FlattenSeq(s) \o FlattenSeq(u)
    OBVIOUS
  <2>1. u = <<>>
    BY EmptySeq
  <2>2. s \o u = s
    BY <2>1, ConcatEmptySeq
  <2>3. FlattenSeq(s) \o <<>> = FlattenSeq(s)
    BY FlattenTyped, PieceConcat
  <2> QED
    BY <2>1, <2>2, <2>3, FlattenEmpty
<1>2. ASSUME NEW n \in Nat, n \in T
      PROVE  n + 1 \in T
  <2> SUFFICES ASSUME NEW u \in Seq(Pieces), Len(u) = n + 1
               PROVE  FlattenSeq(s \o u) = FlattenSeq(s) \o FlattenSeq(u)
    OBVIOUS
  <2>1. u # <<>>
    BY <1>2
  <2>2. PICK v \in Seq(Pieces), x \in Pieces : u = Append(v, x)
    BY <2>1, SequenceEmptyOrAppend
  <2>3. Len(v) = n
    BY <1>2, <2>2, AppendProperties, LenProperties
  <2>4. FlattenSeq(s \o v) = FlattenSeq(s) \o FlattenSeq(v)
    BY <1>2, <2>2, <2>3
  <2>5. s \o v \in Seq(Pieces) /\ s \o u = Append(s \o v, x)
    <3> DEFINE e == <<x>>
    <3>1. e \in Seq(Pieces) /\ u = v \o e /\ s \o v \in Seq(Pieces)
      BY <2>2, AppendIsConcat, ConcatProperties
    <3>2. Append(s \o v, x) = (s \o v) \o e
      BY <3>1, AppendIsConcat
    <3> HIDE DEF e
    <3>4. (s \o v) \o e = s \o (v \o e)
      BY <3>1, ConcatAssociative
    <3> QED
      BY <3>1, <3>2, <3>4
  <2>6. FlattenSeq(s \o u) = FlattenSeq(s \o v) \o x
    BY <2>2, <2>5, FlattenAppend
  <2>7. FlattenSeq(u) = FlattenSeq(v) \o x
    BY <2>2, FlattenAppend
  <2>8. (FlattenSeq(s) \o FlattenSeq(v)) \o x = FlattenSeq(s) \o (FlattenSeq(v) \o x)
    <3> DEFINE a == FlattenSeq(s)
               b == FlattenSeq(v)
    <3>1. a \in Pieces /\ b \in Pieces
      BY <2>2, FlattenTyped
    <3> HIDE DEF a, b, T
    <3>2. (a \o b) \o x = a \o (b \o x)
      BY <3>1, PieceAssociative, Zenon
    <3> QED
      BY <3>2 DEF a, b
  <2> QED
    BY <2>4, <2>6, <2>7, <2>8
<1> HIDE DEF T
<1>3. Nat \subseteq T
  BY <1>1, <1>2, SetInduction
<1>4. Len(t) \in T
  BY <1>3, LenProperties
<1> QED
  BY <1>4 DEF T

\* Empty pieces add up to nothing.
LEMMA FlattenNothing ==
  ASSUME NEW seqs \in Seq(Pieces), \A i \in 1..Len(seqs) : seqs[i] = <<>>
  PROVE  FlattenSeq(seqs) = <<>>
<1>1. CASE Len(seqs) = 0
  BY <1>1, EmptySeq DEF FlattenSeq
<1>2. CASE Len(seqs) # 0
  <2> DEFINE N == Len(seqs)
  <2>1. PICK f \in [1..N -> Pieces] : Flattens(f, seqs, N) /\ FlattenSeq(seqs) = f[N]
    BY <1>2, FlattenIs
  <2>2. \A i \in 1..N : f[i] = IF i = 1 THEN seqs[i] ELSE f[i - 1] \o seqs[i]
    BY <2>1 DEF Flattens
  <2>3. N \in Nat
    BY LenProperties
  <2> DEFINE T == {k \in Nat : k \in 1..N => f[k] = <<>>}
  <2> HIDE DEF N
  <2>4. \A i \in 1..N : seqs[i] = <<>>
    BY DEF N
  <2>5. <<>> \o <<>> = <<>>
    BY PieceConcat, EmptySeq DEF Pieces
  <2>6. 0 \in T
    OBVIOUS
  <2>7. ASSUME NEW k \in Nat, k \in T
        PROVE  k + 1 \in T
    <3>1. SUFFICES ASSUME k + 1 \in 1..N PROVE f[k + 1] = <<>>
      OBVIOUS
    <3>2. k # 0 => f[k] = <<>>
      BY <2>3, <2>7, <3>1
    <3>3. (k + 1) - 1 = k /\ (k + 1 = 1 <=> k = 0)
      OBVIOUS
    <3> QED
      BY <2>2, <2>4, <2>5, <3>1, <3>2, <3>3
  <2> HIDE DEF T
  <2>8. Nat \subseteq T
    BY <2>6, <2>7, SetInduction
  <2>9. N \in T /\ N \in 1..N
    BY <1>2, <2>3, <2>8 DEF N
  <2> QED
    BY <2>1, <2>9 DEF T
<1> QED
  BY <1>1, <1>2

\* What each event of a log adds to the body of a stream.
PiecesOf(log, id) ==
    [i \in 1..Len(log) |-> IF log[i].streamId = id THEN log[i].payload ELSE <<>>]

\* What an event carries is a piece.
LEMMA PayloadIsPiece ==
  ASSUME NEW event \in Event
  PROVE  event.payload \in Pieces
<1>1. event.payload \in Payloads
  BY DEF Event
<1> QED
  BY <1>1 DEF Payloads, Pieces

\* The pieces of a log are pieces, and BodyOf joins them.
LEMMA PiecesAreTyped ==
  ASSUME NEW log \in Seq(Event), NEW id
  PROVE  /\ PiecesOf(log, id) \in Seq(Pieces)
         /\ Len(PiecesOf(log, id)) = Len(log)
         /\ BodyOf(log, id) = FlattenSeq(PiecesOf(log, id))
         /\ BodyOf(log, id) \in Pieces
<1>1. Len(log) \in Nat /\ \A i \in 1..Len(log) : log[i] \in Event
  BY LenProperties
<1>2. \A i \in 1..Len(log) : log[i].payload \in Pieces
  BY <1>1, PayloadIsPiece
<1>3. <<>> \in Pieces
  BY EmptySeq DEF Pieces
<1>4. PiecesOf(log, id) \in Seq(Pieces) /\ Len(PiecesOf(log, id)) = Len(log)
  BY <1>1, <1>2, <1>3 DEF PiecesOf
<1>5. BodyOf(log, id) = FlattenSeq(PiecesOf(log, id))
  BY DEF BodyOf, PiecesOf
<1> QED
  BY <1>4, <1>5, FlattenTyped

\* What is queued behind a log adds its body to the log's.
LEMMA BodyGrows ==
  ASSUME NEW log \in Seq(Event), NEW burst \in Seq(Event), NEW id
  PROVE  BodyOf(log \o burst, id) = BodyOf(log, id) \o BodyOf(burst, id)
<1> DEFINE all == log \o burst
<1>1. /\ all \in Seq(Event) /\ Len(all) = Len(log) + Len(burst)
      /\ Len(log) \in Nat /\ Len(burst) \in Nat
      /\ \A i \in 1..Len(log) + Len(burst) :
            all[i] = IF i <= Len(log) THEN log[i] ELSE burst[i - Len(log)]
  BY ConcatProperties, LenProperties
<1> HIDE DEF all
<1> DEFINE p == PiecesOf(log, id)
           q == PiecesOf(burst, id)
           r == PiecesOf(all, id)
<1>2. /\ p \in Seq(Pieces) /\ Len(p) = Len(log)
      /\ q \in Seq(Pieces) /\ Len(q) = Len(burst)
      /\ r \in Seq(Pieces) /\ Len(r) = Len(all)
  BY <1>1, PiecesAreTyped
<1>3. \A i \in 1..Len(all) : r[i] = IF i <= Len(log) THEN p[i] ELSE q[i - Len(log)]
  <2> SUFFICES ASSUME NEW i \in 1..Len(all)
               PROVE  r[i] = IF i <= Len(log) THEN p[i] ELSE q[i - Len(log)]
    OBVIOUS
  <2>1. r[i] = IF all[i].streamId = id THEN all[i].payload ELSE <<>>
    BY DEF PiecesOf
  <2>2. CASE i <= Len(log)
    <3>1. i \in 1..Len(log) /\ all[i] = log[i]
      BY <1>1, <2>2
    <3>2. p[i] = IF log[i].streamId = id THEN log[i].payload ELSE <<>>
      BY <3>1 DEF PiecesOf
    <3> QED
      BY <2>1, <2>2, <3>1, <3>2
  <2>3. CASE ~(i <= Len(log))
    <3> DEFINE k == i - Len(log)
    <3>1. k \in 1..Len(burst) /\ all[i] = burst[k]
      BY <1>1, <2>3
    <3> HIDE DEF k
    <3>2. q[k] = IF burst[k].streamId = id THEN burst[k].payload ELSE <<>>
      BY <3>1 DEF PiecesOf
    <3>3. r[i] = q[k]
      BY <2>1, <3>1, <3>2
    <3> QED
      BY <2>3, <3>3 DEF k
  <2> QED
    BY <2>2, <2>3
<1> HIDE DEF p, q, r
<1>4. r = p \o q
  <2>1. p \o q \in Seq(Pieces) /\ Len(p \o q) = Len(r)
    <3>1. p \in Seq(Pieces)
      BY <1>2
    <3>2. q \in Seq(Pieces)
      BY <1>2
    <3>3. p \o q \in Seq(Pieces) /\ Len(p \o q) = Len(p) + Len(q)
      BY <3>1, <3>2, ConcatProperties
    <3> QED
      BY <1>1, <1>2, <3>3
  <2>2. \A i \in 1..Len(r) : (p \o q)[i] = IF i <= Len(log) THEN p[i] ELSE q[i - Len(log)]
    BY <1>1, <1>2, ConcatProperties
  <2>3. \A i \in 1..Len(r) : r[i] = (p \o q)[i]
    BY <1>2, <1>3, <2>2
  <2> QED
    BY <1>2, <2>1, <2>3, SeqEqual
<1>5. FlattenSeq(r) = FlattenSeq(p) \o FlattenSeq(q)
  BY <1>2, <1>4, FlattenConcat
<1> QED
  BY <1>1, <1>5, PiecesAreTyped DEF p, q, r, all

\* An empty log has no body.
LEMMA BodyOfNone ==
  ASSUME NEW id
  PROVE  BodyOf(<<>>, id) = <<>>
<1>1. <<>> \in Seq(Event) /\ Len(<<>>) = 0
  BY EmptySeq
<1>2. PiecesOf(<<>>, id) = <<>>
  BY <1>1, PiecesAreTyped, EmptySeq
<1> QED
  BY <1>1, <1>2, PiecesAreTyped, FlattenEmpty

\* A single event has the payload of its stream.
LEMMA BodyOfFew ==
  ASSUME NEW event \in Event, NEW id
  PROVE  /\ BodyOf(<<>>, id) = <<>>
         /\ BodyOf(<<event>>, id) = IF event.streamId = id THEN event.payload ELSE <<>>
<1> DEFINE one == <<event>>
           piece == IF event.streamId = id THEN event.payload ELSE <<>>
<1>1. BodyOf(<<>>, id) = <<>>
  BY BodyOfNone
<1>2. one \in Seq(Event) /\ Len(one) = 1 /\ one[1] = event
  OBVIOUS
<1> HIDE DEF one
<1>3. piece \in Pieces
  BY PayloadIsPiece, EmptySeq DEF Pieces
<1>4. PiecesOf(one, id) = [i \in 1..1 |-> piece]
  BY <1>2 DEF PiecesOf
<1> HIDE DEF piece
<1>5. PiecesOf(one, id) = Append(<<>>, piece)
  BY <1>4
<1>6. FlattenSeq(Append(<<>>, piece)) = FlattenSeq(<<>>) \o piece
  <2>1. <<>> \in Seq(Pieces)
    BY EmptySeq
  <2> QED
    BY <1>3, <2>1, FlattenAppend
<1>7. BodyOf(one, id) = <<>> \o piece
  BY <1>2, <1>5, <1>6, PiecesAreTyped, FlattenEmpty
<1>8. BodyOf(one, id) = piece
  BY <1>3, <1>7, PieceConcat
<1> QED
  BY <1>1, <1>8 DEF one, piece

\* The body of what has been told is a sequence of chunks.
LEMMA HistoryBodyTyped ==
  ASSUME ConnectionTypeOK, NEW id
  PROVE  History \in Seq(Event) /\ BodyOf(History, id) \in Pieces
<1>1. History \in Seq(Event)
  BY ConcatProperties DEF ConnectionTypeOK, History
<1> QED
  BY <1>1, PiecesAreTyped

\* Also after a step.
LEMMA LaterBodyTyped ==
  ASSUME ConnectionTypeOK', NEW id
  PROVE  BodyOf(History', id) \in Pieces
<1>1. History' \in Seq(Event)
  BY ConcatProperties DEF ConnectionTypeOK, History
<1> QED
  BY <1>1, PiecesAreTyped

\* One readable signal adds its data to the body of its stream.
LEMMA BodyOfBurst ==
  ASSUME NEW x \in StreamIds, NEW first, NEW data \in Payloads, NEW fin, NEW id
  PROVE  /\ ReadableEvents(x, first, data, fin) \in Seq(Event)
         /\ BodyOf(ReadableEvents(x, first, data, fin), id) = IF x = id THEN data ELSE <<>>
<1> DEFINE a == When(first, HeadersReceived(x))
           b == When(data # <<>>, DataReceived(x, data))
           c == When(fin, RequestCompleted(x))
           part == IF x = id THEN data ELSE <<>>
<1>1. ASSUME NEW condition, NEW event \in Event
      PROVE  /\ When(condition, event) \in Seq(Event)
             /\ event.payload = <<>> => BodyOf(When(condition, event), id) = <<>>
             /\ condition => BodyOf(When(condition, event), id)
                                = IF event.streamId = id THEN event.payload ELSE <<>>
             /\ ~condition => BodyOf(When(condition, event), id) = <<>>
  <2>1. BodyOf(<<event>>, id) = IF event.streamId = id THEN event.payload ELSE <<>>
    BY BodyOfFew
  <2>2. BodyOf(<<>>, id) = <<>>
    BY BodyOfFew
  <2>3. CASE condition
    <3>1. When(condition, event) = <<event>>
      BY <2>3 DEF When
    <3>2. <<event>> \in Seq(Event)
      OBVIOUS
    <3> QED
      BY <2>1, <2>3, <3>1, <3>2
  <2>4. CASE ~condition
    <3>1. When(condition, event) = <<>>
      BY <2>4 DEF When
    <3>2. <<>> \in Seq(Event)
      OBVIOUS
    <3> QED
      BY <2>2, <2>4, <3>1, <3>2
  <2> QED
    BY <2>3, <2>4
<1>2. a \in Seq(Event) /\ BodyOf(a, id) = <<>>
  <2>1. HeadersReceived(x) \in Event /\ HeadersReceived(x).payload = <<>>
    BY EventsAreTyped DEF HeadersReceived
  <2> QED
    BY <1>1, <2>1
<1>3. c \in Seq(Event) /\ BodyOf(c, id) = <<>>
  <2>1. RequestCompleted(x) \in Event /\ RequestCompleted(x).payload = <<>>
    BY EventsAreTyped DEF RequestCompleted
  <2> QED
    BY <1>1, <2>1
<1>4. b \in Seq(Event) /\ BodyOf(b, id) = part
  <2>1. /\ DataReceived(x, data) \in Event
        /\ DataReceived(x, data).payload = data /\ DataReceived(x, data).streamId = x
    BY EventsAreTyped DEF DataReceived
  <2>2. CASE data # <<>>
    BY <1>1, <2>1, <2>2
  <2>3. CASE data = <<>>
    BY <1>1, <2>1, <2>3
  <2> QED
    BY <2>2, <2>3
<1>5. part \in Pieces
  <2>1. data \in Pieces
    BY DEF Payloads, Pieces
  <2>2. <<>> \in Pieces
    BY EmptySeq DEF Pieces
  <2> QED
    BY <2>1, <2>2
<1>6. ReadableEvents(x, first, data, fin) = (a \o b) \o c
  BY DEF ReadableEvents
<1> HIDE DEF a, b, c, part
<1>7. a \o b \in Seq(Event) /\ BodyOf(a \o b, id) = <<>> \o part
  <2>1. a \in Seq(Event) /\ b \in Seq(Event)
    BY <1>2, <1>4
  <2>2. a \o b \in Seq(Event)
    BY <2>1, ConcatProperties
  <2>3. BodyOf(a \o b, id) = BodyOf(a, id) \o BodyOf(b, id)
    BY <2>1, BodyGrows
  <2> QED
    BY <1>2, <1>4, <2>2, <2>3
<1>8. <<>> \o part = part /\ part \o <<>> = part
  BY <1>5, PieceConcat
<1>9. (a \o b) \o c \in Seq(Event) /\ BodyOf((a \o b) \o c, id) = part \o <<>>
  <2> DEFINE d == a \o b
  <2>1. d \in Seq(Event) /\ c \in Seq(Event) /\ BodyOf(d, id) = part
    BY <1>3, <1>7, <1>8
  <2> HIDE DEF d
  <2>2. d \o c \in Seq(Event)
    BY <2>1, ConcatProperties
  <2>3. BodyOf(d \o c, id) = BodyOf(d, id) \o BodyOf(c, id)
    BY <2>1, BodyGrows
  <2> QED
    BY <1>3, <2>1, <2>2, <2>3 DEF d
<1> QED
  BY <1>6, <1>8, <1>9 DEF part

\* Consuming a readable signal adds its data to the body of its stream, unless
\* the stream has ended.
LEMMA ReadableBody ==
  ASSUME ConnectionTypeOK, NEW x \in StreamIds, NEW data \in Payloads, NEW fin,
         ConsumeReadable(x, data, fin), UNCHANGED delivered, NEW id
  PROVE  BodyOf(History', id)
         = BodyOf(History, id) \o (IF id = x /\ x \notin terminal THEN data ELSE <<>>)
<1>1. History \in Seq(Event) /\ BodyOf(History, id) \in Pieces
  BY HistoryBodyTyped
<1>2. CASE ConsumeLateReadable(x)
  <2>1. x \in terminal /\ History' = History
    BY <1>2 DEF ConsumeLateReadable, History
  <2> QED
    BY <1>1, <2>1, PieceConcat
<1>3. CASE ConsumeLiveReadable(x, data, fin)
  <2> DEFINE first == x \notin remoteHeaders
             burst == ReadableEvents(x, first, data, fin)
  <2>1. burst \in Seq(Event) /\ BodyOf(burst, id) = IF x = id THEN data ELSE <<>>
    BY BodyOfBurst
  <2>2. eventQueue' = eventQueue \o burst /\ x \notin terminal
    BY <1>3 DEF ConsumeLiveReadable
  <2> HIDE DEF burst
  <2>3. History' = History \o burst
    BY <2>1, <2>2, QueueExtendsLog
  <2>4. BodyOf(History', id) = BodyOf(History, id) \o BodyOf(burst, id)
    BY <1>1, <2>1, <2>3, BodyGrows
  <2> QED
    BY <2>1, <2>2, <2>4
<1> QED
  BY <1>2, <1>3 DEF ConsumeReadable

\* A signal ends streams and revives none.
LEMMA SignalRevivesNone ==
  ASSUME \/ \E id, data, fin : ConsumeReadable(id, data, fin)
         \/ \E id, code : ConsumeReset(id, code)
         \/ \E code, isClosed : ConsumeClosing(code, isClosed)
  PROVE  terminal \subseteq terminal'
BY DEF ConsumeReadable, ConsumeLateReadable, ConsumeLiveReadable, ConsumeReset, ConsumeLateReset,
       ConsumeLiveReset, ConsumeClosing, ConsumeFirstClosing, ConsumeLaterClosing,
       ConsumeLateClosing, streamStateVars

\* A reset and the end of the connection carry no body.
LEMMA QuietBody ==
  ASSUME ConnectionTypeOK, UNCHANGED delivered, NEW id,
         \/ \E x \in StreamIds, code \in ErrorCodes : ConsumeReset(x, code)
         \/ \E code \in ErrorCodes : \E isClosed : ConsumeClosing(code, isClosed)
  PROVE  BodyOf(History', id) = BodyOf(History, id)
<1>1. History \in Seq(Event) /\ BodyOf(History, id) \in Pieces
  BY HistoryBodyTyped
<1>2. ASSUME NEW event \in Event, event.payload = <<>>, eventQueue' = Append(eventQueue, event)
      PROVE  BodyOf(History', id) = BodyOf(History, id)
  <2>1. eventQueue' = eventQueue \o <<event>> /\ <<event>> \in Seq(Event)
    BY <1>2, AppendIsConcat DEF ConnectionTypeOK
  <2>2. History' = History \o <<event>>
    BY <2>1, QueueExtendsLog
  <2>3. BodyOf(<<event>>, id) = <<>>
    BY <1>2, BodyOfFew
  <2>4. BodyOf(History', id) = BodyOf(History, id) \o BodyOf(<<event>>, id)
    BY <1>1, <2>1, <2>2, BodyGrows
  <2> QED
    BY <1>1, <2>3, <2>4, PieceConcat
<1>3. ASSUME UNCHANGED eventQueue
      PROVE  BodyOf(History', id) = BodyOf(History, id)
  BY <1>3 DEF History
<1>4. CASE \E x \in StreamIds, code \in ErrorCodes : ConsumeReset(x, code)
  <2>1. PICK x \in StreamIds, code \in ErrorCodes : ConsumeReset(x, code)
    BY <1>4
  <2>2. StreamReset(x, code) \in Event /\ StreamReset(x, code).payload = <<>>
    BY EventsAreTyped DEF StreamReset
  <2>3. UNCHANGED eventQueue \/ eventQueue' = Append(eventQueue, StreamReset(x, code))
    BY <2>1 DEF ConsumeReset, ConsumeLateReset, ConsumeLiveReset
  <2> QED
    BY <1>2, <1>3, <2>2, <2>3
<1>5. CASE \E code \in ErrorCodes : \E isClosed : ConsumeClosing(code, isClosed)
  <2>1. PICK code \in ErrorCodes : \E isClosed : ConsumeClosing(code, isClosed)
    BY <1>5
  <2>2. GoawayReceived(code) \in Event /\ GoawayReceived(code).payload = <<>>
    BY EventsAreTyped DEF GoawayReceived
  <2>3. UNCHANGED eventQueue \/ eventQueue' = Append(eventQueue, GoawayReceived(code))
    BY <2>1 DEF ConsumeClosing, ConsumeFirstClosing, ConsumeLaterClosing, ConsumeLateClosing
  <2> QED
    BY <1>2, <1>3, <2>2, <2>3
<1> QED
  BY <1>4, <1>5

\* pollEvents() returning moves events, and no other method queues any.
LEMMA ReturnKeepsHistory ==
  ASSUME ConnectionTypeOK, ReturnEvents
  PROVE  History' = History
<1>1. delivered \o eventQueue \in Seq(Event)
  BY ConcatProperties DEF ConnectionTypeOK
<1>2. delivered' = delivered \o eventQueue /\ eventQueue' = <<>>
  BY DEF ReturnEvents
<1> QED
  BY <1>1, <1>2, ConcatEmptySeq DEF History

-----------------------------------------------------------------------------
(* Bodies with gaps *)

\* What both gain at the end keeps the one within the other.
LEMMA WithinGrows ==
  ASSUME NEW s \in Pieces, NEW t \in Pieces, NEW d \in Pieces, IsWithin(s, t)
  PROVE  IsWithin(s \o d, t \o d)
<1> DEFINE n == Len(s)
           m == Len(t)
           k == Len(d)
           sd == s \o d
           td == t \o d
<1>1. n \in Nat /\ m \in Nat /\ k \in Nat
  BY DEF Pieces
<1>2. /\ Len(sd) = n + k
      /\ \A i \in 1..n + k : sd[i] = IF i <= n THEN s[i] ELSE d[i - n]
  BY ConcatProperties DEF Pieces
<1>3. /\ Len(td) = m + k
      /\ \A i \in 1..m + k : td[i] = IF i <= m THEN t[i] ELSE d[i - m]
  BY ConcatProperties DEF Pieces
<1>4. PICK place \in [1..n -> 1..m] :
         /\ \A i \in 1..n : s[i] = t[place[i]]
         /\ \A i, j \in 1..n : i < j => place[i] < place[j]
  BY DEF IsWithin
<1> HIDE DEF n, m, k, sd, td
<1> DEFINE at == [i \in 1..n + k |-> IF i <= n THEN place[i] ELSE m + (i - n)]
<1>5. \A i \in 1..n + k : \/ i \in 1..n /\ at[i] = place[i] /\ place[i] \in 1..m
                          \/ i > n /\ i - n \in 1..k /\ at[i] = m + (i - n)
  BY <1>1
<1>6. at \in [1..n + k -> 1..m + k]
  BY <1>1, <1>5
<1>7. \A i \in 1..n + k : sd[i] = td[at[i]]
  <2> SUFFICES ASSUME NEW i \in 1..n + k
               PROVE  sd[i] = td[at[i]]
    OBVIOUS
  <2>1. CASE i \in 1..n
    <3>1. at[i] = place[i] /\ place[i] \in 1..m /\ place[i] \in 1..m + k
      BY <1>1, <1>5, <2>1
    <3>2. sd[i] = s[i] /\ td[place[i]] = t[place[i]]
      BY <1>1, <1>2, <1>3, <2>1, <3>1
    <3> QED
      BY <1>4, <2>1, <3>1, <3>2
  <2>2. CASE i > n
    <3> DEFINE p == m + (i - n)
    <3>1. at[i] = p /\ p \in 1..m + k /\ ~(p <= m) /\ p - m = i - n /\ ~(i <= n)
      BY <1>1, <1>5, <2>2
    <3> HIDE DEF p
    <3>2. sd[i] = d[i - n] /\ td[p] = d[p - m]
      BY <1>2, <1>3, <3>1
    <3> QED
      BY <3>1, <3>2
  <2> QED
    BY <1>1, <2>1, <2>2
<1>8. \A i, j \in 1..n + k : i < j => at[i] < at[j]
  <2> SUFFICES ASSUME NEW i \in 1..n + k, NEW j \in 1..n + k, i < j
               PROVE  at[i] < at[j]
    OBVIOUS
  <2>1. CASE j \in 1..n
    <3>1. i \in 1..n /\ at[i] = place[i] /\ at[j] = place[j]
      BY <1>1, <2>1
    <3> QED
      BY <1>4, <2>1, <3>1
  <2>2. CASE i \in 1..n /\ j > n
    <3>1. at[i] \in 1..m /\ at[j] = m + (j - n)
      BY <1>1, <1>5, <2>2
    <3> QED
      BY <1>1, <2>2, <3>1
  <2>3. CASE i > n
    <3>1. at[i] = m + (i - n) /\ at[j] = m + (j - n)
      BY <1>1, <2>3
    <3> QED
      BY <1>1, <3>1
  <2> QED
    BY <1>1, <2>1, <2>2, <2>3
<1> HIDE DEF at
<1> QED
  BY <1>2, <1>3, <1>6, <1>7, <1>8 DEF IsWithin, sd, td

\* What is lost from the middle keeps the rest within.
LEMMA WithinDrops ==
  ASSUME NEW a \in Pieces, NEW d \in Pieces, NEW b \in Pieces, NEW t \in Pieces,
         IsWithin(a \o (d \o b), t)
  PROVE  IsWithin(a \o b, t)
<1> DEFINE n == Len(a)
           k == Len(d)
           m == Len(b)
           db == d \o b
           all == a \o db
           rest == a \o b
<1>1. n \in Nat /\ k \in Nat /\ m \in Nat
  BY DEF Pieces
<1>2. /\ db \in Pieces /\ Len(db) = k + m
      /\ \A i \in 1..k + m : db[i] = IF i <= k THEN d[i] ELSE b[i - k]
  BY ConcatProperties DEF Pieces
<1>3. /\ Len(rest) = n + m
      /\ \A i \in 1..n + m : rest[i] = IF i <= n THEN a[i] ELSE b[i - n]
  BY ConcatProperties DEF Pieces
<1> HIDE DEF db
<1>4. /\ Len(all) = n + (k + m)
      /\ \A i \in 1..n + (k + m) : all[i] = IF i <= n THEN a[i] ELSE db[i - n]
  <2>1. a \in Seq(Chunks) /\ db \in Seq(Chunks)
    BY <1>2 DEF Pieces
  <2>2. /\ Len(all) = n + Len(db)
        /\ \A i \in 1..n + Len(db) : all[i] = IF i <= n THEN a[i] ELSE db[i - n]
    BY <2>1, ConcatProperties
  <2> QED
    BY <1>2, <2>2
<1> DEFINE N == n + (k + m)
           M == Len(t)
<1>5. PICK place \in [1..N -> 1..M] :
         /\ \A i \in 1..N : all[i] = t[place[i]]
         /\ \A i, j \in 1..N : i < j => place[i] < place[j]
  BY <1>4 DEF IsWithin, db
<1> HIDE DEF n, m, k, all, rest, M
<1> DEFINE shift == [i \in 1..n + m |-> IF i <= n THEN i ELSE i + k]
           at == [i \in 1..n + m |-> place[shift[i]]]
<1>6. \A i \in 1..n + m : shift[i] \in 1..N
  BY <1>1
<1>7. \A i, j \in 1..n + m : i < j => shift[i] < shift[j]
  BY <1>1
<1>8. \A i \in 1..n + m : rest[i] = all[shift[i]]
  <2> SUFFICES ASSUME NEW i \in 1..n + m
               PROVE  rest[i] = all[shift[i]]
    OBVIOUS
  <2>1. CASE i <= n
    <3>1. shift[i] = i /\ i \in 1..N
      BY <1>1, <2>1
    <3> QED
      BY <1>3, <1>4, <2>1, <3>1
  <2>2. CASE i > n
    <3> DEFINE p == i + k
    <3>1. /\ shift[i] = p /\ p \in 1..N /\ ~(p <= n) /\ ~(i <= n)
          /\ p - n \in 1..k + m
      BY <1>1, <2>2
    <3>2. (p - n <= k => FALSE) /\ (p - n) - k = i - n
      BY <1>1, <2>2
    <3> HIDE DEF p
    <3>3. all[p] = db[p - n]
      BY <1>4, <3>1
    <3>4. db[p - n] = b[(p - n) - k]
      BY <1>2, <3>1, <3>2
    <3>5. rest[i] = b[i - n]
      BY <1>3, <3>1
    <3> QED
      BY <3>1, <3>2, <3>3, <3>4, <3>5
  <2> QED
    BY <1>1, <2>1, <2>2
<1> HIDE DEF shift, N
<1>9. at \in [1..n + m -> 1..M]
  BY <1>5, <1>6
<1>10. \A i \in 1..n + m : rest[i] = t[at[i]]
  BY <1>5, <1>6, <1>8
<1>11. \A i, j \in 1..n + m : i < j => at[i] < at[j]
  BY <1>5, <1>6, <1>7
<1> HIDE DEF at
<1> QED
  BY <1>3, <1>9, <1>10, <1>11 DEF IsWithin, M, rest

\* The empty body is within the empty body.
LEMMA NothingIsWithin == IsWithin(<<>>, <<>>)
<1> DEFINE e == <<>>
           place == [i \in 1..0 |-> i]
<1>1. place \in [1..0 -> 1..0] /\ Len(e) = 0
  BY EmptySeq
<1> HIDE DEF e
<1>2. \A i \in 1..Len(e) : FALSE
  BY <1>1
<1>3. place \in [1..Len(e) -> 1..Len(e)]
  BY <1>1
<1>4. IsWithin(e, e)
  BY <1>2, <1>3 DEF IsWithin
<1> QED
  BY <1>4 DEF e
=============================================================================
