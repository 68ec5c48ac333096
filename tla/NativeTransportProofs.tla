----------------------- MODULE NativeTransportProofs -----------------------
(***************************************************************************)
(* Theorems of NativeTransport, for every set of streams, any number of    *)
(* QUIC events and of calls that throw, and whatever nghttp3 refuses: the  *)
(* types, the refinement of NativeContract and so the order of the events, *)
(* that an ended stream holds no outgoing body, that completion is earned, *)
(* that the body told is the body the peer sent, and that a completed      *)
(* stream has told all of it.                                              *)
(***************************************************************************)
EXTENDS MCNativeTransport, QuicTransportProofs

-----------------------------------------------------------------------------
(* The inductive invariant *)

\* One call at a time: nghttp3 parses only inside pollEvents(), and no flush
\* loop runs during it.
OneCallAtATime ==
    /\ polling => call = NoCall
    /\ Parsing => polling /\ feed.id \in quicStreams

\* nghttp3 holds something of a stream only while it has the stream, which is one
\* that QUIC has.
H3HoldsItsOwn ==
    \A id \in StreamIds :
        /\ h3Stream[id] = "open" => id \in quicStreams
        /\ outq[id] # <<>> \/ id \in asks \/ bodies[id] # NewBody => h3Stream[id] = "open"

\* What nghttp3 has heard of a stream the connection has told.
HeardIsTold == \A id \in StreamIds : h3In[id] # "nothing" => id \in remoteHeaders \cup terminal

\* A handle that can send a body belongs to a stream that nghttp3 has.
SendersAreInH3 ==
    /\ \A id \in headersSubmitted \ closed : h3Stream[id] = "open"
    /\ call.op = "headers" => h3Stream[call.id] = "open"

H3Agrees == OneCallAtATime /\ H3HoldsItsOwn /\ HeardIsTold /\ SendersAreInH3 /\ EndedHasNoBody

NativeInv ==
    /\ NativeTypeOK
    /\ FreshIds
    /\ EndsAreReal
    /\ TablesAgree
    /\ H3Agrees

-----------------------------------------------------------------------------
(* The connection: what every step does to it *)

\* A step that keeps the connection typed and its tables in agreement, and that
\* the contract allows.
ConnectionStepOK ==
    /\ ConnectionTypeOK'
    /\ TablesAgree'
    /\ [NativePromise!NativeContractNext]_(NativePromise!contractVars)

\* What EventContract allows NativeContract allows.
LEMMA ContractStepIsNative ==
  ASSUME [Contract!ContractNext]_(Contract!contractVars)
  PROVE  [NativePromise!NativeContractNext]_(NativePromise!contractVars)
<1>1. CASE UNCHANGED Contract!contractVars
  BY <1>1 DEF History, Contract!contractVars, NativePromise!contractVars
<1>2. ASSUME NEW id \in StreamIds, NEW data \in Contract!Payloads, NEW fin \in BOOLEAN,
             Contract!Receive(id, data, fin)
      PROVE  NativePromise!Receive(id, data, fin) /\ data \in NativePromise!Payloads
  BY <1>2 DEF History, Contract!Receive, Contract!ReadableEvents, Contract!When,
              Contract!HeadersReceived, Contract!DataReceived, Contract!RequestCompleted,
              Contract!Payloads, NativePromise!Receive, NativePromise!ReadableEvents,
              NativePromise!When, NativePromise!HeadersReceived, NativePromise!DataReceived,
              NativePromise!RequestCompleted, NativePromise!Payloads
<1>3. ASSUME NEW id \in StreamIds, NEW code \in ErrorCodes, Contract!Abandon(id, code)
      PROVE  NativePromise!Abandon(id, code)
  BY <1>3 DEF History, Contract!Abandon, Contract!StreamReset, NativePromise!Abandon,
              NativePromise!StreamReset
<1>4. ASSUME NEW code \in ErrorCodes, Contract!GoAway(code)
      PROVE  NativePromise!GoAway(code)
  BY <1>4 DEF History, Contract!GoAway, Contract!GoawayReceived, Contract!NoStream,
              NativePromise!GoAway, NativePromise!GoawayReceived, NativePromise!NoStream
<1>5. CASE Contract!CloseLocally
  BY <1>5 DEF History, Contract!CloseLocally, NativePromise!CloseLocally, NativePromise!ContractNext,
              NativePromise!NativeContractNext
<1> QED
  BY <1>1, <1>2, <1>3, <1>4, <1>5
     DEF Contract!ContractNext, NativePromise!ContractNext, NativePromise!NativeContractNext

\* A step that leaves the connection alone, but for the end of a poll perhaps.
LEMMA QuietStep ==
  ASSUME ConnectionTypeOK, TablesAgree, polling' \in BOOLEAN,
         UNCHANGED <<lifecycleVars, streamStateVars, handleVars, eventVars>>
  PROVE  ConnectionStepOK
<1>1. ConnectionTypeOK'
  BY DEF ConnectionTypeOK, lifecycleVars, streamStateVars, handleVars, eventVars
<1>2. TablesAgree'
  BY DEF TablesAgree, ClosingAgreesWithState, TerminalClosesHandle, OneEnding,
         lifecycleVars, streamStateVars, handleVars
<1>3. UNCHANGED Contract!contractVars
  BY OtherwiseStutter DEF lifecycleVars, streamStateVars
<1> QED
  BY <1>1, <1>2, <1>3, ContractStepIsNative DEF ConnectionStepOK

\* The generic signals.
LEMMA HandlerStep ==
  ASSUME ConnectionTypeOK, TablesAgree, UNCHANGED <<delivered, polling>>
  PROVE  /\ \A id \in StreamIds, data \in Payloads, fin \in BOOLEAN :
               ConsumeReadable(id, data, fin) => ConnectionStepOK
         /\ \A id \in StreamIds, code \in ErrorCodes :
               ConsumeReset(id, code) => ConnectionStepOK
         /\ \A code \in ErrorCodes, isClosed \in BOOLEAN :
               ConsumeClosing(code, isClosed) => ConnectionStepOK
<1>1. ASSUME NEW id \in StreamIds, NEW data \in Payloads, NEW fin \in BOOLEAN,
             ConsumeReadable(id, data, fin)
      PROVE  ConnectionStepOK
  <2>1. Contract!Receive(id, data, fin) \/ UNCHANGED Contract!contractVars
    BY <1>1, ReadableRefines
  <2>2. data \in Contract!Payloads
    BY DEF Payloads, Contract!Payloads
  <2>3. [Contract!ContractNext]_(Contract!contractVars)
    BY <2>1, <2>2 DEF Contract!ContractNext
  <2> QED
    BY <1>1, <2>3, ConsumeReadableTyped, HandlersAgree, ContractStepIsNative
       DEF ConnectionStepOK
<1>2. ASSUME NEW id \in StreamIds, NEW code \in ErrorCodes, ConsumeReset(id, code)
      PROVE  ConnectionStepOK
  <2>1. Contract!Abandon(id, code) \/ UNCHANGED Contract!contractVars
    BY <1>2, ResetRefines
  <2>2. [Contract!ContractNext]_(Contract!contractVars)
    BY <2>1 DEF Contract!ContractNext
  <2> QED
    BY <1>2, <2>2, ConsumeResetTyped, HandlersAgree, ContractStepIsNative DEF ConnectionStepOK
<1>3. ASSUME NEW code \in ErrorCodes, NEW isClosed \in BOOLEAN, ConsumeClosing(code, isClosed)
      PROVE  ConnectionStepOK
  <2>1. Contract!GoAway(code) \/ UNCHANGED Contract!contractVars
    BY <1>3, ClosingRefines DEF TablesAgree
  <2>2. [Contract!ContractNext]_(Contract!contractVars)
    BY <2>1 DEF Contract!ContractNext
  <2> QED
    BY <1>3, <2>2, ConsumeClosingTyped, HandlersAgree, ContractStepIsNative
       DEF ConnectionStepOK
<1> QED
  BY <1>1, <1>2, <1>3

\* The methods of the connection and of its request streams.
LEMMA MethodStep ==
  ASSUME ConnectionTypeOK, TablesAgree
  PROVE  /\ \A id \in StreamIds : id \notin known /\ CreateRequestStream(id) => ConnectionStepOK
         /\ \A id \in StreamIds : GetRequestStream(id, FALSE) => ConnectionStepOK
         /\ \A id \in StreamIds : GetRequestStream(id, TRUE) => ConnectionStepOK
         /\ Close => ConnectionStepOK
         /\ ReturnEvents => ConnectionStepOK
         /\ \A id \in StreamIds :
               SubmitHeaders(id) \/ SubmitData(id) \/ End(id) \/ Reset(id) => ConnectionStepOK
<1>1. UNCHANGED Contract!contractVars
      => [NativePromise!NativeContractNext]_(NativePromise!contractVars)
  BY ContractStepIsNative
<1>2. ASSUME NEW id \in StreamIds, id \notin known, CreateRequestStream(id)
      PROVE  ConnectionStepOK
  BY <1>1, <1>2, ConnectionCallsTyped, MethodsAgree, MethodsRefine DEF ConnectionStepOK
<1>3. ASSUME NEW id \in StreamIds, GetRequestStream(id, FALSE)
      PROVE  ConnectionStepOK
  BY <1>1, <1>3, ConnectionCallsTyped, MethodsAgree, MethodsRefine DEF ConnectionStepOK
<1>4. ASSUME NEW id \in StreamIds, GetRequestStream(id, TRUE)
      PROVE  ConnectionStepOK
  BY <1>1, <1>4, ConnectionCallsTyped, MethodsAgree, MethodsRefine DEF ConnectionStepOK
<1>5. CASE Close
  <2>1. [Contract!ContractNext]_(Contract!contractVars)
    BY <1>5, MethodsRefine DEF Contract!ContractNext
  <2> QED
    BY <1>5, <2>1, ConnectionCallsTyped, MethodsAgree, ContractStepIsNative
       DEF ConnectionStepOK
<1>6. CASE ReturnEvents
  BY <1>1, <1>6, ConnectionCallsTyped, MethodsAgree, MethodsRefine DEF ConnectionStepOK
<1>7. ASSUME NEW id \in StreamIds, SubmitHeaders(id) \/ SubmitData(id) \/ End(id) \/ Reset(id)
      PROVE  ConnectionStepOK
  BY <1>1, <1>7, StreamCallsTyped, MethodsAgree, MethodsRefine DEF ConnectionStepOK
<1> QED
  BY <1>2, <1>3, <1>4, <1>5, <1>6, <1>7
\* recv_header_cb: the headers are new and are told, or nothing happens.
LEMMA HeadersStep ==
  ASSUME ConnectionTypeOK, TablesAgree, NEW id \in StreamIds, EmitHeadersOnce(id),
         UNCHANGED <<lifecycleVars, remoteEnded, terminal, wasReset, handleVars, delivered, polling>>
  PROVE  ConnectionStepOK
<1>1. CASE id \in terminal \cup remoteHeaders
  <2>1. UNCHANGED <<known, remoteHeaders, eventQueue>>
    BY <1>1 DEF EmitHeadersOnce
  <2>2. polling' \in BOOLEAN
    BY DEF ConnectionTypeOK
  <2> QED
    BY <2>1, <2>2, QuietStep DEF streamStateVars, eventVars
<1>2. CASE id \notin terminal \cup remoteHeaders
  <2>1. ReadableEvents(id, TRUE, <<>>, FALSE) = <<HeadersReceived(id)>>
    BY DEF ReadableEvents, When
  <2>2. eventQueue' = eventQueue \o <<HeadersReceived(id)>>
    BY <1>2, EventsAreTyped, AppendIsConcat DEF EmitHeadersOnce, ConnectionTypeOK
  <2>3. eventQueue' = eventQueue \o ReadableEvents(id, id \notin remoteHeaders, <<>>, FALSE)
    BY <1>2, <2>1, <2>2
  <2>4. ConsumeReadable(id, <<>>, FALSE)
    BY <1>2, <2>3
       DEF ConsumeReadable, ConsumeLiveReadable, EmitHeadersOnce, handleVars
  <2> QED
    BY <2>4, EmptyPayload, HandlerStep
<1> QED
  BY <1>1, <1>2

\* recv_data_cb, when the headers have been told: the data is told, or nothing
\* because the stream is over.
LEMMA DataStep ==
  ASSUME ConnectionTypeOK, TablesAgree, NEW id \in StreamIds, NEW chunk \in Chunks,
         EmitData(id, chunk), id \in remoteHeaders \cup terminal,
         UNCHANGED <<lifecycleVars, remoteHeaders, remoteEnded, terminal, wasReset, handleVars,
                     delivered, polling>>
  PROVE  ConnectionStepOK
<1>1. <<chunk>> \in Payloads
  <2>1. 1 \in 0..MaxPayload
    BY MaxReadsAssumption, MaxPayloadAssumption
  <2>2. <<chunk>> \in [1..1 -> Chunks]
    OBVIOUS
  <2> QED
    BY <2>1, <2>2 DEF Payloads
<1>2. id \in known
  BY DEF ConnectionTypeOK
<1>3. CASE id \in terminal
  <2>1. UNCHANGED <<known, eventQueue>>
    BY <1>2, <1>3 DEF EmitData
  <2>2. polling' \in BOOLEAN
    BY DEF ConnectionTypeOK
  <2> QED
    BY <2>1, <2>2, QuietStep DEF streamStateVars, eventVars
<1>4. CASE id \notin terminal
  <2>1. ReadableEvents(id, FALSE, <<chunk>>, FALSE) = <<DataReceived(id, <<chunk>>)>>
    <3>1. <<chunk>> # <<>>
      OBVIOUS
    <3>2. When(<<chunk>> # <<>>, DataReceived(id, <<chunk>>)) = <<DataReceived(id, <<chunk>>)>>
      BY <3>1 DEF When
    <3>3. When(FALSE, HeadersReceived(id)) = <<>> /\ When(FALSE, RequestCompleted(id)) = <<>>
      BY DEF When
    <3>4. ReadableEvents(id, FALSE, <<chunk>>, FALSE)
          = (<<>> \o <<DataReceived(id, <<chunk>>)>>) \o <<>>
      BY <3>2, <3>3, Zenon DEF ReadableEvents
    <3>5. <<DataReceived(id, <<chunk>>)>> \in Seq(Event)
      BY <1>1, EventsAreTyped
    <3> QED
      BY <3>4, <3>5, ConcatEmptySeq
  <2>2. eventQueue' = eventQueue \o <<DataReceived(id, <<chunk>>)>>
    BY <1>1, <1>4, EventsAreTyped, AppendIsConcat DEF EmitData, ConnectionTypeOK
  <2>3. (id \notin remoteHeaders) = FALSE
    BY <1>4
  <2>4. eventQueue' = eventQueue \o ReadableEvents(id, id \notin remoteHeaders, <<chunk>>, FALSE)
    BY <2>1, <2>2, <2>3
  <2>5. remoteHeaders' = remoteHeaders \cup {id}
    BY <1>4
  <2>6. ConsumeReadable(id, <<chunk>>, FALSE)
    BY <1>4, <2>4, <2>5 DEF ConsumeReadable, ConsumeLiveReadable, EmitData, handleVars
  <2> QED
    BY <1>1, <2>6, HandlerStep
<1> QED
  BY <1>3, <1>4

\* What an end does to the tables, completed or reset.
LEMMA TerminalKeepsTables ==
  ASSUME ConnectionTypeOK, TablesAgree, NEW id \in StreamIds, NEW event \in Event,
         id \notin terminal, EmitTerminalOnce(id, event), polling' \in BOOLEAN,
         UNCHANGED <<lifecycleVars, remoteHeaders, handles, headersSubmitted, localEnded, delivered>>
  PROVE  ConnectionTypeOK' /\ TablesAgree'
<1>1. eventQueue' \in Seq(Event) /\ delivered' \in Seq(Event)
  BY DEF EmitTerminalOnce, ConnectionTypeOK
<1>2. /\ known' = known \cup {id} /\ terminal' = terminal \cup {id}
      /\ \/ wasReset' = wasReset \cup {id} /\ UNCHANGED remoteEnded
         \/ remoteEnded' = remoteEnded \cup {id} /\ UNCHANGED wasReset
      /\ closed' = closed \cup ({id} \cap handles)
  BY DEF EmitTerminalOnce, MarkStreamClosed
<1>3. ConnectionTypeOK'
  BY <1>1, <1>2 DEF ConnectionTypeOK, lifecycleVars
<1>4. ClosingAgreesWithState' /\ TerminalClosesHandle'
  BY <1>2 DEF TablesAgree, ClosingAgreesWithState, TerminalClosesHandle, lifecycleVars
<1>5. OneEnding'
  BY <1>2 DEF TablesAgree, OneEnding
<1> QED
  BY <1>3, <1>4, <1>5 DEF TablesAgree

\* stream_close_cb, end_stream_cb and the resets: the stream ends as the contract
\* allows, one that had no headers among them.
LEMMA TerminalStep ==
  ASSUME ConnectionTypeOK, TablesAgree, NEW id \in StreamIds, NEW event,
         \/ event = RequestCompleted(id)
         \/ \E code \in ErrorCodes : event = StreamReset(id, code),
         EmitTerminalOnce(id, event), polling' \in BOOLEAN,
         UNCHANGED <<lifecycleVars, remoteHeaders, handles, headersSubmitted, localEnded, delivered>>
  PROVE  ConnectionStepOK
<1>1. CASE id \in terminal
  BY <1>1, QuietStep DEF EmitTerminalOnce, streamStateVars, handleVars, eventVars
<1>2. CASE id \notin terminal
  <2>1. event \in Event
    BY EventsAreTyped
  <2>2. ConnectionTypeOK' /\ TablesAgree'
    BY <1>2, <2>1, TerminalKeepsTables
  <2>3. History' = Append(History, event) /\ closing' = closing
    BY <1>2, <2>1, AppendExtendsLog DEF EmitTerminalOnce, lifecycleVars
  <2>4. Phase[id] # "ended" /\ Phase' = [Phase EXCEPT ![id] = "ended"]
    BY <1>2 DEF Phase, EmitTerminalOnce
  <2>5. ASSUME NEW code \in ErrorCodes, event = StreamReset(id, code)
        PROVE  [NativePromise!NativeContractNext]_(NativePromise!contractVars)
    <3>1. NativePromise!Abandon(id, code)
      BY <2>3, <2>4, <2>5
         DEF NativePromise!Abandon, NativePromise!StreamReset, StreamReset, Phase
    <3> QED
      BY <3>1 DEF NativePromise!ContractNext, NativePromise!NativeContractNext
  <2>6. ASSUME event = RequestCompleted(id), Phase[id] = "idle"
        PROVE  [NativePromise!NativeContractNext]_(NativePromise!contractVars)
    <3>1. NativePromise!CompleteUnheard(id)
      BY <2>3, <2>4, <2>6
         DEF NativePromise!CompleteUnheard, NativePromise!RequestCompleted, RequestCompleted, Phase
    <3> QED
      BY <3>1 DEF NativePromise!NativeContractNext
  <2>7. ASSUME event = RequestCompleted(id), Phase[id] # "idle"
        PROVE  [NativePromise!NativeContractNext]_(NativePromise!contractVars)
    <3>1. ReadableEvents(id, FALSE, <<>>, TRUE) = <<event>>
      BY <2>7 DEF ReadableEvents, When
    <3>2. History \in Seq(Event)
      BY ConcatProperties DEF History, ConnectionTypeOK
    <3>3. History' = History \o ReadableEvents(id, FALSE, <<>>, TRUE)
      BY <2>1, <2>3, <3>1, <3>2, AppendIsConcat
    <3>4. NativePromise!Receive(id, <<>>, TRUE)
      BY <2>3, <2>4, <2>7, <3>3
         DEF NativePromise!Receive, NativePromise!ReadableEvents, NativePromise!When,
             NativePromise!HeadersReceived, NativePromise!DataReceived,
             NativePromise!RequestCompleted, ReadableEvents, When, HeadersReceived,
             DataReceived, RequestCompleted, Phase
    <3>5. <<>> \in NativePromise!Payloads
      BY EmptyPayload DEF Payloads, NativePromise!Payloads
    <3> QED
      BY <3>4, <3>5 DEF NativePromise!ContractNext, NativePromise!NativeContractNext
  <2> QED
    BY <2>2, <2>5, <2>6, <2>7 DEF ConnectionStepOK
<1> QED
  BY <1>1, <1>2
-----------------------------------------------------------------------------
(* The QUIC side, nghttp3 and the bodies: what most steps leave alone *)

QuicStepOK == QuicTypeOK' /\ FreshIds' /\ EndsAreReal'

H3StepOK == H3TypeOK' /\ H3Agrees'

\* A step of the program takes from the drained events, reads and hangs up, and
\* knows only streams QUIC has.
LEMMA QuicKept ==
  ASSUME TypeOK, FreshIds, EndsAreReal,
         UNCHANGED <<quicStreams, quicEvents, quicHistory>>,
         batch' = batch \/ batch' = <<>> \/ (batch # <<>> /\ batch' = Tail(batch)),
         unread' \in [StreamIds -> Seq(Chunks)], failures' \in 0..MaxFailures,
         cached' \subseteq quicStreams, known' \subseteq quicStreams,
         quicClosed' \subseteq quicStreams, quicClosed' \subseteq MayBeClosed',
         hungUp' \subseteq quicStreams
  PROVE  QuicStepOK
<1>1. batch \in Seq(QuicEvent)
  BY DEF TypeOK, QuicTypeOK
<1>2. /\ batch' \in Seq(QuicEvent)
      /\ About(batch', StreamEventTypes, quicStreams)
      /\ About(batch', EndTypes, peerDone)
  <2>1. CASE batch' = batch
    BY <1>1, <2>1 DEF FreshIds, EndsAreReal
  <2>2. CASE batch' = <<>>
    BY <2>2, AboutEmpty
  <2>3. CASE batch # <<>> /\ batch' = Tail(batch)
    <3>1. Tail(batch) \in Seq(QuicEvent)
      BY <1>1, <2>3
    <3> QED
      BY <1>1, <2>3, <3>1, AboutTail DEF FreshIds, EndsAreReal
  <2> QED
    BY <2>1, <2>2, <2>3
<1>3. QuicTypeOK'
  BY <1>2 DEF TypeOK, QuicTypeOK, quicHistory
<1>4. FreshIds'
  BY <1>2 DEF FreshIds, About
<1>5. EndsAreReal'
  BY <1>2 DEF EndsAreReal, About, quicHistory
<1> QED
  BY <1>3, <1>4, <1>5 DEF QuicStepOK

\* A step that nghttp3 and the bodies have no part in.
LEMMA H3Kept ==
  ASSUME H3TypeOK, H3Agrees, UNCHANGED nativeVars,
         quicStreams \subseteq quicStreams',
         headersSubmitted' \ closed' \subseteq headersSubmitted \ closed,
         remoteHeaders \cup terminal \subseteq remoteHeaders' \cup terminal',
         \A id \in terminal' : id \in terminal \/ (id \in StreamIds /\ id \notin H3Streams),
         polling' => call = NoCall,
         Parsing => polling'
  PROVE  H3StepOK
<1>1. H3TypeOK'
  BY DEF H3TypeOK, nativeVars, h3Vars
<1>2. OneCallAtATime'
  BY DEF H3Agrees, OneCallAtATime, Parsing, nativeVars
<1>3. H3HoldsItsOwn'
  BY DEF H3Agrees, H3HoldsItsOwn, nativeVars, h3Vars
<1>4. HeardIsTold'
  BY DEF H3Agrees, HeardIsTold, nativeVars, h3Vars
<1>5. SendersAreInH3'
  BY DEF H3Agrees, SendersAreInH3, nativeVars, h3Vars
<1>6. EndedHasNoBody'
  BY DEF H3Agrees, EndedHasNoBody, H3HoldsItsOwn, H3Streams, nativeVars
<1> QED
  BY <1>1, <1>2, <1>3, <1>4, <1>5, <1>6 DEF H3StepOK, H3Agrees

\* nghttp3 closes a stream: whatever it and the connection held for it goes.
LEMMA ClosedInH3 ==
  ASSUME NativeInv, NEW id \in StreamIds, NEW code \in ErrorCodes, CloseInH3(id, code),
         UNCHANGED <<lifecycleVars, handles, headersSubmitted, localEnded, delivered>>,
         UNCHANGED <<quicStreams, call, submitted, wire, refused>>,
         feed' = feed \/ feed' = NoFeed, polling' = polling \/ polling' = FALSE,
         call = NoCall, Parsing' => polling'
  PROVE  ConnectionStepOK /\ H3StepOK /\ known' \subseteq known \cup {id}
<1>1. /\ ConnectionTypeOK /\ TablesAgree /\ H3TypeOK /\ H3Agrees
      /\ polling \in BOOLEAN
  BY DEF NativeInv, NativeTypeOK, TypeOK, ConnectionTypeOK
<1>2. ConnectionStepOK
  <2>1. \/ CloseEvent(id, code) = RequestCompleted(id)
        \/ CloseEvent(id, code) = StreamReset(id, code)
    BY DEF CloseEvent
  <2>2. EmitTerminalOnce(id, CloseEvent(id, code)) /\ remoteHeaders' = remoteHeaders
    BY DEF CloseInH3
  <2>3. polling' \in BOOLEAN
    BY <1>1
  <2> QED
    BY <1>1, <2>1, <2>2, <2>3, TerminalStep
<1>3. /\ terminal' = terminal \cup {id} /\ known' \subseteq known \cup {id}
      /\ bodies' = [bodies EXCEPT ![id] = NewBody]
      /\ closed' = closed \cup ({id} \cap handles)
  <2>1. EmitTerminalOnce(id, CloseEvent(id, code))
    BY DEF CloseInH3
  <2>2. CASE id \in terminal
    <3>1. id \in handles => id \in closed
      BY <1>1, <2>2 DEF TablesAgree, TerminalClosesHandle
    <3>2. bodies[id] = NewBody /\ bodies \in [StreamIds -> Bodies(Chunks)]
      BY <1>1, <2>2 DEF H3Agrees, EndedHasNoBody, H3TypeOK
    <3>3. [bodies EXCEPT ![id] = NewBody] = bodies
      BY <3>2
    <3>4. UNCHANGED <<known, terminal, closed, bodies>>
      BY <2>1, <2>2 DEF EmitTerminalOnce
    <3> QED
      BY <2>2, <3>1, <3>3, <3>4
  <2>3. CASE id \notin terminal
    BY <2>1, <2>3 DEF EmitTerminalOnce, MarkStreamClosed
  <2> QED
    BY <2>2, <2>3
<1>4. NewBody \in Bodies(Chunks)
  BY DEF NewBody, Bodies
<1>5. /\ h3Stream' = [h3Stream EXCEPT ![id] = "closed"]
      /\ h3In' = [h3In EXCEPT ![id] = "nothing"]
      /\ h3Out' = [h3Out EXCEPT ![id] = "nothing"]
      /\ asks' = asks \ {id}
      /\ outq' = [outq EXCEPT ![id] = <<>>]
      /\ remoteHeaders' = remoteHeaders
  BY DEF CloseInH3
<1>6. H3TypeOK'
  <2>1. NoFeed \in [id : StreamIds \cup {NoStream}, data : Seq(Chunks), fin : BOOLEAN]
    BY DEF NoFeed
  <2>2. feed' \in [id : StreamIds \cup {NoStream}, data : Seq(Chunks), fin : BOOLEAN]
    BY <1>1, <2>1 DEF H3TypeOK
  <2>3. outq' \in [StreamIds -> Seq(OutItems)]
    BY <1>1, <1>5 DEF H3TypeOK
  <2>4. bodies' \in [StreamIds -> Bodies(Chunks)]
    BY <1>1, <1>3, <1>4 DEF H3TypeOK
  <2> QED
    BY <1>1, <1>5, <2>2, <2>3, <2>4 DEF H3TypeOK, Progress
<1>7. OneCallAtATime'
  BY <1>1 DEF H3Agrees, OneCallAtATime, Parsing
<1>8. H3HoldsItsOwn'
  BY <1>1, <1>3, <1>5 DEF H3Agrees, H3HoldsItsOwn, H3TypeOK
<1>9. HeardIsTold'
  BY <1>1, <1>3, <1>5 DEF H3Agrees, HeardIsTold, H3TypeOK
<1>10. SendersAreInH3'
  <2>1. call'.op # "headers"
    BY DEF NoCall
  <2>2. \A s \in headersSubmitted' \ closed' : s # id
    BY <1>1, <1>3 DEF ConnectionTypeOK
  <2> QED
    BY <1>1, <1>3, <1>5, <2>1, <2>2 DEF H3Agrees, SendersAreInH3, H3TypeOK
<1>11. EndedHasNoBody'
  <2>1. terminal \subseteq StreamIds /\ bodies \in [StreamIds -> Bodies(Chunks)]
    BY <1>1 DEF ConnectionTypeOK, H3TypeOK
  <2> QED
    BY <1>1, <1>3, <2>1 DEF H3Agrees, EndedHasNoBody
<1> QED
  BY <1>2, <1>3, <1>6, <1>7, <1>8, <1>9, <1>10, <1>11 DEF H3StepOK, H3Agrees
-----------------------------------------------------------------------------
(* Bodies and what is written of them *)

\* The operations on a body keep its read position inside it.
LEMMA BodiesAreTyped ==
  /\ NewBody \in Bodies(Chunks) /\ AllRead(NewBody) = NewBody
  /\ \A body \in Bodies(Chunks) :
        /\ Unread(body) \in Seq(Chunks)
        /\ AllRead(body) \in Bodies(Chunks)
        /\ Finished(body) \in Bodies(Chunks)
  /\ \A body \in Bodies(Chunks), piece \in Seq(Chunks) : Appended(body, piece) \in Bodies(Chunks)
<1>1. NewBody \in Bodies(Chunks) /\ AllRead(NewBody) = NewBody
  BY DEF NewBody, Bodies, AllRead
<1>2. ASSUME NEW body \in Bodies(Chunks)
      PROVE  /\ Unread(body) \in Seq(Chunks)
             /\ AllRead(body) \in Bodies(Chunks)
             /\ Finished(body) \in Bodies(Chunks)
  <2>1. /\ body.data \in Seq(Chunks) /\ body.readOffset \in Nat
        /\ body.readOffset <= Len(body.data)
        /\ body \in [data : Seq(Chunks), readOffset : Nat, ackedOffset : Nat, eof : BOOLEAN]
    BY <1>2 DEF Bodies
  <2>2. Len(body.data) \in Nat
    BY <2>1, LenProperties
  <2>3. Unread(body) \in Seq(Chunks)
    <3>1. \A i \in body.readOffset + 1..Len(body.data) : body.data[i] \in Chunks
      BY <2>1, <2>2
    <3> QED
      BY <2>1, <2>2, <3>1, SubSeqProperties DEF Unread
  <2>4. AllRead(body) \in Bodies(Chunks)
    BY <2>1, <2>2 DEF AllRead, Bodies
  <2>5. Finished(body) \in Bodies(Chunks)
    BY <2>1 DEF Finished, Bodies
  <2> QED
    BY <2>3, <2>4, <2>5
<1>3. ASSUME NEW body \in Bodies(Chunks), NEW piece \in Seq(Chunks)
      PROVE  Appended(body, piece) \in Bodies(Chunks)
  <2>1. /\ body.data \in Seq(Chunks) /\ body.readOffset \in Nat
        /\ body.readOffset <= Len(body.data)
        /\ body \in [data : Seq(Chunks), readOffset : Nat, ackedOffset : Nat, eof : BOOLEAN]
    BY <1>3 DEF Bodies
  <2>2. /\ body.data \o piece \in Seq(Chunks)
        /\ Len(body.data \o piece) = Len(body.data) + Len(piece)
        /\ Len(body.data) \in Nat /\ Len(piece) \in Nat
    BY <2>1, ConcatProperties, LenProperties
  <2>3. body.readOffset <= Len(body.data \o piece)
    BY <2>1, <2>2
  <2> QED
    BY <2>1, <2>2, <2>3 DEF Appended, Bodies
<1> QED
  BY <1>1, <1>2, <1>3

\* What nghttp3 has to write stays so when a buffer moves, and nothing is nothing.
LEMMA SpoiledIsTyped ==
  \A items \in Seq(OutItems) :
     Spoiled(items) \in Seq(OutItems) /\ (items = <<>> => Spoiled(items) = <<>>)
<1> SUFFICES ASSUME NEW items \in Seq(OutItems)
             PROVE  Spoiled(items) \in Seq(OutItems) /\ (items = <<>> => Spoiled(items) = <<>>)
  OBVIOUS
<1>1. DOMAIN items = 1..Len(items) /\ Len(items) \in Nat
  BY LenProperties
<1>2. \A i \in 1..Len(items) :
         (IF items[i] \in Chunks THEN "UNSPECIFIED" ELSE items[i]) \in OutItems
  BY DEF OutItems
<1>3. Spoiled(items) \in [1..Len(items) -> OutItems]
  BY <1>1, <1>2 DEF Spoiled
<1>4. Spoiled(items) \in Seq(OutItems)
  BY <1>1, <1>3
<1>5. items = <<>> => Spoiled(items) = <<>>
  BY <1>1 DEF Spoiled
<1> QED
  BY <1>4, <1>5

-----------------------------------------------------------------------------
(* pollEvents() *)

NativeStepOK == ConnectionStepOK /\ QuicStepOK /\ H3StepOK

\* The parts of the invariant, for the lemmas above.
LEMMA InvParts ==
  ASSUME NativeInv
  PROVE  /\ TypeOK /\ ConnectionTypeOK /\ QuicTypeOK /\ H3TypeOK
         /\ FreshIds /\ EndsAreReal /\ TablesAgree /\ H3Agrees
         /\ known \subseteq quicStreams /\ quicStreams \subseteq StreamIds
         /\ quicClosed \subseteq quicStreams /\ quicClosed \subseteq MayBeClosed
         /\ cached \subseteq quicStreams /\ hungUp \subseteq quicStreams
         /\ peerDone \subseteq quicStreams
BY DEF NativeInv, NativeTypeOK, TypeOK, QuicTypeOK, FreshIds, EndsAreReal

\* What is left of what nghttp3 was fed is typed, and of the same stream.
LEMMA FeedIsTyped ==
  ASSUME NEW id \in StreamIds, NEW data \in Seq(Chunks), NEW fin \in BOOLEAN
  PROVE  /\ Feed(id, data, fin) \in
               [id : StreamIds \cup {NoStream}, data : Seq(Chunks), fin : BOOLEAN]
         /\ Feed(id, data, fin) # NoFeed => Feed(id, data, fin).id = id
<1>1. NoFeed \in [id : StreamIds \cup {NoStream}, data : Seq(Chunks), fin : BOOLEAN]
  BY DEF NoFeed
<1> QED
  BY <1>1 DEF Feed

\* STREAM_READABLE: what was read is fed to nghttp3, or refused.
LEMMA ReadableToH3OK ==
  ASSUME NativeInv, ReadableToH3
  PROVE  NativeStepOK
<1> DEFINE id == Head(batch).streamId
<1>1. polling /\ batch # <<>> /\ ~Parsing
  BY DEF ReadableToH3
<1>2. id \in quicStreams /\ id \in StreamIds
  BY <1>1, InvParts, HeadIsTyped DEF ReadableToH3, StreamEventTypes
<1>3. FeedH3(id)
  BY DEF ReadableToH3
<1>4. /\ UNCHANGED <<lifecycleVars, streamStateVars, handleVars, eventVars, quicStreams,
                     quicClosed, quicEvents, quicHistory, failures, hungUp>>
      /\ UNCHANGED <<h3In, h3Out, asks, outq, bodies, call, submitted, wire>>
  BY DEF ReadableToH3
<1> HIDE DEF id
<1>5. /\ cached' = cached \cup {id}
      /\ unread' = [unread EXCEPT ![id] = SubSeq(@, ReadCount(id) + 1, Len(@))]
      /\ \/ /\ h3Stream' = [h3Stream EXCEPT ![id] = "open"]
            /\ feed' = FeedOf(id, ReadCount(id)) /\ batch' = Tail(batch)
            /\ UNCHANGED <<polling, refused>>
         \/ /\ polling' = FALSE /\ batch' = <<>> /\ feed' = NoFeed /\ refused' = TRUE
            /\ UNCHANGED h3Stream
  BY <1>3 DEF FeedH3, ThrowFromPoll
<1>6. unread \in [StreamIds -> Seq(Chunks)]
  BY InvParts DEF QuicTypeOK
<1>7. /\ SubSeq(unread[id], 1, ReadCount(id)) \in Seq(Chunks)
      /\ SubSeq(unread[id], ReadCount(id) + 1, Len(unread[id])) \in Seq(Chunks)
  <2>1. ReadCount(id) \in 0..ReadCount(id)
    BY <1>2, <1>6, MaxReadsAssumption, MaxPayloadAssumption DEF ReadCount
  <2>2. \A data \in Payloads : data \in Seq(Chunks)
    BY DEF Payloads
  <2> QED
    BY <1>2, <1>6, <2>1, <2>2, ReadIsTyped
<1>8. ConnectionStepOK
  <2>1. polling' \in BOOLEAN
    BY <1>5, InvParts DEF ConnectionTypeOK
  <2> QED
    BY <1>4, <2>1, InvParts, QuietStep
<1>9. QuicStepOK
  <2>1. unread' \in [StreamIds -> Seq(Chunks)]
    BY <1>2, <1>5, <1>6, <1>7
  <2>2. cached' \subseteq quicStreams /\ known' \subseteq quicStreams
    BY <1>2, <1>4, <1>5, InvParts DEF streamStateVars
  <2>3. batch' = Tail(batch) \/ batch' = <<>>
    BY <1>5
  <2>4. failures' \in 0..MaxFailures
    BY <1>4, InvParts DEF QuicTypeOK
  <2> QED
    BY <1>1, <1>4, <2>1, <2>2, <2>3, <2>4, InvParts, QuicKept DEF MayBeClosed, quicHistory
<1>10. H3StepOK
  <2>1. /\ feed' \in [id : StreamIds \cup {NoStream}, data : Seq(Chunks), fin : BOOLEAN]
        /\ feed' # NoFeed => feed'.id = id
    <3>1. NoFeed \in [id : StreamIds \cup {NoStream}, data : Seq(Chunks), fin : BOOLEAN]
      BY DEF NoFeed
    <3> DEFINE fin == id \in quicClosed
               read == SubSeq(unread[id], 1, ReadCount(id))
    <3>2. fin \in BOOLEAN /\ read \in Seq(Chunks)
      BY <1>7
    <3>3. FeedOf(id, ReadCount(id)) = Feed(id, read, fin)
      BY Zenon DEF FeedOf
    <3> HIDE DEF fin, read
    <3>4. CASE feed' = Feed(id, read, fin)
      BY <1>2, <3>2, <3>4, FeedIsTyped
    <3>5. CASE feed' = NoFeed
      BY <3>1, <3>5
    <3> QED
      BY <1>5, <3>3, <3>4, <3>5
  <2>2. \A s \in StreamIds : /\ h3Stream[s] = "open" => h3Stream'[s] = "open"
                             /\ h3Stream'[s] = "open" => h3Stream[s] = "open" \/ s = id
    BY <1>2, <1>5, InvParts DEF H3TypeOK
  <2>3. H3TypeOK'
    <3>1. h3Stream' \in [StreamIds -> {"none", "open", "closed"}] /\ refused' \in BOOLEAN
      BY <1>2, <1>5, InvParts DEF H3TypeOK
    <3> QED
      BY <1>4, <2>1, <3>1, InvParts DEF H3TypeOK
  <2>4. OneCallAtATime'
    <3>1. polling' => call = NoCall
      BY <1>1, InvParts DEF H3Agrees, OneCallAtATime
    <3>2. feed' # NoFeed => polling'
      BY <1>1, <1>5
    <3> QED
      BY <1>2, <1>4, <2>1, <3>1, <3>2 DEF OneCallAtATime, Parsing
  <2>5. H3HoldsItsOwn'
    BY <1>2, <1>4, <2>2, InvParts DEF H3Agrees, H3HoldsItsOwn
  <2>6. HeardIsTold' /\ EndedHasNoBody'
    BY <1>4, InvParts DEF H3Agrees, HeardIsTold, EndedHasNoBody, streamStateVars
  <2>7. SendersAreInH3'
    <3>1. \A s \in headersSubmitted \ closed : s \in StreamIds
      BY InvParts DEF ConnectionTypeOK
    <3>2. \A s \in headersSubmitted' \ closed' : h3Stream'[s] = "open"
      BY <1>4, <2>2, <3>1, InvParts DEF H3Agrees, SendersAreInH3, handleVars
    <3>3. call' = NoCall
      BY <1>1, <1>4, InvParts DEF H3Agrees, OneCallAtATime
    <3> QED
      BY <3>2, <3>3 DEF SendersAreInH3, NoCall
  <2> QED
    BY <2>3, <2>4, <2>5, <2>6, <2>7 DEF H3StepOK, H3Agrees
<1> QED
  BY <1>8, <1>9, <1>10 DEF NativeStepOK
\* The callbacks leave QUIC alone.
LEMMA ParseOK ==
  ASSUME NativeInv, Parse
  PROVE  NativeStepOK
<1> DEFINE id == feed.id
<1>1. polling /\ call = NoCall /\ id \in quicStreams /\ id \in StreamIds /\ polling \in BOOLEAN
  BY InvParts DEF Parse, H3Agrees, OneCallAtATime
<1>2. /\ UNCHANGED <<lifecycleVars, handles, headersSubmitted, localEnded, delivered>>
      /\ UNCHANGED <<polling, batch, quicClosed, quicStreams, unread, quicEvents, cached,
                     quicHistory, hungUp, failures>>
      /\ UNCHANGED <<call, submitted, wire, h3Stream, h3Out, asks, refused>>
  BY DEF Parse, pollFrame
<1>3. /\ feed.data \in Seq(Chunks) /\ feed.fin \in BOOLEAN
      /\ feed' = IF feed.data = <<>> THEN NoFeed ELSE Feed(id, Tail(feed.data), feed.fin)
  BY InvParts DEF Parse, H3TypeOK
<1> HIDE DEF id
<1>4. /\ feed' \in [id : StreamIds \cup {NoStream}, data : Seq(Chunks), fin : BOOLEAN]
      /\ feed' # NoFeed => feed'.id = id
  <2>1. NoFeed \in [id : StreamIds \cup {NoStream}, data : Seq(Chunks), fin : BOOLEAN]
    BY DEF NoFeed
  <2>2. feed.data # <<>> => Tail(feed.data) \in Seq(Chunks)
    BY <1>3
  <2> QED
    BY <1>1, <1>3, <2>1, <2>2, FeedIsTyped
<1>5. /\ ConnectionStepOK
      /\ known' \subseteq known \cup {id} /\ closed \subseteq closed'
      /\ remoteHeaders \cup terminal \subseteq remoteHeaders' \cup terminal'
      /\ bodies' = bodies \/ bodies' = [bodies EXCEPT ![id] = NewBody]
      /\ \A s \in terminal' : s \in terminal \/ (s = id /\ bodies'[s] = NewBody)
      /\ outq' = outq \/ outq' = [outq EXCEPT ![id] = Spoiled(@)]
      /\ h3In' = h3In
         \/ \E p \in Progress :
               h3In' = [h3In EXCEPT ![id] = p] /\ id \in remoteHeaders' \cup terminal'
  <2>1. CASE ParseHeaders
    <3>1. EmitHeadersOnce(id)
      BY <2>1 DEF ParseHeaders, id
    <3>2. UNCHANGED <<remoteEnded, terminal, wasReset, closed, bodies, outq>>
      BY <2>1 DEF ParseHeaders
    <3>3. ConnectionStepOK
      BY <1>1, <1>2, <3>1, <3>2, InvParts, HeadersStep DEF handleVars
    <3>4. /\ known' \subseteq known \cup {id} /\ remoteHeaders \subseteq remoteHeaders'
          /\ id \in remoteHeaders' \cup terminal'
      BY <3>1, <3>2 DEF EmitHeadersOnce
    <3>5. h3In' = [h3In EXCEPT ![id] = "headers"] /\ "headers" \in Progress
      BY <2>1 DEF ParseHeaders, id, Progress
    <3> QED
      BY <3>2, <3>3, <3>4, <3>5
  <2>2. CASE ParseData
    <3>1. EmitData(id, Head(feed.data)) /\ h3In[id] = "headers" /\ Head(feed.data) \in Chunks
      BY <1>3, <2>2 DEF ParseData, id
    <3>2. UNCHANGED <<remoteHeaders, remoteEnded, terminal, wasReset, closed, bodies, outq, h3In>>
      BY <2>2 DEF ParseData
    <3>3. id \in remoteHeaders \cup terminal
      BY <1>1, <3>1, InvParts DEF H3Agrees, HeardIsTold
    <3>4. ConnectionStepOK
      BY <1>1, <1>2, <3>1, <3>2, <3>3, InvParts, DataStep DEF handleVars
    <3>5. known' = known \cup {id}
      BY <3>1 DEF EmitData
    <3> QED
      BY <3>2, <3>4, <3>5
  <2>3. CASE ParseEnd
    <3>1. EmitTerminalOnce(id, RequestCompleted(id)) /\ remoteHeaders' = remoteHeaders
      BY <2>3 DEF ParseEnd, id
    <3>2. ConnectionStepOK
      BY <1>1, <1>2, <3>1, InvParts, TerminalStep
    <3>3. CASE id \in terminal
      BY <2>3, <3>1, <3>2, <3>3 DEF EmitTerminalOnce, ParseEnd, Progress, id
    <3>4. CASE id \notin terminal
      <4>1. /\ known' = known \cup {id} /\ terminal' = terminal \cup {id}
            /\ bodies' = [bodies EXCEPT ![id] = NewBody] /\ closed \subseteq closed'
        BY <3>1, <3>4 DEF EmitTerminalOnce, MarkStreamClosed
      <4>2. bodies'[id] = NewBody
        BY <1>1, <4>1, InvParts DEF H3TypeOK
      <4>3. /\ h3In' = [h3In EXCEPT ![id] = "whole"] /\ "whole" \in Progress
            /\ outq' = outq \/ outq' = [outq EXCEPT ![id] = Spoiled(@)]
        BY <2>3 DEF ParseEnd, id, Progress
      <4> QED
        BY <3>1, <3>2, <4>1, <4>2, <4>3
    <3> QED
      BY <3>3, <3>4
  <2> QED
    BY <2>1, <2>2, <2>3 DEF Parse
<1>6. QuicStepOK
  <2>1. known' \subseteq quicStreams
    BY <1>1, <1>5, InvParts
  <2>2. unread' \in [StreamIds -> Seq(Chunks)] /\ failures' \in 0..MaxFailures
    BY <1>2, InvParts DEF QuicTypeOK
  <2> QED
    BY <1>2, <2>1, <2>2, InvParts, QuicKept DEF MayBeClosed, quicHistory
<1>7. H3StepOK
  <2>1. \A s \in StreamIds : outq'[s] # <<>> => outq[s] # <<>>
    BY <1>1, <1>5, InvParts, SpoiledIsTyped DEF H3TypeOK
  <2>2. \A s \in StreamIds : bodies'[s] # NewBody => bodies[s] # NewBody
    BY <1>1, <1>5, InvParts DEF H3TypeOK
  <2>3. H3TypeOK'
    <3>1. outq' \in [StreamIds -> Seq(OutItems)]
      <4>1. outq \in [StreamIds -> Seq(OutItems)]
        BY InvParts DEF H3TypeOK
      <4>2. Spoiled(outq[id]) \in Seq(OutItems)
        BY <1>1, <4>1, SpoiledIsTyped
      <4> QED
        BY <1>1, <1>5, <4>1, <4>2
    <3>2. bodies' \in [StreamIds -> Bodies(Chunks)]
      BY <1>1, <1>5, InvParts, BodiesAreTyped DEF H3TypeOK
    <3>3. h3In' \in [StreamIds -> Progress]
      <4>1. h3In \in [StreamIds -> Progress]
        BY InvParts DEF H3TypeOK
      <4>2. h3In' = h3In \/ \E p \in Progress : h3In' = [h3In EXCEPT ![id] = p]
        BY <1>5
      <4> QED
        BY <4>1, <4>2
    <3> QED
      BY <1>2, <1>4, <3>1, <3>2, <3>3, InvParts DEF H3TypeOK
  <2>4. OneCallAtATime'
    BY <1>1, <1>2, <1>4 DEF OneCallAtATime, Parsing
  <2>5. H3HoldsItsOwn'
    BY <1>2, <2>1, <2>2, InvParts DEF H3Agrees, H3HoldsItsOwn
  <2>6. HeardIsTold'
    BY <1>1, <1>5, InvParts DEF H3Agrees, HeardIsTold, H3TypeOK
  <2>7. EndedHasNoBody'
    <3>1. terminal \subseteq StreamIds
      BY InvParts DEF ConnectionTypeOK
    <3> QED
      BY <1>5, <2>2, <3>1, InvParts DEF H3Agrees, EndedHasNoBody
  <2>8. SendersAreInH3'
    BY <1>1, <1>2, <1>5, InvParts DEF H3Agrees, SendersAreInH3, NoCall
  <2> QED
    BY <2>3, <2>4, <2>5, <2>6, <2>7, <2>8 DEF H3StepOK, H3Agrees
<1> QED
  BY <1>5, <1>6, <1>7 DEF NativeStepOK

\* nghttp3 rejects the message: it closes the stream, and QUIC takes the reset or
\* throws.
LEMMA ParseRejectOK ==
  ASSUME NativeInv, ParseReject
  PROVE  NativeStepOK
<1> DEFINE id == feed.id
<1>1. Parsing /\ polling /\ call = NoCall /\ id \in quicStreams /\ id \in StreamIds
  BY InvParts DEF ParseReject, H3Agrees, OneCallAtATime
<1>2. PICK code \in ErrorCodes : CloseInH3(id, code)
  BY DEF ParseReject
<1>3. /\ UNCHANGED <<lifecycleVars, handles, headersSubmitted, localEnded, delivered>>
      /\ UNCHANGED <<quicStreams, unread, quicEvents, cached, quicHistory>>
      /\ UNCHANGED <<call, submitted, wire>>
  BY DEF ParseReject, pollFrame
<1>4. /\ feed' = NoFeed /\ refused' = refused
      /\ batch' = batch \/ batch' = <<>>
      /\ polling' = polling \/ polling' = FALSE
  BY DEF ParseReject, ThrowFromPoll
<1>5. failures' \in 0..MaxFailures
  BY InvParts, MaxFailuresAssumption DEF ParseReject, ThrowFromPoll, QuicTypeOK
<1>6. /\ hungUp' \subseteq quicStreams /\ quicClosed' \subseteq quicStreams
      /\ quicClosed' \subseteq MayBeClosed'
  BY <1>1, <1>3, InvParts DEF ParseReject, ClosedWith, MayBeClosed, quicHistory
<1> HIDE DEF id
<1>7. ConnectionStepOK /\ H3StepOK /\ known' \subseteq known \cup {id}
  BY <1>1, <1>2, <1>3, <1>4, ClosedInH3 DEF Parsing
<1>8. QuicStepOK
  <2>1. unread' \in [StreamIds -> Seq(Chunks)]
    BY <1>3, InvParts DEF QuicTypeOK
  <2>2. known' \subseteq quicStreams /\ cached' \subseteq quicStreams
    BY <1>1, <1>3, <1>7, InvParts
  <2> QED
    BY <1>3, <1>4, <1>5, <1>6, <2>1, <2>2, InvParts, QuicKept
<1> QED
  BY <1>7, <1>8 DEF NativeStepOK

\* nghttp3_conn_read_stream() fails: only the poll is over.
LEMMA ParseFailsOK ==
  ASSUME NativeInv, ParseFails
  PROVE  NativeStepOK
<1>1. /\ polling' = FALSE /\ batch' = <<>> /\ feed' = NoFeed /\ refused' = TRUE
      /\ UNCHANGED <<lifecycleVars, streamStateVars, handleVars, eventVars>>
      /\ UNCHANGED <<quicStreams, unread, quicEvents, cached, quicHistory, quicClosed, hungUp,
                     failures>>
      /\ UNCHANGED <<h3Vars, bodies, call, submitted, wire>>
  BY DEF ParseFails, ThrowFromPoll, pollFrame, handleVars, eventVars
<1>2. ConnectionStepOK
  BY <1>1, InvParts, QuietStep
<1>3. QuicStepOK
  <2>1. unread' \in [StreamIds -> Seq(Chunks)] /\ failures' \in 0..MaxFailures
    BY <1>1, InvParts DEF QuicTypeOK
  <2>2. known' \subseteq quicStreams
    BY <1>1, InvParts DEF streamStateVars
  <2> QED
    BY <1>1, <2>1, <2>2, InvParts, QuicKept DEF MayBeClosed, quicHistory
<1>4. H3StepOK
  <2>1. NoFeed \in [id : StreamIds \cup {NoStream}, data : Seq(Chunks), fin : BOOLEAN]
    BY DEF NoFeed
  <2>2. H3TypeOK'
    BY <1>1, <2>1, InvParts DEF H3TypeOK, h3Vars
  <2>3. OneCallAtATime' /\ H3HoldsItsOwn'
    BY <1>1, InvParts DEF H3Agrees, OneCallAtATime, H3HoldsItsOwn, Parsing, h3Vars
  <2>4. HeardIsTold' /\ SendersAreInH3' /\ EndedHasNoBody'
    BY <1>1, InvParts DEF H3Agrees, HeardIsTold, SendersAreInH3, EndedHasNoBody, h3Vars,
                          streamStateVars, handleVars
  <2> QED
    BY <2>2, <2>3, <2>4 DEF H3StepOK, H3Agrees
<1> QED
  BY <1>2, <1>3, <1>4 DEF NativeStepOK

\* What a generic signal about a stream does not undo.
LEMMA SignalEnds ==
  /\ \A id \in StreamIds, data \in Payloads, fin \in BOOLEAN :
        ConsumeReadable(id, data, fin) =>
            /\ closed \subseteq closed' /\ headersSubmitted' = headersSubmitted
            /\ remoteHeaders \subseteq remoteHeaders' /\ terminal \subseteq terminal'
            /\ terminal' \subseteq terminal \cup {id}
  /\ \A id \in StreamIds, code \in ErrorCodes :
        ConsumeReset(id, code) =>
            /\ closed \subseteq closed' /\ headersSubmitted' = headersSubmitted
            /\ remoteHeaders \subseteq remoteHeaders' /\ terminal \subseteq terminal'
            /\ terminal' \subseteq terminal \cup {id}
  /\ \A code \in ErrorCodes, isClosed \in BOOLEAN :
        ConsumeClosing(code, isClosed) => UNCHANGED <<streamStateVars, handleVars>>
<1>1. ASSUME NEW id \in StreamIds, NEW data \in Payloads, NEW fin \in BOOLEAN,
             ConsumeReadable(id, data, fin)
      PROVE  /\ closed \subseteq closed' /\ headersSubmitted' = headersSubmitted
             /\ remoteHeaders \subseteq remoteHeaders' /\ terminal \subseteq terminal'
             /\ terminal' \subseteq terminal \cup {id}
  <2>1. CASE ConsumeLateReadable(id)
    BY <2>1 DEF ConsumeLateReadable, streamStateVars, handleVars
  <2>2. CASE ConsumeLiveReadable(id, data, fin) /\ fin
    BY <2>2 DEF ConsumeLiveReadable, MarkStreamClosed
  <2>3. CASE ConsumeLiveReadable(id, data, fin) /\ ~fin
    BY <2>3 DEF ConsumeLiveReadable
  <2> QED
    BY <1>1, <2>1, <2>2, <2>3 DEF ConsumeReadable
<1>2. ASSUME NEW id \in StreamIds, NEW code \in ErrorCodes, ConsumeReset(id, code)
      PROVE  /\ closed \subseteq closed' /\ headersSubmitted' = headersSubmitted
             /\ remoteHeaders \subseteq remoteHeaders' /\ terminal \subseteq terminal'
             /\ terminal' \subseteq terminal \cup {id}
  BY <1>2 DEF ConsumeReset, ConsumeLateReset, ConsumeLiveReset, MarkStreamClosed,
              streamStateVars, handleVars
<1>3. ASSUME NEW code \in ErrorCodes, NEW isClosed \in BOOLEAN, ConsumeClosing(code, isClosed)
      PROVE  UNCHANGED <<streamStateVars, handleVars>>
  BY <1>3 DEF ConsumeClosing, ConsumeFirstClosing, ConsumeLaterClosing, ConsumeLateClosing
<1> QED
  BY <1>1, <1>2, <1>3

\* STREAM_CLOSED, STREAM_RESET and the ends of the connection.
LEMMA ConsumeOK ==
  ASSUME NativeInv, ConsumeNativeEvent
  PROVE  NativeStepOK
<1> DEFINE event == Head(batch)
<1>1. polling /\ batch # <<>> /\ ~Parsing /\ call = NoCall
  BY InvParts DEF ConsumeNativeEvent, H3Agrees, OneCallAtATime
<1>2. /\ event.errorCode \in ErrorCodes /\ 0 \in ErrorCodes
      /\ event.type \in StreamEventTypes => event.streamId \in quicStreams
  BY <1>1, InvParts, HeadIsTyped, ErrorCodesAssumption
<1>3. /\ batch' = Tail(batch)
      /\ UNCHANGED <<delivered, polling, quicStreams, unread, quicClosed, quicEvents, cached,
                     quicHistory, failures, hungUp>>
      /\ UNCHANGED <<feed, call, submitted, wire, refused>>
  BY DEF ConsumeNativeEvent, quicVars
<1>4. ASSUME known' \subseteq quicStreams
      PROVE  QuicStepOK
  <2>1. unread' \in [StreamIds -> Seq(Chunks)] /\ failures' \in 0..MaxFailures
    BY <1>3, InvParts DEF QuicTypeOK
  <2> QED
    BY <1>1, <1>3, <1>4, <2>1, InvParts, QuicKept DEF MayBeClosed, quicHistory
<1>5. ASSUME UNCHANGED <<h3Vars, bodies>>, headersSubmitted' = headersSubmitted,
             closed \subseteq closed',
             remoteHeaders \subseteq remoteHeaders', terminal \subseteq terminal',
             \A s \in terminal' : s \in terminal \/ (s \in StreamIds /\ s \notin H3Streams)
      PROVE  H3StepOK
  BY <1>1, <1>3, <1>5, InvParts, H3Kept DEF nativeVars
<1>6. CASE EndInH3
  <2> DEFINE id == event.streamId
             code == IF event.type = "STREAM_CLOSED" THEN 0 ELSE event.errorCode
  <2>1. id \in quicStreams /\ id \in StreamIds
    BY <1>2, <1>6, InvParts DEF EndInH3, StreamEventTypes
  <2>2. code \in ErrorCodes
    BY <1>2
  <2>3. /\ CloseInH3(id, code)
        /\ UNCHANGED <<lifecycleVars, handles, headersSubmitted, localEnded>>
    BY <1>6 DEF EndInH3
  <2> HIDE DEF id, code
  <2>4. ConnectionStepOK /\ H3StepOK /\ known' \subseteq known \cup {id}
    BY <1>1, <1>3, <2>1, <2>2, <2>3, ClosedInH3 DEF Parsing
  <2>5. known' \subseteq quicStreams
    BY <2>1, <2>4, InvParts
  <2> QED
    BY <1>4, <2>4, <2>5 DEF NativeStepOK
<1>7. CASE EndOutsideH3
  <2> DEFINE id == event.streamId
  <2>1. id \in quicStreams /\ id \in StreamIds /\ id \notin H3Streams
    BY <1>2, <1>7, InvParts DEF EndOutsideH3, StreamEventTypes
  <2>2. /\ ConsumeReadable(id, <<>>, TRUE) \/ ConsumeReset(id, event.errorCode)
        /\ UNCHANGED <<h3Vars, bodies>>
    BY <1>7 DEF EndOutsideH3
  <2> HIDE DEF id, event
  <2>3. ConnectionStepOK
    BY <1>2, <1>3, <2>1, <2>2, InvParts, EmptyPayload, HandlerStep
  <2>4. known' \subseteq known \cup {id}
    BY <1>2, <2>1, <2>2, EmptyPayload, SignalKnows
  <2>5. /\ closed \subseteq closed' /\ headersSubmitted' = headersSubmitted
        /\ remoteHeaders \subseteq remoteHeaders' /\ terminal \subseteq terminal'
        /\ terminal' \subseteq terminal \cup {id}
    BY <1>2, <2>1, <2>2, EmptyPayload, SignalEnds
  <2>6. known' \subseteq quicStreams
    BY <2>1, <2>4, InvParts
  <2>7. H3StepOK
    BY <1>5, <2>1, <2>2, <2>5
  <2> QED
    BY <1>4, <2>3, <2>6, <2>7 DEF NativeStepOK
<1>8. CASE ClosingOutsideH3
  <2> DEFINE isClosed == event.type = "CONNECTION_CLOSED"
             code == event.errorCode
  <2>1. ConsumeClosing(code, isClosed) /\ UNCHANGED <<h3Vars, bodies>>
    BY <1>8 DEF ClosingOutsideH3
  <2>2. code \in ErrorCodes /\ isClosed \in BOOLEAN
    BY <1>2
  <2> HIDE DEF isClosed, code
  <2>3. ConnectionStepOK
    BY <1>3, <2>1, <2>2, InvParts, HandlerStep
  <2>4. UNCHANGED <<streamStateVars, handleVars>>
    BY <2>1, <2>2, SignalEnds
  <2>5. known' \subseteq quicStreams
    BY <2>4, InvParts DEF streamStateVars
  <2>6. H3StepOK
    BY <1>5, <2>1, <2>4 DEF streamStateVars, handleVars
  <2> QED
    BY <1>4, <2>3, <2>5, <2>6 DEF NativeStepOK
<1> QED
  BY <1>6, <1>7, <1>8 DEF ConsumeNativeEvent

\* What a poll shares with the generic transport: it drains, throws or returns.
LEMMA SharedPollOK ==
  ASSUME NativeInv, UNCHANGED nativeVars,
         \/ call = NoCall /\ DrainEvents
         \/ ~Parsing /\ (AbortPoll \/ PollReturn)
  PROVE  NativeStepOK
<1>1. TypeOK' /\ FreshIds' /\ EndsAreReal'
  BY InvParts, PollTyped, PollIsReal DEF Poll
<1>2. QuicStepOK
  BY <1>1 DEF QuicStepOK, TypeOK
<1>3. CASE (call = NoCall /\ DrainEvents) \/ (~Parsing /\ AbortPoll)
  <2>1. /\ polling' \in BOOLEAN /\ quicStreams' = quicStreams
        /\ UNCHANGED <<lifecycleVars, streamStateVars, handleVars, eventVars>>
    BY <1>3 DEF DrainEvents, AbortPoll
  <2>2. ConnectionStepOK
    BY <2>1, InvParts, QuietStep
  <2>3. /\ polling' => call = NoCall
        /\ Parsing => polling'
    BY <1>3 DEF DrainEvents, AbortPoll
  <2>4. terminal \subseteq StreamIds
    BY InvParts DEF ConnectionTypeOK
  <2>5. H3StepOK
    BY <2>1, <2>3, <2>4, InvParts, H3Kept DEF streamStateVars, handleVars
  <2> QED
    BY <1>2, <2>2, <2>5 DEF NativeStepOK
<1>4. CASE PollReturn
  <2>1. ReturnEvents /\ polling' = FALSE /\ quicStreams' = quicStreams
    BY <1>4 DEF PollReturn, ReturnEvents, quicVars
  <2>2. ConnectionStepOK
    BY <2>1, InvParts, MethodStep
  <2>3. polling /\ ~Parsing
    BY <1>4 DEF PollReturn, DrainEvents
  <2>4. UNCHANGED <<streamStateVars, handleVars>>
    BY <2>1 DEF ReturnEvents
  <2>5. H3StepOK
    BY <2>1, <2>3, <2>4, InvParts, H3Kept DEF streamStateVars, handleVars
  <2> QED
    BY <1>2, <2>2, <2>5 DEF NativeStepOK
<1> QED
  BY <1>3, <1>4

\* Every step of pollEvents().
LEMMA NativePollOK ==
  ASSUME NativeInv, NativePoll
  PROVE  NativeStepOK
BY ReadableToH3OK, ParseOK, ParseRejectOK, ParseFailsOK, ConsumeOK, SharedPollOK DEF NativePoll

-----------------------------------------------------------------------------
(* The QUIC side and the methods of the connection *)

\* What arrives waits for the next poll.
LEMMA NativeArrivalOK ==
  ASSUME NativeInv, NativeArrival
  PROVE  NativeStepOK
<1>1. Arrival /\ UNCHANGED nativeVars /\ call = NoCall
  BY DEF NativeArrival, Arrival
<1>2. TypeOK' /\ FreshIds' /\ EndsAreReal'
  BY <1>1, InvParts, ArrivalTyped, ArrivalIsReal
<1>3. UNCHANGED connectionVars
  BY <1>1 DEF Arrival, PeerSends, PeerResets, QuicCloses, ConnectionEnds, QuicEventArrives
<1>4. quicStreams \subseteq quicStreams'
  BY <1>1 DEF Arrival, PeerSends, PeerResets, QuicCloses, ConnectionEnds, PeerUses
<1>5. ConnectionStepOK
  <2>1. polling' \in BOOLEAN
    BY <1>3, InvParts DEF connectionVars, ConnectionTypeOK
  <2> QED
    BY <1>3, <2>1, InvParts, QuietStep DEF connectionVars
<1>6. H3StepOK
  <2>1. Parsing => polling'
    BY <1>3, InvParts DEF connectionVars, H3Agrees, OneCallAtATime
  <2> QED
    BY <1>1, <1>3, <1>4, <2>1, InvParts, H3Kept
       DEF connectionVars, streamStateVars, handleVars
<1> QED
  BY <1>2, <1>5, <1>6 DEF NativeStepOK, QuicStepOK, TypeOK

\* createRequestStream(), getRequestStream() and close() leave nghttp3 alone.
LEMMA NativeConnectionCallOK ==
  ASSUME NativeInv, NativeConnectionCall
  PROVE  NativeStepOK
<1>1. ConnectionCall /\ UNCHANGED nativeVars /\ call = NoCall
  BY DEF NativeConnectionCall
<1>2. TypeOK' /\ FreshIds' /\ EndsAreReal'
  BY <1>1, InvParts, ConnectionCallTyped, CallIsReal
<1> DEFINE CallOK ==
               /\ ConnectionStepOK
               /\ ~polling /\ ~polling'
               /\ quicStreams \subseteq quicStreams'
               /\ headersSubmitted' \ closed' \subseteq headersSubmitted \ closed
               /\ remoteHeaders \cup terminal \subseteq remoteHeaders' \cup terminal'
               /\ terminal' \subseteq terminal
<1>3. CallOK
  <2>1. ASSUME NEW id \in StreamIds, OpenRequestStream(id)
        PROVE  CallOK
    <3>1. CreateRequestStream(id) /\ quicStreams' = quicStreams \cup {id} /\ id \notin quicStreams
      BY <2>1 DEF OpenRequestStream
    <3>2. id \notin known /\ id \notin remoteHeaders \cup terminal
      BY <3>1, InvParts DEF ConnectionTypeOK
    <3>3. ConnectionStepOK
      BY <3>1, <3>2, InvParts, MethodStep
    <3> QED
      BY <3>1, <3>2, <3>3 DEF CreateRequestStream
  <2>2. ASSUME NEW id \in StreamIds, RefusedOpen(id)
        PROVE  CallOK
    <3>1. UNCHANGED connectionVars /\ ~polling /\ quicStreams' = quicStreams \cup {id}
      BY <2>2 DEF RefusedOpen
    <3>2. ConnectionStepOK
      <4>1. polling' \in BOOLEAN
        BY <3>1, InvParts DEF connectionVars, ConnectionTypeOK
      <4> QED
        BY <3>1, <4>1, InvParts, QuietStep DEF connectionVars
    <3>3. UNCHANGED <<streamStateVars, handleVars>>
      BY <3>1 DEF connectionVars
    <3>4. ~polling'
      BY <3>1, Zenon DEF connectionVars
    <3> QED
      BY <3>1, <3>2, <3>3, <3>4 DEF streamStateVars, handleVars
  <2>3. ASSUME NEW id \in StreamIds, FetchRequestStream(id)
        PROVE  CallOK
    <3>1. GetRequestStream(id, FALSE) \/ GetRequestStream(id, TRUE)
      BY <2>3 DEF FetchRequestStream, GetRequestStream
    <3>2. ConnectionStepOK
      BY <3>1, InvParts, MethodStep
    <3>3. quicStreams' = quicStreams
      BY <2>3 DEF FetchRequestStream, quicVars
    <3> QED
      BY <3>1, <3>2, <3>3 DEF GetRequestStream
  <2>4. ASSUME CloseConnection
        PROVE  CallOK
    <3>1. Close /\ quicStreams' = quicStreams
      BY <2>4 DEF CloseConnection, quicVars
    <3>2. ConnectionStepOK
      BY <3>1, InvParts, MethodStep
    <3> QED
      BY <3>1, <3>2 DEF Close, streamStateVars, handleVars
  <2> QED
    BY <1>1, <2>1, <2>2, <2>3, <2>4 DEF ConnectionCall
<1>4. ~Parsing
  BY <1>3, InvParts DEF H3Agrees, OneCallAtATime
<1>5. H3StepOK
  BY <1>1, <1>3, <1>4, InvParts, H3Kept
<1> QED
  BY <1>2, <1>3, <1>5 DEF NativeStepOK, QuicStepOK, TypeOK

-----------------------------------------------------------------------------
(* The methods of a request stream *)

\* A step of a method keeps what ties nghttp3 to the tables, if what nghttp3 holds
\* is of a stream it has and the stream is open in the tables when it sends.
LEMMA H3Sends ==
  ASSUME NativeInv, H3TypeOK', ~polling,
         UNCHANGED <<streamStateVars, polling, quicStreams, h3In, feed>>,
         \A s \in StreamIds : h3Stream'[s] = "open" => s \in quicStreams,
         \A s \in StreamIds :
            outq'[s] # <<>> \/ s \in asks' \/ bodies'[s] # NewBody => h3Stream'[s] = "open",
         \A s \in terminal : bodies'[s] = NewBody,
         \A s \in headersSubmitted' \ closed' : h3Stream'[s] = "open",
         call'.op = "headers" => h3Stream'[call'.id] = "open"
  PROVE  H3StepOK
<1>1. ~Parsing
  BY InvParts DEF H3Agrees, OneCallAtATime
<1>2. OneCallAtATime' /\ H3HoldsItsOwn'
  BY <1>1 DEF OneCallAtATime, H3HoldsItsOwn, Parsing
<1>3. HeardIsTold' /\ EndedHasNoBody'
  BY InvParts DEF H3Agrees, HeardIsTold, EndedHasNoBody, streamStateVars
<1>4. SendersAreInH3'
  BY DEF SendersAreInH3
<1> QED
  BY <1>2, <1>3, <1>4 DEF H3StepOK, H3Agrees

\* A handle that can send belongs to a stream QUIC has, that has not ended.
LEMMA OpenHandle ==
  ASSUME NativeInv, NEW id \in handles \ closed
  PROVE  /\ id \in StreamIds /\ id \in quicStreams /\ id \notin terminal
         /\ id \in headersSubmitted => h3Stream[id] = "open"
<1>1. id \in known /\ known \subseteq StreamIds /\ known \subseteq quicStreams
  BY InvParts DEF ConnectionTypeOK
<1>2. id \notin terminal
  BY InvParts DEF TablesAgree, TerminalClosesHandle
<1>3. id \in headersSubmitted => h3Stream[id] = "open"
  BY InvParts DEF H3Agrees, SendersAreInH3
<1> QED
  BY <1>1, <1>2, <1>3

\* The start of a method, which leaves the connection and QUIC alone.
LEMMA BeginKeeps ==
  ASSUME NativeInv, UNCHANGED <<sendFrame, quicClosed, cached, hungUp>>,
         failures' \in 0..MaxFailures
  PROVE  ConnectionStepOK /\ QuicStepOK
<1>1. /\ UNCHANGED connectionVars
      /\ UNCHANGED <<quicStreams, unread, quicEvents, batch, quicHistory>>
  BY DEF sendFrame
<1>2. ConnectionStepOK
  <2>1. polling' \in BOOLEAN
    BY <1>1, InvParts DEF connectionVars, ConnectionTypeOK
  <2> QED
    BY <1>1, <2>1, InvParts, QuietStep DEF connectionVars
<1>3. QuicStepOK
  <2>1. unread' \in [StreamIds -> Seq(Chunks)]
    BY <1>1, InvParts DEF QuicTypeOK
  <2>2. known' \subseteq quicStreams
    BY <1>1, InvParts DEF connectionVars, streamStateVars
  <2> QED
    BY <1>1, <2>1, <2>2, InvParts, QuicKept DEF MayBeClosed, quicHistory
<1> QED
  BY <1>2, <1>3

\* What a method or a flush loop leaves of the tables and of what nghttp3 hears.
LEMMA SendFrameKeeps ==
  ASSUME sendFrame' = sendFrame
  PROVE  UNCHANGED <<streamStateVars, handleVars, polling, quicStreams, feed, refused>>
BY DEF sendFrame, connectionVars

\* submitHeaders() gives the stream to nghttp3.
LEMMA BeginHeadersOK ==
  ASSUME NativeInv, NEW id \in StreamIds, BeginHeaders(id)
  PROVE  NativeStepOK
<1>1. id \in handles \ closed /\ ~polling
  BY DEF BeginHeaders, Idle
<1>2. id \in quicStreams /\ id \notin terminal
  BY <1>1, OpenHandle
<1>3. /\ UNCHANGED <<sendFrame, quicClosed, cached, failures, hungUp>>
      /\ UNCHANGED <<h3In, bodies, wire>>
      /\ h3Stream' = [h3Stream EXCEPT ![id] = "open"]
      /\ h3Out' = [h3Out EXCEPT ![id] = "headers"]
      /\ asks' = asks \cup {id}
      /\ outq' = [outq EXCEPT ![id] = Append(@, "HEADERS")]
      /\ submitted' = [submitted EXCEPT ![id] = Append(@, "HEADERS")]
      /\ call' = [op |-> "headers", id |-> id]
  BY DEF BeginHeaders
<1>4. UNCHANGED <<streamStateVars, handleVars, polling, quicStreams, feed, refused>>
  BY <1>3, SendFrameKeeps
<1>5. ConnectionStepOK /\ QuicStepOK
  <2>1. failures' \in 0..MaxFailures
    BY <1>3, InvParts DEF QuicTypeOK
  <2> QED
    BY <1>3, <2>1, BeginKeeps
<1>6. H3TypeOK'
  <2>1. "HEADERS" \in OutItems
    BY DEF OutItems
  <2>2. /\ Append(outq[id], "HEADERS") \in Seq(OutItems)
        /\ Append(submitted[id], "HEADERS") \in Seq(OutItems)
    BY <2>1, InvParts DEF H3TypeOK
  <2>3. outq' \in [StreamIds -> Seq(OutItems)] /\ submitted' \in [StreamIds -> Seq(OutItems)]
    BY <1>3, <2>2, InvParts DEF H3TypeOK
  <2>4. call' \in [op : {"none", "headers", "data", "end"}, id : StreamIds \cup {NoStream}]
    BY <1>3
  <2>5. /\ h3Stream' \in [StreamIds -> {"none", "open", "closed"}]
        /\ h3Out' \in [StreamIds -> Progress]
        /\ asks' \subseteq StreamIds
    BY <1>3, InvParts DEF H3TypeOK, Progress
  <2> QED
    BY <1>3, <1>4, <2>3, <2>4, <2>5, InvParts DEF H3TypeOK
<1>7. H3StepOK
  <2>1. \A s \in StreamIds : h3Stream'[s] = IF s = id THEN "open" ELSE h3Stream[s]
    BY <1>3, InvParts DEF H3TypeOK
  <2>2. \A s \in StreamIds : s # id => outq'[s] = outq[s]
    BY <1>3, InvParts DEF H3TypeOK
  <2>3. \A s \in StreamIds : h3Stream'[s] = "open" => s \in quicStreams
    BY <1>2, <2>1, InvParts DEF H3Agrees, H3HoldsItsOwn
  <2>4. \A s \in StreamIds :
           outq'[s] # <<>> \/ s \in asks' \/ bodies'[s] # NewBody => h3Stream'[s] = "open"
    BY <1>3, <2>1, <2>2, InvParts DEF H3Agrees, H3HoldsItsOwn
  <2>5. \A s \in terminal : bodies'[s] = NewBody
    BY <1>3, InvParts DEF H3Agrees, EndedHasNoBody
  <2>6. \A s \in headersSubmitted' \ closed' : h3Stream'[s] = "open"
    <3>1. headersSubmitted \subseteq StreamIds
      BY InvParts DEF ConnectionTypeOK
    <3> QED
      BY <1>4, <2>1, <3>1, InvParts DEF handleVars, H3Agrees, SendersAreInH3
  <2>7. call'.op = "headers" => h3Stream'[call'.id] = "open"
    BY <1>3, <2>1
  <2> QED
    BY <1>1, <1>3, <1>4, <1>6, <2>3, <2>4, <2>5, <2>6, <2>7, H3Sends
<1> QED
  BY <1>5, <1>7 DEF NativeStepOK

\* submitHeaders() throws: nothing has happened.
LEMMA HeadersRefusedOK ==
  ASSUME NativeInv, NEW id \in StreamIds, HeadersRefused(id)
  PROVE  NativeStepOK
<1>1. ~polling /\ UNCHANGED <<sendFrame, quicClosed, cached, hungUp, nativeVars>>
  BY DEF HeadersRefused, Idle
<1>2. UNCHANGED <<streamStateVars, handleVars, polling, quicStreams>>
  BY <1>1, SendFrameKeeps
<1>3. ConnectionStepOK /\ QuicStepOK
  <2>1. failures' \in 0..MaxFailures
    BY InvParts, MaxFailuresAssumption DEF HeadersRefused, QuicTypeOK
  <2> QED
    BY <1>1, <2>1, BeginKeeps
<1>4. H3StepOK
  <2>1. ~Parsing
    BY <1>1, InvParts DEF H3Agrees, OneCallAtATime
  <2> QED
    BY <1>1, <1>2, <2>1, InvParts, H3Kept DEF streamStateVars, handleVars
<1> QED
  BY <1>3, <1>4 DEF NativeStepOK

\* submitData() and end(): the body of a stream nghttp3 has grows or ends.
LEMMA BeginBodyOK ==
  ASSUME NativeInv, NEW id \in StreamIds, ~polling, SubmitData(id),
         NEW more \in Seq(OutItems), NEW op \in {"data", "end"},
         NEW body \in Bodies(Chunks), bodies' = [bodies EXCEPT ![id] = body],
         outq' = outq \/ outq' = [outq EXCEPT ![id] = Spoiled(@)],
         asks' = Resumed(id),
         submitted' = [submitted EXCEPT ![id] = @ \o more],
         call' = [op |-> op, id |-> id],
         UNCHANGED <<sendFrame, quicClosed, cached, failures, hungUp>>,
         UNCHANGED <<h3Stream, h3In, h3Out, wire>>
  PROVE  NativeStepOK
<1>1. id \in handles \ closed /\ id \in headersSubmitted
  BY DEF SubmitData
<1>2. id \in quicStreams /\ id \notin terminal /\ h3Stream[id] = "open"
  BY <1>1, OpenHandle
<1>3. UNCHANGED <<streamStateVars, handleVars, polling, quicStreams, feed, refused>>
  BY SendFrameKeeps
<1>4. ConnectionStepOK /\ QuicStepOK
  <2>1. failures' \in 0..MaxFailures
    BY InvParts DEF QuicTypeOK
  <2> QED
    BY <2>1, BeginKeeps
<1>5. asks' \subseteq asks \cup {id}
  BY DEF Resumed
<1>6. H3TypeOK'
  <2>1. outq' \in [StreamIds -> Seq(OutItems)]
    <3>1. outq \in [StreamIds -> Seq(OutItems)]
      BY InvParts DEF H3TypeOK
    <3>2. Spoiled(outq[id]) \in Seq(OutItems)
      BY <3>1, SpoiledIsTyped
    <3> QED
      BY <3>1, <3>2
  <2>2. submitted' \in [StreamIds -> Seq(OutItems)]
    <3>1. submitted \in [StreamIds -> Seq(OutItems)]
      BY InvParts DEF H3TypeOK
    <3>2. submitted[id] \o more \in Seq(OutItems)
      BY <3>1, ConcatProperties
    <3> QED
      BY <3>1, <3>2
  <2>3. call' \in [op : {"none", "headers", "data", "end"}, id : StreamIds \cup {NoStream}]
    OBVIOUS
  <2>4. bodies' \in [StreamIds -> Bodies(Chunks)] /\ asks' \subseteq StreamIds
    BY <1>5, InvParts DEF H3TypeOK
  <2> QED
    BY <1>3, <2>1, <2>2, <2>3, <2>4, InvParts DEF H3TypeOK
<1>7. H3StepOK
  <2>1. \A s \in StreamIds : s # id => outq'[s] = outq[s] /\ bodies'[s] = bodies[s]
    BY InvParts DEF H3TypeOK
  <2>2. \A s \in StreamIds : h3Stream'[s] = "open" => s \in quicStreams
    BY InvParts DEF H3Agrees, H3HoldsItsOwn
  <2>3. \A s \in StreamIds :
           outq'[s] # <<>> \/ s \in asks' \/ bodies'[s] # NewBody => h3Stream'[s] = "open"
    BY <1>2, <1>5, <2>1, InvParts DEF H3Agrees, H3HoldsItsOwn
  <2>4. \A s \in terminal : bodies'[s] = NewBody
    <3>1. terminal \subseteq StreamIds
      BY InvParts DEF ConnectionTypeOK
    <3> QED
      BY <1>2, <2>1, <3>1, InvParts DEF H3Agrees, EndedHasNoBody
  <2>5. \A s \in headersSubmitted' \ closed' : h3Stream'[s] = "open"
    BY <1>3, InvParts DEF handleVars, H3Agrees, SendersAreInH3
  <2>6. call'.op # "headers"
    OBVIOUS
  <2> QED
    BY <1>3, <1>6, <2>2, <2>3, <2>4, <2>5, <2>6, H3Sends
<1> QED
  BY <1>4, <1>7 DEF NativeStepOK

\* submitData()
LEMMA BeginDataOK ==
  ASSUME NativeInv, NEW id \in StreamIds,
         NEW piece \in {<<>>} \cup {<<chunk>> : chunk \in BodyPieces}, BeginData(id, piece)
  PROVE  NativeStepOK
<1>1. piece \in Seq(Chunks)
  <2>1. CASE piece = <<>>
    BY <2>1
  <2>2. ASSUME NEW chunk \in BodyPieces, piece = <<chunk>>
        PROVE  piece \in Seq(Chunks)
    <3>1. chunk \in Chunks
      BY DEF BodyPieces
    <3> QED
      BY <2>2, <3>1
  <2> QED
    BY <2>1, <2>2
<1>2. piece \in Seq(OutItems)
  <2>1. piece \in [1..Len(piece) -> Chunks] /\ Len(piece) \in Nat
    BY <1>1, LenProperties
  <2>2. piece \in [1..Len(piece) -> OutItems]
    BY <2>1 DEF OutItems
  <2> QED
    BY <2>1, <2>2
<1>3. Appended(bodies[id], piece) \in Bodies(Chunks)
  BY <1>1, InvParts, BodiesAreTyped DEF H3TypeOK
<1>4. /\ ~polling /\ SubmitData(id)
      /\ bodies' = [bodies EXCEPT ![id] = Appended(bodies[id], piece)]
      /\ outq' = outq \/ outq' = [outq EXCEPT ![id] = Spoiled(@)]
      /\ asks' = Resumed(id)
      /\ submitted' = [submitted EXCEPT ![id] = @ \o piece]
      /\ call' = [op |-> "data", id |-> id]
      /\ UNCHANGED <<sendFrame, quicClosed, cached, failures, hungUp>>
      /\ UNCHANGED <<h3Stream, h3In, h3Out, wire>>
  BY DEF BeginData, Idle
<1> QED
  BY <1>2, <1>3, <1>4, BeginBodyOK

\* end()
LEMMA BeginEndOK ==
  ASSUME NativeInv, NEW id \in StreamIds, BeginEnd(id)
  PROVE  NativeStepOK
<1> DEFINE more == When(~bodies[id].eof, "FIN")
<1>1. more \in Seq(OutItems)
  <2>1. <<"FIN">> \in Seq(OutItems) /\ <<>> \in Seq(OutItems)
    BY DEF OutItems
  <2> QED
    BY <2>1 DEF When
<1>2. Finished(bodies[id]) \in Bodies(Chunks)
  BY InvParts, BodiesAreTyped DEF H3TypeOK
<1>3. /\ ~polling /\ SubmitData(id)
      /\ bodies' = [bodies EXCEPT ![id] = Finished(bodies[id])]
      /\ outq' = outq
      /\ asks' = Resumed(id)
      /\ submitted' = [submitted EXCEPT ![id] = @ \o more]
      /\ call' = [op |-> "end", id |-> id]
      /\ UNCHANGED <<sendFrame, quicClosed, cached, failures, hungUp>>
      /\ UNCHANGED <<h3Stream, h3In, h3Out, wire>>
  BY DEF BeginEnd, Idle
<1> HIDE DEF more
<1> QED
  BY <1>1, <1>2, <1>3, BeginBodyOK

-----------------------------------------------------------------------------
(* flush_h3_writes() *)

\* What nghttp3 has to write is of a stream it has.
LEMMA FilledIsOpen ==
  ASSUME NativeInv, NEW id \in StreamIds
  PROVE  /\ Filled(id) \in Seq(OutItems)
         /\ Filled(id) # <<>> => h3Stream[id] = "open" /\ id \in quicStreams
<1> DEFINE asked == IF id \in asks
                    THEN Unread(bodies[id]) \o When(ReadEnds(bodies[id]), "FIN")
                    ELSE <<>>
<1>1. outq[id] \in Seq(OutItems) /\ bodies[id] \in Bodies(Chunks)
  BY InvParts DEF H3TypeOK
<1>2. asked \in Seq(OutItems)
  <2>1. Unread(bodies[id]) \in Seq(OutItems)
    <3> DEFINE bytes == Unread(bodies[id])
    <3>1. bytes \in Seq(Chunks)
      BY <1>1, BodiesAreTyped
    <3> HIDE DEF bytes
    <3>2. bytes \in [1..Len(bytes) -> Chunks] /\ Len(bytes) \in Nat
      BY <3>1, LenProperties
    <3>3. bytes \in [1..Len(bytes) -> OutItems]
      BY <3>2 DEF OutItems
    <3>4. bytes \in Seq(OutItems)
      BY <3>2, <3>3
    <3> QED
      BY <3>4 DEF bytes
  <2>2. When(ReadEnds(bodies[id]), "FIN") \in Seq(OutItems)
    <3>1. <<"FIN">> \in Seq(OutItems) /\ <<>> \in Seq(OutItems)
      BY DEF OutItems
    <3> QED
      BY <3>1 DEF When
  <2>3. Unread(bodies[id]) \o When(ReadEnds(bodies[id]), "FIN") \in Seq(OutItems)
    BY <2>1, <2>2, ConcatProperties
  <2> QED
    BY <2>3
<1>3. Filled(id) = outq[id] \o asked
  BY Zenon DEF Filled
<1>4. id \notin asks => asked = <<>>
  OBVIOUS
<1> HIDE DEF asked
<1>5. Filled(id) \in Seq(OutItems)
  BY <1>1, <1>2, <1>3, ConcatProperties
<1>6. ASSUME Filled(id) # <<>>
      PROVE  h3Stream[id] = "open" /\ id \in quicStreams
  <2>1. outq[id] # <<>> \/ id \in asks
    BY <1>3, <1>4, <1>6
  <2> QED
    BY <2>1, InvParts DEF H3Agrees, H3HoldsItsOwn
<1> QED
  BY <1>5, <1>6

\* A part of what is to be written is a sequence of it.
LEMMA PartIsTyped ==
  ASSUME NEW items \in Seq(OutItems), NEW m \in Nat, NEW n \in Nat, n <= Len(items)
  PROVE  SubSeq(items, m + 1, n) \in Seq(OutItems)
<1>1. Len(items) \in Nat
  BY LenProperties
<1>2. \A i \in m + 1..n : items[i] \in OutItems
  <2> TAKE i \in m + 1..n
  <2>1. i \in 1..Len(items)
    BY <1>1
  <2> QED
    BY <2>1
<1> QED
  BY <1>1, <1>2, SubSeqProperties

\* One turn of the loop, of which nghttp3 is told or which throws.
LEMMA TurnOK ==
  ASSUME NativeInv, NEW id \in StreamIds, call # NoCall, Filled(id) # <<>>,
         NEW n \in Nat, n <= Len(Filled(id)), Written(id, n), flushFrame' = flushFrame,
         NEW items \in Seq(OutItems),
         UNCHANGED wire \/ wire' = [wire EXCEPT ![id] = @ \o items],
         cached' = cached \/ cached' = cached \cup {id},
         call' = call \/ call' = NoCall, failures' \in 0..MaxFailures,
         FinishQuicStream(id) \/ UNCHANGED <<quicClosed, hungUp>>
  PROVE  NativeStepOK
<1>1. h3Stream[id] = "open" /\ id \in quicStreams /\ Filled(id) \in Seq(OutItems)
  BY FilledIsOpen
<1>2. /\ UNCHANGED connectionVars /\ UNCHANGED <<streamStateVars, handleVars, polling>>
      /\ UNCHANGED <<quicStreams, unread, quicEvents, batch, quicHistory, feed, refused>>
      /\ UNCHANGED <<h3Stream, h3In, submitted>>
  BY DEF flushFrame, sendFrame, connectionVars
<1>3. ~polling
  BY InvParts DEF H3Agrees, OneCallAtATime
<1>4. ConnectionStepOK
  <2>1. polling' \in BOOLEAN
    BY <1>2, InvParts DEF ConnectionTypeOK
  <2> QED
    BY <1>2, <2>1, InvParts, QuietStep DEF connectionVars
<1>5. QuicStepOK
  <2>1. unread' \in [StreamIds -> Seq(Chunks)]
    BY <1>2, InvParts DEF QuicTypeOK
  <2>2. known' \subseteq quicStreams /\ cached' \subseteq quicStreams
    BY <1>1, <1>2, InvParts DEF streamStateVars
  <2>3. /\ quicClosed' \subseteq quicStreams /\ hungUp' \subseteq quicStreams
        /\ quicClosed' \subseteq MayBeClosed'
    BY <1>1, <1>2, InvParts DEF FinishQuicStream, ClosedWith, MayBeClosed, quicHistory
  <2> QED
    BY <1>2, <2>1, <2>2, <2>3, InvParts, QuicKept
<1>6. /\ outq' = [outq EXCEPT ![id] = SubSeq(Filled(id), n + 1, Len(Filled(id)))]
      /\ bodies' = bodies \/ bodies' = [bodies EXCEPT ![id] = AllRead(@)]
      /\ asks' \subseteq asks
      /\ h3Out' = h3Out \/ h3Out' = [h3Out EXCEPT ![id] = "whole"]
  <2>1. /\ outq' = [outq EXCEPT ![id] = SubSeq(Filled(id), n + 1, Len(Filled(id)))]
        /\ bodies' = bodies \/ bodies' = [bodies EXCEPT ![id] = AllRead(@)]
        /\ asks' \subseteq asks
    BY DEF Written
  <2>2. h3Out' = [h3Out EXCEPT ![id] = IF id \in asks /\ bodies[id].eof THEN "whole" ELSE @]
    BY DEF Written
  <2>3. h3Out \in [StreamIds -> Progress]
    BY InvParts DEF H3TypeOK
  <2>4. CASE id \in asks /\ bodies[id].eof
    BY <2>1, <2>2, <2>4
  <2>5. CASE ~(id \in asks /\ bodies[id].eof)
    BY <2>1, <2>2, <2>3, <2>5
  <2> QED
    BY <2>4, <2>5
<1>7. H3TypeOK'
  <2>1. outq' \in [StreamIds -> Seq(OutItems)]
    <3>1. Len(Filled(id)) \in Nat
      BY <1>1, LenProperties
    <3>2. SubSeq(Filled(id), n + 1, Len(Filled(id))) \in Seq(OutItems)
      BY <1>1, <3>1, PartIsTyped
    <3> QED
      BY <1>6, <3>2, InvParts DEF H3TypeOK
  <2>2. bodies' \in [StreamIds -> Bodies(Chunks)]
    <3>1. bodies \in [StreamIds -> Bodies(Chunks)]
      BY InvParts DEF H3TypeOK
    <3>2. AllRead(bodies[id]) \in Bodies(Chunks)
      BY <3>1, BodiesAreTyped
    <3> QED
      BY <1>6, <3>1, <3>2
  <2>3. wire' \in [StreamIds -> Seq(OutItems)]
    <3>1. wire \in [StreamIds -> Seq(OutItems)]
      BY InvParts DEF H3TypeOK
    <3>2. wire[id] \o items \in Seq(OutItems)
      BY <3>1, ConcatProperties
    <3> QED
      BY <3>1, <3>2
  <2>4. h3Out' \in [StreamIds -> Progress]
    BY <1>6, InvParts DEF H3TypeOK, Progress
  <2>5. call' \in [op : {"none", "headers", "data", "end"}, id : StreamIds \cup {NoStream}]
    BY InvParts DEF H3TypeOK, NoCall
  <2>6. asks' \subseteq StreamIds
    BY <1>6, InvParts DEF H3TypeOK
  <2> QED
    BY <1>2, <2>1, <2>2, <2>3, <2>4, <2>5, <2>6, InvParts DEF H3TypeOK
<1>8. H3StepOK
  <2>1. \A s \in StreamIds : s # id => outq'[s] = outq[s] /\ bodies'[s] = bodies[s]
    BY <1>6, InvParts DEF H3TypeOK
  <2>2. \A s \in StreamIds : h3Stream'[s] = "open" => s \in quicStreams
    BY <1>2, InvParts DEF H3Agrees, H3HoldsItsOwn
  <2>3. \A s \in StreamIds :
           outq'[s] # <<>> \/ s \in asks' \/ bodies'[s] # NewBody => h3Stream'[s] = "open"
    BY <1>1, <1>2, <1>6, <2>1, InvParts DEF H3Agrees, H3HoldsItsOwn
  <2>4. \A s \in terminal : bodies'[s] = NewBody
    <3>1. terminal \subseteq StreamIds /\ bodies \in [StreamIds -> Bodies(Chunks)]
      BY InvParts DEF ConnectionTypeOK, H3TypeOK
    <3>2. id \in terminal => bodies'[id] = NewBody
      BY <1>6, <3>1, InvParts, BodiesAreTyped DEF H3Agrees, EndedHasNoBody
    <3> QED
      BY <2>1, <3>1, <3>2, InvParts DEF H3Agrees, EndedHasNoBody
  <2>5. \A s \in headersSubmitted' \ closed' : h3Stream'[s] = "open"
    BY <1>2, InvParts DEF handleVars, H3Agrees, SendersAreInH3
  <2>6. call'.op = "headers" => h3Stream'[call'.id] = "open"
    BY <1>2, InvParts DEF H3Agrees, SendersAreInH3, NoCall
  <2> QED
    BY <1>2, <1>3, <1>7, <2>2, <2>3, <2>4, <2>5, <2>6, H3Sends
<1> QED
  BY <1>4, <1>5, <1>8 DEF NativeStepOK

\* A turn that writes.
LEMMA FlushWriteOK ==
  ASSUME NativeInv, NEW id \in StreamIds, FlushWrite(id)
  PROVE  NativeStepOK
<1>1. PICK n \in 1..Len(Filled(id)) :
         /\ Written(id, n)
         /\ WriteQuicStream(id, SubSeq(Filled(id), 1, n))
         /\ FinishQuicStream(id) \/ UNCHANGED <<quicClosed, hungUp>>
  BY DEF FlushWrite
<1>2. /\ call # NoCall /\ call' = call /\ failures' = failures
      /\ flushFrame' = flushFrame
  BY DEF FlushWrite
<1>3. Filled(id) \in Seq(OutItems)
  BY FilledIsOpen
<1>4. n \in Nat /\ n <= Len(Filled(id)) /\ Filled(id) # <<>>
  BY <1>1, <1>3, LenProperties
<1>5. SubSeq(Filled(id), 1, n) \in Seq(OutItems)
  <2>1. SubSeq(Filled(id), 0 + 1, n) \in Seq(OutItems)
    BY <1>3, <1>4, PartIsTyped
  <2> QED
    BY <2>1
<1>6. /\ wire' = [wire EXCEPT ![id] = @ \o SubSeq(Filled(id), 1, n)]
      /\ cached' = cached \cup {id}
  BY <1>1 DEF WriteQuicStream
<1>7. failures' \in 0..MaxFailures
  BY <1>2, InvParts DEF QuicTypeOK
<1> QED
  BY <1>1, <1>2, <1>4, <1>5, <1>6, <1>7, TurnOK

\* A turn that throws.
LEMMA FlushThrowsOK ==
  ASSUME NativeInv, NEW id \in StreamIds, FlushThrows(id)
  PROVE  NativeStepOK
<1> DEFINE last == Len(Filled(id)) - 1
<1>1. /\ call # NoCall /\ call' = NoCall /\ Filled(id) # <<>> /\ Written(id, 0)
      /\ flushFrame' = flushFrame /\ UNCHANGED <<quicClosed, hungUp>>
      /\ cached' = cached \/ cached' = cached \cup {id}
      /\ UNCHANGED wire \/ wire' = [wire EXCEPT ![id] = @ \o SubSeq(Filled(id), 1, last)]
  BY DEF FlushThrows
<1>2. Filled(id) \in Seq(OutItems)
  BY FilledIsOpen
<1>3. last \in Nat /\ last <= Len(Filled(id)) /\ 0 <= Len(Filled(id))
  BY <1>1, <1>2, EmptySeq, LenProperties
<1> HIDE DEF last
<1>4. SubSeq(Filled(id), 1, last) \in Seq(OutItems)
  <2>1. SubSeq(Filled(id), 0 + 1, last) \in Seq(OutItems)
    BY <1>2, <1>3, PartIsTyped
  <2> QED
    BY <2>1
<1>5. failures' \in 0..MaxFailures
  BY InvParts, MaxFailuresAssumption DEF FlushThrows, QuicTypeOK
<1> QED
  BY <1>1, <1>3, <1>4, <1>5, TurnOK

\* The loop is done and the method succeeds.
LEMMA FlushReturnsOK ==
  ASSUME NativeInv, FlushReturns
  PROVE  NativeStepOK
<1> DEFINE id == call.id
<1>1. /\ call # NoCall /\ call' = NoCall /\ asks' = {}
      /\ UNCHANGED <<quicStreams, unread, quicClosed, quicEvents, batch, cached, quicHistory,
                     failures, hungUp, feed, refused>>
      /\ UNCHANGED <<h3Stream, h3In, h3Out, outq, bodies, submitted, wire>>
  BY DEF FlushReturns, quicVars
<1>2. \/ call.op = "headers" /\ SubmitHeaders(id)
      \/ SubmitData(id) \/ End(id)
  BY DEF FlushReturns
<1> HIDE DEF id
<1>3. id \in handles /\ id \in known /\ id \in StreamIds
  BY <1>2, InvParts DEF SubmitHeaders, SubmitData, End, ConnectionTypeOK
<1>4. ConnectionStepOK
  BY <1>2, <1>3, InvParts, MethodStep
<1>5. /\ UNCHANGED <<streamStateVars, polling>> /\ ~polling
      /\ \/ closed \subseteq closed' /\ headersSubmitted' = headersSubmitted
         \/ /\ call.op = "headers" /\ closed' = closed
            /\ headersSubmitted' = headersSubmitted \cup {id}
  <2>1. CASE call.op = "headers" /\ SubmitHeaders(id)
    BY <2>1 DEF SubmitHeaders
  <2>2. CASE SubmitData(id)
    <3>1. UNCHANGED connectionVars /\ ~polling
      BY <2>2 DEF SubmitData
    <3>2. UNCHANGED <<streamStateVars, handleVars>> /\ polling' = polling
      BY <3>1, Zenon DEF connectionVars
    <3> QED
      BY <3>1, <3>2 DEF handleVars
  <2>3. CASE End(id)
    BY <2>3 DEF End
  <2> QED
    BY <1>2, <2>1, <2>2, <2>3
<1>6. QuicStepOK
  <2>1. unread' \in [StreamIds -> Seq(Chunks)] /\ failures' \in 0..MaxFailures
    BY <1>1, InvParts DEF QuicTypeOK
  <2>2. known' \subseteq quicStreams
    BY <1>5, InvParts DEF streamStateVars
  <2> QED
    BY <1>1, <2>1, <2>2, InvParts, QuicKept DEF MayBeClosed, quicHistory
<1>7. H3StepOK
  <2>1. H3TypeOK'
    <3>1. call' \in [op : {"none", "headers", "data", "end"}, id : StreamIds \cup {NoStream}]
      BY <1>1 DEF NoCall
    <3> QED
      BY <1>1, <3>1, InvParts DEF H3TypeOK
  <2>2. \A s \in StreamIds : h3Stream'[s] = "open" => s \in quicStreams
    BY <1>1, InvParts DEF H3Agrees, H3HoldsItsOwn
  <2>3. \A s \in StreamIds :
           outq'[s] # <<>> \/ s \in asks' \/ bodies'[s] # NewBody => h3Stream'[s] = "open"
    BY <1>1, InvParts DEF H3Agrees, H3HoldsItsOwn
  <2>4. \A s \in terminal : bodies'[s] = NewBody
    BY <1>1, InvParts DEF H3Agrees, EndedHasNoBody
  <2>5. \A s \in headersSubmitted' \ closed' : h3Stream'[s] = "open"
    BY <1>1, <1>5, InvParts DEF H3Agrees, SendersAreInH3, id
  <2>6. call'.op # "headers"
    BY <1>1 DEF NoCall
  <2> QED
    BY <1>1, <1>5, <2>1, <2>2, <2>3, <2>4, <2>5, <2>6, H3Sends
<1> QED
  BY <1>4, <1>6, <1>7 DEF NativeStepOK

-----------------------------------------------------------------------------
(* reset() *)

\* reset(), whether or not QUIC takes it.
LEMMA NativeResetOK ==
  ASSUME NativeInv, NEW id \in StreamIds, NEW code \in ErrorCodes,
         NativeReset(id, code) \/ ResetThrows(id, code)
  PROVE  NativeStepOK
<1>1. Idle /\ id \in handles /\ cached' = cached \cup {id} /\ resetFrame' = resetFrame
  BY DEF NativeReset, ResetThrows
<1>2. /\ ~polling /\ call = NoCall /\ ~Parsing
      /\ id \in known /\ id \in quicStreams /\ known \subseteq quicStreams
  BY <1>1, InvParts DEF Idle, H3Agrees, OneCallAtATime, ConnectionTypeOK
<1>3. /\ UNCHANGED <<lifecycleVars, handles, headersSubmitted, localEnded, delivered, polling>>
      /\ UNCHANGED <<quicStreams, unread, quicEvents, batch, quicHistory>>
      /\ UNCHANGED <<feed, call, submitted, wire, refused>>
  BY <1>1 DEF resetFrame
<1>4. /\ \/ quicClosed' = ClosedWith(id, id \in peerDone) /\ hungUp' = hungUp \cup {id}
         \/ UNCHANGED <<quicClosed, hungUp>>
      /\ failures' \in 0..MaxFailures
  BY InvParts, MaxFailuresAssumption DEF NativeReset, ResetThrows, QuicTypeOK
<1>5. \/ CloseInH3(id, code)
      \/ /\ closed' = closed \cup {id} \/ closed' = closed
         /\ UNCHANGED <<streamStateVars, eventQueue, h3Vars, bodies>>
  BY DEF NativeReset, ResetThrows, ResetInH3
<1>6. ASSUME known' \subseteq quicStreams
      PROVE  QuicStepOK
  <2>1. unread' \in [StreamIds -> Seq(Chunks)] /\ cached' \subseteq quicStreams
    BY <1>1, <1>2, <1>3, InvParts DEF QuicTypeOK
  <2>2. /\ quicClosed' \subseteq quicStreams /\ hungUp' \subseteq quicStreams
        /\ quicClosed' \subseteq MayBeClosed'
    BY <1>2, <1>3, <1>4, InvParts DEF ClosedWith, MayBeClosed, quicHistory
  <2> QED
    BY <1>3, <1>4, <1>6, <2>1, <2>2, InvParts, QuicKept
<1>7. CASE CloseInH3(id, code)
  <2>1. ConnectionStepOK /\ H3StepOK /\ known' \subseteq known \cup {id}
    BY <1>2, <1>3, <1>7, ClosedInH3 DEF Parsing
  <2>2. known' \subseteq quicStreams
    BY <1>2, <2>1
  <2> QED
    BY <1>6, <2>1, <2>2 DEF NativeStepOK
<1>8. CASE /\ closed' = closed \cup {id} \/ closed' = closed
           /\ UNCHANGED <<streamStateVars, eventQueue, h3Vars, bodies>>
  <2>1. ConnectionStepOK
    <3>1. CASE closed' = closed \cup {id}
      <4>1. Reset(id)
        BY <1>1, <1>2, <1>3, <1>8, <3>1 DEF Reset, eventVars
      <4> QED
        BY <4>1, InvParts, MethodStep
    <3>2. CASE closed' = closed
      <4>1. polling' \in BOOLEAN
        BY <1>3, InvParts DEF ConnectionTypeOK
      <4>2. UNCHANGED <<lifecycleVars, streamStateVars, handleVars, eventVars>>
        BY <1>3, <1>8, <3>2 DEF handleVars, eventVars
      <4> QED
        BY <4>1, <4>2, InvParts, QuietStep
    <3> QED
      BY <1>8, <3>1, <3>2
  <2>2. H3StepOK
    BY <1>2, <1>3, <1>8, InvParts, H3Kept DEF nativeVars, streamStateVars
  <2>3. known' \subseteq quicStreams
    BY <1>2, <1>8 DEF streamStateVars
  <2> QED
    BY <1>6, <2>1, <2>2, <2>3 DEF NativeStepOK
<1> QED
  BY <1>5, <1>7, <1>8

-----------------------------------------------------------------------------
(* The theorems *)

\* A new connection satisfies the invariant.
LEMMA NativeInitInv == NativeInit => NativeInv
<1> SUFFICES ASSUME NativeInit
             PROVE  NativeInv
  OBVIOUS
<1>1. Inv /\ Init
  BY InitInv DEF NativeInit
<1>2. H3TypeOK
  <2>1. NewBody \in Bodies(Chunks)
    BY BodiesAreTyped
  <2>2. bodies \in [StreamIds -> Bodies(Chunks)]
    BY <2>1 DEF NativeInit
  <2>3. /\ outq \in [StreamIds -> Seq(OutItems)]
        /\ submitted \in [StreamIds -> Seq(OutItems)]
        /\ wire \in [StreamIds -> Seq(OutItems)]
    BY DEF NativeInit
  <2>4. feed \in [id : StreamIds \cup {NoStream}, data : Seq(Chunks), fin : BOOLEAN]
    BY DEF NativeInit, NoFeed
  <2>5. call \in [op : {"none", "headers", "data", "end"}, id : StreamIds \cup {NoStream}]
    BY DEF NativeInit, NoCall
  <2>6. /\ h3Stream \in [StreamIds -> {"none", "open", "closed"}]
        /\ h3In \in [StreamIds -> Progress] /\ h3Out \in [StreamIds -> Progress]
        /\ asks \subseteq StreamIds /\ refused \in BOOLEAN
    BY DEF NativeInit, Progress
  <2> QED
    BY <2>2, <2>3, <2>4, <2>5, <2>6 DEF H3TypeOK
<1>3. H3Agrees
  <2>1. OneCallAtATime /\ EndedHasNoBody
    BY <1>1 DEF NativeInit, Init, ConnectionInit, OneCallAtATime, EndedHasNoBody, Parsing
  <2>2. H3HoldsItsOwn /\ HeardIsTold
    BY DEF NativeInit, H3HoldsItsOwn, HeardIsTold
  <2>3. SendersAreInH3
    BY <1>1 DEF NativeInit, Init, ConnectionInit, SendersAreInH3, NoCall
  <2> QED
    BY <2>1, <2>2, <2>3 DEF H3Agrees
<1> QED
  BY <1>1, <1>2, <1>3 DEF NativeInv, NativeTypeOK, Inv, TablesAgree

\* Every step of the program keeps the parts of the invariant and is one the
\* contract allows.
LEMMA NativeNextOK ==
  ASSUME NativeInv, NativeNext
  PROVE  NativeStepOK
<1>1. CASE NativeStreamCall
  <2>1. PICK id \in StreamIds :
           \/ BeginHeaders(id)
           \/ HeadersRefused(id)
           \/ \E piece \in {<<>>} \cup {<<chunk>> : chunk \in BodyPieces} : BeginData(id, piece)
           \/ BeginEnd(id)
           \/ \E code \in ErrorCodes : NativeReset(id, code) \/ ResetThrows(id, code)
    BY <1>1 DEF NativeStreamCall
  <2> QED
    BY <2>1, BeginHeadersOK, HeadersRefusedOK, BeginDataOK, BeginEndOK, NativeResetOK
<1>2. CASE Flush
  BY <1>2, FlushWriteOK, FlushThrowsOK, FlushReturnsOK DEF Flush
<1> QED
  BY <1>1, <1>2, NativeArrivalOK, NativeConnectionCallOK, NativePollOK DEF NativeNext

\* The invariant is inductive.
LEMMA NativeStepInv == NativeInv /\ [NativeNext]_allVars => NativeInv'
<1>1. ASSUME NativeInv, NativeNext
      PROVE  NativeInv'
  BY <1>1, NativeNextOK
     DEF NativeStepOK, ConnectionStepOK, QuicStepOK, H3StepOK, NativeInv, NativeTypeOK, TypeOK
<1>2. ASSUME NativeInv, UNCHANGED allVars
      PROVE  NativeInv'
  <2>1. UNCHANGED vars /\ UNCHANGED nativeVars
    BY <1>2 DEF allVars
  <2>2. TypeOK' /\ FreshIds' /\ EndsAreReal'
    BY <1>2, <2>1, InvParts, StepTyped, StepIsReal
  <2>3. H3StepOK
    <3>1. /\ UNCHANGED <<streamStateVars, handleVars, quicStreams>>
          /\ polling' = polling
      BY <2>1, Zenon DEF vars, connectionVars, quicVars
    <3>2. (polling' => call = NoCall) /\ (Parsing => polling')
      BY <1>2, <3>1, InvParts DEF H3Agrees, OneCallAtATime
    <3> QED
      BY <1>2, <2>1, <3>1, <3>2, InvParts, H3Kept DEF streamStateVars, handleVars
  <2>4. TablesAgree'
    <3>1. polling' \in BOOLEAN
      BY <2>2 DEF TypeOK, ConnectionTypeOK
    <3>2. UNCHANGED <<lifecycleVars, streamStateVars, handleVars, eventVars>>
      BY <2>1 DEF vars, connectionVars
    <3>3. ConnectionStepOK
      BY <1>2, <3>1, <3>2, InvParts, QuietStep
    <3> QED
      BY <3>3 DEF ConnectionStepOK
  <2> QED
    BY <2>2, <2>3, <2>4 DEF H3StepOK, NativeInv, NativeTypeOK
<1> QED
  BY <1>1, <1>2

\* The inductive invariant of the connection over nghttp3 holds throughout.
THEOREM NativeInvariance == NativeSpec => []NativeInv
BY NativeInitInv, NativeStepInv, PTL DEF NativeSpec

\* The connection, QUIC's side, nghttp3's side and the bodies stay within their
\* types: nghttp3 is fed a stream that QUIC has, and a body's read position stays
\* inside its buffer.
THEOREM NativeTypeCorrect == NativeSpec => []NativeTypeOK
<1>1. NativeInv => NativeTypeOK
  BY DEF NativeInv
<1> QED
  BY <1>1, NativeInvariance, PTL

\* A stream that has ended holds no outgoing body, whatever is submitted, flushed
\* or reset afterwards: emit_terminal_once() frees it and nothing makes a new one.
THEOREM EndedBodiesFreed == NativeSpec => []EndedHasNoBody
<1>1. NativeInv => EndedHasNoBody
  BY DEF NativeInv, H3Agrees
<1> QED
  BY <1>1, NativeInvariance, PTL

\* The callbacks of nghttp3, the QUIC signals behind them and the application's
\* own calls keep the native contract, whichever of them throws and whatever
\* nghttp3 refuses.
THEOREM NativeRefinement == NativeSpec => ImplementsNativeContract
<1>1. NativeInit => NativePromise!ContractInit
  <2> SUFFICES ASSUME NativeInit
               PROVE  NativePromise!ContractInit
    OBVIOUS
  <2>1. Contract!ContractInit
    BY ConnectionInitRefines DEF NativeInit, Init
  <2> QED
    BY <2>1 DEF Contract!ContractInit, NativePromise!ContractInit, History
<1>2. NativeInv /\ [NativeNext]_allVars
      => [NativePromise!NativeContractNext]_(NativePromise!contractVars)
  <2>1. ASSUME NativeInv, NativeNext
        PROVE  [NativePromise!NativeContractNext]_(NativePromise!contractVars)
    BY <2>1, NativeNextOK DEF NativeStepOK, ConnectionStepOK
  <2>2. ASSUME UNCHANGED allVars
        PROVE  [NativePromise!NativeContractNext]_(NativePromise!contractVars)
    <3>1. UNCHANGED <<closing, terminal, remoteHeaders, eventVars>>
      BY <2>2 DEF allVars, vars, connectionVars, lifecycleVars, streamStateVars
    <3>2. UNCHANGED Contract!contractVars
      BY <3>1, OtherwiseStutter
    <3> QED
      BY <3>2, ContractStepIsNative
  <2> QED
    BY <2>1, <2>2
<1> QED
  BY <1>1, <1>2, NativeInvariance, PTL
     DEF NativeSpec, ImplementsNativeContract, NativePromise!NativeContractSpec

\* The application sees one terminal event of a stream and nothing of it after,
\* its data only after its headers, and one GOAWAY.
THEOREM NativeOrder ==
  NativeSpec => [](/\ NativePromise!StreamOrder
                   /\ NativePromise!DataAfterHeaders
                   /\ NativePromise!GoawayOnce)
<1>1. NativePromise!ContractInit => ContractProofs!ContractInit
  BY DEF NativePromise!ContractInit, ContractProofs!ContractInit, History
<1>2. [NativePromise!NativeContractNext]_(NativePromise!contractVars)
      => [ContractProofs!NativeContractNext]_(ContractProofs!contractVars)
  BY DEF NativePromise!NativeContractNext, NativePromise!ContractNext,
         NativePromise!contractVars, NativePromise!Receive, NativePromise!Abandon,
         NativePromise!GoAway, NativePromise!CloseLocally, NativePromise!CompleteUnheard,
         NativePromise!ReadableEvents, NativePromise!When, NativePromise!HeadersReceived,
         NativePromise!DataReceived, NativePromise!RequestCompleted,
         NativePromise!StreamReset, NativePromise!GoawayReceived, NativePromise!NoStream,
         NativePromise!Payloads, ContractProofs!NativeContractNext,
         ContractProofs!ContractNext, ContractProofs!contractVars,
         ContractProofs!Receive, ContractProofs!Abandon,
         ContractProofs!GoAway, ContractProofs!CloseLocally,
         ContractProofs!CompleteUnheard, ContractProofs!ReadableEvents,
         ContractProofs!When, ContractProofs!HeadersReceived,
         ContractProofs!DataReceived, ContractProofs!RequestCompleted,
         ContractProofs!StreamReset, ContractProofs!GoawayReceived,
         ContractProofs!NoStream, ContractProofs!Payloads, History
<1>3. /\ ContractProofs!StreamOrder
      /\ ContractProofs!DataAfterHeaders
      /\ ContractProofs!GoawayOnce
      => /\ NativePromise!StreamOrder
         /\ NativePromise!DataAfterHeaders
         /\ NativePromise!GoawayOnce
  BY DEF NativePromise!StreamOrder, NativePromise!DataAfterHeaders, NativePromise!GoawayOnce,
         NativePromise!TerminalTypes, NativePromise!NoStream,
         ContractProofs!StreamOrder, ContractProofs!DataAfterHeaders,
         ContractProofs!GoawayOnce, ContractProofs!TerminalTypes,
         ContractProofs!NoStream, History
<1>4. ImplementsNativeContract => ContractProofs!NativeContractSpec
  BY <1>1, <1>2, PTL
     DEF ImplementsNativeContract, NativePromise!NativeContractSpec,
         ContractProofs!NativeContractSpec
<1>5. ContractProofs!NativeContractSpec
      => [](ContractProofs!StreamOrder /\ ContractProofs!DataAfterHeaders
            /\ ContractProofs!GoawayOnce)
  BY StreamIdsAssumption, ErrorCodesAssumption, MaxPayloadAssumption,
     ContractProofs!NativeContractOrder
<1> QED
  BY <1>3, <1>4, <1>5, NativeRefinement, PTL

-----------------------------------------------------------------------------
(* Completion is earned *)

\* nghttp3 comes to the end of a message only on a stream that isClosed() called
\* closed, and somebody ended that.
FedEndIsReal ==
    Parsing => /\ feed.data = <<>> => feed.fin
               /\ feed.fin => feed.id \in peerDone \cup hungUp

EarnedInv == FedEndIsReal /\ NativeCompletionIsEarned

\* A step that completes only streams that somebody ended, unless it throws, keeps
\* completion earned.
LEMMA EarnedKept ==
  ASSUME EarnedInv, peerDone \subseteq peerDone', hungUp \subseteq hungUp', FedEndIsReal',
         failures' = 0 =>
            failures = 0 /\ remoteEnded' \subseteq remoteEnded \cup peerDone \cup hungUp'
  PROVE  EarnedInv'
BY DEF EarnedInv, NativeCompletionIsEarned

\* A feed that stays, or is dropped, still ends where it did.
LEMMA FeedKept ==
  ASSUME FedEndIsReal, peerDone \subseteq peerDone', hungUp \subseteq hungUp',
         feed' = feed \/ feed' = NoFeed
  PROVE  FedEndIsReal'
BY DEF FedEndIsReal, Parsing

\* Which streams a callback that ends one completes.
LEMMA TerminalCompletes ==
  ASSUME NEW id, NEW event, EmitTerminalOnce(id, event)
  PROVE  /\ remoteEnded' \subseteq remoteEnded \cup {id}
         /\ event.type = "StreamReset" => remoteEnded' = remoteEnded
BY DEF EmitTerminalOnce

\* What arrives from QUIC completes nothing yet.
LEMMA ArrivalEarned ==
  ASSUME NativeInv, EarnedInv, NativeArrival
  PROVE  EarnedInv'
<1>1. /\ UNCHANGED nativeVars
      /\ UNCHANGED <<connectionVars, failures, hungUp>>
      /\ peerDone \subseteq peerDone'
  BY DEF NativeArrival, PeerSends, PeerResets, QuicCloses, ConnectionEnds, QuicEventArrives
<1>2. feed' = feed /\ remoteEnded' = remoteEnded
  BY <1>1, Zenon DEF nativeVars, connectionVars, streamStateVars
<1>3. FedEndIsReal'
  BY <1>1, <1>2, FeedKept DEF EarnedInv
<1> QED
  BY <1>1, <1>2, <1>3, EarnedKept

\* The methods of the connection complete nothing.
LEMMA ConnectionCallEarned ==
  ASSUME NativeInv, EarnedInv, NativeConnectionCall
  PROVE  EarnedInv'
<1>1. ConnectionCall /\ UNCHANGED nativeVars
  BY DEF NativeConnectionCall
<1>2. /\ UNCHANGED <<quicEvents, peerDone, batch, hungUp>>
      /\ remoteEnded' \subseteq remoteEnded
      /\ failures' = failures \/ failures' = failures + 1
  <2>1. ASSUME NEW id \in StreamIds,
               OpenRequestStream(id) \/ RefusedOpen(id) \/ FetchRequestStream(id)
        PROVE  /\ UNCHANGED <<quicEvents, peerDone, batch, hungUp>>
               /\ remoteEnded' \subseteq remoteEnded
               /\ failures' = failures \/ failures' = failures + 1
    BY <2>1 DEF OpenRequestStream, CreateRequestStream, RefusedOpen, FetchRequestStream,
                GetRequestStream, connectionVars, streamStateVars, quicVars, quicHistory
  <2>2. CASE CloseConnection
    BY <2>2 DEF CloseConnection, Close, streamStateVars, quicVars, quicHistory
  <2> QED
    BY <1>1, <2>1, <2>2 DEF ConnectionCall
<1>3. failures' = 0 => failures = 0
  BY <1>2, InvParts DEF QuicTypeOK
<1>4. FedEndIsReal'
  BY <1>1, <1>2, FeedKept DEF EarnedInv, nativeVars
<1> QED
  BY <1>2, <1>3, <1>4, EarnedKept

\* The methods of a request stream complete at most the stream they reset.
LEMMA NativeStreamCallEarned ==
  ASSUME NativeInv, EarnedInv, NativeStreamCall
  PROVE  EarnedInv'
<1>1. PICK id \in StreamIds :
         \/ BeginHeaders(id)
         \/ HeadersRefused(id)
         \/ \E piece \in {<<>>} \cup {<<chunk>> : chunk \in BodyPieces} : BeginData(id, piece)
         \/ BeginEnd(id)
         \/ \E code \in ErrorCodes : NativeReset(id, code) \/ ResetThrows(id, code)
  BY DEF NativeStreamCall
<1>2. failures \in Nat
  BY InvParts DEF QuicTypeOK
<1>3. ASSUME sendFrame' = sendFrame, hungUp' = hungUp,
             failures' = failures \/ failures' = failures + 1
      PROVE  EarnedInv'
  <2>1. /\ UNCHANGED <<quicEvents, peerDone, batch, feed>>
        /\ remoteEnded' = remoteEnded
    BY <1>3, Zenon DEF sendFrame, connectionVars, streamStateVars, quicHistory
  <2>2. FedEndIsReal'
    BY <1>3, <2>1, FeedKept DEF EarnedInv
  <2>3. failures' = 0 => failures = 0
    BY <1>2, <1>3
  <2> QED
    BY <1>3, <2>1, <2>2, <2>3, EarnedKept
<1>4. ASSUME NEW code \in ErrorCodes, NativeReset(id, code) \/ ResetThrows(id, code)
      PROVE  EarnedInv'
  <2>1. UNCHANGED <<quicEvents, peerDone, batch, feed>>
    BY <1>4 DEF NativeReset, ResetThrows, resetFrame, quicHistory
  <2>2. remoteEnded' \subseteq remoteEnded \cup {id}
    BY <1>4, TerminalCompletes
       DEF NativeReset, ResetThrows, ResetInH3, CloseInH3, streamStateVars
  <2>3. \/ failures' = failures /\ hungUp' = hungUp \cup {id}
        \/ failures' = failures + 1 /\ hungUp' = hungUp
    BY <1>4 DEF NativeReset, ResetThrows
  <2>4. FedEndIsReal'
    BY <2>1, <2>3, FeedKept DEF EarnedInv
  <2> QED
    BY <1>2, <2>1, <2>2, <2>3, <2>4, EarnedKept
<1> QED
  BY <1>1, <1>3, <1>4 DEF BeginHeaders, HeadersRefused, BeginData, BeginEnd

\* A flush loop completes nothing.
LEMMA FlushEarned ==
  ASSUME NativeInv, EarnedInv, Flush
  PROVE  EarnedInv'
<1>1. failures \in Nat
  BY InvParts DEF QuicTypeOK
<1>2. /\ UNCHANGED <<quicEvents, peerDone, batch, feed>>
      /\ remoteEnded' = remoteEnded /\ hungUp \subseteq hungUp'
      /\ failures' = failures \/ failures' = failures + 1
  <2>1. ASSUME NEW id \in StreamIds, FlushWrite(id) \/ FlushThrows(id)
        PROVE  /\ UNCHANGED <<quicEvents, peerDone, batch, feed>>
               /\ remoteEnded' = remoteEnded /\ hungUp \subseteq hungUp'
               /\ failures' = failures \/ failures' = failures + 1
    <3>1. flushFrame' = flushFrame
      BY <2>1 DEF FlushWrite, FlushThrows
    <3>2. UNCHANGED <<quicEvents, peerDone, batch, feed>> /\ remoteEnded' = remoteEnded
      BY <3>1, Zenon DEF flushFrame, sendFrame, connectionVars, streamStateVars, quicHistory
    <3> QED
      BY <2>1, <3>2 DEF FlushWrite, FlushThrows, FinishQuicStream
  <2>2. CASE FlushReturns
    <3>1. remoteEnded' = remoteEnded
      BY <2>2 DEF FlushReturns, SubmitHeaders, SubmitData, End, connectionVars, streamStateVars
    <3> QED
      BY <2>2, <3>1 DEF FlushReturns, quicVars, quicHistory
  <2> QED
    BY <2>1, <2>2 DEF Flush
<1>3. FedEndIsReal'
  BY <1>2, FeedKept DEF EarnedInv
<1>4. failures' = 0 => failures = 0
  BY <1>1, <1>2
<1> QED
  BY <1>2, <1>3, <1>4, EarnedKept

\* The callbacks complete a stream at the end of its message, which somebody
\* ended.
LEMMA ParseEarned ==
  ASSUME NativeInv, EarnedInv, Parse
  PROVE  EarnedInv'
<1>1. /\ Parsing /\ UNCHANGED <<quicEvents, peerDone, batch, hungUp, failures>>
      /\ feed' = IF feed.data = <<>> THEN NoFeed ELSE Feed(feed.id, Tail(feed.data), feed.fin)
  BY DEF Parse, pollFrame, quicHistory
<1>2. remoteEnded' \subseteq remoteEnded \cup peerDone \cup hungUp
  <2>1. CASE ParseHeaders \/ ParseData
    BY <2>1 DEF ParseHeaders, ParseData
  <2>2. CASE ParseEnd
    <3>1. feed.id \in peerDone \cup hungUp
      BY <1>1, <2>2 DEF ParseEnd, EarnedInv, FedEndIsReal
    <3>2. remoteEnded' \subseteq remoteEnded \cup {feed.id}
      BY <2>2, TerminalCompletes DEF ParseEnd
    <3> QED
      BY <3>1, <3>2
  <2> QED
    BY <2>1, <2>2 DEF Parse
<1>3. FedEndIsReal'
  BY <1>1 DEF EarnedInv, FedEndIsReal, Feed, Parsing
<1> QED
  BY <1>1, <1>2, <1>3, EarnedKept

\* STREAM_CLOSED and STREAM_RESET complete streams the peer or QUIC ended.
LEMMA ConsumeEarned ==
  ASSUME NativeInv, EarnedInv, ConsumeNativeEvent
  PROVE  EarnedInv'
<1> DEFINE event == Head(batch)
<1>1. /\ batch # <<>> /\ batch' = Tail(batch)
      /\ UNCHANGED <<quicEvents, peerDone, hungUp, failures, feed>>
  BY DEF ConsumeNativeEvent, quicVars, quicHistory
<1>2. event.type \in {"STREAM_CLOSED", "STREAM_RESET"} => event.streamId \in peerDone
  BY <1>1, InvParts, HeadIsTyped DEF EndTypes
<1> HIDE DEF event
<1>3. remoteEnded' \subseteq remoteEnded \cup peerDone
  <2>1. CASE EndInH3
    <3>1. remoteEnded' \subseteq remoteEnded \cup {event.streamId}
      BY <2>1, TerminalCompletes DEF EndInH3, CloseInH3, event
    <3>2. event.type \in {"STREAM_CLOSED", "STREAM_RESET"}
      BY <2>1 DEF EndInH3, event
    <3> QED
      BY <1>2, <3>1, <3>2
  <2>2. CASE EndOutsideH3
    <3>1. \/ event.type = "STREAM_CLOSED" /\ ConsumeReadable(event.streamId, <<>>, TRUE)
          \/ ConsumeReset(event.streamId, event.errorCode)
      BY <2>2 DEF EndOutsideH3, event
    <3> QED
      BY <1>2, <3>1 DEF ConsumeReadable, ConsumeLateReadable, ConsumeLiveReadable, ConsumeReset,
                        ConsumeLateReset, ConsumeLiveReset, streamStateVars
  <2>3. CASE ClosingOutsideH3
    BY <2>3 DEF ClosingOutsideH3, ConsumeClosing, ConsumeFirstClosing, ConsumeLaterClosing,
                ConsumeLateClosing, streamStateVars
  <2> QED
    BY <2>1, <2>2, <2>3 DEF ConsumeNativeEvent
<1>4. FedEndIsReal'
  BY <1>1, FeedKept DEF EarnedInv
<1> QED
  BY <1>1, <1>3, <1>4, EarnedKept

\* Every step of pollEvents() keeps completion earned.
LEMMA PollEarned ==
  ASSUME NativeInv, EarnedInv, NativePoll
  PROVE  EarnedInv'
<1>1. CASE DrainEvents /\ UNCHANGED nativeVars
  <2>1. /\ batch' = quicEvents /\ quicEvents' = <<>> /\ remoteEnded' = remoteEnded
        /\ UNCHANGED <<peerDone, hungUp, failures, feed>>
    BY <1>1 DEF DrainEvents, streamStateVars, quicHistory, nativeVars
  <2>2. FedEndIsReal'
    BY <2>1, FeedKept DEF EarnedInv
  <2> QED
    BY <2>1, <2>2, EarnedKept
<1>2. CASE ReadableToH3
  <2> DEFINE id == Head(batch).streamId
             n == ReadCount(id)
  <2>1. /\ batch # <<>> /\ remoteEnded' = remoteEnded
        /\ UNCHANGED <<quicEvents, peerDone, hungUp, failures>>
        /\ batch' = Tail(batch) \/ batch' = <<>>
        /\ feed' = FeedOf(id, n) \/ feed' = NoFeed
    BY <1>2 DEF ReadableToH3, FeedH3, ThrowFromPoll, streamStateVars, quicHistory
  <2>2. id \in quicClosed => id \in peerDone \cup hungUp
    BY InvParts DEF MayBeClosed
  <2> HIDE DEF id, n
  <2>3. FedEndIsReal'
    <3> DEFINE data == SubSeq(unread[id], 1, n)
               fin == id \in quicClosed
    <3>1. feed' = NoFeed \/ feed' = Feed(id, data, fin)
      BY <2>1 DEF FeedOf
    <3>2. fin => id \in peerDone' \cup hungUp'
      BY <2>1, <2>2
    <3> HIDE DEF data, fin
    <3>3. CASE feed' = NoFeed
      BY <3>3 DEF FedEndIsReal, Parsing
    <3>4. CASE feed' = [id |-> id, data |-> data, fin |-> fin] /\ ~(data = <<>> /\ ~fin)
      BY <3>2, <3>4 DEF FedEndIsReal, Parsing
    <3> QED
      BY <3>1, <3>3, <3>4 DEF Feed
  <2> QED
    BY <2>1, <2>3, EarnedKept
<1>3. CASE ParseReject
  <2>1. /\ UNCHANGED <<quicEvents, peerDone>> /\ feed' = NoFeed
        /\ batch' = batch \/ batch' = <<>>
        /\ hungUp \subseteq hungUp'
        /\ failures' = failures \/ failures' = failures + 1
    BY <1>3 DEF ParseReject, ThrowFromPoll, pollFrame, quicHistory
  <2>2. remoteEnded' = remoteEnded
    <3>1. PICK code \in ErrorCodes \ {0} : CloseInH3(feed.id, code)
      BY <1>3 DEF ParseReject
    <3>2. CloseEvent(feed.id, code).type = "StreamReset"
      BY <3>1 DEF CloseEvent, StreamReset
    <3> QED
      BY <3>1, <3>2, TerminalCompletes DEF CloseInH3
  <2>3. FedEndIsReal'
    BY <2>1, FeedKept DEF EarnedInv
  <2>4. failures' = 0 => failures = 0
    BY <2>1, InvParts DEF QuicTypeOK
  <2> QED
    BY <2>1, <2>2, <2>3, <2>4, EarnedKept
<1>4. CASE ParseFails
  <2>1. /\ UNCHANGED <<quicEvents, peerDone, hungUp, failures>> /\ remoteEnded' = remoteEnded
        /\ batch' = <<>> /\ feed' = NoFeed
    BY <1>4 DEF ParseFails, ThrowFromPoll, pollFrame, streamStateVars, quicHistory
  <2>2. FedEndIsReal'
    BY <2>1, FeedKept DEF EarnedInv
  <2> QED
    BY <2>1, <2>2, EarnedKept
<1>5. CASE (AbortPoll \/ PollReturn) /\ UNCHANGED nativeVars
  <2>1. /\ UNCHANGED <<quicEvents, peerDone, hungUp, feed>> /\ remoteEnded' = remoteEnded
        /\ batch' = batch \/ batch' = <<>>
        /\ failures' = failures \/ failures' = failures + 1
    BY <1>5 DEF AbortPoll, PollReturn, ReturnEvents, streamStateVars, quicVars, quicHistory,
                nativeVars
  <2>2. FedEndIsReal'
    BY <2>1, FeedKept DEF EarnedInv
  <2>3. failures' = 0 => failures = 0
    BY <2>1, InvParts DEF QuicTypeOK
  <2> QED
    BY <2>1, <2>2, <2>3, EarnedKept
<1> QED
  BY <1>1, <1>2, <1>3, <1>4, <1>5, ParseEarned, ConsumeEarned DEF NativePoll

\* No stream is reported complete on its own: while nothing throws, the peer, QUIC
\* or the application ended every stream that RequestCompleted is about.
THEOREM NativeCompletionEarned == NativeSpec => []NativeCompletionIsEarned
<1>1. NativeInit => EarnedInv
  BY DEF NativeInit, Init, ConnectionInit, EarnedInv, FedEndIsReal, Parsing,
         NativeCompletionIsEarned
<1>2. NativeInv /\ EarnedInv /\ [NativeNext]_allVars => EarnedInv'
  <2>1. ASSUME NativeInv, EarnedInv, NativeNext
        PROVE  EarnedInv'
    BY <2>1, ArrivalEarned, ConnectionCallEarned, NativeStreamCallEarned, FlushEarned, PollEarned
       DEF NativeNext
  <2>2. ASSUME EarnedInv, UNCHANGED allVars
        PROVE  EarnedInv'
    BY <2>2 DEF allVars, vars, nativeVars, connectionVars, streamStateVars, quicVars, quicHistory,
                EarnedInv, FedEndIsReal, Parsing, NativeCompletionIsEarned
  <2> QED
    BY <2>1, <2>2
<1>3. EarnedInv => NativeCompletionIsEarned
  BY DEF EarnedInv
<1> QED
  BY <1>1, <1>2, <1>3, NativeInvariance, PTL DEF NativeSpec

-----------------------------------------------------------------------------
(* The body a stream delivers *)

\* What BodyIn joins: the chunks that are DATA, and nothing for a HEADERS frame.
DataPieces(chunks) ==
    [i \in 1..Len(chunks) |-> IF chunks[i] \in HeaderBlocks THEN <<>> ELSE <<chunks[i]>>]

\* What nghttp3 is still to parse of a stream, and what QUIC holds behind it.
Fed(id) == IF feed.id = id THEN feed.data ELSE <<>>
Coming(id) == Fed(id) \o unread[id]

Accounted(id) == BodyOf(History, id) \o BodyIn(Coming(id)) = BodyIn(peerBody[id])

\* The DATA of a sequence of chunks is one.
LEMMA BodyInTyped ==
  ASSUME NEW s \in Pieces
  PROVE  /\ DataPieces(s) \in Seq(Pieces) /\ Len(DataPieces(s)) = Len(s)
         /\ BodyIn(s) = FlattenSeq(DataPieces(s))
         /\ BodyIn(s) \in Pieces
<1>1. s \in Seq(Chunks) /\ Len(s) \in Nat
  BY DEF Pieces
<1>2. \A i \in 1..Len(s) : <<s[i]>> \in Pieces /\ <<>> \in Pieces
  <2>1. \A chunk \in Chunks : <<chunk>> \in Seq(Chunks)
    OBVIOUS
  <2>2. \A i \in 1..Len(s) : s[i] \in Chunks
    BY <1>1
  <2> QED
    BY <2>1, <2>2, EmptySeq DEF Pieces
<1>3. DataPieces(s) \in Seq(Pieces) /\ Len(DataPieces(s)) = Len(s)
  BY <1>1, <1>2 DEF DataPieces
<1>4. BodyIn(s) = FlattenSeq(DataPieces(s))
  BY DEF BodyIn, DataPieces
<1> QED
  BY <1>3, <1>4, FlattenTyped

\* The DATA of two sequences of chunks is that of the one and then the other.
LEMMA BodyInConcat ==
  ASSUME NEW s \in Pieces, NEW t \in Pieces
  PROVE  BodyIn(s \o t) = BodyIn(s) \o BodyIn(t)
<1> DEFINE all == s \o t
<1>1. /\ all \in Pieces /\ Len(all) = Len(s) + Len(t)
      /\ Len(s) \in Nat /\ Len(t) \in Nat
      /\ \A i \in 1..Len(s) + Len(t) : all[i] = IF i <= Len(s) THEN s[i] ELSE t[i - Len(s)]
  BY ConcatProperties, LenProperties DEF Pieces
<1> HIDE DEF all
<1> DEFINE p == DataPieces(s)
           q == DataPieces(t)
           r == DataPieces(all)
<1>2. /\ p \in Seq(Pieces) /\ Len(p) = Len(s)
      /\ q \in Seq(Pieces) /\ Len(q) = Len(t)
      /\ r \in Seq(Pieces) /\ Len(r) = Len(all)
  BY <1>1, BodyInTyped
<1>3. \A i \in 1..Len(all) : r[i] = IF i <= Len(s) THEN p[i] ELSE q[i - Len(s)]
  <2> SUFFICES ASSUME NEW i \in 1..Len(all)
               PROVE  r[i] = IF i <= Len(s) THEN p[i] ELSE q[i - Len(s)]
    OBVIOUS
  <2>1. r[i] = IF all[i] \in HeaderBlocks THEN <<>> ELSE <<all[i]>>
    BY DEF DataPieces
  <2>2. CASE i <= Len(s)
    <3>1. i \in 1..Len(s) /\ all[i] = s[i]
      BY <1>1, <2>2
    <3>2. p[i] = IF s[i] \in HeaderBlocks THEN <<>> ELSE <<s[i]>>
      BY <3>1 DEF DataPieces
    <3> QED
      BY <2>1, <2>2, <3>1, <3>2
  <2>3. CASE ~(i <= Len(s))
    <3> DEFINE k == i - Len(s)
    <3>1. k \in 1..Len(t) /\ all[i] = t[k]
      BY <1>1, <2>3
    <3> HIDE DEF k
    <3>2. q[k] = IF t[k] \in HeaderBlocks THEN <<>> ELSE <<t[k]>>
      BY <3>1 DEF DataPieces
    <3>3. r[i] = q[k]
      BY <2>1, <3>1, <3>2
    <3> QED
      BY <2>3, <3>3 DEF k
  <2> QED
    BY <2>2, <2>3
<1> HIDE DEF p, q, r
<1>4. r = p \o q
  <2>1. p \o q \in Seq(Pieces) /\ Len(p \o q) = Len(r)
    <3>1. p \in Seq(Pieces)
      BY <1>2
    <3>2. q \in Seq(Pieces)
      BY <1>2
    <3>3. p \o q \in Seq(Pieces) /\ Len(p \o q) = Len(p) + Len(q)
      BY <3>1, <3>2, ConcatProperties
    <3> QED
      BY <1>1, <1>2, <3>3
  <2>2. \A i \in 1..Len(r) : (p \o q)[i] = IF i <= Len(s) THEN p[i] ELSE q[i - Len(s)]
    BY <1>1, <1>2, ConcatProperties
  <2>3. \A i \in 1..Len(r) : r[i] = (p \o q)[i]
    BY <1>2, <1>3, <2>2
  <2> QED
    BY <1>2, <2>1, <2>3, SeqEqual
<1>5. FlattenSeq(r) = FlattenSeq(p) \o FlattenSeq(q)
  BY <1>2, <1>4, FlattenConcat
<1> QED
  BY <1>1, <1>5, BodyInTyped DEF p, q, r, all

\* A chunk is DATA or none.
LEMMA BodyInOne ==
  ASSUME NEW chunk \in Chunks
  PROVE  /\ <<chunk>> \in Pieces
         /\ BodyIn(<<chunk>>) = IF chunk \in HeaderBlocks THEN <<>> ELSE <<chunk>>
<1> DEFINE one == <<chunk>>
           piece == IF chunk \in HeaderBlocks THEN <<>> ELSE <<chunk>>
<1>1. one \in Seq(Chunks) /\ Len(one) = 1 /\ one[1] = chunk
  OBVIOUS
<1>2. one \in Pieces
  BY <1>1 DEF Pieces
<1>3. piece \in Pieces /\ <<>> \in Pieces
  BY <1>2, EmptySeq DEF Pieces
<1> HIDE DEF one
<1>4. DataPieces(one) = [i \in 1..1 |-> piece]
  BY <1>1 DEF DataPieces
<1> HIDE DEF piece
<1>5. DataPieces(one) = Append(<<>>, piece)
  BY <1>4
<1>6. FlattenSeq(Append(<<>>, piece)) = FlattenSeq(<<>>) \o piece
  <2>1. <<>> \in Seq(Pieces)
    BY EmptySeq
  <2> QED
    BY <1>3, <2>1, FlattenAppend
<1>7. BodyIn(one) = piece
  BY <1>2, <1>3, <1>5, <1>6, BodyInTyped, FlattenEmpty, PieceConcat
<1> QED
  BY <1>2, <1>7 DEF one, piece

\* What there is of a stream is typed.
LEMMA AccountTyped ==
  ASSUME NativeInv, NEW id \in StreamIds
  PROVE  /\ BodyOf(History, id) \in Pieces /\ Fed(id) \in Pieces /\ unread[id] \in Pieces
         /\ peerBody[id] \in Pieces /\ Coming(id) \in Pieces /\ <<>> \in Pieces
<1>1. /\ feed.data \in Seq(Chunks)
      /\ unread \in [StreamIds -> Seq(Chunks)] /\ peerBody \in [StreamIds -> Seq(Chunks)]
  BY InvParts DEF H3TypeOK, QuicTypeOK
<1>2. Fed(id) \in Pieces /\ unread[id] \in Pieces /\ peerBody[id] \in Pieces
  BY <1>1, EmptySeq DEF Pieces, Fed
<1> QED
  BY <1>2, InvParts, HistoryBodyTyped, PieceConcat DEF Coming

\* What goes to the queue adds its payload to the body.
LEMMA AppendBody ==
  ASSUME ConnectionTypeOK, UNCHANGED delivered, NEW event \in Event,
         eventQueue' = Append(eventQueue, event), NEW id
  PROVE  BodyOf(History', id)
         = BodyOf(History, id) \o (IF event.streamId = id THEN event.payload ELSE <<>>)
<1>1. History \in Seq(Event)
  BY HistoryBodyTyped
<1>2. eventQueue' = eventQueue \o <<event>> /\ <<event>> \in Seq(Event)
  BY AppendIsConcat DEF ConnectionTypeOK
<1>3. History' = History \o <<event>>
  BY <1>2, QueueExtendsLog
<1>4. BodyOf(History', id) = BodyOf(History, id) \o BodyOf(<<event>>, id)
  BY <1>1, <1>2, <1>3, BodyGrows
<1> QED
  BY <1>4, BodyOfFew

\* The end of a stream carries no body.
LEMMA TerminalBody ==
  ASSUME ConnectionTypeOK, UNCHANGED delivered, NEW x \in StreamIds, NEW event \in Event,
         event.payload = <<>>, EmitTerminalOnce(x, event), NEW id
  PROVE  /\ BodyOf(History', id) = BodyOf(History, id)
         /\ terminal' = terminal \cup {x}
<1>1. BodyOf(History, id) \in Pieces
  BY HistoryBodyTyped
<1>2. CASE x \in terminal
  BY <1>2 DEF EmitTerminalOnce, History
<1>3. CASE x \notin terminal
  <2>1. eventQueue' = Append(eventQueue, event) /\ terminal' = terminal \cup {x}
    BY <1>3 DEF EmitTerminalOnce
  <2>2. BodyOf(History', id) = BodyOf(History, id) \o <<>>
    BY <2>1, AppendBody
  <2> QED
    BY <1>1, <2>1, <2>2, PieceConcat
<1> QED
  BY <1>2, <1>3

\* Closing a stream in nghttp3 tells its end and no body.
LEMMA CloseBody ==
  ASSUME ConnectionTypeOK, UNCHANGED delivered, NEW x \in StreamIds, NEW code \in ErrorCodes,
         CloseInH3(x, code), NEW id
  PROVE  /\ BodyOf(History', id) = BodyOf(History, id)
         /\ terminal' = terminal \cup {x}
<1>1. CloseEvent(x, code) \in Event /\ CloseEvent(x, code).payload = <<>>
  BY EventsAreTyped DEF CloseEvent, StreamReset, RequestCompleted
<1>2. EmitTerminalOnce(x, CloseEvent(x, code))
  BY DEF CloseInH3
<1> QED
  BY <1>1, <1>2, TerminalBody

\* A step that leaves a live stream as it is keeps its account.
LEMMA QuietAccount ==
  ASSUME NativeBodyAccounted, failures' = 0 => failures = 0, ~refused' => ~refused,
         \A id \in StreamIds \ terminal' :
            /\ id \notin terminal
            /\ BodyOf(History', id) = BodyOf(History, id)
            /\ Coming(id)' = Coming(id)
            /\ peerBody'[id] = peerBody[id]
  PROVE  NativeBodyAccounted'
<1> SUFFICES ASSUME failures' = 0, ~refused', NEW id \in StreamIds \ terminal'
             PROVE  Accounted(id)'
  BY DEF NativeBodyAccounted, Accounted, Coming, Fed
<1>1. Accounted(id)
  BY DEF NativeBodyAccounted, Accounted, Coming, Fed
<1> QED
  BY <1>1 DEF Accounted

\* What arrives is held by QUIC.
LEMMA ArrivalAccounted ==
  ASSUME NativeInv, NativeBodyAccounted, NativeArrival
  PROVE  NativeBodyAccounted'
<1>1. /\ unread \in [StreamIds -> Seq(Chunks)] /\ peerBody \in [StreamIds -> Seq(Chunks)]
  BY InvParts DEF QuicTypeOK
<1>2. UNCHANGED <<connectionVars, failures, nativeVars>>
  BY DEF NativeArrival, PeerSends, PeerResets, QuicCloses, ConnectionEnds, QuicEventArrives
<1>3. /\ terminal' = terminal /\ History' = History /\ failures' = failures
      /\ feed' = feed /\ refused' = refused
  BY <1>2, Zenon DEF connectionVars, streamStateVars, eventVars, History, nativeVars
<1>4. CASE UNCHANGED <<unread, peerBody>>
  BY <1>3, <1>4, QuietAccount DEF Coming, Fed
<1>5. ASSUME NEW x \in StreamIds, NEW data \in Arrivals, NEW fin \in BOOLEAN,
             PeerSends(x, data, fin)
      PROVE  NativeBodyAccounted'
  <2> SUFFICES ASSUME failures' = 0, ~refused', NEW id \in StreamIds \ terminal'
               PROVE  Accounted(id)'
    BY DEF NativeBodyAccounted, Accounted, Coming, Fed
  <2>1. Accounted(id)
    BY <1>3 DEF NativeBodyAccounted, Accounted, Coming, Fed
  <2>2. /\ unread' = [unread EXCEPT ![x] = @ \o data]
        /\ peerBody' = [peerBody EXCEPT ![x] = @ \o data]
    BY <1>5 DEF PeerSends
  <2>3. CASE id # x
    <3>1. unread'[id] = unread[id] /\ peerBody'[id] = peerBody[id]
      BY <1>1, <2>2, <2>3
    <3> QED
      BY <1>3, <2>1, <3>1 DEF Accounted, Coming, Fed
  <2>4. CASE id = x
    <3> DEFINE told == BodyOf(History, id)
               parts == Fed(id)
               held == unread[id]
               sent == peerBody[id]
    <3>1. told \in Pieces /\ parts \in Pieces /\ held \in Pieces /\ sent \in Pieces
          /\ Coming(id) \in Pieces /\ <<>> \in Pieces
      BY AccountTyped
    <3>2. data \in Pieces
      BY <3>1, BodyInOne DEF Arrivals
    <3>3. unread'[id] = held \o data /\ peerBody'[id] = sent \o data
      BY <1>1, <2>2, <2>4
    <3>4. Fed(id)' = parts
      BY <1>3 DEF Fed
    <3>5. told \o BodyIn(Coming(id)) = BodyIn(sent)
      BY <2>1 DEF Accounted
    <3>6. Coming(id) = parts \o held /\ Coming(id)' = parts \o (held \o data)
      BY <3>3, <3>4 DEF Coming
    <3> HIDE DEF told, parts, held, sent
    <3>7. (parts \o held) \o data = parts \o (held \o data)
      <4>1. parts \in Pieces /\ held \in Pieces
        BY <3>1
      <4> QED
        BY <3>2, <4>1, PieceAssociative
    <3>8. BodyIn(Coming(id)') = BodyIn(Coming(id)) \o BodyIn(data)
      <4> DEFINE old == Coming(id)
      <4>1. Coming(id)' = old \o data
        BY <3>6, <3>7
      <4>2. old \in Pieces
        BY <3>1
      <4> HIDE DEF old
      <4>3. BodyIn(old \o data) = BodyIn(old) \o BodyIn(data)
        BY <3>2, <4>2, BodyInConcat
      <4> QED
        BY <4>1, <4>3 DEF old
    <3>9. BodyIn(sent \o data) = BodyIn(sent) \o BodyIn(data)
      BY <3>1, <3>2, BodyInConcat
    <3>10. told \o BodyIn(Coming(id)') = BodyIn(sent \o data)
      <4> DEFINE a == BodyIn(Coming(id))
                 b == BodyIn(data)
      <4>1. a \in Pieces /\ b \in Pieces
        BY <3>1, <3>2, BodyInTyped
      <4>2. told \o a = BodyIn(sent) /\ BodyIn(Coming(id)') = a \o b
        BY <3>5, <3>8
      <4>3. BodyIn(sent \o data) = BodyIn(sent) \o b
        BY <3>9
      <4> HIDE DEF a, b
      <4>4. (told \o a) \o b = told \o (a \o b)
        <5>1. told \in Pieces
          BY <3>1
        <5> QED
          BY <4>1, <5>1, PieceAssociative
      <4> QED
        BY <4>2, <4>3, <4>4
    <3> QED
      BY <1>3, <3>3, <3>10 DEF Accounted, told
  <2> QED
    BY <2>3, <2>4
<1>6. UNCHANGED <<unread, peerBody>>
      \/ \E x \in StreamIds, data \in Arrivals, fin \in BOOLEAN : PeerSends(x, data, fin)
  BY DEF NativeArrival, PeerResets, QuicCloses, ConnectionEnds
<1> QED
  BY <1>4, <1>5, <1>6

\* The methods of the connection leave the streams' data alone.
LEMMA ConnectionCallAccounted ==
  ASSUME NativeInv, NativeBodyAccounted, NativeConnectionCall
  PROVE  NativeBodyAccounted'
<1>1. ConnectionCall /\ feed' = feed /\ refused' = refused
  BY DEF NativeConnectionCall, nativeVars
<1>2. failures \in Nat
  BY InvParts DEF QuicTypeOK
<1>3. ASSUME NEW id \in StreamIds, OpenRequestStream(id)
      PROVE  /\ UNCHANGED <<unread, peerBody, terminal, eventVars>>
             /\ failures' = failures
  <2>1. id \notin terminal
    BY <1>3, InvParts DEF OpenRequestStream, ConnectionTypeOK
  <2> QED
    BY <1>3, <2>1 DEF OpenRequestStream, CreateRequestStream, quicHistory
<1>4. ASSUME NEW id \in StreamIds, RefusedOpen(id) \/ FetchRequestStream(id)
      PROVE  /\ UNCHANGED <<unread, peerBody, terminal, eventVars>>
             /\ failures' = failures \/ failures' = failures + 1
  BY <1>4 DEF RefusedOpen, FetchRequestStream, GetRequestStream, connectionVars, streamStateVars,
              quicVars, quicHistory
<1>5. CASE CloseConnection
  BY <1>1, <1>5, QuietAccount
     DEF CloseConnection, Close, streamStateVars, eventVars, quicVars, quicHistory, History, Coming,
         Fed
<1>6. /\ UNCHANGED <<unread, peerBody, terminal, eventVars>>
      /\ failures' = failures \/ failures' = failures + 1
  BY <1>1, <1>3, <1>4, <1>5
     DEF ConnectionCall, CloseConnection, Close, streamStateVars, quicVars, quicHistory
<1>7. History' = History /\ (failures' = 0 => failures = 0)
  BY <1>2, <1>6 DEF History, eventVars
<1> QED
  BY <1>1, <1>6, <1>7, QuietAccount DEF Coming, Fed

\* A request stream tells nothing but the end it asked for.
LEMMA StreamCallAccounted ==
  ASSUME NativeInv, NativeBodyAccounted, NativeStreamCall
  PROVE  NativeBodyAccounted'
<1>1. PICK x \in StreamIds :
         \/ BeginHeaders(x)
         \/ HeadersRefused(x)
         \/ \E piece \in {<<>>} \cup {<<chunk>> : chunk \in BodyPieces} : BeginData(x, piece)
         \/ BeginEnd(x)
         \/ \E code \in ErrorCodes : NativeReset(x, code) \/ ResetThrows(x, code)
  BY DEF NativeStreamCall
<1>2. failures \in Nat
  BY InvParts DEF QuicTypeOK
<1>3. ASSUME sendFrame' = sendFrame, failures' = failures \/ failures' = failures + 1
      PROVE  NativeBodyAccounted'
  <2>1. UNCHANGED <<unread, peerBody, terminal, eventVars, feed, refused>>
    BY <1>3, Zenon DEF sendFrame, connectionVars, streamStateVars, quicHistory
  <2>2. History' = History
    BY <2>1 DEF History, eventVars
  <2> QED
    BY <1>2, <1>3, <2>1, <2>2, QuietAccount DEF Coming, Fed
<1>4. ASSUME NEW code \in ErrorCodes, NativeReset(x, code) \/ ResetThrows(x, code)
      PROVE  NativeBodyAccounted'
  <2>1. /\ UNCHANGED <<unread, peerBody, feed, refused, delivered>>
        /\ failures' = failures \/ failures' = failures + 1
    BY <1>4 DEF NativeReset, ResetThrows, resetFrame, quicHistory
  <2>2. \/ CloseInH3(x, code)
        \/ UNCHANGED <<terminal, eventQueue>>
    BY <1>4 DEF NativeReset, ResetThrows, ResetInH3, streamStateVars
  <2>3. \A id : BodyOf(History', id) = BodyOf(History, id) /\ terminal \subseteq terminal'
    <3>1. CASE CloseInH3(x, code)
      BY <2>1, <3>1, InvParts, CloseBody
    <3>2. CASE UNCHANGED <<terminal, eventQueue>>
      BY <2>1, <3>2 DEF History
    <3> QED
      BY <2>2, <3>1, <3>2
  <2>4. failures' = 0 => failures = 0
    BY <1>2, <2>1
  <2> QED
    BY <2>1, <2>3, <2>4, QuietAccount DEF Coming, Fed
<1> QED
  BY <1>1, <1>3, <1>4 DEF BeginHeaders, HeadersRefused, BeginData, BeginEnd

\* A flush loop reads nothing.
LEMMA FlushAccounted ==
  ASSUME NativeInv, NativeBodyAccounted, Flush
  PROVE  NativeBodyAccounted'
<1>1. failures \in Nat
  BY InvParts DEF QuicTypeOK
<1>2. /\ UNCHANGED <<unread, peerBody, terminal, eventVars, feed, refused>>
      /\ failures' = failures \/ failures' = failures + 1
  <2>1. ASSUME NEW id \in StreamIds, FlushWrite(id) \/ FlushThrows(id)
        PROVE  /\ UNCHANGED <<unread, peerBody, terminal, eventVars, feed, refused>>
               /\ failures' = failures \/ failures' = failures + 1
    <3>1. flushFrame' = flushFrame
      BY <2>1 DEF FlushWrite, FlushThrows
    <3>2. UNCHANGED <<unread, peerBody, terminal, eventVars, feed, refused>>
      BY <3>1, Zenon DEF flushFrame, sendFrame, connectionVars, streamStateVars, quicHistory
    <3> QED
      BY <2>1, <3>2 DEF FlushWrite, FlushThrows
  <2>2. CASE FlushReturns
    <3>1. UNCHANGED <<terminal, eventVars>>
      BY <2>2 DEF FlushReturns, SubmitHeaders, SubmitData, End, connectionVars, streamStateVars
    <3> QED
      BY <2>2, <3>1 DEF FlushReturns, quicVars, quicHistory
  <2> QED
    BY <2>1, <2>2 DEF Flush
<1>3. History' = History
  BY <1>2 DEF History, eventVars
<1>4. failures' = 0 => failures = 0
  BY <1>1, <1>2
<1> QED
  BY <1>2, <1>3, <1>4, QuietAccount DEF Coming, Fed

\* What the read loop takes is fed, and the rest stays with QUIC.
LEMMA ReadableAccounted ==
  ASSUME NativeInv, NativeBodyAccounted, ReadableToH3
  PROVE  NativeBodyAccounted'
<1> DEFINE x == Head(batch).streamId
           n == ReadCount(x)
           taken == SubSeq(unread[x], 1, n)
           rest == SubSeq(unread[x], n + 1, Len(unread[x]))
           fin == x \in quicClosed
<1>1. /\ x \in StreamIds
      /\ unread \in [StreamIds -> Seq(Chunks)]
  <2>1. x \in Reachable
    BY DEF ReadableToH3, FeedH3
  <2> QED
    BY <2>1, InvParts DEF Reachable, QuicTypeOK
<1>2. /\ feed = NoFeed
      /\ UNCHANGED <<terminal, eventVars, peerBody, failures>>
      /\ unread' = [unread EXCEPT ![x] = rest]
      /\ feed' = FeedOf(x, n) \/ refused'
  BY DEF ReadableToH3, FeedH3, Parsing, streamStateVars, quicHistory
<1>3. ~refused' => ~refused
  BY DEF ReadableToH3, FeedH3
<1>4. /\ taken \in Pieces /\ rest \in Pieces /\ taken \o rest = unread[x]
  <2>1. n \in 0..n
    BY <1>1, MaxReadsAssumption, MaxPayloadAssumption DEF ReadCount
  <2> QED
    BY <1>1, <2>1, ReadSplits
<1>5. FeedOf(x, n) = Feed(x, taken, fin)
  BY DEF FeedOf
<1> HIDE DEF x, n, taken, rest, fin
<1>6. CASE refused'
  BY <1>6 DEF NativeBodyAccounted
<1>7. CASE feed' = FeedOf(x, n) /\ ~refused'
  <2>1. History' = History
    BY <1>2 DEF History, eventVars
  <2>2. ASSUME NEW id \in StreamIds
        PROVE  Coming(id)' = Coming(id)
    <3>1. Fed(id) = <<>> /\ Coming(id) = <<>> \o unread[id]
      BY <1>2 DEF Fed, NoFeed, Coming
    <3>2. unread[id] \in Pieces /\ <<>> \o unread[id] = unread[id]
      BY AccountTyped, PieceConcat
    <3>3. feed' = Feed(x, taken, fin)
      BY <1>5, <1>7
    <3>4. CASE id = x
      <4>1. Fed(id)' = taken
        BY <3>3, <3>4 DEF Fed, Feed, NoFeed
      <4>2. unread'[id] = rest
        BY <1>1, <1>2, <3>4
      <4> QED
        BY <1>4, <3>1, <3>2, <3>4, <4>1, <4>2 DEF Coming
    <3>5. CASE id # x
      <4>1. Fed(id)' = <<>>
        BY <3>3, <3>5 DEF Fed, Feed, NoFeed
      <4>2. unread'[id] = unread[id]
        BY <1>1, <1>2, <3>5
      <4> QED
        BY <3>1, <4>1, <4>2 DEF Coming
    <3> QED
      BY <3>4, <3>5
  <2> QED
    BY <1>2, <1>3, <2>1, <2>2, QuietAccount
<1> QED
  BY <1>2, <1>6, <1>7

\* A frame that is parsed is told, and the rest stays to be parsed.
LEMMA ParseAccounted ==
  ASSUME NativeInv, NativeBodyAccounted, Parse
  PROVE  NativeBodyAccounted'
<1> DEFINE x == feed.id
           data == feed.data
<1>1. /\ Parsing /\ x \in StreamIds /\ data \in Seq(Chunks)
      /\ feed' = IF data = <<>> THEN NoFeed ELSE Feed(x, Tail(data), feed.fin)
      /\ UNCHANGED <<delivered, unread, peerBody, failures, refused>>
      /\ ConnectionTypeOK
  BY InvParts DEF Parse, pollFrame, quicHistory, H3Agrees, OneCallAtATime, H3TypeOK
<1>2. \A id \in StreamIds : id # x => Fed(id) = <<>> /\ Fed(id)' = <<>>
  BY <1>1 DEF Fed, Feed, NoFeed
<1>3. ParseHeaders \/ ParseData \/ ParseEnd
  BY DEF Parse
<1>4. CASE ParseEnd
  <2>1. EmitTerminalOnce(x, RequestCompleted(x)) /\ RequestCompleted(x).payload = <<>>
    BY <1>4 DEF ParseEnd, RequestCompleted
  <2>2. RequestCompleted(x) \in Event
    BY <1>1, EventsAreTyped
  <2>3. \A id : BodyOf(History', id) = BodyOf(History, id) /\ terminal' = terminal \cup {x}
    BY <1>1, <2>1, <2>2, TerminalBody
  <2> QED
    BY <1>1, <1>2, <2>3, QuietAccount DEF Coming
<1>5. CASE ParseHeaders \/ ParseData
  <2> DEFINE first == Head(data)
             rest == Tail(data)
             one == <<first>>
  <2>1. /\ data # <<>> /\ terminal' = terminal
        /\ first \in HeaderBlocks => EmitHeadersOnce(x)
        /\ first \notin HeaderBlocks => EmitData(x, first)
    BY <1>5 DEF ParseHeaders, ParseData, HeadersNext
  <2>2. first \in Chunks /\ rest \in Seq(Chunks) /\ data = one \o rest
    BY <1>1, <2>1
  <2>3. feed' = Feed(x, rest, feed.fin)
    BY <1>1, <2>1
  <2>4. \A id \in StreamIds : id = x => Fed(id) = data /\ Fed(id)' = rest
    BY <2>3 DEF Fed, Feed, NoFeed
  <2>5. one \in Pieces /\ rest \in Pieces
        /\ BodyIn(one) = IF first \in HeaderBlocks THEN <<>> ELSE one
    BY <2>2, BodyInOne DEF Pieces
  <2>6. one \in Payloads
    <3>1. 1 \in 0..MaxPayload
      BY MaxReadsAssumption, MaxPayloadAssumption
    <3>2. one \in [1..1 -> Chunks]
      BY <2>2
    <3> QED
      BY <3>1, <3>2 DEF Payloads
  <2> HIDE DEF x, data, first, rest
  <2>7. ASSUME NEW id \in StreamIds, id \notin terminal
        PROVE  BodyOf(History', id) = BodyOf(History, id) \o (IF id = x THEN BodyIn(one) ELSE <<>>)
    <3>1. BodyOf(History, id) \in Pieces /\ BodyOf(History, id) \o <<>> = BodyOf(History, id)
      BY AccountTyped, PieceConcat
    <3>2. CASE first \in HeaderBlocks
      <4>1. UNCHANGED eventQueue \/ eventQueue' = Append(eventQueue, HeadersReceived(x))
        BY <2>1, <3>2 DEF EmitHeadersOnce
      <4>2. HeadersReceived(x) \in Event /\ HeadersReceived(x).payload = <<>>
        BY <1>1, EventsAreTyped DEF HeadersReceived
      <4>3. BodyOf(History', id) = BodyOf(History, id)
        <5>1. CASE UNCHANGED eventQueue
          BY <1>1, <5>1 DEF History
        <5>2. CASE eventQueue' = Append(eventQueue, HeadersReceived(x))
          BY <1>1, <3>1, <4>2, <5>2, AppendBody
        <5> QED
          BY <4>1, <5>1, <5>2
      <4>4. BodyIn(one) = <<>>
        BY <2>5, <3>2
      <4> HIDE DEF one
      <4> QED
        BY <3>1, <4>3, <4>4
    <3>3. CASE first \notin HeaderBlocks
      <4>1. eventQueue' = IF x \in terminal THEN eventQueue
                          ELSE Append(eventQueue, DataReceived(x, one))
        BY <2>1, <3>3 DEF EmitData
      <4>2. /\ DataReceived(x, one) \in Event
            /\ DataReceived(x, one).payload = one /\ DataReceived(x, one).streamId = x
        BY <1>1, <2>6, EventsAreTyped DEF DataReceived
      <4>3. BodyIn(one) = one
        BY <2>5, <3>3
      <4> HIDE DEF one
      <4>4. CASE x \in terminal
        <5>1. BodyOf(History', id) = BodyOf(History, id) /\ id # x
          BY <1>1, <2>7, <4>1, <4>4 DEF History
        <5> QED
          BY <3>1, <5>1
      <4>5. CASE x \notin terminal
        <5>1. eventQueue' = Append(eventQueue, DataReceived(x, one))
          BY <4>1, <4>5
        <5>2. BodyOf(History', id) = BodyOf(History, id) \o (IF x = id THEN one ELSE <<>>)
          BY <1>1, <4>2, <5>1, AppendBody
        <5> QED
          BY <4>3, <5>2
      <4> QED
        BY <4>4, <4>5
    <3> QED
      BY <3>2, <3>3
  <2> SUFFICES ASSUME failures' = 0, ~refused', NEW id \in StreamIds \ terminal'
               PROVE  Accounted(id)'
    BY DEF NativeBodyAccounted, Accounted, Coming, Fed
  <2>8. Accounted(id) /\ id \notin terminal
    BY <1>1, <2>1 DEF NativeBodyAccounted, Accounted, Coming, Fed
  <2>9. CASE id # x
    <3>1. BodyOf(History', id) = BodyOf(History, id) \o <<>>
      BY <2>7, <2>8, <2>9
    <3>2. BodyOf(History', id) = BodyOf(History, id)
      BY <3>1, AccountTyped, PieceConcat
    <3>3. Coming(id)' = Coming(id) /\ peerBody'[id] = peerBody[id]
      BY <1>1, <1>2, <2>9 DEF Coming
    <3> QED
      BY <2>8, <3>2, <3>3 DEF Accounted
  <2>10. CASE id = x
    <3> DEFINE told == BodyOf(History, id)
               held == unread[id]
               part == BodyIn(one)
               later == rest \o held
    <3>1. told \in Pieces /\ held \in Pieces
      BY AccountTyped
    <3>2. part \in Pieces /\ later \in Pieces /\ BodyIn(later) \in Pieces
      BY <2>5, <3>1, BodyInTyped, PieceConcat
    <3>3. BodyOf(History', id) = told \o part
      BY <2>7, <2>8, <2>10
    <3>4. Coming(id) = (one \o rest) \o held /\ Coming(id)' = later
      <4>1. Fed(id) = one \o rest /\ Fed(id)' = rest
        BY <2>2, <2>4, <2>10
      <4>2. unread'[id] = held
        BY <1>1
      <4> QED
        BY <4>1, <4>2 DEF Coming
    <3>5. told \o BodyIn(Coming(id)) = BodyIn(peerBody[id])
      BY <2>8 DEF Accounted
    <3> HIDE DEF told, held, one
    <3>6. (one \o rest) \o held = one \o later
      BY <2>5, <3>1, PieceAssociative
    <3> HIDE DEF later
    <3>7. BodyIn(one \o later) = part \o BodyIn(later)
      BY <2>5, <3>2, BodyInConcat
    <3> HIDE DEF part
    <3>8. (told \o part) \o BodyIn(later) = told \o (part \o BodyIn(later))
      BY <3>1, <3>2, PieceAssociative
    <3>9. BodyOf(History', id) \o BodyIn(Coming(id)') = BodyIn(peerBody'[id])
      BY <1>1, <3>3, <3>4, <3>5, <3>6, <3>7, <3>8
    <3> QED
      BY <3>9 DEF Accounted
  <2> QED
    BY <2>9, <2>10
<1> QED
  BY <1>3, <1>4, <1>5

\* A message nghttp3 rejects ends its stream, and no other stream was being
\* parsed.
LEMMA RejectAccounted ==
  ASSUME NativeInv, NativeBodyAccounted, ParseReject
  PROVE  NativeBodyAccounted'
<1> DEFINE x == feed.id
<1>1. /\ Parsing /\ x \in StreamIds /\ ConnectionTypeOK /\ failures \in Nat
      /\ UNCHANGED <<delivered, unread, peerBody, refused>>
      /\ feed' = NoFeed
      /\ failures' = failures \/ failures' = failures + 1
  <2>1. /\ Parsing /\ UNCHANGED pollFrame /\ refused' = refused /\ feed' = NoFeed
        /\ failures' = failures \/ failures' = failures + 1
    BY DEF ParseReject, ThrowFromPoll
  <2>2. UNCHANGED <<delivered, unread, peerBody>>
    BY <2>1, Zenon DEF pollFrame, quicHistory
  <2>3. feed.id \in StreamIds /\ ConnectionTypeOK /\ failures \in Nat
    BY <2>1, InvParts DEF H3Agrees, OneCallAtATime, QuicTypeOK
  <2> QED
    BY <2>1, <2>2, <2>3
<1>2. PICK code \in ErrorCodes : CloseInH3(x, code)
  BY DEF ParseReject
<1>3. \A id : BodyOf(History', id) = BodyOf(History, id) /\ terminal' = terminal \cup {x}
  BY <1>1, <1>2, CloseBody
<1>4. \A id \in StreamIds : id # x => Fed(id) = <<>> /\ Fed(id)' = <<>>
  BY <1>1 DEF Fed, NoFeed
<1>5. failures' = 0 => failures = 0
  BY <1>1
<1> QED
  BY <1>1, <1>3, <1>4, <1>5, QuietAccount DEF Coming

\* The QUIC events that nghttp3 is not fed with carry no body.
LEMMA ConsumeTellsNoBody ==
  ASSUME NativeInv, ConsumeNativeEvent, NEW id \in StreamIds
  PROVE  BodyOf(History', id) = BodyOf(History, id) /\ terminal \subseteq terminal'
<1> DEFINE event == Head(batch)
           x == event.streamId
<1>1. /\ batch # <<>> /\ ConnectionTypeOK
      /\ UNCHANGED delivered
  BY InvParts DEF ConsumeNativeEvent
<1>2. /\ event.errorCode \in ErrorCodes
      /\ event.type \in StreamEventTypes => x \in StreamIds
  BY <1>1, InvParts, HeadIsTyped
<1>3. 0 \in ErrorCodes
  BY ErrorCodesAssumption
<1>4. BodyOf(History, id) \o <<>> = BodyOf(History, id)
  BY <1>1, HistoryBodyTyped, PieceConcat
<1>5. CASE EndInH3
  <2>1. PICK code \in ErrorCodes : CloseInH3(x, code)
    BY <1>2, <1>3, <1>5 DEF EndInH3
  <2>2. x \in StreamIds
    BY <1>2, <1>5 DEF EndInH3, StreamEventTypes
  <2> HIDE DEF x
  <2> QED
    BY <1>1, <2>1, <2>2, CloseBody
<1>6. CASE EndOutsideH3
  <2>1. \/ event.type = "STREAM_CLOSED" /\ ConsumeReadable(x, <<>>, TRUE)
        \/ event.type = "STREAM_RESET" /\ ConsumeReset(x, event.errorCode)
    BY <1>6 DEF EndOutsideH3
  <2>2. x \in StreamIds
    BY <1>2, <2>1 DEF StreamEventTypes
  <2> HIDE DEF event, x
  <2>3. terminal \subseteq terminal'
    BY <2>1, SignalRevivesNone
  <2>4. CASE ConsumeReadable(x, <<>>, TRUE)
    <3>1. BodyOf(History', id) = BodyOf(History, id) \o <<>>
      BY <1>1, <2>2, <2>4, EmptyPayload, ReadableBody
    <3> QED
      BY <1>4, <2>3, <3>1
  <2>5. CASE ConsumeReset(x, event.errorCode)
    BY <1>1, <1>2, <2>2, <2>3, <2>5, QuietBody
  <2> QED
    BY <2>1, <2>4, <2>5
<1>7. CASE ClosingOutsideH3
  <2>1. ConsumeClosing(event.errorCode, event.type = "CONNECTION_CLOSED")
    BY <1>7 DEF ClosingOutsideH3
  <2> HIDE DEF event
  <2>2. terminal \subseteq terminal'
    BY <2>1, SignalRevivesNone
  <2> QED
    BY <1>1, <1>2, <2>1, <2>2, QuietBody
<1> QED
  BY <1>5, <1>6, <1>7 DEF ConsumeNativeEvent

\* So they keep the accounts.
LEMMA ConsumeAccounted ==
  ASSUME NativeInv, NativeBodyAccounted, ConsumeNativeEvent
  PROVE  NativeBodyAccounted'
<1>1. UNCHANGED <<unread, peerBody, failures, feed, refused>>
  BY DEF ConsumeNativeEvent, quicVars, quicHistory
<1> QED
  BY <1>1, ConsumeTellsNoBody, QuietAccount DEF Coming, Fed

\* Every step of pollEvents() keeps the accounts.
LEMMA PollAccounted ==
  ASSUME NativeInv, NativeBodyAccounted, NativePoll
  PROVE  NativeBodyAccounted'
<1>1. CASE DrainEvents /\ UNCHANGED nativeVars
  <2>1. UNCHANGED <<unread, peerBody, terminal, eventVars, feed, refused, failures>>
    BY <1>1 DEF DrainEvents, streamStateVars, quicHistory, nativeVars
  <2>2. History' = History
    BY <2>1 DEF History, eventVars
  <2> QED
    BY <2>1, <2>2, QuietAccount DEF Coming, Fed
<1>2. CASE ParseFails
  BY <1>2 DEF ParseFails, NativeBodyAccounted
<1>3. CASE AbortPoll
  <2>1. failures' # 0
    BY <1>3, InvParts DEF AbortPoll, QuicTypeOK
  <2> QED
    BY <2>1 DEF NativeBodyAccounted
<1>4. CASE PollReturn /\ UNCHANGED nativeVars
  <2>1. UNCHANGED <<unread, peerBody, terminal, feed, refused, failures>>
    BY <1>4 DEF PollReturn, ReturnEvents, streamStateVars, quicVars, quicHistory, nativeVars
  <2>2. History' = History
    BY <1>4, InvParts, ReturnKeepsHistory DEF PollReturn
  <2> QED
    BY <2>1, <2>2, QuietAccount DEF Coming, Fed
<1> QED
  BY <1>1, <1>2, <1>3, <1>4, ReadableAccounted, ParseAccounted, RejectAccounted, ConsumeAccounted
     DEF NativePoll

\* A new connection has no body to account for.
LEMMA InitAccounted == NativeInit => NativeBodyAccounted
<1> SUFFICES ASSUME NativeInit, NEW id \in StreamIds
             PROVE  Accounted(id)
  BY DEF NativeBodyAccounted, Accounted, Coming, Fed
<1>1. /\ BodyOf(History, id) = <<>> /\ unread[id] = <<>> /\ peerBody[id] = <<>>
  BY InitBody DEF NativeInit
<1>2. Fed(id) = <<>>
  BY DEF NativeInit, Fed, NoFeed
<1>3. <<>> \in Pieces /\ Len(<<>>) = 0
  BY EmptySeq DEF Pieces
<1>4. Coming(id) = <<>>
  BY <1>1, <1>2, <1>3, PieceConcat DEF Coming
<1>5. BodyIn(<<>>) \in Pieces
  BY <1>3, BodyInTyped
<1>6. <<>> \o BodyIn(<<>>) = BodyIn(<<>>)
  BY <1>5, PieceConcat
<1> QED
  BY <1>1, <1>4, <1>6 DEF Accounted

\* While no call throws and nghttp3 refuses nothing, what of a live stream's
\* body is told, what is being parsed and what QUIC holds are together what the
\* peer sent, in order: a DATA frame is neither lost nor told twice, wherever a
\* poll, its bound on reads or the end of the stream cuts the body.
THEOREM NativeBodyConservation == NativeSpec => []NativeBodyAccounted
<1>1. NativeInv /\ NativeBodyAccounted /\ [NativeNext]_allVars => NativeBodyAccounted'
  <2>1. ASSUME NativeInv, NativeBodyAccounted, NativeNext
        PROVE  NativeBodyAccounted'
    BY <2>1, ArrivalAccounted, ConnectionCallAccounted, StreamCallAccounted, FlushAccounted,
       PollAccounted DEF NativeNext
  <2>2. ASSUME NativeBodyAccounted, UNCHANGED allVars
        PROVE  NativeBodyAccounted'
    <3>1. UNCHANGED <<unread, peerBody, terminal, eventVars, feed, refused, failures>>
      BY <2>2 DEF allVars, vars, nativeVars, connectionVars, streamStateVars, quicVars, quicHistory
    <3>2. History' = History
      BY <3>1 DEF History, eventVars
    <3> QED
      BY <2>2, <3>1, <3>2, QuietAccount DEF Coming, Fed
  <2> QED
    BY <2>1, <2>2
<1> QED
  BY <1>1, InitAccounted, NativeInvariance, PTL DEF NativeSpec
-----------------------------------------------------------------------------
(* A completed stream has told its whole body, while no event finds more to  *)
(* read than the bound on reads                                              *)

\* While nothing throws and nghttp3 refuses nothing: QUIC holds nothing behind
\* what nghttp3 is parsing, and what it holds of a live stream will be read
\* before an event ends the stream.
NoneBehind ==
    failures = 0 /\ ~refused =>
        /\ Parsing => unread[feed.id] = <<>>
        /\ \A id \in StreamIds \ terminal : unread[id] # <<>> => Awaits(Pending, id)

InFullInv == OneQueue /\ NoneBehind /\ NativeCompletedInFull

\* What the lemmas below may use of the state before a step.
BeforeStep ==
    NativeInv /\ NativeBodyAccounted /\ NativeCompletionIsEarned /\ InFullInv

\* A stream that is over stays over, and its body stays as it is: the contract
\* has no event for it.
LEMMA EndedStays ==
  ASSUME ConnectionTypeOK, [NativePromise!NativeContractNext]_(NativePromise!contractVars),
         NEW id \in StreamIds, id \in terminal
  PROVE  id \in terminal' /\ BodyOf(History', id) = BodyOf(History, id)
<1> DEFINE told == BodyOf(History, id)
<1>1. Phase[id] = "ended" /\ (Phase'[id] = "ended" => id \in terminal')
  BY DEF Phase
<1>2. History \in Seq(Event) /\ told \in Pieces /\ told \o <<>> = told
  BY HistoryBodyTyped, PieceConcat
<1>3. ASSUME NEW burst \in Seq(Event), BodyOf(burst, id) = <<>>, History' = History \o burst
      PROVE  BodyOf(History', id) = told
  <2>1. BodyOf(History \o burst, id) = told \o BodyOf(burst, id)
    BY <1>2, BodyGrows
  <2> QED
    BY <1>2, <1>3, <2>1, Zenon
<1>4. ASSUME NEW event \in Event, event.streamId # id, History' = Append(History, event)
      PROVE  BodyOf(History', id) = told
  <2>1. History' = History \o <<event>> /\ <<event>> \in Seq(Event)
    BY <1>2, <1>4, AppendIsConcat
  <2> QED
    BY <1>3, <1>4, <2>1, BodyOfFew
<1>5. CASE UNCHANGED NativePromise!contractVars
  BY <1>1, <1>5 DEF NativePromise!contractVars, Phase
<1>6. ASSUME NEW x \in StreamIds, NEW data \in NativePromise!Payloads, NEW fin \in BOOLEAN,
             NativePromise!Receive(x, data, fin)
      PROVE  id \in terminal' /\ BodyOf(History', id) = told
  <2> DEFINE burst == ReadableEvents(x, Phase[x] = "idle", data, fin)
  <2>1. data \in Payloads
    BY DEF Payloads, NativePromise!Payloads
  <2>2. /\ Phase[x] # "ended" /\ History' = History \o burst
        /\ Phase' = [Phase EXCEPT ![x] = IF fin THEN "ended" ELSE "open"]
    BY <1>6 DEF NativePromise!Receive, NativePromise!ReadableEvents, NativePromise!When,
                NativePromise!HeadersReceived, NativePromise!DataReceived,
                NativePromise!RequestCompleted, ReadableEvents, When, HeadersReceived,
                DataReceived, RequestCompleted, Phase
  <2>3. x # id
    BY <1>1, <2>2
  <2>4. burst \in Seq(Event) /\ BodyOf(burst, id) = <<>>
    BY <2>1, <2>3, BodyOfBurst
  <2> HIDE DEF burst
  <2>5. Phase'[id] = "ended"
    BY <1>1, <2>2, <2>3 DEF Phase
  <2> QED
    BY <1>1, <1>3, <2>2, <2>4, <2>5
<1>7. ASSUME NEW x \in StreamIds, NEW event \in Event, event.streamId = x,
             Phase[x] # "ended", History' = Append(History, event),
             Phase' = [Phase EXCEPT ![x] = "ended"]
      PROVE  id \in terminal' /\ BodyOf(History', id) = told
  <2>1. x # id /\ Phase'[id] = "ended"
    BY <1>1, <1>7 DEF Phase
  <2> QED
    BY <1>1, <1>4, <1>7, <2>1
<1>8. ASSUME NEW x \in StreamIds, NEW code \in ErrorCodes, NativePromise!Abandon(x, code)
      PROVE  id \in terminal' /\ BodyOf(History', id) = told
  <2>1. StreamReset(x, code) \in Event /\ StreamReset(x, code).streamId = x
    BY EventsAreTyped DEF StreamReset
  <2>2. /\ Phase[x] # "ended" /\ History' = Append(History, StreamReset(x, code))
        /\ Phase' = [Phase EXCEPT ![x] = "ended"]
    BY <1>8 DEF NativePromise!Abandon, NativePromise!StreamReset, StreamReset, Phase
  <2> QED
    BY <1>7, <2>1, <2>2
<1>9. ASSUME NEW code \in ErrorCodes, NativePromise!GoAway(code)
      PROVE  id \in terminal' /\ BodyOf(History', id) = told
  <2>1. GoawayReceived(code) \in Event /\ GoawayReceived(code).streamId # id
    BY StreamIdsAssumption, EventsAreTyped DEF GoawayReceived, NoStream
  <2>2. History' = Append(History, GoawayReceived(code)) /\ Phase' = Phase
    BY <1>9 DEF NativePromise!GoAway, NativePromise!GoawayReceived, NativePromise!NoStream,
                GoawayReceived, NoStream, Phase
  <2> QED
    BY <1>1, <1>4, <2>1, <2>2
<1>10. CASE NativePromise!CloseLocally
  BY <1>1, <1>10 DEF NativePromise!CloseLocally, Phase
<1>11. ASSUME NEW x \in StreamIds, NativePromise!CompleteUnheard(x)
       PROVE  id \in terminal' /\ BodyOf(History', id) = told
  <2>1. RequestCompleted(x) \in Event /\ RequestCompleted(x).streamId = x
    BY EventsAreTyped DEF RequestCompleted
  <2>2. /\ Phase[x] = "idle" /\ History' = Append(History, RequestCompleted(x))
        /\ Phase' = [Phase EXCEPT ![x] = "ended"]
    BY <1>11 DEF NativePromise!CompleteUnheard, NativePromise!RequestCompleted,
                 RequestCompleted, Phase
  <2> QED
    BY <1>7, <2>1, <2>2
<1> QED
  BY <1>5, <1>6, <1>8, <1>9, <1>10, <1>11
     DEF NativePromise!NativeContractNext, NativePromise!ContractNext

\* No chunks, no body.
LEMMA BodyInNone == BodyIn(<<>>) = <<>>
<1> DEFINE none == DataPieces(<<>>)
<1>1. <<>> \in Pieces /\ Len(<<>>) = 0
  BY EmptySeq DEF Pieces
<1>2. none \in Seq(Pieces) /\ Len(none) = 0 /\ BodyIn(<<>>) = FlattenSeq(none)
  BY <1>1, BodyInTyped
<1> HIDE DEF none
<1>3. none = <<>>
  BY <1>2, EmptySeq
<1> QED
  BY <1>2, <1>3, FlattenEmpty

\* A step completes in full if it completes only streams of which nothing is to
\* come, and tells nothing more of them.
LEMMA CompletedKept ==
  ASSUME BeforeStep, NativeStepOK, hungUp \subseteq hungUp',
         \A id \in peerDone : peerBody'[id] = peerBody[id],
         failures' = 0 /\ ~refused' =>
            /\ failures = 0 /\ ~refused
            /\ \A id \in remoteEnded' \ (remoteEnded \cup hungUp') :
                  /\ id \notin terminal /\ Coming(id) = <<>>
                  /\ BodyOf(History', id) = BodyOf(History, id)
                  /\ peerBody'[id] = peerBody[id]
  PROVE  NativeCompletedInFull'
<1> SUFFICES ASSUME failures' = 0, ~refused', NEW id \in remoteEnded' \ hungUp'
             PROVE  BodyOf(History', id) = BodyIn(peerBody'[id])
  BY DEF NativeCompletedInFull
<1>1. /\ NativeInv /\ ConnectionTypeOK /\ TablesAgree /\ NativeBodyAccounted
      /\ NativeCompletionIsEarned /\ NativeCompletedInFull
  BY InvParts DEF BeforeStep, InFullInv
<1>2. id \in StreamIds
  BY DEF NativeStepOK, ConnectionStepOK, ConnectionTypeOK
<1>3. failures = 0 /\ ~refused /\ id \notin hungUp
  OBVIOUS
<1>4. CASE id \in remoteEnded
  <2>1. id \in terminal /\ id \in peerDone
    BY <1>1, <1>3, <1>4 DEF TablesAgree, OneEnding, NativeCompletionIsEarned
  <2>2. BodyOf(History', id) = BodyOf(History, id)
    BY <1>1, <1>2, <2>1, EndedStays DEF NativeStepOK, ConnectionStepOK
  <2>3. BodyOf(History, id) = BodyIn(peerBody[id])
    BY <1>1, <1>3, <1>4 DEF NativeCompletedInFull
  <2> QED
    BY <2>1, <2>2, <2>3
<1>5. CASE id \notin remoteEnded
  <2>1. /\ id \notin terminal /\ Coming(id) = <<>>
        /\ BodyOf(History', id) = BodyOf(History, id) /\ peerBody'[id] = peerBody[id]
    BY <1>5
  <2>2. BodyOf(History, id) \o BodyIn(<<>>) = BodyIn(peerBody[id])
    BY <1>1, <1>2, <1>3, <2>1 DEF NativeBodyAccounted, Coming, Fed
  <2>3. BodyOf(History, id) \o <<>> = BodyOf(History, id)
    BY <1>1, HistoryBodyTyped, PieceConcat
  <2> QED
    BY <2>1, <2>2, <2>3, BodyInNone
<1> QED
  BY <1>4, <1>5

\* No step revives a stream.
LEMMA EndedStayEnded ==
  ASSUME BeforeStep, NativeStepOK
  PROVE  terminal \subseteq terminal'
<1>1. ConnectionTypeOK /\ terminal \subseteq StreamIds
  BY InvParts DEF BeforeStep, ConnectionTypeOK
<1> QED
  BY <1>1, EndedStays DEF NativeStepOK, ConnectionStepOK

\* A step that reads nothing, and takes no event, keeps what is awaited.
LEMMA NoneBehindKept ==
  ASSUME BeforeStep, NativeStepOK, UNCHANGED <<polling, batch, quicEvents, unread>>,
         Parsing' => Parsing /\ feed'.id = feed.id,
         failures' = 0 /\ ~refused' => failures = 0 /\ ~refused
  PROVE  OneQueue' /\ NoneBehind'
<1>1. OneQueue /\ NoneBehind /\ terminal \subseteq terminal' /\ Pending' = Pending
  BY EndedStayEnded DEF BeforeStep, InFullInv, Pending
<1> QED
  BY <1>1 DEF OneQueue, NoneBehind

\* If it completes nothing either, but a stream the application ends, all is kept.
LEMMA InFullKept ==
  ASSUME BeforeStep, NativeStepOK, UNCHANGED <<polling, batch, quicEvents, unread, peerBody>>,
         hungUp \subseteq hungUp', Parsing' => Parsing /\ feed'.id = feed.id,
         failures' = 0 /\ ~refused' =>
            failures = 0 /\ ~refused /\ remoteEnded' \subseteq remoteEnded \cup hungUp'
  PROVE  InFullInv'
<1>1. OneQueue' /\ NoneBehind'
  BY NoneBehindKept
<1>2. NativeCompletedInFull'
  BY CompletedKept
<1> QED
  BY <1>1, <1>2 DEF InFullInv

\* A step that throws, or a refusal, ends what is claimed.
LEMMA ThrowEndsIt ==
  ASSUME OneQueue', failures' # 0 \/ refused'
  PROVE  InFullInv'
BY DEF InFullInv, NoneBehind, NativeCompletedInFull

\* What arrives between two polls is awaited, and completes nothing.
LEMMA ArrivalInFull ==
  ASSUME BeforeStep, NativeStepOK, NativeArrival
  PROVE  InFullInv'
<1>1. Arrival /\ UNCHANGED nativeVars /\ UNCHANGED connectionVars
  BY DEF NativeArrival, Arrival, PeerSends, PeerResets, QuicCloses, ConnectionEnds,
         QuicEventArrives
<1>2. UNCHANGED <<feed, refused, remoteEnded>>
  BY <1>1, Zenon DEF nativeVars, connectionVars, streamStateVars
<1>3. /\ ~polling /\ ~polling' /\ UNCHANGED <<batch, terminal, failures>> /\ hungUp' = hungUp
      /\ ~Parsing /\ ~Parsing'
  <2>1. /\ ~polling /\ ~polling' /\ UNCHANGED <<batch, terminal, failures>>
    BY <1>1, ArrivalIsQuiet
  <2>2. hungUp' = hungUp
    BY <1>1 DEF Arrival, PeerSends, PeerResets, QuicCloses, ConnectionEnds, QuicEventArrives
  <2>3. ~Parsing
    BY <2>1, InvParts DEF BeforeStep, H3Agrees, OneCallAtATime
  <2> QED
    BY <1>2, <2>1, <2>2, <2>3 DEF Parsing
<1>4. OneQueue'
  BY <1>3 DEF BeforeStep, InFullInv, OneQueue
<1>5. NoneBehind'
  <2> SUFFICES ASSUME failures' = 0, ~refused'
               PROVE  \A id \in StreamIds \ terminal' : unread'[id] # <<>> => Awaits(Pending', id)
    BY <1>3 DEF NoneBehind
  <2>1. ReadIsPending
    BY <1>2, <1>3 DEF BeforeStep, InFullInv, NoneBehind, ReadIsPending
  <2>2. ReadIsPending'
    BY <1>1, <2>1, InvParts, ArrivalIsPending DEF BeforeStep
  <2> QED
    BY <2>2 DEF ReadIsPending
<1>6. \A id \in peerDone : peerBody'[id] = peerBody[id]
  <2>1. ASSUME NEW x \in StreamIds, NEW data \in Arrivals, NEW fin \in BOOLEAN,
               PeerSends(x, data, fin), NEW id \in peerDone
        PROVE  peerBody'[id] = peerBody[id]
    <3>1. id # x /\ peerBody' = [peerBody EXCEPT ![x] = @ \o data]
      BY <2>1 DEF PeerSends
    <3>2. peerBody \in [StreamIds -> Seq(Chunks)]
      BY InvParts DEF BeforeStep, QuicTypeOK
    <3> QED
      BY <3>1, <3>2
  <2> QED
    BY <1>1, <2>1 DEF Arrival, PeerResets, QuicCloses, ConnectionEnds
<1>7. NativeCompletedInFull'
  BY <1>2, <1>3, <1>6, CompletedKept
<1> QED
  BY <1>4, <1>5, <1>7 DEF InFullInv

\* The methods of the connection leave the queues and the streams alone.
LEMMA ConnectionCallInFull ==
  ASSUME BeforeStep, NativeStepOK, NativeConnectionCall
  PROVE  InFullInv'
<1>1. ConnectionCall /\ UNCHANGED <<feed, refused>>
  BY DEF NativeConnectionCall, nativeVars
<1>2. UNCHANGED <<polling, batch, quicEvents, unread, peerBody, hungUp>>
  BY <1>1 DEF ConnectionCall, OpenRequestStream, RefusedOpen, FetchRequestStream,
              CloseConnection, CreateRequestStream, GetRequestStream, Close, connectionVars,
              quicVars, quicHistory
<1>3. /\ remoteEnded' \subseteq remoteEnded
      /\ failures' = failures \/ failures' = failures + 1
  BY <1>1 DEF ConnectionCall, OpenRequestStream, RefusedOpen, FetchRequestStream,
              CloseConnection, CreateRequestStream, GetRequestStream, Close, connectionVars,
              streamStateVars
<1>4. failures' = 0 => failures = 0
  BY <1>3, InvParts DEF BeforeStep, QuicTypeOK
<1> QED
  BY <1>1, <1>2, <1>3, <1>4, InFullKept DEF Parsing

\* A request stream completes at most the stream that it resets.
LEMMA StreamCallInFull ==
  ASSUME BeforeStep, NativeStepOK, NativeStreamCall
  PROVE  InFullInv'
<1>1. PICK x \in StreamIds :
         \/ BeginHeaders(x)
         \/ HeadersRefused(x)
         \/ \E piece \in {<<>>} \cup {<<chunk>> : chunk \in BodyPieces} : BeginData(x, piece)
         \/ BeginEnd(x)
         \/ \E code \in ErrorCodes : NativeReset(x, code) \/ ResetThrows(x, code)
  BY DEF NativeStreamCall
<1>2. failures \in Nat
  BY InvParts DEF BeforeStep, QuicTypeOK
<1>3. ASSUME sendFrame' = sendFrame, failures' = failures \/ failures' = failures + 1,
             hungUp' = hungUp
      PROVE  InFullInv'
  <2>1. UNCHANGED <<polling, batch, quicEvents, unread, peerBody, feed, refused, remoteEnded>>
    BY <1>3, Zenon DEF sendFrame, connectionVars, streamStateVars, quicHistory
  <2> QED
    BY <1>2, <1>3, <2>1, InFullKept DEF Parsing
<1>4. ASSUME NEW code \in ErrorCodes, NativeReset(x, code) \/ ResetThrows(x, code)
      PROVE  InFullInv'
  <2>1. UNCHANGED <<polling, batch, quicEvents, unread, peerBody, feed, refused>>
    BY <1>4 DEF NativeReset, ResetThrows, resetFrame, quicHistory
  <2>2. remoteEnded' \subseteq remoteEnded \cup {x}
    BY <1>4, TerminalCompletes
       DEF NativeReset, ResetThrows, ResetInH3, CloseInH3, streamStateVars
  <2>3. \/ failures' = failures /\ hungUp' = hungUp \cup {x}
        \/ failures' = failures + 1 /\ hungUp' = hungUp
    BY <1>4 DEF NativeReset, ResetThrows
  <2>4. failures' = 0 => failures = 0 /\ remoteEnded' \subseteq remoteEnded \cup hungUp'
    BY <1>2, <2>2, <2>3
  <2> QED
    BY <2>1, <2>3, <2>4, InFullKept DEF Parsing
<1> QED
  BY <1>1, <1>3, <1>4 DEF BeginHeaders, HeadersRefused, BeginData, BeginEnd

\* A flush loop completes nothing.
LEMMA FlushInFull ==
  ASSUME BeforeStep, NativeStepOK, Flush
  PROVE  InFullInv'
<1>1. failures \in Nat
  BY InvParts DEF BeforeStep, QuicTypeOK
<1>2. /\ UNCHANGED <<polling, batch, quicEvents, unread, peerBody, feed, refused, remoteEnded>>
      /\ hungUp \subseteq hungUp'
      /\ failures' = failures \/ failures' = failures + 1
  <2>1. ASSUME NEW id \in StreamIds, FlushWrite(id) \/ FlushThrows(id)
        PROVE  /\ UNCHANGED <<polling, batch, quicEvents, unread, peerBody, feed, refused,
                              remoteEnded>>
               /\ hungUp \subseteq hungUp'
               /\ failures' = failures \/ failures' = failures + 1
    <3>1. flushFrame' = flushFrame
      BY <2>1 DEF FlushWrite, FlushThrows
    <3>2. UNCHANGED <<polling, batch, quicEvents, unread, peerBody, feed, refused, remoteEnded>>
      BY <3>1, Zenon DEF flushFrame, sendFrame, connectionVars, streamStateVars, quicHistory
    <3> QED
      BY <2>1, <3>2 DEF FlushWrite, FlushThrows, FinishQuicStream
  <2>2. CASE FlushReturns
    <3>1. UNCHANGED <<polling, remoteEnded>>
      BY <2>2 DEF FlushReturns, SubmitHeaders, SubmitData, End, connectionVars, streamStateVars
    <3> QED
      BY <2>2, <3>1 DEF FlushReturns, quicVars, quicHistory
  <2> QED
    BY <2>1, <2>2 DEF Flush
<1> QED
  BY <1>1, <1>2, InFullKept DEF Parsing

\* A read loop takes all there is of its stream, so nothing stays behind it.
LEMMA ReadableInFull ==
  ASSUME BeforeStep, NativeStepOK, FewUnread, ReadableToH3
  PROVE  InFullInv'
<1> DEFINE x == Head(batch).streamId
           n == ReadCount(x)
<1>1. /\ x \in StreamIds /\ batch \in Seq(QuicEvent) /\ batch # <<>> /\ polling
      /\ unread \in [StreamIds -> Seq(Chunks)]
  <2>1. x \in Reachable
    BY DEF ReadableToH3, FeedH3
  <2>2. x \in StreamIds
    BY <2>1, InvParts DEF BeforeStep, Reachable
  <2> QED
    BY <2>2, InvParts DEF BeforeStep, QuicTypeOK, ReadableToH3
<1>2. /\ unread' = [unread EXCEPT ![x] = SubSeq(@, n + 1, Len(@))]
      /\ UNCHANGED <<quicEvents, peerBody, terminal, remoteEnded, failures, hungUp>>
  BY DEF ReadableToH3, FeedH3, streamStateVars, quicHistory
<1>3. \/ /\ feed' = FeedOf(x, n) /\ batch' = Tail(batch) /\ UNCHANGED <<polling, refused>>
      \/ /\ polling' = FALSE /\ batch' = <<>> /\ refused' = TRUE
  BY DEF ReadableToH3, FeedH3, ThrowFromPoll
<1>4. quicEvents = <<>> /\ Pending = batch
  BY <1>1 DEF BeforeStep, InFullInv, OneQueue, Pending
<1>5. OneQueue'
  BY <1>1, <1>2, <1>3, <1>4 DEF OneQueue
<1>6. unread'[x] = <<>> /\ \A id \in StreamIds : id # x => unread'[id] = unread[id]
  <2>1. SubSeq(unread[x], n + 1, Len(unread[x])) = <<>>
    BY <1>1, ReadTakesAll DEF FewUnread
  <2> QED
    BY <1>1, <1>2, <2>1
<1> HIDE DEF n
<1>7. CASE refused'
  BY <1>5, <1>7, ThrowEndsIt
<1>8. CASE ~refused'
  <2>1. feed' = FeedOf(x, n) /\ batch' = Tail(batch) /\ polling' /\ ~refused
    <3>1. UNCHANGED <<polling, refused>> /\ feed' = FeedOf(x, n) /\ batch' = Tail(batch)
      BY <1>3, <1>8, Zenon
    <3>2. polling' = polling /\ refused' = refused
      BY <3>1, Zenon
    <3>3. polling
      BY <1>1
    <3>4. polling' /\ ~refused
      BY <1>8, <3>2, <3>3
    <3> QED
      BY <3>1, <3>4
  <2>2. Parsing' => feed'.id = x
    <3> DEFINE data == SubSeq(unread[x], 1, n)
    <3>1. feed' = Feed(x, data, x \in quicClosed)
      BY <2>1 DEF FeedOf
    <3> HIDE DEF data, x
    <3>2. feed' = NoFeed \/ feed' = [id |-> x, data |-> data, fin |-> x \in quicClosed]
      BY <3>1 DEF Feed
    <3>3. CASE feed' = NoFeed
      BY <3>3 DEF Parsing
    <3>4. CASE feed' = [id |-> x, data |-> data, fin |-> x \in quicClosed]
      BY <3>4
    <3> QED
      BY <3>2, <3>3, <3>4
  <2>3. ASSUME failures = 0, NEW id \in StreamIds \ terminal, unread'[id] # <<>>
        PROVE  Awaits(Tail(batch), id)
    <3>1. id # x /\ unread[id] # <<>>
      BY <1>6, <2>3
    <3>2. Awaits(batch, id)
      BY <1>4, <2>1, <2>3, <3>1 DEF BeforeStep, InFullInv, NoneBehind
    <3>3. ~Offers(Head(batch), id)
      BY <3>1 DEF Offers
    <3> QED
      BY <1>1, <3>2, <3>3, AwaitsTail
  <2>4. Pending' = Tail(batch)
    BY <2>1 DEF Pending
  <2> HIDE DEF x
  <2>5. NoneBehind'
    BY <1>2, <1>6, <2>2, <2>3, <2>4 DEF NoneBehind
  <2>6. NativeCompletedInFull'
    BY <1>2, <2>1, CompletedKept
  <2> QED
    BY <1>5, <2>5, <2>6 DEF InFullInv
<1> QED
  BY <1>7, <1>8

\* nghttp3 completes a stream when it has parsed all that came of it.
LEMMA ParseInFull ==
  ASSUME BeforeStep, NativeStepOK, Parse
  PROVE  InFullInv'
<1> DEFINE x == feed.id
<1>1. /\ Parsing /\ UNCHANGED <<pollFrame, polling, batch, hungUp, failures, refused>>
      /\ ParseHeaders \/ ParseData \/ ParseEnd
      /\ feed' = IF feed.data = <<>> THEN NoFeed ELSE Feed(x, Tail(feed.data), feed.fin)
  BY DEF Parse
<1>2. UNCHANGED <<polling, batch, quicEvents, unread, peerBody, delivered>>
  BY <1>1, Zenon DEF pollFrame, quicHistory
<1>3. Parsing' => Parsing /\ feed'.id = feed.id
  BY <1>1 DEF Feed, Parsing
<1>4. CASE ParseHeaders \/ ParseData
  <2>1. remoteEnded' = remoteEnded
    BY <1>4 DEF ParseHeaders, ParseData
  <2> QED
    BY <1>1, <1>2, <1>3, <2>1, InFullKept
<1>5. CASE ParseEnd
  <2>1. x \in StreamIds /\ ConnectionTypeOK
    BY <1>1, InvParts DEF BeforeStep, H3Agrees, OneCallAtATime, QuicTypeOK
  <2>2. EmitTerminalOnce(x, RequestCompleted(x)) /\ RequestCompleted(x).payload = <<>>
    BY <1>5 DEF ParseEnd, RequestCompleted
  <2>3. RequestCompleted(x) \in Event
    BY <2>1, EventsAreTyped
  <2>4. \A id : BodyOf(History', id) = BodyOf(History, id)
    BY <1>2, <2>1, <2>2, <2>3, TerminalBody
  <2>5. ASSUME failures = 0, ~refused, NEW id \in remoteEnded' \ remoteEnded
        PROVE  id \notin terminal /\ Coming(id) = <<>>
    <3>1. id = x /\ id \notin terminal
      BY <2>2, <2>5 DEF EmitTerminalOnce
    <3>2. Fed(id) = <<>> /\ unread[id] = <<>>
      BY <1>1, <1>5, <2>5, <3>1 DEF BeforeStep, InFullInv, NoneBehind, ParseEnd, Fed
    <3>3. <<>> \o <<>> = <<>>
      BY PieceConcat, EmptySeq DEF Pieces
    <3> QED
      BY <3>1, <3>2, <3>3 DEF Coming
  <2>6. NativeCompletedInFull'
    BY <1>1, <1>2, <2>4, <2>5, CompletedKept
  <2>7. OneQueue' /\ NoneBehind'
    BY <1>1, <1>2, <1>3, NoneBehindKept
  <2> QED
    BY <2>6, <2>7 DEF InFullInv
<1> QED
  BY <1>1, <1>4, <1>5

\* A message nghttp3 rejects is not complete.
LEMMA RejectInFull ==
  ASSUME BeforeStep, NativeStepOK, ParseReject
  PROVE  InFullInv'
<1>1. UNCHANGED <<quicEvents, unread, peerBody, refused>> /\ ~Parsing'
  <2>1. UNCHANGED pollFrame /\ feed' = NoFeed /\ refused' = refused
    BY DEF ParseReject, ThrowFromPoll
  <2> QED
    BY <2>1, Zenon DEF pollFrame, quicHistory, Parsing
<1>2. remoteEnded' = remoteEnded
  <2>1. PICK code \in ErrorCodes \ {0} : CloseInH3(feed.id, code)
    BY DEF ParseReject
  <2>2. CloseEvent(feed.id, code).type = "StreamReset"
    BY <2>1 DEF CloseEvent, StreamReset
  <2> QED
    BY <2>1, <2>2, TerminalCompletes DEF CloseInH3
<1>3. \/ hungUp \subseteq hungUp' /\ UNCHANGED <<polling, batch, failures>>
      \/ failures' = failures + 1 /\ ~polling' /\ batch' = <<>>
  BY DEF ParseReject, ThrowFromPoll
<1>4. CASE hungUp \subseteq hungUp' /\ UNCHANGED <<polling, batch, failures>>
  BY <1>1, <1>2, <1>4, InFullKept
<1>5. CASE failures' = failures + 1 /\ ~polling' /\ batch' = <<>>
  <2>1. failures' # 0
    BY <1>5, InvParts DEF BeforeStep, QuicTypeOK
  <2>2. OneQueue'
    BY <1>5 DEF OneQueue
  <2> QED
    BY <2>1, <2>2, ThrowEndsIt
<1> QED
  BY <1>3, <1>4, <1>5

\* The end of a stream is taken behind all there is to read of it.
LEMMA ConsumeInFull ==
  ASSUME BeforeStep, NativeStepOK, ConsumeNativeEvent
  PROVE  InFullInv'
<1> DEFINE event == Head(batch)
           x == event.streamId
<1>1. /\ polling /\ batch # <<>> /\ batch' = Tail(batch) /\ ~Parsing
      /\ EndInH3 \/ EndOutsideH3 \/ ClosingOutsideH3
      /\ UNCHANGED <<polling, quicEvents, unread, peerBody, failures, hungUp, feed, refused>>
  BY DEF ConsumeNativeEvent, quicVars, quicHistory
<1>2. NativeInv /\ NoneBehind /\ batch \in Seq(QuicEvent)
  BY InvParts DEF BeforeStep, InFullInv, QuicTypeOK
<1>3. OneQueue' /\ Pending = batch /\ Pending' = Tail(batch)
  BY <1>1 DEF BeforeStep, InFullInv, OneQueue, Pending
<1>4. event.type # "STREAM_READABLE"
  BY <1>1 DEF EndInH3, EndOutsideH3, ClosingOutsideH3
<1>5. ASSUME failures = 0, ~refused, NEW id \in StreamIds \ terminal, unread[id] # <<>>
      PROVE  Awaits(Tail(batch), id) /\ ~Closes(event, id)
  <2>1. Awaits(batch, id)
    BY <1>2, <1>3, <1>5 DEF NoneBehind
  <2>2. ~Offers(event, id)
    BY <1>4 DEF Offers
  <2> QED
    BY <1>1, <1>2, <2>1, <2>2, AwaitsTail
<1>6. NoneBehind'
  BY <1>1, <1>3, <1>5, EndedStayEnded DEF NoneBehind, Parsing
<1>7. ASSUME NEW id \in remoteEnded' \ remoteEnded
      PROVE  id \in StreamIds \ terminal /\ Closes(event, id)
  <2>1. CASE EndInH3
    <3>1. /\ event.type \in EndTypes
          /\ \E code : EmitTerminalOnce(x, CloseEvent(x, code))
      BY <2>1 DEF EndInH3, CloseInH3, EndTypes
    <3>2. id = x /\ id \notin terminal
      BY <1>7, <3>1 DEF EmitTerminalOnce
    <3>3. x \in StreamIds
      BY <2>1 DEF EndInH3, H3Streams
    <3> QED
      BY <3>1, <3>2, <3>3 DEF Closes
  <2>2. CASE EndOutsideH3
    <3>1. /\ event.type \in EndTypes
          /\ ConsumeReadable(x, <<>>, TRUE) \/ ConsumeReset(x, event.errorCode)
      BY <2>2 DEF EndOutsideH3, EndTypes
    <3>2. x \in StreamIds
      BY <1>1, <1>2, <3>1, InvParts, HeadIsTyped DEF EndTypes, StreamEventTypes
    <3> HIDE DEF event, x
    <3>3. id = x /\ id \notin terminal
      BY <1>7, <3>1 DEF ConsumeReadable, ConsumeLateReadable, ConsumeLiveReadable, ConsumeReset,
                        ConsumeLateReset, ConsumeLiveReset, streamStateVars
    <3> QED
      BY <3>1, <3>2, <3>3 DEF Closes, x
  <2>3. CASE ClosingOutsideH3
    BY <1>7, <2>3 DEF ClosingOutsideH3, ConsumeClosing, ConsumeFirstClosing, ConsumeLaterClosing,
                      ConsumeLateClosing, streamStateVars
  <2> QED
    BY <1>1, <2>1, <2>2, <2>3
<1> HIDE DEF event
<1>8. ASSUME failures = 0, ~refused, NEW id \in remoteEnded' \ remoteEnded
      PROVE  id \notin terminal /\ Coming(id) = <<>> /\ BodyOf(History', id) = BodyOf(History, id)
  <2>1. id \in StreamIds \ terminal /\ Closes(event, id)
    BY <1>8, <1>7
  <2>2. unread[id] = <<>> /\ Fed(id) = <<>>
    BY <1>1, <1>5, <1>8, <2>1 DEF Fed, Parsing, NoFeed
  <2>3. <<>> \o <<>> = <<>>
    BY PieceConcat, EmptySeq DEF Pieces
  <2> QED
    BY <1>2, <2>1, <2>2, <2>3, ConsumeTellsNoBody DEF Coming
<1>9. NativeCompletedInFull'
  BY <1>1, <1>8, CompletedKept
<1> QED
  BY <1>3, <1>6, <1>9 DEF InFullInv

\* Every step of pollEvents() keeps completion full.
LEMMA PollInFull ==
  ASSUME BeforeStep, NativeStepOK, FewUnread, NativePoll
  PROVE  InFullInv'
<1>1. CASE DrainEvents /\ UNCHANGED nativeVars
  <2>1. /\ ~polling /\ polling' /\ batch' = quicEvents /\ quicEvents' = <<>>
        /\ UNCHANGED <<unread, peerBody, remoteEnded, failures, hungUp, feed, refused>>
    BY <1>1 DEF DrainEvents, streamStateVars, quicHistory, nativeVars
  <2>2. OneQueue' /\ Pending' = Pending /\ terminal \subseteq terminal'
    BY <2>1, EndedStayEnded DEF OneQueue, Pending
  <2>3. NoneBehind'
    BY <2>1, <2>2 DEF BeforeStep, InFullInv, NoneBehind, Parsing
  <2>4. NativeCompletedInFull'
    BY <2>1, CompletedKept
  <2> QED
    BY <2>2, <2>3, <2>4 DEF InFullInv
<1>2. CASE ParseFails
  <2>1. OneQueue' /\ refused'
    BY <1>2 DEF ParseFails, ThrowFromPoll, OneQueue
  <2> QED
    BY <2>1, ThrowEndsIt
<1>3. CASE AbortPoll
  <2>1. OneQueue' /\ failures' # 0
    BY <1>3, InvParts DEF BeforeStep, AbortPoll, OneQueue, QuicTypeOK
  <2> QED
    BY <2>1, ThrowEndsIt
<1>4. CASE PollReturn /\ UNCHANGED nativeVars
  <2>1. /\ polling /\ ~polling' /\ batch = <<>>
        /\ UNCHANGED <<batch, quicEvents, unread, peerBody, remoteEnded, failures, hungUp, feed,
                       refused>>
    BY <1>4 DEF PollReturn, ReturnEvents, streamStateVars, quicVars, quicHistory, nativeVars
  <2>2. OneQueue' /\ Pending' = Pending /\ terminal \subseteq terminal'
    BY <2>1, EndedStayEnded DEF BeforeStep, InFullInv, OneQueue, Pending
  <2>3. NoneBehind'
    BY <2>1, <2>2 DEF BeforeStep, InFullInv, NoneBehind, Parsing
  <2>4. NativeCompletedInFull'
    BY <2>1, CompletedKept
  <2> QED
    BY <2>2, <2>3, <2>4 DEF InFullInv
<1> QED
  BY <1>1, <1>2, <1>3, <1>4, ReadableInFull, ParseInFull, RejectInFull, ConsumeInFull
     DEF NativePoll

\* A new connection holds nothing unread and has completed nothing.
LEMMA InitInFull == NativeInit => InFullInv
<1> SUFFICES ASSUME NativeInit PROVE InFullInv
  OBVIOUS
<1>1. Init /\ ~Parsing /\ remoteEnded = {} /\ ~polling /\ batch = <<>>
  BY DEF NativeInit, Init, ConnectionInit, Parsing
<1>2. \A id \in StreamIds : unread[id] = <<>>
  BY <1>1, Zenon DEF Init
<1> QED
  BY <1>1, <1>2 DEF InFullInv, OneQueue, NoneBehind, NativeCompletedInFull

\* As long as no event finds more to read than the bound on reads, no call throws
\* and nghttp3 refuses nothing, a stream reported complete, that the application
\* has not ended itself, has told all of its body, however arrivals, reads,
\* callbacks, closing events and the application's calls interleave.
THEOREM NativeCompletionInFull == NativeSpec /\ []FewUnread => []NativeCompletedInFull
<1>1. BeforeStep /\ FewUnread /\ [NativeNext]_allVars => InFullInv'
  <2>1. ASSUME BeforeStep, FewUnread, NativeNext
        PROVE  InFullInv'
    <3>1. NativeStepOK
      BY <2>1, NativeNextOK DEF BeforeStep
    <3> QED
      BY <2>1, <3>1, ArrivalInFull, ConnectionCallInFull, StreamCallInFull, FlushInFull, PollInFull
         DEF NativeNext
  <2>2. ASSUME BeforeStep, UNCHANGED allVars
        PROVE  InFullInv'
    <3>1. /\ UNCHANGED <<polling, batch, quicEvents, unread, feed, refused, failures, remoteEnded,
                         hungUp, peerBody, terminal, eventVars>>
      BY <2>2 DEF allVars, vars, nativeVars, connectionVars, streamStateVars, quicVars, quicHistory
    <3>2. History' = History /\ Pending' = Pending
      BY <3>1 DEF History, Pending, eventVars
    <3>3. OneQueue' /\ NoneBehind' /\ NativeCompletedInFull'
      BY <2>2, <3>1, <3>2
         DEF BeforeStep, InFullInv, OneQueue, NoneBehind, NativeCompletedInFull, Parsing
    <3> QED
      BY <3>3 DEF InFullInv
  <2> QED
    BY <2>1, <2>2
<1>2. InFullInv => NativeCompletedInFull
  BY DEF InFullInv
<1> QED
  BY <1>1, <1>2, InitInFull, NativeInvariance, NativeBodyConservation, NativeCompletionEarned, PTL
     DEF NativeSpec, BeforeStep
=============================================================================
