------------------------- MODULE QuicTransportProofs -------------------------
(***************************************************************************)
(* What holds of an Http3Connection over a QUIC object for every set of    *)
(* streams, every body and any number of QUIC events and failing calls:    *)
(* its type invariant, the agreement of its state tables, that completion  *)
(* is earned, that it implements EventContract, so that events are in      *)
(* order and none is lost, and what becomes of the body of a stream.       *)
(***************************************************************************)
EXTENDS MCQuicTransport, Http3ConnectionProofs

StreamEventTypes == {"STREAM_READABLE", "STREAM_CLOSED", "STREAM_RESET"}
EndTypes == {"STREAM_CLOSED", "STREAM_RESET"}

\* Every event of one of these types in the queue is about one of these streams.
About(queue, types, ids) ==
    \A i \in 1..Len(queue) : queue[i].type \in types => queue[i].streamId \in ids

\* The connection, and the events it is about to consume, only know streams
\* that QUIC has.  So the id openStream() returns is new to the tables.
FreshIds ==
    /\ known \subseteq quicStreams
    /\ About(quicEvents, StreamEventTypes, quicStreams)
    /\ About(batch, StreamEventTypes, quicStreams)

\* A stream QUIC calls closed is one that may be closed, by the sides that ended
\* it, and an event that ends a stream is about one the peer or QUIC ended.
EndsAreReal ==
    /\ quicClosed \subseteq MayBeClosed
    /\ About(quicEvents, EndTypes, peerDone)
    /\ About(batch, EndTypes, peerDone)

Inv ==
    /\ TypeOK
    /\ FreshIds
    /\ EndsAreReal
    /\ ClosingAgreesWithState
    /\ TerminalClosesHandle
    /\ OneEnding
    /\ CompletionIsEarned

-----------------------------------------------------------------------------
(* Queues *)

\* An event that arrives, and streams that join, keep what a queue is about.
LEMMA AboutGrows ==
  ASSUME NEW queue \in Seq(QuicEvent), NEW types, NEW ids, NEW more, ids \subseteq more,
         About(queue, types, ids),
         NEW event \in QuicEvent, event.type \in types => event.streamId \in more
  PROVE  About(queue, types, more) /\ About(Append(queue, event), types, more)
<1>1. About(queue, types, more)
  BY DEF About
<1>2. \A i \in 1..Len(Append(queue, event)) :
         \/ i \in 1..Len(queue) /\ Append(queue, event)[i] = queue[i]
         \/ Append(queue, event)[i] = event
  OBVIOUS
<1>3. QED  BY <1>1, <1>2 DEF About

\* Consuming the first event keeps it too, and says what that event is about.
LEMMA AboutTail ==
  ASSUME NEW queue \in Seq(QuicEvent), queue # <<>>, NEW types, NEW ids,
         About(queue, types, ids)
  PROVE  /\ About(Tail(queue), types, ids)
         /\ Head(queue).type \in types => Head(queue).streamId \in ids
<1>1. \A i \in 1..Len(Tail(queue)) : i + 1 \in 1..Len(queue) /\ Tail(queue)[i] = queue[i + 1]
  OBVIOUS
<1>2. 1 \in 1..Len(queue) /\ Head(queue) = queue[1]
  OBVIOUS
<1>3. QED  BY <1>1, <1>2 DEF About

\* An empty queue is about nothing.
LEMMA AboutEmpty ==
  ASSUME NEW types, NEW ids
  PROVE  About(<<>>, types, ids)
BY DEF About

-----------------------------------------------------------------------------
(* The signal behind a QUIC event *)

\* What the read loop takes is a payload, what it leaves a sequence.
LEMMA ReadIsTyped ==
  ASSUME NEW id \in StreamIds, unread \in [StreamIds -> Seq(Chunks)],
         NEW n \in 0..ReadCount(id)
  PROVE  /\ SubSeq(unread[id], 1, n) \in Payloads
         /\ SubSeq(unread[id], n + 1, Len(unread[id])) \in Seq(Chunks)
<1> DEFINE s == unread[id]
<1>1. s \in Seq(Chunks) /\ Len(s) \in Nat
  OBVIOUS
<1>2. MaxReads \in Nat /\ MaxReads <= MaxPayload /\ MaxPayload \in Nat
  BY MaxReadsAssumption, MaxPayloadAssumption
<1>3. n \in Nat /\ n <= Len(s) /\ n <= MaxReads
  BY <1>1, <1>2 DEF ReadCount
<1> HIDE DEF s
<1>4. SubSeq(s, 1, n) \in [1..n -> Chunks]
  <2>1. \A i \in 1..n : s[i] \in Chunks
    BY <1>1, <1>3
  <2>2. SubSeq(s, 1, n) = [i \in 1..n |-> s[i]]
    BY <1>1, <1>3
  <2>3. QED  BY <2>1, <2>2
<1>5. n \in 0..MaxPayload
  BY <1>2, <1>3
<1>6. SubSeq(s, 1, n) \in Payloads
  BY <1>4, <1>5 DEF Payloads
<1>7. SubSeq(s, n + 1, Len(s)) \in Seq(Chunks)
  <2>1. \A i \in n + 1..Len(s) : s[i] \in Chunks
    BY <1>1, <1>3
  <2>2. QED  BY <1>1, <1>3, <2>1, SubSeqProperties
<1>8. QED  BY <1>6, <1>7 DEF s

\* The first drained event, by its type.
LEMMA HeadIsTyped ==
  ASSUME TypeOK, FreshIds, EndsAreReal, batch # <<>>
  PROVE  /\ Head(batch) \in QuicEvent
         /\ Tail(batch) \in Seq(QuicEvent)
         /\ Head(batch).errorCode \in ErrorCodes
         /\ Head(batch).type \in StreamEventTypes => Head(batch).streamId \in quicStreams
         /\ Head(batch).type \in EndTypes => Head(batch).streamId \in peerDone
<1>1. batch \in Seq(QuicEvent)
  BY DEF TypeOK, QuicTypeOK
<1>2. Head(batch) \in QuicEvent /\ Tail(batch) \in Seq(QuicEvent)
  BY <1>1
<1>3. Head(batch).errorCode \in ErrorCodes
  BY <1>2 DEF QuicEvent
<1>4. Head(batch).type \in StreamEventTypes => Head(batch).streamId \in quicStreams
  BY <1>1, AboutTail DEF FreshIds
<1>5. Head(batch).type \in EndTypes => Head(batch).streamId \in peerDone
  BY <1>1, AboutTail DEF EndsAreReal
<1>6. QED  BY <1>2, <1>3, <1>4, <1>5

\* A QUIC event is consumed as one signal about a stream QUIC has, and a fin
\* is one that somebody meant.
LEMMA EventIsSignal ==
  ASSUME TypeOK, FreshIds, EndsAreReal, ConsumeQuicEvent
  PROVE  /\ \/ \E id \in quicStreams, data \in Payloads, fin \in BOOLEAN :
                  /\ ConsumeReadable(id, data, fin)
                  /\ fin => id \in MayBeClosed
            \/ \E id \in quicStreams, code \in ErrorCodes : ConsumeReset(id, code)
            \/ \E code \in ErrorCodes, isClosed \in BOOLEAN : ConsumeClosing(code, isClosed)
         /\ UNCHANGED <<delivered, polling>>
         /\ cached' \subseteq quicStreams
         /\ unread' \in [StreamIds -> Seq(Chunks)]
<1> DEFINE event == Head(batch)
<1>1. batch # <<>> /\ UNCHANGED <<delivered, polling>>
  BY DEF ConsumeQuicEvent
<1>2. /\ event.errorCode \in ErrorCodes
      /\ event.type \in StreamEventTypes => event.streamId \in quicStreams
      /\ event.type \in EndTypes => event.streamId \in peerDone
  BY <1>1, HeadIsTyped
<1>3. \/ event.type = "STREAM_READABLE" /\ ReadStream(event.streamId)
      \/ /\ event.type = "STREAM_CLOSED"
         /\ ConsumeReadable(event.streamId, <<>>, TRUE)
         /\ UNCHANGED <<cached, unread>>
      \/ /\ event.type = "STREAM_RESET"
         /\ ConsumeReset(event.streamId, event.errorCode)
         /\ UNCHANGED <<cached, unread>>
      \/ /\ event.type \in {"CONNECTION_CLOSED", "CONNECTION_DRAINING"}
         /\ ConsumeClosing(event.errorCode, event.type = "CONNECTION_CLOSED")
         /\ UNCHANGED <<cached, unread>>
  BY DEF ConsumeQuicEvent
<1> HIDE DEF event
<1>4. /\ cached \subseteq quicStreams
      /\ quicStreams \subseteq StreamIds
      /\ unread \in [StreamIds -> Seq(Chunks)]
  BY DEF TypeOK, QuicTypeOK
<1>5. CASE event.type = "STREAM_READABLE" /\ ReadStream(event.streamId)
  <2> DEFINE id == event.streamId
             n == ReadCount(id)
  <2>1. id \in quicStreams /\ id \in StreamIds
    BY <1>2, <1>4, <1>5 DEF StreamEventTypes
  <2>2. /\ cached' = cached \cup {id}
        /\ unread' = [unread EXCEPT ![id] = SubSeq(@, n + 1, Len(@))]
        /\ ConsumeReadable(id, SubSeq(unread[id], 1, n), id \in quicClosed)
    BY <1>5 DEF ReadStream
  <2>3. n \in 0..n
    BY <1>4, <2>1, MaxReadsAssumption, MaxPayloadAssumption DEF ReadCount
  <2>4. /\ SubSeq(unread[id], 1, n) \in Payloads
        /\ SubSeq(unread[id], n + 1, Len(unread[id])) \in Seq(Chunks)
    BY <1>4, <2>1, <2>3, ReadIsTyped
  <2>5. id \in quicClosed => id \in MayBeClosed
    BY DEF EndsAreReal
  <2> HIDE DEF id, n
  <2>6. unread' \in [StreamIds -> Seq(Chunks)]
    BY <1>4, <2>1, <2>2, <2>4
  <2>7. \E data \in Payloads, fin \in BOOLEAN :
           ConsumeReadable(id, data, fin) /\ (fin => id \in MayBeClosed)
    <3> DEFINE fin == id \in quicClosed
    <3>1. fin \in BOOLEAN
      OBVIOUS
    <3>2. ConsumeReadable(id, SubSeq(unread[id], 1, n), fin)
      BY <2>2
    <3>3. fin => id \in MayBeClosed
      BY <2>5
    <3> HIDE DEF fin
    <3>4. QED  BY <2>4, <3>1, <3>2, <3>3
  <2>8. QED  BY <1>1, <1>4, <2>1, <2>2, <2>6, <2>7
<1>6. CASE /\ event.type = "STREAM_CLOSED"
           /\ ConsumeReadable(event.streamId, <<>>, TRUE)
           /\ UNCHANGED <<cached, unread>>
  <2>1. event.streamId \in quicStreams /\ event.streamId \in peerDone
    BY <1>2, <1>6 DEF StreamEventTypes, EndTypes
  <2>2. QED  BY <1>1, <1>4, <1>6, <2>1, EmptyPayload DEF MayBeClosed
<1>7. CASE /\ event.type = "STREAM_RESET"
           /\ ConsumeReset(event.streamId, event.errorCode)
           /\ UNCHANGED <<cached, unread>>
  <2>1. event.streamId \in quicStreams
    BY <1>2, <1>7 DEF StreamEventTypes
  <2>2. QED  BY <1>1, <1>2, <1>4, <1>7, <2>1
<1>8. CASE /\ event.type \in {"CONNECTION_CLOSED", "CONNECTION_DRAINING"}
           /\ ConsumeClosing(event.errorCode, event.type = "CONNECTION_CLOSED")
           /\ UNCHANGED <<cached, unread>>
  <2> DEFINE isClosed == event.type = "CONNECTION_CLOSED"
  <2>1. isClosed \in BOOLEAN
    OBVIOUS
  <2>2. ConsumeClosing(event.errorCode, isClosed)
    BY <1>8
  <2> HIDE DEF isClosed
  <2>3. QED  BY <1>1, <1>2, <1>4, <1>8, <2>1, <2>2
<1>9. QED  BY <1>3, <1>5, <1>6, <1>7, <1>8

-----------------------------------------------------------------------------
(* The type invariant *)

\* An event that arrives joins the queue, and touches nothing of the connection.
LEMMA ArrivesTyped ==
  ASSUME TypeOK, NEW type \in QuicEventTypes, NEW id \in StreamIds \cup {NoStream},
         NEW code \in ErrorCodes, QuicEventArrives(type, id, code)
  PROVE  /\ ConnectionTypeOK'
         /\ quicEvents' \in Seq(QuicEvent)
         /\ batch' \in Seq(QuicEvent)
         /\ arrivals' \in 0..MaxArrivals
         /\ failures' \in 0..MaxFailures
<1> DEFINE event == [type |-> type, streamId |-> id, errorCode |-> code]
<1>1. event \in QuicEvent
  BY DEF QuicEvent
<1>2. quicEvents' = Append(quicEvents, event)
  BY DEF QuicEventArrives
<1> HIDE DEF event
<1>3. ConnectionTypeOK'
  BY DEF TypeOK, ConnectionTypeOK, QuicEventArrives, connectionVars, lifecycleVars,
         streamStateVars, handleVars, eventVars
<1>4. quicEvents' \in Seq(QuicEvent)
  BY <1>1, <1>2 DEF TypeOK, QuicTypeOK
<1>5. arrivals' \in 0..MaxArrivals
  BY MaxArrivalsAssumption DEF TypeOK, QuicTypeOK, QuicEventArrives
<1>6. batch' \in Seq(QuicEvent) /\ failures' \in 0..MaxFailures
  BY DEF TypeOK, QuicTypeOK, QuicEventArrives
<1>7. QED  BY <1>3, <1>4, <1>5, <1>6

\* What the QUIC side does keeps the types.
LEMMA ArrivalTyped ==
  ASSUME TypeOK, Arrival
  PROVE  TypeOK'
<1>1. /\ {"STREAM_READABLE", "STREAM_RESET", "STREAM_CLOSED"} \subseteq QuicEventTypes
      /\ {"CONNECTION_CLOSED", "CONNECTION_DRAINING"} \subseteq QuicEventTypes
      /\ 0 \in ErrorCodes
      /\ PeerIds \subseteq StreamIds
  BY ErrorCodesAssumption, PeerIdsAssumption DEF QuicEventTypes
<1>2. /\ quicStreams \subseteq StreamIds
      /\ unread \in [StreamIds -> Seq(Chunks)]
      /\ peerBody \in [StreamIds -> Seq(Chunks)]
      /\ quicClosed \subseteq quicStreams
      /\ cached \subseteq quicStreams
      /\ peerDone \subseteq quicStreams
      /\ hungUp \subseteq quicStreams
  BY DEF TypeOK, QuicTypeOK
<1>3. ASSUME NEW id \in StreamIds, NEW data \in Arrivals, NEW fin \in BOOLEAN,
             PeerSends(id, data, fin)
      PROVE  TypeOK'
  <2>1. QuicEventArrives("STREAM_READABLE", id, 0)
    BY <1>3 DEF PeerSends
  <2>2. data \in Seq(Chunks)
    <3>1. CASE data = <<>>
      BY <3>1
    <3>2. ASSUME NEW chunk \in Chunks, data = <<chunk>>
          PROVE  data \in Seq(Chunks)
      BY <3>2
    <3>3. QED  BY <3>1, <3>2 DEF Arrivals
  <2>3. unread[id] \o data \in Seq(Chunks) /\ peerBody[id] \o data \in Seq(Chunks)
    BY <1>2, <2>2, ConcatProperties
  <2>4. unread' \in [StreamIds -> Seq(Chunks)] /\ peerBody' \in [StreamIds -> Seq(Chunks)]
    BY <1>2, <1>3, <2>3 DEF PeerSends
  <2>5. /\ quicStreams' \subseteq StreamIds
        /\ quicClosed' \subseteq quicStreams'
        /\ peerDone' \subseteq quicStreams'
        /\ cached' \subseteq quicStreams'
        /\ hungUp' \subseteq quicStreams'
    BY <1>2, <1>3, <2>1 DEF PeerSends, ClosedWith, PeerUses, QuicEventArrives
  <2>6. QED  BY <1>1, <2>1, <2>4, <2>5, ArrivesTyped DEF TypeOK, QuicTypeOK
<1>4. ASSUME NEW id \in StreamIds, NEW code \in ErrorCodes, PeerResets(id, code)
      PROVE  TypeOK'
  <2>1. QuicEventArrives("STREAM_RESET", id, code)
    BY <1>4 DEF PeerResets
  <2>2. unread' \in [StreamIds -> Seq(Chunks)] /\ peerBody' \in [StreamIds -> Seq(Chunks)]
    BY <1>2, <1>4 DEF PeerResets
  <2>3. /\ quicStreams' \subseteq StreamIds
        /\ quicClosed' \subseteq quicStreams'
        /\ peerDone' \subseteq quicStreams'
        /\ cached' \subseteq quicStreams'
        /\ hungUp' \subseteq quicStreams'
    BY <1>2, <1>4, <2>1 DEF PeerResets, PeerUses, QuicEventArrives
  <2>4. QED  BY <1>1, <2>1, <2>2, <2>3, ArrivesTyped DEF TypeOK, QuicTypeOK
<1>5. ASSUME NEW id \in StreamIds, QuicCloses(id)
      PROVE  TypeOK'
  <2>1. QuicEventArrives("STREAM_CLOSED", id, 0)
    BY <1>5 DEF QuicCloses
  <2>2. unread' \in [StreamIds -> Seq(Chunks)] /\ peerBody' \in [StreamIds -> Seq(Chunks)]
    BY <1>2, <1>5 DEF QuicCloses
  <2>3. /\ quicStreams' \subseteq StreamIds
        /\ quicClosed' \subseteq quicStreams'
        /\ peerDone' \subseteq quicStreams'
        /\ cached' \subseteq quicStreams'
        /\ hungUp' \subseteq quicStreams'
    BY <1>2, <1>5, <2>1 DEF QuicCloses, QuicEventArrives
  <2>4. QED  BY <1>1, <2>1, <2>2, <2>3, ArrivesTyped DEF TypeOK, QuicTypeOK
<1>6. ASSUME NEW type \in {"CONNECTION_CLOSED", "CONNECTION_DRAINING"}, NEW code \in ErrorCodes,
             ConnectionEnds(type, code)
      PROVE  TypeOK'
  <2>1. QuicEventArrives(type, NoStream, code) /\ type \in QuicEventTypes
    BY <1>1, <1>6 DEF ConnectionEnds
  <2>2. unread' \in [StreamIds -> Seq(Chunks)] /\ peerBody' \in [StreamIds -> Seq(Chunks)]
    BY <1>2, <1>6 DEF ConnectionEnds
  <2>3. /\ quicStreams' \subseteq StreamIds
        /\ quicClosed' \subseteq quicStreams'
        /\ peerDone' \subseteq quicStreams'
        /\ cached' \subseteq quicStreams'
        /\ hungUp' \subseteq quicStreams'
    BY <1>2, <1>6, <2>1 DEF ConnectionEnds, QuicEventArrives
  <2>4. QED  BY <2>1, <2>2, <2>3, ArrivesTyped DEF TypeOK, QuicTypeOK
<1>7. QED  BY <1>3, <1>4, <1>5, <1>6 DEF Arrival

\* The methods of the connection keep the types.
LEMMA ConnectionCallTyped ==
  ASSUME TypeOK, FreshIds, ConnectionCall
  PROVE  TypeOK'
<1>1. ConnectionTypeOK /\ QuicTypeOK
  BY DEF TypeOK
<1>2. ASSUME NEW id \in StreamIds, OpenRequestStream(id)
      PROVE  TypeOK'
  <2>1. ConnectionTypeOK'
    BY <1>1, <1>2, ConnectionCallsTyped DEF OpenRequestStream
  <2>2. QuicTypeOK'
    BY <1>1, <1>2 DEF OpenRequestStream, QuicTypeOK, quicHistory
  <2>3. QED  BY <2>1, <2>2 DEF TypeOK
<1>3. ASSUME NEW id \in StreamIds, RefusedOpen(id)
      PROVE  TypeOK'
  <2>1. ConnectionTypeOK'
    BY <1>1, <1>3 DEF RefusedOpen, ConnectionTypeOK, connectionVars, lifecycleVars,
                      streamStateVars, handleVars, eventVars
  <2>2. failures' \in 0..MaxFailures
    BY <1>1, <1>3, MaxFailuresAssumption DEF RefusedOpen, QuicTypeOK
  <2>3. QuicTypeOK'
    BY <1>1, <1>3, <2>2 DEF RefusedOpen, QuicTypeOK, quicHistory
  <2>4. QED  BY <2>1, <2>3 DEF TypeOK
<1>4. ASSUME NEW id \in StreamIds, FetchRequestStream(id)
      PROVE  TypeOK'
  <2> DEFINE found == id \in Reachable
  <2>1. found \in BOOLEAN
    OBVIOUS
  <2>2. GetRequestStream(id, found)
    BY <1>4 DEF FetchRequestStream
  <2> HIDE DEF found
  <2>3. ConnectionTypeOK'
    BY <1>1, <2>1, <2>2, ConnectionCallsTyped
  <2>4. id \in known \/ id \in Reachable
    BY <1>4 DEF FetchRequestStream, GetRequestStream
  <2>5. cached' \subseteq quicStreams
    BY <1>1, <1>4, <2>4 DEF FetchRequestStream, Reachable, QuicTypeOK
  <2>6. QuicTypeOK'
    BY <1>1, <1>4, <2>5 DEF FetchRequestStream, QuicTypeOK, quicVars, quicHistory
  <2>7. QED  BY <2>3, <2>6 DEF TypeOK
<1>5. CASE CloseConnection
  <2>1. ConnectionTypeOK'
    BY <1>1, <1>5, ConnectionCallsTyped DEF CloseConnection
  <2>2. QuicTypeOK'
    BY <1>1, <1>5 DEF CloseConnection, QuicTypeOK, quicVars, quicHistory
  <2>3. QED  BY <2>1, <2>2 DEF TypeOK
<1>6. QED  BY <1>2, <1>3, <1>4, <1>5 DEF ConnectionCall

\* The methods of a request stream keep the types.
LEMMA StreamCallTyped ==
  ASSUME TypeOK, StreamCall
  PROVE  TypeOK'
<1>1. ConnectionTypeOK /\ QuicTypeOK
  BY DEF TypeOK
<1>2. PICK id \in StreamIds :
         WriteHeaders(id) \/ WriteData(id) \/ FinishStream(id) \/ ResetStream(id) \/ RefusedCall(id)
  BY DEF StreamCall
<1>3. CASE WriteHeaders(id) \/ WriteData(id)
  <2>1. ConnectionTypeOK'
    BY <1>1, <1>3, StreamCallsTyped DEF WriteHeaders, WriteData
  <2>2. QuicTypeOK'
    BY <1>1, <1>3 DEF WriteHeaders, WriteData, OnQuicStream, Reachable, QuicTypeOK, quicHistory
  <2>3. QED  BY <2>1, <2>2 DEF TypeOK
<1>4. CASE FinishStream(id) \/ ResetStream(id)
  <2>1. ConnectionTypeOK'
    BY <1>1, <1>4, StreamCallsTyped DEF FinishStream, ResetStream
  <2>2. QuicTypeOK'
    BY <1>1, <1>4 DEF FinishStream, ResetStream, HangUp, ClosedWith, OnQuicStream, Reachable, QuicTypeOK,
                      quicHistory
  <2>3. QED  BY <2>1, <2>2 DEF TypeOK
<1>5. CASE RefusedCall(id)
  <2>1. ConnectionTypeOK'
    BY <1>1, <1>5 DEF RefusedCall, ConnectionTypeOK, connectionVars, lifecycleVars,
                      streamStateVars, handleVars, eventVars
  <2>2. failures' \in 0..MaxFailures
    BY <1>1, <1>5, MaxFailuresAssumption DEF RefusedCall, QuicTypeOK
  <2>3. QuicTypeOK'
    BY <1>1, <1>5, <2>2 DEF RefusedCall, OnQuicStream, Reachable, QuicTypeOK, quicHistory
  <2>4. QED  BY <2>1, <2>3 DEF TypeOK
<1>6. QED  BY <1>2, <1>3, <1>4, <1>5

\* A read that fails on a stream QUIC has keeps the types of what it touches.
LEMMA FailedReadTyped ==
  ASSUME TypeOK, NEW id \in quicStreams, FailedRead(id)
  PROVE  /\ cached' \subseteq quicStreams
         /\ unread' \in [StreamIds -> Seq(Chunks)]
<1>1. id \in StreamIds /\ cached \subseteq quicStreams /\ unread \in [StreamIds -> Seq(Chunks)]
  BY DEF TypeOK, QuicTypeOK
<1>2. cached' \subseteq quicStreams
  BY <1>1 DEF FailedRead
<1>3. PICK n \in 0..ReadCount(id) :
         unread' = [unread EXCEPT ![id] = SubSeq(@, n + 1, Len(@))]
  BY DEF FailedRead
<1>4. SubSeq(unread[id], n + 1, Len(unread[id])) \in Seq(Chunks)
  BY <1>1, ReadIsTyped
<1>5. QED  BY <1>1, <1>2, <1>3, <1>4

\* Each step of pollEvents() keeps the types.
LEMMA PollTyped ==
  ASSUME TypeOK, FreshIds, EndsAreReal, Poll
  PROVE  TypeOK'
<1>1. ConnectionTypeOK /\ QuicTypeOK
  BY DEF TypeOK
<1>2. CASE DrainEvents
  <2>1. ConnectionTypeOK'
    BY <1>1, <1>2 DEF DrainEvents, ConnectionTypeOK, lifecycleVars, streamStateVars,
                      handleVars, eventVars
  <2>2. QuicTypeOK'
    BY <1>1, <1>2 DEF DrainEvents, QuicTypeOK, quicHistory
  <2>3. QED  BY <2>1, <2>2 DEF TypeOK
<1>3. CASE ConsumeQuicEvent
  <2>1. /\ \/ \E id \in quicStreams, data \in Payloads, fin \in BOOLEAN :
                 ConsumeReadable(id, data, fin)
           \/ \E id \in quicStreams, code \in ErrorCodes : ConsumeReset(id, code)
           \/ \E code \in ErrorCodes, isClosed \in BOOLEAN : ConsumeClosing(code, isClosed)
        /\ UNCHANGED <<delivered, polling>>
        /\ cached' \subseteq quicStreams
        /\ unread' \in [StreamIds -> Seq(Chunks)]
    BY <1>3, EventIsSignal
  <2>2. quicStreams \subseteq StreamIds
    BY <1>1 DEF QuicTypeOK
  <2>3. ConnectionTypeOK'
    BY <1>1, <2>1, <2>2, ConsumeReadableTyped, ConsumeResetTyped, ConsumeClosingTyped
  <2>4. batch # <<>> /\ batch' = Tail(batch)
    BY <1>3 DEF ConsumeQuicEvent
  <2>5. batch' \in Seq(QuicEvent)
    BY <2>4, HeadIsTyped
  <2>6. QuicTypeOK'
    BY <1>1, <1>3, <2>1, <2>5 DEF ConsumeQuicEvent, QuicTypeOK, quicHistory
  <2>7. QED  BY <2>3, <2>6 DEF TypeOK
<1>4. CASE AbortPoll
  <2>1. ConnectionTypeOK'
    BY <1>1, <1>4 DEF AbortPoll, ConnectionTypeOK, lifecycleVars, streamStateVars,
                      handleVars, eventVars
  <2>2. cached' \subseteq quicStreams /\ unread' \in [StreamIds -> Seq(Chunks)]
    <3>1. CASE Head(batch).type = "STREAM_READABLE" /\ FailedRead(Head(batch).streamId)
      <4>1. batch # <<>>
        BY <1>4 DEF AbortPoll
      <4>2. Head(batch).streamId \in quicStreams
        BY <3>1, <4>1, HeadIsTyped DEF StreamEventTypes
      <4>3. QED  BY <3>1, <4>2, FailedReadTyped
    <3>2. CASE UNCHANGED <<cached, unread>>
      BY <1>1, <3>2 DEF QuicTypeOK
    <3>3. QED  BY <1>4, <3>1, <3>2 DEF AbortPoll
  <2>3. failures' \in 0..MaxFailures
    BY <1>1, <1>4, MaxFailuresAssumption DEF AbortPoll, QuicTypeOK
  <2>4. batch' \in Seq(QuicEvent)
    BY <1>4 DEF AbortPoll
  <2>5. QuicTypeOK'
    BY <1>1, <1>4, <2>2, <2>3, <2>4 DEF AbortPoll, QuicTypeOK, quicHistory
  <2>6. QED  BY <2>1, <2>5 DEF TypeOK
<1>5. CASE PollReturn
  <2>1. ConnectionTypeOK'
    BY <1>1, <1>5, ConnectionCallsTyped DEF PollReturn
  <2>2. QuicTypeOK'
    BY <1>1, <1>5 DEF PollReturn, QuicTypeOK, quicVars, quicHistory
  <2>3. QED  BY <2>1, <2>2 DEF TypeOK
<1>6. QED  BY <1>2, <1>3, <1>4, <1>5 DEF Poll

\* Every step keeps the types, given that events only name streams QUIC has.
LEMMA StepTyped ==
  ASSUME TypeOK, FreshIds, EndsAreReal, [Next]_vars
  PROVE  TypeOK'
<1>1. CASE UNCHANGED vars
  BY <1>1 DEF TypeOK, QuicTypeOK, ConnectionTypeOK, vars, connectionVars, lifecycleVars,
              streamStateVars, handleVars, eventVars, quicVars, quicHistory
<1>2. QED
  BY <1>1, ArrivalTyped, ConnectionCallTyped, StreamCallTyped, PollTyped DEF Next

-----------------------------------------------------------------------------
(* Ids are fresh and ends are real *)

\* An event that arrives about a stream QUIC has, with an end that was made.
LEMMA ArrivalIsReal ==
  ASSUME TypeOK, FreshIds, EndsAreReal, Arrival
  PROVE  FreshIds' /\ EndsAreReal'
<1>1. /\ quicEvents \in Seq(QuicEvent)
      /\ batch \in Seq(QuicEvent)
      /\ 0 \in ErrorCodes
  BY ErrorCodesAssumption DEF TypeOK, QuicTypeOK
<1>2. ASSUME NEW type \in QuicEventTypes, NEW id \in StreamIds \cup {NoStream},
             NEW code \in ErrorCodes, QuicEventArrives(type, id, code),
             quicStreams \subseteq quicStreams', peerDone \subseteq peerDone',
             type \in StreamEventTypes => id \in quicStreams',
             type \in EndTypes => id \in peerDone',
             quicClosed' \subseteq MayBeClosed'
      PROVE  FreshIds' /\ EndsAreReal'
  <2> DEFINE event == [type |-> type, streamId |-> id, errorCode |-> code]
  <2>1. event \in QuicEvent /\ event.type = type /\ event.streamId = id
    BY DEF QuicEvent
  <2>2. /\ quicEvents' = Append(quicEvents, event)
        /\ batch' = batch /\ known' = known /\ hungUp' = hungUp
    BY <1>2 DEF QuicEventArrives, connectionVars, streamStateVars
  <2> HIDE DEF event
  <2>3. /\ About(Append(quicEvents, event), StreamEventTypes, quicStreams')
        /\ About(batch, StreamEventTypes, quicStreams')
    BY <1>1, <1>2, <2>1, AboutGrows DEF FreshIds
  <2>4. /\ About(Append(quicEvents, event), EndTypes, peerDone')
        /\ About(batch, EndTypes, peerDone')
    <3>1. event.type \in EndTypes => event.streamId \in peerDone'
      BY <1>2, <2>1
    <3>2. About(Append(quicEvents, event), EndTypes, peerDone')
      BY <1>1, <1>2, <2>1, <3>1, AboutGrows DEF EndsAreReal
    <3>3. About(batch, EndTypes, peerDone')
      BY <1>1, <1>2 DEF EndsAreReal, About
    <3>4. QED  BY <3>2, <3>3
  <2>5. FreshIds'
    <3>1. known \subseteq quicStreams'
      BY <1>2 DEF FreshIds
    <3>2. QED  BY <2>2, <2>3, <3>1 DEF FreshIds, About
  <2>6. EndsAreReal'
    BY <1>2, <2>2, <2>4 DEF EndsAreReal, About
  <2>7. QED  BY <2>5, <2>6
<1>3. ASSUME NEW id \in StreamIds, NEW data \in Arrivals, NEW fin \in BOOLEAN,
             PeerSends(id, data, fin)
      PROVE  FreshIds' /\ EndsAreReal'
  <2>1. QuicEventArrives("STREAM_READABLE", id, 0) /\ "STREAM_READABLE" \in QuicEventTypes
    BY <1>3 DEF PeerSends, QuicEventTypes
  <2>2. quicStreams \subseteq quicStreams' /\ id \in quicStreams'
    BY <1>3 DEF PeerSends, PeerUses
  <2>3. peerDone \subseteq peerDone' /\ quicClosed' \subseteq MayBeClosed'
    BY <1>3 DEF PeerSends, ClosedWith, EndsAreReal, MayBeClosed, QuicEventArrives
  <2>4. QED  BY <1>1, <1>2, <2>1, <2>2, <2>3 DEF EndTypes
<1>4. ASSUME NEW id \in StreamIds, NEW code \in ErrorCodes, PeerResets(id, code)
      PROVE  FreshIds' /\ EndsAreReal'
  <2>1. QuicEventArrives("STREAM_RESET", id, code) /\ "STREAM_RESET" \in QuicEventTypes
    BY <1>4 DEF PeerResets, QuicEventTypes
  <2>2. quicStreams \subseteq quicStreams' /\ id \in quicStreams'
    BY <1>4 DEF PeerResets, PeerUses
  <2>3. /\ peerDone \subseteq peerDone' /\ id \in peerDone'
        /\ quicClosed' \subseteq MayBeClosed'
    BY <1>4 DEF PeerResets, EndsAreReal, MayBeClosed, QuicEventArrives
  <2>4. QED  BY <1>1, <1>2, <2>1, <2>2, <2>3
<1>5. ASSUME NEW id \in StreamIds, QuicCloses(id)
      PROVE  FreshIds' /\ EndsAreReal'
  <2>1. QuicEventArrives("STREAM_CLOSED", id, 0) /\ "STREAM_CLOSED" \in QuicEventTypes
    BY <1>5 DEF QuicCloses, QuicEventTypes
  <2>2. quicStreams \subseteq quicStreams' /\ id \in quicStreams'
    BY <1>5 DEF QuicCloses
  <2>3. /\ peerDone \subseteq peerDone' /\ id \in peerDone'
        /\ quicClosed' \subseteq MayBeClosed'
    BY <1>5 DEF QuicCloses, EndsAreReal, MayBeClosed, QuicEventArrives
  <2>4. QED  BY <1>1, <1>2, <2>1, <2>2, <2>3
<1>6. ASSUME NEW type \in {"CONNECTION_CLOSED", "CONNECTION_DRAINING"}, NEW code \in ErrorCodes,
             ConnectionEnds(type, code)
      PROVE  FreshIds' /\ EndsAreReal'
  <2>1. /\ QuicEventArrives(type, NoStream, code)
        /\ type \in QuicEventTypes
        /\ type \notin StreamEventTypes
        /\ type \notin EndTypes
    BY <1>6 DEF ConnectionEnds, QuicEventTypes, StreamEventTypes, EndTypes
  <2>2. quicStreams \subseteq quicStreams'
    BY <1>6 DEF ConnectionEnds
  <2>3. peerDone \subseteq peerDone' /\ quicClosed' \subseteq MayBeClosed'
    BY <1>6 DEF ConnectionEnds, EndsAreReal, MayBeClosed, QuicEventArrives
  <2>4. QED  BY <1>2, <2>1, <2>2, <2>3
<1>7. QED  BY <1>3, <1>4, <1>5, <1>6 DEF Arrival

\* The calls of the application only open streams and hang up.
LEMMA CallIsReal ==
  ASSUME TypeOK, FreshIds, EndsAreReal, ConnectionCall \/ StreamCall
  PROVE  FreshIds' /\ EndsAreReal'
<1>1. ASSUME UNCHANGED <<quicEvents, batch, peerDone>>,
             quicStreams \subseteq quicStreams', known' \subseteq quicStreams',
             quicClosed' \subseteq MayBeClosed'
      PROVE  FreshIds' /\ EndsAreReal'
  BY <1>1 DEF FreshIds, EndsAreReal, About, MayBeClosed
<1>2. known \subseteq quicStreams /\ quicClosed \subseteq MayBeClosed
  BY DEF FreshIds, EndsAreReal
<1>3. ASSUME NEW id \in StreamIds, OpenRequestStream(id)
      PROVE  FreshIds' /\ EndsAreReal'
  BY <1>1, <1>2, <1>3 DEF OpenRequestStream, CreateRequestStream, quicHistory, MayBeClosed
<1>4. ASSUME NEW id \in StreamIds, RefusedOpen(id)
      PROVE  FreshIds' /\ EndsAreReal'
  BY <1>1, <1>2, <1>4 DEF RefusedOpen, quicHistory, connectionVars, streamStateVars, MayBeClosed
<1>5. ASSUME NEW id \in StreamIds, FetchRequestStream(id)
      PROVE  FreshIds' /\ EndsAreReal'
  <2>1. cached \subseteq quicStreams
    BY DEF TypeOK, QuicTypeOK
  <2>2. known' = known \cup {id} /\ (id \in known \/ id \in Reachable)
    BY <1>5 DEF FetchRequestStream, GetRequestStream
  <2>3. known' \subseteq quicStreams
    BY <1>2, <2>1, <2>2 DEF Reachable
  <2>4. QED  BY <1>1, <1>2, <1>5, <2>3 DEF FetchRequestStream, quicVars, quicHistory, MayBeClosed
<1>6. CASE CloseConnection
  BY <1>1, <1>2, <1>6 DEF CloseConnection, Close, quicVars, quicHistory, streamStateVars, MayBeClosed
<1>7. CASE StreamCall
  BY <1>1, <1>2, <1>7
     DEF StreamCall, WriteHeaders, WriteData, FinishStream, ResetStream, RefusedCall, HangUp, ClosedWith,
         OnQuicStream, SubmitHeaders, SubmitData, End, Reset, quicHistory, connectionVars,
         streamStateVars, MayBeClosed
<1>8. QED  BY <1>3, <1>4, <1>5, <1>6, <1>7 DEF ConnectionCall

\* What a signal adds to the tables is the stream it is about.
LEMMA SignalKnows ==
  /\ \A id \in StreamIds, data \in Payloads, fin \in BOOLEAN :
        ConsumeReadable(id, data, fin) =>
            /\ known' \subseteq known \cup {id}
            /\ remoteEnded' \subseteq remoteEnded \cup (IF fin THEN {id} ELSE {})
  /\ \A id \in StreamIds, code \in ErrorCodes :
        ConsumeReset(id, code) =>
            known' \subseteq known \cup {id} /\ remoteEnded' = remoteEnded
  /\ \A code \in ErrorCodes, isClosed \in BOOLEAN :
        ConsumeClosing(code, isClosed) => known' = known /\ remoteEnded' = remoteEnded
<1>1. ASSUME NEW id \in StreamIds, NEW data \in Payloads, NEW fin \in BOOLEAN,
             ConsumeReadable(id, data, fin)
      PROVE  /\ known' \subseteq known \cup {id}
             /\ remoteEnded' \subseteq remoteEnded \cup (IF fin THEN {id} ELSE {})
  <2>1. CASE ConsumeLateReadable(id)
    BY <2>1 DEF ConsumeLateReadable, streamStateVars
  <2>2. CASE ConsumeLiveReadable(id, data, fin) /\ fin
    BY <2>2 DEF ConsumeLiveReadable
  <2>3. CASE ConsumeLiveReadable(id, data, fin) /\ ~fin
    BY <2>3 DEF ConsumeLiveReadable
  <2>4. QED  BY <1>1, <2>1, <2>2, <2>3 DEF ConsumeReadable
<1>2. ASSUME NEW id \in StreamIds, NEW code \in ErrorCodes, ConsumeReset(id, code)
      PROVE  known' \subseteq known \cup {id} /\ remoteEnded' = remoteEnded
  BY <1>2 DEF ConsumeReset, ConsumeLateReset, ConsumeLiveReset, streamStateVars
<1>3. ASSUME NEW code \in ErrorCodes, NEW isClosed \in BOOLEAN, ConsumeClosing(code, isClosed)
      PROVE  known' = known /\ remoteEnded' = remoteEnded
  BY <1>3 DEF ConsumeClosing, ConsumeFirstClosing, ConsumeLaterClosing, ConsumeLateClosing,
              streamStateVars
<1>4. QED  BY <1>1, <1>2, <1>3

\* A poll consumes what it drained and adds nothing.
LEMMA PollIsReal ==
  ASSUME TypeOK, FreshIds, EndsAreReal, Poll
  PROVE  FreshIds' /\ EndsAreReal'
<1>1. CASE DrainEvents
  <2>1. /\ batch' = quicEvents /\ quicEvents' = <<>>
        /\ UNCHANGED <<known, quicStreams, quicClosed, peerDone, hungUp>>
    BY <1>1 DEF DrainEvents, streamStateVars, quicHistory
  <2>2. FreshIds'
    BY <2>1 DEF FreshIds, About
  <2>3. EndsAreReal'
    BY <2>1 DEF EndsAreReal, About, MayBeClosed
  <2>4. QED  BY <2>2, <2>3
<1>2. CASE ConsumeQuicEvent
  <2>1. /\ batch # <<>> /\ batch' = Tail(batch)
        /\ UNCHANGED <<quicEvents, quicStreams, quicClosed, peerDone, hungUp>>
    BY <1>2 DEF ConsumeQuicEvent, quicHistory
  <2>2. batch \in Seq(QuicEvent) /\ quicStreams \subseteq StreamIds
    BY DEF TypeOK, QuicTypeOK
  <2>3. /\ About(Tail(batch), StreamEventTypes, quicStreams)
        /\ About(Tail(batch), EndTypes, peerDone)
    BY <2>1, <2>2, AboutTail DEF FreshIds, EndsAreReal
  <2>4. known' \subseteq quicStreams
    <3>1. \/ \E id \in quicStreams, data \in Payloads, fin \in BOOLEAN :
                ConsumeReadable(id, data, fin)
          \/ \E id \in quicStreams, code \in ErrorCodes : ConsumeReset(id, code)
          \/ \E code \in ErrorCodes, isClosed \in BOOLEAN : ConsumeClosing(code, isClosed)
      BY <1>2, EventIsSignal
    <3>2. known' = known \/ \E id \in quicStreams : known' \subseteq known \cup {id}
      BY <2>2, <3>1, SignalKnows
    <3>3. QED  BY <3>2 DEF FreshIds
  <2>5. FreshIds'
    BY <2>1, <2>3, <2>4 DEF FreshIds, About
  <2>6. EndsAreReal'
    BY <2>1, <2>3 DEF EndsAreReal, About, MayBeClosed
  <2>7. QED  BY <2>5, <2>6
<1>3. CASE AbortPoll
  <2>1. /\ batch' = <<>>
        /\ UNCHANGED <<known, quicEvents, quicStreams, quicClosed, peerDone, hungUp>>
    BY <1>3 DEF AbortPoll, streamStateVars, quicHistory
  <2>2. FreshIds'
    BY <2>1 DEF FreshIds, About
  <2>3. EndsAreReal'
    BY <2>1 DEF EndsAreReal, About, MayBeClosed
  <2>4. QED  BY <2>2, <2>3
<1>4. CASE PollReturn
  BY <1>4 DEF PollReturn, ReturnEvents, streamStateVars, quicVars, quicHistory, FreshIds,
              EndsAreReal, About, MayBeClosed
<1>5. QED  BY <1>1, <1>2, <1>3, <1>4 DEF Poll

\* Every step keeps ids fresh and ends real.
LEMMA StepIsReal ==
  ASSUME TypeOK, FreshIds, EndsAreReal, [Next]_vars
  PROVE  FreshIds' /\ EndsAreReal'
<1>1. CASE UNCHANGED vars
  BY <1>1 DEF vars, connectionVars, streamStateVars, quicVars, quicHistory, FreshIds, EndsAreReal,
              About, MayBeClosed
<1>2. QED  BY <1>1, ArrivalIsReal, CallIsReal, PollIsReal DEF Next

-----------------------------------------------------------------------------
(* The state tables agree and completion is earned *)

\* Every step keeps the state tables in agreement.
LEMMA StepAgrees ==
  ASSUME Inv, [Next]_vars
  PROVE  TablesAgree'
<1>1. TypeOK /\ ConnectionTypeOK /\ FreshIds /\ EndsAreReal /\ TablesAgree
  BY DEF Inv, TablesAgree, TypeOK
<1>2. ASSUME UNCHANGED <<lifecycleVars, streamStateVars, handleVars>>
      PROVE  TablesAgree'
  BY <1>1, <1>2 DEF lifecycleVars, streamStateVars, handleVars, TablesAgree,
                    ClosingAgreesWithState, TerminalClosesHandle, OneEnding
<1>3. CASE Arrival
  BY <1>2, <1>3 DEF Arrival, PeerSends, PeerResets, QuicCloses, ConnectionEnds,
                    QuicEventArrives, connectionVars
<1>4. ASSUME NEW id \in StreamIds, OpenRequestStream(id)
      PROVE  TablesAgree'
  <2>1. id \notin known
    BY <1>1, <1>4 DEF OpenRequestStream, FreshIds
  <2>2. QED  BY <1>1, <1>4, <2>1, MethodsAgree DEF OpenRequestStream
<1>5. ASSUME NEW id \in StreamIds, FetchRequestStream(id)
      PROVE  TablesAgree'
  <2>1. GetRequestStream(id, FALSE) \/ GetRequestStream(id, TRUE)
    BY <1>5 DEF FetchRequestStream, GetRequestStream
  <2>2. QED  BY <1>1, <2>1, MethodsAgree
<1>6. CASE CloseConnection
  BY <1>1, <1>6, MethodsAgree DEF CloseConnection
<1>7. ASSUME NEW id \in StreamIds, RefusedOpen(id) \/ RefusedCall(id)
      PROVE  TablesAgree'
  BY <1>2, <1>7 DEF RefusedOpen, RefusedCall, connectionVars
<1>8. ASSUME NEW id \in StreamIds,
             WriteHeaders(id) \/ WriteData(id) \/ FinishStream(id) \/ ResetStream(id)
      PROVE  TablesAgree'
  BY <1>1, <1>8, MethodsAgree DEF WriteHeaders, WriteData, FinishStream, ResetStream
<1>9. CASE DrainEvents \/ AbortPoll
  BY <1>2, <1>9 DEF DrainEvents, AbortPoll
<1>10. CASE ConsumeQuicEvent
  <2>1. \/ \E id \in quicStreams, data \in Payloads, fin \in BOOLEAN :
              ConsumeReadable(id, data, fin)
        \/ \E id \in quicStreams, code \in ErrorCodes : ConsumeReset(id, code)
        \/ \E code \in ErrorCodes, isClosed \in BOOLEAN : ConsumeClosing(code, isClosed)
    BY <1>1, <1>10, EventIsSignal
  <2>2. quicStreams \subseteq StreamIds
    BY <1>1 DEF TypeOK, QuicTypeOK
  <2>3. QED  BY <1>1, <2>1, <2>2, HandlersAgree
<1>11. CASE PollReturn
  BY <1>1, <1>11, MethodsAgree DEF PollReturn
<1>12. CASE UNCHANGED vars
  BY <1>2, <1>12 DEF vars, connectionVars
<1>13. QED
  BY <1>3, <1>4, <1>5, <1>6, <1>7, <1>8, <1>9, <1>10, <1>11, <1>12
     DEF Next, ConnectionCall, StreamCall, Poll

\* Every step completes only streams that somebody ended.
LEMMA StepEarns ==
  ASSUME Inv, [Next]_vars
  PROVE  CompletionIsEarned'
<1>1. TypeOK /\ FreshIds /\ EndsAreReal /\ CompletionIsEarned
  BY DEF Inv
<1>2. ASSUME remoteEnded' \subseteq remoteEnded,
             peerDone \subseteq peerDone', hungUp \subseteq hungUp'
      PROVE  CompletionIsEarned'
  BY <1>1, <1>2 DEF CompletionIsEarned, MayBeClosed
<1>3. CASE Arrival
  BY <1>2, <1>3 DEF Arrival, PeerSends, PeerResets, QuicCloses, ConnectionEnds,
                    QuicEventArrives, connectionVars, streamStateVars
<1>4. CASE ConnectionCall
  BY <1>2, <1>4 DEF ConnectionCall, OpenRequestStream, RefusedOpen, FetchRequestStream,
                    CloseConnection, CreateRequestStream, GetRequestStream, Close, quicHistory,
                    connectionVars, streamStateVars
<1>5. CASE StreamCall
  BY <1>2, <1>5 DEF StreamCall, WriteHeaders, WriteData, FinishStream, ResetStream, RefusedCall,
                    HangUp, OnQuicStream, SubmitHeaders, SubmitData, End, Reset, quicHistory,
                    connectionVars, streamStateVars
<1>6. CASE DrainEvents \/ AbortPoll \/ PollReturn
  BY <1>2, <1>6 DEF DrainEvents, AbortPoll, PollReturn, ReturnEvents, quicHistory, streamStateVars
<1>7. CASE ConsumeQuicEvent
  <2>1. UNCHANGED <<peerDone, hungUp>>
    BY <1>7 DEF ConsumeQuicEvent, quicHistory
  <2>2. \/ \E id \in quicStreams, data \in Payloads, fin \in BOOLEAN :
              /\ ConsumeReadable(id, data, fin)
              /\ fin => id \in MayBeClosed
        \/ \E id \in quicStreams, code \in ErrorCodes : ConsumeReset(id, code)
        \/ \E code \in ErrorCodes, isClosed \in BOOLEAN : ConsumeClosing(code, isClosed)
    BY <1>1, <1>7, EventIsSignal
  <2>3. quicStreams \subseteq StreamIds
    BY <1>1 DEF TypeOK, QuicTypeOK
  <2>4. \/ remoteEnded' \subseteq remoteEnded
        \/ \E id \in MayBeClosed : remoteEnded' \subseteq remoteEnded \cup {id}
    BY <2>2, <2>3, SignalKnows
  <2>5. QED  BY <1>1, <2>1, <2>4 DEF CompletionIsEarned, MayBeClosed
<1>8. CASE UNCHANGED vars
  BY <1>2, <1>8 DEF vars, connectionVars, streamStateVars, quicHistory
<1>9. QED  BY <1>3, <1>4, <1>5, <1>6, <1>7, <1>8 DEF Next, Poll

\* A new connection satisfies the invariant.
LEMMA InitInv == Init => Inv
<1> SUFFICES ASSUME Init
             PROVE  Inv
  OBVIOUS
<1>1. ConnectionTypeOK
  BY ConnectionInitTyped DEF Init
<1>2. QuicTypeOK
  <2>1. quicEvents \in Seq(QuicEvent) /\ batch \in Seq(QuicEvent)
    BY DEF Init
  <2>2. unread \in [StreamIds -> Seq(Chunks)] /\ peerBody \in [StreamIds -> Seq(Chunks)]
    BY DEF Init
  <2>3. arrivals \in 0..MaxArrivals /\ failures \in 0..MaxFailures
    BY MaxArrivalsAssumption, MaxFailuresAssumption DEF Init
  <2>4. /\ quicStreams \subseteq StreamIds
        /\ quicClosed \subseteq quicStreams
        /\ cached \subseteq quicStreams
        /\ peerDone \subseteq quicStreams
        /\ hungUp \subseteq quicStreams
    BY DEF Init
  <2>5. QED  BY <2>1, <2>2, <2>3, <2>4 DEF QuicTypeOK
<1>3. FreshIds /\ EndsAreReal
  BY AboutEmpty DEF Init, ConnectionInit, FreshIds, EndsAreReal
<1>4. ClosingAgreesWithState /\ TerminalClosesHandle /\ OneEnding /\ CompletionIsEarned
  BY DEF Init, ConnectionInit, ClosingAgreesWithState, TerminalClosesHandle, OneEnding,
         CompletionIsEarned
<1>5. QED  BY <1>1, <1>2, <1>3, <1>4 DEF Inv, TypeOK

\* Every step keeps the invariant.
LEMMA StepInv == Inv /\ [Next]_vars => Inv'
BY StepTyped, StepIsReal, StepAgrees, StepEarns DEF Inv, TablesAgree

\* The inductive invariant holds throughout.
THEOREM Invariance == Spec => []Inv
BY InitInv, StepInv, PTL DEF Spec

\* The state of the connection and of the QUIC side stays within its types:
\* the cache holds only streams QUIC has, and what is read is a payload.
THEOREM TypeCorrect == Spec => []TypeOK
<1>1. Inv => TypeOK
  BY DEF Inv
<1>2. QED  BY <1>1, Invariance, PTL

\* RequestCompleted is only ever for a stream that the peer or QUIC ended or, for
\* a class where one side is enough, the application, whenever isClosed() is asked.
THEOREM CompletionEarned == Spec => []CompletionIsEarned
<1>1. Inv => CompletionIsEarned
  BY DEF Inv
<1>2. QED  BY <1>1, Invariance, PTL

-----------------------------------------------------------------------------
(* Refinement of EventContract *)

\* Every step of the program is a step of the contract or a stutter.
LEMMA StepRefines ==
  ASSUME Inv, [Next]_vars
  PROVE  [Contract!ContractNext]_(Contract!contractVars)
<1>1. TypeOK /\ ConnectionTypeOK /\ FreshIds /\ EndsAreReal /\ ClosingAgreesWithState
  BY DEF Inv, TypeOK
<1>2. CASE Arrival
  BY <1>2, OtherwiseStutter
     DEF Arrival, PeerSends, PeerResets, QuicCloses, ConnectionEnds, QuicEventArrives,
         connectionVars, lifecycleVars, streamStateVars
<1>3. ASSUME NEW id \in StreamIds, OpenRequestStream(id)
      PROVE  UNCHANGED Contract!contractVars
  <2>1. id \notin known
    BY <1>1, <1>3 DEF OpenRequestStream, FreshIds
  <2>2. QED  BY <1>1, <1>3, <2>1, MethodsRefine DEF OpenRequestStream
<1>4. ASSUME NEW id \in StreamIds, FetchRequestStream(id)
      PROVE  UNCHANGED Contract!contractVars
  <2>1. GetRequestStream(id, FALSE) \/ GetRequestStream(id, TRUE)
    BY <1>4 DEF FetchRequestStream, GetRequestStream
  <2>2. QED  BY <1>1, <2>1, MethodsRefine
<1>5. CASE CloseConnection
  BY <1>1, <1>5, MethodsRefine DEF CloseConnection, Contract!ContractNext
<1>6. ASSUME NEW id \in StreamIds, RefusedOpen(id) \/ RefusedCall(id)
      PROVE  UNCHANGED Contract!contractVars
  BY <1>6, OtherwiseStutter
     DEF RefusedOpen, RefusedCall, connectionVars, lifecycleVars, streamStateVars
<1>7. ASSUME NEW id \in StreamIds,
             WriteHeaders(id) \/ WriteData(id) \/ FinishStream(id) \/ ResetStream(id)
      PROVE  UNCHANGED Contract!contractVars
  BY <1>1, <1>7, MethodsRefine DEF WriteHeaders, WriteData, FinishStream, ResetStream
<1>8. CASE DrainEvents \/ AbortPoll
  BY <1>8, OtherwiseStutter DEF DrainEvents, AbortPoll, lifecycleVars, streamStateVars
<1>9. CASE ConsumeQuicEvent
  <2>1. /\ \/ \E id \in quicStreams, data \in Payloads, fin \in BOOLEAN :
                 ConsumeReadable(id, data, fin)
           \/ \E id \in quicStreams, code \in ErrorCodes : ConsumeReset(id, code)
           \/ \E code \in ErrorCodes, isClosed \in BOOLEAN : ConsumeClosing(code, isClosed)
        /\ UNCHANGED <<delivered, polling>>
    BY <1>1, <1>9, EventIsSignal
  <2>2. quicStreams \subseteq StreamIds
    BY <1>1 DEF TypeOK, QuicTypeOK
  <2>3. ASSUME NEW id \in quicStreams, NEW data \in Payloads, NEW fin \in BOOLEAN,
               ConsumeReadable(id, data, fin)
        PROVE  [Contract!ContractNext]_(Contract!contractVars)
    <3>1. Contract!Receive(id, data, fin) \/ UNCHANGED Contract!contractVars
      BY <1>1, <2>1, <2>2, <2>3, ReadableRefines
    <3>2. data \in Contract!Payloads
      BY DEF Payloads, Contract!Payloads
    <3>3. QED  BY <2>2, <3>1, <3>2 DEF Contract!ContractNext
  <2>4. ASSUME NEW id \in quicStreams, NEW code \in ErrorCodes, ConsumeReset(id, code)
        PROVE  [Contract!ContractNext]_(Contract!contractVars)
    <3>1. Contract!Abandon(id, code) \/ UNCHANGED Contract!contractVars
      BY <1>1, <2>1, <2>2, <2>4, ResetRefines
    <3>2. QED  BY <2>2, <3>1 DEF Contract!ContractNext
  <2>5. ASSUME NEW code \in ErrorCodes, NEW isClosed \in BOOLEAN, ConsumeClosing(code, isClosed)
        PROVE  [Contract!ContractNext]_(Contract!contractVars)
    <3>1. Contract!GoAway(code) \/ UNCHANGED Contract!contractVars
      BY <1>1, <2>1, <2>5, ClosingRefines
    <3>2. QED  BY <3>1 DEF Contract!ContractNext
  <2>6. QED  BY <2>1, <2>3, <2>4, <2>5
<1>10. CASE PollReturn
  BY <1>1, <1>10, MethodsRefine DEF PollReturn
<1>11. CASE UNCHANGED vars
  BY <1>11, OtherwiseStutter DEF vars, connectionVars, lifecycleVars, streamStateVars
<1>12. QED
  BY <1>2, <1>3, <1>4, <1>5, <1>6, <1>7, <1>8, <1>9, <1>10, <1>11
     DEF Next, ConnectionCall, StreamCall, Poll

\* The connection over a QUIC object implements the event contract, even when
\* a call of that object throws in the middle of a poll.
THEOREM Refinement == Spec => ImplementsContract
<1>1. Init => Contract!ContractInit
  BY ConnectionInitRefines DEF Init
<1>2. QED
  BY <1>1, StepRefines, Invariance, PTL DEF Spec, ImplementsContract, Contract!ContractSpec

\* Every stream's events reach the application in order, failing polls or not.
THEOREM Order == Spec => []EventsInOrder
BY Refinement, ContractGivesOrder, PTL

\* No step takes an event back, neither a poll that throws nor one that returns.
THEOREM NoneLost == Spec => NoEventIsLost
<1>1. ASSUME Inv, [Next]_vars
      PROVE  [/\ Len(History') >= Len(History)
              /\ SubSeq(History', 1, Len(History)) = History]_vars
  <2>1. ConnectionTypeOK
    BY <1>1 DEF Inv, TypeOK
  <2>2. [Contract!ContractNext]_(Contract!contractVars)
    BY <1>1, StepRefines
  <2>3. QED  BY <2>1, <2>2, ContractKeepsLog
<1>2. QED  BY <1>1, Invariance, PTL DEF Spec, NoEventIsLost

-----------------------------------------------------------------------------
(* The body a stream delivers *)

\* A step that reads d of a stream's unread body and tells the application, or
\* loses it.  An ended stream tells nothing more.
Reads(id, d, rest, told) ==
    /\ unread[id] = d \o rest
    /\ unread'[id] = rest
    /\ BodyOf(History', id) = BodyOf(History, id) \o (IF told THEN d ELSE <<>>)
    /\ id \notin terminal /\ failures' = 0 => told
    /\ id \in terminal /\ told => d = <<>>
    /\ peerBody'[id] = peerBody[id]

\* A step in which QUIC gets more of the body, if the peer has not ended it.
Receives(id, d) ==
    /\ unread'[id] = unread[id] \o d
    /\ peerBody'[id] = peerBody[id] \o d
    /\ id \in peerDone => d = <<>>
    /\ BodyOf(History', id) = BodyOf(History, id)

\* What a stream does in a step.
BodyStep(id) ==
    \/ \E d, rest \in Pieces, told \in BOOLEAN : Reads(id, d, rest, told)
    \/ \E d \in Pieces : Receives(id, d)

\* A step that touches neither the events nor the stream reads nothing of it.
LEMMA NothingRead ==
  ASSUME TypeOK, NEW id \in StreamIds,
         unread'[id] = unread[id], peerBody'[id] = peerBody[id], History' = History
  PROVE  BodyStep(id)
<1>1. /\ unread[id] \in Pieces /\ BodyOf(History, id) \in Pieces
  BY HistoryBodyTyped DEF TypeOK, QuicTypeOK, Pieces
<1>2. /\ <<>> \in Pieces /\ <<>> \o unread[id] = unread[id]
      /\ BodyOf(History, id) \o <<>> = BodyOf(History, id)
  BY <1>1, PieceConcat
<1>3. Reads(id, <<>>, unread[id], TRUE)
  BY <1>2 DEF Reads
<1> QED
  BY <1>1, <1>2, <1>3 DEF BodyStep

\* What the read loop takes and what it leaves are the unread body.
LEMMA ReadSplits ==
  ASSUME unread \in [StreamIds -> Seq(Chunks)], NEW id \in StreamIds, NEW n \in 0..ReadCount(id)
  PROVE  /\ SubSeq(unread[id], 1, n) \in Payloads
         /\ SubSeq(unread[id], 1, n) \in Pieces
         /\ SubSeq(unread[id], n + 1, Len(unread[id])) \in Pieces
         /\ SubSeq(unread[id], 1, n) \o SubSeq(unread[id], n + 1, Len(unread[id])) = unread[id]
<1> DEFINE s == unread[id]
<1>1. s \in Seq(Chunks) /\ Len(s) \in Nat
  OBVIOUS
<1>2. MaxReads \in Nat
  BY MaxReadsAssumption, MaxPayloadAssumption
<1>3. n \in Nat /\ n <= Len(s)
  BY <1>1, <1>2 DEF ReadCount
<1>4. SubSeq(s, 1, n) \in Payloads /\ SubSeq(s, n + 1, Len(s)) \in Seq(Chunks)
  BY ReadIsTyped
<1> HIDE DEF s
<1>5. SubSeq(s, 1, n) \o SubSeq(s, n + 1, Len(s)) = SubSeq(s, 1, Len(s))
  <2>1. 1 \in 1..Len(s) + 1 /\ n \in 1 - 1..Len(s) /\ Len(s) \in n..Len(s)
    BY <1>1, <1>3
  <2> QED
    BY ONLY <1>1, <2>1, ConcatAdjacentSubSeq
<1>6. SubSeq(s, 1, Len(s)) = s
  BY <1>1, SubSeqFull
<1>7. SubSeq(s, 1, n) \in Seq(Chunks)
  <2>1. \A i \in 1..n : s[i] \in Chunks
    BY <1>1, <1>3
  <2> QED
    BY <1>1, <1>3, <2>1, SubSeqProperties
<1> QED
  BY <1>4, <1>5, <1>6, <1>7 DEF s, Pieces

\* Consuming a QUIC event tells what it reads, unless the stream has ended.
LEMMA ConsumeReads ==
  ASSUME TypeOK, FreshIds, EndsAreReal, ConsumeQuicEvent, NEW id \in StreamIds
  PROVE  \E d, rest \in Pieces, told \in BOOLEAN : Reads(id, d, rest, told)
<1> DEFINE event == Head(batch)
           x == event.streamId
<1>1. /\ batch # <<>> /\ UNCHANGED <<delivered, polling, peerBody, failures>>
      /\ ConnectionTypeOK /\ unread \in [StreamIds -> Seq(Chunks)]
      /\ quicStreams \subseteq StreamIds
  BY DEF ConsumeQuicEvent, quicHistory, TypeOK, QuicTypeOK
<1>2. /\ event.errorCode \in ErrorCodes
      /\ event.type \in StreamEventTypes => x \in quicStreams
  BY <1>1, HeadIsTyped
<1>3. /\ unread[id] \in Pieces /\ BodyOf(History, id) \in Pieces /\ <<>> \in Pieces
      /\ <<>> \o unread[id] = unread[id]
      /\ BodyOf(History, id) \o <<>> = BodyOf(History, id)
  <2>1. unread[id] \in Pieces /\ BodyOf(History, id) \in Pieces
    BY <1>1, HistoryBodyTyped DEF Pieces
  <2> QED
    BY <2>1, PieceConcat
<1>4. ASSUME UNCHANGED unread, BodyOf(History', id) = BodyOf(History, id)
      PROVE  Reads(id, <<>>, unread[id], TRUE)
  BY <1>1, <1>3, <1>4 DEF Reads
<1>5. \/ event.type = "STREAM_READABLE" /\ ReadStream(x)
      \/ /\ event.type = "STREAM_CLOSED"
         /\ ConsumeReadable(x, <<>>, TRUE)
         /\ UNCHANGED unread
      \/ /\ event.type = "STREAM_RESET"
         /\ ConsumeReset(x, event.errorCode)
         /\ UNCHANGED unread
      \/ /\ event.type \in {"CONNECTION_CLOSED", "CONNECTION_DRAINING"}
         /\ ConsumeClosing(event.errorCode, event.type = "CONNECTION_CLOSED")
         /\ UNCHANGED unread
  BY DEF ConsumeQuicEvent
<1> HIDE DEF event
<1>6. CASE event.type = "STREAM_READABLE" /\ ReadStream(x)
  <2> DEFINE n == ReadCount(x)
             d == SubSeq(unread[x], 1, n)
             rest == SubSeq(unread[x], n + 1, Len(unread[x]))
             told == x \notin terminal
             fin == x \in quicClosed
  <2>1. x \in StreamIds
    BY <1>1, <1>2, <1>6 DEF StreamEventTypes
  <2>2. /\ unread' = [unread EXCEPT ![x] = rest]
        /\ ConsumeReadable(x, d, fin)
    BY <1>6 DEF ReadStream
  <2>3. n \in 0..n
    BY <1>1, <2>1, MaxReadsAssumption, MaxPayloadAssumption DEF ReadCount
  <2>4. d \in Payloads /\ d \in Pieces /\ rest \in Pieces /\ d \o rest = unread[x]
    BY <1>1, <2>1, <2>3, ReadSplits
  <2> HIDE DEF n, d, rest, x, fin
  <2>5. BodyOf(History', id) = BodyOf(History, id) \o (IF id = x /\ x \notin terminal THEN d ELSE <<>>)
    BY <1>1, <2>1, <2>2, <2>4, ReadableBody
  <2>6. CASE id = x
    <3>1. Reads(id, d, rest, told)
      BY <1>1, <2>1, <2>2, <2>4, <2>5, <2>6 DEF Reads
    <3> QED
      BY <2>4, <3>1
  <2>7. CASE id # x
    <3>1. unread'[id] = unread[id] /\ BodyOf(History', id) = BodyOf(History, id)
      BY <1>1, <1>3, <2>2, <2>5, <2>7
    <3>2. Reads(id, <<>>, unread[id], TRUE)
      BY <1>1, <1>3, <3>1 DEF Reads
    <3> QED
      BY <1>3, <3>2
  <2> QED
    BY <2>6, <2>7
<1>7. CASE event.type = "STREAM_CLOSED" /\ ConsumeReadable(x, <<>>, TRUE) /\ UNCHANGED unread
  <2>1. x \in StreamIds
    BY <1>1, <1>2, <1>7 DEF StreamEventTypes
  <2>2. BodyOf(History', id) = BodyOf(History, id) \o <<>>
    BY <1>1, <1>7, <2>1, EmptyPayload, ReadableBody
  <2> QED
    BY <1>3, <1>4, <1>7, <2>2
<1>8. CASE event.type = "STREAM_RESET" /\ ConsumeReset(x, event.errorCode) /\ UNCHANGED unread
  <2>1. x \in StreamIds
    BY <1>1, <1>2, <1>8 DEF StreamEventTypes
  <2>2. BodyOf(History', id) = BodyOf(History, id)
    BY <1>1, <1>2, <1>8, <2>1, QuietBody
  <2> QED
    BY <1>3, <1>4, <1>8, <2>2
<1>9. CASE /\ event.type \in {"CONNECTION_CLOSED", "CONNECTION_DRAINING"}
           /\ ConsumeClosing(event.errorCode, event.type = "CONNECTION_CLOSED")
           /\ UNCHANGED unread
  <2>1. BodyOf(History', id) = BodyOf(History, id)
    BY <1>1, <1>2, <1>9, QuietBody
  <2> QED
    BY <1>3, <1>4, <1>9, <2>1
<1> QED
  BY <1>5, <1>6, <1>7, <1>8, <1>9

\* An arrival adds what it brings to the stream.
LEMMA ArrivalReceives ==
  ASSUME TypeOK, Arrival, NEW id \in StreamIds
  PROVE  BodyStep(id) /\ terminal' = terminal /\ failures' = failures
<1>1. /\ unread \in [StreamIds -> Seq(Chunks)] /\ peerBody \in [StreamIds -> Seq(Chunks)]
      /\ unread[id] \in Pieces /\ peerBody[id] \in Pieces /\ <<>> \in Pieces
  BY EmptySeq DEF TypeOK, QuicTypeOK, Pieces
<1>2. History' = History /\ terminal' = terminal /\ failures' = failures
  BY DEF Arrival, PeerSends, PeerResets, QuicCloses, ConnectionEnds, QuicEventArrives,
         connectionVars, streamStateVars, eventVars, History
<1>3. ASSUME NEW x \in StreamIds, NEW data \in Arrivals, NEW fin \in BOOLEAN,
             PeerSends(x, data, fin)
      PROVE  BodyStep(id)
  <2>1. data \in Pieces
    <3>1. ASSUME NEW chunk \in Chunks PROVE <<chunk>> \in Seq(Chunks)
      OBVIOUS
    <3> QED
      BY <1>1, <3>1 DEF Arrivals, Pieces
  <2>2. /\ unread' = [unread EXCEPT ![x] = @ \o data]
        /\ peerBody' = [peerBody EXCEPT ![x] = @ \o data]
    BY <1>3 DEF PeerSends
  <2>3. CASE id = x
    <3>1. Receives(id, data)
      BY <1>1, <1>2, <1>3, <2>2, <2>3 DEF Receives, PeerSends
    <3> QED
      BY <2>1, <3>1 DEF BodyStep
  <2>4. CASE id # x
    <3>1. unread'[id] = unread[id] /\ peerBody'[id] = peerBody[id]
      BY <1>1, <2>2, <2>4
    <3> QED
      BY <1>2, <3>1, NothingRead
  <2> QED
    BY <2>3, <2>4
<1>4. ASSUME UNCHANGED <<unread, peerBody>> PROVE BodyStep(id)
  BY <1>2, <1>4, NothingRead
<1>5. (\E x \in StreamIds, data \in Arrivals, fin \in BOOLEAN : PeerSends(x, data, fin))
      \/ UNCHANGED <<unread, peerBody>>
  BY DEF Arrival, PeerResets, QuicCloses, ConnectionEnds
<1> QED
  BY <1>2, <1>3, <1>4, <1>5

\* A poll that fails may lose what it had read.
LEMMA AbortReads ==
  ASSUME TypeOK, FreshIds, EndsAreReal, AbortPoll, NEW id \in StreamIds
  PROVE  BodyStep(id)
<1>1. /\ unread \in [StreamIds -> Seq(Chunks)] /\ UNCHANGED <<eventVars, peerBody>>
      /\ quicStreams \subseteq StreamIds /\ batch # <<>>
      /\ failures' = failures + 1 /\ failures \in Nat
  BY MaxFailuresAssumption DEF AbortPoll, quicHistory, TypeOK, QuicTypeOK
<1>2. History' = History /\ BodyOf(History, id) \in Pieces
  BY <1>1, HistoryBodyTyped DEF eventVars, History, TypeOK
<1>3. CASE UNCHANGED unread
  BY <1>1, <1>2, <1>3, NothingRead
<1>4. ASSUME Head(batch).type = "STREAM_READABLE", FailedRead(Head(batch).streamId)
      PROVE  BodyStep(id)
  <2> DEFINE x == Head(batch).streamId
  <2>1. x \in StreamIds
    BY <1>1, <1>4, HeadIsTyped DEF StreamEventTypes
  <2>2. PICK n \in 0..ReadCount(x) : unread' = [unread EXCEPT ![x] = SubSeq(@, n + 1, Len(@))]
    BY <1>4 DEF FailedRead
  <2> HIDE DEF x
  <2> DEFINE d == SubSeq(unread[x], 1, n)
             rest == SubSeq(unread[x], n + 1, Len(unread[x]))
  <2>3. d \in Pieces /\ rest \in Pieces /\ d \o rest = unread[x]
    BY <1>1, <2>1, <2>2, ReadSplits
  <2>4. unread' = [unread EXCEPT ![x] = rest]
    BY <2>2
  <2> HIDE DEF d, rest
  <2>5. CASE id = x
    <3>1. BodyOf(History', id) = BodyOf(History, id) \o <<>>
      BY <1>2, PieceConcat
    <3>2. failures' # 0
      BY <1>1
    <3>3. Reads(id, d, rest, FALSE)
      BY <1>1, <2>1, <2>3, <2>4, <2>5, <3>1, <3>2 DEF Reads
    <3> QED
      BY <2>3, <3>3 DEF BodyStep
  <2>6. CASE id # x
    <3>1. unread'[id] = unread[id]
      BY <1>1, <2>4, <2>6
    <3> QED
      BY <1>1, <1>2, <3>1, NothingRead
  <2> QED
    BY <2>5, <2>6
<1>5. UNCHANGED unread
      \/ (Head(batch).type = "STREAM_READABLE" /\ FailedRead(Head(batch).streamId))
  BY DEF AbortPoll
<1> QED
  BY <1>3, <1>4, <1>5

\* In every step a stream reads or receives; an ended stream stays ended and a
\* failed call is not forgotten.
LEMMA StepReads ==
  ASSUME Inv, [Next]_vars, NEW id \in StreamIds
  PROVE  /\ BodyStep(id)
         /\ id \in terminal => id \in terminal'
         /\ failures' = 0 => failures = 0
<1>1. /\ TypeOK /\ ConnectionTypeOK /\ FreshIds /\ EndsAreReal
      /\ failures \in Nat /\ terminal \subseteq known /\ known \subseteq quicStreams
  BY MaxFailuresAssumption DEF Inv, TypeOK, QuicTypeOK, ConnectionTypeOK, FreshIds
<1>2. CASE Arrival
  BY <1>1, <1>2, ArrivalReceives
<1>3. ASSUME UNCHANGED <<eventVars, unread, peerBody>>
      PROVE  BodyStep(id)
  BY <1>1, <1>3, NothingRead DEF eventVars, History
<1>4. CASE ConnectionCall
  <2>1. UNCHANGED <<eventVars, unread, peerBody>>
    BY <1>4 DEF ConnectionCall, OpenRequestStream, RefusedOpen, FetchRequestStream, CloseConnection,
                CreateRequestStream, GetRequestStream, Close, connectionVars, quicVars, quicHistory
  <2>2. failures' = 0 => failures = 0
    BY <1>1, <1>4 DEF ConnectionCall, OpenRequestStream, RefusedOpen, FetchRequestStream,
                CloseConnection
  <2>3. id \in terminal => id \in terminal'
    BY <1>1, <1>4 DEF ConnectionCall, OpenRequestStream, RefusedOpen, FetchRequestStream,
                CloseConnection, CreateRequestStream, GetRequestStream, Close, connectionVars,
                streamStateVars
  <2> QED
    BY <1>3, <2>1, <2>2, <2>3
<1>5. CASE StreamCall
  <2>1. /\ UNCHANGED <<eventVars, unread, peerBody, terminal>>
        /\ failures' = failures \/ failures' = failures + 1
    BY <1>5 DEF StreamCall, WriteHeaders, WriteData, FinishStream, ResetStream, RefusedCall,
                HangUp, OnQuicStream, SubmitHeaders, SubmitData, End, Reset, quicHistory,
                connectionVars, streamStateVars
  <2> QED
    BY <1>1, <1>3, <2>1
<1>6. CASE DrainEvents
  <2>1. UNCHANGED <<eventVars, unread, peerBody, terminal, failures>>
    BY <1>6 DEF DrainEvents, quicHistory, streamStateVars
  <2> QED
    BY <1>3, <2>1
<1>7. CASE ConsumeQuicEvent
  <2>1. BodyStep(id)
    BY <1>1, <1>7, ConsumeReads DEF BodyStep
  <2>2. terminal \subseteq terminal' /\ failures' = failures
    <3>1. \/ \E x \in quicStreams, data \in Payloads, fin \in BOOLEAN : ConsumeReadable(x, data, fin)
          \/ \E x \in quicStreams, code \in ErrorCodes : ConsumeReset(x, code)
          \/ \E code \in ErrorCodes, isClosed \in BOOLEAN : ConsumeClosing(code, isClosed)
      BY <1>1, <1>7, EventIsSignal
    <3>2. failures' = failures
      BY <1>7 DEF ConsumeQuicEvent
    <3> QED
      BY <3>1, <3>2, SignalRevivesNone
  <2> QED
    BY <2>1, <2>2
<1>8. CASE AbortPoll
  <2>1. terminal' = terminal /\ failures' = failures + 1
    BY <1>8 DEF AbortPoll, streamStateVars
  <2> QED
    BY <1>1, <1>8, <2>1, AbortReads
<1>9. CASE PollReturn
  <2>1. /\ ReturnEvents
        /\ UNCHANGED <<unread, peerBody, failures>>
    BY <1>9 DEF PollReturn, quicVars, quicHistory
  <2>2. History' = History
    BY <1>1, <2>1, ReturnKeepsHistory
  <2>3. terminal' = terminal
    BY <2>1 DEF ReturnEvents, streamStateVars
  <2> QED
    BY <1>1, <2>1, <2>2, <2>3, NothingRead
<1>10. CASE UNCHANGED vars
  <2>1. UNCHANGED <<eventVars, unread, peerBody, terminal, failures>>
    BY <1>10 DEF vars, connectionVars, quicVars, quicHistory, streamStateVars
  <2> QED
    BY <1>3, <2>1
<1> QED
  BY <1>2, <1>4, <1>5, <1>6, <1>7, <1>8, <1>9, <1>10 DEF Next, Poll

\* Every step, the one that ends it included, accounts for the body of a live stream.
LEMMA LiveAccounts ==
  ASSUME Inv, BodyAccounted, [Next]_vars, failures' = 0, NEW id \in StreamIds, id \notin terminal
  PROVE  BodyOf(History', id) \o unread'[id] = peerBody'[id]
<1>1. BodyStep(id) /\ failures = 0
  BY StepReads
<1> DEFINE told == BodyOf(History, id)
           held == unread[id]
<1>2. told \o held = peerBody[id]
  BY <1>1 DEF BodyAccounted
<1>3. told \in Pieces /\ held \in Pieces
  BY HistoryBodyTyped DEF Inv, TypeOK, QuicTypeOK, Pieces
<1>4. ASSUME NEW d \in Pieces, NEW rest \in Pieces, NEW flag \in BOOLEAN, Reads(id, d, rest, flag)
      PROVE  BodyOf(History', id) \o unread'[id] = peerBody'[id]
  <2>1. /\ held = d \o rest /\ unread'[id] = rest /\ peerBody'[id] = peerBody[id]
        /\ BodyOf(History', id) = told \o d
    BY <1>1, <1>4 DEF Reads
  <2> HIDE DEF told, held
  <2>2. (told \o d) \o rest = told \o (d \o rest)
    BY <1>3, PieceAssociative
  <2> QED
    BY <1>2, <2>1, <2>2
<1>5. ASSUME NEW d \in Pieces, Receives(id, d)
      PROVE  BodyOf(History', id) \o unread'[id] = peerBody'[id]
  <2>1. /\ unread'[id] = held \o d /\ peerBody'[id] = peerBody[id] \o d
        /\ BodyOf(History', id) = told
    BY <1>5 DEF Receives
  <2> HIDE DEF told, held
  <2>2. (told \o held) \o d = told \o (held \o d)
    BY <1>3, PieceAssociative
  <2> QED
    BY <1>2, <2>1, <2>2
<1> QED
  BY <1>1, <1>4, <1>5 DEF BodyStep

\* So accounts are kept for every live stream.
LEMMA StepAccounts ==
  ASSUME Inv, BodyAccounted, [Next]_vars
  PROVE  BodyAccounted'
<1> SUFFICES ASSUME failures' = 0, NEW id \in StreamIds, id \notin terminal'
             PROVE  BodyOf(History', id) \o unread'[id] = peerBody'[id]
  BY DEF BodyAccounted
<1>1. id \notin terminal
  BY StepReads
<1> QED
  BY <1>1, LiveAccounts

\* A new connection has no body to account for.
LEMMA InitBody ==
  ASSUME Init, NEW id \in StreamIds
  PROVE  BodyOf(History, id) = <<>> /\ unread[id] = <<>> /\ peerBody[id] = <<>>
<1>1. delivered = <<>> /\ eventQueue = <<>>
  BY DEF Init, ConnectionInit
<1>2. History = <<>>
  BY <1>1 DEF History
<1>3. BodyOf(<<>>, id) = <<>>
  BY BodyOfNone
<1> QED
  BY <1>2, <1>3 DEF Init

\* While no call throws, nothing of the body of a live stream is lost, told
\* twice or told out of order, for any number of polls and any bound on reads.
THEOREM BodyConservation == Spec => []BodyAccounted
<1>1. Init => BodyAccounted
  <2>1. <<>> \o <<>> = <<>>
    BY PieceConcat, EmptySeq DEF Pieces
  <2> QED
    BY <2>1, InitBody DEF BodyAccounted
<1>2. Inv /\ BodyAccounted /\ [Next]_vars => BodyAccounted'
  BY StepAccounts
<1> QED
  BY <1>1, <1>2, Invariance, PTL DEF Spec

\* Every step leaves a body with gaps at most, failures or not.
LEMMA StepKeepsWithin ==
  ASSUME Inv, BodyHasOnlyGaps, [Next]_vars
  PROVE  BodyHasOnlyGaps'
<1> SUFFICES ASSUME NEW id \in StreamIds
             PROVE  IsWithin(BodyOf(History', id) \o unread'[id], peerBody'[id])
  BY DEF BodyHasOnlyGaps
<1> DEFINE told == BodyOf(History, id)
           held == unread[id]
           sent == peerBody[id]
<1>1. BodyStep(id) /\ IsWithin(told \o held, sent)
  BY StepReads DEF BodyHasOnlyGaps
<1>2. told \in Pieces /\ held \in Pieces /\ sent \in Pieces
  BY HistoryBodyTyped DEF Inv, TypeOK, QuicTypeOK, Pieces
<1>3. ASSUME NEW d \in Pieces, NEW rest \in Pieces, NEW flag \in BOOLEAN, Reads(id, d, rest, flag)
      PROVE  IsWithin(BodyOf(History', id) \o unread'[id], peerBody'[id])
  <2>1. /\ held = d \o rest /\ unread'[id] = rest /\ peerBody'[id] = sent
        /\ BodyOf(History', id) = told \o (IF flag THEN d ELSE <<>>)
    BY <1>3 DEF Reads
  <2> HIDE DEF told, held, sent
  <2>2. (told \o d) \o rest = told \o (d \o rest) /\ told \o <<>> = told
    <3>1. (told \o d) \o rest = told \o (d \o rest)
      BY <1>2, PieceAssociative
    <3>2. told \o <<>> = told
      BY <1>2, PieceConcat
    <3> QED
      BY <3>1, <3>2
  <2>3. IsWithin(told \o (d \o rest), sent)
    BY <1>1, <2>1
  <2>4. IsWithin(told \o rest, sent)
    BY <1>2, <2>3, WithinDrops
  <2>5. CASE flag
    <3>1. BodyOf(History', id) \o unread'[id] = told \o (d \o rest)
      BY <2>1, <2>2, <2>5
    <3> QED
      BY <2>1, <2>3, <3>1
  <2>6. CASE ~flag
    <3>1. BodyOf(History', id) \o unread'[id] = told \o rest
      BY <2>1, <2>2, <2>6
    <3> QED
      BY <2>1, <2>4, <3>1
  <2> QED
    BY <2>5, <2>6
<1>4. ASSUME NEW d \in Pieces, Receives(id, d)
      PROVE  IsWithin(BodyOf(History', id) \o unread'[id], peerBody'[id])
  <2>1. /\ unread'[id] = held \o d /\ peerBody'[id] = sent \o d
        /\ BodyOf(History', id) = told
    BY <1>4 DEF Receives
  <2> HIDE DEF told, held, sent
  <2> DEFINE before == told \o held
  <2>2. before \in Pieces /\ before \o d = told \o (held \o d)
    BY <1>2, PieceAssociative, PieceConcat
  <2>3. IsWithin(before, sent)
    BY <1>1
  <2> HIDE DEF before
  <2>4. IsWithin(before \o d, sent \o d)
    BY <1>2, <2>2, <2>3, WithinGrows
  <2> QED
    BY <2>1, <2>2, <2>4
<1> QED
  BY <1>1, <1>3, <1>4 DEF BodyStep

\* Whatever calls throw and whatever is lost with them, the application gets
\* nothing twice and nothing out of order.
THEOREM OnlyGaps == Spec => []BodyHasOnlyGaps
<1>1. Init => BodyHasOnlyGaps
  <2>1. <<>> \o <<>> = <<>>
    BY PieceConcat, EmptySeq DEF Pieces
  <2>2. IsWithin(<<>>, <<>>)
    BY NothingIsWithin
  <2> QED
    BY <2>1, <2>2, InitBody DEF BodyHasOnlyGaps
<1>2. Inv /\ BodyHasOnlyGaps /\ [Next]_vars => BodyHasOnlyGaps'
  BY StepKeepsWithin
<1> QED
  BY <1>1, <1>2, Invariance, PTL DEF Spec

-----------------------------------------------------------------------------
(* A completed stream has its whole body, while no event finds more than the *)
(* bound on reads                                                            *)

\* No event finds more to read than it may read.
FewUnread == \A id \in StreamIds : Len(unread[id]) <= MaxReads

\* The QUIC events that have not been consumed: QUIC has none while a poll runs.
Pending == IF polling THEN batch ELSE quicEvents

OneQueue ==
    /\ polling => quicEvents = <<>>
    /\ ~polling => batch = <<>>

Closes(event, id) == event.type \in EndTypes /\ event.streamId = id
Offers(event, id) == event.type = "STREAM_READABLE" /\ event.streamId = id

\* A queue offers the stream to be read before it says that it is over.
Awaits(queue, id) ==
    \E i \in 1..Len(queue) :
        /\ Offers(queue[i], id)
        /\ \A j \in 1..Len(queue) : j < i => ~Closes(queue[j], id)

\* What is unread will be read before the stream is closed.
ReadIsPending ==
    failures = 0 =>
        \A id \in StreamIds \ terminal : unread[id] # <<>> => Awaits(Pending, id)

\* An event behind the others changes nothing that is awaited.
LEMMA AwaitsStays ==
  ASSUME NEW queue \in Seq(QuicEvent), NEW event \in QuicEvent, NEW id, Awaits(queue, id)
  PROVE  Awaits(Append(queue, event), id)
<1> DEFINE longer == Append(queue, event)
<1>1. Len(longer) = Len(queue) + 1 /\ \A i \in 1..Len(queue) : longer[i] = queue[i]
  OBVIOUS
<1>2. Len(queue) \in Nat
  OBVIOUS
<1>3. PICK i \in 1..Len(queue) :
         /\ Offers(queue[i], id)
         /\ \A j \in 1..Len(queue) : j < i => ~Closes(queue[j], id)
  BY DEF Awaits
<1> HIDE DEF longer
<1>4. i \in 1..Len(longer) /\ Offers(longer[i], id)
  BY <1>1, <1>2, <1>3
<1>5. ASSUME NEW j \in 1..Len(longer), j < i PROVE ~Closes(longer[j], id)
  <2>1. j \in 1..Len(queue) /\ longer[j] = queue[j]
    BY <1>1, <1>2, <1>5
  <2> QED
    BY <1>3, <1>5, <2>1
<1> QED
  BY <1>4, <1>5 DEF Awaits, longer

\* An event that offers the stream is awaited, if nothing closes it before.
LEMMA AwaitsNew ==
  ASSUME NEW queue \in Seq(QuicEvent), NEW event \in QuicEvent, NEW id,
         Offers(event, id), \A j \in 1..Len(queue) : ~Closes(queue[j], id)
  PROVE  Awaits(Append(queue, event), id)
<1> DEFINE longer == Append(queue, event)
           i == Len(queue) + 1
<1>1. /\ Len(longer) = i /\ longer[i] = event
      /\ \A j \in 1..Len(queue) : longer[j] = queue[j]
  OBVIOUS
<1>2. Len(queue) \in Nat
  OBVIOUS
<1> HIDE DEF longer
<1>3. i \in 1..Len(longer) /\ \A j \in 1..Len(longer) : j < i => j \in 1..Len(queue)
  BY <1>1, <1>2
<1> HIDE DEF i
<1>4. \A j \in 1..Len(longer) : j < i => ~Closes(longer[j], id)
  BY <1>1, <1>3
<1> QED
  BY <1>1, <1>3, <1>4 DEF Awaits, longer

\* The first event does not close the stream, and offers it unless a later one does.
LEMMA AwaitsTail ==
  ASSUME NEW queue \in Seq(QuicEvent), queue # <<>>, NEW id, Awaits(queue, id)
  PROVE  /\ ~Closes(Head(queue), id)
         /\ Offers(Head(queue), id) \/ Awaits(Tail(queue), id)
<1> DEFINE rest == Tail(queue)
<1>1. /\ Head(queue) = queue[1] /\ Len(queue) \in Nat /\ Len(rest) = Len(queue) - 1
      /\ 1 \in 1..Len(queue)
      /\ \A i \in 1..Len(rest) : rest[i] = queue[i + 1]
  OBVIOUS
<1>2. PICK i \in 1..Len(queue) :
         /\ Offers(queue[i], id)
         /\ \A j \in 1..Len(queue) : j < i => ~Closes(queue[j], id)
  BY DEF Awaits
<1> HIDE DEF rest
<1>3. CASE i = 1
  BY <1>1, <1>2, <1>3 DEF Offers, Closes, EndTypes
<1>4. CASE i # 1
  <2> DEFINE k == i - 1
  <2>1. 1 < i /\ k \in 1..Len(rest) /\ k + 1 = i
    BY <1>1, <1>2, <1>4
  <2> HIDE DEF k
  <2>2. Offers(rest[k], id)
    BY <1>1, <1>2, <2>1
  <2>3. ASSUME NEW j \in 1..Len(rest), j < k PROVE ~Closes(rest[j], id)
    <3>1. j + 1 \in 1..Len(queue) /\ j + 1 < i /\ rest[j] = queue[j + 1]
      BY <1>1, <2>1, <2>3
    <3> QED
      BY <1>2, <3>1
  <2>4. Awaits(rest, id)
    BY <2>1, <2>2, <2>3 DEF Awaits
  <2> QED
    BY <1>1, <1>2, <2>1, <2>4 DEF rest
<1> QED
  BY <1>3, <1>4

\* A read within the bound leaves nothing.
LEMMA ReadTakesAll ==
  ASSUME unread \in [StreamIds -> Seq(Chunks)], NEW id \in StreamIds,
         Len(unread[id]) <= MaxReads
  PROVE  SubSeq(unread[id], ReadCount(id) + 1, Len(unread[id])) = <<>>
<1> DEFINE s == unread[id]
<1>1. s \in Seq(Chunks) /\ Len(s) \in Nat /\ ReadCount(id) = Len(s)
  BY DEF ReadCount
<1> HIDE DEF s
<1>2. SubSeq(s, Len(s) + 1, Len(s)) = <<>>
  BY <1>1
<1> QED
  BY <1>1, <1>2 DEF s

\* What arrives does so between two polls, and touches no stream state.
LEMMA ArrivalIsQuiet ==
  ASSUME Arrival
  PROVE  /\ ~polling /\ ~polling'
         /\ UNCHANGED <<batch, terminal, failures>>
<1>1. \E type, id, code : QuicEventArrives(type, id, code)
  BY DEF Arrival, PeerSends, PeerResets, QuicCloses, ConnectionEnds
<1>2. ~polling /\ UNCHANGED connectionVars /\ UNCHANGED <<batch, failures>>
  BY <1>1 DEF QuicEventArrives
<1>3. UNCHANGED polling /\ UNCHANGED terminal
  BY <1>2 DEF connectionVars, streamStateVars
<1>4. ~polling'
  BY <1>2, <1>3, Zenon
<1> QED
  BY <1>2, <1>3, <1>4

\* Polls and arrivals take turns with the two queues.
LEMMA StepKeepsOneQueue ==
  ASSUME OneQueue, [Next]_vars
  PROVE  OneQueue'
<1>1. CASE Arrival
  BY <1>1, ArrivalIsQuiet DEF OneQueue
<1>2. ASSUME UNCHANGED <<polling, batch, quicEvents>>
      PROVE  OneQueue'
  BY <1>2 DEF OneQueue
<1>3. CASE ConnectionCall
  BY <1>2, <1>3 DEF ConnectionCall, OpenRequestStream, RefusedOpen, FetchRequestStream,
                    CloseConnection, CreateRequestStream, GetRequestStream, Close, connectionVars,
                    quicVars
<1>4. CASE StreamCall
  BY <1>2, <1>4 DEF StreamCall, WriteHeaders, WriteData, FinishStream, ResetStream, RefusedCall,
                    HangUp, OnQuicStream, SubmitHeaders, SubmitData, End, Reset, connectionVars
<1>5. CASE DrainEvents
  BY <1>5 DEF OneQueue, DrainEvents
<1>6. CASE ConsumeQuicEvent
  BY <1>6 DEF OneQueue, ConsumeQuicEvent
<1>7. CASE AbortPoll
  BY <1>7 DEF OneQueue, AbortPoll
<1>8. CASE PollReturn
  BY <1>8 DEF OneQueue, PollReturn, ReturnEvents, quicVars
<1>9. CASE UNCHANGED vars
  BY <1>2, <1>9 DEF vars, connectionVars, quicVars
<1> QED
  BY <1>1, <1>3, <1>4, <1>5, <1>6, <1>7, <1>8, <1>9 DEF Next, Poll

\* What arrives is offered, and before the stream is closed.
LEMMA ArrivalIsPending ==
  ASSUME TypeOK, EndsAreReal, ReadIsPending, Arrival
  PROVE  ReadIsPending'
<1>1. /\ quicEvents \in Seq(QuicEvent) /\ unread \in [StreamIds -> Seq(Chunks)]
      /\ PeerIds \subseteq StreamIds /\ quicStreams \subseteq StreamIds
  BY PeerIdsAssumption DEF TypeOK, QuicTypeOK
<1>2. ~polling /\ ~polling' /\ terminal' = terminal /\ failures' = failures
  BY ArrivalIsQuiet
<1>3. Pending = quicEvents /\ Pending' = quicEvents'
  BY <1>2 DEF Pending
<1>4. SUFFICES ASSUME failures = 0, NEW id \in StreamIds, id \notin terminal, unread'[id] # <<>>
               PROVE  Awaits(quicEvents', id)
  BY <1>2, <1>3 DEF ReadIsPending
<1>5. ASSUME NEW event \in QuicEvent, quicEvents' = Append(quicEvents, event),
             unread'[id] = unread[id]
      PROVE  Awaits(quicEvents', id)
  <2>1. Awaits(quicEvents, id)
    BY <1>3, <1>4, <1>5 DEF ReadIsPending
  <2> QED
    BY <1>1, <1>5, <2>1, AwaitsStays
<1>6. ASSUME NEW x \in StreamIds, NEW data \in Arrivals, NEW fin \in BOOLEAN,
             PeerSends(x, data, fin)
      PROVE  Awaits(quicEvents', id)
  <2> DEFINE event == [type |-> "STREAM_READABLE", streamId |-> x, errorCode |-> 0]
  <2>1. event \in QuicEvent
    BY ErrorCodesAssumption DEF QuicEvent, QuicEventTypes
  <2>2. quicEvents' = Append(quicEvents, event)
    BY <1>6 DEF PeerSends, QuicEventArrives
  <2>3. Offers(event, x)
    BY DEF Offers
  <2> HIDE DEF event
  <2>4. CASE id = x
    <3>1. \A j \in 1..Len(quicEvents) : ~Closes(quicEvents[j], id)
      BY <1>6, <2>4 DEF EndsAreReal, About, Closes, PeerSends
    <3> QED
      BY <1>1, <2>1, <2>2, <2>3, <2>4, <3>1, AwaitsNew
  <2>5. CASE id # x
    <3>1. unread'[id] = unread[id]
      BY <1>1, <1>6, <2>5 DEF PeerSends
    <3> QED
      BY <1>5, <2>1, <2>2, <3>1
  <2> QED
    BY <2>4, <2>5
<1>7. ASSUME NEW type \in QuicEventTypes, NEW x \in StreamIds \cup {NoStream},
             NEW code \in ErrorCodes, QuicEventArrives(type, x, code), UNCHANGED unread
      PROVE  Awaits(quicEvents', id)
  <2> DEFINE event == [type |-> type, streamId |-> x, errorCode |-> code]
  <2>1. event \in QuicEvent
    BY DEF QuicEvent
  <2>2. quicEvents' = Append(quicEvents, event)
    BY <1>7 DEF QuicEventArrives
  <2> HIDE DEF event
  <2> QED
    BY <1>5, <1>7, <2>1, <2>2
<1>8. ASSUME NEW x \in StreamIds, NEW code \in ErrorCodes, PeerResets(x, code)
      PROVE  Awaits(quicEvents', id)
  BY <1>7, <1>8 DEF PeerResets, QuicEventTypes
<1>9. ASSUME NEW x \in StreamIds, QuicCloses(x)
      PROVE  Awaits(quicEvents', id)
  BY <1>7, <1>9, ErrorCodesAssumption DEF QuicCloses, QuicEventTypes
<1>10. ASSUME NEW type \in {"CONNECTION_CLOSED", "CONNECTION_DRAINING"}, NEW code \in ErrorCodes,
              ConnectionEnds(type, code)
       PROVE  Awaits(quicEvents', id)
  BY <1>7, <1>10 DEF ConnectionEnds, QuicEventTypes
<1> QED
  BY <1>6, <1>8, <1>9, <1>10 DEF Arrival

\* The event that offers a stream leaves nothing unread.
LEMMA ConsumeIsPending ==
  ASSUME TypeOK, FreshIds, EndsAreReal, ReadIsPending, FewUnread, ConsumeQuicEvent
  PROVE  ReadIsPending'
<1>1. /\ batch \in Seq(QuicEvent) /\ unread \in [StreamIds -> Seq(Chunks)]
      /\ quicStreams \subseteq StreamIds
      /\ polling /\ polling' /\ batch # <<>> /\ batch' = Tail(batch) /\ failures' = failures
  BY DEF TypeOK, QuicTypeOK, ConsumeQuicEvent
<1>2. Pending = batch /\ Pending' = Tail(batch)
  BY <1>1 DEF Pending
<1>3. SUFFICES ASSUME failures = 0, NEW id \in StreamIds, id \notin terminal', unread'[id] # <<>>
               PROVE  Awaits(Tail(batch), id)
  BY <1>1, <1>2 DEF ReadIsPending
<1>4. id \notin terminal
  <2>1. \/ \E x \in quicStreams, data \in Payloads, fin \in BOOLEAN : ConsumeReadable(x, data, fin)
        \/ \E x \in quicStreams, code \in ErrorCodes : ConsumeReset(x, code)
        \/ \E code \in ErrorCodes, isClosed \in BOOLEAN : ConsumeClosing(code, isClosed)
    BY EventIsSignal
  <2>2. terminal \subseteq terminal'
    BY <2>1, SignalRevivesNone
  <2> QED
    BY <1>3, <2>2
<1>5. unread[id] # <<>>
  <2>1. PICK d \in Pieces, rest \in Pieces, told \in BOOLEAN : Reads(id, d, rest, told)
    BY ConsumeReads
  <2>2. unread[id] = d \o rest /\ rest # <<>>
    BY <1>3, <2>1 DEF Reads
  <2> QED
    BY <2>2, ConcatEqualIffEmpty DEF Pieces
<1>6. ~Offers(Head(batch), id)
  <2> SUFFICES ASSUME Offers(Head(batch), id) PROVE FALSE
    OBVIOUS
  <2>1. ReadStream(id)
    BY DEF Offers, ConsumeQuicEvent
  <2>2. unread'[id] = SubSeq(unread[id], ReadCount(id) + 1, Len(unread[id]))
    BY <1>1, <2>1 DEF ReadStream
  <2> QED
    BY <1>1, <1>3, <2>2, ReadTakesAll DEF FewUnread
<1>7. Awaits(batch, id)
  BY <1>2, <1>3, <1>4, <1>5 DEF ReadIsPending
<1> QED
  BY <1>1, <1>6, <1>7, AwaitsTail

\* Every step keeps what is unread awaited.
LEMMA StepIsPending ==
  ASSUME Inv, OneQueue, ReadIsPending, FewUnread, [Next]_vars
  PROVE  ReadIsPending'
<1>1. TypeOK /\ FreshIds /\ EndsAreReal
  BY DEF Inv
<1>2. ASSUME Pending' = Pending, UNCHANGED unread
      PROVE  ReadIsPending'
  BY <1>2, StepReads DEF ReadIsPending
<1>3. CASE Arrival
  BY <1>1, <1>3, ArrivalIsPending
<1>4. CASE ConnectionCall
  <2>1. UNCHANGED <<polling, batch, quicEvents, unread>>
    BY <1>4 DEF ConnectionCall, OpenRequestStream, RefusedOpen, FetchRequestStream,
                CloseConnection, CreateRequestStream, GetRequestStream, Close, connectionVars,
                quicVars
  <2> QED
    BY <1>2, <2>1 DEF Pending
<1>5. CASE StreamCall
  <2>1. UNCHANGED <<polling, batch, quicEvents, unread>>
    BY <1>5 DEF StreamCall, WriteHeaders, WriteData, FinishStream, ResetStream, RefusedCall,
                HangUp, OnQuicStream, SubmitHeaders, SubmitData, End, Reset, connectionVars
  <2> QED
    BY <1>2, <2>1 DEF Pending
<1>6. CASE DrainEvents
  <2>1. Pending = quicEvents /\ Pending' = quicEvents /\ UNCHANGED unread
    BY <1>6 DEF DrainEvents, Pending
  <2> QED
    BY <1>2, <2>1
<1>7. CASE ConsumeQuicEvent
  BY <1>1, <1>7, ConsumeIsPending
<1>8. CASE AbortPoll
  <2>1. failures' # 0
    BY <1>1, <1>8, MaxFailuresAssumption DEF AbortPoll, TypeOK, QuicTypeOK
  <2> QED
    BY <2>1 DEF ReadIsPending
<1>9. CASE PollReturn
  <2>1. polling /\ ~polling' /\ batch = <<>> /\ UNCHANGED <<quicEvents, unread>>
    BY <1>9 DEF PollReturn, ReturnEvents, quicVars
  <2>2. Pending = <<>> /\ Pending' = <<>>
    BY <2>1 DEF Pending, OneQueue
  <2> QED
    BY <1>2, <2>1, <2>2
<1>10. CASE UNCHANGED vars
  <2>1. UNCHANGED <<polling, batch, quicEvents, unread>>
    BY <1>10 DEF vars, connectionVars, quicVars
  <2> QED
    BY <1>2, <2>1 DEF Pending
<1> QED
  BY <1>3, <1>4, <1>5, <1>6, <1>7, <1>8, <1>9, <1>10 DEF Next, Poll

\* A stream is completed by an event that leaves nothing of it unread.
LEMMA CompletionEmpties ==
  ASSUME TypeOK, FreshIds, EndsAreReal, ReadIsPending, FewUnread, failures = 0,
         ConsumeQuicEvent, NEW id \in StreamIds, id \in remoteEnded' \ remoteEnded
  PROVE  id \notin terminal /\ unread'[id] = <<>>
<1> DEFINE event == Head(batch)
           x == event.streamId
<1>1. /\ batch \in Seq(QuicEvent) /\ unread \in [StreamIds -> Seq(Chunks)]
      /\ polling /\ batch # <<>>
  BY DEF TypeOK, QuicTypeOK, ConsumeQuicEvent
<1>2. \/ event.type = "STREAM_READABLE" /\ ReadStream(x)
      \/ /\ event.type = "STREAM_CLOSED"
         /\ ConsumeReadable(x, <<>>, TRUE)
         /\ UNCHANGED unread
      \/ ConsumeReset(x, event.errorCode)
      \/ ConsumeClosing(event.errorCode, event.type = "CONNECTION_CLOSED")
  BY DEF ConsumeQuicEvent
<1>3. ASSUME NEW data, NEW fin, ConsumeReadable(x, data, fin)
      PROVE  id = x /\ id \notin terminal
  BY <1>3 DEF ConsumeReadable, ConsumeLateReadable, ConsumeLiveReadable, streamStateVars
<1>4. CASE event.type = "STREAM_READABLE" /\ ReadStream(x)
  <2>1. id = x /\ id \notin terminal
    BY <1>3, <1>4 DEF ReadStream
  <2>2. unread'[id] = SubSeq(unread[id], ReadCount(id) + 1, Len(unread[id]))
    BY <1>1, <1>4, <2>1 DEF ReadStream
  <2> QED
    BY <1>1, <2>1, <2>2, ReadTakesAll DEF FewUnread
<1>5. CASE event.type = "STREAM_CLOSED" /\ ConsumeReadable(x, <<>>, TRUE) /\ UNCHANGED unread
  <2>1. id = x /\ id \notin terminal
    BY <1>3, <1>5
  <2>2. Closes(event, id)
    BY <1>5, <2>1 DEF Closes, EndTypes
  <2>3. ~Awaits(batch, id)
    BY <1>1, <2>2, AwaitsTail
  <2>4. unread[id] = <<>>
    BY <1>1, <2>1, <2>3 DEF ReadIsPending, Pending
  <2> QED
    BY <1>5, <2>1, <2>4
<1>6. CASE \/ ConsumeReset(x, event.errorCode)
           \/ ConsumeClosing(event.errorCode, event.type = "CONNECTION_CLOSED")
  BY <1>6 DEF ConsumeReset, ConsumeLateReset, ConsumeLiveReset, ConsumeClosing,
              ConsumeFirstClosing, ConsumeLaterClosing, ConsumeLateClosing, streamStateVars
<1> QED
  BY <1>2, <1>4, <1>5, <1>6

\* Only a poll completes streams, and hanging up is for ever.
LEMMA StepCompletes ==
  ASSUME [Next]_vars
  PROVE  (remoteEnded' \subseteq remoteEnded \/ ConsumeQuicEvent) /\ hungUp \subseteq hungUp'
<1>1. CASE Arrival
  BY <1>1 DEF Arrival, PeerSends, PeerResets, QuicCloses, ConnectionEnds, QuicEventArrives,
              connectionVars, streamStateVars
<1>2. CASE ConnectionCall
  BY <1>2 DEF ConnectionCall, OpenRequestStream, RefusedOpen, FetchRequestStream,
              CloseConnection, CreateRequestStream, GetRequestStream, Close,
              connectionVars, streamStateVars
<1>3. CASE StreamCall
  BY <1>3 DEF StreamCall, WriteHeaders, WriteData, FinishStream, ResetStream, RefusedCall,
              HangUp, OnQuicStream, SubmitHeaders, SubmitData, End, Reset,
              connectionVars, streamStateVars
<1>4. CASE DrainEvents \/ AbortPoll \/ PollReturn
  BY <1>4 DEF DrainEvents, AbortPoll, PollReturn, ReturnEvents, streamStateVars
<1>5. CASE ConsumeQuicEvent
  BY <1>5 DEF ConsumeQuicEvent
<1>6. CASE UNCHANGED vars
  BY <1>6 DEF vars, connectionVars, streamStateVars
<1> QED
  BY <1>1, <1>2, <1>3, <1>4, <1>5, <1>6 DEF Next, Poll

\* Every step completes a stream in full, and leaves a completed one as it is.
LEMMA StepCompletesInFull ==
  ASSUME Inv, BodyAccounted, ReadIsPending, FewUnread, CompletedInFull, [Next]_vars
  PROVE  CompletedInFull'
<1> SUFFICES ASSUME failures' = 0, NEW id \in remoteEnded', id \notin hungUp'
             PROVE  BodyOf(History', id) = peerBody'[id]
  BY DEF CompletedInFull
<1>1. /\ TypeOK /\ ConnectionTypeOK /\ FreshIds /\ EndsAreReal /\ Inv' /\ id \notin hungUp
      /\ remoteEnded \subseteq terminal
  BY StepInv, StepCompletes DEF Inv, TypeOK, OneEnding
<1>2. id \in StreamIds
  BY <1>1 DEF Inv, TypeOK, ConnectionTypeOK
<1>3. failures = 0 /\ BodyStep(id)
  BY <1>2, StepReads
<1>4. CASE id \in remoteEnded
  <2> DEFINE told == BodyOf(History, id)
             sent == peerBody[id]
  <2>1. told = sent /\ id \in terminal /\ id \in peerDone
    BY <1>1, <1>3, <1>4 DEF CompletedInFull, Inv, CompletionIsEarned, MayBeClosed
  <2>2. told \in Pieces /\ sent \in Pieces
    BY <1>1, <1>2, HistoryBodyTyped DEF TypeOK, QuicTypeOK, Pieces
  <2>3. told \o <<>> = told /\ sent \o <<>> = sent
    BY <2>2, PieceConcat
  <2>4. ASSUME NEW d \in Pieces, NEW rest \in Pieces, NEW flag \in BOOLEAN,
               Reads(id, d, rest, flag)
        PROVE  BodyOf(History', id) = told /\ peerBody'[id] = sent
    BY <2>1, <2>3, <2>4 DEF Reads
  <2>5. ASSUME NEW d \in Pieces, Receives(id, d)
        PROVE  BodyOf(History', id) = told /\ peerBody'[id] = sent
    BY <2>1, <2>3, <2>5 DEF Receives
  <2> QED
    BY <1>3, <2>1, <2>4, <2>5 DEF BodyStep
<1>5. CASE id \notin remoteEnded
  <2>1. ConsumeQuicEvent
    BY <1>5, StepCompletes
  <2>2. id \notin terminal /\ unread'[id] = <<>>
    BY <1>1, <1>2, <1>3, <1>5, <2>1, CompletionEmpties
  <2>3. BodyOf(History', id) \o unread'[id] = peerBody'[id]
    BY <1>2, <2>2, LiveAccounts
  <2>4. BodyOf(History', id) \in Pieces
    <3>1. ConnectionTypeOK'
      BY <1>1 DEF Inv, TypeOK
    <3> QED
      BY <3>1, LaterBodyTyped
  <2> QED
    BY <2>2, <2>3, <2>4, PieceConcat
<1> QED
  BY <1>4, <1>5

\* As long as no event finds more to read than the bound on reads, and no call
\* throws, a stream the peer ended is completed with all of its body, however
\* arrivals, reads, closes and polls interleave.  The bound is the only reason
\* why a completed stream can lack a part of its body.
THEOREM CompletionInFull == Spec /\ []FewUnread => []CompletedInFull
<1> DEFINE Full == BodyAccounted /\ OneQueue /\ ReadIsPending /\ CompletedInFull
<1>1. Init => Full
  <2> SUFFICES ASSUME Init PROVE Full
    OBVIOUS
  <2>1. OneQueue /\ remoteEnded = {}
    BY DEF Init, ConnectionInit, OneQueue
  <2>2. <<>> \o <<>> = <<>>
    BY PieceConcat, EmptySeq DEF Pieces
  <2>3. BodyAccounted
    BY <2>2, InitBody DEF BodyAccounted
  <2>4. ReadIsPending
    BY InitBody DEF ReadIsPending
  <2>5. CompletedInFull
    BY <2>1 DEF CompletedInFull
  <2> QED
    BY <2>1, <2>3, <2>4, <2>5
<1>2. Inv /\ FewUnread /\ Full /\ [Next]_vars => Full'
  BY StepAccounts, StepKeepsOneQueue, StepIsPending, StepCompletesInFull
<1>3. Full => CompletedInFull
  OBVIOUS
<1> QED
  BY <1>1, <1>2, <1>3, Invariance, PTL DEF Spec
=============================================================================
