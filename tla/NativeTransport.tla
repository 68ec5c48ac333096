-------------------------- MODULE NativeTransport --------------------------
(***************************************************************************)
(* An Http3Connection constructed with a native ngtcp2 class, so with an   *)
(* nghttp3_conn of its own.  What is read from the QUIC streams goes to    *)
(* nghttp3, whose callbacks queue the events; what the request streams     *)
(* submit goes to nghttp3, and the flush loop carries what it writes to    *)
(* the QUIC streams.                                                       *)
(*                                                                         *)
(* nghttp3 is external: here it is, per stream, how far each direction has *)
(* come, whether it wants body data, and what it has serialized and not    *)
(* been told is written.  The QUIC side is that of QuicTransport.  The     *)
(* control and QPACK streams are in ControlStreams.                        *)
(***************************************************************************)
EXTENDS QuicTransport, BodyBuffer

CONSTANTS
    Server,        \* native_h3_server
    HeaderBlocks,  \* the chunks that are a HEADERS frame; the others are DATA
    MaxPieces      \* bound: pieces the application submits of one body

ASSUME RoleAssumption == Server \in BOOLEAN /\ PeerIds = IF Server THEN StreamIds ELSE {}
ASSUME HeaderBlocksAssumption == HeaderBlocks \subseteq Chunks
ASSUME MaxPiecesAssumption == MaxPieces \in Nat

VARIABLES
    h3Stream,   \* nghttp3: per stream, whether it has an object for it
    h3In,       \* nghttp3: per stream, what it has seen of the incoming message
    h3Out,      \* nghttp3: per stream, what it has been given of the outgoing one
    asks,       \* nghttp3: streams it will call read_data for
    outq,       \* nghttp3: per stream, serialized and not yet told as written
    bodies,     \* native_stream_bodies; an entry that is missing reads like NewBody
    feed,       \* what nghttp3_conn_read_stream() in progress has still to parse
    call,       \* the request stream method whose flush loop is in progress
    submitted,  \* history: per stream, what the application submitted
    wire,       \* history: per stream, what QUIC was given
    refused     \* history: nghttp3 refused what it was fed

h3Vars == <<h3Stream, h3In, h3Out, asks, outq>>
nativeVars == <<h3Vars, bodies, feed, call, submitted, wire, refused>>
allVars == <<vars, nativeVars>>

NoFeed == [id |-> NoStream, data |-> <<>>, fin |-> FALSE]
NoCall == [op |-> "none", id |-> NoStream]

\* How far a message has come in one direction.
Progress == {"nothing", "headers", "whole"}

\* What goes to a QUIC stream: the HEADERS frame, body data, the FIN, and data
\* read through a pointer into a buffer that is gone.
OutItems == {"HEADERS", "FIN", "UNSPECIFIED"} \cup Chunks

\* The marks of the model are not bytes.
ASSUME MarksAssumption == Chunks \cap {"HEADERS", "FIN", "UNSPECIFIED"} = {}

BodyPieces == Chunks \ HeaderBlocks

H3TypeOK ==
    /\ h3Stream \in [StreamIds -> {"none", "open", "closed"}]
    /\ h3In \in [StreamIds -> Progress]
    /\ h3Out \in [StreamIds -> Progress]
    /\ asks \subseteq StreamIds
    /\ outq \in [StreamIds -> Seq(OutItems)]
    /\ bodies \in [StreamIds -> Bodies(Chunks)]
    /\ feed \in [id : StreamIds \cup {NoStream}, data : Seq(Chunks), fin : BOOLEAN]
    /\ call \in [op : {"none", "headers", "data", "end"}, id : StreamIds \cup {NoStream}]
    /\ submitted \in [StreamIds -> Seq(OutItems)]
    /\ wire \in [StreamIds -> Seq(OutItems)]
    /\ refused \in BOOLEAN

NativeTypeOK == TypeOK /\ H3TypeOK

\* init_native_h3(): a connection with no stream yet.
NativeInit ==
    /\ Init
    /\ h3Stream = [id \in StreamIds |-> "none"]
    /\ h3In = [id \in StreamIds |-> "nothing"]
    /\ h3Out = [id \in StreamIds |-> "nothing"]
    /\ asks = {}
    /\ outq = [id \in StreamIds |-> <<>>]
    /\ bodies = [id \in StreamIds |-> NewBody]
    /\ feed = NoFeed
    /\ call = NoCall
    /\ submitted = [id \in StreamIds |-> <<>>]
    /\ wire = [id \in StreamIds |-> <<>>]
    /\ refused = FALSE

H3Streams == {id \in StreamIds : h3Stream[id] = "open"}

\* nghttp3_conn_read_stream() has not returned.
Parsing == feed # NoFeed

\* No method is in progress: the application and the peer may act.
Idle == ~polling /\ call = NoCall

-----------------------------------------------------------------------------
(* What the callbacks queue *)

\* emit_headers_once
EmitHeadersOnce(id) ==
    IF id \in terminal \cup remoteHeaders
    THEN UNCHANGED <<known, remoteHeaders, eventQueue>>
    ELSE /\ known' = known \cup {id}
         /\ remoteHeaders' = remoteHeaders \cup {id}
         /\ eventQueue' = Append(eventQueue, HeadersReceived(id))

\* Mutant: data of an ended stream is still told.
EmitDataAlways(id, chunk) ==
    /\ known' = known \cup {id}
    /\ eventQueue' = Append(eventQueue, DataReceived(id, <<chunk>>))

\* emit_data_event
EmitData(id, chunk) ==
    /\ known' = known \cup {id}
    /\ eventQueue' = IF id \in terminal THEN eventQueue
                     ELSE Append(eventQueue, DataReceived(id, <<chunk>>))

\* nghttp3's data that points into a buffer is unusable when the buffer moves
\* or goes: what is written then is whatever is there.
Spoiled(items) == [i \in DOMAIN items |-> IF items[i] \in Chunks THEN "UNSPECIFIED" ELSE items[i]]

\* Mutant: the outgoing body stays behind.
EmitTerminalKeepsBody(id, event) ==
    IF id \in terminal
    THEN UNCHANGED <<known, remoteEnded, wasReset, terminal, closed, eventQueue, bodies>>
    ELSE /\ known' = known \cup {id}
         /\ IF event.type = "StreamReset"
            THEN wasReset' = wasReset \cup {id} /\ UNCHANGED remoteEnded
            ELSE remoteEnded' = remoteEnded \cup {id} /\ UNCHANGED wasReset
         /\ terminal' = terminal \cup {id}
         /\ UNCHANGED bodies
         /\ MarkStreamClosed(id)
         /\ eventQueue' = Append(eventQueue, event)

\* emit_terminal_once, which also frees the outgoing body.
EmitTerminalOnce(id, event) ==
    IF id \in terminal
    THEN UNCHANGED <<known, remoteEnded, wasReset, terminal, closed, eventQueue, bodies>>
    ELSE /\ known' = known \cup {id}
         /\ IF event.type = "StreamReset"
            THEN wasReset' = wasReset \cup {id} /\ UNCHANGED remoteEnded
            ELSE remoteEnded' = remoteEnded \cup {id} /\ UNCHANGED wasReset
         /\ terminal' = terminal \cup {id}
         /\ bodies' = [bodies EXCEPT ![id] = NewBody]
         /\ MarkStreamClosed(id)
         /\ eventQueue' = Append(eventQueue, event)

\* What stream_close_cb reports: no error code means that all is well.
CloseEvent(id, code) == IF code # 0 THEN StreamReset(id, code) ELSE RequestCompleted(id)

\* nghttp3_conn_close_stream() of a stream it has: stream_close_cb, and
\* nghttp3 forgets the stream and what it had to write for it.
CloseInH3(id, code) ==
    /\ EmitTerminalOnce(id, CloseEvent(id, code))
    /\ h3Stream' = [h3Stream EXCEPT ![id] = "closed"]
    /\ h3In' = [h3In EXCEPT ![id] = "nothing"]
    /\ h3Out' = [h3Out EXCEPT ![id] = "nothing"]
    /\ asks' = asks \ {id}
    /\ outq' = [outq EXCEPT ![id] = <<>>]
    /\ UNCHANGED remoteHeaders

-----------------------------------------------------------------------------
(* pollEvents() *)

\* The poll ends with an exception: the rest of the batch is gone.
ThrowFromPoll ==
    /\ polling' = FALSE
    /\ batch' = <<>>
    /\ feed' = NoFeed

\* What one read loop gives nghttp3 to parse.
Feed(id, data, fin) ==
    IF data = <<>> /\ ~fin THEN NoFeed ELSE [id |-> id, data |-> data, fin |-> fin]

\* Mutant: the end of the stream is passed on only with data.
FinWithDataOnly(id, n) == Feed(id, SubSeq(unread[id], 1, n), id \in quicClosed /\ n > 0)

\* Mutant: an empty read is taken for the end of the stream.
FinWhenDrained(id, n) == Feed(id, SubSeq(unread[id], 1, n), n = Len(unread[id]))

\* Mutant: what the last allowed read returned is not passed on.
WithoutLastRead(id, n) ==
    Feed(id, SubSeq(unread[id], 1, IF n = MaxReads THEN n - 1 ELSE n), id \in quicClosed)

\* All that was read, and isClosed() as its fin.
FeedOf(id, n) == Feed(id, SubSeq(unread[id], 1, n), id \in quicClosed)

\* nghttp3 takes data for a stream it has.  On a server a stream it does not
\* have is a new one; it may take one that it has closed for a new one too, or
\* refuse it.
FeedH3(id) ==
    /\ id \in Reachable
    /\ cached' = cached \cup {id}
    /\ unread' = [unread EXCEPT ![id] = SubSeq(@, ReadCount(id) + 1, Len(@))]
    /\ \/ /\ h3Stream[id] = "open" \/ Server
          /\ h3Stream' = [h3Stream EXCEPT ![id] = "open"]
          /\ feed' = FeedOf(id, ReadCount(id))
          /\ batch' = Tail(batch)
          /\ UNCHANGED <<polling, refused>>
       \/ /\ h3Stream[id] # "open"
          /\ ~Server \/ h3Stream[id] = "closed"
          /\ ThrowFromPoll
          /\ refused' = TRUE
          /\ UNCHANGED h3Stream

\* STREAM_READABLE
ReadableToH3 ==
    /\ polling /\ batch # <<>> /\ ~Parsing
    /\ Head(batch).type = "STREAM_READABLE"
    /\ FeedH3(Head(batch).streamId)
    /\ UNCHANGED <<lifecycleVars, streamStateVars, handleVars, eventVars, quicStreams, quicClosed,
                   quicEvents, quicHistory, failures, hungUp, h3In, h3Out, asks, outq, bodies,
                   call, submitted, wire>>

\* The next frame is a HEADERS frame.
HeadersNext == feed.data # <<>> /\ Head(feed.data) \in HeaderBlocks

\* recv_header_cb
ParseHeaders ==
    /\ HeadersNext
    /\ h3In[feed.id] # "whole"
    /\ EmitHeadersOnce(feed.id)
    /\ h3In' = [h3In EXCEPT ![feed.id] = "headers"]
    /\ UNCHANGED <<remoteEnded, terminal, wasReset, closed, bodies, outq>>

\* recv_data_cb
ParseData ==
    /\ feed.data # <<>>
    /\ Head(feed.data) \notin HeaderBlocks
    /\ h3In[feed.id] = "headers"
    /\ EmitData(feed.id, Head(feed.data))
    /\ UNCHANGED <<remoteHeaders, remoteEnded, terminal, wasReset, closed, bodies, outq, h3In>>

\* end_stream_cb.  nghttp3 keeps the stream, and what it still has to write of
\* the body that is freed.
ParseEnd ==
    /\ feed.data = <<>>
    /\ h3In[feed.id] = "headers"
    /\ EmitTerminalOnce(feed.id, RequestCompleted(feed.id))
    /\ h3In' = [h3In EXCEPT ![feed.id] = "whole"]
    /\ outq' \in {outq, [outq EXCEPT ![feed.id] = Spoiled(@)]}
    /\ UNCHANGED remoteHeaders

pollFrame == <<lifecycleVars, handles, headersSubmitted, localEnded, delivered, quicStreams, unread,
               quicEvents, cached, quicHistory, call, submitted, wire>>

\* nghttp3 comes to the next frame of what it was fed, or to its end.
Parse ==
    /\ Parsing
    /\ \/ ParseHeaders
       \/ ParseData
       \/ ParseEnd
    /\ feed' = IF feed.data = <<>> THEN NoFeed ELSE Feed(feed.id, Tail(feed.data), feed.fin)
    /\ UNCHANGED <<pollFrame, polling, batch, quicClosed, hungUp, h3Stream, h3Out, asks,
                   failures, refused>>

\* stop_sending_cb and reset_stream_cb: nghttp3 rejects the message, and the
\* callback closes the stream in nghttp3 and resets it in QUIC.  A reset() that
\* throws makes nghttp3_conn_read_stream() fail.
ParseReject ==
    /\ Parsing
    /\ \E code \in ErrorCodes \ {0} : CloseInH3(feed.id, code)
    /\ \/ /\ hungUp' = hungUp \cup {feed.id}
          /\ quicClosed' = ClosedWith(feed.id, feed.id \in peerDone)
          /\ feed' = NoFeed
          /\ UNCHANGED <<polling, batch, failures, refused>>
       \/ /\ failures < MaxFailures
          /\ failures' = failures + 1
          /\ ThrowFromPoll
          /\ UNCHANGED <<quicClosed, hungUp, refused>>
    /\ UNCHANGED pollFrame

\* Data before the headers, an end without them, or anything after the end:
\* nghttp3_conn_read_stream() fails and pollEvents() throws.
ParseFails ==
    /\ Parsing
    /\ \/ h3In[feed.id] = "whole"
       \/ h3In[feed.id] = "nothing" /\ ~HeadersNext
    /\ ThrowFromPoll
    /\ refused' = TRUE
    /\ UNCHANGED <<pollFrame, streamStateVars, closed, eventQueue, quicClosed, hungUp, failures,
                   h3Vars, bodies>>

\* STREAM_CLOSED and STREAM_RESET close a stream nghttp3 has; the generic
\* signal that follows then finds the stream ended.
EndInH3 ==
    LET event == Head(batch) IN
        /\ event.type \in {"STREAM_CLOSED", "STREAM_RESET"}
        /\ event.streamId \in H3Streams
        /\ CloseInH3(event.streamId, IF event.type = "STREAM_CLOSED" THEN 0 ELSE event.errorCode)
        /\ UNCHANGED <<lifecycleVars, handles, headersSubmitted, localEnded>>

\* For a stream nghttp3 does not have only the generic signal remains.
EndOutsideH3 ==
    LET event == Head(batch) IN
        /\ \/ /\ event.type = "STREAM_CLOSED" /\ event.streamId \notin H3Streams
              /\ ConsumeReadable(event.streamId, <<>>, TRUE)
           \/ /\ event.type = "STREAM_RESET" /\ event.streamId \notin H3Streams
              /\ ConsumeReset(event.streamId, event.errorCode)
        /\ UNCHANGED <<h3Vars, bodies>>

\* Closed and draining do not concern nghttp3.
ClosingOutsideH3 ==
    LET event == Head(batch) IN
        /\ event.type \in {"CONNECTION_CLOSED", "CONNECTION_DRAINING"}
        /\ ConsumeClosing(event.errorCode, event.type = "CONNECTION_CLOSED")
        /\ UNCHANGED <<h3Vars, bodies>>

ConsumeNativeEvent ==
    /\ polling /\ batch # <<>> /\ ~Parsing
    /\ EndInH3 \/ EndOutsideH3 \/ ClosingOutsideH3
    /\ batch' = Tail(batch)
    /\ UNCHANGED <<delivered, polling, quicVars, cached, quicHistory, failures, hungUp,
                   feed, call, submitted, wire, refused>>

NativePoll ==
    \/ call = NoCall /\ DrainEvents /\ UNCHANGED nativeVars
    \/ ReadableToH3
    \/ Parse
    \/ ParseReject
    \/ ParseFails
    \/ ConsumeNativeEvent
    \/ ~Parsing /\ AbortPoll /\ UNCHANGED nativeVars
    \/ ~Parsing /\ PollReturn /\ UNCHANGED nativeVars

-----------------------------------------------------------------------------
(* The application calls a request stream: what it submits goes to nghttp3 *)
(* and the flush loop follows.                                             *)

sendFrame == <<connectionVars, quicStreams, unread, quicEvents, batch, quicHistory, feed, refused>>

\* nghttp3_conn_submit_response() wants the request, nghttp3_conn_submit_request()
\* a new stream.
TakesHeaders(id) == h3Stream[id] = IF Server THEN "open" ELSE "none"

\* submitHeaders(): read_data_cb will be asked for the body.
BeginHeaders(id) ==
    /\ Idle
    /\ id \in handles \ closed
    /\ id \notin headersSubmitted
    /\ TakesHeaders(id)
    /\ Len(submitted[id]) <= MaxPieces
    /\ h3Stream' = [h3Stream EXCEPT ![id] = "open"]
    /\ h3Out' = [h3Out EXCEPT ![id] = "headers"]
    /\ asks' = asks \cup {id}
    /\ outq' = [outq EXCEPT ![id] = Append(@, "HEADERS")]
    /\ submitted' = [submitted EXCEPT ![id] = Append(@, "HEADERS")]
    /\ call' = [op |-> "headers", id |-> id]
    /\ UNCHANGED <<sendFrame, quicClosed, cached, failures, hungUp, h3In, bodies, wire>>

\* submitHeaders() throws: the control streams cannot be bound, or nghttp3 does
\* not take the headers, for a second time perhaps.
HeadersRefused(id) ==
    /\ Idle
    /\ id \in handles \ closed
    /\ id \notin headersSubmitted
    /\ failures < MaxFailures
    /\ failures' = failures + 1
    /\ UNCHANGED <<sendFrame, quicClosed, cached, hungUp, nativeVars>>

\* Mutant: nghttp3 is not told that there is more of the body.
NoResume(id) == asks

\* nghttp3_conn_resume_stream(): a stream whose body has not ended is asked again.
Resumed(id) ==
    IF h3Stream[id] = "open" /\ h3Out[id] = "headers" THEN asks \cup {id} ELSE asks

\* submitData().  The buffer may move, and with it what an earlier flush loop
\* has left unwritten.
BeginData(id, piece) ==
    /\ Idle
    /\ SubmitData(id)
    /\ Len(submitted[id]) + Len(piece) <= MaxPieces + 1
    /\ bodies' = [bodies EXCEPT ![id] = Appended(@, piece)]
    /\ \/ UNCHANGED outq
       \/ piece # <<>> /\ outq' = [outq EXCEPT ![id] = Spoiled(@)]
    /\ asks' = Resumed(id)
    /\ submitted' = [submitted EXCEPT ![id] = @ \o piece]
    /\ call' = [op |-> "data", id |-> id]
    /\ UNCHANGED <<sendFrame, quicClosed, cached, failures, hungUp, h3Stream, h3In, h3Out, wire>>

\* end()
BeginEnd(id) ==
    /\ Idle
    /\ SubmitData(id)
    /\ bodies' = [bodies EXCEPT ![id] = Finished(@)]
    /\ asks' = Resumed(id)
    /\ submitted' = [submitted EXCEPT ![id] = @ \o When(~bodies[id].eof, "FIN")]
    /\ call' = [op |-> "end", id |-> id]
    /\ UNCHANGED <<sendFrame, quicClosed, cached, failures, hungUp, h3Stream, h3In, h3Out, outq,
                   wire>>

-----------------------------------------------------------------------------
(* flush_h3_writes() *)

\* What nghttp3 has to write for a stream once it has asked read_data_cb, which
\* has the FIN follow the last of an ended body.
Filled(id) ==
    outq[id] \o IF id \in asks
                THEN Unread(bodies[id]) \o When(ReadEnds(bodies[id]), "FIN")
                ELSE <<>>

\* nghttp3_conn_writev_stream(), and nghttp3_conn_add_write_offset() of the
\* first n of what it had to write.
Written(id, n) ==
    /\ outq' = [outq EXCEPT ![id] = SubSeq(Filled(id), n + 1, Len(Filled(id)))]
    /\ bodies' = IF id \in asks THEN [bodies EXCEPT ![id] = AllRead(@)] ELSE bodies
    /\ h3Out' = [h3Out EXCEPT ![id] = IF id \in asks /\ bodies[id].eof THEN "whole" ELSE @]
    /\ asks' = asks \ {id}

flushFrame == <<sendFrame, h3Stream, h3In, submitted>>

\* write() of the QUIC stream.  It is found: a stream that nghttp3 has was cached
\* when it was opened or read.
WriteQuicStream(id, items) ==
    /\ id \in Reachable
    /\ cached' = cached \cup {id}
    /\ wire' = [wire EXCEPT ![id] = @ \o items]

\* end() of the QUIC stream.
FinishQuicStream(id) ==
    /\ quicClosed' = ClosedWith(id, id \in peerDone)
    /\ hungUp' = hungUp \cup {id}

\* One turn of the loop.
FlushWrite(id) ==
    /\ call # NoCall
    /\ \E n \in 1..Len(Filled(id)) :
          /\ Written(id, n)
          /\ WriteQuicStream(id, SubSeq(Filled(id), 1, n))
          /\ IF Filled(id)[n] = "FIN"
             THEN FinishQuicStream(id)
             ELSE UNCHANGED <<quicClosed, hungUp>>
    /\ UNCHANGED <<flushFrame, failures, call>>

\* getStream(), write() or end() throws, and so does the method: nghttp3 is not
\* told what was written before an end() that throws.
FlushThrows(id) ==
    /\ call # NoCall
    /\ failures < MaxFailures
    /\ failures' = failures + 1
    /\ Filled(id) # <<>>
    /\ Written(id, 0)
    /\ \/ cached' \in {cached, cached \cup {id}} /\ UNCHANGED wire
       \/ /\ Filled(id)[Len(Filled(id))] = "FIN"
          /\ cached' = cached \cup {id}
          /\ wire' = [wire EXCEPT ![id] = @ \o SubSeq(Filled(id), 1, Len(Filled(id)) - 1)]
    /\ call' = NoCall
    /\ UNCHANGED <<flushFrame, quicClosed, hungUp>>

\* There is nothing left to write: the method succeeds.
FlushReturns ==
    /\ call # NoCall
    /\ \A id \in StreamIds : Filled(id) = <<>>
    /\ asks' = {}
    /\ call' = NoCall
    /\ \/ call.op = "headers" /\ SubmitHeaders(call.id)
       \/ call.op = "data" /\ SubmitData(call.id)
       \/ call.op = "end" /\ End(call.id)
    /\ UNCHANGED <<quicVars, batch, cached, quicHistory, failures, hungUp, feed, refused,
                   h3Stream, h3In, h3Out, outq, bodies, submitted, wire>>

Flush ==
    \/ \E id \in StreamIds : FlushWrite(id) \/ FlushThrows(id)
    \/ FlushReturns

-----------------------------------------------------------------------------
(* reset() *)

\* Mutant: nghttp3 keeps the stream.
KeepInH3(id, code) ==
    /\ closed' = closed \cup {id}
    /\ UNCHANGED <<streamStateVars, eventQueue, h3Vars, bodies>>

\* nghttp3_conn_close_stream() reports the end of a stream it has, to the
\* application that asked for it, and closes the handle with it.
ResetInH3(id, code) ==
    \/ /\ id \in H3Streams
       /\ CloseInH3(id, code)
    \/ /\ id \notin H3Streams
       /\ closed' = closed \cup {id}
       /\ UNCHANGED <<streamStateVars, eventQueue, h3Vars, bodies>>

resetFrame == <<lifecycleVars, handles, headersSubmitted, localEnded, delivered, polling,
                quicStreams, unread, quicEvents, batch, quicHistory, feed, call, submitted, wire,
                refused>>

\* Http3RequestStream::reset()
NativeReset(id, code) ==
    /\ Idle
    /\ id \in handles
    /\ ResetInH3(id, code)
    /\ cached' = cached \cup {id}
    /\ quicClosed' = ClosedWith(id, id \in peerDone)
    /\ hungUp' = hungUp \cup {id}
    /\ UNCHANGED <<resetFrame, failures>>

\* The QUIC stream's reset() throws: by then nghttp3 has forgotten a stream it
\* had, and otherwise nothing has happened.
ResetThrows(id, code) ==
    /\ Idle
    /\ id \in handles
    /\ failures < MaxFailures
    /\ failures' = failures + 1
    /\ \/ id \in H3Streams /\ CloseInH3(id, code)
       \/ id \notin H3Streams /\ UNCHANGED <<streamStateVars, closed, eventQueue, h3Vars, bodies>>
    /\ cached' = cached \cup {id}
    /\ UNCHANGED <<resetFrame, quicClosed, hungUp>>

-----------------------------------------------------------------------------

\* A peer has a stream of its own, or one that something came out of.
PeerKnows(id) == id \in PeerIds \/ wire[id] # <<>> \/ id \in hungUp

NativeArrival ==
    /\ call = NoCall
    /\ \/ \E id \in StreamIds, data \in Arrivals, fin \in BOOLEAN :
             PeerKnows(id) /\ PeerSends(id, data, fin)
       \/ \E id \in StreamIds, code \in ErrorCodes : PeerKnows(id) /\ PeerResets(id, code)
       \/ \E id \in StreamIds : QuicCloses(id)
       \/ \E type \in {"CONNECTION_CLOSED", "CONNECTION_DRAINING"}, code \in ErrorCodes :
             ConnectionEnds(type, code)
    /\ UNCHANGED nativeVars

NativeConnectionCall ==
    /\ call = NoCall
    /\ ConnectionCall
    /\ UNCHANGED nativeVars

NativeStreamCall ==
    \E id \in StreamIds :
        \/ BeginHeaders(id)
        \/ HeadersRefused(id)
        \/ \E piece \in {<<>>} \cup {<<chunk>> : chunk \in BodyPieces} : BeginData(id, piece)
        \/ BeginEnd(id)
        \/ \E code \in ErrorCodes : NativeReset(id, code) \/ ResetThrows(id, code)

NativeNext == NativeArrival \/ NativeConnectionCall \/ NativeStreamCall \/ Flush \/ NativePoll

NativeSpec == NativeInit /\ [][NativeNext]_allVars

\* A method that has started runs to its end, and the event loop comes back to
\* pollEvents() however often it submits in between.
NativeFairSpec == NativeSpec /\ SF_allVars(NativePoll) /\ WF_allVars(Flush)

-----------------------------------------------------------------------------
(* Properties *)

NativePromise == INSTANCE NativeContract WITH
    log      <- History,
    phase    <- [id \in StreamIds |->
                    IF id \in terminal THEN "ended"
                    ELSE IF id \in remoteHeaders THEN "open" ELSE "idle"],
    goneAway <- closing

\* Whatever order nghttp3's callbacks, the QUIC signals behind them and the
\* application's own resets come in, a stream has one terminal event, its data
\* comes between its headers and that, and no event is lost when pollEvents()
\* or a flush loop throws half way.
ImplementsNativeContract == NativePromise!NativeContractSpec

\* While no call throws, all that was submitted for a stream has been written to
\* its QUIC stream, in order and once, whenever no method is in progress.  After
\* reset() it is what had been submitted before.
SentInFull ==
    failures = 0 /\ call = NoCall => \A id \in StreamIds : wire[id] = submitted[id]

\* After end() or reset() of a QUIC stream nothing more is written to it, not
\* even what a flush loop that threw has left behind.
HungUpIsSilent == [][\A id \in hungUp : wire'[id] = wire[id]]_allVars

\* The body of a stream that has ended is freed, and none is made for it again.
EndedHasNoBody == \A id \in terminal : bodies[id] = NewBody

\* RequestCompleted is for a stream the peer or QUIC ended, or the application.
NativeCompletionIsEarned == failures = 0 => remoteEnded \subseteq peerDone \cup hungUp

\* While no call throws, a stream that ended is eventually reported as such to
\* the application, unless an exception told it that nghttp3 refused its data.
NativeEndIsDelivered ==
    \A id \in StreamIds : id \in peerDone ~> EndDelivered(id) \/ refused \/ failures > 0
=============================================================================
