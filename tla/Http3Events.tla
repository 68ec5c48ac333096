---------------------------- MODULE Http3Events ----------------------------
(***************************************************************************)
(* The event objects an Http3Connection queues for pollEvents().           *)
(*                                                                         *)
(* An event carries the four fields of php_http3_event_object.  A payload  *)
(* is a sequence of Chunks: the code only ever concatenates, measures and  *)
(* copies payload bytes, so a chunk stands for any non-empty byte string.  *)
(***************************************************************************)
EXTENDS Integers, Sequences

CONSTANTS
    StreamIds,   \* the QUIC stream ids a behaviour may mention
    ErrorCodes,  \* application error codes, 0 (no error) among them
    Chunks,      \* non-empty pieces of a message body
    MaxPayload   \* bound: the chunks one payload may concatenate

ASSUME StreamIdsAssumption == StreamIds \subseteq Nat
ASSUME ErrorCodesAssumption == ErrorCodes \subseteq Nat /\ 0 \in ErrorCodes
ASSUME MaxPayloadAssumption == MaxPayload \in Nat

\* The stream id of an event that concerns the whole connection.
NoStream == -1

Payloads == UNION {[1..n -> Chunks] : n \in 0..MaxPayload}

EventTypes == {"HeadersReceived", "DataReceived", "RequestCompleted",
               "StreamReset", "GoawayReceived"}

\* The event classes that extend TerminalStreamEvent.
TerminalTypes == {"RequestCompleted", "StreamReset"}

Event == [type      : EventTypes,
          streamId  : StreamIds \cup {NoStream},
          errorCode : ErrorCodes,
          payload   : Payloads]

HeadersReceived(id) ==
    [type |-> "HeadersReceived", streamId |-> id, errorCode |-> 0, payload |-> <<>>]

DataReceived(id, data) ==
    [type |-> "DataReceived", streamId |-> id, errorCode |-> 0, payload |-> data]

RequestCompleted(id) ==
    [type |-> "RequestCompleted", streamId |-> id, errorCode |-> 0, payload |-> <<>>]

StreamReset(id, code) ==
    [type |-> "StreamReset", streamId |-> id, errorCode |-> code, payload |-> <<>>]

GoawayReceived(code) ==
    [type |-> "GoawayReceived", streamId |-> NoStream, errorCode |-> code, payload |-> <<>>]

When(condition, event) == IF condition THEN <<event>> ELSE <<>>

\* What one readable signal queues: at most one event of each kind, in the
\* order headers, data, completion.
ReadableEvents(id, isFirst, data, fin) ==
       When(isFirst, HeadersReceived(id))
    \o When(data # <<>>, DataReceived(id, data))
    \o When(fin, RequestCompleted(id))
=============================================================================
