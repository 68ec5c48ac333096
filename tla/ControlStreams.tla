--------------------------- MODULE ControlStreams ---------------------------
(***************************************************************************)
(* The control stream and the two QPACK streams of a client connection     *)
(* over nghttp3: bound by the first submitHeaders(), retried by the next   *)
(* one when that fails, and fed by the peer's control stream.  The bytes   *)
(* of the streams are in NativeTransport.                                  *)
(*                                                                         *)
(* QUIC, which allocates the stream ids, and nghttp3, which keeps the      *)
(* three roles, are external.                                              *)
(***************************************************************************)
EXTENDS Http3Connection, FiniteSets, Functions

CONSTANTS
    UniIds,      \* the unidirectional streams among StreamIds
    Defaults,    \* PHP_HTTP3_LOCAL_CONTROL_STREAM_ID and the two QPACK ids
    MaxFailures  \* bound: calls that throw

ASSUME UniIdsAssumption == UniIds \subseteq StreamIds
ASSUME DefaultsAssumption ==
    Defaults \in [1..3 -> StreamIds] /\ \A i, j \in 1..3 : Defaults[i] = Defaults[j] => i = j
ASSUME MaxFailuresAssumption == MaxFailures \in Nat

VARIABLES
    opensUni,     \* the class of the QUIC connection has the method openUniStream()
    quicStreams,  \* the streams QUIC has opened for us
    binding,      \* the stream whose submitHeaders() is binding, or NoStream
    candidates,   \* the ids it has for the control, encoder and decoder streams
    bound,        \* native_h3_streams_bound
    roles,        \* nghttp3: the ids bound to its roles so far
    h3Goaway,     \* nghttp3: the peer's control stream brought a GOAWAY frame
    failures      \* history: number of calls that threw so far

bindVars == <<binding, candidates, bound, roles>>
vars == <<connectionVars, opensUni, quicStreams, bindVars, h3Goaway, failures>>

TypeOK ==
    /\ ConnectionTypeOK
    /\ opensUni \in BOOLEAN
    /\ quicStreams \subseteq StreamIds
    /\ binding \in StreamIds \cup {NoStream}
    /\ candidates \in Seq(StreamIds)
    /\ bound \in BOOLEAN
    /\ roles \in Seq(StreamIds)
    /\ h3Goaway \in BOOLEAN
    /\ failures \in 0..MaxFailures

Init ==
    /\ ConnectionInit
    /\ opensUni \in BOOLEAN
    /\ quicStreams = {}
    /\ binding = NoStream
    /\ candidates = <<>>
    /\ bound = FALSE
    /\ roles = <<>>
    /\ h3Goaway = FALSE
    /\ failures = 0

Fails == failures < MaxFailures /\ failures' = failures + 1

-----------------------------------------------------------------------------
(* bind_native_h3_streams() *)

\* Mutant: the headers are sent first and the streams bound with the next ones.
BindLater(id) ==
    /\ binding = NoStream
    /\ id \in handles \ closed
    /\ SubmitHeaders(id)
    /\ binding' = id
    /\ UNCHANGED <<opensUni, quicStreams, candidates, bound, roles, h3Goaway, failures>>

\* submitHeaders() of a stream, when the three streams are not bound yet.
StartBinding(id) ==
    /\ binding = NoStream /\ ~bound
    /\ id \in handles \ closed
    /\ id \notin headersSubmitted
    /\ binding' = id
    /\ candidates' = <<>>
    /\ UNCHANGED <<connectionVars, opensUni, quicStreams, bound, roles, h3Goaway, failures>>

\* QUIC allocates the ids in their order.
NextUni(id) == id \in UniIds \ quicStreams /\ \A other \in UniIds \ quicStreams : id <= other

\* open_uni_stream_id(): the id of a stream that QUIC has just opened.
OpenUniStream(id) ==
    /\ binding # NoStream /\ Len(candidates) < 3
    /\ opensUni
    /\ NextUni(id)
    /\ quicStreams' = quicStreams \cup {id}
    /\ candidates' = Append(candidates, id)
    /\ UNCHANGED <<connectionVars, opensUni, binding, bound, roles, h3Goaway, failures>>

\* Mutant: the default of the control stream is taken for all three.
TakeFirstDefault ==
    /\ binding # NoStream /\ Len(candidates) < 3
    /\ ~opensUni
    /\ candidates' = Append(candidates, Defaults[1])
    /\ UNCHANGED <<connectionVars, opensUni, quicStreams, binding, bound, roles, h3Goaway, failures>>

\* Without openUniStream() the id is one of the defaults, and no stream.
TakeDefault ==
    /\ binding # NoStream /\ Len(candidates) < 3
    /\ ~opensUni
    /\ candidates' = Append(candidates, Defaults[Len(candidates) + 1])
    /\ UNCHANGED <<connectionVars, opensUni, quicStreams, binding, bound, roles, h3Goaway, failures>>

\* openUniStream(), or getId() of the stream it opened, throws: what has been
\* opened stays open and is forgotten.
OpenThrows ==
    /\ binding # NoStream /\ Len(candidates) < 3
    /\ opensUni
    /\ Fails
    /\ \/ UNCHANGED quicStreams
       \/ \E id \in UniIds : NextUni(id) /\ quicStreams' = quicStreams \cup {id}
    /\ binding' = NoStream
    /\ candidates' = <<>>
    /\ UNCHANGED <<connectionVars, opensUni, bound, roles, h3Goaway>>

\* nghttp3 takes no request after the peer's GOAWAY: submitHeaders() throws.
Submit(id) == IF h3Goaway THEN UNCHANGED connectionVars ELSE SubmitHeaders(id)

\* Mutant: the flag is left for the next call to set.
BindUnflagged ==
    /\ Len(candidates) = 3 /\ roles = <<>>
    /\ roles' = candidates
    /\ Submit(binding)
    /\ binding' = NoStream
    /\ candidates' = <<>>
    /\ UNCHANGED <<opensUni, quicStreams, bound, h3Goaway, failures>>

\* nghttp3_conn_bind_control_stream() and nghttp3_conn_bind_qpack_streams();
\* the headers follow.
Bind ==
    /\ Len(candidates) = 3 /\ roles = <<>>
    /\ roles' = candidates
    /\ bound' = TRUE
    /\ Submit(binding)
    /\ binding' = NoStream
    /\ candidates' = <<>>
    /\ UNCHANGED <<opensUni, quicStreams, h3Goaway, failures>>

\* The second of the two calls fails: nghttp3 has a control stream by now.
BindHalf ==
    /\ Len(candidates) = 3 /\ roles = <<>>
    /\ Fails
    /\ roles' = SubSeq(candidates, 1, 1)
    /\ binding' = NoStream
    /\ candidates' = <<>>
    /\ UNCHANGED <<connectionVars, opensUni, quicStreams, bound, h3Goaway>>

\* nghttp3 takes no second control stream: every later attempt throws.
BindRefused ==
    /\ Len(candidates) = 3 /\ roles # <<>>
    /\ binding' = NoStream
    /\ candidates' = <<>>
    /\ UNCHANGED <<connectionVars, opensUni, quicStreams, bound, roles, h3Goaway, failures>>

\* submitHeaders() once the streams are bound.
SubmitBound(id) ==
    /\ binding = NoStream /\ bound
    /\ id \in handles \ closed
    /\ id \notin headersSubmitted
    /\ Submit(id)
    /\ UNCHANGED <<opensUni, quicStreams, bindVars, h3Goaway, failures>>

-----------------------------------------------------------------------------
(* The other calls, and what pollEvents() makes of the peer's signals *)

OpenRequest(id) ==
    /\ binding = NoStream
    /\ id \notin UniIds \cup quicStreams
    /\ CreateRequestStream(id)
    /\ quicStreams' = quicStreams \cup {id}
    /\ UNCHANGED <<opensUni, bindVars, h3Goaway, failures>>

FetchStream(id) ==
    /\ binding = NoStream
    /\ GetRequestStream(id, id \in quicStreams)
    /\ UNCHANGED <<opensUni, quicStreams, bindVars, h3Goaway, failures>>

CloseConnection ==
    /\ binding = NoStream
    /\ Close
    /\ UNCHANGED <<opensUni, quicStreams, bindVars, h3Goaway, failures>>

\* STREAM_READABLE of the peer's control stream with a GOAWAY frame: nghttp3
\* notes it, and no callback is registered for it.
PeerGoaway ==
    /\ binding = NoStream
    /\ h3Goaway' = TRUE
    /\ UNCHANGED <<connectionVars, opensUni, quicStreams, bindVars, failures>>

\* A CONNECTION_CLOSED or CONNECTION_DRAINING event.
ConnectionEnds(code, isClosed) ==
    /\ binding = NoStream
    /\ ConsumeClosing(code, isClosed)
    /\ UNCHANGED <<delivered, polling, opensUni, quicStreams, bindVars, h3Goaway, failures>>

Next ==
    \/ \E id \in StreamIds :
          \/ StartBinding(id) \/ OpenUniStream(id) \/ SubmitBound(id)
          \/ OpenRequest(id) \/ FetchStream(id)
    \/ TakeDefault \/ OpenThrows \/ Bind \/ BindHalf \/ BindRefused
    \/ CloseConnection
    \/ PeerGoaway
    \/ \E code \in ErrorCodes, isClosed \in BOOLEAN : ConnectionEnds(code, isClosed)

Spec == Init /\ [][Next]_vars

-----------------------------------------------------------------------------
(* Properties *)

\* Whatever attempts failed half way before, nghttp3 never has one stream in two
\* roles, and those it has are unidirectional streams QUIC opened, or the defaults.
RolesAreDistinct ==
    /\ \A i, j \in 1..Len(roles) : roles[i] = roles[j] => i = j
    /\ \A i \in 1..Len(roles) : roles[i] \in IF opensUni THEN UniIds \cap quicStreams
                                             ELSE {Defaults[i]}

\* Headers have gone to nghttp3 only when it has all three streams to send them.
HeadersNeedAllRoles == headersSubmitted # {} => bound /\ Len(roles) = 3

\* The streams QUIC has opened for the roles that nghttp3 does not have, and that
\* no attempt in progress is about to give it.
Wasted == (UniIds \cap quicStreams) \ (Range(roles) \cup Range(candidates))

\* What an attempt opens before it fails stays open and is forgotten; that is at
\* most three streams for each call that throws, and none without, however the
\* failures and the retries go.  Once nghttp3 has taken the control stream alone
\* there is no bound: it refuses every later attempt when its streams are open.
WasteIsBounded == Len(roles) # 1 => Cardinality(Wasted) <= 3 * failures

\* The control and QPACK streams are no request streams: DEVELOPMENT_PLAN.md
\* says that they are not published.
ControlStreamsHidden == \A i \in 1..Len(roles) : roles[i] \notin handles

\* After the peer's GOAWAY no request stream is opened: DEVELOPMENT_PLAN.md wants
\* createRequestStream() to throw.
NoRequestAfterPeerGoaway == [][h3Goaway => quicStreams' \ UniIds = quicStreams \ UniIds]_vars
=============================================================================
