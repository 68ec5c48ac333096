----------------------------- MODULE NativeBody -----------------------------
(***************************************************************************)
(* The body of one request stream on its way from submitData() to nghttp3: *)
(* BodyBuffer driven by the application, by the read_data callback and by  *)
(* the acknowledgements of the peer.                                       *)
(*                                                                         *)
(* nghttp3 calls acked_stream_data_cb from nghttp3_conn_add_ack_offset().  *)
(* Nothing in http3_connection.c calls that function, so in the extension  *)
(* as it is built Acknowledge never happens: NextAsBuilt.  Next is the     *)
(* buffer together with a caller that passes acknowledgements on.          *)
(***************************************************************************)
EXTENDS BodyBuffer

CONSTANTS
    Bytes,     \* what a body is made of
    MaxBytes   \* bound: the length of the body

ASSUME MaxBytesAssumption == MaxBytes \in Nat

VARIABLES
    body,       \* the php_http3_native_stream_body of the stream
    written,    \* history: the bytes submitData() was given
    taken,      \* history: the bytes read_data_cb handed to nghttp3
    endTaken,   \* history: read_data_cb has set the EOF flag
    confirmed,  \* QUIC: how many of the taken bytes the peer has acknowledged
    acked       \* history: how many of them acked_stream_data_cb was told of

vars == <<body, written, taken, endTaken, confirmed, acked>>

TypeOK ==
    /\ body \in Bodies(Bytes)
    /\ written \in Seq(Bytes)
    /\ taken \in Seq(Bytes)
    /\ endTaken \in BOOLEAN
    /\ confirmed \in Nat
    /\ acked \in Nat

\* submitHeaders() has created the buffer.
Init ==
    /\ body = NewBody
    /\ written = <<>>
    /\ taken = <<>>
    /\ endTaken = FALSE
    /\ confirmed = 0
    /\ acked = 0

Pieces == {<<>>} \cup {<<byte>> : byte \in Bytes}

\* submitData(), of nothing or of something; the request stream refuses it
\* once end() has succeeded.
SubmitBytes(bytes) ==
    /\ ~body.eof
    /\ Len(written) + Len(bytes) <= MaxBytes
    /\ body' = Appended(body, bytes)
    /\ written' = written \o bytes
    /\ UNCHANGED <<taken, endTaken, confirmed, acked>>

EndBody ==
    /\ ~body.eof
    /\ body' = Finished(body)
    /\ UNCHANGED <<written, taken, endTaken, confirmed, acked>>

\* nghttp3 asks for body data until it has seen the EOF flag; an empty answer
\* without the flag is NGHTTP3_ERR_WOULDBLOCK and changes nothing.
ReadData ==
    /\ ~endTaken
    /\ taken' = taken \o Unread(body)
    /\ endTaken' = ReadEnds(body)
    /\ body' = AllRead(body)
    /\ UNCHANGED <<written, confirmed, acked>>

\* The peer acknowledges more of what it was sent.
PeerConfirms(n) ==
    /\ confirmed + n <= Len(taken)
    /\ confirmed' = confirmed + n
    /\ UNCHANGED <<body, written, taken, endTaken, acked>>

\* acked_stream_data_cb, for bytes the peer has.
Acknowledge(n) ==
    /\ acked + n <= confirmed
    /\ acked' = acked + n
    /\ body' = Acknowledged(body, n)
    /\ UNCHANGED <<written, taken, endTaken, confirmed>>

NextAsBuilt ==
    \/ \E bytes \in Pieces : SubmitBytes(bytes)
    \/ EndBody
    \/ ReadData
    \/ \E n \in 1..MaxBytes : PeerConfirms(n)

AcknowledgeSome == \E n \in 0..MaxBytes : Acknowledge(n)

Next == NextAsBuilt \/ AcknowledgeSome

Spec == Init /\ [][Next]_vars

\* The extension, with nghttp3 asking for what there is to ask.
SpecAsBuilt == Init /\ [][NextAsBuilt]_vars /\ WF_vars(ReadData)

-----------------------------------------------------------------------------
(* Properties *)

Pipe == INSTANCE BodyPipe WITH finished <- body.eof

\* Through appends, reads and compactions in any order nghttp3 is handed every
\* byte of the body once and in order, and its end behind the last of them.
ImplementsPipe == Pipe!PipeSpec

\* The buffer holds exactly what the peer has not acknowledged as far as
\* nghttp3 was told: no byte is released that may have to be sent again, and
\* none is kept behind.
HoldsUnacked == body.data = SubSeq(written, acked + 1, Len(written))

\* What the peer has acknowledged is eventually released.  DEVELOPMENT_PLAN.md
\* asks that the reflection of nghttp3_conn_add_ack_offset() is not omitted.
ConfirmedIsReleased ==
    \A n \in 1..MaxBytes :
        confirmed >= n ~> Len(written) - Len(body.data) >= n
=============================================================================
