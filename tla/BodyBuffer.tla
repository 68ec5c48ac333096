----------------------------- MODULE BodyBuffer -----------------------------
(***************************************************************************)
(* The outgoing body of one request stream on the native path, a           *)
(* php_http3_native_stream_body: the bytes submitData() appended, how many *)
(* of them nghttp3 has been handed, and whether end() was called.          *)
(*                                                                         *)
(* The operators are the functions of http3_connection.c on this structure *)
(* as functions of its value.  A byte is a member of any set; the code     *)
(* never looks at one.                                                     *)
(***************************************************************************)
EXTENDS Integers, Sequences

NewBody == [data |-> <<>>, readOffset |-> 0, ackedOffset |-> 0, eof |-> FALSE]

\* The read position stays inside the buffer.
Bodies(Bytes) ==
    {body \in [data : Seq(Bytes), readOffset : Nat, ackedOffset : Nat, eof : BOOLEAN] :
        body.readOffset <= Len(body.data)}

\* append_native_body: a realloc and a copy behind the bytes already there.
Appended(body, bytes) == [body EXCEPT !.data = @ \o bytes]

\* set_native_body_eof.
Finished(body) == [body EXCEPT !.eof = TRUE]

\* Mutant: the read position is not moved back with the bytes.
CompactedInPlace(body) ==
    LET drop == IF body.ackedOffset > Len(body.data) THEN Len(body.data) ELSE body.ackedOffset
    IN  IF drop = 0 THEN body
        ELSE [body EXCEPT !.data = SubSeq(@, drop + 1, Len(@)), !.ackedOffset = 0]

\* Mutant: the acknowledged bytes are counted off again next time.
CompactedTwice(body) ==
    LET drop == IF body.ackedOffset > Len(body.data) THEN Len(body.data) ELSE body.ackedOffset
    IN  IF drop = 0 THEN body
        ELSE [body EXCEPT !.data = SubSeq(@, drop + 1, Len(@)),
                          !.readOffset = IF @ >= drop THEN @ - drop ELSE 0]

\* compact_native_body: the acknowledged bytes leave the buffer, and the read
\* position moves back with the others.
Compacted(body) ==
    LET drop == IF body.ackedOffset > Len(body.data) THEN Len(body.data) ELSE body.ackedOffset
    IN  IF drop = 0 THEN body
        ELSE [body EXCEPT !.data = SubSeq(@, drop + 1, Len(@)),
                          !.readOffset = IF @ >= drop THEN @ - drop ELSE 0,
                          !.ackedOffset = 0]

\* add_native_body_acked.
Acknowledged(body, n) ==
    IF n = 0 THEN body ELSE Compacted([body EXCEPT !.ackedOffset = @ + n])

\* What read_data_cb has not handed to nghttp3 yet.
Unread(body) == SubSeq(body.data, body.readOffset + 1, Len(body.data))

\* Mutant: the end of the body is told while bytes of it are still unread.
EndsEarly(body) == body.eof \/ Unread(body) # <<>>

\* read_data_cb sets NGHTTP3_DATA_FLAG_EOF: it hands out all that is unread, so
\* an ended body ends with it.
ReadEnds(body) == body.eof

\* The buffer after read_data_cb, which leaves nothing unread.
AllRead(body) ==
    [body EXCEPT !.readOffset = IF @ < Len(body.data) THEN Len(body.data) ELSE @]
=============================================================================
