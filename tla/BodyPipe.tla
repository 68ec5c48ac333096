------------------------------ MODULE BodyPipe ------------------------------
(***************************************************************************)
(* What the outgoing body buffer promises: the application writes bytes    *)
(* and ends the body, nghttp3 takes what is there.  Every byte is taken    *)
(* once, in order, and the end is seen behind the last of them.  There is  *)
(* no buffer here, no offset and no acknowledgement.                       *)
(***************************************************************************)
EXTENDS Integers, Sequences

VARIABLES
    written,   \* the bytes the application wrote
    finished,  \* the application ended the body
    taken,     \* the bytes nghttp3 took
    endTaken   \* nghttp3 was told that the body ends here

pipeVars == <<written, finished, taken, endTaken>>

PipeInit ==
    /\ written = <<>>
    /\ finished = FALSE
    /\ taken = <<>>
    /\ endTaken = FALSE

\* The application writes more behind what it has written.
PipeWrite ==
    /\ ~finished
    /\ Len(written') >= Len(written)
    /\ SubSeq(written', 1, Len(written)) = written
    /\ UNCHANGED <<finished, taken, endTaken>>

PipeFinish ==
    /\ finished' = TRUE
    /\ UNCHANGED <<written, taken, endTaken>>

PipeTake ==
    /\ taken' = written
    /\ endTaken' = finished
    /\ UNCHANGED <<written, finished>>

PipeNext ==
    \/ PipeWrite
    \/ PipeFinish
    \/ PipeTake

PipeSpec == PipeInit /\ [][PipeNext]_pipeVars
=============================================================================
