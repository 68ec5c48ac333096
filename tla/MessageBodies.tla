--------------------------- MODULE MessageBodies ---------------------------
(***************************************************************************)
(* The body a sequence of events carries, for the properties that compare  *)
(* it with what the peer sent.                                             *)
(***************************************************************************)
EXTENDS SequencesExt

BodyOf(log, id) ==
    FlattenSeq([i \in 1..Len(log) |-> IF log[i].streamId = id THEN log[i].payload ELSE <<>>])

\* s is t with gaps: nothing twice, and nothing out of order.
IsWithin(s, t) ==
    \E place \in [1..Len(s) -> 1..Len(t)] :
        /\ \A i \in 1..Len(s) : s[i] = t[place[i]]
        /\ \A i, j \in 1..Len(s) : i < j => place[i] < place[j]
=============================================================================
