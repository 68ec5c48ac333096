---------------------------- MODULE EventContract ----------------------------
(***************************************************************************)
(* What an Http3Connection promises the application about its events,      *)
(* whatever the transport: the abstract specification that the transport   *)
(* modules implement.                                                      *)
(*                                                                         *)
(* log is every event the connection ever produced, whether or not         *)
(* pollEvents() has handed it out yet.  A stream is idle until its first   *)
(* event, open after its headers, ended after its terminal event.          *)
(***************************************************************************)
EXTENDS Http3Events

VARIABLES
    log,        \* all events produced so far, oldest first
    phase,      \* per stream: "idle", "open" or "ended"
    goneAway    \* the connection takes no new request any more

contractVars == <<log, phase, goneAway>>

ContractInit ==
    /\ log = <<>>
    /\ phase = [id \in StreamIds |-> "idle"]
    /\ goneAway = FALSE

\* The peer sent something on a stream that is not over.
Receive(id, data, fin) ==
    /\ phase[id] # "ended"
    /\ log' = log \o ReadableEvents(id, phase[id] = "idle", data, fin)
    /\ phase' = [phase EXCEPT ![id] = IF fin THEN "ended" ELSE "open"]
    /\ UNCHANGED goneAway

\* The peer abandoned a stream that is not over.
Abandon(id, code) ==
    /\ phase[id] # "ended"
    /\ log' = Append(log, StreamReset(id, code))
    /\ phase' = [phase EXCEPT ![id] = "ended"]
    /\ UNCHANGED goneAway

\* The peer announced the end of the connection.
GoAway(code) ==
    /\ ~goneAway
    /\ log' = Append(log, GoawayReceived(code))
    /\ goneAway' = TRUE
    /\ UNCHANGED phase

\* The application closed the connection itself: no event is due for that.
CloseLocally ==
    /\ goneAway' = TRUE
    /\ UNCHANGED <<log, phase>>

ContractNext ==
    \/ \E id \in StreamIds, data \in Payloads, fin \in BOOLEAN : Receive(id, data, fin)
    \/ \E id \in StreamIds, code \in ErrorCodes : Abandon(id, code)
    \/ \E code \in ErrorCodes : GoAway(code)
    \/ CloseLocally

ContractSpec == ContractInit /\ [][ContractNext]_contractVars

-----------------------------------------------------------------------------

ContractTypeOK ==
    /\ log \in Seq(Event)
    /\ phase \in [StreamIds -> {"idle", "open", "ended"}]
    /\ goneAway \in BOOLEAN

\* Two events of the same stream, in the order they were produced: the earlier
\* one is not terminal and the later one is not HeadersReceived.  So a stream
\* has one terminal event at most, nothing after it, and one HeadersReceived
\* at most, before everything else.
StreamOrder ==
    \A i, j \in 1..Len(log) :
        /\ i < j
        /\ log[i].streamId = log[j].streamId
        /\ log[i].streamId # NoStream
        => /\ log[i].type \notin TerminalTypes
           /\ log[j].type # "HeadersReceived"

\* A stream delivers its body or its completion only after its headers.
HeadersFirst ==
    \A j \in 1..Len(log) :
        log[j].type \in {"DataReceived", "RequestCompleted"}
        => \E i \in 1..Len(log) :
              /\ i < j
              /\ log[i].type = "HeadersReceived"
              /\ log[i].streamId = log[j].streamId

\* The application learns of the end of the connection once.
GoawayOnce ==
    \A i, j \in 1..Len(log) :
        log[i].type = "GoawayReceived" /\ log[j].type = "GoawayReceived" => i = j
=============================================================================
