--------------------------- MODULE NativeContract ---------------------------
(***************************************************************************)
(* What a connection over nghttp3 promises about its events.  It is        *)
(* EventContract with one freedom more: php_http3_h3_stream_close_cb       *)
(* reports a stream that closes with error code 0 as completed, whether or *)
(* not its headers ever came.                                              *)
(***************************************************************************)
EXTENDS EventContract

\* A stream ends well that had nothing to say.
CompleteUnheard(id) ==
    /\ phase[id] = "idle"
    /\ log' = Append(log, RequestCompleted(id))
    /\ phase' = [phase EXCEPT ![id] = "ended"]
    /\ UNCHANGED goneAway

NativeContractNext ==
    \/ ContractNext
    \/ \E id \in StreamIds : CompleteUnheard(id)

NativeContractSpec == ContractInit /\ [][NativeContractNext]_contractVars

-----------------------------------------------------------------------------

\* A stream delivers its body only after its headers.
DataAfterHeaders ==
    \A j \in 1..Len(log) :
        log[j].type = "DataReceived"
        => \E i \in 1..Len(log) :
              /\ i < j
              /\ log[i].type = "HeadersReceived"
              /\ log[i].streamId = log[j].streamId
=============================================================================
