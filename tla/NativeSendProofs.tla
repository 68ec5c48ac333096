--------------------------- MODULE NativeSendProofs ---------------------------
(***************************************************************************)
(* What NativeTransport writes to QUIC, for every set of streams, bodies   *)
(* of any length and any order of the methods, the flush loops and the     *)
(* polls: nothing more to a stream that was ended or reset in QUIC, and,   *)
(* while no call throws, all that was submitted, in order and once.        *)
(***************************************************************************)
EXTENDS NativeTransportProofs

-----------------------------------------------------------------------------
(* The inductive invariants *)

\* How far nghttp3 is with an outgoing message agrees with what it still has of
\* it: it asks for a body only between the headers and the end, and a FIN it has
\* to write is the last of a whole message.
OutgoingOK(id) ==
    /\ bodies[id].eof => id \in headersSubmitted
    /\ \A i \in 1..Len(outq[id]) :
          outq[id][i] = "FIN" => i = Len(outq[id]) /\ h3Out[id] = "whole"
    /\ id \in asks => h3Out[id] = "headers"
    /\ h3Out[id] # "nothing" => h3Stream[id] = "open"
    /\ h3Out[id] = "whole" => id \in headersSubmitted

\* nghttp3 has nothing for a stream that QUIC was told to end, and no method can
\* give it any: the message is whole, or the handle is closed.
HungUpOK(id) ==
    /\ outq[id] = <<>>
    /\ h3Out[id] # "headers"
    /\ id \in terminal \cup closed \cup headersSubmitted

OutgoingInv ==
    /\ \A id \in StreamIds : OutgoingOK(id)
    /\ \A id \in hungUp : HungUpOK(id)

\* nghttp3 holds what of a stream was submitted and not written, and outside a
\* flush loop that is nothing.
NothingHeldBack ==
    /\ \A id \in StreamIds : wire[id] \o Filled(id) = submitted[id]
    /\ call = NoCall => asks = {} /\ \A id \in StreamIds : outq[id] = <<>>
    /\ \A id \in StreamIds \ asks : Unread(bodies[id]) = <<>>

\* A stream that may still send a body is one that nghttp3 takes a body for.
BodiesAreTaken ==
    /\ \A id \in headersSubmitted \ closed :
          call # [op |-> "end", id |-> id] => h3Out[id] = "headers" /\ ~bodies[id].eof
    /\ call.op = "headers" =>
          call.id \in StreamIds \ headersSubmitted /\ h3Out[call.id] = "headers"

SentInv == failures = 0 => NothingHeldBack /\ BodiesAreTaken

-----------------------------------------------------------------------------
(* What there is to write *)

\* The marks of a sequence survive a buffer that moves.
LEMMA SpoiledMarks ==
  ASSUME NEW items \in Seq(OutItems)
  PROVE  /\ Spoiled(items) \in Seq(OutItems) /\ Len(Spoiled(items)) = Len(items)
         /\ \A i \in 1..Len(items) : Spoiled(items)[i] = "FIN" => items[i] = "FIN"
         /\ items = <<>> => Spoiled(items) = <<>>
<1>1. DOMAIN items = 1..Len(items) /\ Len(items) \in Nat
  BY LenProperties
<1>2. Spoiled(items) \in Seq(OutItems) /\ (items = <<>> => Spoiled(items) = <<>>)
  BY SpoiledIsTyped
<1>3. DOMAIN Spoiled(items) = 1..Len(items)
  BY <1>1 DEF Spoiled
<1>4. DOMAIN Spoiled(items) = 1..Len(Spoiled(items)) /\ Len(Spoiled(items)) \in Nat
  BY <1>2, LenProperties
<1>5. Len(Spoiled(items)) = Len(items)
  BY <1>1, <1>3, <1>4
<1>6. \A i \in 1..Len(items) : Spoiled(items)[i] = "FIN" => items[i] = "FIN"
  BY <1>1 DEF Spoiled
<1> QED
  BY <1>2, <1>5, <1>6

\* What there is to write of a stream: what is queued, and when nghttp3 asks for
\* it the rest of the body and perhaps its end.
LEMMA FilledParts ==
  ASSUME NativeInv, NEW id \in StreamIds
  PROVE  /\ outq[id] \in Seq(OutItems) /\ bodies[id] \in Bodies(Chunks)
         /\ Unread(bodies[id]) \in Seq(Chunks) /\ Unread(bodies[id]) \in Seq(OutItems)
         /\ id \notin asks => Filled(id) = outq[id]
         /\ id \in asks /\ ~bodies[id].eof => Filled(id) = outq[id] \o Unread(bodies[id])
         /\ id \in asks /\ bodies[id].eof =>
               Filled(id) = outq[id] \o (Unread(bodies[id]) \o <<"FIN">>)
<1>1. outq[id] \in Seq(OutItems) /\ bodies[id] \in Bodies(Chunks)
  BY InvParts DEF H3TypeOK
<1>2. Unread(bodies[id]) \in Seq(Chunks)
  BY <1>1, BodiesAreTyped
<1>3. Unread(bodies[id]) \in Seq(OutItems)
  <2>1. Chunks \subseteq OutItems
    BY DEF OutItems
  <2> QED
    BY <1>2, <2>1, SeqMonotonic
<1>4. CASE id \notin asks
  <2>1. Filled(id) = outq[id] \o <<>>
    BY <1>4 DEF Filled
  <2> QED
    BY <1>1, <1>2, <1>3, <1>4, <2>1, ConcatEmptySeq
<1>5. CASE id \in asks /\ ~bodies[id].eof
  <2>1. Filled(id) = outq[id] \o (Unread(bodies[id]) \o <<>>)
    BY <1>5 DEF Filled, When, ReadEnds
  <2> QED
    BY <1>1, <1>2, <1>3, <1>5, <2>1, ConcatEmptySeq
<1>6. CASE id \in asks /\ bodies[id].eof
  <2>1. Filled(id) = outq[id] \o (Unread(bodies[id]) \o <<"FIN">>)
    BY <1>6 DEF Filled, When, ReadEnds
  <2> QED
    BY <1>1, <1>2, <1>3, <1>6, <2>1
<1> QED
  BY <1>4, <1>5, <1>6

\* What only the second of two sequences holds is found where that one is.
LEMMA FoundInSecond ==
  ASSUME NEW S, NEW s \in Seq(S), NEW t \in Seq(S), NEW x,
         NEW n \in 1..Len(s \o t), (s \o t)[n] = x,
         \A i \in 1..Len(s) : s[i] # x
  PROVE  Len(s) \in Nat /\ n - Len(s) \in 1..Len(t) /\ t[n - Len(s)] = x
         /\ Len(s \o t) = Len(s) + Len(t)
<1>1. Len(s) \in Nat /\ Len(t) \in Nat
  BY LenProperties
<1>2. /\ Len(s \o t) = Len(s) + Len(t)
      /\ \A i \in 1..Len(s) + Len(t) :
            (s \o t)[i] = IF i <= Len(s) THEN s[i] ELSE t[i - Len(s)]
  BY ConcatProperties
<1>3. n \in 1..Len(s) + Len(t)
  BY <1>2
<1>4. ~(n <= Len(s))
  BY <1>1, <1>2, <1>3
<1>5. n - Len(s) \in 1..Len(t)
  BY <1>1, <1>3, <1>4
<1>6. t[n - Len(s)] = x
  BY <1>2, <1>3, <1>4
<1> QED
  BY <1>1, <1>2, <1>5, <1>6

\* The FIN is the last of what there is to write, of a message that is whole or
\* becomes so.
LEMMA FinIsLast ==
  ASSUME NativeInv, NEW id \in StreamIds, OutgoingOK(id),
         NEW n \in 1..Len(Filled(id)), Filled(id)[n] = "FIN"
  PROVE  /\ n = Len(Filled(id))
         /\ id \in asks => bodies[id].eof
         /\ id \notin asks => h3Out[id] = "whole"
<1> DEFINE queue == outq[id]
           bytes == Unread(bodies[id])
<1>1. queue \in Seq(OutItems) /\ bytes \in Seq(Chunks) /\ bytes \in Seq(OutItems)
  BY FilledParts
<1>2. \A i \in 1..Len(bytes) : bytes[i] # "FIN"
  BY <1>1, ElementOfSeq, MarksAssumption
<1>3. CASE id \notin asks
  <2>1. Filled(id) = outq[id]
    BY <1>3, FilledParts
  <2> QED
    BY <1>3, <2>1 DEF OutgoingOK
<1>4. CASE id \in asks
  <2>1. \A i \in 1..Len(queue) : queue[i] # "FIN"
    BY <1>4 DEF OutgoingOK
  <2>2. CASE ~bodies[id].eof
    <3>1. Filled(id) = queue \o bytes
      BY <1>4, <2>2, FilledParts
    <3> HIDE DEF queue, bytes
    <3>2. n - Len(queue) \in 1..Len(bytes) /\ bytes[n - Len(queue)] = "FIN"
      BY <1>1, <2>1, <3>1, FoundInSecond
    <3> QED
      BY <1>2, <3>2
  <2>3. CASE bodies[id].eof
    <3> DEFINE end == <<"FIN">>
               ended == bytes \o end
    <3>1. Filled(id) = queue \o ended
      BY <1>4, <2>3, FilledParts
    <3>2. end \in Seq(OutItems) /\ Len(end) = 1
      BY DEF OutItems
    <3> HIDE DEF queue, bytes, end
    <3>3. ended \in Seq(OutItems)
      BY <1>1, <3>2, ConcatProperties
    <3> HIDE DEF ended
    <3>4. /\ n - Len(queue) \in 1..Len(ended) /\ ended[n - Len(queue)] = "FIN"
          /\ Len(queue \o ended) = Len(queue) + Len(ended) /\ Len(queue) \in Nat
      <4>1. n \in 1..Len(queue \o ended) /\ (queue \o ended)[n] = "FIN"
        BY <3>1
      <4> QED
        BY <1>1, <2>1, <3>3, <4>1, FoundInSecond
    <3>5. /\ n - Len(queue) - Len(bytes) \in 1..Len(end)
          /\ Len(ended) = Len(bytes) + Len(end) /\ Len(bytes) \in Nat
      <4> DEFINE m == n - Len(queue)
      <4>1. m \in 1..Len(bytes \o end) /\ (bytes \o end)[m] = "FIN"
        BY <3>4 DEF ended
      <4> HIDE DEF m
      <4>2. /\ m - Len(bytes) \in 1..Len(end) /\ Len(bytes) \in Nat
            /\ Len(bytes \o end) = Len(bytes) + Len(end)
        <5>1. bytes \in Seq(OutItems) /\ end \in Seq(OutItems)
          BY <1>1, <3>2
        <5> QED
          BY <1>2, <4>1, <5>1, FoundInSecond, Zenon
      <4> QED
        BY <4>2 DEF ended, m
    <3>6. n = Len(queue) + Len(ended)
      BY <3>2, <3>4, <3>5
    <3> QED
      BY <1>4, <2>3, <3>1, <3>4, <3>6
  <2> QED
    BY <2>2, <2>3
<1> QED
  BY <1>3, <1>4

\* Nothing to write is nothing queued and nothing unread.
LEMMA NothingFilled ==
  ASSUME NativeInv, NEW id \in StreamIds, Filled(id) = <<>>
  PROVE  outq[id] = <<>> /\ (id \in asks => Unread(bodies[id]) = <<>> /\ ~bodies[id].eof)
<1> DEFINE queue == outq[id]
           bytes == Unread(bodies[id])
<1>1. queue \in Seq(OutItems) /\ bytes \in Seq(OutItems)
  BY FilledParts
<1>2. <<"FIN">> \in Seq(OutItems) /\ bytes \o <<"FIN">> \in Seq(OutItems)
  <2>1. <<"FIN">> \in Seq(OutItems)
    BY DEF OutItems
  <2> QED
    BY <1>1, <2>1, ConcatProperties
<1>3. CASE id \notin asks
  BY <1>3, FilledParts
<1>4. CASE id \in asks /\ ~bodies[id].eof
  <2>1. queue \o bytes = <<>>
    BY <1>4, FilledParts
  <2> HIDE DEF queue, bytes
  <2>2. queue = <<>> /\ bytes = <<>>
    BY <1>1, <2>1, ConcatEqualIffEmpty
  <2> QED
    BY <1>4, <2>2 DEF queue, bytes
<1>5. CASE id \in asks /\ bodies[id].eof
  <2>1. queue \o (bytes \o <<"FIN">>) = <<>>
    BY <1>5, FilledParts
  <2> HIDE DEF queue, bytes
  <2>2. bytes \o <<"FIN">> = <<>>
    BY <1>1, <1>2, <2>1, ConcatEqualIffEmpty
  <2>3. <<"FIN">> = <<>>
    BY <1>1, <1>2, <2>2, ConcatEqualIffEmpty
  <2> QED
    BY <2>3
<1> QED
  BY <1>3, <1>4, <1>5

-----------------------------------------------------------------------------
(* Steps that neither submit nor write *)

\* Of this stream nghttp3 keeps what it had to send, though a buffer may have moved.
Keeps(id) ==
    /\ outq'[id] = outq[id] \/ outq'[id] = Spoiled(outq[id])
    /\ id \in asks' => id \in asks
    /\ h3Out'[id] = h3Out[id]
    /\ h3Stream'[id] = h3Stream[id] \/ h3Stream'[id] = "open"
    /\ bodies'[id] = bodies[id] \/ bodies'[id] = NewBody

\* Of this stream it drops all that it had.
Retires(id) ==
    /\ outq'[id] = <<>>
    /\ id \notin asks'
    /\ h3Out'[id] = "nothing"
    /\ h3Stream'[id] = "closed"
    /\ bodies'[id] = NewBody
    /\ id \in terminal'

\* A step between the methods: nothing is submitted or written, no handle starts
\* to send, and a stream that QUIC is told to end here is closed in nghttp3.
PassiveStep ==
    /\ call = NoCall /\ UNCHANGED <<call, wire, submitted>>
    /\ failures' = failures \/ failures' = failures + 1
    /\ \A id \in StreamIds : Keeps(id) \/ Retires(id)
    /\ \A id \in quicStreams :
          /\ id \in headersSubmitted => id \in headersSubmitted'
          /\ id \in terminal \cup closed => id \in terminal' \cup closed'
    /\ headersSubmitted' \ closed' \subseteq headersSubmitted \ closed
    /\ \A id \in hungUp' :
          id \in hungUp \/ (h3Stream'[id] # "open" /\ id \in terminal' \cup closed')

\* A new body is unread and goes on.
LEMMA NewBodyIsEmpty == ~NewBody.eof /\ Unread(NewBody) = <<>>
<1>1. Unread(NewBody) = SubSeq(<<>>, 1, 0)
  BY DEF Unread, NewBody
<1> QED
  BY <1>1, SubSeqEmpty DEF NewBody

\* Such a step keeps how far nghttp3 is with each message.
LEMMA PassiveKeepsOutgoing ==
  ASSUME NativeInv, NativeInv', OutgoingInv, PassiveStep
  PROVE  OutgoingInv'
<1>1. ASSUME NEW id \in StreamIds
      PROVE  OutgoingOK(id)'
  <2>1. CASE Retires(id)
    BY <2>1, NewBodyIsEmpty, EmptySeq DEF Retires, OutgoingOK
  <2>2. CASE Keeps(id)
    <3>1. OutgoingOK(id) /\ outq[id] \in Seq(OutItems)
      BY FilledParts DEF OutgoingInv
    <3>2. (bodies[id].eof \/ h3Out[id] = "whole") => id \in headersSubmitted'
      <4>1. bodies[id].eof => h3Stream[id] = "open"
        BY NewBodyIsEmpty, InvParts DEF H3Agrees, H3HoldsItsOwn
      <4>2. h3Stream[id] = "open" => id \in quicStreams
        BY InvParts DEF H3Agrees, H3HoldsItsOwn
      <4> QED
        BY <3>1, <4>1, <4>2 DEF OutgoingOK, PassiveStep
    <3>3. \A i \in 1..Len(outq'[id]) :
             outq'[id][i] = "FIN" => i = Len(outq'[id]) /\ h3Out'[id] = "whole"
      BY <2>2, <3>1, SpoiledMarks DEF Keeps, OutgoingOK
    <3> QED
      BY <2>2, <3>1, <3>2, <3>3, NewBodyIsEmpty DEF Keeps, OutgoingOK
  <2> QED
    BY <2>1, <2>2 DEF PassiveStep
<1>2. ASSUME NEW id \in hungUp'
      PROVE  HungUpOK(id)'
  <2>1. id \in StreamIds /\ id \in quicStreams'
    BY InvParts DEF NativeInv, NativeTypeOK, TypeOK, QuicTypeOK
  <2>2. CASE h3Stream'[id] # "open" /\ id \in terminal' \cup closed'
    <3>1. outq'[id] = <<>>
      BY <2>1, <2>2 DEF NativeInv, H3Agrees, H3HoldsItsOwn
    <3>2. h3Out'[id] # "headers"
      BY <1>1, <2>1, <2>2 DEF OutgoingOK
    <3> QED
      BY <2>2, <3>1, <3>2 DEF HungUpOK
  <2>3. CASE id \in hungUp
    <3>1. HungUpOK(id) /\ id \in quicStreams /\ outq[id] \in Seq(OutItems)
      BY <2>1, <2>3, InvParts, FilledParts DEF OutgoingInv
    <3>2. id \in terminal' \cup closed' \cup headersSubmitted'
      BY <3>1 DEF HungUpOK, PassiveStep
    <3>3. CASE Retires(id)
      BY <3>2, <3>3 DEF Retires, HungUpOK
    <3>4. CASE Keeps(id)
      BY <3>1, <3>2, <3>4, SpoiledMarks DEF Keeps, HungUpOK
    <3> QED
      BY <2>1, <3>3, <3>4 DEF PassiveStep
  <2> QED
    BY <2>2, <2>3 DEF PassiveStep
<1> QED
  BY <1>1, <1>2 DEF OutgoingInv

\* And it keeps that nothing is held back.
LEMMA PassiveKeepsSent ==
  ASSUME NativeInv, NativeInv', SentInv, PassiveStep
  PROVE  SentInv'
<1> SUFFICES ASSUME failures' = 0
             PROVE  NothingHeldBack' /\ BodiesAreTaken'
  BY DEF SentInv
<1>1. NothingHeldBack /\ BodiesAreTaken /\ call = NoCall /\ call' = NoCall
  <2>1. failures = 0
    BY InvParts DEF PassiveStep, QuicTypeOK
  <2> QED
    BY <2>1 DEF SentInv, PassiveStep
<1>2. asks = {} /\ asks' = {}
  <2>1. asks = {} /\ asks' \subseteq StreamIds
    BY <1>1 DEF NothingHeldBack, NativeInv, NativeTypeOK, H3TypeOK
  <2>2. \A id \in StreamIds : id \notin asks'
    BY <2>1 DEF PassiveStep, Keeps, Retires
  <2> QED
    BY <2>1, <2>2
<1>3. ASSUME NEW id \in StreamIds
      PROVE  /\ outq[id] = <<>> /\ outq'[id] = <<>>
             /\ Unread(bodies'[id]) = <<>>
             /\ wire'[id] \o Filled(id)' = submitted'[id]
  <2>1. outq[id] = <<>> /\ <<>> \in Seq(OutItems) /\ Unread(bodies[id]) = <<>>
    BY <1>1, <1>2 DEF NothingHeldBack
  <2>2. outq'[id] = <<>> /\ Unread(bodies'[id]) = <<>>
    <3>1. Keeps(id) \/ Retires(id)
      BY DEF PassiveStep
    <3> QED
      BY <2>1, <3>1, SpoiledMarks, NewBodyIsEmpty DEF Keeps, Retires
  <2>3. Filled(id) = <<>> \o <<>> /\ Filled(id)' = <<>> \o <<>>
    BY <1>2, <2>1, <2>2 DEF Filled
  <2>4. wire[id] \o Filled(id) = submitted[id]
    BY <1>1 DEF NothingHeldBack
  <2> QED
    BY <2>1, <2>2, <2>3, <2>4 DEF PassiveStep
<1>4. NothingHeldBack'
  BY <1>2, <1>3 DEF NothingHeldBack
<1>5. BodiesAreTaken'
  <2>1. \A id \in headersSubmitted' \ closed' : id \in StreamIds /\ id \notin terminal'
    BY DEF NativeInv, NativeTypeOK, TypeOK, ConnectionTypeOK, TablesAgree, TerminalClosesHandle
  <2>2. ASSUME NEW id \in headersSubmitted' \ closed'
        PROVE  h3Out'[id] = "headers" /\ ~bodies'[id].eof
    <3>1. Keeps(id)
      BY <2>1, <2>2 DEF PassiveStep, Retires
    <3>2. h3Out[id] = "headers" /\ ~bodies[id].eof
      <4>1. id \in headersSubmitted \ closed
        BY DEF PassiveStep
      <4>2. call # [op |-> "end", id |-> id]
        BY <1>1 DEF NoCall
      <4> QED
        BY <1>1, <4>1, <4>2 DEF BodiesAreTaken
    <3> QED
      BY <3>1, <3>2, NewBodyIsEmpty DEF Keeps
  <2>3. call'.op # "headers"
    BY <1>1 DEF NoCall
  <2> QED
    BY <2>2, <2>3 DEF BodiesAreTaken
<1> QED
  BY <1>4, <1>5

\* The tables of a step that starts no stream anew.
LEMMA PassiveWhen ==
  ASSUME call = NoCall, UNCHANGED <<call, wire, submitted, headersSubmitted>>,
         failures' = failures \/ failures' = failures + 1,
         terminal \subseteq terminal', closed \subseteq closed',
         \A id \in StreamIds : Keeps(id) \/ Retires(id),
         \A id \in hungUp' :
            id \in hungUp \/ (h3Stream'[id] # "open" /\ id \in terminal' \cup closed')
  PROVE  PassiveStep
BY DEF PassiveStep

\* nghttp3 keeps what it had of every stream when it is not called.
LEMMA UncalledKeeps ==
  ASSUME UNCHANGED <<outq, asks, h3Out, h3Stream, bodies>>
  PROVE  \A id \in StreamIds : Keeps(id)
BY DEF Keeps

\* A stream that nghttp3 closes is retired, and the others are kept.
LEMMA ClosedRetires ==
  ASSUME NativeInv, NEW id \in StreamIds, NEW code, CloseInH3(id, code)
  PROVE  /\ Retires(id)
         /\ \A s \in StreamIds : s # id => Keeps(s)
         /\ terminal \subseteq terminal' /\ closed \subseteq closed'
<1>1. /\ h3Stream' = [h3Stream EXCEPT ![id] = "closed"]
      /\ h3Out' = [h3Out EXCEPT ![id] = "nothing"]
      /\ asks' = asks \ {id}
      /\ outq' = [outq EXCEPT ![id] = <<>>]
      /\ EmitTerminalOnce(id, CloseEvent(id, code))
  BY DEF CloseInH3
<1>2. /\ id \in terminal' /\ terminal \subseteq terminal' /\ closed \subseteq closed'
      /\ bodies'[id] = NewBody
      /\ \A s \in StreamIds : s # id => bodies'[s] = bodies[s]
  <2>1. bodies \in [StreamIds -> Bodies(Chunks)]
    BY InvParts DEF H3TypeOK
  <2>2. id \in terminal => bodies[id] = NewBody
    BY InvParts DEF H3Agrees, EndedHasNoBody
  <2> QED
    BY <1>1, <2>1, <2>2 DEF EmitTerminalOnce, MarkStreamClosed
<1> QED
  BY <1>1, <1>2, InvParts DEF Retires, Keeps, H3TypeOK

\* What arrives from QUIC concerns nothing that is sent.
LEMMA ArrivalPassive ==
  ASSUME NativeInv, NativeArrival
  PROVE  PassiveStep
<1>1. /\ call = NoCall /\ UNCHANGED nativeVars
      /\ UNCHANGED <<connectionVars, failures, hungUp>>
  BY DEF NativeArrival, Arrival, PeerSends, PeerResets, QuicCloses, ConnectionEnds,
         QuicEventArrives
<1>2. UNCHANGED <<terminal, closed, headersSubmitted>>
  BY <1>1 DEF connectionVars, streamStateVars, handleVars
<1> QED
  BY <1>1, <1>2, PassiveWhen, UncalledKeeps DEF nativeVars, h3Vars

\* The methods of the connection: a new request stream is one that nothing was
\* known of.
LEMMA ConnectionCallPassive ==
  ASSUME NativeInv, NativeConnectionCall
  PROVE  PassiveStep
<1>1. call = NoCall /\ ConnectionCall /\ UNCHANGED nativeVars
  BY DEF NativeConnectionCall
<1>2. UNCHANGED <<call, wire, submitted>> /\ \A id \in StreamIds : Keeps(id)
  BY <1>1, UncalledKeeps DEF nativeVars, h3Vars
<1>3. CASE \E id \in StreamIds : OpenRequestStream(id)
  <2>1. PICK id \in StreamIds : OpenRequestStream(id)
    BY <1>3
  <2>2. /\ id \notin quicStreams /\ UNCHANGED <<failures, hungUp>>
        /\ headersSubmitted' = headersSubmitted \ {id}
        /\ terminal' = terminal \ {id} /\ closed' = closed \ {id}
    BY <2>1 DEF OpenRequestStream, CreateRequestStream
  <2>3. \A s \in quicStreams : s # id
    BY <2>2
  <2>4. headersSubmitted' \ closed' \subseteq headersSubmitted \ closed
    BY <2>2
  <2> QED
    BY <1>1, <1>2, <2>2, <2>3, <2>4 DEF PassiveStep
<1>4. CASE \E id \in StreamIds : RefusedOpen(id)
  <2>1. /\ UNCHANGED <<connectionVars, hungUp>>
        /\ failures' = failures + 1
    BY <1>4 DEF RefusedOpen
  <2>2. UNCHANGED <<terminal, closed, headersSubmitted>>
    BY <2>1 DEF connectionVars, streamStateVars, handleVars
  <2> QED
    BY <1>1, <1>2, <2>1, <2>2, PassiveWhen
<1>5. CASE \E id \in StreamIds : FetchRequestStream(id)
  <2>1. /\ UNCHANGED <<failures, hungUp, headersSubmitted, terminal>>
        /\ closed \subseteq closed'
    BY <1>5 DEF FetchRequestStream, GetRequestStream
  <2> QED
    BY <1>1, <1>2, <2>1, PassiveWhen
<1>6. CASE CloseConnection
  <2>1. UNCHANGED <<failures, hungUp, headersSubmitted, terminal, closed>>
    BY <1>6 DEF CloseConnection, Close, streamStateVars, handleVars
  <2> QED
    BY <1>1, <1>2, <2>1, PassiveWhen
<1> QED
  BY <1>1, <1>3, <1>4, <1>5, <1>6 DEF ConnectionCall

\* submitHeaders() that throws, and reset().
LEMMA StreamCallPassive ==
  ASSUME NativeInv, OutgoingInv, NEW id \in StreamIds,
         HeadersRefused(id) \/ \E code \in ErrorCodes : NativeReset(id, code) \/ ResetThrows(id, code)
  PROVE  PassiveStep
<1>1. CASE HeadersRefused(id)
  <2>1. /\ call = NoCall /\ failures' = failures + 1 /\ hungUp' = hungUp
        /\ sendFrame' = sendFrame /\ UNCHANGED nativeVars
    BY <1>1 DEF HeadersRefused, Idle
  <2>2. UNCHANGED <<terminal, closed, headersSubmitted>>
    BY <2>1, SendFrameKeeps DEF streamStateVars, handleVars
  <2>3. UNCHANGED <<call, wire, submitted>> /\ \A s \in StreamIds : Keeps(s)
    BY <2>1, UncalledKeeps DEF nativeVars, h3Vars
  <2> QED
    BY <2>1, <2>2, <2>3, PassiveWhen
<1>2. ASSUME NEW code \in ErrorCodes, NativeReset(id, code) \/ ResetThrows(id, code)
      PROVE  PassiveStep
  <2>1. /\ call = NoCall /\ UNCHANGED <<call, wire, submitted, headersSubmitted>>
        /\ failures' = failures \/ failures' = failures + 1
        /\ hungUp' \subseteq hungUp \cup {id}
    BY <1>2 DEF NativeReset, ResetThrows, Idle, resetFrame
  <2>2. CASE id \in H3Streams
    <3>1. CloseInH3(id, code)
      BY <1>2, <2>2 DEF NativeReset, ResetThrows, ResetInH3
    <3>2. /\ Retires(id) /\ \A s \in StreamIds : s # id => Keeps(s)
          /\ terminal \subseteq terminal' /\ closed \subseteq closed'
      BY <3>1, ClosedRetires
    <3>3. h3Stream'[id] # "open" /\ id \in terminal'
      BY <3>2 DEF Retires
    <3>4. \A s \in StreamIds : Keeps(s) \/ Retires(s)
      BY <3>2
    <3> QED
      BY <2>1, <3>2, <3>3, <3>4, PassiveWhen
  <2>3. CASE id \notin H3Streams
    <3>1. /\ UNCHANGED <<streamStateVars, h3Vars, bodies>>
          /\ \/ closed' = closed \cup {id}
             \/ closed' = closed /\ hungUp' = hungUp
      BY <1>2, <2>3 DEF NativeReset, ResetThrows, ResetInH3
    <3>2. terminal' = terminal /\ \A s \in StreamIds : Keeps(s)
      BY <3>1, UncalledKeeps DEF streamStateVars, h3Vars
    <3>3. h3Stream'[id] # "open"
      BY <2>3, <3>1 DEF H3Streams, h3Vars
    <3> QED
      BY <2>1, <3>1, <3>2, <3>3, PassiveWhen
  <2> QED
    BY <2>2, <2>3
<1> QED
  BY <1>1, <1>2

\* pollEvents() submits and writes nothing.
LEMMA PollPassive ==
  ASSUME NativeInv, NativePoll
  PROVE  PassiveStep
<1>1. call = NoCall /\ UNCHANGED <<call, wire, submitted, headersSubmitted>>
  <2>1. polling \/ call = NoCall
    BY InvParts DEF NativePoll, ReadableToH3, Parse, ParseReject, ParseFails, ConsumeNativeEvent,
                    AbortPoll, PollReturn, H3Agrees, OneCallAtATime
  <2>2. call = NoCall
    BY <2>1, InvParts DEF H3Agrees, OneCallAtATime
  <2>3. CASE DrainEvents \/ AbortPoll \/ PollReturn
    <3>1. headersSubmitted' = headersSubmitted
      BY <2>3 DEF DrainEvents, AbortPoll, PollReturn, ReturnEvents, handleVars
    <3>2. ASSUME UNCHANGED nativeVars
          PROVE  UNCHANGED <<call, wire, submitted>>
      BY <3>2 DEF nativeVars
    <3> QED
      BY <2>2, <2>3, <3>1, <3>2
         DEF NativePoll, ReadableToH3, Parse, ParseReject, ParseFails, ConsumeNativeEvent,
             pollFrame, handleVars
  <2>4. CASE ReadableToH3 \/ Parse \/ ParseReject \/ ParseFails
    BY <2>2, <2>4 DEF ReadableToH3, Parse, ParseReject, ParseFails, pollFrame, handleVars
  <2>5. CASE ConsumeNativeEvent
    <3>1. headersSubmitted' = headersSubmitted
      BY <2>5 DEF ConsumeNativeEvent, EndInH3, EndOutsideH3, ClosingOutsideH3, ConsumeReadable,
                  ConsumeLateReadable, ConsumeLiveReadable, ConsumeReset, ConsumeLateReset,
                  ConsumeLiveReset, ConsumeClosing, ConsumeFirstClosing, ConsumeLaterClosing,
                  ConsumeLateClosing, handleVars
    <3> QED
      BY <2>2, <2>5, <3>1 DEF ConsumeNativeEvent
  <2> QED
    BY <2>3, <2>4, <2>5 DEF NativePoll
<1>2. CASE UNCHANGED nativeVars /\ (DrainEvents \/ AbortPoll \/ PollReturn)
  <2>1. /\ UNCHANGED <<terminal, closed, hungUp>>
        /\ failures' = failures \/ failures' = failures + 1
    BY <1>2 DEF DrainEvents, AbortPoll, PollReturn, ReturnEvents, streamStateVars, handleVars
  <2>2. \A id \in StreamIds : Keeps(id)
    BY <1>2, UncalledKeeps DEF nativeVars, h3Vars
  <2> QED
    BY <1>1, <2>1, <2>2, PassiveWhen
<1>3. CASE ReadableToH3
  <2>1. /\ UNCHANGED <<terminal, closed, hungUp, failures, outq, asks, h3Out, bodies>>
        /\ \E id \in StreamIds :
              h3Stream' = h3Stream \/ h3Stream' = [h3Stream EXCEPT ![id] = "open"]
    <3>1. Head(batch).streamId \in StreamIds
      BY <1>3, InvParts DEF ReadableToH3, FeedH3, Reachable
    <3> QED
      BY <1>3, <3>1 DEF ReadableToH3, FeedH3, streamStateVars, handleVars
  <2>2. \A id \in StreamIds : Keeps(id)
    BY <2>1, InvParts DEF Keeps, H3TypeOK
  <2> QED
    BY <1>1, <2>1, <2>2, PassiveWhen
<1>4. CASE Parse
  <2>1. /\ UNCHANGED <<hungUp, failures, asks, h3Out, h3Stream>>
        /\ feed.id \in StreamIds
    BY <1>4, InvParts DEF Parse, H3Agrees, OneCallAtATime
  <2>2. /\ terminal \subseteq terminal' /\ closed \subseteq closed'
        /\ bodies' = bodies \/ bodies' = [bodies EXCEPT ![feed.id] = NewBody]
        /\ outq' = outq \/ outq' = [outq EXCEPT ![feed.id] = Spoiled(@)]
    <3>1. CASE ParseHeaders \/ ParseData
      BY <3>1 DEF ParseHeaders, ParseData
    <3>2. CASE ParseEnd
      BY <3>2 DEF ParseEnd, EmitTerminalOnce, MarkStreamClosed
    <3> QED
      BY <1>4, <3>1, <3>2 DEF Parse
  <2>3. \A id \in StreamIds : Keeps(id)
    BY <2>1, <2>2, InvParts DEF Keeps, H3TypeOK
  <2> QED
    BY <1>1, <2>1, <2>2, <2>3, PassiveWhen
<1>5. CASE ParseReject
  <2>1. PICK code \in ErrorCodes \ {0} : CloseInH3(feed.id, code)
    BY <1>5 DEF ParseReject
  <2>2. feed.id \in StreamIds
    BY <1>5, InvParts DEF ParseReject, H3Agrees, OneCallAtATime
  <2>3. /\ Retires(feed.id) /\ \A s \in StreamIds : s # feed.id => Keeps(s)
        /\ terminal \subseteq terminal' /\ closed \subseteq closed'
    BY <2>1, <2>2, ClosedRetires
  <2>4. /\ hungUp' \subseteq hungUp \cup {feed.id}
        /\ failures' = failures \/ failures' = failures + 1
    BY <1>5 DEF ParseReject
  <2>5. h3Stream'[feed.id] # "open" /\ feed.id \in terminal'
    BY <2>3 DEF Retires
  <2>6. \A s \in StreamIds : Keeps(s) \/ Retires(s)
    BY <2>3
  <2> QED
    BY <1>1, <2>3, <2>4, <2>5, <2>6, PassiveWhen
<1>6. CASE ParseFails
  <2>1. /\ UNCHANGED <<terminal, closed, hungUp, failures>>
        /\ UNCHANGED <<outq, asks, h3Out, h3Stream, bodies>>
    BY <1>6 DEF ParseFails, streamStateVars, h3Vars
  <2>2. \A s \in StreamIds : Keeps(s)
    BY <2>1, UncalledKeeps
  <2> QED
    BY <1>1, <2>1, <2>2, PassiveWhen
<1>7. CASE ConsumeNativeEvent
  <2> DEFINE event == Head(batch)
  <2>1. UNCHANGED <<failures, hungUp>>
    BY <1>7 DEF ConsumeNativeEvent
  <2>2. CASE EndInH3
    <3>1. event.streamId \in StreamIds /\ \E code : CloseInH3(event.streamId, code)
      BY <2>2 DEF EndInH3, H3Streams
    <3>2. /\ \A s \in StreamIds : Keeps(s) \/ Retires(s)
          /\ terminal \subseteq terminal' /\ closed \subseteq closed'
      BY <3>1, ClosedRetires
    <3> QED
      BY <1>1, <2>1, <3>2, PassiveWhen
  <2>3. CASE EndOutsideH3 \/ ClosingOutsideH3
    <3>1. UNCHANGED <<h3Vars, bodies>>
      BY <2>3 DEF EndOutsideH3, ClosingOutsideH3
    <3>2. \A s \in StreamIds : Keeps(s)
      BY <3>1, UncalledKeeps DEF h3Vars
    <3>3. terminal \subseteq terminal' /\ closed \subseteq closed'
      BY <2>3 DEF EndOutsideH3, ClosingOutsideH3, ConsumeReadable, ConsumeLateReadable,
                  ConsumeLiveReadable, ConsumeReset, ConsumeLateReset, ConsumeLiveReset,
                  ConsumeClosing, ConsumeFirstClosing, ConsumeLaterClosing, ConsumeLateClosing,
                  MarkStreamClosed, streamStateVars, handleVars
    <3> QED
      BY <1>1, <2>1, <3>2, <3>3, PassiveWhen
  <2> QED
    BY <1>7, <2>2, <2>3 DEF ConsumeNativeEvent
<1> QED
  BY <1>2, <1>3, <1>4, <1>5, <1>6, <1>7 DEF NativePoll

-----------------------------------------------------------------------------
(* The methods that submit *)

\* A step that keeps what nghttp3 has of every stream but one, and the tables.
LEMMA OneSends ==
  ASSUME NativeInv, OutgoingInv, NEW id \in StreamIds,
         \A s \in StreamIds : s # id => Keeps(s),
         headersSubmitted \subseteq headersSubmitted',
         terminal \subseteq terminal', closed \subseteq closed',
         hungUp' \subseteq hungUp \cup {id},
         OutgoingOK(id)', id \in hungUp' => HungUpOK(id)'
  PROVE  OutgoingInv'
<1>1. ASSUME NEW s \in StreamIds, s # id
      PROVE  OutgoingOK(s)' /\ (s \in hungUp' => HungUpOK(s)')
  <2>1. Keeps(s) /\ OutgoingOK(s) /\ outq[s] \in Seq(OutItems)
    BY <1>1, FilledParts DEF OutgoingInv
  <2>2. \A i \in 1..Len(outq'[s]) :
           outq'[s][i] = "FIN" => i = Len(outq'[s]) /\ h3Out'[s] = "whole"
    BY <2>1, SpoiledMarks DEF Keeps, OutgoingOK
  <2>3. OutgoingOK(s)'
    BY <2>1, <2>2, NewBodyIsEmpty DEF Keeps, OutgoingOK
  <2>4. s \in hungUp' => HungUpOK(s)'
    BY <1>1, <2>1, SpoiledMarks DEF Keeps, HungUpOK, OutgoingInv
  <2> QED
    BY <2>3, <2>4
<1>2. hungUp' \subseteq StreamIds
  BY InvParts DEF QuicTypeOK
<1> QED
  BY <1>1, <1>2 DEF OutgoingInv

\* submitHeaders(): nghttp3 has the headers to write, and will ask for a body.
LEMMA BeginHeadersOutgoing ==
  ASSUME NativeInv, OutgoingInv, NEW id \in StreamIds, BeginHeaders(id)
  PROVE  OutgoingInv'
<1>1. /\ id \in handles \ closed /\ id \notin headersSubmitted
      /\ sendFrame' = sendFrame /\ UNCHANGED <<bodies, hungUp>>
      /\ h3Stream' = [h3Stream EXCEPT ![id] = "open"]
      /\ h3Out' = [h3Out EXCEPT ![id] = "headers"]
      /\ asks' = asks \cup {id}
      /\ outq' = [outq EXCEPT ![id] = Append(@, "HEADERS")]
  BY DEF BeginHeaders
<1>2. UNCHANGED <<headersSubmitted, terminal, closed>>
  BY <1>1, SendFrameKeeps DEF streamStateVars, handleVars
<1>3. OutgoingOK(id) /\ outq[id] \in Seq(OutItems)
  BY FilledParts DEF OutgoingInv
<1>4. /\ h3Stream'[id] = "open" /\ h3Out'[id] = "headers"
      /\ outq'[id] = Append(outq[id], "HEADERS")
      /\ \A s \in StreamIds : s # id => Keeps(s)
  BY <1>1, InvParts DEF Keeps, H3TypeOK
<1>5. \A i \in 1..Len(outq'[id]) : outq'[id][i] # "FIN"
  <2>1. "HEADERS" \in OutItems
    BY DEF OutItems
  <2>2. \A i \in 1..Len(outq[id]) : outq[id][i] # "FIN"
    BY <1>1, <1>3 DEF OutgoingOK
  <2>3. /\ Len(outq'[id]) = Len(outq[id]) + 1 /\ Len(outq[id]) \in Nat
        /\ \A i \in 1..Len(outq[id]) : outq'[id][i] = outq[id][i]
        /\ outq'[id][Len(outq[id]) + 1] = "HEADERS"
    BY <1>3, <1>4, <2>1, AppendProperties, LenProperties
  <2> TAKE i \in 1..Len(outq'[id])
  <2>4. i \in 1..Len(outq[id]) \/ i = Len(outq[id]) + 1
    BY <2>3
  <2> QED
    BY <2>2, <2>3, <2>4
<1>6. OutgoingOK(id)'
  BY <1>1, <1>2, <1>3, <1>4, <1>5 DEF OutgoingOK
<1>7. id \notin hungUp'
  <2>1. id \notin terminal
    BY <1>1, OpenHandle
  <2> QED
    BY <1>1, <2>1 DEF OutgoingInv, HungUpOK
<1> QED
  BY <1>1, <1>2, <1>4, <1>6, <1>7, OneSends

\* submitData() and end(): nghttp3 asks for a body only of a message that goes on.
LEMMA BeginBodyOutgoing ==
  ASSUME NativeInv, OutgoingInv, NEW id \in StreamIds, SubmitData(id),
         NEW body, bodies' = [bodies EXCEPT ![id] = body],
         outq' = outq \/ outq' = [outq EXCEPT ![id] = Spoiled(@)],
         asks' = Resumed(id), UNCHANGED <<sendFrame, hungUp, h3Stream, h3Out>>
  PROVE  OutgoingInv'
<1>1. UNCHANGED <<headersSubmitted, terminal, closed>>
  BY SendFrameKeeps DEF streamStateVars, handleVars
<1>2. OutgoingOK(id) /\ outq[id] \in Seq(OutItems) /\ id \in headersSubmitted
  BY FilledParts DEF OutgoingInv, SubmitData
<1>3. \A s \in StreamIds : s # id => Keeps(s)
  BY InvParts DEF Keeps, H3TypeOK, Resumed
<1>4. outq'[id] = outq[id] \/ outq'[id] = Spoiled(outq[id])
  BY InvParts DEF H3TypeOK
<1>5. OutgoingOK(id)'
  <2>1. \A i \in 1..Len(outq'[id]) :
           outq'[id][i] = "FIN" => i = Len(outq'[id]) /\ h3Out'[id] = "whole"
    BY <1>2, <1>4, SpoiledMarks DEF OutgoingOK
  <2>2. id \in asks' => h3Out'[id] = "headers"
    BY <1>2 DEF OutgoingOK, Resumed
  <2> QED
    BY <1>1, <1>2, <2>1, <2>2 DEF OutgoingOK
<1>6. id \in hungUp' => HungUpOK(id)'
  BY <1>1, <1>2, <1>4, SpoiledMarks DEF OutgoingInv, HungUpOK
<1> QED
  BY <1>1, <1>3, <1>5, <1>6, OneSends

\* A method that submits adds to what nghttp3 holds of one stream, and starts a
\* flush loop.
LEMMA OneMoreHeld ==
  ASSUME NothingHeldBack, NEW id \in StreamIds, call' # NoCall,
         \A s \in StreamIds : s # id => /\ outq'[s] = outq[s] /\ bodies'[s] = bodies[s]
                                        /\ (s \in asks' <=> s \in asks)
                                        /\ wire'[s] = wire[s] /\ submitted'[s] = submitted[s],
         wire'[id] \o Filled(id)' = submitted'[id],
         id \notin asks' => Unread(bodies'[id]) = <<>>
  PROVE  NothingHeldBack'
<1>1. ASSUME NEW s \in StreamIds, s # id
      PROVE  wire'[s] \o Filled(s)' = submitted'[s]
  <2>1. Filled(s)' = Filled(s)
    BY <1>1 DEF Filled
  <2> QED
    BY <1>1, <2>1 DEF NothingHeldBack
<1>2. \A s \in StreamIds \ asks' : Unread(bodies'[s]) = <<>>
  BY DEF NothingHeldBack
<1> QED
  BY <1>1, <1>2 DEF NothingHeldBack

\* Between the methods nghttp3 holds nothing, and all that was submitted is written.
LEMMA NothingHeld ==
  ASSUME NativeInv, NothingHeldBack, call = NoCall, NEW id \in StreamIds
  PROVE  /\ asks = {} /\ outq[id] = <<>> /\ Unread(bodies[id]) = <<>>
         /\ wire[id] = submitted[id] /\ wire[id] \in Seq(OutItems)
<1>1. asks = {} /\ outq[id] = <<>> /\ Unread(bodies[id]) = <<>>
  BY DEF NothingHeldBack
<1>2. wire[id] \in Seq(OutItems) /\ wire[id] \o Filled(id) = submitted[id]
  BY InvParts DEF NothingHeldBack, H3TypeOK
<1>3. Filled(id) = <<>>
  BY <1>1, FilledParts
<1> QED
  BY <1>1, <1>2, <1>3, ConcatEmptySeq

\* What is appended to a body is unread behind what was.
LEMMA UnreadGrows ==
  ASSUME NEW body \in Bodies(Chunks), NEW piece \in Seq(Chunks), Unread(body) = <<>>
  PROVE  Unread(Appended(body, piece)) = piece
<1> DEFINE data == body.data
           offset == body.readOffset
<1>1. /\ body \in [data : Seq(Chunks), readOffset : Nat, ackedOffset : Nat, eof : BOOLEAN]
      /\ data \in Seq(Chunks) /\ offset \in Nat /\ offset <= Len(data)
      /\ Unread(body) = SubSeq(data, offset + 1, Len(data))
  BY DEF Bodies, Unread
<1>2. Unread(Appended(body, piece)) = SubSeq(data \o piece, offset + 1, Len(data \o piece))
  BY <1>1 DEF Unread, Appended
<1> HIDE DEF data, offset
<1>3. /\ Len(data) \in Nat /\ Len(piece) \in Nat
      /\ data \o piece \in Seq(Chunks) /\ Len(data \o piece) = Len(data) + Len(piece)
  BY <1>1, LenProperties, ConcatProperties
<1>4. offset = Len(data)
  <2>1. \A i \in offset + 1..Len(data) : data[i] \in Chunks
    BY <1>1, <1>3, ElementOfSeq
  <2>2. Len(SubSeq(data, offset + 1, Len(data)))
           = IF offset + 1 <= Len(data) THEN Len(data) - (offset + 1) + 1 ELSE 0
    BY <1>1, <1>3, <2>1, SubSeqProperties
  <2>3. Len(SubSeq(data, offset + 1, Len(data))) = 0
    BY <1>1, EmptySeq
  <2> QED
    BY <1>1, <1>3, <2>2, <2>3
<1>5. CASE Len(piece) = 0
  <2>1. piece = <<>>
    BY <1>5, EmptySeq
  <2>2. Len(data \o piece) < offset + 1
    BY <1>3, <1>4, <1>5
  <2> QED
    BY <1>1, <1>2, <1>3, <2>1, <2>2, SubSeqEmpty
<1>6. CASE Len(piece) # 0
  <2>1. /\ offset + 1 \in Len(data) + 1..Len(data) + Len(piece)
        /\ Len(data) + Len(piece) \in Len(data) + 1..Len(data) + Len(piece)
    BY <1>3, <1>4, <1>6
  <2>2. SubSeq(data \o piece, offset + 1, Len(data) + Len(piece))
           = SubSeq(piece, offset + 1 - Len(data), Len(data) + Len(piece) - Len(data))
    BY <1>1, <2>1, SubSeqOfConcat2
  <2>3. offset + 1 - Len(data) = 1 /\ Len(data) + Len(piece) - Len(data) = Len(piece)
    BY <1>3, <1>4
  <2> QED
    BY <1>2, <1>3, <2>2, <2>3, SubSeqFull
<1> QED
  BY <1>5, <1>6

\* submitHeaders()
LEMMA BeginHeadersSent ==
  ASSUME NativeInv, OutgoingInv, SentInv, NEW id \in StreamIds, BeginHeaders(id)
  PROVE  SentInv'
<1>1. /\ call = NoCall /\ id \notin headersSubmitted
      /\ sendFrame' = sendFrame /\ UNCHANGED <<bodies, failures, wire>>
      /\ h3Out' = [h3Out EXCEPT ![id] = "headers"]
      /\ asks' = asks \cup {id}
      /\ outq' = [outq EXCEPT ![id] = Append(@, "HEADERS")]
      /\ submitted' = [submitted EXCEPT ![id] = Append(@, "HEADERS")]
      /\ call' = [op |-> "headers", id |-> id]
  BY DEF BeginHeaders, Idle
<1> SUFFICES ASSUME failures = 0, NothingHeldBack, BodiesAreTaken
             PROVE  NothingHeldBack' /\ BodiesAreTaken'
  BY <1>1 DEF SentInv
<1>2. UNCHANGED <<headersSubmitted, closed>>
  BY <1>1, SendFrameKeeps DEF handleVars
<1>3. /\ asks = {} /\ outq[id] = <<>> /\ Unread(bodies[id]) = <<>>
      /\ wire[id] = submitted[id] /\ wire[id] \in Seq(OutItems)
  BY <1>1, NothingHeld
<1>4. ~bodies[id].eof
  BY <1>1 DEF OutgoingInv, OutgoingOK
<1>5. /\ outq'[id] = Append(<<>>, "HEADERS") /\ submitted'[id] = Append(wire[id], "HEADERS")
      /\ h3Out'[id] = "headers"
      /\ \A s \in StreamIds : s # id => /\ outq'[s] = outq[s] /\ submitted'[s] = submitted[s]
                                        /\ h3Out'[s] = h3Out[s]
  BY <1>1, <1>3, InvParts DEF H3TypeOK
<1>6. wire'[id] \o Filled(id)' = submitted'[id]
  <2>1. "HEADERS" \in OutItems /\ <<>> \in Seq(OutItems)
    BY DEF OutItems
  <2>2. outq'[id] = <<"HEADERS">> /\ <<"HEADERS">> \in Seq(OutItems)
    BY <1>5, <2>1
  <2>3. Filled(id)' = <<"HEADERS">> \o (<<>> \o <<>>)
    BY <1>1, <1>3, <1>4, <2>2 DEF Filled, When, ReadEnds
  <2>4. Filled(id)' = <<"HEADERS">>
    BY <2>1, <2>2, <2>3, ConcatEmptySeq
  <2> QED
    BY <1>1, <1>3, <1>5, <2>1, <2>4, AppendIsConcat
<1>7. NothingHeldBack'
  <2>1. call' # NoCall
    BY <1>1 DEF NoCall
  <2> QED
    BY <1>1, <1>5, <1>6, <2>1, OneMoreHeld
<1>8. BodiesAreTaken'
  <2>1. ASSUME NEW s \in headersSubmitted' \ closed'
        PROVE  h3Out'[s] = "headers" /\ ~bodies'[s].eof
    <3>1. s \in headersSubmitted \ closed /\ s # id /\ s \in StreamIds
      BY <1>1, <1>2, InvParts DEF ConnectionTypeOK
    <3>2. call # [op |-> "end", id |-> s]
      BY <1>1 DEF NoCall
    <3> QED
      BY <1>1, <1>5, <3>1, <3>2 DEF BodiesAreTaken
  <2> QED
    BY <1>1, <1>2, <1>5, <2>1 DEF BodiesAreTaken
<1> QED
  BY <1>7, <1>8

\* A handle that may send a body is one whose body nghttp3 will ask for.
LEMMA SenderIsAsked ==
  ASSUME NativeInv, BodiesAreTaken, call = NoCall, NEW id \in StreamIds, SubmitData(id)
  PROVE  Resumed(id) = asks \cup {id} /\ h3Out[id] = "headers" /\ ~bodies[id].eof
<1>1. id \in handles \ closed /\ id \in headersSubmitted
  BY DEF SubmitData
<1>2. call # [op |-> "end", id |-> id]
  BY DEF NoCall
<1>3. h3Out[id] = "headers" /\ ~bodies[id].eof
  BY <1>1, <1>2 DEF BodiesAreTaken
<1> QED
  BY <1>1, <1>3, OpenHandle DEF Resumed

\* submitData() and end(): nghttp3 holds what was submitted.
LEMMA BeginBodySent ==
  ASSUME NativeInv, SentInv, call = NoCall, NEW id \in StreamIds, SubmitData(id),
         NEW body, bodies' = [bodies EXCEPT ![id] = body],
         outq' = outq \/ outq' = [outq EXCEPT ![id] = Spoiled(@)],
         asks' = Resumed(id), NEW more \in Seq(OutItems),
         submitted' = [submitted EXCEPT ![id] = @ \o more],
         NEW op \in {"data", "end"}, call' = [op |-> op, id |-> id],
         UNCHANGED <<sendFrame, failures, h3Out, wire>>,
         Unread(bodies[id]) = <<>> /\ ~bodies[id].eof =>
            /\ Unread(body) \o When(ReadEnds(body), "FIN") = more
            /\ op = "data" => ~body.eof
  PROVE  SentInv'
<1> SUFFICES ASSUME failures = 0, NothingHeldBack, BodiesAreTaken
             PROVE  NothingHeldBack' /\ BodiesAreTaken'
  BY DEF SentInv
<1>1. UNCHANGED <<headersSubmitted, closed>>
  BY SendFrameKeeps DEF handleVars
<1>2. /\ asks = {} /\ outq[id] = <<>> /\ Unread(bodies[id]) = <<>>
      /\ wire[id] = submitted[id] /\ wire[id] \in Seq(OutItems)
  BY NothingHeld
<1>3. asks' = asks \cup {id} /\ h3Out[id] = "headers" /\ ~bodies[id].eof
  BY SenderIsAsked
<1>4. /\ bodies'[id] = body /\ submitted'[id] = wire[id] \o more /\ outq'[id] = <<>>
      /\ \A s \in StreamIds : s # id => /\ outq'[s] = outq[s] /\ submitted'[s] = submitted[s]
                                        /\ bodies'[s] = bodies[s]
  <2>1. outq[id] \in Seq(OutItems)
    BY FilledParts
  <2> QED
    BY <1>2, <2>1, SpoiledMarks, InvParts DEF H3TypeOK
<1>5. wire'[id] \o Filled(id)' = submitted'[id]
  <2>1. Filled(id)' = <<>> \o more
    BY <1>2, <1>3, <1>4 DEF Filled
  <2> QED
    BY <1>4, <2>1, ConcatEmptySeq
<1>6. NothingHeldBack'
  <2>1. call' # NoCall
    BY DEF NoCall
  <2> QED
    BY <1>3, <1>4, <1>5, <2>1, OneMoreHeld
<1>7. BodiesAreTaken'
  <2>1. ASSUME NEW s \in headersSubmitted' \ closed', call' # [op |-> "end", id |-> s]
        PROVE  h3Out'[s] = "headers" /\ ~bodies'[s].eof
    <3>1. s \in headersSubmitted \ closed /\ s \in StreamIds
      BY <1>1, <2>1, InvParts DEF ConnectionTypeOK
    <3>2. call # [op |-> "end", id |-> s]
      BY DEF NoCall
    <3>3. h3Out[s] = "headers" /\ ~bodies[s].eof
      BY <3>1, <3>2 DEF BodiesAreTaken
    <3>4. s = id => op = "data"
      BY <2>1
    <3> QED
      BY <1>2, <1>3, <1>4, <3>1, <3>3, <3>4
  <2> QED
    BY <2>1 DEF BodiesAreTaken
<1> QED
  BY <1>6, <1>7

\* submitData()
LEMMA BeginDataSent ==
  ASSUME NativeInv, SentInv, NEW id \in StreamIds,
         NEW piece \in {<<>>} \cup {<<chunk>> : chunk \in BodyPieces}, BeginData(id, piece)
  PROVE  SentInv'
<1> DEFINE body == Appended(bodies[id], piece)
<1>1. /\ call = NoCall /\ SubmitData(id) /\ bodies' = [bodies EXCEPT ![id] = body]
      /\ outq' = outq \/ outq' = [outq EXCEPT ![id] = Spoiled(@)]
      /\ asks' = Resumed(id) /\ submitted' = [submitted EXCEPT ![id] = @ \o piece]
      /\ call' = [op |-> "data", id |-> id]
      /\ UNCHANGED <<sendFrame, failures, h3Out, wire>>
  BY DEF BeginData, Idle
<1>2. piece \in Seq(Chunks)
  <2>1. \A chunk \in BodyPieces : <<chunk>> \in Seq(Chunks)
    <3> TAKE chunk \in BodyPieces
    <3>1. chunk \in Chunks
      BY DEF BodyPieces
    <3> QED
      BY <3>1
  <2>2. <<>> \in Seq(Chunks)
    OBVIOUS
  <2> QED
    BY <2>1, <2>2
<1>3. piece \in Seq(OutItems)
  <2>1. Chunks \subseteq OutItems
    BY DEF OutItems
  <2> QED
    BY <1>2, <2>1, SeqMonotonic
<1>4. ASSUME Unread(bodies[id]) = <<>>, ~bodies[id].eof
      PROVE  Unread(body) \o When(ReadEnds(body), "FIN") = piece /\ ~body.eof
  <2>1. bodies[id] \in Bodies(Chunks)
    BY FilledParts
  <2>2. Unread(body) = piece
    BY <1>2, <1>4, <2>1, UnreadGrows
  <2>3. ~body.eof
    BY <1>4, <2>1 DEF Appended, Bodies
  <2>4. piece \o <<>> = piece
    BY <1>2, ConcatEmptySeq
  <2> QED
    BY <2>2, <2>3, <2>4 DEF When, ReadEnds
<1> HIDE DEF body
<1> QED
  BY <1>1, <1>3, <1>4, BeginBodySent

\* end()
LEMMA BeginEndSent ==
  ASSUME NativeInv, SentInv, NEW id \in StreamIds, BeginEnd(id)
  PROVE  SentInv'
<1> DEFINE body == Finished(bodies[id])
           more == When(~bodies[id].eof, "FIN")
<1>1. /\ call = NoCall /\ SubmitData(id) /\ bodies' = [bodies EXCEPT ![id] = body]
      /\ outq' = outq
      /\ asks' = Resumed(id) /\ submitted' = [submitted EXCEPT ![id] = @ \o more]
      /\ call' = [op |-> "end", id |-> id]
      /\ UNCHANGED <<sendFrame, failures, h3Out, wire>>
  BY DEF BeginEnd, Idle
<1>2. <<"FIN">> \in Seq(OutItems) /\ <<>> \in Seq(OutItems)
  BY DEF OutItems
<1>3. more \in Seq(OutItems)
  BY <1>2 DEF When
<1>4. ASSUME Unread(bodies[id]) = <<>>, ~bodies[id].eof
      PROVE  Unread(body) \o When(ReadEnds(body), "FIN") = more
  <2>1. bodies[id] \in Bodies(Chunks)
    BY FilledParts
  <2>2. Unread(body) = Unread(bodies[id]) /\ body.eof
    BY <2>1 DEF Finished, Unread, Bodies
  <2>3. <<>> \o <<"FIN">> = <<"FIN">>
    BY <1>2, ConcatEmptySeq
  <2> QED
    BY <1>4, <2>2, <2>3 DEF When, ReadEnds
<1> HIDE DEF body, more
<1> QED
  BY <1>1, <1>3, <1>4, BeginBodySent

-----------------------------------------------------------------------------
(* The flush loop *)

\* One turn of the loop changes one stream.
LEMMA WrittenParts ==
  ASSUME NativeInv, NEW id \in StreamIds, NEW n, Written(id, n)
  PROVE  /\ outq'[id] = SubSeq(Filled(id), n + 1, Len(Filled(id)))
         /\ bodies'[id] = IF id \in asks THEN AllRead(bodies[id]) ELSE bodies[id]
         /\ bodies'[id].eof = bodies[id].eof
         /\ h3Out'[id] = IF id \in asks /\ bodies[id].eof THEN "whole" ELSE h3Out[id]
         /\ asks' = asks \ {id}
         /\ \A s \in StreamIds : s # id => /\ outq'[s] = outq[s] /\ bodies'[s] = bodies[s]
                                           /\ h3Out'[s] = h3Out[s]
<1>1. bodies \in [StreamIds -> Bodies(Chunks)] /\ bodies[id] \in Bodies(Chunks)
  BY InvParts DEF H3TypeOK
<1>2. AllRead(bodies[id]).eof = bodies[id].eof
  BY <1>1 DEF AllRead, Bodies
<1>3. /\ outq' = [outq EXCEPT ![id] = SubSeq(Filled(id), n + 1, Len(Filled(id)))]
      /\ bodies' = IF id \in asks THEN [bodies EXCEPT ![id] = AllRead(@)] ELSE bodies
      /\ h3Out' = [h3Out EXCEPT ![id] = IF id \in asks /\ bodies[id].eof THEN "whole" ELSE @]
      /\ asks' = asks \ {id}
  BY DEF Written
<1> QED
  BY <1>1, <1>2, <1>3, InvParts DEF H3TypeOK

\* A turn writes the FIN last, and then of a whole message.
LEMMA TurnKeepsOutgoing ==
  ASSUME NativeInv, OutgoingInv, NEW id \in StreamIds, Filled(id) # <<>>,
         NEW n \in Nat, n <= Len(Filled(id)), Written(id, n), flushFrame' = flushFrame,
         hungUp' \subseteq hungUp \cup {id},
         id \in hungUp' \ hungUp => n # 0 /\ Filled(id)[n] = "FIN"
  PROVE  OutgoingInv'
<1> DEFINE items == Filled(id)
<1>1. h3Stream[id] = "open" /\ items \in Seq(OutItems) /\ OutgoingOK(id)
  BY FilledIsOpen DEF OutgoingInv
<1>2. UNCHANGED <<headersSubmitted, terminal, closed, h3Stream>>
  <2>1. sendFrame' = sendFrame /\ h3Stream' = h3Stream
    BY DEF flushFrame
  <2> QED
    BY <2>1, SendFrameKeeps DEF streamStateVars, handleVars
<1>3. \A m \in 1..Len(items) :
         items[m] = "FIN" => /\ m = Len(items)
                             /\ id \in asks => bodies[id].eof
                             /\ id \notin asks => h3Out[id] = "whole"
  BY <1>1, FinIsLast
<1>4. /\ outq'[id] = SubSeq(items, n + 1, Len(items))
      /\ bodies'[id].eof = bodies[id].eof
      /\ h3Out'[id] = IF id \in asks /\ bodies[id].eof THEN "whole" ELSE h3Out[id]
      /\ asks' = asks \ {id}
      /\ \A s \in StreamIds : s # id => Keeps(s)
  BY <1>2, WrittenParts DEF Keeps
<1>5. Len(items) \in Nat
  BY <1>1, LenProperties
<1> HIDE DEF items
<1>6. /\ Len(outq'[id]) = Len(items) - n
      /\ \A i \in 1..Len(outq'[id]) : n + i \in 1..Len(items) /\ outq'[id][i] = items[n + i]
  <2>1. \A i \in n + 1..Len(items) : items[i] \in OutItems
    BY <1>1, <1>5, ElementOfSeq
  <2>2. Len(outq'[id]) = IF n + 1 <= Len(items) THEN Len(items) - (n + 1) + 1 ELSE 0
    BY <1>4, <1>5, <2>1, SubSeqProperties
  <2>3. \A i \in 1..Len(items) - (n + 1) + 1 : outq'[id][i] = items[n + 1 + i - 1]
    BY <1>4, <1>5, <2>1, SubSeqProperties
  <2>4. n <= Len(items)
    BY DEF items
  <2>5. Len(outq'[id]) = Len(items) - n
    BY <1>5, <2>2, <2>4
  <2>6. ASSUME NEW i \in 1..Len(outq'[id])
        PROVE  n + i \in 1..Len(items) /\ outq'[id][i] = items[n + i]
    <3>1. i \in 1..Len(items) - (n + 1) + 1 /\ n + 1 + i - 1 = n + i
      BY <1>5, <2>5
    <3>2. n + i \in 1..Len(items)
      BY <1>5, <2>4, <3>1
    <3> QED
      BY <2>3, <3>1, <3>2
  <2> QED
    BY <2>5, <2>6
<1>7. OutgoingOK(id)'
  <2>1. \A i \in 1..Len(outq'[id]) :
           outq'[id][i] = "FIN" => i = Len(outq'[id]) /\ h3Out'[id] = "whole"
    <3> SUFFICES ASSUME NEW i \in 1..Len(outq'[id]), outq'[id][i] = "FIN"
                 PROVE  i = Len(outq'[id]) /\ h3Out'[id] = "whole"
      OBVIOUS
    <3>1. n + i \in 1..Len(items) /\ items[n + i] = "FIN"
      BY <1>6
    <3>2. n + i = Len(items)
      BY <1>3, <3>1
    <3>3. h3Out'[id] = "whole"
      BY <1>3, <1>4, <3>1
    <3> QED
      BY <1>5, <1>6, <3>2, <3>3
  <2>2. h3Out'[id] = "whole" => id \in headersSubmitted'
    BY <1>1, <1>2, <1>4 DEF OutgoingOK
  <2> QED
    BY <1>1, <1>2, <1>4, <2>1, <2>2 DEF OutgoingOK
<1>8. id \in hungUp' => HungUpOK(id)'
  <2>1. id \notin hungUp
    <3>1. ASSUME HungUpOK(id)
          PROVE  FALSE
      <4>1. id \notin asks /\ outq[id] = <<>>
        BY <1>1, <3>1 DEF HungUpOK, OutgoingOK
      <4> QED
        BY <4>1, FilledParts
    <3> QED
      BY <3>1 DEF OutgoingInv
  <2>2. ASSUME id \in hungUp'
        PROVE  HungUpOK(id)'
    <3>1. n \in 1..Len(items) /\ items[n] = "FIN"
      BY <1>5, <2>1, <2>2 DEF items
    <3>2. n = Len(items) /\ h3Out'[id] = "whole"
      BY <1>3, <1>4, <3>1
    <3>3. outq'[id] = <<>>
      BY <1>4, <1>5, <3>2, SubSeqEmpty
    <3> QED
      BY <1>7, <3>2, <3>3 DEF HungUpOK, OutgoingOK
  <2> QED
    BY <2>2
<1> QED
  BY <1>2, <1>4, <1>7, <1>8, OneSends

\* The flush loop, whether a turn writes, throws or finds nothing left.
LEMMA FlushKeepsOutgoing ==
  ASSUME NativeInv, OutgoingInv, Flush
  PROVE  OutgoingInv'
<1>1. ASSUME NEW id \in StreamIds, FlushWrite(id)
      PROVE  OutgoingInv'
  <2>1. PICK n \in 1..Len(Filled(id)) :
           /\ Written(id, n)
           /\ \/ Filled(id)[n] = "FIN" /\ hungUp' = hungUp \cup {id}
              \/ hungUp' = hungUp
    BY <1>1 DEF FlushWrite, FinishQuicStream
  <2>2. Filled(id) \in Seq(OutItems) /\ flushFrame' = flushFrame
    BY <1>1, FilledIsOpen DEF FlushWrite
  <2>3. n \in Nat /\ n # 0 /\ n <= Len(Filled(id)) /\ Filled(id) # <<>>
    BY <2>2, EmptySeq, LenProperties
  <2> QED
    BY <2>1, <2>2, <2>3, TurnKeepsOutgoing
<1>2. ASSUME NEW id \in StreamIds, FlushThrows(id)
      PROVE  OutgoingInv'
  <2>1. /\ Filled(id) # <<>> /\ Written(id, 0) /\ flushFrame' = flushFrame
        /\ hungUp' = hungUp
    BY <1>2 DEF FlushThrows
  <2>2. 0 \in Nat /\ 0 <= Len(Filled(id))
    BY FilledIsOpen, LenProperties
  <2> QED
    BY <2>1, <2>2, TurnKeepsOutgoing
<1>3. ASSUME FlushReturns
      PROVE  OutgoingInv'
  <2>1. /\ asks' = {} /\ UNCHANGED <<hungUp, h3Stream, h3Out, outq, bodies>>
        /\ headersSubmitted \subseteq headersSubmitted'
        /\ terminal' = terminal /\ closed \subseteq closed'
    BY <1>3 DEF FlushReturns, SubmitHeaders, SubmitData, End, connectionVars, streamStateVars,
                handleVars
  <2>2. \A id \in StreamIds : OutgoingOK(id)'
    BY <2>1 DEF OutgoingInv, OutgoingOK
  <2>3. \A id \in hungUp' : HungUpOK(id)'
    BY <2>1 DEF OutgoingInv, HungUpOK
  <2> QED
    BY <2>2, <2>3 DEF OutgoingInv
<1> QED
  BY <1>1, <1>2, <1>3 DEF Flush

\* Nothing of a body that was read through is unread.
LEMMA AllReadIsRead ==
  ASSUME NEW body \in Bodies(Chunks)
  PROVE  Unread(AllRead(body)) = <<>>
<1>1. /\ body \in [data : Seq(Chunks), readOffset : Nat, ackedOffset : Nat, eof : BOOLEAN]
      /\ body.data \in Seq(Chunks) /\ body.readOffset \in Nat
      /\ body.readOffset <= Len(body.data)
  BY DEF Bodies
<1>2. Len(body.data) \in Nat
  BY <1>1, LenProperties
<1>3. AllRead(body).data = body.data /\ AllRead(body).readOffset = Len(body.data)
  BY <1>1, <1>2 DEF AllRead
<1>4. Unread(AllRead(body)) = SubSeq(body.data, Len(body.data) + 1, Len(body.data))
  BY <1>3 DEF Unread
<1> QED
  BY <1>2, <1>4, SubSeqEmpty

\* A turn that writes moves what it writes from what nghttp3 holds to the wire.
LEMMA FlushWriteSent ==
  ASSUME NativeInv, OutgoingInv, SentInv, NEW id \in StreamIds, FlushWrite(id)
  PROVE  SentInv'
<1> DEFINE items == Filled(id)
           size == Len(items)
<1>1. PICK n \in 1..size :
         Written(id, n) /\ wire' = [wire EXCEPT ![id] = @ \o SubSeq(items, 1, n)]
  BY DEF FlushWrite, WriteQuicStream
<1>2. call # NoCall /\ UNCHANGED <<call, failures>> /\ flushFrame' = flushFrame
  BY DEF FlushWrite
<1> SUFFICES ASSUME failures = 0, NothingHeldBack, BodiesAreTaken
             PROVE  NothingHeldBack' /\ BodiesAreTaken'
  BY <1>2 DEF SentInv
<1>3. submitted' = submitted /\ UNCHANGED <<headersSubmitted, closed>>
  <2>1. submitted' = submitted /\ sendFrame' = sendFrame
    BY <1>2 DEF flushFrame
  <2> QED
    BY <2>1, SendFrameKeeps DEF handleVars
<1>4. /\ outq'[id] = SubSeq(items, n + 1, size)
      /\ bodies'[id] = IF id \in asks THEN AllRead(bodies[id]) ELSE bodies[id]
      /\ bodies'[id].eof = bodies[id].eof
      /\ h3Out'[id] = IF id \in asks /\ bodies[id].eof THEN "whole" ELSE h3Out[id]
      /\ asks' = asks \ {id}
      /\ \A s \in StreamIds : s # id => /\ outq'[s] = outq[s] /\ bodies'[s] = bodies[s]
                                        /\ h3Out'[s] = h3Out[s]
  BY <1>1, WrittenParts
<1>5. /\ items \in Seq(OutItems) /\ wire[id] \in Seq(OutItems)
      /\ wire[id] \o items = submitted[id]
  BY FilledIsOpen, InvParts DEF H3TypeOK, NothingHeldBack
<1>6. size \in Nat
  BY <1>5, LenProperties
<1>7. /\ wire'[id] = wire[id] \o SubSeq(items, 1, n)
      /\ \A s \in StreamIds : s # id => wire'[s] = wire[s]
  BY <1>1, InvParts DEF H3TypeOK
<1> HIDE DEF items
<1>8. wire'[id] \o Filled(id)' = submitted'[id]
  <2> DEFINE first == SubSeq(items, 1, n)
             rest == SubSeq(items, n + 1, size)
  <2>1. first \in Seq(OutItems) /\ rest \in Seq(OutItems)
    <3>1. n \in Nat /\ n <= size
      BY <1>6
    <3>2. SubSeq(items, 0 + 1, n) \in Seq(OutItems)
      BY <1>5, <1>6, <3>1, PartIsTyped
    <3>3. SubSeq(items, n + 1, size) \in Seq(OutItems)
      BY <1>5, <1>6, <3>1, PartIsTyped
    <3> QED
      BY <3>2, <3>3
  <2>2. first \o rest = items
    <3>1. /\ 1 \in 1..size + 1 /\ n \in 1 - 1..size /\ size \in n..size
      BY <1>6
    <3>2. first \o rest = SubSeq(items, 1, size)
      BY <1>5, <3>1, ConcatAdjacentSubSeq
    <3> QED
      BY <1>5, <3>2, SubSeqFull
  <2> HIDE DEF first, rest
  <2>3. Filled(id)' = rest
    <3>1. Filled(id)' = rest \o <<>>
      BY <1>4 DEF Filled, rest
    <3> QED
      BY <2>1, <3>1, ConcatEmptySeq
  <2>4. wire'[id] = wire[id] \o first
    BY <1>7 DEF first
  <2>5. (wire[id] \o first) \o rest = wire[id] \o (first \o rest)
    <3> DEFINE sent == wire[id]
    <3>1. sent \in Seq(OutItems)
      BY <1>5
    <3>2. first \in Seq(OutItems)
      BY <2>1
    <3>3. rest \in Seq(OutItems)
      BY <2>1
    <3> HIDE DEF sent
    <3>4. (sent \o first) \o rest = sent \o (first \o rest)
      BY <3>1, <3>2, <3>3, ConcatAssociative
    <3> QED
      BY <3>4 DEF sent
  <2>6. wire'[id] \o Filled(id)' = wire[id] \o items
    BY <2>2, <2>3, <2>4, <2>5
  <2>7. submitted'[id] = submitted[id]
    BY <1>3
  <2> QED
    BY <1>5, <2>6, <2>7
<1>9. id \notin asks' => Unread(bodies'[id]) = <<>>
  <2>1. bodies[id] \in Bodies(Chunks)
    BY FilledParts
  <2> QED
    BY <1>4, <2>1, AllReadIsRead DEF NothingHeldBack
<1>10. NothingHeldBack'
  BY <1>2, <1>3, <1>4, <1>7, <1>8, <1>9, OneMoreHeld
<1>11. BodiesAreTaken'
  <2>1. bodies[id].eof => id \in headersSubmitted
    BY DEF OutgoingInv, OutgoingOK
  <2>2. ASSUME NEW s \in headersSubmitted' \ closed', call' # [op |-> "end", id |-> s]
        PROVE  h3Out'[s] = "headers" /\ ~bodies'[s].eof
    <3>1. h3Out[s] = "headers" /\ ~bodies[s].eof
      BY <1>2, <1>3, <2>2 DEF BodiesAreTaken
    <3>2. s \in StreamIds
      BY <1>3, InvParts DEF ConnectionTypeOK
    <3> QED
      BY <1>4, <3>1, <3>2
  <2>3. call'.op = "headers" =>
           call'.id \in StreamIds \ headersSubmitted' /\ h3Out'[call'.id] = "headers"
    BY <1>2, <1>3, <1>4, <2>1 DEF BodiesAreTaken
  <2> QED
    BY <2>2, <2>3 DEF BodiesAreTaken
<1> QED
  BY <1>10, <1>11

\* When the loop is done nghttp3 holds nothing.
LEMMA FlushReturnsSent ==
  ASSUME NativeInv, OutgoingInv, SentInv, FlushReturns
  PROVE  SentInv'
<1>1. /\ \A id \in StreamIds : Filled(id) = <<>>
      /\ asks' = {} /\ call' = NoCall
      /\ UNCHANGED <<failures, h3Out, outq, bodies, submitted, wire>>
      /\ \/ call.op = "headers" /\ SubmitHeaders(call.id)
         \/ call.op = "data" /\ SubmitData(call.id)
         \/ call.op = "end" /\ End(call.id)
  BY DEF FlushReturns
<1> SUFFICES ASSUME failures = 0, NothingHeldBack, BodiesAreTaken
             PROVE  NothingHeldBack' /\ BodiesAreTaken'
  BY <1>1 DEF SentInv
<1>2. ASSUME NEW id \in StreamIds
      PROVE  /\ outq'[id] = <<>> /\ Unread(bodies'[id]) = <<>>
             /\ wire'[id] \o Filled(id)' = submitted'[id]
  <2>1. outq[id] = <<>> /\ Unread(bodies[id]) = <<>>
    BY <1>1, NothingFilled DEF NothingHeldBack
  <2>2. Filled(id)' = <<>>
    <3>1. Filled(id)' = <<>> \o <<>> /\ <<>> \in Seq(OutItems)
      BY <1>1, <2>1 DEF Filled
    <3> QED
      BY <3>1, ConcatEmptySeq
  <2>3. wire[id] \o <<>> = submitted[id]
    BY <1>1 DEF NothingHeldBack
  <2> QED
    BY <1>1, <2>1, <2>2, <2>3
<1>3. NothingHeldBack'
  BY <1>1, <1>2 DEF NothingHeldBack
<1>4. ASSUME NEW s \in headersSubmitted' \ closed'
      PROVE  h3Out[s] = "headers" /\ ~bodies[s].eof
  <2>1. CASE call.op = "headers" /\ SubmitHeaders(call.id)
    <3>1. closed' = closed /\ headersSubmitted' = headersSubmitted \cup {call.id}
      BY <2>1 DEF SubmitHeaders
    <3>2. CASE s = call.id
      BY <2>1, <3>2 DEF BodiesAreTaken, OutgoingInv, OutgoingOK
    <3>3. CASE s # call.id
      BY <2>1, <3>1, <3>3 DEF BodiesAreTaken
    <3> QED
      BY <3>2, <3>3
  <2>2. CASE call.op = "data" /\ SubmitData(call.id)
    <3>1. UNCHANGED <<headersSubmitted, closed>>
      BY <2>2 DEF SubmitData, connectionVars, handleVars
    <3> QED
      BY <2>2, <3>1 DEF BodiesAreTaken
  <2>3. CASE call.op = "end" /\ End(call.id)
    <3>1. closed' = closed \cup {call.id} /\ headersSubmitted' = headersSubmitted
      BY <2>3 DEF End
    <3> QED
      BY <2>3, <3>1 DEF BodiesAreTaken
  <2> QED
    BY <1>1, <2>1, <2>2, <2>3
<1>5. BodiesAreTaken'
  BY <1>1, <1>4 DEF BodiesAreTaken, NoCall
<1> QED
  BY <1>3, <1>5

-----------------------------------------------------------------------------
(* The theorems *)

\* A step of the program is a method that submits, a flush loop, or neither.
LEMMA StepKinds ==
  ASSUME NativeInv, OutgoingInv, NativeNext
  PROVE  \/ PassiveStep
         \/ \E id \in StreamIds :
               \/ BeginHeaders(id)
               \/ \E piece \in {<<>>} \cup {<<chunk>> : chunk \in BodyPieces} : BeginData(id, piece)
               \/ BeginEnd(id)
         \/ Flush
BY ArrivalPassive, ConnectionCallPassive, StreamCallPassive, PollPassive
   DEF NativeNext, NativeStreamCall

\* Both invariants hold of a new connection.
LEMMA SendInit == NativeInit => OutgoingInv /\ SentInv
<1> SUFFICES ASSUME NativeInit
             PROVE  OutgoingInv /\ SentInv
  OBVIOUS
<1>1. /\ \A id \in StreamIds : /\ outq[id] = <<>> /\ bodies[id] = NewBody
                               /\ h3Out[id] = "nothing"
                               /\ wire[id] = <<>> /\ submitted[id] = <<>>
      /\ asks = {} /\ call = NoCall /\ hungUp = {} /\ headersSubmitted = {}
  BY DEF NativeInit, Init, ConnectionInit
<1>2. OutgoingInv
  BY <1>1, NewBodyIsEmpty, EmptySeq DEF OutgoingInv, OutgoingOK
<1>3. ASSUME NEW id \in StreamIds
      PROVE  wire[id] \o Filled(id) = submitted[id]
  <2>1. Filled(id) = <<>> \o <<>> /\ <<>> \in Seq(OutItems)
    BY <1>1 DEF Filled
  <2> QED
    BY <1>1, <2>1, ConcatEmptySeq
<1>4. NothingHeldBack
  BY <1>1, <1>3, NewBodyIsEmpty DEF NothingHeldBack
<1>5. BodiesAreTaken
  BY <1>1 DEF BodiesAreTaken, NoCall
<1> QED
  BY <1>2, <1>4, <1>5 DEF SentInv

\* Both are inductive.
LEMMA SendStep ==
  ASSUME NativeInv, NativeInv', OutgoingInv, SentInv, [NativeNext]_allVars
  PROVE  OutgoingInv' /\ SentInv'
<1>1. CASE PassiveStep
  BY <1>1, PassiveKeepsOutgoing, PassiveKeepsSent
<1>2. ASSUME NEW id \in StreamIds, BeginHeaders(id)
      PROVE  OutgoingInv' /\ SentInv'
  BY <1>2, BeginHeadersOutgoing, BeginHeadersSent
<1>3. ASSUME NEW id \in StreamIds,
             NEW piece \in {<<>>} \cup {<<chunk>> : chunk \in BodyPieces}, BeginData(id, piece)
      PROVE  OutgoingInv' /\ SentInv'
  <2>1. /\ SubmitData(id) /\ bodies' = [bodies EXCEPT ![id] = Appended(bodies[id], piece)]
        /\ outq' = outq \/ outq' = [outq EXCEPT ![id] = Spoiled(@)]
        /\ asks' = Resumed(id) /\ UNCHANGED <<sendFrame, hungUp, h3Stream, h3Out>>
    BY <1>3 DEF BeginData
  <2>2. OutgoingInv'
    BY <2>1, BeginBodyOutgoing
  <2> QED
    BY <1>3, <2>2, BeginDataSent
<1>4. ASSUME NEW id \in StreamIds, BeginEnd(id)
      PROVE  OutgoingInv' /\ SentInv'
  <2>1. /\ SubmitData(id) /\ bodies' = [bodies EXCEPT ![id] = Finished(bodies[id])]
        /\ outq' = outq
        /\ asks' = Resumed(id) /\ UNCHANGED <<sendFrame, hungUp, h3Stream, h3Out>>
    BY <1>4 DEF BeginEnd
  <2>2. OutgoingInv'
    BY <2>1, BeginBodyOutgoing
  <2> QED
    BY <1>4, <2>2, BeginEndSent
<1>5. CASE Flush
  <2>1. OutgoingInv'
    BY <1>5, FlushKeepsOutgoing
  <2>2. ASSUME NEW id \in StreamIds, FlushThrows(id)
        PROVE  SentInv'
    <3>1. failures' # 0
      BY <2>2, InvParts DEF FlushThrows, QuicTypeOK
    <3> QED
      BY <3>1 DEF SentInv
  <2> QED
    BY <1>5, <2>1, <2>2, FlushWriteSent, FlushReturnsSent DEF Flush
<1>6. CASE UNCHANGED allVars
  <2>1. UNCHANGED <<connectionVars, failures, hungUp>> /\ UNCHANGED nativeVars
    BY <1>6 DEF allVars, vars
  <2>2. UNCHANGED <<headersSubmitted, terminal, closed>>
    BY <2>1 DEF connectionVars, streamStateVars, handleVars
  <2>3. /\ UNCHANGED <<call, wire, submitted>>
        /\ UNCHANGED <<outq, asks, h3Out, h3Stream, bodies>>
    BY <2>1 DEF nativeVars, h3Vars
  <2>4. OutgoingInv'
    BY <2>1, <2>2, <2>3 DEF OutgoingInv, OutgoingOK, HungUpOK
  <2>5. NothingHeldBack => NothingHeldBack'
    BY <2>3 DEF NothingHeldBack, Filled
  <2>6. BodiesAreTaken => BodiesAreTaken'
    BY <2>2, <2>3 DEF BodiesAreTaken
  <2> QED
    BY <2>1, <2>4, <2>5, <2>6 DEF SentInv
<1> QED
  BY <1>1, <1>2, <1>3, <1>4, <1>5, <1>6, StepKinds

\* How far nghttp3 is with each message, and what it holds of it, stay in agreement.
THEOREM SendInvariance == NativeSpec => [](NativeInv /\ OutgoingInv /\ SentInv)
<1>1. NativeInv /\ [NativeNext]_allVars => NativeInv'
  BY NativeStepInv
<1>2. NativeInv /\ NativeInv' /\ OutgoingInv /\ SentInv /\ [NativeNext]_allVars
      => OutgoingInv' /\ SentInv'
  BY SendStep
<1> QED
  BY <1>1, <1>2, NativeInitInv, SendInit, PTL DEF NativeSpec

\* While no call throws, all that submitHeaders(), submitData() and end() were given
\* for a stream is on its QUIC stream when they return, in order and once, however
\* the flush loops split it and whatever the polls in between do to other streams.
THEOREM NativeSentInFull == NativeSpec => []SentInFull
<1>1. NativeInv /\ SentInv => SentInFull
  <2> SUFFICES ASSUME NativeInv, SentInv, failures = 0, call = NoCall, NEW id \in StreamIds
               PROVE  wire[id] = submitted[id]
    BY DEF SentInFull
  <2>1. NothingHeldBack
    BY DEF SentInv
  <2> QED
    BY <2>1, NothingHeld
<1> QED
  BY <1>1, SendInvariance, PTL

\* After end() or reset() of a QUIC stream no flush loop writes to it, not even what
\* an earlier loop that threw left behind, and no method gives nghttp3 more for it.
THEOREM NativeHungUpIsSilent == NativeSpec => HungUpIsSilent
<1>1. NativeInv /\ OutgoingInv /\ [NativeNext]_allVars
      => [\A id \in hungUp : wire'[id] = wire[id]]_allVars
  <2> SUFFICES ASSUME NativeInv, OutgoingInv, NativeNext, NEW id \in hungUp
               PROVE  wire'[id] = wire[id]
    OBVIOUS
  <2>1. id \in StreamIds
    BY InvParts DEF QuicTypeOK
  <2>2. Filled(id) = <<>>
    <3>1. id \notin asks /\ outq[id] = <<>>
      BY <2>1 DEF OutgoingInv, OutgoingOK, HungUpOK
    <3> QED
      BY <2>1, <3>1, FilledParts
  <2>3. CASE PassiveStep \/ FlushReturns
    BY <2>3 DEF PassiveStep, FlushReturns
  <2>4. ASSUME NEW s \in StreamIds, FlushWrite(s) \/ FlushThrows(s)
        PROVE  wire'[id] = wire[id]
    <3>1. Filled(s) # <<>>
      <4>1. CASE FlushWrite(s)
        <5>1. 1..Len(Filled(s)) # {}
          BY <4>1 DEF FlushWrite
        <5> QED
          BY <5>1, EmptySeq
      <4>2. CASE FlushThrows(s)
        BY <4>2 DEF FlushThrows
      <4> QED
        BY <2>4, <4>1, <4>2
    <3>2. wire' = wire \/ \E items : wire' = [wire EXCEPT ![s] = @ \o items]
      BY <2>4 DEF FlushWrite, FlushThrows, WriteQuicStream
    <3> QED
      BY <2>1, <2>2, <3>1, <3>2, InvParts DEF H3TypeOK
  <2> QED
    BY <2>3, <2>4, StepKinds DEF BeginHeaders, BeginData, BeginEnd, Flush
<1> QED
  BY <1>1, SendInvariance, PTL DEF NativeSpec, HungUpIsSilent
=============================================================================
