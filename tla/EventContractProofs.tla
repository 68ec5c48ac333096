------------------------- MODULE EventContractProofs -------------------------
(***************************************************************************)
(* The event contracts keep their promises: every log EventContract allows *)
(* is in stream order, headers first, with one GOAWAY at most, and one of  *)
(* NativeContract but for the headers of a stream that completes without.  *)
(*                                                                         *)
(* The three properties speak of the whole log, a step only looks at       *)
(* phase and goneAway; LogMatchesPhase relates the two and makes the       *)
(* invariant inductive.                                                    *)
(***************************************************************************)
EXTENDS NativeContract, SequenceTheorems, TLAPS

\* What phase and goneAway remember of the log.
LogMatchesPhase ==
    \A i \in 1..Len(log) :
        /\ log[i].type # "GoawayReceived" =>
              /\ log[i].streamId \in StreamIds
              /\ phase[log[i].streamId] # "idle"
        /\ log[i].type \in TerminalTypes => phase[log[i].streamId] = "ended"
        /\ log[i].type = "GoawayReceived" =>
              /\ log[i].streamId = NoStream
              /\ goneAway

\* A stream that is open has had its headers.
OpenHasHeaders ==
    \A id \in StreamIds :
        phase[id] = "open" =>
            \E i \in 1..Len(log) :
                log[i].type = "HeadersReceived" /\ log[i].streamId = id

\* The headers of a stream precede its events of the given types.
AfterHeaders(types) ==
    \A j \in 1..Len(log) :
        log[j].type \in types
        => \E i \in 1..Len(log) :
              /\ i < j
              /\ log[i].type = "HeadersReceived"
              /\ log[i].streamId = log[j].streamId

\* The invariant, for a contract in which these types need headers.
OrderInv(types) ==
    /\ ContractTypeOK
    /\ LogMatchesPhase
    /\ OpenHasHeaders
    /\ StreamOrder
    /\ AfterHeaders(types)
    /\ GoawayOnce

BodyTypes == {"DataReceived", "RequestCompleted"}

-----------------------------------------------------------------------------

\* A payload is a sequence of chunks.
LEMMA PayloadIsSeq ==
  ASSUME NEW data \in Payloads
  PROVE  data \in Seq(Chunks)
BY DEF Payloads

\* An empty body is a payload.
LEMMA EmptyPayload == <<>> \in Payloads
<1>1. <<>> \in [1..0 -> Chunks]
  OBVIOUS
<1>2. QED  BY <1>1, MaxPayloadAssumption DEF Payloads

-----------------------------------------------------------------------------

\* Where an event of an extended log comes from.
LEMMA ExtendedLog ==
  ASSUME NEW S, NEW old \in Seq(S), NEW burst \in Seq(S), NEW new, new = old \o burst
  PROVE  /\ new \in Seq(S)
         /\ Len(new) = Len(old) + Len(burst)
         /\ \A i \in 1..Len(old) : i \in 1..Len(new) /\ new[i] = old[i]
         /\ \A k \in 1..Len(burst) :
               Len(old) + k \in 1..Len(new) /\ new[Len(old) + k] = burst[k]
         /\ \A i \in 1..Len(new) :
               \/ i \in 1..Len(old) /\ new[i] = old[i]
               \/ /\ i > Len(old)
                  /\ i - Len(old) \in 1..Len(burst)
                  /\ new[i] = burst[i - Len(old)]
<1>1. Len(old) \in Nat /\ Len(burst) \in Nat
  OBVIOUS
<1>2. QED  BY <1>1, ConcatProperties

\* The events of one signal: all of one stream, headers first and only when
\* the stream is idle, a terminal event last and only with a fin.
LEMMA BurstShape ==
  ASSUME NEW id \in StreamIds, NEW data \in Payloads, NEW fin \in BOOLEAN
  PROVE  LET burst == ReadableEvents(id, phase[id] = "idle", data, fin)
         IN  /\ burst \in Seq(Event)
             /\ \A k \in 1..Len(burst) :
                   /\ burst[k].streamId = id
                   /\ burst[k].type # "GoawayReceived"
                   /\ burst[k].type = "HeadersReceived" <=> phase[id] = "idle" /\ k = 1
                   /\ burst[k].type \in TerminalTypes => fin /\ k = Len(burst)
             /\ phase[id] = "idle" => Len(burst) > 0
<1> DEFINE burst == ReadableEvents(id, phase[id] = "idle", data, fin)
           h == HeadersReceived(id)
           d == DataReceived(id, data)
           c == RequestCompleted(id)
           hs == IF phase[id] = "idle" THEN <<h>> ELSE <<>>
           ds == IF data # <<>> THEN <<d>> ELSE <<>>
           cs == IF fin THEN <<c>> ELSE <<>>
<1>1. h \in Event /\ d \in Event /\ c \in Event
  BY ErrorCodesAssumption, EmptyPayload
     DEF Event, EventTypes, HeadersReceived, DataReceived, RequestCompleted
<1>2. /\ h.streamId = id /\ h.type = "HeadersReceived"
      /\ d.streamId = id /\ d.type = "DataReceived"
      /\ c.streamId = id /\ c.type = "RequestCompleted"
  BY DEF HeadersReceived, DataReceived, RequestCompleted
<1> HIDE DEF h, d, c
<1>3. burst = (hs \o ds) \o cs
  BY DEF ReadableEvents, When, h, d, c
<1> HIDE DEF burst
<1>4. /\ hs \in Seq(Event) /\ ds \in Seq(Event) /\ cs \in Seq(Event)
      /\ Len(hs) \in 0..1 /\ Len(ds) \in 0..1 /\ Len(cs) \in 0..1
      /\ Len(hs) = 1 <=> phase[id] = "idle"
      /\ Len(cs) = 1 => fin
      /\ \A k \in 1..Len(hs) : hs[k] = h
      /\ \A k \in 1..Len(ds) : ds[k] = d
      /\ \A k \in 1..Len(cs) : cs[k] = c
  <2>1. hs = IF phase[id] = "idle" THEN <<h>> ELSE <<>>
    OBVIOUS
  <2>2. ds = IF data # <<>> THEN <<d>> ELSE <<>>
    OBVIOUS
  <2>3. cs = IF fin THEN <<c>> ELSE <<>>
    OBVIOUS
  <2> HIDE DEF hs, ds, cs
  <2>4. \A e \in Event : <<e>> \in Seq(Event) /\ Len(<<e>>) = 1 /\ <<e>>[1] = e
    OBVIOUS
  <2>5. <<>> \in Seq(Event) /\ Len(<<>>) = 0
    OBVIOUS
  <2>6. hs \in Seq(Event) /\ Len(hs) \in 0..1 /\ (Len(hs) = 1 <=> phase[id] = "idle")
        /\ \A k \in 1..Len(hs) : hs[k] = h
    BY <1>1, <2>1, <2>4, <2>5
  <2>7. ds \in Seq(Event) /\ Len(ds) \in 0..1 /\ \A k \in 1..Len(ds) : ds[k] = d
    BY <1>1, <2>2, <2>4, <2>5
  <2>8. cs \in Seq(Event) /\ Len(cs) \in 0..1 /\ (Len(cs) = 1 => fin)
        /\ \A k \in 1..Len(cs) : cs[k] = c
    BY <1>1, <2>3, <2>4, <2>5
  <2>9. QED  BY <2>6, <2>7, <2>8
<1> HIDE DEF hs, ds, cs
<1>5. /\ burst \in Seq(Event)
      /\ Len(burst) = Len(hs) + Len(ds) + Len(cs)
      /\ \A k \in 1..Len(hs) : burst[k] = hs[k]
      /\ \A k \in 1..Len(burst) :
            \/ k \in 1..Len(hs) /\ burst[k] = hs[k]
            \/ k - Len(hs) \in 1..Len(ds) /\ burst[k] = ds[k - Len(hs)]
            \/ k - Len(hs) - Len(ds) \in 1..Len(cs) /\ burst[k] = cs[k - Len(hs) - Len(ds)]
  <2>1. hs \in Seq(Event) /\ ds \in Seq(Event) /\ cs \in Seq(Event)
    BY <1>4
  <2> DEFINE front == hs \o ds
  <2>2. /\ front \in Seq(Event)
        /\ Len(front) = Len(hs) + Len(ds)
        /\ \A k \in 1..Len(hs) : k \in 1..Len(front) /\ front[k] = hs[k]
        /\ \A k \in 1..Len(front) :
              \/ k \in 1..Len(hs) /\ front[k] = hs[k]
              \/ k - Len(hs) \in 1..Len(ds) /\ front[k] = ds[k - Len(hs)]
    BY <2>1, ExtendedLog
  <2>3. burst = front \o cs /\ front \in Seq(Event)
    BY <1>3, <2>2
  <2> HIDE DEF front
  <2>4. /\ burst \in Seq(Event)
        /\ Len(burst) = Len(front) + Len(cs)
        /\ \A k \in 1..Len(front) : burst[k] = front[k]
        /\ \A k \in 1..Len(burst) :
              \/ k \in 1..Len(front) /\ burst[k] = front[k]
              \/ k - Len(front) \in 1..Len(cs) /\ burst[k] = cs[k - Len(front)]
    BY <2>1, <2>3, ExtendedLog
  <2>5. Len(hs) \in Nat /\ Len(ds) \in Nat /\ Len(cs) \in Nat
    BY <2>1
  <2>6. QED  BY <2>2, <2>4, <2>5
<1>6. /\ Len(hs) \in Nat /\ Len(ds) \in Nat /\ Len(cs) \in Nat
      /\ Len(hs) = 1 => phase[id] = "idle"
      /\ phase[id] = "idle" => Len(hs) = 1 /\ 1 \in 1..Len(hs) /\ hs[1] = h
  <2>1. Len(hs) \in Nat /\ Len(ds) \in Nat /\ Len(cs) \in Nat
    BY <1>4
  <2>2. Len(hs) = 1 => phase[id] = "idle"
    BY <1>4
  <2>3. phase[id] = "idle" => Len(hs) = 1 /\ 1 \in 1..Len(hs) /\ hs[1] = h
    BY <1>4
  <2>4. QED  BY <2>1, <2>2, <2>3
<1>7. phase[id] = "idle" => Len(burst) > 0 /\ burst[1] = h
  BY <1>5, <1>6
<1>8. ASSUME NEW k \in 1..Len(burst)
      PROVE  \/ k = 1 /\ phase[id] = "idle" /\ burst[k] = h
             \/ burst[k] = d
             \/ k = Len(burst) /\ fin /\ burst[k] = c
  <2>1. CASE k \in 1..Len(hs)
    BY <1>4, <1>5, <1>6, <2>1
  <2>2. CASE k - Len(hs) \in 1..Len(ds) /\ burst[k] = ds[k - Len(hs)]
    BY <1>4, <2>2
  <2>3. CASE /\ k - Len(hs) - Len(ds) \in 1..Len(cs)
             /\ burst[k] = cs[k - Len(hs) - Len(ds)]
    BY <1>4, <1>5, <1>6, <2>3
  <2>4. QED  BY <1>5, <2>1, <2>2, <2>3
<1>9. ASSUME NEW k \in 1..Len(burst)
      PROVE  /\ burst[k].streamId = id
             /\ burst[k].type # "GoawayReceived"
             /\ burst[k].type = "HeadersReceived" <=> phase[id] = "idle" /\ k = 1
             /\ burst[k].type \in TerminalTypes => fin /\ k = Len(burst)
  BY <1>2, <1>7, <1>8 DEF TerminalTypes
<1>10. QED  BY <1>5, <1>7, <1>9 DEF burst

\* A burst of one stream that is not over keeps the contract's invariant,
\* when it starts an idle stream with its headers and ends the stream if it
\* holds a terminal event.
LEMMA StreamBurst ==
  ASSUME NEW T \in SUBSET BodyTypes, OrderInv(T),
         NEW id \in StreamIds, phase[id] # "ended",
         NEW burst \in Seq(Event), log' = log \o burst,
         NEW p \in {"open", "ended"}, phase' = [phase EXCEPT ![id] = p],
         goneAway' = goneAway,
         \A k \in 1..Len(burst) :
            /\ burst[k].streamId = id
            /\ burst[k].type # "GoawayReceived"
            /\ burst[k].type = "HeadersReceived" => phase[id] = "idle" /\ k = 1
            /\ burst[k].type \in TerminalTypes => p = "ended" /\ k = Len(burst)
            /\ burst[k].type \in T /\ phase[id] = "idle"
                  => burst[1].type = "HeadersReceived",
         p = "open" /\ phase[id] = "idle" =>
            1 \in 1..Len(burst) /\ burst[1].type = "HeadersReceived"
  PROVE  OrderInv(T)'
<1> DEFINE n == Len(log)
           FromOld(i) == i \in 1..n /\ log'[i] = log[i]
           FromNew(i) == i > n /\ i - n \in 1..Len(burst) /\ log'[i] = burst[i - n]
<1>1. log \in Seq(Event) /\ n \in Nat /\ Len(burst) \in Nat
  BY DEF OrderInv, ContractTypeOK
<1>2. /\ log' \in Seq(Event)
      /\ Len(log') \in Nat
      /\ \A i \in 1..n : i \in 1..Len(log') /\ log'[i] = log[i]
      /\ \A k \in 1..Len(burst) : n + k \in 1..Len(log') /\ log'[n + k] = burst[k]
      /\ \A i \in 1..Len(log') : FromOld(i) \/ FromNew(i)
  BY <1>1, ExtendedLog
<1>3. phase \in [StreamIds -> {"idle", "open", "ended"}]
  BY DEF OrderInv, ContractTypeOK
<1>4. /\ phase'[id] = p
      /\ \A s \in StreamIds \ {id} : phase'[s] = phase[s]
  BY <1>3
<1>5. ContractTypeOK'
  BY <1>2, <1>3 DEF OrderInv, ContractTypeOK
<1>6. LogMatchesPhase'
  <2> SUFFICES ASSUME NEW i \in 1..Len(log')
               PROVE  /\ log'[i].type # "GoawayReceived" =>
                            /\ log'[i].streamId \in StreamIds
                            /\ phase'[log'[i].streamId] # "idle"
                      /\ log'[i].type \in TerminalTypes => phase'[log'[i].streamId] = "ended"
                      /\ log'[i].type = "GoawayReceived" =>
                            /\ log'[i].streamId = NoStream
                            /\ goneAway'
    BY DEF LogMatchesPhase
  <2>1. CASE FromOld(i)
    BY <1>4, <2>1 DEF OrderInv, LogMatchesPhase, TerminalTypes
  <2>2. CASE FromNew(i)
    BY <1>4, <2>2
  <2>3. QED  BY <1>2, <2>1, <2>2
<1>7. OpenHasHeaders'
  <2> SUFFICES ASSUME NEW s \in StreamIds, phase'[s] = "open"
               PROVE  \E i \in 1..Len(log') :
                         log'[i].type = "HeadersReceived" /\ log'[i].streamId = s
    BY DEF OpenHasHeaders
  <2>1. CASE phase[s] = "open"
    <3>1. PICK i \in 1..n : log[i].type = "HeadersReceived" /\ log[i].streamId = s
      BY <2>1 DEF OrderInv, OpenHasHeaders
    <3>2. QED  BY <1>2, <3>1
  <2>2. CASE phase[s] # "open"
    <3>1. s = id /\ p = "open" /\ phase[id] = "idle"
      BY <1>3, <1>4, <2>2
    <3>2. 1 \in 1..Len(burst) /\ burst[1].type = "HeadersReceived" /\ burst[1].streamId = s
      BY <3>1
    <3>3. QED  BY <1>2, <3>2
  <2>3. QED  BY <2>1, <2>2
<1>8. StreamOrder'
  <2> SUFFICES ASSUME NEW i \in 1..Len(log'), NEW j \in 1..Len(log'), i < j,
                      log'[i].streamId = log'[j].streamId,
                      log'[i].streamId # NoStream
               PROVE  /\ log'[i].type \notin TerminalTypes
                      /\ log'[j].type # "HeadersReceived"
    BY DEF StreamOrder
  <2>1. CASE FromOld(i) /\ FromOld(j)
    BY <2>1 DEF OrderInv, StreamOrder
  <2>2. CASE FromOld(i) /\ FromNew(j)
    <3>1. log[i].streamId = id
      BY <2>2
    <3>2. phase[id] # "idle" /\ log[i].type \notin TerminalTypes
      BY <2>2, <3>1 DEF OrderInv, LogMatchesPhase
    <3>3. QED  BY <2>2, <3>2
  <2>3. CASE FromNew(i) /\ FromNew(j)
    BY <1>1, <2>3
  <2>4. CASE FromNew(i) /\ FromOld(j)
    BY <1>1, <2>4
  <2>5. QED  BY <1>2, <2>1, <2>2, <2>3, <2>4
<1>9. AfterHeaders(T)'
  <2> SUFFICES ASSUME NEW j \in 1..Len(log'),
                      log'[j].type \in T
               PROVE  \E i \in 1..Len(log') :
                         /\ i < j
                         /\ log'[i].type = "HeadersReceived"
                         /\ log'[i].streamId = log'[j].streamId
    BY DEF AfterHeaders
  <2>1. CASE FromOld(j)
    <3>1. PICK i \in 1..n : /\ i < j
                            /\ log[i].type = "HeadersReceived"
                            /\ log[i].streamId = log[j].streamId
      BY <2>1 DEF OrderInv, AfterHeaders
    <3>2. QED  BY <1>2, <2>1, <3>1
  <2>2. CASE FromNew(j) /\ phase[id] = "idle"
    <3>1. burst[1].type = "HeadersReceived" /\ 1 \in 1..Len(burst) /\ burst[1].streamId = id
      BY <1>1, <2>2
    <3>2. n + 1 \in 1..Len(log') /\ log'[n + 1] = burst[1]
      BY <1>2, <3>1
    <3>3. n + 1 < j
      <4>1. log'[j].type # "HeadersReceived"
        BY DEF BodyTypes
      <4>2. j # n + 1
        BY <3>1, <3>2, <4>1
      <4>3. QED  BY <1>1, <2>2, <4>2
    <3>4. QED  BY <2>2, <3>1, <3>2, <3>3
  <2>3. CASE FromNew(j) /\ phase[id] = "open"
    <3>1. PICK i \in 1..n : log[i].type = "HeadersReceived" /\ log[i].streamId = id
      BY <2>3 DEF OrderInv, OpenHasHeaders
    <3>2. i \in 1..Len(log') /\ log'[i] = log[i] /\ i < j
      BY <1>1, <1>2, <2>3, <3>1
    <3>3. log'[j].streamId = id
      BY <2>3
    <3>4. QED  BY <3>1, <3>2, <3>3
  <2>4. QED  BY <1>2, <1>3, <2>1, <2>2, <2>3
<1>10. GoawayOnce'
  <2> SUFFICES ASSUME NEW i \in 1..Len(log'), NEW j \in 1..Len(log'),
                      log'[i].type = "GoawayReceived", log'[j].type = "GoawayReceived"
               PROVE  i = j
    BY DEF GoawayOnce
  <2>1. ~FromNew(i) /\ ~FromNew(j)
    OBVIOUS
  <2>2. FromOld(i) /\ FromOld(j)
    BY <1>2, <2>1
  <2>3. QED  BY <2>2 DEF OrderInv, GoawayOnce
<1>11. QED  BY <1>5, <1>6, <1>7, <1>8, <1>9, <1>10 DEF OrderInv

\* A readable signal's events keep the contract's invariant.
LEMMA ReceiveKeepsInv ==
  ASSUME NEW T \in SUBSET BodyTypes, OrderInv(T),
         NEW id \in StreamIds, NEW data \in Payloads, NEW fin \in BOOLEAN,
         Receive(id, data, fin)
  PROVE  OrderInv(T)'
<1> DEFINE burst == ReadableEvents(id, phase[id] = "idle", data, fin)
           p == IF fin THEN "ended" ELSE "open"
<1>1. /\ burst \in Seq(Event)
      /\ \A k \in 1..Len(burst) :
            /\ burst[k].streamId = id
            /\ burst[k].type # "GoawayReceived"
            /\ burst[k].type = "HeadersReceived" <=> phase[id] = "idle" /\ k = 1
            /\ burst[k].type \in TerminalTypes => fin /\ k = Len(burst)
      /\ phase[id] = "idle" => Len(burst) > 0
  BY BurstShape
<1> HIDE DEF burst
<1>2. p = "open" /\ phase[id] = "idle" => 1 \in 1..Len(burst) /\ burst[1].type = "HeadersReceived"
  <2>1. Len(burst) \in Nat
    BY <1>1
  <2>2. QED  BY <1>1, <2>1
<1>3. /\ phase[id] # "ended"
      /\ log' = log \o burst
      /\ phase' = [phase EXCEPT ![id] = p]
      /\ goneAway' = goneAway
  BY DEF Receive, burst
<1>4. \A k \in 1..Len(burst) :
         /\ burst[k].streamId = id
         /\ burst[k].type # "GoawayReceived"
         /\ burst[k].type = "HeadersReceived" => phase[id] = "idle" /\ k = 1
         /\ burst[k].type \in TerminalTypes => p = "ended" /\ k = Len(burst)
         /\ burst[k].type \in T /\ phase[id] = "idle"
               => burst[1].type = "HeadersReceived"
  BY <1>1
<1>5. p \in {"open", "ended"}
  OBVIOUS
<1> HIDE DEF p
<1>6. QED  BY <1>1, <1>2, <1>3, <1>4, <1>5, StreamBurst, Zenon

\* So does the StreamReset event of a reset signal.
LEMMA AbandonKeepsInv ==
  ASSUME NEW T \in SUBSET BodyTypes, OrderInv(T),
         NEW id \in StreamIds, NEW code \in ErrorCodes, Abandon(id, code)
  PROVE  OrderInv(T)'
<1> DEFINE e == StreamReset(id, code)
<1>1. /\ e \in Event
      /\ e.streamId = id
      /\ e.type = "StreamReset"
  BY EmptyPayload DEF StreamReset, Event, EventTypes
<1> HIDE DEF e
<1>2. log' = log \o <<e>> /\ <<e>> \in Seq(Event) /\ Len(<<e>>) = 1 /\ <<e>>[1] = e
  <2>1. log \in Seq(Event)
    BY DEF OrderInv, ContractTypeOK
  <2>2. QED  BY <1>1, <2>1, AppendIsConcat DEF Abandon, e
<1>3. /\ phase[id] # "ended"
      /\ phase' = [phase EXCEPT ![id] = "ended"]
      /\ goneAway' = goneAway
  BY DEF Abandon
<1> DEFINE burst == <<e>>
<1>4. \A k \in 1..Len(burst) : k = 1 /\ k = Len(burst) /\ burst[k] = e
  BY <1>2
<1>5. burst \in Seq(Event) /\ log' = log \o burst
  BY <1>2
<1> HIDE DEF burst
<1>6. \A k \in 1..Len(burst) :
         /\ burst[k].streamId = id
         /\ burst[k].type # "GoawayReceived"
         /\ burst[k].type = "HeadersReceived" => phase[id] = "idle" /\ k = 1
         /\ burst[k].type \in TerminalTypes => "ended" = "ended" /\ k = Len(burst)
         /\ burst[k].type \in T /\ phase[id] = "idle"
               => burst[1].type = "HeadersReceived"
  <2>1. "StreamReset" \notin T
    BY DEF BodyTypes
  <2>2. QED  BY <1>1, <1>4, <2>1
<1>7. /\ "ended" \in {"open", "ended"}
      /\ "ended" = "open" /\ phase[id] = "idle" =>
            1 \in 1..Len(burst) /\ burst[1].type = "HeadersReceived"
  OBVIOUS
<1>8. QED  BY <1>3, <1>5, <1>6, <1>7, StreamBurst, Zenon

\* So does the one GoawayReceived of the first closing signal.
LEMMA GoAwayKeepsInv ==
  ASSUME NEW T \in SUBSET BodyTypes, OrderInv(T), NEW code \in ErrorCodes, GoAway(code)
  PROVE  OrderInv(T)'
<1> DEFINE e == GoawayReceived(code)
<1>1. /\ e \in Event
      /\ e.streamId = NoStream
      /\ e.type = "GoawayReceived"
  BY EmptyPayload DEF GoawayReceived, Event, EventTypes
<1> HIDE DEF e
<1>2. log \in Seq(Event) /\ log' = Append(log, e)
  BY DEF GoAway, e, OrderInv, ContractTypeOK
<1>3. /\ log' \in Seq(Event)
      /\ \A i \in 1..Len(log) : i \in 1..Len(log') /\ log'[i] = log[i]
      /\ \A i \in 1..Len(log') :
            \/ i \in 1..Len(log) /\ log'[i] = log[i]
            \/ i = Len(log) + 1 /\ log'[i] = e
  BY <1>1, <1>2
<1>4. phase' = phase /\ goneAway' = TRUE /\ ~goneAway
  BY DEF GoAway
<1>5. \A i \in 1..Len(log) : log[i].type # "GoawayReceived"
  BY <1>4 DEF OrderInv, LogMatchesPhase
<1>6. ContractTypeOK'
  BY <1>3, <1>4 DEF OrderInv, ContractTypeOK
<1>7. LogMatchesPhase'
  BY <1>1, <1>3, <1>4 DEF OrderInv, LogMatchesPhase, TerminalTypes
<1>8. OpenHasHeaders'
  BY <1>3, <1>4 DEF OrderInv, OpenHasHeaders
<1>9. StreamOrder'
  BY <1>1, <1>2, <1>3 DEF OrderInv, StreamOrder
<1>10. AfterHeaders(T)'
  <2> SUFFICES ASSUME NEW j \in 1..Len(log'),
                      log'[j].type \in T
               PROVE  \E i \in 1..Len(log') :
                         /\ i < j
                         /\ log'[i].type = "HeadersReceived"
                         /\ log'[i].streamId = log'[j].streamId
    BY DEF AfterHeaders
  <2>0. "GoawayReceived" \notin T
    BY DEF BodyTypes
  <2>1. j \in 1..Len(log) /\ log'[j] = log[j]
    BY <1>1, <1>3, <2>0
  <2>2. PICK i \in 1..Len(log) : /\ i < j
                                 /\ log[i].type = "HeadersReceived"
                                 /\ log[i].streamId = log[j].streamId
    BY <2>1 DEF OrderInv, AfterHeaders
  <2>3. QED  BY <1>3, <2>1, <2>2
<1>11. GoawayOnce'
  BY <1>3, <1>5 DEF GoawayOnce
<1>12. QED  BY <1>6, <1>7, <1>8, <1>9, <1>10, <1>11 DEF OrderInv

-----------------------------------------------------------------------------

\* A connection that has produced no event satisfies the contract's invariant.
LEMMA ContractInitInv ==
  ASSUME NEW T \in SUBSET BodyTypes
  PROVE  ContractInit => OrderInv(T)
<1> SUFFICES ASSUME ContractInit
             PROVE  OrderInv(T)
  OBVIOUS
<1>1. log = <<>> /\ Len(log) = 0 /\ \A i \in 1..Len(log) : FALSE
  BY DEF ContractInit
<1>2. ContractTypeOK
  <2>1. log \in Seq(Event)
    BY DEF ContractInit
  <2>2. phase \in [StreamIds -> {"idle", "open", "ended"}]
    BY DEF ContractInit
  <2>3. goneAway \in BOOLEAN
    BY DEF ContractInit
  <2>4. QED  BY <2>1, <2>2, <2>3 DEF ContractTypeOK
<1>3. LogMatchesPhase /\ StreamOrder /\ AfterHeaders(T) /\ GoawayOnce
  BY <1>1 DEF LogMatchesPhase, StreamOrder, AfterHeaders, GoawayOnce
<1>4. OpenHasHeaders
  BY DEF ContractInit, OpenHasHeaders
<1>5. QED  BY <1>2, <1>3, <1>4 DEF OrderInv

\* Every step the contract allows keeps its invariant.
LEMMA ContractStepInv ==
  ASSUME NEW T \in SUBSET BodyTypes
  PROVE  OrderInv(T) /\ [ContractNext]_contractVars => OrderInv(T)'
<1> SUFFICES ASSUME OrderInv(T), [ContractNext]_contractVars
             PROVE  OrderInv(T)'
  OBVIOUS
<1>1. CASE \E id \in StreamIds, data \in Payloads, fin \in BOOLEAN : Receive(id, data, fin)
  BY <1>1, ReceiveKeepsInv
<1>2. CASE \E id \in StreamIds, code \in ErrorCodes : Abandon(id, code)
  BY <1>2, AbandonKeepsInv
<1>3. CASE \E code \in ErrorCodes : GoAway(code)
  BY <1>3, GoAwayKeepsInv
<1>4. CASE CloseLocally
  BY <1>4 DEF CloseLocally, OrderInv, ContractTypeOK, LogMatchesPhase, OpenHasHeaders,
              StreamOrder, AfterHeaders, GoawayOnce
<1>5. CASE UNCHANGED contractVars
  BY <1>5 DEF contractVars, OrderInv, ContractTypeOK, LogMatchesPhase, OpenHasHeaders,
              StreamOrder, AfterHeaders, GoawayOnce
<1>6. QED  BY <1>1, <1>2, <1>3, <1>4, <1>5 DEF ContractNext

\* Whoever implements the contract delivers each stream's events in order,
\* headers first, one terminal event last, and one GOAWAY: the rules that
\* the consume functions of http3_connection.c are written for.
THEOREM ContractOrder ==
  ContractSpec => [](StreamOrder /\ HeadersFirst /\ GoawayOnce)
<1>1. OrderInv(BodyTypes) => StreamOrder /\ HeadersFirst /\ GoawayOnce
  BY DEF OrderInv, AfterHeaders, HeadersFirst, BodyTypes
<1>2. ContractInit => OrderInv(BodyTypes)
  BY ContractInitInv
<1>3. OrderInv(BodyTypes) /\ [ContractNext]_contractVars => OrderInv(BodyTypes)'
  BY ContractStepInv
<1>4. QED  BY <1>1, <1>2, <1>3, PTL DEF ContractSpec

\* A GOAWAY the application has been told of, or is about to be, closes the
\* connection to new requests: goneAway outlives the event that set it.
GoawayMeansGone ==
    (\E i \in 1..Len(log) : log[i].type = "GoawayReceived") => goneAway

\* Whoever implements the contract takes no request behind a GOAWAY, however
\* many polls ago it was delivered.
THEOREM ContractGone == ContractSpec => []GoawayMeansGone
<1>1. OrderInv(BodyTypes) => GoawayMeansGone
  BY DEF OrderInv, LogMatchesPhase, GoawayMeansGone
<1>2. ContractInit => OrderInv(BodyTypes)
  BY ContractInitInv
<1>3. OrderInv(BodyTypes) /\ [ContractNext]_contractVars => OrderInv(BodyTypes)'
  BY ContractStepInv
<1>4. QED  BY <1>1, <1>2, <1>3, PTL DEF ContractSpec

-----------------------------------------------------------------------------
(* The contract over nghttp3.  A stream that completes without headers breaks  *)
(* no other promise: the invariant holds when only the data of a stream has to *)
(* come after its headers.                                                     *)

\* The completion of a stream with no other event keeps the invariant.
LEMMA UnheardKeepsInv ==
  ASSUME OrderInv({"DataReceived"}), NEW id \in StreamIds, CompleteUnheard(id)
  PROVE  OrderInv({"DataReceived"})'
<1> DEFINE e == RequestCompleted(id)
           T == {"DataReceived"}
           burst == <<e>>
<1>1. /\ e \in Event
      /\ e.streamId = id
      /\ e.type = "RequestCompleted"
  BY ErrorCodesAssumption, EmptyPayload DEF RequestCompleted, Event, EventTypes
<1>2. log \in Seq(Event) /\ log' = Append(log, e)
  BY DEF OrderInv, ContractTypeOK, CompleteUnheard
<1>3. phase[id] # "ended" /\ phase' = [phase EXCEPT ![id] = "ended"] /\ goneAway' = goneAway
  BY DEF CompleteUnheard
<1> HIDE DEF e
<1>4. burst \in Seq(Event) /\ log' = log \o burst
  BY <1>1, <1>2, AppendIsConcat
<1>5. \A k \in 1..Len(burst) : k = 1 /\ k = Len(burst) /\ burst[k] = e
  OBVIOUS
<1> HIDE DEF burst
<1>6. T \in SUBSET BodyTypes /\ "RequestCompleted" \notin T
  BY DEF BodyTypes
<1>7. OrderInv(T)
  OBVIOUS
<1> HIDE DEF T
<1>8. \A k \in 1..Len(burst) :
         /\ burst[k].streamId = id
         /\ burst[k].type # "GoawayReceived"
         /\ burst[k].type = "HeadersReceived" => phase[id] = "idle" /\ k = 1
         /\ burst[k].type \in TerminalTypes => "ended" = "ended" /\ k = Len(burst)
         /\ burst[k].type \in T /\ phase[id] = "idle"
               => burst[1].type = "HeadersReceived"
  BY <1>1, <1>5, <1>6
<1>9. /\ "ended" \in {"open", "ended"}
      /\ "ended" = "open" /\ phase[id] = "idle" =>
            1 \in 1..Len(burst) /\ burst[1].type = "HeadersReceived"
  OBVIOUS
<1>10. OrderInv(T)'
  BY <1>3, <1>4, <1>6, <1>7, <1>8, <1>9, StreamBurst, Zenon
<1>11. QED  BY <1>10 DEF T

\* Whoever implements the native contract ends each stream once, after
\* everything else, and delivers no data before the stream's headers: what is
\* left of the contract when php_http3_h3_stream_close_cb may complete a stream
\* that never had any.
THEOREM NativeContractOrder ==
  NativeContractSpec => [](StreamOrder /\ DataAfterHeaders /\ GoawayOnce)
<1> DEFINE T == {"DataReceived"}
<1>1. OrderInv(T) => StreamOrder /\ DataAfterHeaders /\ GoawayOnce
  BY DEF OrderInv, AfterHeaders, DataAfterHeaders
<1>2. T \in SUBSET BodyTypes
  BY DEF BodyTypes
<1>3. ContractInit => OrderInv(T)
  BY <1>2, ContractInitInv
<1>4. OrderInv(T) /\ [NativeContractNext]_contractVars => OrderInv(T)'
  <2> SUFFICES ASSUME OrderInv(T), [NativeContractNext]_contractVars
               PROVE  OrderInv(T)'
    OBVIOUS
  <2>1. CASE [ContractNext]_contractVars
    BY <1>2, <2>1, ContractStepInv
  <2>2. CASE \E id \in StreamIds : CompleteUnheard(id)
    BY <2>2, UnheardKeepsInv
  <2>3. QED  BY <2>1, <2>2 DEF NativeContractNext
<1> HIDE DEF T
<1>5. QED  BY <1>1, <1>3, <1>4, PTL DEF NativeContractSpec
=============================================================================
