------------------------ MODULE ControlStreamsProofs ------------------------
(***************************************************************************)
(* Theorems of ControlStreams, for every set of streams and any number of  *)
(* failing calls.                                                          *)
(***************************************************************************)
EXTENDS ControlStreams, Http3ConnectionProofs, FiniteSetTheorems

-----------------------------------------------------------------------------
(* The inductive invariant *)

\* The ids of a list are different and those of streams QUIC has opened, or they
\* are the defaults.
Suits(ids) ==
    /\ \A i, j \in 1..Len(ids) : ids[i] = ids[j] => i = j
    /\ \A i \in 1..Len(ids) : ids[i] \in IF opensUni THEN UniIds \cap quicStreams
                                         ELSE {Defaults[i]}

\* No attempt is in progress once the streams are bound, and between attempts
\* there are no candidates.
AttemptsAreInOrder ==
    /\ binding # NoStream => ~bound
    /\ binding = NoStream => candidates = <<>>
    /\ Len(candidates) <= 3

\* The streams are bound with all three roles or not at all, unless the second of
\* the two binds failed.
BoundHasRoles ==
    /\ bound => Len(roles) = 3
    /\ ~bound => roles = <<>> \/ Len(roles) = 1

HeadersNeedBound == headersSubmitted # {} => bound

\* Only finitely many streams are left behind, and few for each call that throws.
WasteOK == IsFiniteSet(Wasted) /\ WasteIsBounded

\* An id that is not opened yet is in no list of opened ones, and each default
\* is taken at its own place: this is what keeps the candidates apart.
Inv ==
    /\ TypeOK
    /\ AttemptsAreInOrder
    /\ BoundHasRoles
    /\ HeadersNeedBound
    /\ Suits(candidates)
    /\ Suits(roles)
    /\ WasteOK

-----------------------------------------------------------------------------
(* Types *)

\* What the methods of the connection do keeps the types.
LEMMA SubmitTyped ==
  ASSUME ConnectionTypeOK, NEW id \in StreamIds, Submit(id)
  PROVE  ConnectionTypeOK'
<1>1. CASE UNCHANGED connectionVars
  BY <1>1 DEF ConnectionTypeOK, connectionVars, lifecycleVars, streamStateVars, handleVars,
              eventVars
<1>2. CASE SubmitHeaders(id)
  BY <1>2, StreamCallsTyped
<1> QED
  BY <1>1, <1>2 DEF Submit

\* Each step keeps the connection's types.
LEMMA ConnectionStepTyped ==
  ASSUME TypeOK, [Next]_vars
  PROVE  ConnectionTypeOK'
<1>1. ConnectionTypeOK
  BY DEF TypeOK
<1>2. CASE UNCHANGED connectionVars
  BY <1>1, <1>2 DEF ConnectionTypeOK, connectionVars, lifecycleVars, streamStateVars,
                    handleVars, eventVars
<1>3. ASSUME NEW id \in StreamIds, SubmitBound(id)
      PROVE  ConnectionTypeOK'
  BY <1>1, <1>3, SubmitTyped DEF SubmitBound
<1>4. CASE Bind
  <2>1. candidates # <<>> /\ Submit(binding)
    BY <1>4 DEF Bind
  <2>2. CASE binding \in StreamIds
    BY <1>1, <2>1, <2>2, SubmitTyped
  <2>3. CASE binding \notin StreamIds
    <3>1. ~SubmitHeaders(binding)
      BY <1>1, <2>3 DEF SubmitHeaders, ConnectionTypeOK
    <3> QED
      BY <1>2, <2>1, <3>1 DEF Submit
  <2> QED
    BY <2>2, <2>3
<1>5. ASSUME NEW id \in StreamIds, OpenRequest(id) \/ FetchStream(id)
      PROVE  ConnectionTypeOK'
  <2>1. CASE CreateRequestStream(id)
    BY <1>1, <2>1, ConnectionCallsTyped
  <2>2. CASE GetRequestStream(id, id \in quicStreams)
    <3>1. (id \in quicStreams) \in BOOLEAN
      OBVIOUS
    <3> QED
      BY <1>1, <2>2, <3>1, ConnectionCallsTyped
  <2> QED
    BY <1>5, <2>1, <2>2 DEF OpenRequest, FetchStream
<1>6. CASE CloseConnection
  BY <1>1, <1>6, ConnectionCallsTyped DEF CloseConnection
<1>7. ASSUME NEW code \in ErrorCodes, NEW isClosed \in BOOLEAN, ConnectionEnds(code, isClosed)
      PROVE  ConnectionTypeOK'
  BY <1>1, <1>7, ConsumeClosingTyped DEF ConnectionEnds
<1> QED
  <2>1. CASE \E id \in StreamIds : StartBinding(id) \/ OpenUniStream(id)
    BY <1>2, <2>1 DEF StartBinding, OpenUniStream
  <2>2. CASE TakeDefault \/ OpenThrows \/ BindHalf \/ BindRefused \/ PeerGoaway
    BY <1>2, <2>2 DEF TakeDefault, OpenThrows, BindHalf, BindRefused, PeerGoaway
  <2>3. CASE UNCHANGED vars
    BY <1>2, <2>3 DEF vars
  <2> QED
    BY <1>3, <1>4, <1>5, <1>6, <1>7, <2>1, <2>2, <2>3 DEF Next

\* A step keeps what ControlStreams adds well typed.
LEMMA StepTyped ==
  ASSUME TypeOK, AttemptsAreInOrder, [Next]_vars
  PROVE  TypeOK'
<1>1. ConnectionTypeOK'
  BY ConnectionStepTyped
<1>2. opensUni' = opensUni
  BY DEF Next, vars, StartBinding, OpenUniStream, TakeDefault, OpenThrows, Bind, BindHalf,
         BindRefused, SubmitBound, OpenRequest, FetchStream, CloseConnection, PeerGoaway,
         ConnectionEnds
<1>3. CASE UNCHANGED <<quicStreams, bindVars, h3Goaway, failures>>
  BY <1>1, <1>2, <1>3 DEF TypeOK, bindVars
<1>4. ASSUME NEW id \in StreamIds, StartBinding(id)
      PROVE  TypeOK'
  BY <1>1, <1>4 DEF TypeOK, StartBinding
<1>5. ASSUME NEW id \in StreamIds, OpenUniStream(id)
      PROVE  TypeOK'
  BY <1>1, <1>5 DEF TypeOK, OpenUniStream
<1>6. CASE TakeDefault
  <2>1. Len(candidates) + 1 \in 1..3
    BY <1>6 DEF TakeDefault, TypeOK
  <2>2. candidates' \in Seq(StreamIds)
    BY <1>6, <2>1, DefaultsAssumption DEF TakeDefault, TypeOK
  <2> QED
    BY <1>1, <1>6, <2>2 DEF TypeOK, TakeDefault
<1>7. CASE OpenThrows
  BY <1>1, <1>7, UniIdsAssumption, MaxFailuresAssumption
     DEF TypeOK, OpenThrows, NextUni, Fails
<1>8. CASE Bind
  BY <1>1, <1>8 DEF TypeOK, Bind
<1>9. CASE BindHalf
  <2>1. SubSeq(candidates, 1, 1) \in Seq(StreamIds)
    BY <1>9 DEF TypeOK, BindHalf
  <2> QED
    BY <1>1, <1>9, <2>1, MaxFailuresAssumption DEF TypeOK, BindHalf, Fails
<1>10. CASE BindRefused
  BY <1>1, <1>10 DEF TypeOK, BindRefused
<1>11. ASSUME NEW id \in StreamIds, OpenRequest(id)
       PROVE  TypeOK'
  BY <1>1, <1>11 DEF TypeOK, OpenRequest, bindVars
<1>12. CASE PeerGoaway
  BY <1>1, <1>12 DEF TypeOK, PeerGoaway, bindVars
<1> QED
  <2>1. ASSUME NEW id \in StreamIds, SubmitBound(id) \/ FetchStream(id)
        PROVE  TypeOK'
    BY <1>3, <2>1 DEF SubmitBound, FetchStream
  <2>2. CASE CloseConnection
    BY <1>3, <2>2 DEF CloseConnection
  <2>3. ASSUME NEW code \in ErrorCodes, NEW isClosed \in BOOLEAN, ConnectionEnds(code, isClosed)
        PROVE  TypeOK'
    BY <1>3, <2>3 DEF ConnectionEnds
  <2>4. CASE UNCHANGED vars
    BY <1>3, <2>4 DEF vars
  <2> QED
    BY <1>4, <1>5, <1>6, <1>7, <1>8, <1>9, <1>10, <1>11, <1>12, <2>1, <2>2, <2>3, <2>4 DEF Next

-----------------------------------------------------------------------------
(* The lists of ids *)

\* One more stream that was just opened, or the next default, suits the list.
LEMMA OneMoreSuits ==
  ASSUME TypeOK, Suits(candidates), Len(candidates) < 3, UNCHANGED opensUni,
         NEW id \in StreamIds, candidates' = Append(candidates, id),
         \/ opensUni /\ id \in UniIds \ quicStreams /\ quicStreams' = quicStreams \cup {id}
         \/ ~opensUni /\ id = Defaults[Len(candidates) + 1] /\ UNCHANGED quicStreams
  PROVE  Suits(candidates)'
<1> DEFINE n == Len(candidates)
<1>0. candidates \in Seq(StreamIds)
  BY DEF TypeOK
<1>1. n \in 0..2
  <2>1. ASSUME NEW k \in Nat, k < 3
        PROVE  k \in 0..2
    BY <2>1
  <2>2. Len(candidates) \in Nat
    BY <1>0, LenProperties
  <2> QED
    BY <2>1, <2>2, Zenon
<1>2. /\ Len(candidates') = n + 1
      /\ candidates'[n + 1] = id
      /\ \A i \in 1..n : candidates'[i] = candidates[i]
  BY <1>0, AppendProperties
<1>3. CASE opensUni /\ id \in UniIds \ quicStreams /\ quicStreams' = quicStreams \cup {id}
  <2>1. \A i \in 1..n : candidates[i] # id
    BY <1>3 DEF Suits
  <2> QED
    BY <1>1, <1>2, <1>3, <2>1 DEF Suits
<1>4. CASE ~opensUni /\ id = Defaults[n + 1] /\ UNCHANGED quicStreams
  <2>1. \A i \in 1..n : candidates[i] # id
    BY <1>1, <1>4, DefaultsAssumption DEF Suits
  <2> QED
    BY <1>1, <1>2, <1>4, <2>1 DEF Suits
<1> QED
  BY <1>3, <1>4

\* A step that opens streams and leaves the lists alone keeps them suitable.
LEMMA ListsStaySuitable ==
  ASSUME UNCHANGED <<opensUni, candidates, roles>>, quicStreams \subseteq quicStreams',
         Suits(candidates), Suits(roles)
  PROVE  Suits(candidates)' /\ Suits(roles)'
BY DEF Suits

\* The empty list suits, before and after a step.
LEMMA NothingSuits ==
  ASSUME candidates' = <<>>
  PROVE  Suits(candidates)'
BY DEF Suits

-----------------------------------------------------------------------------
(* The streams that are left behind *)

\* Three more of a finite set are at most three more.
LEMMA ThreeMore ==
  ASSUME NEW S, IsFiniteSet(S), NEW a, NEW b, NEW c, NEW T \in SUBSET (S \cup {a, b, c})
  PROVE  IsFiniteSet(T) /\ Cardinality(T) <= Cardinality(S) + 3
<1> DEFINE A == S \cup {a}
           B == A \cup {b}
           C == B \cup {c}
<1>1. IsFiniteSet(A) /\ (Cardinality(A) = Cardinality(S) \/ Cardinality(A) = Cardinality(S) + 1)
  BY FS_AddElement
<1> HIDE DEF A
<1>2. IsFiniteSet(B) /\ (Cardinality(B) = Cardinality(A) \/ Cardinality(B) = Cardinality(A) + 1)
  BY <1>1, FS_AddElement
<1> HIDE DEF B
<1>3. IsFiniteSet(C) /\ (Cardinality(C) = Cardinality(B) \/ Cardinality(C) = Cardinality(B) + 1)
  BY <1>2, FS_AddElement
<1>4. T \in SUBSET C
  BY DEF A, B
<1> HIDE DEF C
<1>5. IsFiniteSet(T) /\ Cardinality(T) <= Cardinality(C)
  BY <1>3, <1>4, FS_Subset
<1>6. /\ Cardinality(S) \in Nat /\ Cardinality(A) \in Nat /\ Cardinality(B) \in Nat
      /\ Cardinality(C) \in Nat /\ Cardinality(T) \in Nat
  BY <1>1, <1>2, <1>3, <1>5, FS_CardinalityType
<1> QED
  BY <1>1, <1>2, <1>3, <1>5, <1>6

\* A step that leaves nothing behind.
LEMMA NothingWasted ==
  ASSUME WasteOK, failures \in Nat, failures' = failures, Wasted' \subseteq Wasted,
         Len(roles) = 1 => Len(roles') = 1
  PROVE  WasteOK'
<1>1. IsFiniteSet(Wasted') /\ Cardinality(Wasted') <= Cardinality(Wasted)
  BY FS_Subset DEF WasteOK
<1>2. Cardinality(Wasted) \in Nat /\ Cardinality(Wasted') \in Nat
  BY <1>1, FS_CardinalityType DEF WasteOK
<1> QED
  BY <1>1, <1>2 DEF WasteOK, WasteIsBounded

\* A step that leaves three streams behind: a call throws, or nghttp3 has the
\* control stream alone.
LEMMA SomeWasted ==
  ASSUME WasteOK, failures \in Nat,
         \E a, b, c : Wasted' \subseteq Wasted \cup {a, b, c},
         \/ failures' = failures + 1 /\ roles' = roles
         \/ Len(roles') = 1
  PROVE  WasteOK'
<1>1. IsFiniteSet(Wasted') /\ Cardinality(Wasted') <= Cardinality(Wasted) + 3
  <2>1. PICK a, b, c : Wasted' \subseteq Wasted \cup {a, b, c}
    OBVIOUS
  <2> QED
    BY <2>1, ThreeMore DEF WasteOK
<1>2. Cardinality(Wasted) \in Nat /\ Cardinality(Wasted') \in Nat
  BY <1>1, FS_CardinalityType DEF WasteOK
<1> QED
  BY <1>1, <1>2 DEF WasteOK, WasteIsBounded

\* A list of at most three ids has at most three.
LEMMA ShortList ==
  ASSUME NEW list \in Seq(StreamIds), Len(list) <= 3
  PROVE  Range(list) \subseteq {list[1], list[2], list[3]}
<1>1. Len(list) \in Nat /\ DOMAIN list = 1..Len(list)
  OBVIOUS
<1>2. \A i \in 1..Len(list) : i = 1 \/ i = 2 \/ i = 3
  BY <1>1
<1> QED
  BY <1>1, <1>2 DEF Range

\* What a step that touches neither the lists nor the streams keeps.
LEMMA AloneKeepsInv ==
  ASSUME Inv, TypeOK', UNCHANGED <<opensUni, quicStreams, candidates, roles, bound, failures>>,
         binding' = binding \/ (binding' # NoStream /\ ~bound),
         bound \/ headersSubmitted' = headersSubmitted
  PROVE  Inv'
<1>1. Suits(candidates)' /\ Suits(roles)'
  BY ListsStaySuitable DEF Inv
<1>2. WasteOK'
  BY NothingWasted DEF Inv, TypeOK, Wasted
<1>3. BoundHasRoles' /\ HeadersNeedBound'
  BY DEF Inv, BoundHasRoles, HeadersNeedBound
<1> QED
  BY <1>1, <1>2, <1>3 DEF Inv, AttemptsAreInOrder

\* A connection that is new is in order.
LEMMA InitInv == Init => Inv
<1> SUFFICES ASSUME Init
             PROVE  Inv
  OBVIOUS
<1>1. ConnectionTypeOK
  BY ConnectionInitTyped DEF Init
<1>2. TypeOK
  <2>1. failures \in 0..MaxFailures
    BY MaxFailuresAssumption DEF Init
  <2>2. /\ opensUni \in BOOLEAN /\ bound \in BOOLEAN /\ h3Goaway \in BOOLEAN
        /\ quicStreams \subseteq StreamIds /\ binding \in StreamIds \cup {NoStream}
    BY DEF Init
  <2>3. candidates \in Seq(StreamIds) /\ roles \in Seq(StreamIds)
    BY DEF Init
  <2> QED
    BY <1>1, <2>1, <2>2, <2>3 DEF TypeOK
<1>3. AttemptsAreInOrder /\ BoundHasRoles
  BY DEF Init, AttemptsAreInOrder, BoundHasRoles
<1>6. WasteOK
  <2>1. Wasted = {}
    BY DEF Init, Wasted
  <2> QED
    BY <2>1, FS_EmptySet DEF Init, WasteOK, WasteIsBounded
<1>4. HeadersNeedBound
  BY DEF Init, ConnectionInit, HeadersNeedBound
<1>5. Suits(candidates) /\ Suits(roles)
  BY DEF Init, Suits
<1> QED
  BY <1>2, <1>3, <1>4, <1>5, <1>6 DEF Inv

\* The steps of an attempt keep the invariant: the opens ...
LEMMA OpensKeepInv ==
  ASSUME Inv, TypeOK',
         (\E id \in StreamIds : OpenUniStream(id)) \/ TakeDefault \/ OpenThrows
  PROVE  Inv'
<1>1. TypeOK /\ candidates \in Seq(StreamIds)
  BY DEF Inv, TypeOK
<1>2. ASSUME NEW id \in StreamIds, candidates' = Append(candidates, id),
             UNCHANGED <<connectionVars, binding, bound, roles, failures>>,
             binding # NoStream, Len(candidates) < 3, Suits(candidates)', Suits(roles)',
             UniIds \cap quicStreams' \subseteq (UniIds \cap quicStreams) \cup {id}
      PROVE  Inv'
  <2>1. /\ Len(candidates') = Len(candidates) + 1
        /\ candidates'[Len(candidates) + 1] = id
        /\ \A i \in 1..Len(candidates) : candidates'[i] = candidates[i]
    BY <1>1, <1>2, AppendProperties
  <2>2. WasteOK'
    <3>1. Range(candidates') = Range(candidates) \cup {id}
      BY <1>1, <2>1 DEF Range
    <3>2. Wasted' \subseteq Wasted
      BY <1>2, <3>1 DEF Wasted
    <3> QED
      BY <1>1, <1>2, <3>2, NothingWasted DEF Inv, TypeOK
  <2>3. AttemptsAreInOrder'
    BY <1>1, <1>2, <2>1 DEF Inv, AttemptsAreInOrder
  <2>4. BoundHasRoles' /\ HeadersNeedBound'
    BY <1>2 DEF Inv, BoundHasRoles, HeadersNeedBound, connectionVars, handleVars
  <2> QED
    BY <1>2, <2>2, <2>3, <2>4 DEF Inv
<1>3. ASSUME NEW id \in StreamIds, OpenUniStream(id)
      PROVE  Inv'
  <2>1. Suits(candidates)'
    BY <1>1, <1>3, OneMoreSuits DEF OpenUniStream, NextUni, Inv
  <2>2. Suits(roles)'
    BY <1>3 DEF OpenUniStream, Inv, Suits
  <2> QED
    BY <1>2, <1>3, <2>1, <2>2 DEF OpenUniStream
<1>4. CASE TakeDefault
  <2>1. Len(candidates) + 1 \in 1..3
    BY <1>1, <1>4 DEF TakeDefault
  <2>2. Defaults[Len(candidates) + 1] \in StreamIds
    BY <2>1, DefaultsAssumption
  <2>3. Suits(candidates)'
    BY <1>1, <1>4, <2>2, OneMoreSuits DEF TakeDefault, Inv
  <2>4. Suits(roles)'
    BY <1>4 DEF TakeDefault, Inv, Suits
  <2> QED
    BY <1>2, <1>4, <2>2, <2>3, <2>4 DEF TakeDefault
<1>5. CASE OpenThrows
  <2>1. WasteOK'
    <3>1. Len(candidates) <= 3 /\ candidates' = <<>> /\ roles' = roles /\ failures' = failures + 1
      BY <1>1, <1>5 DEF OpenThrows, Fails
    <3>2. PICK opened : quicStreams' \subseteq quicStreams \cup {opened}
      BY <1>5 DEF OpenThrows
    <3>3. Range(candidates) \subseteq {candidates[1], candidates[2]}
      <4>1. Len(candidates) \in Nat /\ Len(candidates) < 3 /\ DOMAIN candidates = 1..Len(candidates)
        BY <1>1, <1>5 DEF OpenThrows
      <4>2. \A i \in 1..Len(candidates) : i = 1 \/ i = 2
        BY <4>1
      <4> QED
        BY <4>1, <4>2 DEF Range
    <3>4. Wasted' \subseteq Wasted \cup {candidates[1], candidates[2], opened}
      BY <3>1, <3>2, <3>3 DEF Wasted
    <3>5. \E a, b, c : Wasted' \subseteq Wasted \cup {a, b, c}
      BY <3>4
    <3>6. WasteOK /\ failures \in Nat
      BY <1>1 DEF Inv, TypeOK
    <3> QED
      BY <3>1, <3>5, <3>6, SomeWasted
  <2>2. Suits(roles)' /\ Suits(candidates)'
    BY <1>5 DEF OpenThrows, Inv, Suits
  <2>3. BoundHasRoles'
    BY <1>5 DEF OpenThrows, BoundHasRoles, Inv
  <2>4. HeadersNeedBound'
    BY <1>5 DEF OpenThrows, HeadersNeedBound, Inv, connectionVars, handleVars
  <2>5. AttemptsAreInOrder'
    BY <1>5 DEF OpenThrows, AttemptsAreInOrder
  <2> QED
    BY <2>1, <2>2, <2>3, <2>4, <2>5 DEF Inv
<1> QED
  BY <1>3, <1>4, <1>5

\* ... and the binds, when the lists are complete or the call fails.
LEMMA BindsKeepInv ==
  ASSUME Inv, TypeOK', Bind \/ BindHalf \/ BindRefused
  PROVE  Inv'
<1>1. TypeOK /\ candidates \in Seq(StreamIds) /\ roles \in Seq(StreamIds)
  BY DEF Inv, TypeOK
<1>2. candidates' = <<>> /\ binding' = NoStream
  BY DEF Bind, BindHalf, BindRefused
<1>3. Suits(candidates)' /\ AttemptsAreInOrder'
  BY <1>2, NothingSuits DEF AttemptsAreInOrder
<1>4. ~bound
  <2>1. Len(candidates) = 3
    BY DEF Bind, BindHalf, BindRefused
  <2>2. candidates # <<>>
    BY <2>1
  <2> QED
    BY <2>2 DEF Inv, AttemptsAreInOrder
<1>5. CASE Bind
  <2>1. Suits(roles)'
    BY <1>5 DEF Bind, Inv, Suits
  <2>2. WasteOK'
    <3>1. Range(roles') = Range(candidates)
      BY <1>5 DEF Bind
    <3>2. Wasted' \subseteq Wasted
      BY <1>5, <3>1 DEF Bind, Wasted
    <3>3. Len(roles) # 1 /\ failures' = failures
      BY <1>5 DEF Bind
    <3> QED
      BY <1>1, <3>2, <3>3, NothingWasted DEF Inv, TypeOK
  <2>3. BoundHasRoles' /\ HeadersNeedBound'
    BY <1>5 DEF Bind, BoundHasRoles, HeadersNeedBound
  <2> QED
    BY <1>3, <2>1, <2>2, <2>3 DEF Inv
<1>6. CASE BindHalf
  <2>2. Len(roles') = 1 /\ roles'[1] = candidates[1]
    BY <1>1, <1>6 DEF BindHalf
  <2>3. Suits(roles)'
    BY <1>1, <1>6, <2>2 DEF BindHalf, Inv, Suits
  <2>4. WasteOK' /\ BoundHasRoles'
    <3>1. Range(candidates) \subseteq {candidates[1], candidates[2], candidates[3]}
      <4>1. Len(candidates) <= 3
        BY <1>6 DEF BindHalf
      <4> QED
        BY <1>1, <4>1, ShortList
    <3>2. roles = <<>> /\ quicStreams' = quicStreams
      BY <1>6 DEF BindHalf
    <3>3. Wasted' \subseteq Wasted \cup {candidates[1], candidates[2], candidates[3]}
      BY <3>1, <3>2 DEF Wasted, Range
    <3> QED
      <4>1. \E a, b, c : Wasted' \subseteq Wasted \cup {a, b, c}
        BY <3>3
      <4>2. WasteOK /\ failures \in Nat
        BY <1>1 DEF Inv, TypeOK
      <4>3. BoundHasRoles'
        BY <1>4, <1>6, <2>2 DEF BindHalf, BoundHasRoles
      <4> QED
        BY <2>2, <4>1, <4>2, <4>3, SomeWasted
  <2>5. HeadersNeedBound'
    BY <1>6 DEF BindHalf, HeadersNeedBound, Inv, connectionVars, handleVars
  <2> QED
    BY <1>3, <2>3, <2>4, <2>5 DEF Inv
<1>7. CASE BindRefused
  <2>1. Suits(roles)'
    BY <1>7 DEF BindRefused, Inv, Suits
  <2>2. Len(roles') = 1 /\ UNCHANGED <<roles, bound, quicStreams>>
    BY <1>4, <1>7 DEF BindRefused, Inv, BoundHasRoles
  <2>3. WasteOK' /\ BoundHasRoles'
    <3>1. Range(candidates) \subseteq {candidates[1], candidates[2], candidates[3]}
      <4>1. Len(candidates) <= 3
        BY <1>7 DEF BindRefused
      <4> QED
        BY <1>1, <4>1, ShortList
    <3>2. Wasted' \subseteq Wasted \cup {candidates[1], candidates[2], candidates[3]}
      BY <2>2, <3>1 DEF Wasted
    <3> QED
      <4>1. \E a, b, c : Wasted' \subseteq Wasted \cup {a, b, c}
        BY <3>2
      <4>2. WasteOK /\ failures \in Nat
        BY <1>1 DEF Inv, TypeOK
      <4>3. BoundHasRoles'
        BY <1>4, <2>2 DEF BoundHasRoles
      <4> QED
        BY <2>2, <4>1, <4>2, <4>3, SomeWasted
  <2>4. HeadersNeedBound'
    BY <1>7 DEF BindRefused, HeadersNeedBound, Inv, connectionVars, handleVars
  <2> QED
    BY <1>3, <2>1, <2>3, <2>4 DEF Inv
<1> QED
  BY <1>5, <1>6, <1>7

\* The other steps leave the attempts alone, or begin one.
LEMMA OthersKeepInv ==
  ASSUME Inv, TypeOK',
         \/ \E id \in StreamIds : \/ StartBinding(id) \/ SubmitBound(id)
                                 \/ OpenRequest(id) \/ FetchStream(id)
         \/ CloseConnection \/ PeerGoaway
         \/ \E code \in ErrorCodes, isClosed \in BOOLEAN : ConnectionEnds(code, isClosed)
         \/ UNCHANGED vars
  PROVE  Inv'
<1>1. ASSUME NEW id \in StreamIds, StartBinding(id)
      PROVE  Inv'
  <2>1. id # NoStream /\ candidates = <<>>
    BY <1>1, StreamIdsAssumption DEF StartBinding, NoStream, Inv, AttemptsAreInOrder
  <2> QED
    BY <1>1, <2>1, AloneKeepsInv DEF StartBinding, connectionVars, handleVars
<1>2. ASSUME NEW id \in StreamIds, SubmitBound(id)
      PROVE  Inv'
  BY <1>2, AloneKeepsInv DEF SubmitBound, bindVars
<1>3. ASSUME NEW id \in StreamIds, OpenRequest(id)
      PROVE  Inv'
  <2>1. /\ UNCHANGED <<opensUni, bindVars, failures>>
        /\ quicStreams' = quicStreams \cup {id} /\ id \notin UniIds
        /\ headersSubmitted' \subseteq headersSubmitted
    BY <1>3 DEF OpenRequest, CreateRequestStream
  <2>2. Suits(candidates)' /\ Suits(roles)'
    BY <2>1, ListsStaySuitable DEF Inv, bindVars
  <2>3. WasteOK'
    <3>1. Wasted' = Wasted
      BY <2>1 DEF Wasted, bindVars
    <3> QED
      BY <2>1, <3>1, NothingWasted DEF Inv, TypeOK, bindVars
  <2>4. BoundHasRoles' /\ HeadersNeedBound' /\ AttemptsAreInOrder'
    BY <2>1 DEF Inv, BoundHasRoles, HeadersNeedBound, AttemptsAreInOrder, bindVars
  <2> QED
    BY <2>2, <2>3, <2>4 DEF Inv
<1>4. ASSUME NEW id \in StreamIds, FetchStream(id)
      PROVE  Inv'
  BY <1>4, AloneKeepsInv DEF FetchStream, GetRequestStream, bindVars
<1>5. CASE CloseConnection
  BY <1>5, AloneKeepsInv DEF CloseConnection, Close, handleVars, bindVars
<1>6. CASE PeerGoaway
  BY <1>6, AloneKeepsInv DEF PeerGoaway, connectionVars, handleVars, bindVars
<1>7. ASSUME NEW code \in ErrorCodes, NEW isClosed \in BOOLEAN, ConnectionEnds(code, isClosed)
      PROVE  Inv'
  <2>1. UNCHANGED handleVars
    BY <1>7 DEF ConnectionEnds, ConsumeClosing, ConsumeFirstClosing, ConsumeLaterClosing,
                ConsumeLateClosing
  <2> QED
    BY <1>7, <2>1, AloneKeepsInv DEF ConnectionEnds, handleVars, bindVars
<1>8. CASE UNCHANGED vars
  BY <1>8, AloneKeepsInv DEF vars, connectionVars, handleVars, bindVars
<1> QED
  BY <1>1, <1>2, <1>3, <1>4, <1>5, <1>6, <1>7, <1>8

\* The invariant is inductive.
LEMMA StepInv ==
  ASSUME Inv, [Next]_vars
  PROVE  Inv'
<1>1. TypeOK'
  BY StepTyped DEF Inv
<1> QED
  BY <1>1, OpensKeepInv, BindsKeepInv, OthersKeepInv DEF Next

-----------------------------------------------------------------------------
(* Theorems *)

\* The invariant holds, whatever fails and however often.
THEOREM Invariance == Spec => []Inv
BY InitInv, StepInv, PTL DEF Spec

\* The state of the connection, of the attempt and of nghttp3's roles is typed.
THEOREM TypeCorrect == Spec => []TypeOK
<1>1. Inv => TypeOK
  BY DEF Inv
<1> QED
  BY <1>1, Invariance, PTL

\* No request leaves before the control stream and both QPACK streams are bound,
\* through any number of attempts that failed half way.
THEOREM HeadersWait == Spec => []HeadersNeedAllRoles
<1>1. Inv => HeadersNeedAllRoles
  BY DEF Inv, HeadersNeedBound, BoundHasRoles, HeadersNeedAllRoles
<1> QED
  BY <1>1, Invariance, PTL

\* nghttp3 never gets one stream in two roles.
THEOREM RolesDiffer == Spec => []RolesAreDistinct
<1>1. Inv => RolesAreDistinct
  BY DEF Inv, Suits, RolesAreDistinct
<1> QED
  BY <1>1, Invariance, PTL

\* Each call that throws leaves at most three unidirectional streams behind, and
\* nothing else does, unless nghttp3 was left with a control stream alone.
THEOREM WasteBounded == Spec => []WasteIsBounded
<1>1. Inv => WasteIsBounded
  BY DEF Inv, WasteOK
<1> QED
  BY <1>1, Invariance, PTL
=============================================================================
