-------------------------- MODULE NativeBodyProofs --------------------------
(***************************************************************************)
(* NativeBody for every alphabet and every length of the body: its types,  *)
(* what the buffer holds, and that it is a BodyPipe.                       *)
(***************************************************************************)
EXTENDS NativeBody, SequenceTheorems, TLAPS

\* The offsets of the buffer and the three histories describe one position in
\* the body: read up to Len(taken), dropped up to acked.
OffsetsAgree ==
    /\ body.ackedOffset = 0
    /\ body.readOffset = Len(taken) - acked
    /\ acked <= confirmed
    /\ confirmed <= Len(taken)
    /\ Len(taken) <= Len(written)

\* nghttp3 has been handed a prefix of what was written, and all of it if it
\* has been told the end.
TakenIsPrefix ==
    /\ taken = SubSeq(written, 1, Len(taken))
    /\ endTaken => body.eof /\ Len(taken) = Len(written)

Inv == TypeOK /\ HoldsUnacked /\ OffsetsAgree /\ TakenIsPrefix

-----------------------------------------------------------------------------
(* Sequences *)

\* A tail of s grows at its end when s does.
LEMMA TailGrows ==
  ASSUME NEW s \in Seq(Bytes), NEW t \in Seq(Bytes), NEW n \in 0..Len(s)
  PROVE  SubSeq(s \o t, n + 1, Len(s \o t)) = SubSeq(s, n + 1, Len(s)) \o t
<1> DEFINE lhs == SubSeq(s \o t, n + 1, Len(s \o t))
           rest == SubSeq(s, n + 1, Len(s))
<1>1. /\ s \o t \in Seq(Bytes)
      /\ Len(s \o t) = Len(s) + Len(t)
      /\ \A i \in 1..Len(s) + Len(t) : (s \o t)[i] = IF i <= Len(s) THEN s[i] ELSE t[i - Len(s)]
  BY ConcatProperties
<1>2. Len(s) \in Nat /\ Len(t) \in Nat
  BY LenProperties
<1>3. \A i \in n + 1..Len(s) : s[i] \in Bytes
  BY <1>2, ElementOfSeq
<1>4. /\ rest \in Seq(Bytes)
      /\ Len(rest) = Len(s) - n
      /\ \A i \in 1..Len(s) - n : rest[i] = s[n + i]
  BY <1>2, <1>3, SubSeqProperties
<1>5. \A i \in n + 1..Len(s \o t) : (s \o t)[i] \in Bytes
  BY <1>1, <1>2, ElementOfSeq
<1>6. /\ lhs \in Seq(Bytes)
      /\ Len(lhs) = Len(s) + Len(t) - n
      /\ \A i \in 1..Len(s) + Len(t) - n : lhs[i] = (s \o t)[n + i]
  <2>1. n + 1 \in Int /\ Len(s \o t) \in Int /\ Len(s \o t) = Len(s) + Len(t)
    BY <1>1, <1>2
  <2>2. /\ lhs \in Seq(Bytes)
        /\ Len(lhs) = IF n + 1 <= Len(s \o t) THEN Len(s \o t) - (n + 1) + 1 ELSE 0
        /\ \A i \in 1..Len(s \o t) - (n + 1) + 1 : lhs[i] = (s \o t)[n + 1 + i - 1]
    BY <1>5, <2>1, SubSeqProperties
  <2>3. QED  BY <1>2, <2>1, <2>2
<1>7. /\ rest \o t \in Seq(Bytes)
      /\ Len(rest \o t) = Len(rest) + Len(t)
      /\ \A i \in 1..Len(rest) + Len(t) :
            (rest \o t)[i] = IF i <= Len(rest) THEN rest[i] ELSE t[i - Len(rest)]
  BY <1>4, ConcatProperties
<1>8. \A i \in 1..Len(lhs) : lhs[i] = (rest \o t)[i]
  <2> SUFFICES ASSUME NEW i \in 1..Len(lhs)
               PROVE  lhs[i] = (rest \o t)[i]
    OBVIOUS
  <2> HIDE DEF lhs, rest
  <2>1. lhs[i] = IF n + i <= Len(s) THEN s[n + i] ELSE t[n + i - Len(s)]
    BY <1>1, <1>2, <1>6
  <2>2. (rest \o t)[i] = IF i <= Len(s) - n THEN rest[i] ELSE t[i - (Len(s) - n)]
    BY <1>2, <1>4, <1>6, <1>7
  <2>3. CASE n + i <= Len(s)
    BY <1>2, <1>4, <2>1, <2>2, <2>3
  <2>4. CASE n + i > Len(s)
    <3>1. i \in Nat /\ n \in Nat
      BY <1>2, <1>6
    <3>2. n + i - Len(s) = i - (Len(s) - n)
      BY <1>2, <3>1
    <3>3. lhs[i] = t[n + i - Len(s)]
      BY <1>2, <2>1, <2>4, <3>1
    <3>4. (rest \o t)[i] = t[i - (Len(s) - n)]
      BY <1>2, <2>2, <2>4, <3>1
    <3>5. t[n + i - Len(s)] = t[i - (Len(s) - n)]
      BY <3>2
    <3>6. QED  BY <3>3, <3>4, <3>5, Zenon
  <2>5. i \in Nat /\ n \in Nat
    BY <1>2, <1>6
  <2>6. n + i <= Len(s) \/ n + i > Len(s)
    BY <1>2, <2>5
  <2>7. QED  BY <2>3, <2>4, <2>6
<1>9. Len(lhs) = Len(rest \o t)
  BY <1>2, <1>4, <1>6, <1>7
<1> HIDE DEF lhs, rest
<1>10. lhs = rest \o t
  BY <1>6, <1>7, <1>8, <1>9, SeqEqual
<1>11. QED  BY <1>10 DEF lhs, rest

\* A tail of a tail is a tail.
LEMMA TailOfTail ==
  ASSUME NEW s \in Seq(Bytes), NEW m \in 0..Len(s), NEW n \in 0..Len(s) - m
  PROVE  LET rest == SubSeq(s, m + 1, Len(s))
         IN  /\ rest \in Seq(Bytes)
             /\ Len(rest) = Len(s) - m
             /\ SubSeq(rest, n + 1, Len(rest)) = SubSeq(s, m + n + 1, Len(s))
<1> DEFINE rest == SubSeq(s, m + 1, Len(s))
           lhs == SubSeq(rest, n + 1, Len(rest))
           rhs == SubSeq(s, m + n + 1, Len(s))
<1>1. Len(s) \in Nat /\ \A i \in 1..Len(s) : s[i] \in Bytes
  BY LenProperties, ElementOfSeq
<1>2. /\ rest \in Seq(Bytes)
      /\ Len(rest) = Len(s) - m
      /\ \A i \in 1..Len(s) - m : rest[i] = s[m + i]
  BY <1>1, SubSeqProperties
<1>3. /\ rhs \in Seq(Bytes)
      /\ Len(rhs) = Len(s) - m - n
      /\ \A i \in 1..Len(s) - m - n : rhs[i] = s[m + n + i]
  BY <1>1, SubSeqProperties
<1>4. \A i \in n + 1..Len(rest) : rest[i] \in Bytes
  BY <1>1, <1>2
<1> HIDE DEF rest
<1>5. /\ lhs \in Seq(Bytes)
      /\ Len(lhs) = Len(s) - m - n
      /\ \A i \in 1..Len(s) - m - n : lhs[i] = rest[n + i]
  BY <1>1, <1>2, <1>4, SubSeqProperties
<1> HIDE DEF lhs, rhs
<1>6. \A i \in 1..Len(lhs) : lhs[i] = rhs[i]
  <2> SUFFICES ASSUME NEW i \in 1..Len(lhs)
               PROVE  lhs[i] = rhs[i]
    OBVIOUS
  <2>1. i \in 1..Len(s) - m - n
    BY <1>5
  <2>2. lhs[i] = rest[n + i]
    BY <1>5, <2>1
  <2>3. n + i \in 1..Len(s) - m /\ m + (n + i) = m + n + i
    BY <1>1, <2>1
  <2>4. rest[n + i] = s[m + n + i]
    BY <1>2, <2>3
  <2>5. QED  BY <1>3, <2>1, <2>2, <2>4
<1>7. lhs = rhs
  BY <1>3, <1>5, <1>6, SeqEqual
<1>8. QED  BY <1>2, <1>7 DEF rest, lhs, rhs

\* What read_data_cb hands out is what was written behind the taken bytes.
LEMMA UnreadIsTheRest ==
  ASSUME Inv
  PROVE  /\ Len(body.data) = Len(written) - acked
         /\ Unread(body) = SubSeq(written, Len(taken) + 1, Len(written))
         /\ taken \o Unread(body) = written
<1>1. /\ written \in Seq(Bytes) /\ Len(written) \in Nat
      /\ taken \in Seq(Bytes) /\ Len(taken) \in Nat
      /\ acked \in Nat /\ confirmed \in Nat
  BY LenProperties DEF Inv, TypeOK
<1>2. acked \in 0..Len(written) /\ Len(taken) - acked \in 0..Len(written) - acked
  BY <1>1 DEF Inv, OffsetsAgree
<1>3. body.data = SubSeq(written, acked + 1, Len(written))
  BY DEF Inv, HoldsUnacked
<1>4. /\ Len(body.data) = Len(written) - acked
      /\ SubSeq(body.data, Len(taken) - acked + 1, Len(body.data))
            = SubSeq(written, acked + (Len(taken) - acked) + 1, Len(written))
  BY <1>1, <1>2, <1>3, TailOfTail
<1>5. Unread(body) = SubSeq(written, Len(taken) + 1, Len(written))
  <2>1. acked + (Len(taken) - acked) + 1 = Len(taken) + 1
    BY <1>1
  <2>2. body.readOffset = Len(taken) - acked
    BY DEF Inv, OffsetsAgree
  <2>3. QED  BY <1>4, <2>1, <2>2 DEF Unread
<1>6. SubSeq(written, 1, Len(taken)) \o SubSeq(written, Len(taken) + 1, Len(written))
         = SubSeq(written, 1, Len(written))
  <2>1. /\ 1 \in 1..Len(written) + 1
        /\ Len(taken) \in 1 - 1..Len(written)
        /\ Len(written) \in Len(taken)..Len(written)
    BY <1>1, <1>2
  <2>2. QED  BY <1>1, <2>1, ConcatAdjacentSubSeq
<1>7. QED
  BY <1>1, <1>4, <1>5, <1>6, SubSeqFull DEF Inv, TakenIsPrefix

\* submitData() is given a sequence of bytes.
LEMMA PiecesAreBytes == Pieces \subseteq Seq(Bytes)
<1>1. <<>> \in Seq(Bytes)
  BY EmptySeq
<1>2. \A byte \in Bytes : <<byte>> \in Seq(Bytes)
  OBVIOUS
<1>3. QED  BY <1>1, <1>2 DEF Pieces

-----------------------------------------------------------------------------
(* The invariant *)

\* A fresh buffer satisfies it.
LEMMA InitInv == Init => Inv
<1> SUFFICES ASSUME Init PROVE Inv
  OBVIOUS
<1>1. <<>> \in Seq(Bytes) /\ Len(<<>>) = 0
  BY EmptySeq
<1>2. SubSeq(<<>>, 1, 0) = <<>>
  BY SubSeqEmpty
<1>3. TypeOK
  <2>1. body \in Bodies(Bytes)
    BY <1>1 DEF Init, NewBody, Bodies
  <2>2. written \in Seq(Bytes) /\ taken \in Seq(Bytes)
    BY <1>1 DEF Init
  <2>3. QED  BY <2>1, <2>2 DEF Init, TypeOK
<1>4. HoldsUnacked /\ OffsetsAgree /\ TakenIsPrefix
  BY <1>1, <1>2 DEF Init, NewBody, HoldsUnacked, OffsetsAgree, TakenIsPrefix
<1>5. QED  BY <1>3, <1>4 DEF Inv

\* submitData() keeps it ...
LEMMA SubmitKeepsInv ==
  ASSUME Inv, NEW bytes \in Seq(Bytes), SubmitBytes(bytes)
  PROVE  Inv'
<1>1. /\ written \in Seq(Bytes) /\ Len(written) \in Nat
      /\ taken \in Seq(Bytes) /\ Len(taken) \in Nat
      /\ acked \in Nat /\ confirmed \in Nat /\ body \in Bodies(Bytes)
  BY LenProperties DEF Inv, TypeOK
<1>2. acked \in 0..Len(written) /\ Len(taken) <= Len(written)
  BY <1>1 DEF Inv, OffsetsAgree
<1>3. /\ written' \in Seq(Bytes)
      /\ Len(written') = Len(written) + Len(bytes)
      /\ Len(bytes) \in Nat
  BY <1>1, ConcatProperties, LenProperties DEF SubmitBytes
<1>4. /\ body'.data = body.data \o bytes
      /\ body'.readOffset = body.readOffset
      /\ body'.ackedOffset = body.ackedOffset
      /\ body'.eof = body.eof
  BY <1>1 DEF SubmitBytes, Appended, Bodies
<1>5. body' \in Bodies(Bytes)
  <2>1. body.data \in Seq(Bytes) /\ body.readOffset <= Len(body.data) /\ body.readOffset \in Nat
    BY <1>1 DEF Bodies
  <2>2. /\ body.data \o bytes \in Seq(Bytes)
        /\ Len(body.data \o bytes) = Len(body.data) + Len(bytes)
        /\ Len(body.data) \in Nat
    BY <2>1, ConcatProperties, LenProperties
  <2>3. body.readOffset <= Len(body.data \o bytes)
    BY <1>3, <2>1, <2>2
  <2>4. QED  BY <1>1, <2>2, <2>3 DEF SubmitBytes, Appended, Bodies
<1>6. TypeOK'
  BY <1>3, <1>5 DEF Inv, TypeOK, SubmitBytes
<1>7. HoldsUnacked'
  <2>1. body.data = SubSeq(written, acked + 1, Len(written))
    BY DEF Inv, HoldsUnacked
  <2>2. SubSeq(written \o bytes, acked + 1, Len(written \o bytes)) = body.data \o bytes
    BY <1>1, <1>2, <2>1, TailGrows
  <2>3. QED  BY <1>4, <2>2 DEF HoldsUnacked, SubmitBytes
<1>8. OffsetsAgree'
  BY <1>1, <1>2, <1>3, <1>4 DEF Inv, OffsetsAgree, SubmitBytes
<1>9. TakenIsPrefix'
  <2>1. SubSeq(written', 1, Len(taken)) = SubSeq(written, 1, Len(taken))
    <3>1. CASE Len(taken) = 0
      BY <3>1, SubSeqEmpty
    <3>2. CASE Len(taken) # 0
      <4>1. 1 \in 1..Len(written) /\ Len(taken) \in 1..Len(written)
        BY <1>1, <1>2, <3>2
      <4>2. QED  BY <1>1, <4>1, SubSeqOfConcat1 DEF SubmitBytes
    <3>3. QED  BY <3>1, <3>2
  <2>2. ~endTaken
    BY DEF SubmitBytes, Inv, TakenIsPrefix
  <2>3. QED  BY <2>1, <2>2 DEF Inv, TakenIsPrefix, SubmitBytes
<1>10. QED  BY <1>6, <1>7, <1>8, <1>9 DEF Inv

\* ... end() does ...
LEMMA EndKeepsInv ==
  ASSUME Inv, EndBody
  PROVE  Inv'
<1>1. body \in Bodies(Bytes)
  BY DEF Inv, TypeOK
<1>2. /\ body' \in Bodies(Bytes)
      /\ body'.data = body.data
      /\ body'.readOffset = body.readOffset
      /\ body'.ackedOffset = body.ackedOffset
      /\ body'.eof
  BY <1>1 DEF EndBody, Finished, Bodies
<1>3. TypeOK'
  BY <1>2 DEF Inv, TypeOK, EndBody
<1>4. HoldsUnacked' /\ OffsetsAgree' /\ TakenIsPrefix'
  BY <1>2 DEF Inv, HoldsUnacked, OffsetsAgree, TakenIsPrefix, EndBody
<1>5. QED  BY <1>3, <1>4 DEF Inv

\* ... the read_data callback does, which takes all there is ...
LEMMA ReadKeepsInv ==
  ASSUME Inv, ReadData
  PROVE  Inv' /\ taken' = written
<1>1. body \in Bodies(Bytes) /\ written \in Seq(Bytes) /\ Len(written) \in Nat
  BY LenProperties DEF Inv, TypeOK
<1>2. /\ acked \in Nat /\ confirmed \in Nat /\ Len(taken) \in Nat
      /\ acked <= confirmed /\ confirmed <= Len(taken) /\ Len(taken) <= Len(written)
  BY LenProperties DEF Inv, TypeOK, OffsetsAgree
<1>3. taken' = written /\ Len(body.data) = Len(written) - acked
  BY UnreadIsTheRest DEF ReadData
<1>4. /\ body' \in Bodies(Bytes)
      /\ body'.data = body.data
      /\ body'.readOffset = Len(body.data)
      /\ body'.ackedOffset = body.ackedOffset
      /\ body'.eof = body.eof
  <2>1. body.readOffset \in Nat /\ body.readOffset <= Len(body.data) /\ Len(body.data) \in Nat
    BY <1>1, LenProperties DEF Bodies
  <2>2. body' = [body EXCEPT !.readOffset = Len(body.data)]
    BY <1>1, <2>1 DEF ReadData, AllRead, Bodies
  <2>3. QED  BY <1>1, <2>1, <2>2 DEF Bodies
<1>5. endTaken' = body.eof /\ body.eof \in BOOLEAN
  BY <1>1 DEF ReadData, ReadEnds, Bodies
<1>6. TypeOK'
  BY <1>1, <1>3, <1>4, <1>5 DEF Inv, TypeOK, ReadData
<1>7. HoldsUnacked'
  BY <1>4 DEF Inv, HoldsUnacked, ReadData
<1>8. OffsetsAgree'
  BY <1>1, <1>2, <1>3, <1>4 DEF Inv, OffsetsAgree, ReadData
<1>9. TakenIsPrefix'
  BY <1>1, <1>3, <1>4, <1>5, SubSeqFull DEF TakenIsPrefix, ReadData
<1>10. QED  BY <1>3, <1>6, <1>7, <1>8, <1>9 DEF Inv

\* ... and so does an acknowledgement, which drops what it is for and nothing
\* that has not been read.
LEMMA AcknowledgeKeepsInv ==
  ASSUME Inv, NEW n \in Nat, Acknowledge(n)
  PROVE  Inv' /\ body'.eof = body.eof
<1>1. body \in Bodies(Bytes) /\ written \in Seq(Bytes) /\ Len(written) \in Nat
  BY LenProperties DEF Inv, TypeOK
<1>2. /\ acked \in Nat /\ confirmed \in Nat /\ Len(taken) \in Nat
      /\ acked <= confirmed /\ confirmed <= Len(taken) /\ Len(taken) <= Len(written)
      /\ body.ackedOffset = 0 /\ body.readOffset = Len(taken) - acked
  BY LenProperties DEF Inv, TypeOK, OffsetsAgree
<1>3. acked' = acked + n /\ acked + n <= confirmed
  BY DEF Acknowledge
<1>4. Len(body.data) = Len(written) - acked
  BY UnreadIsTheRest
<1>5. n \in 0..Len(body.data) /\ n <= body.readOffset
  BY <1>2, <1>3, <1>4
<1>6. /\ SubSeq(body.data, n + 1, Len(body.data)) = SubSeq(written, acked + n + 1, Len(written))
      /\ SubSeq(body.data, n + 1, Len(body.data)) \in Seq(Bytes)
      /\ Len(SubSeq(body.data, n + 1, Len(body.data))) = Len(body.data) - n
  <2>1. acked \in 0..Len(written) /\ n \in 0..Len(written) - acked
    BY <1>1, <1>2, <1>4, <1>5
  <2>2. body.data = SubSeq(written, acked + 1, Len(written))
    BY DEF Inv, HoldsUnacked
  <2>3. SubSeq(body.data, n + 1, Len(body.data)) = SubSeq(written, acked + n + 1, Len(written))
    BY <1>1, <2>1, <2>2, TailOfTail
  <2>4. /\ SubSeq(written, (acked + n) + 1, Len(written)) \in Seq(Bytes)
        /\ Len(SubSeq(written, (acked + n) + 1, Len(written))) = Len(written) - (acked + n)
    <3> DEFINE m == acked + n
    <3>1. m \in 0..Len(written) /\ 0 \in 0..Len(written) - m
      BY <1>1, <1>2, <1>3
    <3> HIDE DEF m
    <3>2. /\ SubSeq(written, m + 1, Len(written)) \in Seq(Bytes)
          /\ Len(SubSeq(written, m + 1, Len(written))) = Len(written) - m
      <4>1. \A i \in m + 1..Len(written) : written[i] \in Bytes
        BY <1>1, <3>1, ElementOfSeq
      <4>2. m + 1 \in Int /\ Len(written) \in Int
        BY <1>1, <3>1
      <4>3. /\ SubSeq(written, m + 1, Len(written)) \in Seq(Bytes)
            /\ Len(SubSeq(written, m + 1, Len(written)))
                  = IF m + 1 <= Len(written) THEN Len(written) - (m + 1) + 1 ELSE 0
        BY <4>1, <4>2, SubSeqProperties
      <4>4. QED  BY <1>1, <3>1, <4>3
    <3>3. QED  BY <3>2 DEF m
  <2>5. Len(written) - (acked + n) = Len(body.data) - n
    BY <1>1, <1>2, <1>4, <1>5
  <2>6. QED  BY <2>3, <2>4, <2>5, Zenon
<1>7. /\ body' \in Bodies(Bytes)
      /\ body'.data = SubSeq(body.data, n + 1, Len(body.data))
      /\ body'.readOffset = body.readOffset - n
      /\ body'.ackedOffset = 0
      /\ body'.eof = body.eof
  <2>1. CASE n = 0
    <3>1. body' = body /\ body.data \in Seq(Bytes) /\ body.readOffset \in Nat
      BY <1>1, <2>1 DEF Acknowledge, Acknowledged, Bodies
    <3>2. QED  BY <1>1, <1>2, <2>1, <3>1, SubSeqFull
  <2>2. CASE n # 0
    <3>1. body.ackedOffset + n = n /\ ~(n > Len(body.data)) /\ body.readOffset - n \in Nat
      BY <1>1, <1>2, <1>5
    <3>2. body' = [body EXCEPT !.data = SubSeq(body.data, n + 1, Len(body.data)),
                               !.readOffset = body.readOffset - n,
                               !.ackedOffset = 0]
      BY <1>1, <1>5, <2>2, <3>1 DEF Acknowledge, Acknowledged, Compacted, Bodies
    <3>3. body.readOffset - n <= Len(body.data) - n
      BY <1>1, <1>2, <1>4, <1>5
    <3>4. QED  BY <1>1, <1>6, <3>1, <3>2, <3>3 DEF Bodies
  <2>3. QED  BY <2>1, <2>2
<1>8. TypeOK'
  BY <1>2, <1>3, <1>7 DEF Inv, TypeOK, Acknowledge
<1>9. HoldsUnacked'
  BY <1>3, <1>6, <1>7 DEF HoldsUnacked, Acknowledge
<1>10. OffsetsAgree'
  BY <1>2, <1>3, <1>7 DEF OffsetsAgree, Acknowledge
<1>11. TakenIsPrefix'
  BY <1>7 DEF Inv, TakenIsPrefix, Acknowledge
<1>12. QED  BY <1>7, <1>8, <1>9, <1>10, <1>11 DEF Inv

\* Every step keeps it ...
LEMMA StepInv == Inv /\ [Next]_vars => Inv'
<1> SUFFICES ASSUME Inv, [Next]_vars PROVE Inv'
  OBVIOUS
<1>1. ASSUME NEW bytes \in Pieces, SubmitBytes(bytes)
      PROVE  Inv'
  <2>1. bytes \in Seq(Bytes)
    BY PiecesAreBytes
  <2>2. QED  BY <1>1, <2>1, SubmitKeepsInv
<1>2. CASE EndBody
  BY <1>2, EndKeepsInv
<1>3. CASE ReadData
  BY <1>3, ReadKeepsInv
<1>4. ASSUME NEW n \in 1..MaxBytes, PeerConfirms(n)
      PROVE  Inv'
  <2>1. n \in Nat
    OBVIOUS
  <2>2. TypeOK'
    BY <1>4, <2>1 DEF Inv, TypeOK, PeerConfirms
  <2>3. HoldsUnacked' /\ TakenIsPrefix'
    BY <1>4 DEF Inv, HoldsUnacked, TakenIsPrefix, PeerConfirms
  <2>4. OffsetsAgree'
    BY <1>4, <2>1 DEF Inv, TypeOK, OffsetsAgree, PeerConfirms
  <2>5. QED  BY <2>2, <2>3, <2>4 DEF Inv
<1>5. ASSUME NEW n \in 0..MaxBytes, Acknowledge(n)
      PROVE  Inv'
  BY <1>5, AcknowledgeKeepsInv
<1>6. CASE UNCHANGED vars
  BY <1>6 DEF vars, Inv, TypeOK, HoldsUnacked, OffsetsAgree, TakenIsPrefix
<1>7. QED
  BY <1>1, <1>2, <1>3, <1>4, <1>5, <1>6 DEF Next, NextAsBuilt, AcknowledgeSome

\* ... so it always holds.
LEMMA Invariance == Spec => []Inv
BY InitInv, StepInv, PTL DEF Spec

-----------------------------------------------------------------------------
(* The theorems *)

\* The state of a body keeps its types: the read position never leaves the
\* buffer, whatever is appended, read and compacted.
THEOREM TypeCorrect == Spec => []TypeOK
BY Invariance, PTL DEF Inv

\* The buffer always holds exactly what nghttp3 has not been told the peer has.
THEOREM BufferHoldsUnacked == Spec => []HoldsUnacked
BY Invariance, PTL DEF Inv

\* A step of the buffer is a step of the pipe or leaves it alone.
LEMMA StepRefines == Inv /\ [Next]_vars => [Pipe!PipeNext]_(Pipe!pipeVars)
<1> SUFFICES ASSUME Inv, [Next]_vars PROVE [Pipe!PipeNext]_(Pipe!pipeVars)
  OBVIOUS
<1> USE DEF Pipe!PipeNext, Pipe!pipeVars
<1>1. ASSUME NEW bytes \in Pieces, SubmitBytes(bytes)
      PROVE  [Pipe!PipeNext]_(Pipe!pipeVars)
  <2>1. /\ bytes \in Seq(Bytes) /\ written \in Seq(Bytes) /\ body \in Bodies(Bytes)
        /\ Len(bytes) \in Nat /\ Len(written) \in Nat
    BY LenProperties, PiecesAreBytes DEF Inv, TypeOK
  <2>2. Len(written') = Len(written) + Len(bytes)
    BY <1>1, <2>1, ConcatProperties DEF SubmitBytes
  <2>3. SubSeq(written', 1, Len(written)) = written
    <3>1. CASE Len(written) = 0
      BY <2>1, <3>1, SubSeqEmpty, EmptySeq
    <3>2. CASE Len(written) # 0
      <4>1. 1 \in 1..Len(written) /\ Len(written) \in 1..Len(written)
        BY <2>1, <3>2
      <4>2. QED  BY <1>1, <2>1, <4>1, SubSeqOfConcat1, SubSeqFull DEF SubmitBytes
    <3>3. QED  BY <3>1, <3>2
  <2>4. body'.eof = body.eof /\ ~body.eof
    BY <1>1, <2>1 DEF SubmitBytes, Appended, Bodies
  <2>5. Len(written') >= Len(written)
    BY <2>1, <2>2
  <2>6. UNCHANGED <<body.eof, taken, endTaken>>
    BY <1>1, <2>4 DEF SubmitBytes
  <2>7. Pipe!PipeWrite
    BY <2>3, <2>4, <2>5, <2>6 DEF Pipe!PipeWrite
  <2>8. QED  BY <2>7
<1>2. CASE EndBody
  <2>1. body'.eof = TRUE
    BY <1>2 DEF Inv, TypeOK, Bodies, EndBody, Finished
  <2>2. QED  BY <1>2, <2>1 DEF Pipe!PipeFinish, EndBody
<1>3. CASE ReadData
  <2>1. body'.eof = body.eof
    BY <1>3 DEF Inv, TypeOK, Bodies, ReadData, AllRead
  <2>2. taken' = written /\ endTaken' = body.eof
    BY <1>3, ReadKeepsInv DEF ReadData, ReadEnds
  <2>3. QED  BY <1>3, <2>1, <2>2 DEF Pipe!PipeTake, ReadData
<1>4. ASSUME NEW n \in 1..MaxBytes, PeerConfirms(n)
      PROVE  [Pipe!PipeNext]_(Pipe!pipeVars)
  BY <1>4 DEF PeerConfirms
<1>5. ASSUME NEW n \in 0..MaxBytes, Acknowledge(n)
      PROVE  [Pipe!PipeNext]_(Pipe!pipeVars)
  BY <1>5, AcknowledgeKeepsInv DEF Acknowledge
<1>6. CASE UNCHANGED vars
  BY <1>6 DEF vars
<1>7. QED
  BY <1>1, <1>2, <1>3, <1>4, <1>5, <1>6 DEF Next, NextAsBuilt, AcknowledgeSome

\* nghttp3 is handed every byte of the body once and in order, and the end
\* behind the last of them, whatever is acknowledged in between.
THEOREM Refinement == Spec => ImplementsPipe
<1>1. Init => Pipe!PipeInit
  BY DEF Init, NewBody, Pipe!PipeInit
<1>2. QED
  BY <1>1, StepRefines, Invariance, PTL DEF Spec, ImplementsPipe, Pipe!PipeSpec
=============================================================================
