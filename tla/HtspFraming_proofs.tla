------------------------- MODULE HtspFraming_proofs -------------------------
(***************************************************************************)
(* Proofs about HtspFraming, for length fields and messages of every size, *)
(* any number of frames, reads that return any pieces, and a connection    *)
(* that ends or fails anywhere.  They use the safety part of the           *)
(* specification only.                                                     *)
(***************************************************************************)
EXTENDS HtspFraming, SequenceLemmas, FiniteSetTheorems

\* Where the k-th frame ends, and where it is in the stream.
EndOf(k) == IF k = 0 THEN 0 ELSE frames[k].at + H + frames[k].len

Done == Len(delivered)
Next1 == frames[Done + 1]

\* Frames follow each other without a gap, and the stream ends with the last
\* of them, or before, if the connection went down.
LayoutInv ==
  /\ frames \in Seq(Frame) /\ total \in Nat
  /\ conn \in {"open", "closed", "error"}
  /\ \A k \in 1 .. Len(frames) : frames[k].at = EndOf(k - 1)
  /\ \A k \in 1 .. Len(frames) : \A j \in 1 .. k - 1 : EndOf(j) <= frames[k].at
  /\ total <= EndOf(Len(frames))
  /\ conn = "open" => total = EndOf(Len(frames))

\* What has been handed on are the first messages.
DeliveredInv ==
  /\ delivered \in Seq(Seq(Nat))
  /\ Done <= Len(frames)
  /\ \A k \in 1 .. Done : delivered[k] = Body(frames[k])

\* The bytes that were copied are those of the message that is being read, up
\* to the last that was read; the rest is untouched.
CopiedInv ==
  /\ remaining <= msg_len
  /\ got = Next1.at + H + (msg_len - remaining)
  /\ buffer = [i \in 1 .. msg_len |->
                 IF i <= msg_len - remaining THEN Next1.at + H + i
                 ELSE Uninitialized]

\* The reader is where its state says; after an error in a message it stays
\* there.
ReaderInv ==
  /\ pc \in {"header", "body", "dispatch", "stopped"}
  /\ got \in 0 .. total
  /\ EndOf(Done) <= got
  /\ msg_len \in Lengths \cup {0} /\ remaining \in Int
  /\ buffer \in [1 .. msg_len -> 0 .. got]
  /\ pc = "header" => got = EndOf(Done)
  /\ pc \in {"body", "dispatch"} => Done < Len(frames) /\ msg_len = Next1.len
  /\ pc = "body" => remaining >= 1 /\ (CopiedInv \/ (conn = "error" /\ got = total))
  /\ pc = "dispatch" => remaining = 0 /\ CopiedInv

Inv == LayoutInv /\ DeliveredInv /\ ReaderInv
-----------------------------------------------------------------------------
LEMMA FrameFacts ==
  ASSUME LayoutInv, NEW k \in 1 .. Len(frames)
  PROVE  /\ frames[k] \in Frame
         /\ frames[k].at \in Nat /\ frames[k].len \in Nat \ {0}
         /\ frames[k].len \in Lengths
         /\ EndOf(k) \in Nat /\ frames[k].at + H < EndOf(k)
  <1>1. frames[k] \in Frame
    BY ElementOfSeq DEF LayoutInv
  <1>2. frames[k].at \in Nat /\ frames[k].len \in Nat \ {0} /\ frames[k].len \in Lengths
    BY <1>1, LengthsAssumption DEF Frame
  <1>3. k # 0
    OBVIOUS
  <1> QED
    BY <1>1, <1>2, <1>3, HAssumption DEF EndOf

LEMMA EndFacts ==
  ASSUME LayoutInv, NEW k \in 0 .. Len(frames)
  PROVE  /\ EndOf(k) \in Nat
         /\ k < Len(frames) => frames[k + 1].at = EndOf(k)
         /\ Len(frames) \in Nat
  <1>1. Len(frames) \in Nat
    BY LenProperties DEF LayoutInv
  <1>2. EndOf(k) \in Nat
    <2>1. CASE k = 0
      BY <2>1 DEF EndOf
    <2>2. CASE k # 0
      BY <1>1, <2>2, FrameFacts
    <2> QED
      BY <2>1, <2>2
  <1>3. ASSUME k < Len(frames) PROVE frames[k + 1].at = EndOf(k)
    <2>1. k + 1 \in 1 .. Len(frames) /\ (k + 1) - 1 = k
      BY <1>1, <1>3
    <2> QED
      BY <2>1 DEF LayoutInv
  <1> QED
    BY <1>1, <1>2, <1>3

\* Later frames end later.
LEMMA EndMonotone ==
  ASSUME LayoutInv, NEW k \in 0 .. Len(frames), NEW j \in 0 .. k
  PROVE  EndOf(j) <= EndOf(k)
  <1>1. EndOf(j) \in Nat /\ EndOf(k) \in Nat /\ Len(frames) \in Nat
    BY EndFacts
  <1>2. CASE j = k
    BY <1>1, <1>2
  <1>3. CASE j = 0
    BY <1>1, <1>3 DEF EndOf
  <1>4. CASE j # k /\ j # 0
    <2>1. k \in 1 .. Len(frames) /\ j \in 1 .. k - 1
      BY <1>1, <1>4
    <2>2. EndOf(j) <= frames[k].at
      BY <2>1 DEF LayoutInv
    <2>3. frames[k].at + H < EndOf(k) /\ frames[k].at \in Nat
      BY <2>1, FrameFacts
    <2> QED
      BY <1>1, <2>2, <2>3, HAssumption
  <1> QED
    BY <1>2, <1>3, <1>4

\* Two frames do not begin at the same byte: a length field tells one length.
LEMMA LengthAtFrame ==
  ASSUME LayoutInv, NEW k \in 1 .. Len(frames)
  PROVE  LengthsAt(frames[k].at) = {frames[k].len}
  <1>1. ASSUME NEW i \in 1 .. Len(frames), NEW j \in 1 .. i - 1
        PROVE  frames[j].at # frames[i].at
    <2>1. Len(frames) \in Nat /\ j \in 1 .. Len(frames)
      BY LenProperties DEF LayoutInv
    <2>2. EndOf(j) <= frames[i].at
      BY DEF LayoutInv
    <2>3. frames[j].at + H < EndOf(j) /\ frames[j].at \in Nat /\ EndOf(j) \in Nat
      BY <2>1, FrameFacts
    <2>4. frames[i].at \in Nat
      BY FrameFacts
    <2> QED
      BY <2>2, <2>3, <2>4, HAssumption
  <1>2. ASSUME NEW j \in 1 .. Len(frames), frames[j].at = frames[k].at
        PROVE  j = k
    <2>1. Len(frames) \in Nat
      BY LenProperties DEF LayoutInv
    <2>2. j < k => j \in 1 .. k - 1
      OBVIOUS
    <2>3. k < j => k \in 1 .. j - 1
      OBVIOUS
    <2>4. ~(j < k)
      BY <1>1, <1>2, <2>2
    <2>5. ~(k < j)
      BY <1>1, <1>2, <2>3
    <2> QED
      BY <2>1, <2>4, <2>5
  <1>3. {j \in 1 .. Len(frames) : frames[j].at = frames[k].at} = {k}
    BY <1>2
  <1> QED
    BY <1>3 DEF LengthsAt

\* What a read returns is what there is, and no more than was asked for.
LEMMA StatusFacts ==
  ASSUME NEW n \in Nat \ {0}, got \in 0 .. total, total \in Nat,
         NEW status \in Statuses(n)
  PROVE  /\ status \in Int
         /\ \/ status \in 1 .. n /\ got + status <= total
            \/ status = 0 /\ got = total
            \/ status = -1 /\ got = total /\ conn = "error"
  <1>1. CASE got < total
    BY <1>1 DEF Statuses
  <1>2. CASE got = total /\ conn = "closed"
    BY <1>2 DEF Statuses
  <1>3. CASE got = total /\ conn = "error"
    BY <1>3 DEF Statuses
  <1>4. CASE got = total /\ conn # "closed" /\ conn # "error"
    BY <1>4 DEF Statuses
  <1> QED
    BY <1>1, <1>2, <1>3, <1>4
-----------------------------------------------------------------------------
(* The steps.                                                              *)

\* A frame that is sent is added behind the others.
LEMMA SendKeeps == ASSUME Inv, SendFrame PROVE Inv'
  <1> USE DEF Inv
  <1>1. PICK n \in Lengths :
          /\ frames' = Append(frames, [at |-> total, len |-> n])
          /\ total' = total + H + n
    BY DEF SendFrame
  <1>2. UNCHANGED <<pc, got, msg_len, remaining, buffer, delivered, conn>> /\ conn = "open"
    BY DEF SendFrame, reader
  <1>3. n \in Nat \ {0} /\ total \in Nat /\ H \in Nat /\ total' \in Nat
    BY <1>1, LengthsAssumption, HAssumption DEF LayoutInv
  <1>4. [at |-> total, len |-> n] \in Frame
    BY <1>3 DEF Frame
  <1>5. /\ frames' \in Seq(Frame) /\ Len(frames') = Len(frames) + 1
        /\ \A k \in 1 .. Len(frames) : frames'[k] = frames[k]
        /\ frames'[Len(frames) + 1] = [at |-> total, len |-> n]
    BY <1>1, <1>4, AppendProperties DEF LayoutInv
  <1>6. Len(frames) \in Nat /\ Done \in Nat
    BY LenProperties DEF LayoutInv, DeliveredInv, Done
  <1>7. \A k \in 0 .. Len(frames) : EndOf(k)' = EndOf(k)
    BY <1>5, <1>6 DEF EndOf
  <1>8. EndOf(Len(frames))' = total' /\ total = EndOf(Len(frames))
    <2>1. Len(frames') # 0 /\ frames'[Len(frames')] = [at |-> total, len |-> n]
      BY <1>5, <1>6
    <2>2. EndOf(Len(frames))' = total + H + n
      BY <2>1 DEF EndOf
    <2> QED
      BY <1>1, <1>2, <2>2 DEF LayoutInv
  <1>9. LayoutInv'
    <2>1. \A k \in 1 .. Len(frames') : frames'[k].at = EndOf(k - 1)'
      <3> SUFFICES ASSUME NEW k \in 1 .. Len(frames')
                   PROVE  frames'[k].at = EndOf(k - 1)'
        OBVIOUS
      <3>1. CASE k \in 1 .. Len(frames)
        <4>1. k - 1 \in 0 .. Len(frames)
          BY <1>6, <3>1
        <4> QED
          BY <1>5, <1>7, <3>1, <4>1 DEF LayoutInv
      <3>2. CASE k = Len(frames) + 1
        <4>1. k - 1 = Len(frames) /\ Len(frames) \in 0 .. Len(frames)
          BY <1>6, <3>2
        <4> QED
          BY <1>5, <1>7, <1>8, <3>2, <4>1
      <3> QED
        BY <1>5, <1>6, <3>1, <3>2
    <2>2. \A k \in 1 .. Len(frames') : \A j \in 1 .. k - 1 : EndOf(j)' <= frames'[k].at
      <3> SUFFICES ASSUME NEW k \in 1 .. Len(frames'), NEW j \in 1 .. k - 1
                   PROVE  EndOf(j)' <= frames'[k].at
        OBVIOUS
      <3>1. j \in 0 .. Len(frames) /\ EndOf(j)' = EndOf(j)
        BY <1>5, <1>6, <1>7
      <3>2. CASE k \in 1 .. Len(frames)
        BY <1>5, <3>1, <3>2 DEF LayoutInv
      <3>3. CASE k = Len(frames) + 1
        <4>1. EndOf(j) <= EndOf(Len(frames))
          BY <1>6, <3>1, EndMonotone
        <4> QED
          BY <1>5, <1>8, <3>1, <3>3, <4>1
      <3> QED
        BY <1>5, <1>6, <3>2, <3>3
    <2>3. total' <= EndOf(Len(frames))' /\ total' = EndOf(Len(frames))'
      BY <1>3, <1>8
    <2> QED
      BY <1>2, <1>3, <1>5, <2>1, <2>2, <2>3 DEF LayoutInv
  <1>10. DeliveredInv'
    <2>1. \A k \in 1 .. Done : frames'[k] = frames[k]
      BY <1>5, <1>6 DEF DeliveredInv
    <2>2. \A k \in 1 .. Done : delivered[k] = Body(frames'[k])
      BY <2>1 DEF DeliveredInv
    <2>3. Done' = Done /\ Done' <= Len(frames')
      BY <1>2, <1>5, <1>6 DEF DeliveredInv, Done
    <2>4. \A k \in 1 .. Done' : delivered'[k] = Body(frames[k])'
      BY <1>2, <2>2, <2>3 DEF Body
    <2>5. delivered' \in Seq(Seq(Nat))
      BY <1>2 DEF DeliveredInv
    <2> QED
      BY <2>3, <2>4, <2>5 DEF DeliveredInv
  <1>11. ReaderInv'
    <2>1. Done' = Done /\ EndOf(Done)' = EndOf(Done)
      BY <1>2, <1>6, <1>7 DEF Done, DeliveredInv
    <2>2. Done < Len(frames) => Next1' = Next1
      BY <1>5, <1>6, <2>1 DEF Next1
    <2>3. got \in 0 .. total'
      BY <1>1, <1>3 DEF ReaderInv
    <2>4. Done < Len(frames) => Done' < Len(frames')
      BY <1>5, <1>6, <2>1
    <2> QED
      BY <1>2, <2>1, <2>2, <2>3, <2>4 DEF ReaderInv, CopiedInv
  <1> QED
    BY <1>9, <1>10, <1>11

LEMMA GoDownKeeps == ASSUME Inv, GoDown PROVE Inv'
  <1> USE DEF Inv
  <1>1. /\ UNCHANGED <<frames, pc, got, msg_len, remaining, buffer, delivered>>
        /\ conn = "open" /\ conn' \in {"closed", "error"}
        /\ total' \in got .. total
    BY DEF GoDown, reader
  <1>2. total' \in Nat /\ total' <= total /\ got \in 0 .. total' /\ total \in Nat
    BY <1>1 DEF LayoutInv, ReaderInv
  <1>3. EndOf(Len(frames)) \in Nat
    BY EndFacts, LenProperties DEF LayoutInv
  <1>4. LayoutInv'
    BY <1>1, <1>2, <1>3 DEF LayoutInv, EndOf
  <1>5. DeliveredInv'
    BY <1>1 DEF DeliveredInv, Done, Body
  <1>6. ReaderInv'
    BY <1>1, <1>2 DEF ReaderInv, CopiedInv, Done, Next1, EndOf
  <1> QED
    BY <1>4, <1>5, <1>6

\* The reader's steps leave the stream alone.
LEMMA LayoutStable == ASSUME LayoutInv, UNCHANGED server PROVE LayoutInv'
  BY DEF LayoutInv, server, EndOf

\* A length is only read where a frame begins.
LEMMA ReadHeaderKeeps == ASSUME Inv, ReadHeader PROVE Inv'
  <1> USE DEF Inv
  <1>1. PICK status \in Statuses(H) :
          /\ HeaderComplete(status)
          /\ Read(status)
          /\ msg_len' \in LengthsAt(got)
    BY DEF ReadHeader
  <1>2. /\ UNCHANGED <<frames, total, conn, delivered>> /\ remaining' = msg_len'
        /\ buffer' = [i \in 1 .. msg_len' |-> Uninitialized]
        /\ pc = "header" /\ pc' = "body" /\ got = EndOf(Done)
    BY DEF ReadHeader, server, ReaderInv
  <1>3. /\ Done \in 0 .. Len(frames) /\ Len(frames) \in Nat
        /\ EndOf(Done) \in Nat /\ EndOf(Len(frames)) \in Nat
    BY LenProperties, EndFacts DEF LayoutInv, DeliveredInv, Done
  <1>4. H \in Nat \ {0} /\ total \in Nat /\ got \in 0 .. total
    BY HAssumption DEF LayoutInv, ReaderInv
  <1>5. status = H /\ got' = got + H /\ got + H <= total
    BY <1>1, <1>4, StatusFacts DEF HeaderComplete, Read
  <1>6. Done < Len(frames)
    <2>1. got < EndOf(Len(frames))
      BY <1>3, <1>4, <1>5 DEF LayoutInv
    <2> QED
      BY <1>2, <1>3, <2>1
  <1>7. /\ Next1.at = got /\ Next1.len \in Nat \ {0} /\ Next1.len \in Lengths
        /\ msg_len' = Next1.len
    <2>1. Done + 1 \in 1 .. Len(frames)
      BY <1>3, <1>6
    <2>2. Next1.at = got
      BY <1>2, <1>3, <1>6, EndFacts DEF Next1
    <2> QED
      BY <1>1, <2>1, <2>2, FrameFacts, LengthAtFrame DEF Next1
  <1>8. UNCHANGED <<Done, Next1>> /\ EndOf(Done)' = EndOf(Done)
    BY <1>2 DEF Done, Next1, EndOf
  <1>9. CopiedInv'
    BY <1>2, <1>4, <1>5, <1>7, <1>8 DEF CopiedInv
  <1>10. got' \in 0 .. total' /\ EndOf(Done)' <= got'
    BY <1>2, <1>3, <1>4, <1>5, <1>8
  <1>11. buffer' \in [1 .. msg_len' -> 0 .. got']
    BY <1>2, <1>4, <1>5 DEF Uninitialized
  <1>12. ReaderInv'
    BY <1>2, <1>6, <1>7, <1>8, <1>9, <1>10, <1>11 DEF ReaderInv
  <1>13. DeliveredInv'
    BY <1>2 DEF DeliveredInv, Done, Body
  <1> QED
    BY <1>12, <1>13, LayoutStable DEF ReadHeader

LEMMA ReadHeaderFailsKeeps == ASSUME Inv, ReadHeaderFails PROVE Inv'
  <1> USE DEF Inv
  <1>1. PICK status \in Statuses(H) : Read(status)
    BY DEF ReadHeaderFails
  <1>2. /\ UNCHANGED <<frames, total, conn, delivered, msg_len, remaining, buffer>>
        /\ pc' = "stopped"
    BY DEF ReadHeaderFails, server
  <1>3. H \in Nat \ {0} /\ total \in Nat /\ got \in 0 .. total
    BY HAssumption DEF LayoutInv, ReaderInv
  <1>4. got' \in got .. total
    BY <1>1, <1>3, StatusFacts DEF Read
  <1>5. EndOf(Done) \in Nat
    BY LenProperties, EndFacts DEF DeliveredInv, Done
  <1>6. buffer' \in [1 .. msg_len' -> 0 .. got']
    BY <1>2, <1>3, <1>4 DEF ReaderInv
  <1>7. EndOf(Done)' <= got' /\ got' \in 0 .. total'
    BY <1>2, <1>3, <1>4, <1>5 DEF ReaderInv, EndOf, Done
  <1>8. ReaderInv'
    BY <1>2, <1>6, <1>7 DEF ReaderInv
  <1>9. DeliveredInv'
    BY <1>2 DEF DeliveredInv, Done, Body
  <1> QED
    BY <1>8, <1>9, LayoutStable DEF ReadHeaderFails

\* The next bytes behind the first ones are more of the first ones.
LEMMA PieceCopied ==
  ASSUME NEW m \in Nat, NEW r \in Nat, r <= m, NEW n \in 1 .. r, NEW a \in Nat,
         NEW i \in 1 .. m
  PROVE  (IF i - (m - r) \in 1 .. n THEN (a + (m - r)) + i - (m - r)
          ELSE IF i <= m - r THEN a + i ELSE 0)
         = (IF i <= m - (r - n) THEN a + i ELSE 0)
  <1>1. CASE i <= m - r
    BY <1>1
  <1>2. CASE i > m - r /\ i <= m - (r - n)
    BY <1>2
  <1>3. CASE i > m - (r - n)
    BY <1>3
  <1> QED
    BY <1>1, <1>2, <1>3

\* Each piece goes behind those before it; the last makes the message whole.
LEMMA ReadBodyKeeps == ASSUME Inv, ReadBody PROVE Inv'
  <1> USE DEF Inv
  <1>1. PICK status \in Statuses(remaining) :
          /\ Read(status)
          /\ buffer' = Copy(status)
          /\ remaining' = remaining - status
          /\ pc' = IF Complete(status) THEN "dispatch" ELSE "body"
    BY DEF ReadBody, Wanted
  <1>2. /\ UNCHANGED <<frames, total, conn, delivered, msg_len>> /\ pc = "body"
        /\ remaining >= 1
        /\ CopiedInv \/ (conn = "error" /\ got = total)
        /\ Done < Len(frames) /\ msg_len = Next1.len
    BY DEF ReadBody, server, ReaderInv
  <1>3. /\ Done \in Nat /\ Len(frames) \in Nat /\ total \in Nat /\ got \in 0 .. total
        /\ msg_len \in Nat /\ remaining \in Nat \ {0} /\ H \in Nat
    <2>1. Done \in Nat /\ Len(frames) \in Nat
      BY LenProperties DEF LayoutInv, DeliveredInv, Done
    <2>2. msg_len \in Nat /\ remaining \in Int /\ got \in 0 .. total
      BY LengthsAssumption DEF ReaderInv
    <2>3. total \in Nat /\ H \in Nat
      BY HAssumption DEF LayoutInv
    <2>4. remaining \in Nat \ {0}
      BY <1>2, <2>2
    <2> QED
      BY <2>1, <2>2, <2>3, <2>4
  <1>4. Next1.at \in Nat /\ EndOf(Done) \in Nat
    <2>1. Done + 1 \in 1 .. Len(frames) /\ Done \in 0 .. Len(frames)
      BY <1>2, <1>3
    <2> QED
      BY <2>1, FrameFacts, EndFacts DEF Next1
  <1>5. UNCHANGED <<Done, Next1>> /\ EndOf(Done)' = EndOf(Done)
    BY <1>2 DEF Done, Next1, EndOf
  <1>6. DeliveredInv'
    BY <1>2 DEF DeliveredInv, Done, Body
  <1>7. CASE status \in 1 .. remaining /\ got + status <= total
    <2>1. CopiedInv
      BY <1>2, <1>3, <1>7
    <2>2. /\ got' = got + status /\ remaining' = remaining - status
          /\ remaining' \in Nat /\ got' \in 0 .. total
      BY <1>1, <1>3, <1>7 DEF Read
    <2> DEFINE a == Next1.at + H
    <2>3. /\ got = a + (msg_len - remaining) /\ remaining <= msg_len
          /\ buffer = [i \in 1 .. msg_len |->
                         IF i <= msg_len - remaining THEN a + i ELSE 0]
      BY <2>1 DEF CopiedInv, Uninitialized
    <2>4. a \in Nat
      BY <1>3, <1>4
    <2>5. got' = a + (msg_len - remaining') /\ remaining' <= msg_len
      <3> HIDE DEF a
      <3> QED
        BY <1>3, <1>7, <2>2, <2>3, <2>4
    <2>6. buffer' = [i \in 1 .. msg_len |->
                       IF i <= msg_len - remaining' THEN a + i ELSE 0]
      <3> HIDE DEF a
      <3>1. ASSUME NEW i \in 1 .. msg_len
            PROVE  (IF i - (msg_len - remaining) \in 1 .. status
                    THEN got + i - (msg_len - remaining) ELSE buffer[i])
                   = (IF i <= msg_len - remaining' THEN a + i ELSE 0)
        <4>1. buffer[i] = IF i <= msg_len - remaining THEN a + i ELSE 0
          BY <2>3
        <4>2. (IF i - (msg_len - remaining) \in 1 .. status
               THEN (a + (msg_len - remaining)) + i - (msg_len - remaining)
               ELSE IF i <= msg_len - remaining THEN a + i ELSE 0)
              = (IF i <= msg_len - (remaining - status) THEN a + i ELSE 0)
          BY <1>3, <1>7, <2>3, <2>4, PieceCopied
        <4> QED
          BY <2>2, <2>3, <4>1, <4>2
      <3> QED
        BY <1>1, <3>1 DEF Copy
    <2>7. CopiedInv'
      BY <1>2, <1>5, <2>5, <2>6 DEF CopiedInv, Uninitialized
    <2>8. pc' = IF remaining' = 0 THEN "dispatch" ELSE "body"
      BY <1>1, <1>3, <1>7, <2>2 DEF Complete
    <2>9. buffer' \in [1 .. msg_len' -> 0 .. got']
      <3> HIDE DEF a
      <3>1. ASSUME NEW i \in 1 .. msg_len
            PROVE  (IF i <= msg_len - remaining' THEN a + i ELSE 0) \in 0 .. got'
        BY <1>3, <2>2, <2>4, <2>5
      <3> QED
        BY <1>2, <2>6, <3>1
    <2>10. EndOf(Done)' <= got'
      BY <1>3, <1>4, <1>5, <1>7, <2>2 DEF ReaderInv
    <2>11. ReaderInv'
      BY <1>2, <1>5, <2>2, <2>7, <2>8, <2>9, <2>10
         DEF ReaderInv
    <2> QED
      BY <1>6, <2>11, LayoutStable DEF ReadBody
  <1>8. CASE status <= 0 /\ got = total /\ (status = 0 \/ (status = -1 /\ conn = "error"))
    <2>1. /\ got' = got /\ remaining' = remaining - status /\ pc' = "body"
          /\ remaining' \in Nat \ {0}
      BY <1>1, <1>3, <1>8 DEF Read, Complete
    <2>2. buffer' = buffer
      <3>1. \A i \in 1 .. msg_len : i - (msg_len - remaining) \notin 1 .. status
        BY <1>3, <1>8
      <3>2. buffer' = [i \in 1 .. msg_len |-> buffer[i]]
        BY <1>1, <3>1 DEF Copy
      <3> QED
        BY <3>2 DEF ReaderInv
    <2>3. CASE status = 0
      <3>1. remaining' = remaining
        BY <1>3, <2>1, <2>3
      <3> QED
        BY <1>2, <1>5, <1>6, <2>1, <2>2, <3>1, LayoutStable
           DEF ReaderInv, CopiedInv, ReadBody
    <2>4. CASE conn = "error"
      BY <1>2, <1>5, <1>6, <1>8, <2>1, <2>2, <2>4, LayoutStable
         DEF ReaderInv, ReadBody
    <2> QED
      BY <1>8, <2>3, <2>4
  <1> QED
    BY <1>1, <1>3, <1>7, <1>8, StatusFacts

\* What is handed on is the message, and the next frame comes next.
LEMMA DispatchKeeps == ASSUME Inv, Dispatch PROVE Inv'
  <1> USE DEF Inv
  <1>1. /\ UNCHANGED <<frames, total, conn, got, msg_len, remaining, buffer>>
        /\ pc' = "header" /\ pc = "dispatch"
        /\ delivered' = Append(delivered, [i \in 1 .. msg_len |-> buffer[i]])
    BY DEF Dispatch, server
  <1>2. remaining = 0 /\ CopiedInv /\ Done < Len(frames) /\ msg_len = Next1.len
    BY <1>1 DEF ReaderInv
  <1>3. Done \in Nat /\ Len(frames) \in Nat /\ H \in Nat
    BY LenProperties, HAssumption DEF LayoutInv, DeliveredInv, Done
  <1>4. /\ Done + 1 \in 1 .. Len(frames) /\ Next1.at \in Nat
        /\ Next1.len \in Nat \ {0}
    <2>1. Done + 1 \in 1 .. Len(frames)
      BY <1>2, <1>3
    <2> QED
      BY <2>1, FrameFacts DEF Next1
  <1>5. [i \in 1 .. msg_len |-> buffer[i]] = Body(Next1)
    BY <1>2, <1>3, <1>4 DEF CopiedInv, Body
  <1>6. Body(Next1) \in Seq(Nat)
    <2>1. Body(Next1) \in [1 .. Next1.len -> Nat]
      BY <1>3, <1>4 DEF Body
    <2> QED
      BY <1>4, <2>1, SeqDef
  <1>7. /\ delivered' \in Seq(Seq(Nat)) /\ Len(delivered') = Done + 1
        /\ \A k \in 1 .. Done : delivered'[k] = delivered[k]
        /\ delivered'[Done + 1] = Body(Next1)
    <2>1. delivered' = Append(delivered, Body(Next1)) /\ delivered \in Seq(Seq(Nat))
      BY <1>1, <1>5 DEF DeliveredInv
    <2>2. /\ delivered' \in Seq(Seq(Nat)) /\ Len(delivered') = Len(delivered) + 1
          /\ \A k \in 1 .. Len(delivered) : delivered'[k] = delivered[k]
          /\ delivered'[Len(delivered) + 1] = Body(Next1)
      BY <1>6, <2>1, AppendProperties
    <2> QED
      BY <2>2 DEF Done
  <1>8. DeliveredInv'
    <2>1. Done' = Done + 1
      BY <1>7 DEF Done
    <2>2. \A k \in 1 .. Done + 1 : delivered'[k] = Body(frames[k])
      <3>1. \A k \in 1 .. Done : delivered'[k] = Body(frames[k])
        BY <1>7 DEF DeliveredInv
      <3>2. \A k \in 1 .. Done + 1 : k \in 1 .. Done \/ k = Done + 1
        BY <1>3
      <3>3. delivered'[Done + 1] = Body(frames[Done + 1])
        BY <1>7 DEF Next1
      <3> QED
        BY <3>1, <3>2, <3>3
    <2>3. \A k \in 1 .. Done' : delivered'[k] = Body(frames[k])'
      BY <1>1, <2>1, <2>2 DEF Body
    <2> QED
      BY <1>1, <1>4, <1>7, <2>1, <2>3 DEF DeliveredInv
  <1>9. got' = EndOf(Done)'
    <2>1. got = Next1.at + H + Next1.len
      BY <1>2, <1>3, <1>4 DEF CopiedInv
    <2>2. Done' = Done + 1 /\ Done + 1 # 0
      BY <1>3, <1>7 DEF Done
    <2>3. EndOf(Done)' = frames[Done + 1].at + H + frames[Done + 1].len
      BY <1>1, <2>2 DEF EndOf
    <2> QED
      BY <1>1, <2>1, <2>3 DEF Next1
  <1>10. ReaderInv'
    <2>1. got' \in Int
      BY <1>1 DEF ReaderInv, LayoutInv
    <2> QED
      BY <1>1, <1>9, <2>1 DEF ReaderInv
  <1> QED
    BY <1>8, <1>10, LayoutStable DEF Dispatch
-----------------------------------------------------------------------------
\* The inductive invariant of the reader.
THEOREM Invariance == Spec => []Inv
<1>1. Init => Inv
  <2> SUFFICES ASSUME Init PROVE Inv
    OBVIOUS
  <2>1. /\ frames = <<>> /\ total = 0 /\ conn = "open" /\ pc = "header" /\ got = 0
        /\ msg_len = 0 /\ remaining = 0 /\ buffer = <<>> /\ delivered = <<>>
    BY DEF Init
  <2>2. frames \in Seq(Frame) /\ Len(frames) = 0
    BY <2>1, EmptySeq
  <2>3. delivered \in Seq(Seq(Nat)) /\ Len(delivered) = 0
    BY <2>1, EmptySeq
  <2>4. EndOf(0) = 0
    BY DEF EndOf
  <2>5. LayoutInv
    BY <2>1, <2>2, <2>4 DEF LayoutInv
  <2>6. DeliveredInv
    BY <2>2, <2>3 DEF DeliveredInv, Done
  <2>7. buffer \in [1 .. msg_len -> 0 .. got]
    <3>1. buffer \in Seq(0 .. 0) /\ Len(buffer) = 0
      BY <2>1, EmptySeq
    <3> QED
      BY <2>1, <3>1, LenProperties
  <2>8. ReaderInv
    BY <2>1, <2>3, <2>4, <2>7 DEF ReaderInv, Done
  <2> QED
    BY <2>5, <2>6, <2>8 DEF Inv
<1>2. Inv /\ [Next]_vars => Inv'
  <2> SUFFICES ASSUME Inv, [Next]_vars PROVE Inv'
    OBVIOUS
  <2>1. CASE UNCHANGED vars
    BY <2>1 DEF vars, server, reader, Inv, LayoutInv, DeliveredInv, ReaderInv,
                CopiedInv, EndOf, Done, Next1, Body
  <2> QED
    BY <2>1, SendKeeps, GoDownKeeps, ReadHeaderKeeps, ReadHeaderFailsKeeps,
       ReadBodyKeeps, DispatchKeeps DEF Next
<1> QED
  BY <1>1, <1>2, PTL DEF Spec

\* Messages are handed on whole, in order, none twice and none left out.
THEOREM MessagesInOrder == Spec => []DeliveredInOrder
<1>1. Inv => DeliveredInOrder
  BY DEF Inv, DeliveredInv, Done, DeliveredInOrder
<1> QED
  BY <1>1, Invariance, PTL

\* The reader looks for a length only where a frame begins.
THEOREM LengthsAligned == Spec => []HeaderAligned
<1>1. Inv => HeaderAligned
  <2> SUFFICES ASSUME Inv, pc = "header"
               PROVE  \/ got = total
                      \/ Done < Len(frames) /\ got = frames[Done + 1].at
    BY DEF HeaderAligned, Done
  <2> USE DEF Inv
  <2>1. /\ Done \in 0 .. Len(frames) /\ Len(frames) \in Nat
        /\ EndOf(Len(frames)) \in Nat
    BY LenProperties, EndFacts DEF LayoutInv, DeliveredInv, Done
  <2>2. got = EndOf(Done) /\ got \in 0 .. total /\ total \in Nat
    BY DEF ReaderInv, LayoutInv
  <2>3. CASE Done = Len(frames)
    BY <2>1, <2>2, <2>3 DEF LayoutInv
  <2>4. CASE Done < Len(frames)
    BY <2>1, <2>2, <2>4, EndFacts
  <2> QED
    BY <2>1, <2>3, <2>4
<1> QED
  BY <1>1, Invariance, PTL

\* No read goes behind the end of the buffer.
THEOREM CopiesInBounds == Spec => []CopyInBounds
<1>1. Inv => CopyInBounds
  <2> SUFFICES ASSUME Inv, pc = "body", conn # "error" PROVE CopyInBounds
    BY DEF CopyInBounds
  <2> USE DEF Inv
  <2>1. /\ remaining >= 1 /\ CopiedInv /\ remaining \in Int
        /\ Done < Len(frames) /\ msg_len \in Nat /\ H \in Nat
    BY LengthsAssumption, HAssumption DEF ReaderInv
  <2>2. Next1.at \in Nat
    <3>1. Done + 1 \in 1 .. Len(frames)
      BY <2>1, LenProperties DEF LayoutInv, DeliveredInv, Done
    <3> QED
      BY <3>1, FrameFacts DEF Next1
  <2>3. remaining \in 1 .. msg_len
    BY <2>1 DEF CopiedInv
  <2>4. \A i \in 1 .. msg_len :
          buffer[i] = Uninitialized <=> i > msg_len - remaining
    <3> SUFFICES ASSUME NEW i \in 1 .. msg_len
                 PROVE  buffer[i] = Uninitialized <=> i > msg_len - remaining
      OBVIOUS
    <3>1. buffer[i] = IF i <= msg_len - remaining THEN Next1.at + H + i
                      ELSE Uninitialized
      BY <2>1 DEF CopiedInv
    <3> QED
      BY <2>1, <2>2, <3>1 DEF Uninitialized
  <2>5. {i \in 1 .. msg_len : buffer[i] = Uninitialized}
          = msg_len - remaining + 1 .. msg_len
    BY <2>1, <2>3, <2>4
  <2> QED
    BY <2>3, <2>5 DEF CopyInBounds
<1> QED
  BY <1>1, Invariance, PTL

\* Every variable keeps its type.
THEOREM TypeCorrect == Spec => []TypeOK
<1>1. Inv => TypeOK
  <2> SUFFICES ASSUME Inv PROVE TypeOK
    OBVIOUS
  <2> USE DEF Inv
  <2>1. total \in Nat /\ got \in 0 .. total /\ Len(frames) \in Nat /\ Done \in Nat
    BY LenProperties DEF LayoutInv, DeliveredInv, ReaderInv, Done
  <2>2. buffer \in [1 .. msg_len -> 0 .. total]
    BY <2>1 DEF ReaderInv
  <2>3. ASSUME NEW k \in 1 .. Done PROVE delivered[k] \in Seq(1 .. total)
    <3>1. k \in 1 .. Len(frames) /\ k \in 0 .. Done /\ Done \in 0 .. Len(frames)
      BY <2>1 DEF DeliveredInv
    <3>2. EndOf(k) <= EndOf(Done) /\ EndOf(k) \in Nat /\ EndOf(Done) \in Nat
      BY <3>1, EndMonotone, EndFacts
    <3>3. EndOf(k) <= total
      BY <2>1, <3>2 DEF ReaderInv
    <3>4. frames[k].at \in Nat /\ frames[k].len \in Nat \ {0}
      BY <3>1, FrameFacts
    <3>5. EndOf(k) = frames[k].at + H + frames[k].len
      BY <3>1 DEF EndOf
    <3>6. Body(frames[k]) \in [1 .. frames[k].len -> 1 .. total]
      <4> SUFFICES ASSUME NEW i \in 1 .. frames[k].len
                   PROVE  frames[k].at + H + i \in 1 .. total
        BY DEF Body
      <4> DEFINE at == frames[k].at
                 len == frames[k].len
      <4>1. at + H + len <= total /\ at \in Nat /\ len \in Nat /\ i \in 1 .. len
        BY <3>3, <3>4, <3>5
      <4> HIDE DEF at, len
      <4>2. at + H + i \in 1 .. total
        BY <2>1, <4>1, HAssumption
      <4> QED
        BY <4>2 DEF at
    <3>7. Body(frames[k]) \in Seq(1 .. total)
      BY <3>4, <3>6, SeqDef
    <3> QED
      BY <3>7 DEF DeliveredInv
  <2> QED
    <3>1. \A k \in 1 .. Done : delivered[k] \in Seq(1 .. total)
      BY <2>3
    <3> QED
      BY <2>1, <2>2, <3>1 DEF TypeOK, LayoutInv, ReaderInv, Done
<1> QED
  BY <1>1, Invariance, PTL
-----------------------------------------------------------------------------
(* HtspFraming implements MessageStream.                                   *)

\* A set of numbers that has with each one those below it is an interval.
LEMMA DownClosed ==
  ASSUME NEW n \in Nat, NEW S \in SUBSET (1 .. n),
         \A k \in S : \A j \in 1 .. k : j \in S
  PROVE  Cardinality(S) \in 0 .. n /\ S = 1 .. Cardinality(S)
  <1>1. IsFiniteSet(1 .. n) /\ Cardinality(1 .. n) = n
    BY FS_Interval
  <1>2. IsFiniteSet(S) /\ Cardinality(S) <= n /\ Cardinality(S) \in Nat
    <2>1. IsFiniteSet(S) /\ Cardinality(S) <= Cardinality(1 .. n)
      BY <1>1, FS_Subset
    <2> QED
      BY <1>1, <2>1, FS_CardinalityType
  <1>3. ASSUME NEW k \in S PROVE k <= Cardinality(S)
    <2>1. 1 .. k \in SUBSET S /\ k \in Nat /\ k >= 1
      <3>1. k \in 1 .. n /\ \A j \in 1 .. k : j \in S
        OBVIOUS
      <3> QED
        BY <3>1
    <2>2. Cardinality(1 .. k) <= Cardinality(S)
      BY <1>2, <2>1, FS_Subset
    <2>3. Cardinality(1 .. k) = k
      BY <2>1, FS_Interval
    <2> QED
      BY <2>2, <2>3
  <1>4. ASSUME NEW k \in 1 .. n, k \notin S PROVE k > Cardinality(S)
    <2>1. \A j \in S : j < k
      <3> SUFFICES ASSUME NEW j \in S, ~(j < k) PROVE FALSE
        OBVIOUS
      <3>1. k \in 1 .. j
        OBVIOUS
      <3> QED
        BY <1>4, <3>1
    <2>2. S \in SUBSET (1 .. k - 1) /\ k - 1 \in Nat
      BY <2>1
    <2>3. IsFiniteSet(1 .. k - 1) /\ Cardinality(1 .. k - 1) = k - 1
      BY <2>2, FS_Interval
    <2>4. Cardinality(S) <= k - 1
      BY <2>2, <2>3, FS_Subset
    <2> QED
      BY <1>2, <2>2, <2>4
  <1>5. \A k \in S : k \in 1 .. Cardinality(S)
    BY <1>2, <1>3
  <1>6. \A k \in 1 .. Cardinality(S) : k \in S
    <2> SUFFICES ASSUME NEW k \in 1 .. Cardinality(S), k \notin S PROVE FALSE
      OBVIOUS
    <2>1. k \in 1 .. n /\ k <= Cardinality(S)
      BY <1>2
    <2> QED
      BY <1>2, <1>4, <2>1
  <1>7. Cardinality(S) \in 0 .. n
    BY <1>2
  <1>8. S = 1 .. Cardinality(S)
    <2> DEFINE T == 1 .. Cardinality(S)
    <2>1. \A k \in S : k \in T
      BY <1>5
    <2>2. \A k \in T : k \in S
      BY <1>6
    <2> HIDE DEF T
    <2>3. S = T
      BY <2>1, <2>2, Zenon
    <2> QED
      BY <2>3 DEF T
  <1> QED
    BY <1>7, <1>8

Whole == Cardinality(Arrived)

\* The frames that are in the stream as a whole are the first ones; those that
\* were handed on are among them.
WholeInv ==
  /\ Whole \in 0 .. Len(frames) /\ Arrived = 1 .. Whole
  /\ Done \in 0 .. Whole /\ Len(frames) \in Nat
  /\ conn = "open" => Whole = Len(frames)
  /\ pc = "dispatch" => Done + 1 <= Whole

LEMMA WholeFrames == ASSUME Inv PROVE WholeInv
  <1> USE DEF Inv
  <1>1. /\ Len(frames) \in Nat /\ Done \in 0 .. Len(frames)
        /\ total \in Nat /\ got \in 0 .. total
    BY LenProperties DEF LayoutInv, DeliveredInv, ReaderInv, Done
  <1>2. Arrived = {k \in 1 .. Len(frames) : EndOf(k) <= total}
    <2>1. \A k \in 1 .. Len(frames) : EndOf(k) = frames[k].at + H + frames[k].len
      BY <1>1 DEF EndOf
    <2> QED
      BY <2>1 DEF Arrived
  <1>3. ASSUME NEW k \in Arrived, NEW j \in 1 .. k PROVE j \in Arrived
    <2>1. k \in 0 .. Len(frames) /\ j \in 0 .. k /\ j \in 0 .. Len(frames)
      BY <1>1, <1>2
    <2>2. EndOf(j) <= EndOf(k) /\ EndOf(j) \in Nat /\ EndOf(k) \in Nat
      BY <2>1, EndMonotone, EndFacts
    <2>3. EndOf(k) <= total /\ j \in 1 .. Len(frames)
      BY <1>1, <1>2
    <2>4. EndOf(j) <= total
      BY <1>1, <2>2, <2>3
    <2> QED
      BY <1>2, <2>3, <2>4
  <1>4. Whole \in 0 .. Len(frames) /\ Arrived = 1 .. Whole
    <2>1. Arrived \in SUBSET (1 .. Len(frames))
      BY <1>2
    <2> QED
      BY <1>1, <1>3, <2>1, DownClosed DEF Whole
  <1>5. Done <= Whole
    <2>1. CASE Done = 0
      BY <1>4, <2>1
    <2>2. CASE Done # 0
      <3>1. EndOf(Done) <= total
        <4>1. EndOf(Done) \in Nat
          BY <1>1, EndFacts
        <4> QED
          BY <1>1, <4>1 DEF ReaderInv
      <3>2. Done \in Arrived
        BY <1>1, <1>2, <2>2, <3>1
      <3> QED
        BY <1>4, <3>2
    <2> QED
      BY <2>1, <2>2
  <1>6. ASSUME conn = "open" PROVE Whole = Len(frames)
    <2>1. CASE Len(frames) = 0
      BY <1>4, <2>1
    <2>2. CASE Len(frames) # 0
      <3>1. EndOf(Len(frames)) <= total
        BY <1>1, <1>6 DEF LayoutInv
      <3>2. Len(frames) \in Arrived
        BY <1>1, <1>2, <2>2, <3>1
      <3> QED
        BY <1>1, <1>4, <3>2
    <2> QED
      BY <2>1, <2>2
  <1>7. ASSUME pc = "dispatch" PROVE Done + 1 <= Whole
    <2>1. Done + 1 \in 1 .. Len(frames) /\ Done + 1 # 0
      BY <1>1, <1>7 DEF ReaderInv
    <2>2. Next1.at \in Nat /\ Next1.len \in Nat /\ H \in Nat
      BY <2>1, FrameFacts, HAssumption DEF Next1
    <2>3. got = Next1.at + H + Next1.len
      BY <1>7, <2>2 DEF ReaderInv, CopiedInv
    <2>4. EndOf(Done + 1) <= total
      BY <1>1, <2>1, <2>2, <2>3 DEF EndOf, Next1
    <2>5. Done + 1 \in Arrived
      BY <1>2, <2>1, <2>4
    <2> QED
      BY <1>4, <2>5
  <1> QED
    BY <1>1, <1>4, <1>5, <1>6, <1>7 DEF WholeInv

LEMMA MapSend ==
  ASSUME Inv, Inv', WholeInv, WholeInv', SendFrame
  PROVE  Stream!Send
  <1>1. /\ conn = "open" /\ conn' = "open"
        /\ delivered' = delivered /\ Done' = Done
    BY DEF SendFrame, reader, Done
  <1>2. PICK n \in Lengths : frames' = Append(frames, [at |-> total, len |-> n])
    BY DEF SendFrame
  <1> DEFINE f == [at |-> total, len |-> n]
  <1>3. frames \in Seq(Frame) /\ f \in Frame
    BY DEF Inv, LayoutInv, Frame
  <1> HIDE DEF f
  <1>4. frames' = Append(frames, f) /\ frames' \in Seq(Frame)
    BY <1>2, <1>3 DEF f, Inv, LayoutInv
  <1>5. /\ Len(frames') = Len(frames) + 1
        /\ \A i \in 1 .. Len(frames) : frames'[i] = frames[i]
    BY <1>3, <1>4, AppendProperties
  <1>6. /\ Whole = Len(frames) /\ Whole' = Len(frames) + 1
        /\ Len(frames) \in Nat /\ Done \in 0 .. Len(frames)
    BY <1>1, <1>5 DEF WholeInv
  <1> DEFINE q == SubSeq(frames, Done + 1, Whole)
             r == SubSeq(frames', Done' + 1, Whole')
  <1>7. r = Append(q, f)
    <2>1. Done + 1 \in 1 .. Len(frames) + 1
      BY <1>6
    <2>2. SubSeq(Append(frames, f), Done + 1, Len(frames) + 1)
            = Append(SubSeq(frames, Done + 1, Len(frames)), f)
      BY <1>3, <2>1, SliceAppend
    <2> QED
      BY <1>1, <1>4, <1>6, <2>2
  <1>8. q \in Seq(Frame)
    <2>1. Done + 1 \in 1 .. Len(frames) + 1 /\ Whole \in (Done + 1) - 1 .. Len(frames)
      BY <1>6
    <2> QED
      BY <1>3, <2>1, SliceType
  <1>9. SubSeq(frames', 1, Done') = SubSeq(frames, 1, Done)
    <2>1. Done \in Nat /\ Done <= Len(frames) /\ Done <= Len(frames')
      BY <1>5, <1>6
    <2>2. \A i \in 1 .. Done : frames'[i] = frames[i]
      BY <1>5, <1>6
    <2>3. SubSeq(frames', 1, Done) = SubSeq(frames, 1, Done)
      BY <1>3, <1>4, <2>1, <2>2, SliceEqual
    <2> QED
      BY <1>1, <2>3
  <1> HIDE DEF q, r
  <1>10. /\ Append(q, f) \in Seq(Frame) /\ Len(Append(q, f)) = Len(q) + 1
         /\ Append(q, f)[Len(q) + 1] = f /\ Len(q) \in Nat
    BY <1>3, <1>8, AppendProperties, LenProperties
  <1>11. Append(q, f) # <<>>
    BY <1>10, EmptySeq
  <1>12. r[Len(r)] = f
    BY <1>7, <1>10
  <1>13. r # <<>> /\ r[Len(r)] \in Frame /\ r = Append(q, r[Len(r)])
    BY <1>3, <1>7, <1>11, <1>12
  <1> QED
    BY <1>1, <1>9, <1>13 DEF Stream!Send, Stream!Last, q, r, Whole, Done

LEMMA MapGoDown ==
  ASSUME Inv, WholeInv, WholeInv', GoDown
  PROVE  Stream!GoDown
  <1>1. /\ conn = "open" /\ conn' # "open" /\ total' \in got .. total
        /\ frames' = frames /\ delivered' = delivered /\ Done' = Done
    BY DEF GoDown, reader, Done
  <1>2. /\ frames \in Seq(Frame) /\ Len(frames) \in Nat
        /\ Whole = Len(frames) /\ Done \in 0 .. Len(frames)
    BY <1>1 DEF Inv, LayoutInv, WholeInv
  <1>3. Whole' \in Done .. Whole
    BY <1>1, <1>2 DEF WholeInv
  <1> DEFINE q == SubSeq(frames, Done + 1, Whole)
             n == Whole' - Done
  <1>4. /\ Done + 1 \in 1 .. Len(frames) + 1
        /\ Whole \in (Done + 1) - 1 .. Len(frames)
        /\ Whole' \in (Done + 1) - 1 .. Whole
        /\ Whole' - (Done + 1) + 1 = n
    BY <1>2, <1>3
  <1>5. Len(q) = Whole - (Done + 1) + 1
    BY <1>2, <1>4, SliceType
  <1>6. n \in 0 .. Len(q)
    <2>1. Done \in Int /\ Whole \in Int /\ Whole' \in Int
      BY <1>2, <1>3
    <2>2. Done <= Whole' /\ Whole' <= Whole
      BY <1>2, <1>3
    <2>3. Whole - (Done + 1) + 1 = Whole - Done
      BY <2>1
    <2>4. \A a, b, c \in Int : a <= b /\ b <= c => b - a \in 0 .. c - a
      OBVIOUS
    <2>5. n \in 0 .. Whole - Done
      BY <2>1, <2>2, <2>4
    <2> HIDE DEF n, q
    <2> QED
      BY <1>5, <2>3, <2>5
  <1>7. SubSeq(q, 1, Whole' - (Done + 1) + 1) = SubSeq(frames, Done + 1, Whole')
    BY <1>2, <1>4, SliceFront
  <1>8. SubSeq(frames', Done' + 1, Whole') = SubSeq(q, 1, n)
    BY <1>1, <1>4, <1>7
  <1>9. SubSeq(frames', 1, Done') = SubSeq(frames, 1, Done)
    BY <1>1
  <1> HIDE DEF n
  <1> QED
    BY <1>1, <1>6, <1>8, <1>9 DEF Stream!GoDown, Whole, Done

LEMMA MapDeliver ==
  ASSUME Inv, WholeInv, Dispatch
  PROVE  Stream!Deliver
  <1>1. /\ pc = "dispatch" /\ conn' = conn
        /\ frames' = frames /\ total' = total
    BY DEF Dispatch, server
  <1>2. Arrived' = Arrived /\ Whole' = Whole
    BY <1>1 DEF Arrived, Whole
  <1>3. Done' = Done + 1
    <2>1. msg_len \in Nat /\ buffer \in [1 .. msg_len -> 0 .. got] /\ got \in Nat
      BY LengthsAssumption DEF Inv, ReaderInv, LayoutInv
    <2>2. \A i \in 1 .. msg_len : buffer[i] \in Nat
      BY <2>1
    <2>3. [i \in 1 .. msg_len |-> buffer[i]] \in Seq(Nat)
      BY <2>1, <2>2, SeqDef
    <2> QED
      BY <2>3, AppendProperties DEF Dispatch, Inv, DeliveredInv, Done
  <1>4. /\ frames \in Seq(Frame) /\ Len(frames) \in Nat
        /\ Done \in Nat /\ Done + 1 <= Whole /\ Whole \in 0 .. Len(frames)
    BY <1>1 DEF Inv, LayoutInv, WholeInv
  <1> DEFINE m == Done + 1
             q == SubSeq(frames, m, Whole)
  <1>5. m \in 1 .. Len(frames) /\ Whole \in m .. Len(frames)
    BY <1>4
  <1>6. Head(q) = frames[m] /\ Tail(q) = SubSeq(frames, m + 1, Whole)
    BY <1>4, <1>5, HeadTailOfSubSeq
  <1>7. q # <<>>
    <2>1. m \in 1 .. Len(frames) + 1 /\ Whole \in m - 1 .. Len(frames)
      BY <1>4, <1>5
    <2>2. q \in Seq(Frame) /\ Len(q) = Whole - m + 1
      BY <1>4, <2>1, SliceType
    <2>3. Len(q) # 0
      BY <1>4, <2>2
    <2> QED
      BY <2>2, <2>3, EmptySeq
  <1>8. SubSeq(frames, 1, m) = Append(SubSeq(frames, 1, Done), frames[m])
    <2>1. 1 \in 1 .. Len(frames) /\ m \in 1 .. Len(frames) /\ m - 1 = Done
      BY <1>4, <1>5
    <2>2. SubSeq(frames, 1, m) = SubSeq(frames, 1, m - 1) \o <<frames[m]>>
      BY <1>4, <2>1, SubSeqRecursiveSecond
    <2>3. 1 \in 1 .. Len(frames) + 1 /\ Done \in 1 - 1 .. Len(frames)
      BY <1>4, <1>5
    <2>4. SubSeq(frames, 1, Done) \in Seq(Frame) /\ frames[m] \in Frame
      BY <1>4, <2>1, <2>3, SliceType, ElementOfSeq
    <2> QED
      BY <2>1, <2>2, <2>4, AppendIsConcat
  <1>9. SubSeq(frames', Done' + 1, Whole') = Tail(q)
    BY <1>1, <1>2, <1>3, <1>6
  <1>10. SubSeq(frames', 1, Done') = Append(SubSeq(frames, 1, Done), Head(q))
    BY <1>1, <1>3, <1>6, <1>8
  <1> HIDE DEF m
  <1>11. q = SubSeq(frames, Done + 1, Whole)
    BY DEF m
  <1> HIDE DEF q
  <1> QED
    BY <1>1, <1>7, <1>9, <1>10, <1>11 DEF Stream!Deliver, Whole, Done

\* A step that neither sends nor hands on is not seen.
LEMMA MapStutter ==
  ASSUME UNCHANGED <<server, delivered>>
  PROVE  UNCHANGED Stream!vars
  BY DEF server, Stream!vars, Arrived

\* ReadMessage turns the bytes into the messages of MessageStream: this is
\* what HtspConnection relies on.
THEOREM FramingIsStream == Spec => ImplementsStream
<1>1. Init => Stream!Init
  <2> SUFFICES ASSUME Init PROVE Stream!Init
    OBVIOUS
  <2>1. frames = <<>> /\ delivered = <<>> /\ total = 0 /\ conn = "open"
    BY DEF Init
  <2>2. frames \in Seq(Frame) /\ Len(frames) = 0 /\ Len(delivered) = 0
    BY <2>1, EmptySeq
  <2>3. Arrived = {}
    BY <2>2 DEF Arrived
  <2>4. Cardinality(Arrived) = 0
    BY <2>3, FS_EmptySet
  <2>5. /\ SubSeq(frames, 1, 0) \in Seq(Frame) /\ Len(SubSeq(frames, 1, 0)) = 0
    BY <2>2, SliceType
  <2>6. SubSeq(frames, 1, 0) = <<>>
    BY <2>5, EmptySeq
  <2> QED
    BY <2>1, <2>2, <2>4, <2>6 DEF Stream!Init
<1>2. Inv => WholeInv
  BY WholeFrames
<1>3. Inv /\ Inv' /\ WholeInv /\ WholeInv' /\ [Next]_vars
        => [Stream!Next]_Stream!vars
  <2> SUFFICES ASSUME Inv, Inv', WholeInv, WholeInv', [Next]_vars
               PROVE  [Stream!Next]_Stream!vars
    OBVIOUS
  <2>1. CASE SendFrame
    BY <2>1, MapSend DEF Stream!Next
  <2>2. CASE GoDown
    BY <2>2, MapGoDown DEF Stream!Next
  <2>3. CASE Dispatch
    BY <2>3, MapDeliver DEF Stream!Next
  <2>4. CASE ReadHeader \/ ReadHeaderFails \/ ReadBody
    BY <2>4, MapStutter DEF ReadHeader, ReadHeaderFails, ReadBody
  <2>5. CASE UNCHANGED vars
    BY <2>5, MapStutter DEF vars, reader
  <2> QED
    BY <2>1, <2>2, <2>3, <2>4, <2>5 DEF Next
<1> QED
  BY <1>1, <1>2, <1>3, Invariance, PTL DEF Spec, ImplementsStream, Stream!Spec
=============================================================================
