--------------------------- MODULE Demuxer_proofs ---------------------------
(***************************************************************************)
(* Proofs about Demuxer, for reads of every size, any number of calls of   *)
(* Parse, data that starts anywhere in the content, and any audio header.  *)
(* They use the safety part of the specification only.                     *)
(***************************************************************************)
EXTENDS Demuxer, SequenceLemmas

Positions == [k \in 1 .. written |-> k]

\* A read takes a part of what waits.
LEMMA ReadBytesBound ==
  ASSUME TypeOK
  PROVE  ReadBytes \in 0 .. Len(buffer_)
  <1>1. Len(buffer_) \in Nat
    BY LenProperties DEF TypeOK
  <1> QED
    BY <1>1, SizeAssumption DEF ReadBytes

\* What Parse appends are the next positions, and there are more of them then.
LEMMA ParsedBytes ==
  ASSUME TypeOK, ParseData
  PROVE  /\ written' \in Nat /\ written' >= written
         /\ buffer_' \in Seq(1 .. written') /\ got' \in Seq(1 .. written')
         /\ got \o buffer_ = Positions => got' \o buffer_' = Positions'
  <1>1. PICK n \in 1 .. Size + 1 :
          /\ buffer_' = buffer_ \o [k \in 1 .. n |-> written + k]
          /\ written' = written + n
    BY DEF ParseData
  <1> DEFINE new == [k \in 1 .. n |-> written + k]
  <1>2. n \in Nat /\ written \in Nat /\ written' \in Nat /\ written' >= written
    BY <1>1, SizeAssumption DEF TypeOK
  <1>3. new \in Seq(1 .. written')
    <2>1. new \in [1 .. n -> 1 .. written']
      BY <1>1, <1>2
    <2> QED
      BY <1>2, <2>1, SeqDef
  <1>4. 1 .. written \subseteq 1 .. written'
    BY <1>2
  <1>5. buffer_ \in Seq(1 .. written') /\ got \in Seq(1 .. written')
    BY <1>4, SeqMonotonic DEF TypeOK
  <1>6. got' = got
    BY DEF ParseData, reader
  <1>7. ASSUME got \o buffer_ = Positions
        PROVE  got' \o buffer_' = Positions'
    <2>1. got \o (buffer_ \o new) = (got \o buffer_) \o new
      BY <1>3, <1>5, ConcatAssociative, SMTT(30)
    <2>2. [k \in 1 .. written |-> k] \o new = [k \in 1 .. written + n |-> k]
      BY <1>2, NextBytes
    <2> QED
      BY <1>1, <1>6, <1>7, <2>1, <2>2 DEF Positions
  <1>8. buffer_' \in Seq(1 .. written')
    BY <1>1, <1>3, <1>5, ConcatProperties
  <1> QED
    BY <1>2, <1>5, <1>6, <1>7, <1>8

\* What Read returns is moved, and neither lost nor repeated.
LEMMA MovedBytes ==
  ASSUME TypeOK, ReadData
  PROVE  /\ buffer_' \in Seq(1 .. written) /\ got' \in Seq(1 .. written)
         /\ got' \o buffer_' = got \o buffer_
  <1>1. /\ buffer_ \in Seq(1 .. written) /\ got \in Seq(1 .. written)
        /\ got' = got \o SubSeq(buffer_, 1, ReadBytes)
        /\ buffer_' = SubSeq(buffer_, ReadBytes + 1, Len(buffer_))
    BY DEF TypeOK, ReadData, Copied, Erase
  <1>2. ReadBytes \in 0 .. Len(buffer_)
    BY <1>1, ReadBytesBound
  <1> DEFINE S == 1 .. written
  <1> HIDE DEF S
  <1>3. \A r, s \in Seq(S) : \A n \in 0 .. Len(s) :
          /\ r \o SubSeq(s, 1, n) \in Seq(S)
          /\ SubSeq(s, n + 1, Len(s)) \in Seq(S)
          /\ (r \o SubSeq(s, 1, n)) \o SubSeq(s, n + 1, Len(s)) = r \o s
    BY MoveFront
  <1>4. buffer_ \in Seq(S) /\ got \in Seq(S)
    BY <1>1 DEF S
  <1> DEFINE n == ReadBytes
  <1> HIDE DEF n
  <1>5. /\ got \o SubSeq(buffer_, 1, n) \in Seq(S)
        /\ SubSeq(buffer_, n + 1, Len(buffer_)) \in Seq(S)
        /\ (got \o SubSeq(buffer_, 1, n)) \o SubSeq(buffer_, n + 1, Len(buffer_))
             = got \o buffer_
    BY <1>2, <1>3, <1>4 DEF n
  <1> QED
    BY <1>1, <1>5 DEF n, S
-----------------------------------------------------------------------------
\* The type of the buffer and its threads.
LEMMA BufferTypeCorrect == DemuxerSafety => []TypeOK
<1>1. DemuxerInit => TypeOK
  <2> SUFFICES ASSUME DemuxerInit PROVE TypeOK
    OBVIOUS
  <2>1. buffer_ \in Seq(1 .. written) /\ got \in Seq(1 .. written)
    BY EmptySeq DEF DemuxerInit, Init
  <2>2. /\ calls \in 0 .. MaxParse /\ written \in Nat
        /\ eofAt \in Nat \cup {NotYet}
    BY BoundsAssumption DEF DemuxerInit, Init
  <2>3. end_of_file_ \in BOOLEAN /\ exited_ \in BOOLEAN /\ eos \in BOOLEAN
    BY DEF DemuxerInit, Init
  <2>4. /\ parse \in {"idle", "notify"} /\ result \in Results
        /\ read \in {"enters", "waits", "wakes", "ended", "done"}
        /\ dtor \in {"no", "notify", "join", "gone"}
    BY DEF DemuxerInit, Init, Results
  <2> QED
    BY <2>1, <2>2, <2>3, <2>4 DEF TypeOK
<1>2. TypeOK /\ [DemuxerNext]_demuxerVars => TypeOK'
  <2> SUFFICES ASSUME TypeOK, [DemuxerNext]_demuxerVars PROVE TypeOK'
    OBVIOUS
  <2> USE DEF shared, producer, reader
  <2>1. CASE InitStreamInfo
    BY <2>1 DEF InitStreamInfo, vars, TypeOK
  <2>2. CASE InitStreamInfoFails
    BY <2>2 DEF InitStreamInfoFails, TypeOK
  <2>3. CASE ReadFrame
    BY <2>3 DEF ReadFrame, vars, TypeOK
  <2>4. CASE ReadWaits \/ SpuriousWakeup
    BY <2>4 DEF ReadWaits, SpuriousWakeup, TypeOK
  <2>5. CASE ReadData
    <3>1. buffer_' \in Seq(1 .. written') /\ got' \in Seq(1 .. written')
      BY <2>5, MovedBytes DEF ReadData
    <3> QED
      BY <2>5, <3>1 DEF ReadData, TypeOK, Results
  <2>6. CASE ReadEnds
    BY <2>6 DEF ReadEnds, TypeOK, Results
  <2>7. CASE ParsingEnds
    <3>1. eos' \in BOOLEAN
      BY <2>7 DEF ParsingEnds
    <3> QED
      BY <2>7, <3>1 DEF ParsingEnds, TypeOK
  <2>8. CASE ParseData
    <3>1. calls' \in 0 .. MaxParse
      BY <2>8, BoundsAssumption DEF ParseData, Parse, TypeOK
    <3> QED
      BY <2>8, <3>1, ParsedBytes DEF ParseData, Parse, TypeOK
  <2>9. CASE ParseEnd
    <3>1. calls' \in 0 .. MaxParse
      BY <2>9, BoundsAssumption DEF ParseEnd, Parse, TypeOK
    <3> QED
      BY <2>9, <3>1 DEF ParseEnd, Parse, TypeOK
  <2>10. CASE ParseNotifies \/ ExitNotifies
    BY <2>10 DEF ParseNotifies, ExitNotifies, Notified, TypeOK
  <2>11. CASE Exit \/ Join
    BY <2>11 DEF Exit, Join, TypeOK
  <2>12. CASE UNCHANGED demuxerVars
    BY <2>12 DEF demuxerVars, vars, TypeOK
  <2>13. CASE ParsingFails
    BY <2>13 DEF ParsingFails, TypeOK
  <2> QED
    BY <2>1, <2>2, <2>3, <2>4, <2>5, <2>6, <2>7, <2>8, <2>9, <2>10, <2>11, <2>12,
       <2>13 DEF DemuxerNext, ReadStep, LoopEnds, LoopFails, Outside
<1> QED
  BY <1>1, <1>2, PTL DEF DemuxerSafety

\* Bytes come out of Read as they went into Parse: each once and in order.
THEOREM BytesInOrder == DemuxerSpec => []FirstInFirstOut
<1>1. DemuxerInit => FirstInFirstOut
  <2> SUFFICES ASSUME DemuxerInit PROVE FirstInFirstOut
    OBVIOUS
  <2>1. got = <<>> /\ buffer_ = <<>> /\ written = 0
    BY DEF DemuxerInit, Init
  <2>2. [k \in 1 .. 0 |-> k] \in Seq(Nat) /\ Len([k \in 1 .. 0 |-> k]) = 0
    BY SeqDef, LenProperties
  <2>3. [k \in 1 .. 0 |-> k] = <<>>
    BY <2>2, EmptySeq
  <2>4. <<>> \o <<>> = <<>>
    BY EmptySeq, ConcatEmptySeq
  <2> QED
    BY <2>1, <2>3, <2>4 DEF FirstInFirstOut
<1>2. TypeOK /\ FirstInFirstOut /\ [DemuxerNext]_demuxerVars => FirstInFirstOut'
  <2> SUFFICES ASSUME TypeOK, FirstInFirstOut, [DemuxerNext]_demuxerVars
               PROVE  FirstInFirstOut'
    OBVIOUS
  <2>1. CASE ParseData
    BY <2>1, ParsedBytes DEF FirstInFirstOut, Positions
  <2>2. CASE ReadData
    BY <2>2, MovedBytes DEF ReadData, producer, FirstInFirstOut
  <2>3. CASE UNCHANGED <<got, buffer_, written>>
    BY <2>3 DEF FirstInFirstOut
  <2> QED
    BY <2>1, <2>2, <2>3
       DEF DemuxerNext, ReadStep, LoopEnds, Outside, InitStreamInfo,
           InitStreamInfoFails, ReadFrame, ReadWaits, SpuriousWakeup, ReadEnds,
           LoopFails, ParsingFails, ParsingEnds, ParseEnd, ParseNotifies, ExitNotifies, Exit, Join,
           demuxerVars, vars, shared, producer, reader
<1> QED
  BY <1>1, <1>2, BufferTypeCorrect, PTL DEF DemuxerSpec, DemuxerSafety

\* The parser thread does not sleep while there is work, with no notification
\* on its way.
THEOREM WakeupsArrive == DemuxerSpec => []NoLostWakeup
<1>1. DemuxerInit => NoLostWakeup
  BY DEF DemuxerInit, Init, NoLostWakeup
<1>2. NoLostWakeup /\ [DemuxerNext]_demuxerVars => NoLostWakeup'
  <2> SUFFICES ASSUME NoLostWakeup, [DemuxerNext]_demuxerVars
               PROVE  NoLostWakeup'
    OBVIOUS
  <2> USE DEF NoLostWakeup
  <2>1. CASE ReadWaits
    BY <2>1 DEF ReadWaits, Ready, shared
  <2>2. CASE ParseData \/ ParseEnd
    BY <2>2 DEF ParseData, ParseEnd, Parse
  <2>3. CASE Exit
    BY <2>3 DEF Exit
  <2>4. CASE ParseNotifies \/ ExitNotifies
    BY <2>4 DEF ParseNotifies, ExitNotifies, Notified
  <2>5. CASE read' # "waits"
    BY <2>5
  <2>6. CASE Join
    BY <2>6 DEF Join, Ready, shared, producer, reader
  <2>7. CASE UNCHANGED vars
    BY <2>7 DEF vars, Ready, shared, producer, reader
  <2> QED
    BY <2>1, <2>2, <2>3, <2>4, <2>5, <2>6, <2>7
       DEF DemuxerNext, ReadStep, LoopEnds, Outside, InitStreamInfo,
           InitStreamInfoFails, ReadFrame, SpuriousWakeup, ReadData, ReadEnds,
           LoopFails, ParsingFails, ParsingEnds, demuxerVars
<1> QED
  BY <1>1, <1>2, PTL DEF DemuxerSpec, DemuxerSafety
-----------------------------------------------------------------------------
(* The end.  It is known when it was signalled; the destructor has been     *)
(* entered if and only if the flag is set, and nothing is parsed then.      *)

EndInv ==
  /\ end_of_file_ <=> eofAt # NotYet
  /\ eofAt # NotYet => eofAt <= written
  /\ exited_ <=> dtor # "no"
  /\ EndsAfterData

\* With an empty buffer everything has been read.
LEMMA AllRead ==
  ASSUME TypeOK, FirstInFirstOut, buffer_ = <<>>
  PROVE  Len(got) = written
  <1>1. got \o <<>> = got
    BY ConcatEmptySeq DEF TypeOK
  <1>2. got = [k \in 1 .. written |-> k]
    BY <1>1 DEF FirstInFirstOut
  <1> QED
    BY <1>2 DEF TypeOK

\* The end of the data is reported after the data, and the destruction after
\* everything.
THEOREM EndComesLast == DemuxerSpec => []EndsAfterData
<1>1. DemuxerInit => EndInv
  BY DEF DemuxerInit, Init, EndInv, EndsAfterData, NotYet
<1>2. /\ TypeOK /\ FirstInFirstOut /\ EndInv /\ [DemuxerNext]_demuxerVars
      => EndInv'
  <2> SUFFICES ASSUME TypeOK, FirstInFirstOut, EndInv,
                      [DemuxerNext]_demuxerVars
               PROVE  EndInv'
    OBVIOUS
  <2>0. written \in Nat /\ eofAt \in Nat \cup {NotYet} /\ Len(got) \in Nat
    BY LenProperties DEF TypeOK
  <2>1. CASE ParseData
    <3>1. written' >= written /\ written' \in Nat
      BY <2>1, ParsedBytes
    <3>2. dtor = "no" /\ UNCHANGED <<end_of_file_, exited_, eofAt, dtor>>
      BY <2>1 DEF ParseData, Parse
    <3>3. UNCHANGED <<got, result>>
      BY <2>1 DEF ParseData, reader
    <3> QED
      BY <2>0, <3>1, <3>2, <3>3 DEF EndInv, EndsAfterData, NotYet
  <2>2. CASE ParseEnd
    <3>1. dtor = "no" /\ UNCHANGED <<exited_, dtor, written, got, result>>
      BY <2>2 DEF ParseEnd, Parse, reader
    <3>2. /\ end_of_file_' = TRUE
          /\ eofAt' = IF eofAt = NotYet THEN written ELSE eofAt
      BY <2>2 DEF ParseEnd
    <3> QED
      BY <2>0, <3>1, <3>2 DEF EndInv, EndsAfterData, NotYet
  <2>3. CASE ReadData
    <3>1. result' = "data" /\ UNCHANGED <<end_of_file_, exited_, eofAt, written,
                                          dtor>>
      BY <2>3 DEF ReadData, producer
    <3> QED
      BY <3>1 DEF EndInv, EndsAfterData
  <2>4. CASE ReadEnds
    <3>1. UNCHANGED <<end_of_file_, exited_, eofAt, written, dtor, got>>
      BY <2>4 DEF ReadEnds, shared, producer
    <3>2. Len(got) = written
      BY <2>4, AllRead DEF ReadEnds, DataFirst
    <3>3. IF ~end_of_file_ /\ exited_ THEN result' = "AVERROR(EIO)"
          ELSE result' = "AVERROR_EOF" /\ end_of_file_
      BY <2>4 DEF ReadEnds, Fails, Ready, DataFirst
    <3> QED
      BY <2>0, <3>1, <3>2, <3>3 DEF EndInv, EndsAfterData
  <2>5. CASE Exit
    BY <2>5 DEF Exit, producer, reader, EndInv, EndsAfterData
  <2>6. CASE ExitNotifies
    BY <2>6 DEF ExitNotifies, shared, producer, EndInv, EndsAfterData
  <2>7. CASE Join
    BY <2>7 DEF Join, shared, producer, reader, EndInv, EndsAfterData
  <2>8. CASE UNCHANGED <<shared, written, eofAt, got, result, dtor>>
    BY <2>8 DEF shared, EndInv, EndsAfterData
  <2> QED
    BY <2>1, <2>2, <2>3, <2>4, <2>5, <2>6, <2>7, <2>8
       DEF DemuxerNext, ReadStep, LoopEnds, Outside, InitStreamInfo,
           InitStreamInfoFails, ReadFrame, ReadWaits, SpuriousWakeup,
           LoopFails, ParsingFails, ParsingEnds, ParseNotifies, demuxerVars,
           vars, producer, reader
<1>3. EndInv => EndsAfterData
  BY DEF EndInv
<1> QED
  BY <1>1, <1>2, <1>3, BufferTypeCorrect, BytesInOrder, PTL
     DEF DemuxerSpec, DemuxerSafety
-----------------------------------------------------------------------------
(* Time stamps.                                                            *)

StreamTypeOK ==
  /\ start \in Timestamps /\ anew \in BOOLEAN /\ extradata \in Extradata
  /\ streams_initialized_ \in BOOLEAN /\ has_packets_ \in BOOLEAN
  /\ timestamp_ \in {0, start}
  /\ samples_per_second \in {FromCodecpar} \cup 0 .. 14
  /\ packet.time \in Int /\ packet.pts \in Int
  /\ untimed \in BOOLEAN

\* The index that is read has three bits.
LEMMA SamplesRateBound ==
  ASSUME extradata \in Extradata, HasHeader
  PROVE  SamplesRateIndex \in 0 .. 7
  <1>1. extradata \in Seq(0 .. 255)
    BY ExtradataAssumption
  <1>2. 1 \in 1 .. Len(extradata) /\ 2 \in 1 .. Len(extradata)
    BY <1>1, LenProperties DEF HasHeader
  <1>3. extradata[1] \in 0 .. 255 /\ extradata[2] \in 0 .. 255
    BY <1>1, <1>2, ElementOfSeq
  <1>4. extradata[1] % 4 \in 0 .. 3
    BY <1>3
  <1>5. extradata[2] \div 128 \in 0 .. 1
    BY <1>3
  <1> QED
    BY <1>4, <1>5 DEF SamplesRateIndex

\* What a packet with a time stamp is made of.
LEMMA PacketMade ==
  ASSUME StreamTypeOK, TimedPacket
  PROVE  \E elapsed \in Int :
           LET pts == IF anew THEN elapsed ELSE start + elapsed
           IN /\ ~has_packets_ => elapsed \in {-1, 0}
              /\ timestamp_' = IF Zeroes(pts) THEN 0 ELSE timestamp_
              /\ \/ packet' = packet
                 \/ packet' = [time |-> start + elapsed, pts |-> pts + timestamp_']
  <1>1. PICK elapsed \in (IF has_packets_ THEN Elapsed ELSE ElapsedFirst),
             recognized \in BOOLEAN :
          LET time == start + elapsed
              pts == IF anew THEN elapsed ELSE time
          IN /\ timestamp_' = IF Zeroes(pts) THEN 0 ELSE timestamp_
             /\ packet' = IF recognized
                          THEN [time |-> time, pts |-> pts + timestamp_']
                          ELSE packet
    BY DEF TimedPacket
  <1>2. elapsed \in Int /\ (~has_packets_ => elapsed \in {-1, 0})
    BY DEF Elapsed, ElapsedFirst
  <1> DEFINE pts == IF anew THEN elapsed ELSE start + elapsed
  <1>3. timestamp_' = IF Zeroes(pts) THEN 0 ELSE timestamp_
    BY <1>1
  <1>4. \/ packet' = packet
        \/ packet' = [time |-> start + elapsed, pts |-> pts + timestamp_']
    BY <1>1
  <1> QED
    BY <1>2, <1>3, <1>4

LEMMA StreamTypeCorrect == DemuxerSafety => []StreamTypeOK
<1>1. DemuxerInit => StreamTypeOK
  <2> SUFFICES ASSUME DemuxerInit PROVE StreamTypeOK
    OBVIOUS
  <2>1. packet.time \in Int /\ packet.pts \in Int
    BY DEF DemuxerInit, NoPacket
  <2>2. /\ streams_initialized_ \in BOOLEAN /\ has_packets_ \in BOOLEAN
        /\ untimed \in BOOLEAN
    BY DEF DemuxerInit
  <2> QED
    BY <2>1, <2>2 DEF DemuxerInit, StreamTypeOK
<1>2. StreamTypeOK /\ [DemuxerNext]_demuxerVars => StreamTypeOK'
  <2> SUFFICES ASSUME StreamTypeOK, [DemuxerNext]_demuxerVars
               PROVE  StreamTypeOK'
    OBVIOUS
  <2>0. start \in Int /\ timestamp_ \in Int
    BY TimestampsAssumption DEF StreamTypeOK
  <2>1. CASE InitStreamInfo
    <3>1. PrepareAACHeader \in {FromCodecpar} \cup 0 .. 14
      BY SamplesRateBound DEF PrepareAACHeader, StreamTypeOK
    <3> QED
      BY <2>1, <3>1 DEF InitStreamInfo, data, StreamTypeOK
  <2>2. CASE ReadFrame /\ TimedPacket
    <3>1. /\ UNCHANGED <<data, streams_initialized_, samples_per_second>>
          /\ has_packets_' = TRUE /\ untimed' = untimed
      BY <2>2 DEF ReadFrame, TimedPacket
    <3>2. PICK elapsed \in Int :
            LET pts == IF anew THEN elapsed ELSE start + elapsed
            IN /\ timestamp_' = IF Zeroes(pts) THEN 0 ELSE timestamp_
               /\ \/ packet' = packet
                  \/ packet' = [time |-> start + elapsed, pts |-> pts + timestamp_']
      BY <2>2, PacketMade
    <3>3. timestamp_' \in {0, start} /\ timestamp_' \in Int
      BY <2>0, <3>2 DEF StreamTypeOK
    <3>4. packet'.time \in Int /\ packet'.pts \in Int
      BY <2>0, <3>2, <3>3 DEF StreamTypeOK
    <3> QED
      BY <3>1, <3>3, <3>4 DEF data, StreamTypeOK
  <2>3. CASE ReadFrame /\ UntimedPacket
    <3>1. untimed' \in BOOLEAN
      BY <2>3 DEF UntimedPacket
    <3> QED
      BY <2>3, <3>1 DEF ReadFrame, UntimedPacket, data, StreamTypeOK
  <2>4. CASE UNCHANGED <<data, parsing>>
    BY <2>4 DEF data, parsing, StreamTypeOK
  <2> QED
    BY <2>1, <2>2, <2>3, <2>4
       DEF DemuxerNext, InitStreamInfoFails, ReadFrame, ReadStep, LoopEnds,
           LoopFails, Outside, demuxerVars
<1> QED
  BY <1>1, <1>2, PTL DEF DemuxerSafety

\* Every variable of the demuxer keeps its type.
THEOREM TypeCorrect == DemuxerSpec => []DemuxerTypeOK
<1>1. TypeOK /\ StreamTypeOK => DemuxerTypeOK
  BY DEF StreamTypeOK, DemuxerTypeOK
<1> QED
  BY <1>1, BufferTypeCorrect, StreamTypeCorrect, PTL DEF DemuxerSpec

\* The first packet decides: with times of the content the offset is given up,
\* and with other times it is kept, unless it is too small to matter.  A first
\* packet with no time stamp keeps it in any case.
OffsetInv ==
  /\ ~has_packets_ => timestamp_ = start
  /\ has_packets_ /\ ~anew /\ ~untimed => timestamp_ = 0
  /\ untimed => has_packets_
  /\ has_packets_ /\ anew => timestamp_ = start \/ (timestamp_ = 0 /\ start <= 1)
  /\ ProperTimestamps

\* Every packet with a time stamp comes out with its time in the content, to
\* within half a second, wherever the data starts and in whatever order packets
\* come; unless the data has the times of the content and its first packet none.
THEOREM TimestampsProper == DemuxerSpec => []ProperTimestamps
<1>1. DemuxerInit => OffsetInv
  BY DEF DemuxerInit, OffsetInv, ProperTimestamps, InTime, NoPacket, kSegmentEps
<1>2. StreamTypeOK /\ OffsetInv /\ [DemuxerNext]_demuxerVars => OffsetInv'
  <2> SUFFICES ASSUME StreamTypeOK, OffsetInv, [DemuxerNext]_demuxerVars
               PROVE  OffsetInv'
    OBVIOUS
  <2>1. CASE ReadFrame /\ TimedPacket
    <3>0. start \in Nat
      BY TimestampsAssumption DEF StreamTypeOK
    <3>1. UNCHANGED <<start, anew, untimed>> /\ has_packets_' = TRUE
      BY <2>1 DEF ReadFrame, TimedPacket, data
    <3>2. PICK elapsed \in Int :
            LET pts == IF anew THEN elapsed ELSE start + elapsed
            IN /\ ~has_packets_ => elapsed \in {-1, 0}
               /\ timestamp_' = IF Zeroes(pts) THEN 0 ELSE timestamp_
               /\ \/ packet' = packet
                  \/ packet' = [time |-> start + elapsed, pts |-> pts + timestamp_']
      BY <2>1, PacketMade
    <3>3. CASE anew
      <4>1. timestamp_' = start \/ (timestamp_' = 0 /\ start <= 1)
        BY <3>0, <3>2, <3>3 DEF OffsetInv, Zeroes, kSegmentEps, StreamTypeOK
      <4>2. CASE packet' = packet
        BY <3>1, <3>2, <3>3, <4>1, <4>2 DEF OffsetInv, ProperTimestamps, InTime
      <4>3. CASE packet' = [time |-> start + elapsed, pts |-> elapsed + timestamp_']
        <5>1. packet'.pts - packet'.time = timestamp_' - start
          BY <3>0, <4>1, <4>3
        <5>2. packet'.pts - packet'.time \in -1 .. 1
          BY <3>0, <4>1, <5>1
        <5> QED
          BY <3>1, <3>3, <4>1, <5>2
             DEF OffsetInv, ProperTimestamps, InTime, kSegmentEps
      <4> QED
        BY <3>2, <3>3, <4>2, <4>3
    <3>4. CASE ~anew /\ untimed
      <4>1. has_packets_
        BY <3>4 DEF OffsetInv
      <4> QED
        BY <3>1, <3>4, <4>1 DEF OffsetInv, ProperTimestamps
    <3>5. CASE ~anew /\ ~untimed
      <4>1. timestamp_' = 0
        BY <3>0, <3>2, <3>5 DEF OffsetInv, Zeroes, kSegmentEps, StreamTypeOK
      <4>2. CASE packet' = packet
        BY <3>1, <3>5, <4>1, <4>2 DEF OffsetInv, ProperTimestamps, InTime
      <4>3. CASE packet' = [time |-> start + elapsed,
                            pts |-> start + elapsed + timestamp_']
        <5>1. packet'.pts - packet'.time \in -1 .. 1
          BY <3>0, <4>1, <4>3
        <5> QED
          BY <3>1, <3>5, <4>1, <5>1
             DEF OffsetInv, ProperTimestamps, InTime, kSegmentEps
      <4> QED
        BY <3>2, <3>5, <4>2, <4>3
    <3> QED
      BY <3>3, <3>4, <3>5
  <2>2. CASE ReadFrame /\ UntimedPacket
    <3>1. UNCHANGED <<start, anew, timestamp_, packet>> /\ has_packets_' = TRUE
      BY <2>2 DEF ReadFrame, UntimedPacket, data
    <3>2. untimed' = (untimed \/ ~has_packets_)
      BY <2>2 DEF UntimedPacket
    <3>3. CASE has_packets_
      <4>1. untimed' = untimed
        BY <3>2, <3>3 DEF StreamTypeOK
      <4> QED
        BY <3>1, <3>3, <4>1 DEF OffsetInv, ProperTimestamps, InTime
    <3>4. CASE ~has_packets_
      <4>1. untimed' = TRUE /\ timestamp_' = start'
        BY <3>1, <3>2, <3>4 DEF OffsetInv
      <4>2. ~untimed
        BY <3>4 DEF OffsetInv
      <4> QED
        BY <3>1, <4>1, <4>2 DEF OffsetInv, ProperTimestamps, InTime
    <3> QED
      BY <3>3, <3>4
  <2>3. CASE UNCHANGED <<start, anew, timestamp_, has_packets_, packet, untimed>>
    BY <2>3 DEF OffsetInv, ProperTimestamps, InTime
  <2> QED
    BY <2>1, <2>2, <2>3
       DEF DemuxerNext, InitStreamInfo, InitStreamInfoFails, ReadFrame, ReadStep,
           LoopEnds, LoopFails, Outside, demuxerVars, data, parsing
<1>3. OffsetInv => ProperTimestamps
  BY DEF OffsetInv
<1> QED
  BY <1>1, <1>2, <1>3, StreamTypeCorrect, PTL DEF DemuxerSpec, DemuxerSafety
=============================================================================
