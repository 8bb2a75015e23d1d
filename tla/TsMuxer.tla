------------------------------ MODULE TsMuxer ------------------------------
(***************************************************************************)
(* MpegTsMuxer (src/player/Muxer/mpegts_muxer.cpp): a frame becomes a PES  *)
(* packet, cut into transport packets of one size, and goes to             *)
(* tsOutCallback, with the tables that say what it belongs to before it    *)
(* when they are due.                                                      *)
(*                                                                         *)
(* An operation holds mMuxMtx from its start until the callback has        *)
(* returned; the steps in between are the turns of the loop of createPes.  *)
(* On the other side is a receiver, which only looks at the bytes, through *)
(* the functions that decode them in src/player/Muxer.  The k-th byte of   *)
(* the payload of a frame is 255 + k, which no byte of a header is.        *)
(***************************************************************************)
EXTENDS TsPacket

CONSTANTS
  PacketSize,      \* 188 in the code
  CcModulus,       \* 16 in the code
  PatInterval,     \* 20 in the code
  PesLengthLimit,  \* 65535 in the code
  StreamPidMap,    \* the PID of each type of stream
  PmtPid,
  PcrPid,
  Frames,          \* what encode() is called with
  Pcrs             \* what createPcr() is called with

\* A PID has 13 bits, and 0 is the PAT's.
ASSUME StreamAssumption ==
  /\ StreamPidMap \in [DOMAIN StreamPidMap -> 1 .. 8191]
  /\ DOMAIN StreamPidMap \subseteq 1 .. 255
  /\ PmtPid \in 1 .. 8191
  /\ PcrPid \in 0 .. 8191

\* A frame as the types of EsFrame allow it.  Nothing ties its stream type and its
\* PID to each other or to StreamPidMap; but whoever makes it has to keep it off
\* the PIDs of the tables.
FramePids == (1 .. 8191) \ {PmtPid}
Stamps == [1 .. 33 -> {0, 1}]
ASSUME FrameAssumption ==
  /\ \A f \in Frames :
       /\ f = [mStreamType |-> f.mStreamType, mPid |-> f.mPid,
               mStreamId |-> f.mStreamId, mRandomAccess |-> f.mRandomAccess,
               mPts |-> f.mPts, mDts |-> f.mDts, mPcr |-> f.mPcr, size |-> f.size]
       /\ f.mStreamType \in 0 .. 255
       /\ f.mPid \in FramePids
       /\ f.mStreamId \in 0 .. 255 /\ f.mRandomAccess \in {0, 1}
       /\ {f.mPts, f.mDts, f.mPcr} \subseteq Stamps
       /\ f.size \in Nat
  /\ Pcrs \subseteq Stamps

\* The first packet has room for the longest headers, the PMT is one packet, and
\* the length of an adaptation field is a byte.
ASSUME SizeAssumption ==
  /\ PacketSize \in 4 + 8 + 9 + 10 + 1 .. 5 + 255
  /\ 5 + 12 + 5 * Cardinality(DOMAIN StreamPidMap) + 4 <= PacketSize
  /\ CcModulus \in 2 .. 16
  /\ PatInterval \in Nat \ {0}
  /\ PesLengthLimit \in Nat /\ PesLengthLimit <= 65535

VARIABLES
  mMuxType,
  mPidCcMap,      \* stream type -> continuity counter
  lCurrentIndex,  \* static: shared by all muxers of the program
  pc,             \* where the operation that holds mMuxMtx is
  op,             \* "encode", "createPcr" or "createNull"
  frame,
  pos,            \* of frame.mData
  lRandomAccess,
  lSb,
  seen            \* the receiver: PID -> continuity counter of the last packet

vars == <<mMuxType, mPidCcMap, lCurrentIndex, pc, op, frame, pos,
          lRandomAccess, lSb, seen>>

NoFrame == [mStreamType |-> 0, mPid |-> 0, size |-> 0]
MuxTypes == {"unknown", "segmentType", "h222Type", "dvbType"}
Types == {f.mStreamType : f \in Frames}
Pid(f) == f.mPid
Data(f) == [k \in 1 .. f.size |-> 255 + k]
-----------------------------------------------------------------------------
(* The packets.                                                            *)

\* Mutant: the counter does not wrap around.
NextCcUnwrapped(ccs, key) == IF key \in DOMAIN ccs THEN ccs[key] + 1 ELSE 0

NextCc(ccs, key) ==
  IF key \in DOMAIN ccs THEN (ccs[key] + 1) % CcModulus ELSE 0

\* Mutant: only the first counter of a key is kept.
getCcOnce(ccs, key) ==
  [k \in DOMAIN ccs \cup {key} |-> IF k \in DOMAIN ccs THEN ccs[k] ELSE NextCc(ccs, key)]

getCc(ccs, key) ==
  [k \in DOMAIN ccs \cup {key} |-> IF k = key THEN NextCc(ccs, key) ELSE ccs[k]]

\* A section is stuffed with bytes 0xff up to the size of a packet; its CRC does
\* not cover the transport header and the pointer, which is an adaptation field
\* header of length 0.
Section(lPid, lCc, section) ==
  LET lTsHeader == [NewTsHeader EXCEPT !.mPayloadUnitStartIndicator = 1,
                      !.mPid = lPid, !.mAdaptationFieldControl = 1,
                      !.mContinuityCounter = lCc]
      bytes == Encode(TsHeader, lTsHeader)
               \o EncodeAdaptation(Zero(AdaptationFieldHeader))
               \o section \o crc32(section)
  IN bytes \o Filled(PacketSize - Len(bytes), 255)

createPat(lCc) ==
  LET lPatHeader == [Zero(PATHeader) EXCEPT !.mSectionSyntaxIndicator = 1,
                       !.mReserved0 = 3, !.mSectionLength = 4 + 4 + 5,
                       !.mReserved1 = 3, !.mCurrentNextIndicator = 1]
  IN Section(0, lCc, Encode(PATHeader, lPatHeader)
                     \o Octets(Bits(1, 16) \o Filled(3, 1) \o Bits(PmtPid, 13)))

\* Mutant: the section is thought to end before its CRC.
LengthWithoutCrc(size) == size - 3

\* Counted from behind the length itself, with the CRC.
PmtSectionLength(size) == size - 3 + 4

\* The greatest type of a stream there is.
LastType == Max({0} \cup DOMAIN StreamPidMap)

\* What PMTHeader::encode adds for the streams, in the order of their types.
mInfos ==
  LET UpTo[t \in 0 .. LastType] ==
        IF t = 0 THEN <<>>
        ELSE IF t \in DOMAIN StreamPidMap
             THEN UpTo[t - 1] \o Encode(PMTElementInfo,
                                       NewPMTElementInfo(t, StreamPidMap[t]))
             ELSE UpTo[t - 1]
  IN UpTo[LastType]

createPmt(lCc) ==
  LET lPmtHeader == [Zero(PMTHeader) EXCEPT !.mTableId = 2,
                       !.mSectionSyntaxIndicator = 1, !.mReserved0 = 3,
                       !.mSectionLength = PmtSectionLength(12 + Len(mInfos)),
                       !.mProgramNumber = 1, !.mReserved1 = 3,
                       !.mCurrentNextIndicator = 1, !.mReserved2 = 7,
                       !.mPcrPid = PcrPid, !.mReserved3 = 15]
  IN Section(PmtPid, lCc, Encode(PMTHeader, lPmtHeader) \o mInfos)

\* The header of the first packet with the PCR, with the random access flag only,
\* or with neither.
FirstHeader(f, lTsHeader) ==
  LET both == Encode(TsHeader, [lTsHeader EXCEPT !.mAdaptationFieldControl = 3])
      adaptation == [Zero(AdaptationFieldHeader) EXCEPT
                       !.mRandomAccessIndicator = f.mRandomAccess]
  IN CASE Pid(f) = PcrPid ->
            both \o EncodeAdaptation([adaptation EXCEPT
                                        !.mAdaptationFieldLength = 7, !.mPcrFlag = 1])
                 \o writePcr(f.mPcr)
       [] Pid(f) # PcrPid /\ f.mRandomAccess = 1 ->
            both \o EncodeAdaptation([adaptation EXCEPT !.mAdaptationFieldLength = 1])
       [] OTHER -> Encode(TsHeader, lTsHeader)

PesLength(f, lHeaderDataLength) ==
  LET lPesSize == lHeaderDataLength + f.size + 3
  IN IF lPesSize > PesLengthLimit THEN 0 ELSE lPesSize

EncodePes(f) ==
  LET both == f.mPts # f.mDts
      length == IF both THEN 10 ELSE 5
  IN Encode(PESHeader, [NewPESHeader EXCEPT !.mStreamId = f.mStreamId,
                          !.mOriginalOrCopy = 1,
                          !.mPtsDtsFlags = IF both THEN 3 ELSE 2,
                          !.mHeaderDataLength = length,
                          !.mPesPacketLength = PesLength(f, length)])
     \o IF both THEN writePts(3, f.mPts) \o writePts(1, f.mDts)
        ELSE writePts(2, f.mPts)

\* Everything before the payload.
BeforePayload(f, first, cc) ==
  LET lTsHeader == [NewTsHeader EXCEPT !.mPid = Pid(f), !.mContinuityCounter = cc,
                      !.mAdaptationFieldControl = 1,
                      !.mPayloadUnitStartIndicator = IF first THEN 1 ELSE 0]
  IN IF first THEN FirstHeader(f, lTsHeader) \o EncodePes(f)
     ELSE Encode(TsHeader, lTsHeader)

\* What is added for an adaptation field: its length, its flags if there is room
\* for them, and stuffing.  Mutant: there is always room.
AddedWithFlags(lStuffSize) ==
  <<lStuffSize - 1, 0>> \o Filled(Max({lStuffSize - 2, 0}), 255)
Added(lStuffSize) ==
  <<lStuffSize - 1>>
  \o (IF lStuffSize >= 2 THEN <<0>> \o Filled(lStuffSize - 2, 255) ELSE <<>>)

\* Room is made before the PES header: in the adaptation field, which there is
\* already or is added by the flag in byte 3.
Stuffed(packet, lStuffSize) ==
  LET base == 5 + packet[5]
  IN IF (packet[4] \div 16) % 4 = 3
     THEN [SubSeq(packet, 1, base) EXCEPT ![5] = @ + lStuffSize]
          \o Filled(lStuffSize, 255) \o SubSeq(packet, base + 1, Len(packet))
     ELSE [SubSeq(packet, 1, 4) EXCEPT ![4] = @ + 32]
          \o Added(lStuffSize) \o SubSeq(packet, 5, Len(packet))

BodySize(f, start) == PacketSize - Len(BeforePayload(f, start = 0, 0))

\* What one turn of the loop of createPes takes of the data.
Taken(f, start) == Min({BodySize(f, start), f.size - start})

PesPacket(f, start, cc) ==
  LET packet == BeforePayload(f, start = 0, cc)
      size == Taken(f, start)
      stuffing == BodySize(f, start) - size
      stuffed == IF stuffing = 0 THEN packet ELSE Stuffed(packet, stuffing)
  IN SetData(stuffed \o Filled(size, 0), Len(stuffed),
             SubSeq(Data(f), start + 1, start + size))
-----------------------------------------------------------------------------
(* The operations.                                                         *)

Init ==
  /\ mMuxType \in MuxTypes
  /\ mPidCcMap = <<>>
  /\ lCurrentIndex = 0
  /\ pc = "idle"
  /\ op = "none"
  /\ frame = NoFrame
  /\ pos = 0
  /\ lRandomAccess = FALSE
  /\ lSb = <<>>
  /\ seen = <<>>

shouldCreatePat == lCurrentIndex % PatInterval = 0
NextIndex == IF shouldCreatePat THEN 1 ELSE lCurrentIndex + 1

TablesDue(randomAccess) ==
  \/ mMuxType = "segmentType" /\ randomAccess
  \/ mMuxType = "h222Type" /\ shouldCreatePat

\* encode(), until the loop of createPes.
EncodeFrame(f, randomAccess) ==
  /\ pc = "idle"
  /\ LET lPatPmtCc == NextCc(mPidCcMap, 0)
     IN IF TablesDue(randomAccess)
        THEN /\ lSb' = createPat(lPatPmtCc) \o createPmt(lPatPmtCc)
             /\ mPidCcMap' = getCc(mPidCcMap, 0)
        ELSE UNCHANGED <<lSb, mPidCcMap>>
  /\ lCurrentIndex' = IF mMuxType = "h222Type" THEN NextIndex ELSE lCurrentIndex
  /\ pc' = "createPes"
  /\ op' = "encode"
  /\ frame' = f
  /\ lRandomAccess' = randomAccess
  /\ UNCHANGED <<mMuxType, pos, seen>>

createPes ==
  LET key == frame.mStreamType
      packet == PesPacket(frame, pos, NextCc(mPidCcMap, key))
  IN /\ pc = "createPes"
     /\ pos < frame.size
     /\ mPidCcMap' = getCc(mPidCcMap, key)
     /\ lSb' = lSb \o packet
     /\ pos' = pos + Taken(frame, pos)
     /\ UNCHANGED <<mMuxType, lCurrentIndex, pc, op, frame, lRandomAccess, seen>>

\* The frame is used up: tsOutCallback is called.
PesDone ==
  /\ pc = "createPes"
  /\ pos >= frame.size
  /\ pc' = "callback"
  /\ UNCHANGED <<mMuxType, mPidCcMap, lCurrentIndex, op, frame, pos,
                 lRandomAccess, lSb, seen>>

\* Mutant: the length counts itself.
PcrAdaptationWithLength == PacketSize - 4

PcrAdaptationLength == PacketSize - 4 - 1

PcrPacket(lPcr) ==
  LET bytes ==
        Encode(TsHeader, [NewTsHeader EXCEPT !.mPid = PcrPid,
                            !.mAdaptationFieldControl = 2])
        \o EncodeAdaptation([Zero(AdaptationFieldHeader) EXCEPT
             !.mAdaptationFieldLength = PcrAdaptationLength, !.mPcrFlag = 1])
        \o writePcr(lPcr)
  IN bytes \o Filled(PacketSize - Len(bytes), 255)

\* The header is all that is sent of a null packet.
NullPacket ==
  Encode(TsHeader, [NewTsHeader EXCEPT !.mPid = 8191, !.mAdaptationFieldControl = 1])

Sends(operation, bytes) ==
  /\ pc = "idle"
  /\ pc' = "callback"
  /\ op' = operation
  /\ lSb' = bytes
  /\ UNCHANGED <<mMuxType, mPidCcMap, lCurrentIndex, frame, pos,
                 lRandomAccess, seen>>

createPcr == \E lPcr \in Pcrs : Sends("createPcr", PcrPacket(lPcr))
createNull == Sends("createNull", NullPacket)

\* Another muxer of the program encodes a frame.  The index is next looked at
\* when an operation starts, and only by a muxer of this type.
OtherMuxer ==
  /\ pc = "idle"
  /\ mMuxType = "h222Type"
  /\ lCurrentIndex' = NextIndex
  /\ UNCHANGED <<mMuxType, mPidCcMap, pc, op, frame, pos, lRandomAccess, lSb, seen>>
-----------------------------------------------------------------------------
(* The receiver.                                                           *)

Packet(k) == SubSeq(lSb, (k - 1) * PacketSize + 1, k * PacketSize)
Packets == 1 .. Len(lSb) \div PacketSize
Header(k) == DecodeTsHeader(SubSeq(Packet(k), 1, 4))
HasPayload(k) == Header(k).mAdaptationFieldControl \in {1, 3}
HasAdaptation(k) == Header(k).mAdaptationFieldControl \in {2, 3}
Adaptation(k) == DecodeAdaptation(SubSeq(Packet(k), 5, 6))
Payload(k) ==
  SubSeq(Packet(k), 5 + (IF HasAdaptation(k) THEN 1 + Packet(k)[5] ELSE 0),
         PacketSize)
Of(pid) == {k \in Packets : HasPayload(k) /\ Header(k).mPid = pid}
LastCounter(pid, packets) ==
  IF packets = {} THEN seen[pid] ELSE Header(Max(packets)).mContinuityCounter
Pids == {0, PmtPid} \cup {f.mPid : f \in Frames}

\* The callback has returned, and with it the operation.
CallbackReturns ==
  /\ pc = "callback"
  /\ seen' = [pid \in DOMAIN seen \cup {p \in Pids : Of(p) # {}} |->
                LastCounter(pid, Of(pid))]
  /\ pc' = "idle"
  /\ op' = "none"
  /\ frame' = NoFrame
  /\ pos' = 0
  /\ lRandomAccess' = FALSE
  /\ lSb' = <<>>
  /\ UNCHANGED <<mMuxType, mPidCcMap, lCurrentIndex>>

Next ==
  \/ \E f \in Frames, randomAccess \in BOOLEAN : EncodeFrame(f, randomAccess)
  \/ createPes
  \/ PesDone
  \/ createPcr
  \/ createNull
  \/ OtherMuxer
  \/ CallbackReturns

Spec == Init /\ [][Next]_vars
-----------------------------------------------------------------------------
TypeOK ==
  /\ mMuxType \in MuxTypes
  /\ DOMAIN mPidCcMap \subseteq {0} \cup Types
  /\ \A key \in DOMAIN mPidCcMap : mPidCcMap[key] \in 0 .. CcModulus - 1
  /\ lCurrentIndex \in 0 .. PatInterval
  /\ pc \in {"idle", "createPes", "callback"}
  /\ op \in {"none", "encode", "createPcr", "createNull"}
  /\ frame \in Frames \cup {NoFrame}
  /\ pos \in 0 .. frame.size
  /\ lRandomAccess \in BOOLEAN
  /\ \A k \in DOMAIN lSb : lSb[k] \in 0 .. 255 + frame.size
  /\ DOMAIN seen \subseteq Pids
  /\ \A pid \in DOMAIN seen : seen[pid] \in 0 .. CcModulus - 1

\* What goes to the callback, the null packet apart, can be cut into packets of
\* one size, each with a sync byte, and an adaptation field that takes the whole
\* packet or leaves room for a payload, as its header says: the stuffing of
\* createPes and of createPcr leaves no byte missing or over.
WholePackets ==
  op # "createNull" =>
    /\ Len(lSb) % PacketSize = 0
    /\ \A k \in Packets :
         /\ Header(k).mSyncByte = 71
         /\ HasAdaptation(k) => IF HasPayload(k) THEN 5 + Packet(k)[5] < PacketSize
                                ELSE 5 + Packet(k)[5] = PacketSize

\* The receiver sees the counter of a PID go up by one with each packet that has a
\* payload, over all operations.
CountsOn(pid) ==
  LET packets == Of(pid)
  IN \A k \in packets :
       LET before == {j \in packets : j < k}
       IN before # {} \/ pid \in DOMAIN seen =>
            Header(k).mContinuityCounter
              = (LastCounter(pid, before) + 1) % CcModulus

\* PAT and PMT are counted together, and with frames of stream type 0; frames
\* are counted by their type.
CountedAlone(pid) ==
  IF pid \in {0, PmtPid} THEN 0 \notin Types
  ELSE \E type \in Types \ {0} :
         \A f \in Frames : f.mPid = pid <=> f.mStreamType = type

\* getCc counts by type of stream (mpegts_muxer.cpp:126), and PAT and PMT share a
\* counter: that is what every PID needs whose frames are all of one type that
\* no other PID has, and what the tables need if no frame has type 0.
Continuity ==
  pc = "callback" => \A pid \in Pids : CountedAlone(pid) => CountsOn(pid)

\* getCc is declared with the parameter lWithPid, for mPidCcMap
\* (mpegts_muxer.h:45,49): the packets of each PID are counted.
CountedByPid == pc = "callback" => \A pid \in Pids : CountsOn(pid)

\* The payloads of the packets of a PID, put together.
Received(pid) ==
  LET packets == Of(pid)
      UpTo[k \in 0 .. Len(lSb) \div PacketSize] ==
        IF k = 0 THEN <<>>
        ELSE IF k \in packets THEN UpTo[k - 1] \o Payload(k) ELSE UpTo[k - 1]
  IN UpTo[Len(lSb) \div PacketSize]

SameStamp(octets, stamp) == Tail(readPts(octets)) = Tail(stamp)

\* A receiver that puts the payloads of the frame's PID together gets the PES
\* packet createPes has written: stream, time stamps (but for the highest of the
\* 33 bits, which readPts loses), every byte of the data once and in order, and
\* a length that is right or, if the packet is too long for it, zero.  The first
\* packet, and no other, is marked as the start, and tells the random access
\* point and, on the PID for it, the PCR.
FrameRecovered ==
  op = "encode" /\ pc = "callback" /\ frame.size > 0 =>
    LET packets == Of(Pid(frame))
        first == Min(packets)
        bytes == Received(Pid(frame))
        header == Decode(PESHeader, SubSeq(bytes, 1, 9))
        length == header.mHeaderDataLength
        adaptation == IF HasAdaptation(first) THEN Adaptation(first)
                      ELSE Zero(AdaptationFieldHeader)
    IN /\ \A k \in packets :
            (Header(k).mPayloadUnitStartIndicator = 1) = (k = first)
       /\ header.mPacketStartCode = 1
       /\ header.mStreamId = frame.mStreamId
       /\ SubSeq(bytes, 10 + length, Len(bytes)) = Data(frame)
       /\ header.mPesPacketLength =
            IF Len(bytes) - 6 > PesLengthLimit THEN 0 ELSE Len(bytes) - 6
       /\ SameStamp(SubSeq(bytes, 10, 14), frame.mPts)
       /\ IF header.mPtsDtsFlags = 3
          THEN SameStamp(SubSeq(bytes, 15, 19), frame.mDts)
          ELSE frame.mDts = frame.mPts
       /\ adaptation.mRandomAccessIndicator = frame.mRandomAccess
       /\ (adaptation.mPcrFlag = 1) = (Pid(frame) = PcrPid)
       /\ adaptation.mPcrFlag = 1 =>
            readPcr(SubSeq(Packet(first), 7, 12)) = frame.mPcr

\* The section after the pointer, as long as it says that it is.
SectionIn(k) ==
  LET payload == Payload(k)
      header == DecodePATHeader(SubSeq(payload, 2, 9))
  IN SubSeq(payload, 2 + payload[1], 4 + payload[1] + header.mSectionLength)
Elements(section) ==
  {<<info.mStreamType, info.mElementaryPid>> :
     info \in Range(DecodeElements(section))}

\* PAT and PMT come together, at the start of a buffer, and always where a
\* segment starts (mpegts_muxer.h:21).  Their CRC is right, the PAT leads to the
\* PMT, and the PMT lists every stream with its PID, and the PID of the PCR.
TablesDescribe ==
  op = "encode" /\ pc = "callback" =>
    /\ mMuxType = "segmentType" => (Of(0) # {}) = lRandomAccess
    /\ Of(0) # {} \/ Of(PmtPid) # {} =>
         /\ Of(0) = {1}
         /\ Of(PmtPid) = {2}
         /\ \A k \in {1, 2} : crc32(SectionIn(k)) = <<0, 0, 0, 0>>
         /\ DecodePATHeader(SubSeq(SectionIn(1), 1, 8)).mTableId = 0
         /\ Number(SubSeq(BitsOf(SubSeq(SectionIn(1), 11, 12)), 4, 16)) = PmtPid
         /\ Decode(PMTHeader, SubSeq(SectionIn(2), 1, 12)).mPcrPid = PcrPid
         /\ Elements(SectionIn(2)) =
              {<<type, StreamPidMap[type]>> : type \in DOMAIN StreamPidMap}
=============================================================================
