------------------------------ MODULE TsPacket ------------------------------
(***************************************************************************)
(* The headers of an MPEG transport stream as src/player/Muxer writes and  *)
(* reads them (ts_packet.cpp, common.cpp, crc.cpp, over simple_buffer.cpp).*)
(*                                                                         *)
(* A header is a record of numbers.  The code packs it into words with     *)
(* shifts and masks; what that does is to put the fields, the most         *)
(* significant bit first, one after the other, so that a header is given   *)
(* by the list of its fields and their widths.  A time stamp is its 33     *)
(* bits, the most significant first.                                       *)
(***************************************************************************)
EXTENDS Integers, Sequences, FiniteSets, SequencesExt

\* What a number is divided by to shift it to the right; no field is wider.
Power == [k \in 0 .. 24 |-> 2^k]

Bits(n, width) == [k \in 1 .. width |-> (n \div Power[width - k]) % 2]

Number(bits) ==
  LET Read[k \in 0 .. Len(bits)] ==
        IF k = 0 THEN 0 ELSE 2 * Read[k - 1] + bits[k]
  IN Read[Len(bits)]

\* A buffer is a sequence of bytes; writing to it appends.
Octets(bits) ==
  [k \in 1 .. Len(bits) \div 8 |-> Number(SubSeq(bits, 8 * k - 7, 8 * k))]
BitsOf(octets) ==
  [k \in 1 .. 8 * Len(octets) |->
     (octets[1 + (k - 1) \div 8] \div Power[7 - ((k - 1) % 8)]) % 2]

\* SimpleBuffer::setData: what does not fit is not written.
SetData(buffer, pos, data) ==
  IF pos + Len(data) > Len(buffer) THEN buffer
  ELSE [k \in DOMAIN buffer |-> IF k \in pos + 1 .. pos + Len(data)
                                THEN data[k - pos] ELSE buffer[k]]

Filled(size, value) == [k \in 1 .. size |-> value]
-----------------------------------------------------------------------------
Names(fields) == {fields[k][1] : k \in DOMAIN fields}

\* What a constructor makes, but for a few fields.
Zero(fields) == [name \in Names(fields) |-> 0]

Encode(fields, header) ==
  LET Written[k \in 0 .. Len(fields)] ==
        IF k = 0 THEN <<>>
        ELSE Written[k - 1] \o Bits(header[fields[k][1]], fields[k][2])
  IN Octets(Written[Len(fields)])

\* The last bit of each field.
Ends(fields) ==
  LET Sum[k \in 0 .. Len(fields)] ==
        IF k = 0 THEN 0 ELSE Sum[k - 1] + fields[k][2]
  IN Sum

Decode(fields, octets) ==
  LET bits == BitsOf(octets)
      end == Ends(fields)
      Field(k) == Number(SubSeq(bits, end[k - 1] + 1, end[k]))
  IN [name \in Names(fields) |->
        Field(CHOOSE k \in DOMAIN fields : fields[k][1] = name)]

Unread(header, field) ==
  [name \in DOMAIN header |-> IF name = field THEN 0 ELSE header[name]]

TsHeader ==
  << <<"mSyncByte", 8>>, <<"mTransportErrorIndicator", 1>>,
     <<"mPayloadUnitStartIndicator", 1>>, <<"mTransportPriority", 1>>,
     <<"mPid", 13>>, <<"mTransportScramblingControl", 2>>,
     <<"mAdaptationFieldControl", 2>>, <<"mContinuityCounter", 4>> >>
NewTsHeader == [Zero(TsHeader) EXCEPT !.mSyncByte = 71]

\* Bit 13 goes to mTransportErrorIndicator, which bit 15 then overwrites: the
\* priority is not read.
DecodeTsHeader(octets) ==
  Unread(Decode(TsHeader, octets), "mTransportPriority")

PATHeader ==
  << <<"mTableId", 8>>, <<"mSectionSyntaxIndicator", 1>>, <<"mB0", 1>>,
     <<"mReserved0", 2>>, <<"mSectionLength", 12>>,
     <<"mTransportStreamId", 16>>, <<"mReserved1", 2>>,
     <<"mVersionNumber", 5>>, <<"mCurrentNextIndicator", 1>>,
     <<"mSectionNumber", 8>>, <<"mLastSectionNumber", 8>> >>

\* The reserved bits are not read.
DecodePATHeader(octets) == Unread(Decode(PATHeader, octets), "mReserved0")

PMTHeader ==
  << <<"mTableId", 8>>, <<"mSectionSyntaxIndicator", 1>>, <<"mB0", 1>>,
     <<"mReserved0", 2>>, <<"mSectionLength", 12>>, <<"mProgramNumber", 16>>,
     <<"mReserved1", 2>>, <<"mVersionNumber", 5>>,
     <<"mCurrentNextIndicator", 1>>, <<"mSectionNumber", 8>>,
     <<"mLastSectionNumber", 8>>, <<"mReserved2", 3>>, <<"mPcrPid", 13>>,
     <<"mReserved3", 4>>, <<"mProgramInfoLength", 12>> >>

PMTElementInfo ==
  << <<"mStreamType", 8>>, <<"mReserved0", 3>>, <<"mElementaryPid", 13>>,
     <<"mReserved1", 4>>, <<"mEsInfoLength", 12>> >>

NewPMTElementInfo(st, pid) ==
  [mStreamType |-> st, mReserved0 |-> 7, mElementaryPid |-> pid,
   mReserved1 |-> 15, mEsInfoLength |-> 0]

\* The loop of PMTHeader::decode takes as many elements as the section has
\* room for before its CRC.  Descriptors are never written, and not read here.
DecodeElements(octets) ==
  LET header == Decode(PMTHeader, SubSeq(octets, 1, 12))
      count == (header.mSectionLength - 4 - 9 - header.mProgramInfoLength) \div 5
  IN [k \in 1 .. count |->
        Decode(PMTElementInfo, SubSeq(octets, 12 + 5 * k - 4, 12 + 5 * k))]

\* An adaptation field of length 0 has no flags.
AdaptationLength == << <<"mAdaptationFieldLength", 8>> >>
AdaptationFlags ==
  << <<"mDiscontinuityIndicator", 1>>, <<"mRandomAccessIndicator", 1>>,
     <<"mElementaryStreamPriorityIndicator", 1>>, <<"mPcrFlag", 1>>,
     <<"mOpcrFlag", 1>>, <<"mSplicingPointFlag", 1>>,
     <<"mTransportPrivateDataFlag", 1>>, <<"mAdaptationFieldExtensionFlag", 1>> >>
AdaptationFieldHeader == AdaptationLength \o AdaptationFlags

EncodeAdaptation(header) ==
  Encode(IF header.mAdaptationFieldLength = 0 THEN AdaptationLength
         ELSE AdaptationFieldHeader, header)

DecodeAdaptation(octets) ==
  IF octets[1] = 0 THEN Zero(AdaptationFieldHeader)
  ELSE Decode(AdaptationFieldHeader, SubSeq(octets, 1, 2))

PESHeader ==
  << <<"mPacketStartCode", 24>>, <<"mStreamId", 8>>, <<"mPesPacketLength", 16>>,
     <<"mMarkerBits", 2>>, <<"mPesScramblingControl", 2>>,
     <<"mPesPriority", 1>>, <<"mDataAlignmentIndicator", 1>>,
     <<"mCopyright", 1>>, <<"mOriginalOrCopy", 1>>, <<"mPtsDtsFlags", 2>>,
     <<"mEscrFlag", 1>>, <<"mEsRateFlag", 1>>, <<"mDsmTrickModeFlag", 1>>,
     <<"mAddCopyInfoFlag", 1>>, <<"mPesCrcFlag", 1>>, <<"mPesExtFlag", 1>>,
     <<"mHeaderDataLength", 8>> >>
NewPESHeader == [Zero(PESHeader) EXCEPT !.mPacketStartCode = 1, !.mMarkerBits = 2]
-----------------------------------------------------------------------------
(* Time stamps and the CRC.                                                *)

\* Three bits, fifteen and fifteen, with a marker after each group.
writePts(lFb, lPts) ==
  Octets(Bits(lFb, 4) \o SubSeq(lPts, 1, 3) \o <<1>> \o SubSeq(lPts, 4, 18)
         \o <<1>> \o SubSeq(lPts, 19, 33) \o <<1>>)

\* The first group is shifted in a word of 32 bits: its first bit is lost.
readPts(octets) ==
  LET bits == BitsOf(octets)
  IN <<0>> \o SubSeq(bits, 6, 7) \o SubSeq(bits, 9, 23) \o SubSeq(bits, 25, 39)

\* 33 bits, six that are reserved, and an extension of nine that is zero.
writePcr(lPcr) == Octets(lPcr \o Filled(6, 1) \o Filled(9, 0))

readPcr(octets) == SubSeq(BitsOf(octets), 1, 33)

\* crcTable[1]: the polynomial 0x04c11db7.
Polynomial == Bits(1217, 16) \o Bits(7607, 16)

Xor(a, b) == [k \in DOMAIN a |-> (a[k] + b[k]) % 2]

\* The k-th entry is the remainder of k * x^32 by the polynomial.
Remainder(k) ==
  LET Step[n \in 0 .. 8] ==
        IF n = 0 THEN Bits(k, 8) \o Filled(24, 0)
        ELSE LET r == Step[n - 1]
                 shifted == SubSeq(r, 2, 32) \o <<0>>
             IN IF r[1] = 1 THEN Xor(shifted, Polynomial) ELSE shifted
  IN Step[8]
crcTable == [k \in 0 .. 255 |-> Remainder(k)]

crc32(octets) ==
  LET Crc[k \in 0 .. Len(octets)] ==
        IF k = 0 THEN Filled(32, 1)
        ELSE LET lCrc == Crc[k - 1]
                 index == Number(Xor(SubSeq(lCrc, 1, 8), Bits(octets[k], 8)))
             IN Xor(SubSeq(lCrc, 9, 32) \o Filled(8, 0), crcTable[index])
  IN Octets(Crc[Len(octets)])
=============================================================================
