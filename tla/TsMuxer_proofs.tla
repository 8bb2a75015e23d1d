--------------------------- MODULE TsMuxer_proofs ---------------------------
(***************************************************************************)
(* Theorems about TsMuxer.  A packet is a header, an adaptation field,     *)
(* which may be empty, and a payload; what is proved of the packets of     *)
(* each operation is what these three are.  The rest is about the buffer,  *)
(* which is one packet after the other.                                    *)
(***************************************************************************)
EXTENDS TsMuxer, TsPacket_proofs, FiniteSetTheorems

LEMMA Sizes ==
  /\ PacketSize \in Nat /\ PacketSize >= 32 /\ PacketSize <= 260
  /\ CcModulus \in Nat /\ CcModulus >= 2 /\ CcModulus <= 16
  /\ PatInterval \in Nat /\ PatInterval >= 1
  /\ PesLengthLimit \in Nat /\ PesLengthLimit <= 65535
  <1>1. PacketSize \in 4 + 8 + 9 + 10 + 1 .. 5 + 255
    BY SizeAssumption
  <1>2. CcModulus \in 2 .. 16
    BY SizeAssumption
  <1>3. PatInterval \in Nat \ {0}
    BY SizeAssumption
  <1>4. PesLengthLimit \in Nat /\ PesLengthLimit <= 65535
    BY SizeAssumption
  <1> QED
    BY <1>1, <1>2, <1>3, <1>4

LEMMA Ranged ==
  ASSUME NEW m \in Nat, NEW T, NEW f \in [T -> 1 .. m]
  PROVE  \A t \in T : f[t] \in Nat /\ f[t] # 0 /\ f[t] <= m
  OBVIOUS

LEMMA Streams ==
  /\ \A t \in DOMAIN StreamPidMap :
       /\ t \in 1 .. 255 /\ t # 0
       /\ StreamPidMap[t] \in Nat /\ StreamPidMap[t] # 0
       /\ StreamPidMap[t] <= 8191
  /\ PmtPid \in Nat /\ PmtPid # 0 /\ PmtPid <= 8191
  /\ PcrPid \in Nat /\ PcrPid <= 8191
  <1>1. DOMAIN StreamPidMap \subseteq 1 .. 255
    BY StreamAssumption
  <1>2. /\ PmtPid \in Nat /\ PmtPid # 0 /\ PmtPid <= 8191
        /\ PcrPid \in Nat /\ PcrPid <= 8191
    <2>1. PmtPid \in 1 .. 8191
      BY StreamAssumption
    <2>2. PcrPid \in 0 .. 8191
      BY StreamAssumption
    <2> QED
      BY <2>1, <2>2
  <1>3. \A t \in DOMAIN StreamPidMap :
          StreamPidMap[t] \in Nat /\ StreamPidMap[t] # 0 /\ StreamPidMap[t] <= 8191
    <2>1. PICK m \in Nat : m = 8191
      OBVIOUS
    <2>2. StreamPidMap \in [DOMAIN StreamPidMap -> 1 .. m]
      <3>1. StreamPidMap \in [DOMAIN StreamPidMap -> 1 .. 8191]
        BY StreamAssumption
      <3> QED
        BY <2>1, <3>1
    <2>3. \A t \in DOMAIN StreamPidMap :
            StreamPidMap[t] \in Nat /\ StreamPidMap[t] # 0 /\ StreamPidMap[t] <= m
      BY <2>2, Ranged
    <2> QED
      BY <2>1, <2>3
  <1>4. ASSUME NEW t \in DOMAIN StreamPidMap
        PROVE  t \in 1 .. 255 /\ t # 0
    <2>1. t \in 1 .. 255
      BY <1>1
    <2> QED
      BY <2>1
  <1> QED
    BY <1>1, <1>2, <1>3, <1>4

LEMMA FrameTypes ==
  ASSUME NEW f \in Frames
  PROVE  /\ f.mStreamType \in Types /\ f.mStreamType \in 0 .. 255
         /\ Pid(f) \in Nat /\ Pid(f) # 0 /\ Pid(f) # PmtPid /\ Pid(f) <= 8191
         /\ f.mStreamId \in 0 .. 255 /\ f.mRandomAccess \in {0, 1}
         /\ f.mPts \in Stamps /\ f.mDts \in Stamps /\ f.mPcr \in Stamps
         /\ f.size \in Nat
  <1>1. f.mStreamType \in Types
    BY DEF Types
  <1>2. PICK m \in Nat : m = 8191
    OBVIOUS
  <1>3. Pid(f) \in Nat /\ Pid(f) # 0 /\ Pid(f) # PmtPid /\ Pid(f) <= 8191
    <2>1. f.mPid \in FramePids
      BY FrameAssumption
    <2>2. f.mPid \in 1 .. m /\ f.mPid # PmtPid
      <3>1. FramePids = (1 .. m) \ {PmtPid}
        BY <1>2 DEF FramePids
      <3> QED
        BY <2>1, <3>1
    <2>3. Pid(f) \in 1 .. m /\ Pid(f) # PmtPid
      BY <2>2 DEF Pid
    <2>4. Pid(f) \in Nat /\ Pid(f) # 0 /\ Pid(f) <= m
      BY <2>3
    <2> QED
      BY <1>2, <2>3, <2>4
  <1>4. /\ f.mStreamType \in 0 .. 255
        /\ f.mStreamId \in 0 .. 255 /\ f.mRandomAccess \in {0, 1}
        /\ f.mPts \in Stamps /\ f.mDts \in Stamps /\ f.mPcr \in Stamps
        /\ f.size \in Nat
    BY FrameAssumption
  <1> QED
    BY <1>1, <1>3, <1>4
-----------------------------------------------------------------------------
(* What a receiver sees of a packet.                                       *)

\* The header of a packet.
Ts(start, pid, afc, cc) ==
  [NewTsHeader EXCEPT !.mPayloadUnitStartIndicator = start, !.mPid = pid,
                      !.mAdaptationFieldControl = afc, !.mContinuityCounter = cc]

TsType(start, pid, afc, cc) ==
  /\ start \in 0 .. 1 /\ pid \in Nat /\ pid <= 8191 /\ afc \in 1 .. 3
  /\ cc \in 0 .. CcModulus - 1

LEMMA TsFields ==
  ASSUME NEW start, NEW pid, NEW afc, NEW cc
  PROVE  /\ Ts(start, pid, afc, cc) =
              [name \in Names(TsHeader) |->
                 CASE name = "mSyncByte" -> 71
                   [] name = "mPayloadUnitStartIndicator" -> start
                   [] name = "mPid" -> pid
                   [] name = "mAdaptationFieldControl" -> afc
                   [] name = "mContinuityCounter" -> cc
                   [] OTHER -> 0]
         /\ Ts(start, pid, afc, cc).mSyncByte = 71
         /\ Ts(start, pid, afc, cc).mPayloadUnitStartIndicator = start
         /\ Ts(start, pid, afc, cc).mPid = pid
         /\ Ts(start, pid, afc, cc).mAdaptationFieldControl = afc
         /\ Ts(start, pid, afc, cc).mContinuityCounter = cc
         /\ Ts(start, pid, afc, cc).mTransportErrorIndicator = 0
         /\ Ts(start, pid, afc, cc).mTransportPriority = 0
         /\ Ts(start, pid, afc, cc).mTransportScramblingControl = 0
  BY TsNames DEF Ts, NewTsHeader, Zero

LEMMA TsIsValue ==
  ASSUME NEW start, NEW pid, NEW afc, NEW cc, TsType(start, pid, afc, cc)
  PROVE  TsValues(Ts(start, pid, afc, cc))
  <1>1. cc \in 0 .. 15
    BY Sizes DEF TsType
  <1>2. /\ start \in 0 .. 1 /\ pid \in Nat /\ pid <= 8191 /\ afc \in 0 .. 3
    BY DEF TsType
  <1>3. PICK h : h = Ts(start, pid, afc, cc)
    OBVIOUS
  <1>4. /\ h.mSyncByte = 71 /\ h.mPayloadUnitStartIndicator = start
        /\ h.mPid = pid /\ h.mAdaptationFieldControl = afc
        /\ h.mContinuityCounter = cc /\ h.mTransportErrorIndicator = 0
        /\ h.mTransportPriority = 0 /\ h.mTransportScramblingControl = 0
    BY <1>3, TsFields
  <1>5. TsValues(h)
    BY <1>1, <1>2, <1>4 DEF TsValues
  <1> QED
    BY <1>3, <1>5

\* p is a packet that consists of a header, an adaptation field and a payload.
IsPacket(p, start, pid, afc, cc, a, b) ==
  /\ TsType(start, pid, afc, cc)
  /\ p = Encode(TsHeader, Ts(start, pid, afc, cc)) \o (a \o b)
  /\ a \in Seq(Byte) /\ b \in Seq(Nat)
  /\ 4 + Len(a) + Len(b) = PacketSize
  /\ IF afc = 1 THEN a = <<>> ELSE a # <<>> /\ Len(a) = 1 + a[1]
  /\ IF afc = 2 THEN b = <<>> ELSE b # <<>>

\* What the first four bytes of a packet show.
HeaderShows(p, start, pid, afc, cc) ==
  LET h == DecodeTsHeader(SubSeq(p, 1, 4))
  IN /\ h.mSyncByte = 71
     /\ h.mPayloadUnitStartIndicator = start
     /\ h.mPid = pid
     /\ h.mAdaptationFieldControl = afc
     /\ h.mContinuityCounter = cc

\* What a receiver sees of a packet.
Shows(p, start, pid, afc, cc, a, b) ==
  /\ p \in Seq(Nat) /\ Len(p) = PacketSize
  /\ HeaderShows(p, start, pid, afc, cc)
  /\ afc # 1 => p[5] = a[1]
  /\ SubSeq(p, 5 + Len(a), PacketSize) = b
  /\ Len(a) >= 2 => SubSeq(p, 5, 6) = SubSeq(a, 1, 2)

LEMMA PacketShows ==
  ASSUME NEW p, NEW start, NEW pid, NEW afc, NEW cc, NEW a, NEW b,
         IsPacket(p, start, pid, afc, cc, a, b)
  PROVE  Shows(p, start, pid, afc, cc, a, b)
  <1>1. PICK t, h, c : /\ t = Ts(start, pid, afc, cc) /\ h = Encode(TsHeader, t)
                       /\ c = a \o b
    OBVIOUS
  <1>2. TsValues(t) /\ p = h \o c
    BY <1>1, TsIsValue DEF IsPacket
  <1>3. Bytes(h, 4)
    BY <1>1, <1>2, TsHeaderRead
  <1>4. h \in Seq(Nat) /\ Len(h) = 4 /\ a \in Seq(Nat) /\ b \in Seq(Nat)
    <2>1. Byte \subseteq Nat
      BY DEF Byte
    <2>2. h \in Seq(Byte) /\ Len(h) = 4 /\ a \in Seq(Byte) /\ b \in Seq(Nat)
      BY <1>3 DEF Bytes, IsPacket
    <2> QED
      BY <2>1, <2>2, SeqSubset
  <1>5. /\ c \in Seq(Nat) /\ Len(c) = Len(a) + Len(b)
        /\ \A i \in 1 .. Len(a) : c[i] = a[i]
    <2>1. a \in Seq(Nat) /\ b \in Seq(Nat)
      BY <1>4
    <2>2. /\ a \o b \in Seq(Nat) /\ Len(a \o b) = Len(a) + Len(b)
          /\ \A i \in 1 .. Len(a) : (a \o b)[i] = a[i]
      BY <2>1, ConcatParts
    <2> QED
      BY <1>1, <2>2
  <1>6. Len(a) \in Nat /\ Len(b) \in Nat /\ 4 + Len(a) + Len(b) = PacketSize
    BY <1>4, LenProperties DEF IsPacket
  <1>7. /\ p \in Seq(Nat) /\ Len(p) = PacketSize
        /\ \A i \in 1 .. Len(c) : p[4 + i] = c[i]
    <2>1. h \in Seq(Nat) /\ c \in Seq(Nat)
      BY <1>4, <1>5
    <2>2. /\ h \o c \in Seq(Nat) /\ Len(h \o c) = Len(h) + Len(c)
          /\ \A i \in 1 .. Len(c) : (h \o c)[Len(h) + i] = c[i]
      BY <2>1, ConcatParts
    <2>3. p \in Seq(Nat) /\ Len(p) = 4 + (Len(a) + Len(b))
      BY <1>2, <1>4, <1>5, <2>2
    <2>4. \A i \in 1 .. Len(c) : p[4 + i] = c[i]
      BY <1>2, <1>4, <2>2
    <2>5. 4 + (Len(a) + Len(b)) = PacketSize
      BY <1>6
    <2> QED
      BY <2>3, <2>4, <2>5
  <1>8. SubSeq(p, 1, 4) = h /\ SubSeq(p, 5, PacketSize) = c
    <2>1. h \in Seq(Nat) /\ c \in Seq(Nat) /\ 4 = Len(h) /\ PacketSize = Len(h) + Len(c)
      BY <1>4, <1>5, <1>6
    <2>2. Meet(h \o c, 4, PacketSize, h, c)
      BY <2>1, CutConcat
    <2>3. 4 + 1 = 5
      OBVIOUS
    <2> QED
      BY <1>2, <2>2, <2>3 DEF Meet
  <1>9. HeaderShows(p, start, pid, afc, cc)
    <2>1. DecodeTsHeader(h) = [name \in Names(TsHeader) |->
                                 IF name = "mTransportPriority" THEN 0 ELSE t[name]]
      BY <1>1, <1>2, TsHeaderRead
    <2>2. /\ t.mSyncByte = 71 /\ t.mPayloadUnitStartIndicator = start /\ t.mPid = pid
          /\ t.mAdaptationFieldControl = afc /\ t.mContinuityCounter = cc
      BY <1>1, TsFields
    <2>3. PICK d : d = DecodeTsHeader(h)
      OBVIOUS
    <2>4. /\ d.mSyncByte = 71 /\ d.mPayloadUnitStartIndicator = start /\ d.mPid = pid
          /\ d.mAdaptationFieldControl = afc /\ d.mContinuityCounter = cc
      BY <2>1, <2>2, <2>3, TsNames
    <2> QED
      BY <1>8, <2>3, <2>4 DEF HeaderShows
  <1>10. ASSUME afc # 1 PROVE p[5] = a[1]
    <2>1. a # <<>>
      BY <1>10 DEF IsPacket
    <2>2. 1 \in 1 .. Len(a) /\ 1 \in 1 .. Len(c) /\ 4 + 1 = 5
      BY <1>4, <1>5, <1>6, <2>1, EmptySeq
    <2> QED
      BY <1>5, <1>7, <2>2
  <1>11. SubSeq(p, 5 + Len(a), PacketSize) = b
    <2>1. PICK n \in Nat, m \in Nat : n = Len(a) /\ m = Len(b)
      BY <1>6
    <2>2. PICK g : g = h \o a
      OBVIOUS
    <2>3. g \in Seq(Nat) /\ Len(g) = 4 + n
      <3>1. h \in Seq(Nat) /\ a \in Seq(Nat)
        BY <1>4
      <3>2. h \o a \in Seq(Nat) /\ Len(h \o a) = Len(h) + Len(a)
        BY <3>1, ConcatParts
      <3> QED
        BY <1>4, <2>1, <2>2, <3>2
    <2>4. p = g \o b
      <3>1. (h \o a) \o b = h \o (a \o b)
        <4>1. h \in Seq(Nat) /\ a \in Seq(Nat) /\ b \in Seq(Nat)
          BY <1>4
        <4>2. Regroups(h, a, b)
          BY <4>1, ConcatRegroups
        <4> QED
          BY <4>2 DEF Regroups
      <3> QED
        BY <1>1, <1>2, <2>2, <3>1
    <2>5. 4 + n = Len(g) /\ PacketSize = Len(g) + Len(b) /\ 5 + Len(a) = 4 + n + 1
      BY <1>6, <2>1, <2>3
    <2>6. Meet(g \o b, 4 + n, PacketSize, g, b)
      <3>1. g \in Seq(Nat) /\ b \in Seq(Nat)
        BY <1>4, <2>3
      <3> QED
        BY <2>5, <3>1, CutConcat
    <2> QED
      BY <2>4, <2>5, <2>6 DEF Meet
  <1>12. ASSUME Len(a) >= 2 PROVE SubSeq(p, 5, 6) = SubSeq(a, 1, 2)
    <2>1. SubSeq(p, 5, 6) = SubSeq(c, 1, 2)
      <3>1. h \in Seq(Nat) /\ c \in Seq(Nat) /\ 1 \in Nat \ {0} /\ 2 \in Nat
            /\ 1 <= 2 + 1 /\ 2 <= Len(c)
        BY <1>4, <1>5, <1>6, <1>12
      <3>2. SubSeq(h \o c, Len(h) + 1, Len(h) + 2) = SubSeq(c, 1, 2)
        BY <3>1, SliceRight
      <3>3. Len(h) + 1 = 5 /\ Len(h) + 2 = 6
        BY <1>4
      <3> QED
        BY <1>2, <3>2, <3>3
    <2>2. SubSeq(c, 1, 2) = SubSeq(a, 1, 2)
      <3>1. a \in Seq(Nat) /\ b \in Seq(Nat) /\ 1 \in Nat \ {0} /\ 2 \in Nat
            /\ 1 <= 2 + 1 /\ 2 <= Len(a)
        BY <1>4, <1>6, <1>12
      <3>2. SubSeq(a \o b, 1, 2) = SubSeq(a, 1, 2)
        BY <3>1, SliceLeft
      <3> QED
        BY <1>1, <3>2
    <2> QED
      BY <2>1, <2>2
  <1> QED
    BY <1>7, <1>9, <1>10, <1>11, <1>12 DEF Shows

-----------------------------------------------------------------------------
(* The stuffing.                                                           *)

\* A byte is made greater.
Raise(s, k, n) == [s EXCEPT ![k] = @ + n]

\* An adaptation field with n more bytes.
Longer(a, n) == Raise(a, 1, n) \o Filled(n, 255)

LEMMA RaiseType ==
  ASSUME NEW s \in Seq(Nat), NEW k \in 1 .. Len(s), NEW n \in Nat
  PROVE  /\ Raise(s, k, n) \in Seq(Nat)
         /\ Len(Raise(s, k, n)) = Len(s)
         /\ \A i \in 1 .. Len(s) :
              Raise(s, k, n)[i] = IF i = k THEN s[k] + n ELSE s[i]
  <1>1. Len(s) \in Nat /\ s \in [1 .. Len(s) -> Nat]
    BY LenProperties
  <1>2. PICK t : t = Raise(s, k, n)
    OBVIOUS
  <1>3. t \in [1 .. Len(s) -> Nat]
    <2>1. s[k] + n \in Nat
      BY <1>1
    <2> QED
      BY <1>1, <1>2, <2>1 DEF Raise
  <1>4. t \in Seq(Nat) /\ Len(t) = Len(s)
    BY <1>1, <1>3, SeqDef, LenProperties, SMTT(60)
  <1>5. \A i \in 1 .. Len(s) : t[i] = IF i = k THEN s[k] + n ELSE s[i]
    BY <1>1, <1>2 DEF Raise
  <1> QED
    BY <1>2, <1>4, <1>5

LEMMA RaiseBehind ==
  ASSUME NEW h \in Seq(Nat), Len(h) = 4, NEW a \in Seq(Nat), a # <<>>, NEW n \in Nat
  PROVE  Raise(h \o a, 5, n) = h \o Raise(a, 1, n)
  <1>1. PICK c, d, l, r : /\ c = h \o a /\ d = Raise(a, 1, n)
                          /\ l = Raise(c, 5, n) /\ r = h \o d
    OBVIOUS
  <1>2. Len(a) \in Nat \ {0}
    BY EmptySeq
  <1>3. /\ c \in Seq(Nat) /\ Len(c) = 4 + Len(a)
        /\ \A i \in 1 .. 4 : c[i] = h[i]
        /\ \A i \in 1 .. Len(a) : c[4 + i] = a[i]
    <2>1. Chained(Nat, h, 4, a, Len(a), h \o a)
      BY ConcatChained
    <2> QED
      BY <1>1, <2>1 DEF Chained
  <1>4. /\ d \in Seq(Nat) /\ Len(d) = Len(a)
        /\ \A i \in 1 .. Len(a) : d[i] = IF i = 1 THEN a[1] + n ELSE a[i]
    <2>1. 1 \in 1 .. Len(a)
      BY <1>2
    <2> QED
      BY <1>1, <2>1, RaiseType
  <1>5. /\ l \in Seq(Nat) /\ Len(l) = 4 + Len(a)
        /\ \A i \in 1 .. 4 + Len(a) : l[i] = IF i = 5 THEN c[5] + n ELSE c[i]
    <2>1. 5 \in 1 .. Len(c)
      BY <1>2, <1>3
    <2>2. c \in Seq(Nat)
      BY <1>3
    <2>3. /\ Raise(c, 5, n) \in Seq(Nat)
          /\ Len(Raise(c, 5, n)) = Len(c)
          /\ \A i \in 1 .. Len(c) :
               Raise(c, 5, n)[i] = IF i = 5 THEN c[5] + n ELSE c[i]
      BY <2>1, <2>2, RaiseType
    <2>4. /\ l \in Seq(Nat) /\ Len(l) = Len(c)
          /\ \A i \in 1 .. Len(c) : l[i] = IF i = 5 THEN c[5] + n ELSE c[i]
      BY <1>1, <2>3
    <2>5. Len(c) = 4 + Len(a)
      BY <1>3
    <2> QED
      BY <2>4, <2>5
  <1>6. /\ r \in Seq(Nat) /\ Len(r) = 4 + Len(a)
        /\ \A i \in 1 .. 4 : r[i] = h[i]
        /\ \A i \in 1 .. Len(a) : r[4 + i] = d[i]
    <2>1. d \in Seq(Nat) /\ 4 = Len(h) /\ Len(a) = Len(d)
      BY <1>4
    <2>2. Chained(Nat, h, 4, d, Len(a), h \o d)
      BY <2>1, ConcatChained
    <2> QED
      BY <1>1, <2>2 DEF Chained
  <1>7. ASSUME NEW i \in 1 .. 4 + Len(a) PROVE l[i] = r[i]
    <2>1. CASE i \in 1 .. 4
      <3>1. c[i] = h[i] /\ r[i] = h[i]
        BY <1>3, <1>6, <2>1
      <3>2. l[i] = c[i]
        BY <1>5, <2>1
      <3> QED
        BY <3>1, <3>2
    <2>2. CASE i \in 5 .. 4 + Len(a)
      <3>1. PICK j \in 1 .. Len(a) : i = 4 + j
        <4>1. i - 4 \in 1 .. Len(a) /\ i = 4 + (i - 4)
          BY <1>2, <2>2
        <4> QED
          BY <4>1
      <3>2. c[i] = a[j] /\ r[i] = d[j] /\ (i = 5 <=> j = 1)
        BY <1>3, <1>6, <3>1
      <3>3. c[5] = a[1]
        <4>1. 1 \in 1 .. Len(a) /\ 4 + 1 = 5
          BY <1>2
        <4> QED
          BY <1>3, <4>1
      <3> QED
        BY <1>4, <1>5, <3>1, <3>2, <3>3
    <2> QED
      BY <1>2, <2>1, <2>2
  <1>8. l = r
    BY <1>5, <1>6, <1>7, SeqEqual
  <1> QED
    BY <1>1, <1>8

LEMMA FilledSeq ==
  ASSUME NEW n \in Nat, NEW v \in Nat
  PROVE  Filled(n, v) \in Seq(Nat) /\ Len(Filled(n, v)) = n
  BY FilledType

\* A packet that has an adaptation field gets a longer one.
LEMMA StuffedField ==
  ASSUME NEW h \in Seq(Nat), Len(h) = 4, (h[4] \div 16) % 4 = 3,
         NEW a \in Seq(Nat), a # <<>>, Len(a) = 1 + a[1],
         NEW e \in Seq(Nat), NEW n \in Nat
  PROVE  Stuffed((h \o a) \o e, n) = (h \o Longer(a, n)) \o e
  <1>1. PICK p, g, base, N : /\ g = h \o a /\ p = g \o e /\ base = 5 + p[5]
                             /\ N = Len(p)
    OBVIOUS
  <1>2. Len(a) \in Nat \ {0} /\ Len(e) \in Nat
    BY EmptySeq, LenProperties
  <1>3. Chained(Nat, h, 4, a, Len(a), g)
    BY <1>1, ConcatChained
  <1>4. g \in Seq(Nat) /\ Len(g) = 4 + Len(a) /\ g[4] = h[4] /\ g[5] = a[1]
    <2>1. 4 \in 1 .. 4 /\ 1 \in 1 .. Len(a) /\ 4 + 1 = 5
      BY <1>2
    <2> QED
      BY <1>3, <2>1 DEF Chained
  <1>5. Chained(Nat, g, Len(g), e, Len(e), p)
    BY <1>1, <1>4, ConcatChained
  <1>6. p \in Seq(Nat) /\ N = Len(g) + Len(e) /\ p[4] = h[4] /\ p[5] = a[1]
    <2>1. 4 \in 1 .. Len(g) /\ 5 \in 1 .. Len(g)
      <3>1. PICK m \in Nat \ {0} : m = Len(a)
        BY <1>2
      <3>2. Len(g) = 4 + m
        BY <1>4, <3>1
      <3> QED
        BY <3>2
    <2> QED
      BY <1>1, <1>4, <1>5, <2>1 DEF Chained
  <1>7. base = Len(g)
    <2>1. PICK x \in Nat : x = a[1]
      <3>1. 1 \in 1 .. Len(a)
        BY <1>2
      <3> QED
        BY <3>1, ElementOfSeq
    <2>2. Len(g) = 4 + (1 + x) /\ base = 5 + x
      BY <1>1, <1>4, <1>6, <2>1
    <2> QED
      BY <2>2
  <1>8. SubSeq(p, 1, base) = g /\ SubSeq(p, base + 1, N) = e
    <2>1. Meet(g \o e, base, N, g, e)
      BY <1>4, <1>6, <1>7, CutConcat
    <2> QED
      BY <1>1, <2>1 DEF Meet
  <1>9. PICK w : w = Filled(n, 255)
    OBVIOUS
  <1>10. Stuffed(p, n) = (Raise(g, 5, n) \o w) \o e
    <2>1. (p[4] \div 16) % 4 = 3
      BY <1>6
    <2>2. Stuffed(p, n) = [SubSeq(p, 1, base) EXCEPT ![5] = @ + n]
                          \o Filled(n, 255) \o SubSeq(p, base + 1, Len(p))
      BY <1>1, <2>1, ZenonT(40) DEF Stuffed
    <2>3. Stuffed(p, n) = Raise(SubSeq(p, 1, base), 5, n)
                          \o Filled(n, 255) \o SubSeq(p, base + 1, Len(p))
      BY <2>2 DEF Raise
    <2> QED
      BY <1>1, <1>8, <1>9, <2>3, ZenonT(40)
  <1>11. Raise(g, 5, n) = h \o Raise(a, 1, n)
    BY <1>1, RaiseBehind
  <1>12. PICK d : d = Raise(a, 1, n)
    OBVIOUS
  <1>13. (h \o d) \o w = h \o (d \o w)
    <2>1. 1 \in 1 .. Len(a)
      BY <1>2
    <2>2. d \in Seq(Nat)
      BY <1>12, <2>1, RaiseType
    <2>3. w \in Seq(Nat)
      BY <1>9, FilledSeq
    <2>4. Regroups(h, d, w)
      BY <2>2, <2>3, ConcatRegroups
    <2> QED
      BY <2>4 DEF Regroups
  <1> QED
    BY <1>1, <1>9, <1>10, <1>11, <1>12, <1>13, ZenonT(40) DEF Longer

\* A packet that has none gets one, and the flag that says so.
LEMMA StuffedNew ==
  ASSUME NEW h \in Seq(Nat), Len(h) = 4, (h[4] \div 16) % 4 = 1,
         NEW e \in Seq(Nat), NEW n \in Nat
  PROVE  Stuffed(h \o e, n) = (Raise(h, 4, 32) \o Added(n)) \o e
  <1>1. PICK p, N : p = h \o e /\ N = Len(p)
    OBVIOUS
  <1>2. Chained(Nat, h, 4, e, Len(e), p)
    BY <1>1, ConcatChained
  <1>3. N = 4 + Len(e) /\ p[4] = h[4]
    <2>1. 4 \in 1 .. 4
      OBVIOUS
    <2> QED
      BY <1>1, <1>2, <2>1 DEF Chained
  <1>4. SubSeq(p, 1, 4) = h /\ SubSeq(p, 5, N) = e
    <2>1. 4 = Len(h) /\ N = Len(h) + Len(e) /\ 4 + 1 = 5
      BY <1>3
    <2>2. Meet(h \o e, 4, N, h, e)
      BY <2>1, CutConcat
    <2> QED
      BY <1>1, <2>1, <2>2 DEF Meet
  <1>5. (p[4] \div 16) % 4 # 3
    BY <1>3
  <1>6. Stuffed(p, n) = [SubSeq(p, 1, 4) EXCEPT ![4] = @ + 32]
                        \o Added(n) \o SubSeq(p, 5, Len(p))
    BY <1>5 DEF Stuffed
  <1>7. Stuffed(p, n) = Raise(SubSeq(p, 1, 4), 4, 32) \o Added(n) \o SubSeq(p, 5, Len(p))
    BY <1>6 DEF Raise
  <1> QED
    BY <1>1, <1>4, <1>7

LEMMA AddedType ==
  ASSUME NEW n \in 1 .. 256
  PROVE  /\ Added(n) \in Seq(Byte) /\ Len(Added(n)) = n
         /\ Added(n)[1] = n - 1 /\ (n >= 2 => Added(n)[2] = 0)
  <1>1. PICK s, x : s = Added(n) /\ x = <<n - 1>>
    OBVIOUS
  <1>2. x \in Seq(Byte) /\ Len(x) = 1 /\ x[1] = n - 1
    BY <1>1 DEF Byte
  <1>3. CASE n = 1
    <2>1. s = x \o <<>>
      BY <1>1, <1>3 DEF Added
    <2>2. s = x
      BY <1>2, <2>1, ConcatEmptySeq
    <2> QED
      BY <1>1, <1>2, <1>3, <2>2
  <1>4. CASE n >= 2
    <2>1. PICK z, w, m : z = <<0>> /\ m = n - 2 /\ w = Filled(m, 255)
      OBVIOUS
    <2>2. z \in Seq(Byte) /\ Len(z) = 1 /\ z[1] = 0
      BY <2>1 DEF Byte
    <2>3. m \in Nat
      BY <1>4, <2>1
    <2>4. w \in Seq(Byte) /\ Len(w) = m
      <3>1. 255 \in Byte
        BY DEF Byte
      <3> QED
        BY <2>1, <2>3, <3>1, FilledType
    <2>5. PICK y : y = z \o w
      OBVIOUS
    <2>6. Chained(Byte, z, 1, w, m, y)
      BY <2>2, <2>4, <2>5, ConcatChained
    <2>7. y \in Seq(Byte) /\ Len(y) = 1 + m /\ y[1] = 0
      <3>1. 1 \in 1 .. 1
        OBVIOUS
      <3> QED
        BY <2>2, <2>6, <3>1 DEF Chained
    <2>8. s = x \o y
      BY <1>1, <1>4, <2>1, <2>5 DEF Added
    <2>9. Chained(Byte, x, 1, y, 1 + m, s)
      BY <1>2, <2>7, <2>8, ConcatChained
    <2>10. s \in Seq(Byte) /\ Len(s) = 1 + (1 + m) /\ s[1] = n - 1 /\ s[1 + 1] = 0
      <3>1. 1 \in 1 .. 1 /\ 1 \in 1 .. 1 + m
        BY <2>3
      <3> QED
        BY <1>2, <2>7, <2>9, <3>1 DEF Chained
    <2>11. 1 + (1 + m) = n /\ 1 + 1 = 2
      BY <2>1
    <2> QED
      BY <1>1, <2>10, <2>11
  <1> QED
    BY <1>3, <1>4

LEMMA LongerType ==
  ASSUME NEW a, a \in Seq(Byte), a # <<>>, NEW n \in Nat, a[1] + n <= 255
  PROVE  /\ Longer(a, n) \in Seq(Byte) /\ Len(Longer(a, n)) = Len(a) + n
         /\ Longer(a, n)[1] = a[1] + n
         /\ \A i \in 2 .. Len(a) : Longer(a, n)[i] = a[i]
  <1>1. PICK l, d, w, x : /\ l = Longer(a, n) /\ d = Raise(a, 1, n)
                          /\ w = Filled(n, 255) /\ x = a[1]
    OBVIOUS
  <1>2. PICK m \in Nat \ {0} : m = Len(a)
    BY EmptySeq
  <1>3. /\ d \in Seq(Byte) /\ Len(d) = m
        /\ d[1] = x + n /\ \A i \in 2 .. m : d[i] = a[i]
    <2>1. a \in Seq(Nat) /\ a \in [1 .. m -> Byte]
      <3>1. Byte \subseteq Nat
        BY DEF Byte
      <3> QED
        BY <1>2, <3>1, SeqSubset, LenProperties
    <2>2. /\ d \in Seq(Nat) /\ Len(d) = m
          /\ \A i \in 1 .. m : d[i] = IF i = 1 THEN a[1] + n ELSE a[i]
      <3>1. 1 \in 1 .. Len(a)
        BY <1>2
      <3>2. /\ Raise(a, 1, n) \in Seq(Nat)
            /\ Len(Raise(a, 1, n)) = Len(a)
            /\ \A i \in 1 .. Len(a) :
                 Raise(a, 1, n)[i] = IF i = 1 THEN a[1] + n ELSE a[i]
        BY <2>1, <3>1, RaiseType
      <3> QED
        BY <1>1, <1>2, <3>2
    <2>3. x + n \in Byte
      <3>1. x \in Byte
        BY <1>1, <1>2, <2>1
      <3>2. x + n <= 255
        BY <1>1
      <3> QED
        BY <3>1, <3>2 DEF Byte
    <2>4. \A i \in 1 .. m : d[i] \in Byte
      BY <1>1, <2>1, <2>2, <2>3
    <2>5. d \in Seq(Byte)
      <3>1. d \in [1 .. m -> Nat]
        BY <2>2, LenProperties
      <3>2. d \in [1 .. m -> Byte]
        BY <2>4, <3>1
      <3> QED
        BY <3>2, SeqDef
    <2> QED
      BY <1>1, <1>2, <2>2, <2>5
  <1>4. w \in Seq(Byte) /\ Len(w) = n
    <2>1. 255 \in Byte
      BY DEF Byte
    <2> QED
      BY <1>1, <2>1, FilledType
  <1>5. l = d \o w
    BY <1>1 DEF Longer
  <1>6. Chained(Byte, d, m, w, n, l)
    BY <1>3, <1>4, <1>5, ConcatChained
  <1>7. /\ l \in Seq(Byte) /\ Len(l) = m + n /\ l[1] = x + n
        /\ \A i \in 2 .. m : l[i] = a[i]
    <2>1. 1 \in 1 .. m /\ \A i \in 2 .. m : i \in 1 .. m
      BY <1>2
    <2> QED
      BY <1>3, <1>6, <2>1 DEF Chained
  <1> QED
    BY <1>1, <1>2, <1>7

LEMMA TsSame ==
  ASSUME NEW start, NEW pid, NEW x, NEW y, NEW cc, NEW j \in 1 .. 24
  PROVE  SameAt(TsHeader, 8, Ends(TsHeader), Ts(start, pid, x, cc), Ts(start, pid, y, cc), j)
  <1>1. PICK E, h, g : /\ E = Ends(TsHeader) /\ h = Ts(start, pid, x, cc)
                       /\ g = Ts(start, pid, y, cc)
    OBVIOUS
  <1>2. /\ E[1 - 1] = 0 /\ E[2 - 1] = 8 /\ E[3 - 1] = 9 /\ E[4 - 1] = 10 /\ E[5 - 1] = 11
    BY <1>1, TsEnds
  <1>3. /\ TsHeader[1] = <<"mSyncByte", 8>>
        /\ TsHeader[2] = <<"mTransportErrorIndicator", 1>>
        /\ TsHeader[3] = <<"mPayloadUnitStartIndicator", 1>>
        /\ TsHeader[4] = <<"mTransportPriority", 1>>
        /\ TsHeader[5] = <<"mPid", 13>>
    BY DEF TsHeader
  <1>4. ASSUME NEW q \in 1 .. 5 PROVE h[TsHeader[q][1]] = g[TsHeader[q][1]]
    <2>1. /\ h.mSyncByte = 71 /\ g.mSyncByte = 71
          /\ h.mTransportErrorIndicator = 0 /\ g.mTransportErrorIndicator = 0
          /\ h.mPayloadUnitStartIndicator = start /\ g.mPayloadUnitStartIndicator = start
          /\ h.mTransportPriority = 0 /\ g.mTransportPriority = 0
          /\ h.mPid = pid /\ g.mPid = pid
      BY <1>1, TsFields
    <2> QED
      BY <1>3, <2>1
  <1>5. \E q \in 1 .. 5 : \E i \in 1 .. TsHeader[q][2] : j = E[q - 1] + i
    <2>1. CASE j \in 1 .. 8
      <3>1. j = 0 + j
        OBVIOUS
      <3> QED
        BY <1>2, <1>3, <2>1, <3>1
    <2>2. CASE j = 9
      <3>1. j = 8 + 1 /\ 1 \in 1 .. 1 /\ 2 \in 1 .. 5
        BY <2>2
      <3> QED
        BY <1>2, <1>3, <3>1
    <2>3. CASE j = 10
      <3>1. j = 9 + 1 /\ 1 \in 1 .. 1 /\ 3 \in 1 .. 5
        BY <2>3
      <3> QED
        BY <1>2, <1>3, <3>1
    <2>4. CASE j = 11
      <3>1. j = 10 + 1 /\ 1 \in 1 .. 1 /\ 4 \in 1 .. 5
        BY <2>4
      <3> QED
        BY <1>2, <1>3, <3>1
    <2>5. CASE j \in 12 .. 24
      <3>1. PICK i \in 1 .. 13 : j = 11 + i
        <4>1. j = 11 + (j - 11) /\ j - 11 \in 1 .. 13
          BY <2>5
        <4> QED
          BY <4>1
      <3>2. 5 \in 1 .. 5 /\ j = E[5 - 1] + i
        BY <1>2, <3>1
      <3>3. TsHeader[5][2] = 13
        BY <1>3
      <3> QED
        BY <3>1, <3>2, <3>3
    <2> QED
      BY <2>1, <2>2, <2>3, <2>4, <2>5
  <1> QED
    BY <1>1, <1>4, <1>5 DEF SameAt

\* The flag for an adaptation field is added to a byte that has not got it.
LEMMA FlagAdded ==
  ASSUME NEW start, NEW pid, NEW cc, TsType(start, pid, 1, cc)
  PROVE  Raise(Encode(TsHeader, Ts(start, pid, 1, cc)), 4, 32)
           = Encode(TsHeader, Ts(start, pid, 3, cc))
  <1>1. PICK h, g, s, t, r : /\ h = Ts(start, pid, 1, cc) /\ g = Ts(start, pid, 3, cc)
                             /\ s = Encode(TsHeader, h) /\ t = Encode(TsHeader, g)
                             /\ r = Raise(s, 4, 32)
    OBVIOUS
  <1>2. TsType(start, pid, 3, cc)
    BY DEF TsType
  <1>3. TsValues(h) /\ TsValues(g)
    BY <1>1, <1>2, TsIsValue
  <1>4. s \in Seq(Nat) /\ Len(s) = 4 /\ t \in Seq(Nat) /\ Len(t) = 4
    <2>1. Bytes(s, 4) /\ Bytes(t, 4)
      BY <1>1, <1>3, TsHeaderRead
    <2>2. Byte \subseteq Nat
      BY DEF Byte
    <2> QED
      BY <2>1, <2>2, SeqSubset DEF Bytes
  <1>5. /\ Sized(TsHeader, 8, 4) /\ Values(TsHeader, 8, h) /\ Values(TsHeader, 8, g)
    BY <1>3, TsReadable, ReadableHeader
  <1>6. ASSUME NEW k \in 1 .. 3 PROVE s[k] = t[k]
    <2>1. ASSUME NEW i \in 1 .. 8
          PROVE  SameAt(TsHeader, 8, Ends(TsHeader), h, g, 8 * k - 8 + i)
      <3>1. 8 * k - 8 + i \in 1 .. 24
        OBVIOUS
      <3> QED
        BY <1>1, <3>1, TsSame
    <2>2. k \in 1 .. 4
      OBVIOUS
    <2> QED
      BY <1>1, <1>5, <2>1, <2>2, SameOctet
  <1>7. s[4] + 32 = t[4]
    <2>1. PICK x \in Nat : x = cc
      BY Sizes DEF TsType
    <2>2. s[4] = 64 * 0 + 16 * 1 + x
      BY <1>1, <1>3, <2>1, TsLastByte, TsFields
    <2>3. t[4] = 64 * 0 + 16 * 3 + x
      BY <1>1, <1>3, <2>1, TsLastByte, TsFields
    <2> QED
      BY <2>2, <2>3
  <1>8. r \in Seq(Nat) /\ Len(r) = 4 /\ \A i \in 1 .. 4 : r[i] = IF i = 4 THEN s[4] + 32 ELSE s[i]
    <2>1. s \in Seq(Nat) /\ 4 \in 1 .. Len(s) /\ 32 \in Nat
      BY <1>4
    <2>2. /\ Raise(s, 4, 32) \in Seq(Nat) /\ Len(Raise(s, 4, 32)) = Len(s)
          /\ \A i \in 1 .. Len(s) :
               Raise(s, 4, 32)[i] = IF i = 4 THEN s[4] + 32 ELSE s[i]
      BY <2>1, RaiseType
    <2> QED
      BY <1>1, <1>4, <2>2
  <1>9. \A i \in 1 .. 4 : r[i] = t[i]
    BY <1>6, <1>7, <1>8
  <1>10. r = t
    BY <1>4, <1>8, <1>9, SeqEqual
  <1> QED
    BY <1>1, <1>10

\* What the flag is when a header is looked at.
LEMMA FlagSeen ==
  ASSUME NEW start, NEW pid, NEW afc, NEW cc, TsType(start, pid, afc, cc)
  PROVE  (Encode(TsHeader, Ts(start, pid, afc, cc))[4] \div 16) % 4 = afc
  <1>1. PICK h : h = Ts(start, pid, afc, cc)
    OBVIOUS
  <1>2. TsValues(h)
    BY <1>1, TsIsValue
  <1>3. PICK x \in 0 .. 15, y \in 1 .. 3 : x = cc /\ y = afc
    BY Sizes DEF TsType
  <1>4. Encode(TsHeader, h)[4] = 64 * 0 + 16 * y + x
    BY <1>1, <1>2, <1>3, TsLastByte, TsFields
  <1>5. ((64 * 0 + 16 * y + x) \div 16) % 4 = y
    OBVIOUS
  <1> QED
    BY <1>1, <1>3, <1>4, <1>5

-----------------------------------------------------------------------------
(* The packets of a frame.                                                 *)

\* The header of an adaptation field.
Field(length, ra, pcr) ==
  [Zero(AdaptationFieldHeader) EXCEPT !.mAdaptationFieldLength = length,
     !.mRandomAccessIndicator = ra, !.mPcrFlag = pcr]

LEMMA FieldFields ==
  ASSUME NEW length, NEW ra, NEW pcr
  PROVE  /\ Field(length, ra, pcr) =
              [name \in Names(AdaptationFieldHeader) |->
                 CASE name = "mAdaptationFieldLength" -> length
                   [] name = "mRandomAccessIndicator" -> ra
                   [] name = "mPcrFlag" -> pcr
                   [] OTHER -> 0]
         /\ Field(length, ra, pcr).mAdaptationFieldLength = length
         /\ Field(length, ra, pcr).mRandomAccessIndicator = ra
         /\ Field(length, ra, pcr).mPcrFlag = pcr
  BY AdaptationNames DEF Field, Zero

LEMMA FieldIsValue ==
  ASSUME NEW length \in 0 .. 255, NEW ra \in 0 .. 1, NEW pcr \in 0 .. 1
  PROVE  AdaptationValues(Field(length, ra, pcr))
  BY FieldFields, AdaptationNames DEF AdaptationValues

LEMMA FieldBytes ==
  ASSUME NEW length \in 1 .. 255, NEW ra \in 0 .. 1, NEW pcr \in 0 .. 1
  PROVE  /\ Bytes(EncodeAdaptation(Field(length, ra, pcr)), 2)
         /\ EncodeAdaptation(Field(length, ra, pcr))[1] = length
  <1>1. PICK a : a = Field(length, ra, pcr)
    OBVIOUS
  <1>2. length \in 0 .. 255 /\ length # 0
    OBVIOUS
  <1>3. AdaptationValues(a) /\ a.mAdaptationFieldLength = length
    <2>1. AdaptationValues(a)
      BY <1>1, <1>2, FieldIsValue
    <2>2. a.mAdaptationFieldLength = length
      BY <1>1, FieldFields
    <2> QED
      BY <2>1, <2>2
  <1>4. Bytes(EncodeAdaptation(a), 2) /\ EncodeAdaptation(a)[1] = length
    BY <1>2, <1>3, AdaptationWritten
  <1> QED
    BY <1>1, <1>4

\* The adaptation field of the first packet, before it is stuffed.
FirstField(f) ==
  CASE Pid(f) = PcrPid ->
         EncodeAdaptation(Field(7, f.mRandomAccess, 1)) \o writePcr(f.mPcr)
    [] Pid(f) # PcrPid /\ f.mRandomAccess = 1 ->
         EncodeAdaptation(Field(1, f.mRandomAccess, 0))
    [] OTHER -> <<>>

HasField(f) == Pid(f) = PcrPid \/ f.mRandomAccess = 1

LEMMA StampBits ==
  ASSUME NEW s \in Stamps
  PROVE  BitSeq(s, 33)
  <1>1. PICK n \in Nat : n = 33
    OBVIOUS
  <1>2. s \in [1 .. n -> Bit]
    BY <1>1 DEF Stamps, Bit
  <1>3. s \in Seq(Bit) /\ Len(s) = n
    BY <1>2, SeqDef, LenProperties
  <1> QED
    BY <1>1, <1>3 DEF BitSeq

LEMMA FirstFieldType ==
  ASSUME NEW f \in Frames
  PROVE  /\ FirstField(f) \in Seq(Byte) /\ Len(FirstField(f)) \in 0 .. 8
         /\ HasField(f) => /\ FirstField(f) # <<>>
                           /\ Len(FirstField(f)) = 1 + FirstField(f)[1]
                           /\ Len(FirstField(f)) >= 2
         /\ ~ HasField(f) => FirstField(f) = <<>>
  <1>1. PICK s : s = FirstField(f)
    OBVIOUS
  <1>2. f.mRandomAccess \in 0 .. 1 /\ BitSeq(f.mPcr, 33)
    <2>1. f.mRandomAccess \in {0, 1} /\ f.mPcr \in Stamps
      BY FrameTypes
    <2> QED
      BY <2>1, StampBits
  <1>3. CASE Pid(f) = PcrPid
    <2>1. PICK a, b : a = EncodeAdaptation(Field(7, f.mRandomAccess, 1)) /\ b = writePcr(f.mPcr)
      OBVIOUS
    <2>2. s = a \o b
      BY <1>1, <1>3, <2>1 DEF FirstField
    <2>5. Bytes(a, 2) /\ a[1] = 7
      <3>1. 7 \in 1 .. 255 /\ 1 \in 0 .. 1
        OBVIOUS
      <3> QED
        BY <1>2, <2>1, <3>1, FieldBytes
    <2>6. Bytes(b, 6)
      BY <1>2, <2>1, PcrWritten
    <2>7. a \in Seq(Byte) /\ Len(a) = 2 /\ b \in Seq(Byte) /\ Len(b) = 6
      BY <2>5, <2>6 DEF Bytes
    <2>8. Chained(Byte, a, 2, b, 6, s)
      BY <2>2, <2>7, ConcatChained
    <2>9. s \in Seq(Byte) /\ Len(s) = 8 /\ s[1] = 7
      <3>1. 1 \in 1 .. 2 /\ 2 + 6 = 8
        OBVIOUS
      <3> QED
        BY <2>5, <2>8, <3>1 DEF Chained
    <2>10. s # <<>>
      BY <2>9, EmptySeq
    <2> QED
      BY <1>1, <1>3, <2>9, <2>10 DEF HasField
  <1>4. CASE Pid(f) # PcrPid /\ f.mRandomAccess = 1
    <2>1. s = EncodeAdaptation(Field(1, f.mRandomAccess, 0))
      BY <1>1, <1>4 DEF FirstField
    <2>4. Bytes(s, 2) /\ s[1] = 1
      <3>1. 1 \in 1 .. 255 /\ 0 \in 0 .. 1
        OBVIOUS
      <3> QED
        BY <1>2, <2>1, <3>1, FieldBytes
    <2>5. s # <<>> /\ s \in Seq(Byte) /\ Len(s) = 2
      BY <2>4, EmptySeq DEF Bytes
    <2> QED
      BY <1>1, <1>4, <2>4, <2>5 DEF HasField
  <1>5. CASE Pid(f) # PcrPid /\ f.mRandomAccess # 1
    <2>1. s = <<>> /\ s \in Seq(Byte) /\ Len(s) = 0
      BY <1>1, <1>5 DEF FirstField
    <2> QED
      BY <1>1, <1>5, <2>1 DEF HasField
  <1> QED
    BY <1>3, <1>4, <1>5

\* The header that a packet of a frame has before it is stuffed.
FirstControl(f, start) == IF start = 0 /\ HasField(f) THEN 3 ELSE 1
FrameHeader(f, start, afc, cc) ==
  Encode(TsHeader, Ts(IF start = 0 THEN 1 ELSE 0, Pid(f), afc, cc))

LEMMA FrameHeaderType ==
  ASSUME NEW f \in Frames, NEW start \in Nat, NEW afc \in 1 .. 3,
         NEW cc \in 0 .. CcModulus - 1
  PROVE  /\ TsType(IF start = 0 THEN 1 ELSE 0, Pid(f), afc, cc)
         /\ Bytes(FrameHeader(f, start, afc, cc), 4)
  <1>1. TsType(IF start = 0 THEN 1 ELSE 0, Pid(f), afc, cc)
    BY FrameTypes DEF TsType
  <1> QED
    BY <1>1, TsIsValue, TsHeaderRead DEF FrameHeader

LEMMA FirstHeaderParts ==
  ASSUME NEW f \in Frames, NEW cc \in 0 .. CcModulus - 1
  PROVE  FirstHeader(f, Ts(1, Pid(f), 1, cc))
           = IF HasField(f) THEN FrameHeader(f, 0, 3, cc) \o FirstField(f)
             ELSE FrameHeader(f, 0, 1, cc)
  <1>1. PICK h, g : /\ h = Ts(1, Pid(f), 1, cc)
                    /\ g = [h EXCEPT !.mAdaptationFieldControl = 3]
    OBVIOUS
  <1>2. g = Ts(1, Pid(f), 3, cc)
    BY <1>1, TsNames DEF Ts, NewTsHeader, Zero
  <1>3. PICK a, b : /\ a = [Zero(AdaptationFieldHeader) EXCEPT
                               !.mRandomAccessIndicator = f.mRandomAccess]
                    /\ b = Encode(TsHeader, g)
    OBVIOUS
  <1>4. /\ [a EXCEPT !.mAdaptationFieldLength = 7, !.mPcrFlag = 1]
              = Field(7, f.mRandomAccess, 1)
        /\ [a EXCEPT !.mAdaptationFieldLength = 1] = Field(1, f.mRandomAccess, 0)
    BY <1>3, AdaptationNames DEF Field, Zero
  <1>8. Bytes(FrameHeader(f, 0, 3, cc), 4)
    BY FrameHeaderType
  <1>5. CASE Pid(f) = PcrPid
    <2>1. PICK x, y : x = EncodeAdaptation(Field(7, f.mRandomAccess, 1)) /\ y = writePcr(f.mPcr)
      OBVIOUS
    <2>2. FirstHeader(f, h) = (b \o x) \o y
      BY <1>1, <1>3, <1>4, <1>5, <2>1 DEF FirstHeader
    <2>3. FirstField(f) = x \o y
      BY <1>5, <2>1 DEF FirstField
    <2>4. (b \o x) \o y = b \o (x \o y)
      <3>1. b \in Seq(Byte)
        BY <1>2, <1>3, <1>8 DEF FrameHeader, Bytes
      <3>2. x \in Seq(Byte) /\ y \in Seq(Byte)
        <4>1. 7 \in 1 .. 255 /\ 1 \in 0 .. 1
          OBVIOUS
        <4>2. f.mRandomAccess \in 0 .. 1 /\ BitSeq(f.mPcr, 33)
          BY FrameTypes, StampBits
        <4>3. Bytes(x, 2) /\ Bytes(y, 6)
          BY <2>1, <4>1, <4>2, FieldBytes, PcrWritten
        <4> QED
          BY <4>3 DEF Bytes
      <3>3. Regroups(b, x, y)
        BY <3>1, <3>2, ConcatRegroups
      <3> QED
        BY <3>3 DEF Regroups
    <2>5. b = FrameHeader(f, 0, 3, cc)
      BY <1>2, <1>3 DEF FrameHeader
    <2> QED
      BY <1>1, <1>5, <2>2, <2>3, <2>4, <2>5 DEF HasField
  <1>6. CASE Pid(f) # PcrPid /\ f.mRandomAccess = 1
    <2>1. FirstHeader(f, h) = b \o EncodeAdaptation(Field(1, f.mRandomAccess, 0))
      BY <1>1, <1>3, <1>4, <1>6 DEF FirstHeader
    <2>2. FirstField(f) = EncodeAdaptation(Field(1, f.mRandomAccess, 0))
      BY <1>6 DEF FirstField
    <2>3. b = FrameHeader(f, 0, 3, cc)
      BY <1>2, <1>3 DEF FrameHeader
    <2> QED
      BY <1>1, <1>6, <2>1, <2>2, <2>3 DEF HasField
  <1>7. CASE Pid(f) # PcrPid /\ f.mRandomAccess # 1
    BY <1>1, <1>7 DEF FirstHeader, HasField, FrameHeader
  <1> QED
    BY <1>5, <1>6, <1>7

\* The header of the PES packet of a frame.
Both(f) == f.mPts # f.mDts
HeaderDataLength(f) == IF Both(f) THEN 10 ELSE 5
PesHeaderOf(f) ==
  [NewPESHeader EXCEPT !.mStreamId = f.mStreamId, !.mOriginalOrCopy = 1,
                       !.mPtsDtsFlags = IF Both(f) THEN 3 ELSE 2,
                       !.mHeaderDataLength = HeaderDataLength(f),
                       !.mPesPacketLength = PesLength(f, HeaderDataLength(f))]

LEMMA PesFields ==
  /\ Names(PESHeader) =
       {"mPacketStartCode", "mStreamId", "mPesPacketLength", "mMarkerBits",
        "mPesScramblingControl", "mPesPriority", "mDataAlignmentIndicator",
        "mCopyright", "mOriginalOrCopy", "mPtsDtsFlags", "mEscrFlag",
        "mEsRateFlag", "mDsmTrickModeFlag", "mAddCopyInfoFlag", "mPesCrcFlag",
        "mPesExtFlag", "mHeaderDataLength"}
  /\ PESHeader[1] = <<"mPacketStartCode", 24>> /\ PESHeader[2] = <<"mStreamId", 8>>
  /\ PESHeader[3] = <<"mPesPacketLength", 16>> /\ PESHeader[4] = <<"mMarkerBits", 2>>
  /\ PESHeader[5] = <<"mPesScramblingControl", 2>>
  /\ PESHeader[6] = <<"mPesPriority", 1>>
  /\ PESHeader[7] = <<"mDataAlignmentIndicator", 1>>
  /\ PESHeader[8] = <<"mCopyright", 1>> /\ PESHeader[9] = <<"mOriginalOrCopy", 1>>
  /\ PESHeader[10] = <<"mPtsDtsFlags", 2>> /\ PESHeader[11] = <<"mEscrFlag", 1>>
  /\ PESHeader[12] = <<"mEsRateFlag", 1>> /\ PESHeader[13] = <<"mDsmTrickModeFlag", 1>>
  /\ PESHeader[14] = <<"mAddCopyInfoFlag", 1>> /\ PESHeader[15] = <<"mPesCrcFlag", 1>>
  /\ PESHeader[16] = <<"mPesExtFlag", 1>> /\ PESHeader[17] = <<"mHeaderDataLength", 8>>
  <1>1. DOMAIN PESHeader = 1 .. 17
    BY DEF PESHeader
  <1>2. /\ PESHeader[1] = <<"mPacketStartCode", 24>> /\ PESHeader[2] = <<"mStreamId", 8>>
        /\ PESHeader[3] = <<"mPesPacketLength", 16>> /\ PESHeader[4] = <<"mMarkerBits", 2>>
        /\ PESHeader[5] = <<"mPesScramblingControl", 2>>
        /\ PESHeader[6] = <<"mPesPriority", 1>>
        /\ PESHeader[7] = <<"mDataAlignmentIndicator", 1>>
        /\ PESHeader[8] = <<"mCopyright", 1>> /\ PESHeader[9] = <<"mOriginalOrCopy", 1>>
        /\ PESHeader[10] = <<"mPtsDtsFlags", 2>> /\ PESHeader[11] = <<"mEscrFlag", 1>>
        /\ PESHeader[12] = <<"mEsRateFlag", 1>> /\ PESHeader[13] = <<"mDsmTrickModeFlag", 1>>
        /\ PESHeader[14] = <<"mAddCopyInfoFlag", 1>> /\ PESHeader[15] = <<"mPesCrcFlag", 1>>
        /\ PESHeader[16] = <<"mPesExtFlag", 1>> /\ PESHeader[17] = <<"mHeaderDataLength", 8>>
    BY DEF PESHeader
  <1> QED
    BY <1>1, <1>2 DEF Names

LEMMA PesValues ==
  ASSUME NEW f \in Frames
  PROVE  PesHeaderOf(f) =
           [name \in Names(PESHeader) |->
              CASE name = "mPacketStartCode" -> 1
                [] name = "mStreamId" -> f.mStreamId
                [] name = "mPesPacketLength" -> PesLength(f, HeaderDataLength(f))
                [] name = "mMarkerBits" -> 2
                [] name = "mOriginalOrCopy" -> 1
                [] name = "mPtsDtsFlags" -> (IF Both(f) THEN 3 ELSE 2)
                [] name = "mHeaderDataLength" -> HeaderDataLength(f)
                [] OTHER -> 0]
  BY PesFields DEF PesHeaderOf, NewPESHeader, Zero

LEMMA PesLengthType ==
  ASSUME NEW f \in Frames
  PROVE  /\ PesLength(f, HeaderDataLength(f)) \in Nat
         /\ PesLength(f, HeaderDataLength(f)) <= 65535
         /\ HeaderDataLength(f) \in 0 .. 255
  <1>1. PICK n \in Nat, m \in {5, 10} : n = f.size /\ m = HeaderDataLength(f)
    BY FrameTypes DEF HeaderDataLength
  <1>2. PesLength(f, m) = IF m + n + 3 > PesLengthLimit THEN 0 ELSE m + n + 3
    BY <1>1 DEF PesLength
  <1> QED
    BY <1>1, <1>2, Sizes

LEMMA PesReadable ==
  ASSUME NEW f \in Frames
  PROVE  Readable(PESHeader, 17, 9, PesHeaderOf(f))
  <1>1. PICK h : h = PesHeaderOf(f)
    OBVIOUS
  <1>2. /\ h.mPacketStartCode = 1 /\ h.mStreamId = f.mStreamId
        /\ h.mPesPacketLength = PesLength(f, HeaderDataLength(f))
        /\ h.mMarkerBits = 2 /\ h.mPesScramblingControl = 0 /\ h.mPesPriority = 0
        /\ h.mDataAlignmentIndicator = 0 /\ h.mCopyright = 0 /\ h.mOriginalOrCopy = 1
        /\ h.mPtsDtsFlags \in {2, 3} /\ h.mEscrFlag = 0 /\ h.mEsRateFlag = 0
        /\ h.mDsmTrickModeFlag = 0 /\ h.mAddCopyInfoFlag = 0 /\ h.mPesCrcFlag = 0
        /\ h.mPesExtFlag = 0 /\ h.mHeaderDataLength = HeaderDataLength(f)
    BY <1>1, PesValues, PesFields
  <1>3. Fits(1, 24)
    <2>1. 1 \in Nat /\ 1 < Power[24] /\ 24 \in 0 .. 24
      BY PowerValues
    <2> QED
      BY <2>1, FitsBelow
  <1>4. Fits(h.mPesPacketLength, 16)
    <2>1. PICK n \in Nat : n = h.mPesPacketLength /\ n <= 65535
      BY <1>2, PesLengthType
    <2>2. n < Power[16] /\ 16 \in 0 .. 24
      BY <2>1, PowerValues
    <2> QED
      BY <2>1, <2>2, FitsBelow
  <1>5. Fits(h.mStreamId, 8) /\ Fits(h.mHeaderDataLength, 8)
    <2>1. h.mStreamId \in 0 .. 255 /\ h.mHeaderDataLength \in 0 .. 255
      BY <1>2, FrameTypes, PesLengthType
    <2> QED
      BY <2>1, FitsByte
  <1>6. Fits(0, 1) /\ Fits(1, 1) /\ Fits(0, 2) /\ Fits(2, 2) /\ Fits(3, 2)
    BY FitsOne, FitsTwo
  <1>7. ASSUME NEW k \in 1 .. 17 PROVE Fits(h[PESHeader[k][1]], PESHeader[k][2])
    BY <1>2, <1>3, <1>4, <1>5, <1>6, PesFields
  <1>8. Readable(PESHeader, 17, 9, h)
    BY <1>7, PESHeaderLayout DEF Readable
  <1> QED
    BY <1>1, <1>8

LEMMA PesWritten ==
  ASSUME NEW f \in Frames
  PROVE  /\ Bytes(Encode(PESHeader, PesHeaderOf(f)), 9)
         /\ EncodePes(f) = Encode(PESHeader, PesHeaderOf(f))
                           \o (IF Both(f) THEN writePts(3, f.mPts) \o writePts(1, f.mDts)
                               ELSE writePts(2, f.mPts))
         /\ Bytes(IF Both(f) THEN writePts(3, f.mPts) \o writePts(1, f.mDts)
                  ELSE writePts(2, f.mPts), HeaderDataLength(f))
         /\ Bytes(EncodePes(f), 9 + HeaderDataLength(f))
  <1>1. PICK h, t : /\ h = Encode(PESHeader, PesHeaderOf(f))
                    /\ t = IF Both(f) THEN writePts(3, f.mPts) \o writePts(1, f.mDts)
                           ELSE writePts(2, f.mPts)
    OBVIOUS
  <1>2. Bytes(h, 9)
    <2>1. Sized(PESHeader, 17, 9) /\ Values(PESHeader, 17, PesHeaderOf(f))
      BY PesReadable, ReadableHeader
    <2> QED
      BY <1>1, <2>1, EncodeType
  <1>3. EncodePes(f) = h \o t
    BY <1>1 DEF EncodePes, PesHeaderOf, HeaderDataLength, Both
  <1>4. BitSeq(f.mPts, 33) /\ BitSeq(f.mDts, 33)
    BY FrameTypes, StampBits
  <1>5. Bytes(t, HeaderDataLength(f))
    <2>1. CASE Both(f)
      <3>1. PICK x, y : x = writePts(3, f.mPts) /\ y = writePts(1, f.mDts)
        OBVIOUS
      <3>2. Bytes(x, 5) /\ Bytes(y, 5)
        BY <1>4, <3>1, PtsWritten
      <3>3. x \in Seq(Byte) /\ Len(x) = 5 /\ y \in Seq(Byte) /\ Len(y) = 5
        BY <3>2 DEF Bytes
      <3>4. Chained(Byte, x, 5, y, 5, x \o y)
        BY <3>3, ConcatChained
      <3>5. t = x \o y /\ HeaderDataLength(f) = 10 /\ 5 + 5 = 10
        BY <1>1, <2>1, <3>1 DEF HeaderDataLength
      <3> QED
        BY <3>4, <3>5 DEF Chained, Bytes
    <2>2. CASE ~ Both(f)
      <3>1. t = writePts(2, f.mPts) /\ HeaderDataLength(f) = 5
        BY <1>1, <2>2 DEF HeaderDataLength
      <3> QED
        BY <1>4, <3>1, PtsWritten
    <2> QED
      BY <2>1, <2>2
  <1>6. Bytes(h \o t, 9 + HeaderDataLength(f))
    <2>1. PICK m : m = HeaderDataLength(f)
      OBVIOUS
    <2>2. h \in Seq(Byte) /\ t \in Seq(Byte) /\ 9 = Len(h) /\ m = Len(t)
      BY <1>2, <1>5, <2>1 DEF Bytes
    <2>3. Chained(Byte, h, 9, t, m, h \o t)
      BY <2>2, ConcatChained
    <2> QED
      BY <2>1, <2>3 DEF Chained, Bytes
  <1> QED
    BY <1>1, <1>2, <1>3, <1>5, <1>6

\* What comes before the payload: header, adaptation field, PES header.
StartField(f, start) == IF start = 0 THEN FirstField(f) ELSE <<>>
StartPes(f, start) == IF start = 0 THEN EncodePes(f) ELSE <<>>

LEMMA StartTypes ==
  ASSUME NEW f \in Frames, NEW start \in Nat
  PROVE  /\ StartField(f, start) \in Seq(Byte) /\ Len(StartField(f, start)) \in 0 .. 8
         /\ FirstControl(f, start) \in {1, 3}
         /\ FirstControl(f, start) = 1 => StartField(f, start) = <<>>
         /\ FirstControl(f, start) = 3 =>
              /\ StartField(f, start) # <<>>
              /\ Len(StartField(f, start)) = 1 + StartField(f, start)[1]
              /\ Len(StartField(f, start)) >= 2
         /\ StartPes(f, start) \in Seq(Byte) /\ Len(StartPes(f, start)) \in 0 .. 19
  <1>1. CASE start = 0
    <2>1. StartField(f, start) = FirstField(f) /\ StartPes(f, start) = EncodePes(f)
      BY <1>1 DEF StartField, StartPes
    <2>2. FirstControl(f, start) = IF HasField(f) THEN 3 ELSE 1
      BY <1>1 DEF FirstControl
    <2>3. EncodePes(f) \in Seq(Byte) /\ Len(EncodePes(f)) \in 0 .. 19
      <3>1. Bytes(EncodePes(f), 9 + HeaderDataLength(f))
        BY PesWritten
      <3>2. HeaderDataLength(f) \in {5, 10}
        BY DEF HeaderDataLength
      <3> QED
        BY <3>1, <3>2 DEF Bytes
    <2>5. FirstField(f) \in Seq(Byte) /\ Len(FirstField(f)) \in 0 .. 8
      BY FirstFieldType
    <2>6. CASE HasField(f)
      <3>1. /\ FirstField(f) # <<>> /\ Len(FirstField(f)) = 1 + FirstField(f)[1]
            /\ Len(FirstField(f)) >= 2
        BY <2>6, FirstFieldType
      <3>2. FirstControl(f, start) = 3
        BY <2>2, <2>6
      <3> QED
        BY <2>1, <2>3, <2>5, <3>1, <3>2
    <2>7. CASE ~ HasField(f)
      <3>1. FirstField(f) = <<>>
        BY <2>7, FirstFieldType
      <3>2. FirstControl(f, start) = 1
        BY <2>2, <2>7
      <3> QED
        BY <2>1, <2>3, <2>5, <3>1, <3>2
    <2> QED
      BY <2>6, <2>7
  <1>2. CASE start # 0
    <2>1. StartField(f, start) = <<>> /\ StartPes(f, start) = <<>>
      BY <1>2 DEF StartField, StartPes
    <2>2. FirstControl(f, start) = 1
      BY <1>2 DEF FirstControl
    <2>3. <<>> \in Seq(Byte) /\ Len(<<>>) = 0
      BY EmptySeq
    <2> QED
      BY <2>1, <2>2, <2>3
  <1> QED
    BY <1>1, <1>2

LEMMA BeforeParts ==
  ASSUME NEW f \in Frames, NEW start \in Nat, NEW cc \in 0 .. CcModulus - 1
  PROVE  /\ BeforePayload(f, start = 0, cc)
              = (FrameHeader(f, start, FirstControl(f, start), cc)
                 \o StartField(f, start)) \o StartPes(f, start)
         /\ Len(BeforePayload(f, start = 0, cc))
              = 4 + Len(StartField(f, start)) + Len(StartPes(f, start))
  <1>1. PICK h, a, e : /\ h = FrameHeader(f, start, FirstControl(f, start), cc)
                       /\ a = StartField(f, start) /\ e = StartPes(f, start)
    OBVIOUS
  <1>2. PICK t : t = Ts(IF start = 0 THEN 1 ELSE 0, Pid(f), 1, cc)
    OBVIOUS
  <1>3. [NewTsHeader EXCEPT !.mPid = Pid(f), !.mContinuityCounter = cc,
                      !.mAdaptationFieldControl = 1,
                      !.mPayloadUnitStartIndicator = IF start = 0 THEN 1 ELSE 0] = t
    BY <1>2, TsNames DEF Ts, NewTsHeader, Zero
  <1>4. BeforePayload(f, start = 0, cc) =
          IF start = 0 THEN FirstHeader(f, t) \o EncodePes(f) ELSE Encode(TsHeader, t)
    BY <1>3 DEF BeforePayload
  <1>5. /\ h \in Seq(Byte) /\ Len(h) = 4 /\ a \in Seq(Byte) /\ e \in Seq(Byte)
        /\ Len(a) \in Nat /\ Len(e) \in Nat
    <2>1. FirstControl(f, start) \in 1 .. 3
      BY DEF FirstControl
    <2>2. Bytes(h, 4)
      BY <1>1, <2>1, FrameHeaderType
    <2> QED
      BY <1>1, <2>2, StartTypes DEF Bytes
  <1>6. BeforePayload(f, start = 0, cc) = (h \o a) \o e
    <2>1. CASE start = 0 /\ HasField(f)
      <3>1. t = Ts(1, Pid(f), 1, cc)
        BY <1>2, <2>1
      <3>2. h = FrameHeader(f, 0, 3, cc) /\ a = FirstField(f) /\ e = EncodePes(f)
        BY <1>1, <2>1 DEF FirstControl, StartField, StartPes
      <3>3. FirstHeader(f, t) = h \o a
        BY <2>1, <3>1, <3>2, FirstHeaderParts
      <3> QED
        BY <1>4, <2>1, <3>2, <3>3
    <2>2. CASE start = 0 /\ ~ HasField(f)
      <3>1. t = Ts(1, Pid(f), 1, cc)
        BY <1>2, <2>2
      <3>2. h = FrameHeader(f, 0, 1, cc) /\ e = EncodePes(f)
        BY <1>1, <2>2 DEF FirstControl, StartPes
      <3>3. FirstHeader(f, t) = h
        BY <2>2, <3>1, <3>2, FirstHeaderParts
      <3>4. a = <<>>
        BY <1>1, <2>2, StartTypes DEF FirstControl
      <3>5. h \o a = h
        BY <1>5, <3>4, ConcatEmptySeq
      <3> QED
        BY <1>4, <2>2, <3>2, <3>3, <3>5
    <2>3. CASE start # 0
      <3>1. h = Encode(TsHeader, t)
        BY <1>1, <1>2, <2>3 DEF FrameHeader, FirstControl
      <3>2. a = <<>> /\ e = <<>>
        BY <1>1, <2>3 DEF StartField, StartPes
      <3>3. (h \o a) \o e = h
        BY <1>5, <3>2, ConcatEmptySeq
      <3> QED
        BY <1>4, <2>3, <3>1, <3>3
    <2> QED
      BY <2>1, <2>2, <2>3
  <1>7. Len((h \o a) \o e) = 4 + Len(a) + Len(e)
    <2>1. Chained(Byte, h, 4, a, Len(a), h \o a)
      BY <1>5, ConcatChained
    <2>2. PICK g : g = h \o a
      OBVIOUS
    <2>3. g \in Seq(Byte) /\ Len(g) = 4 + Len(a)
      BY <2>1, <2>2 DEF Chained
    <2>4. Chained(Byte, g, 4 + Len(a), e, Len(e), g \o e)
      BY <1>5, <2>3, ConcatChained
    <2> QED
      BY <2>2, <2>4 DEF Chained
  <1> QED
    BY <1>1, <1>6, <1>7

\* Writing over a place that has been made for the data appends it.
LEMMA SetDataAppends ==
  ASSUME NEW s, s \in Seq(Nat), NEW d, d \in Seq(Nat), NEW n, n = Len(d)
  PROVE  SetData(s \o Filled(n, 0), Len(s), d) = s \o d
  <1>0. PICK m \in Nat : m = Len(s)
    BY LenProperties
  <1>1. PICK w, b : m = Len(s) /\ w = Filled(n, 0) /\ b = s \o w
    BY <1>0
  <1>2. n \in Nat
    BY LenProperties
  <1>3. w \in Seq(Nat) /\ Len(w) = n
    BY <1>1, <1>2, FilledSeq
  <1>4. Chained(Nat, s, m, w, n, b)
    BY <1>1, <1>3, ConcatChained
  <1>5. Chained(Nat, s, m, d, n, s \o d)
    BY <1>1, ConcatChained
  <1>6. PICK c, r : c = s \o d /\ r = SetData(b, m, d)
    OBVIOUS
  <1>7. b \in Seq(Nat) /\ Len(b) = m + n /\ \A i \in 1 .. m : b[i] = s[i]
    BY <1>4 DEF Chained
  <1>8. DOMAIN b = 1 .. m + n
    BY <1>7, LenProperties
  <1>9. r = [k \in 1 .. m + n |-> IF k \in m + 1 .. m + n THEN d[k - m] ELSE b[k]]
    <2>1. ~ (m + Len(d) > Len(b))
      BY <1>2, <1>7
    <2> QED
      BY <1>6, <1>8, <2>1 DEF SetData
  <1>10. /\ c \in Seq(Nat) /\ Len(c) = m + n /\ \A i \in 1 .. m : c[i] = s[i]
         /\ \A i \in 1 .. n : c[m + i] = d[i]
    BY <1>5, <1>6 DEF Chained
  <1>11. ASSUME NEW k \in 1 .. m + n PROVE r[k] = c[k]
    <2>1. CASE k \in 1 .. m
      <3>1. ~ (k \in m + 1 .. m + n)
        BY <2>1
      <3>2. r[k] = b[k]
        BY <1>9, <3>1
      <3> QED
        BY <1>7, <1>10, <2>1, <3>2
    <2>2. CASE k \in m + 1 .. m + n
      <3>1. PICK i \in 1 .. n : k = m + i
        <4>1. k - m \in 1 .. n /\ k = m + (k - m)
          BY <1>2, <2>2
        <4> QED
          BY <4>1
      <3>2. r[k] = d[k - m] /\ k - m = i
        BY <1>2, <1>9, <2>2, <3>1
      <3> QED
        BY <1>10, <3>1, <3>2
    <2> QED
      BY <1>2, <2>1, <2>2
  <1>12. r = c
    <2>1. c \in [1 .. m + n -> Nat]
      BY <1>10, LenProperties
    <2> QED
      BY <1>9, <1>11, <2>1
  <1> QED
    BY <1>1, <1>6, <1>12

LEMMA MinOfTwo ==
  ASSUME NEW x \in Int, NEW y \in Int
  PROVE  /\ Min({x, y}) \in {x, y} /\ Min({x, y}) <= x /\ Min({x, y}) <= y
  <1>1. \E m \in {x, y} : \A k \in {x, y} : m <= k
    <2>1. CASE x <= y
      BY <2>1
    <2>2. CASE y <= x
      BY <2>2
    <2> QED
      BY <2>1, <2>2
  <1>2. PICK m : m = Min({x, y})
    OBVIOUS
  <1>3. m \in {x, y} /\ \A k \in {x, y} : m <= k
    BY <1>1, <1>2 DEF Min
  <1> QED
    BY <1>2, <1>3

\* A packet always has room for data, and takes some.
LEMMA TakenType ==
  ASSUME NEW f \in Frames, NEW start \in Nat, start < f.size
  PROVE  /\ BodySize(f, start) \in 1 .. 256
         /\ 4 + Len(StartField(f, start)) + Len(StartPes(f, start))
              + BodySize(f, start) = PacketSize
         /\ Taken(f, start) \in Nat \ {0} /\ Taken(f, start) <= BodySize(f, start)
         /\ start + Taken(f, start) <= f.size
         /\ Taken(f, start) # BodySize(f, start) => start + Taken(f, start) = f.size
  <1>1. PICK a \in 0 .. 8, e \in 0 .. 19 :
          a = Len(StartField(f, start)) /\ e = Len(StartPes(f, start))
    BY StartTypes
  <1>2. Len(BeforePayload(f, start = 0, 0)) = 4 + a + e
    <2>1. 0 \in 0 .. CcModulus - 1
      BY Sizes
    <2> QED
      BY <1>1, <2>1, BeforeParts
  <1>3. PICK b : b = BodySize(f, start)
    OBVIOUS
  <1>4. b = PacketSize - (4 + a + e)
    BY <1>2, <1>3 DEF BodySize
  <1>5. b \in 1 .. 256 /\ 4 + a + e + b = PacketSize
    BY <1>4, Sizes
  <1>6. PICK n \in Nat : n = f.size
    BY FrameTypes
  <1>7. PICK t : t = Taken(f, start)
    OBVIOUS
  <1>8. t = Min({b, n - start})
    BY <1>3, <1>6, <1>7 DEF Taken
  <1>9. t \in {b, n - start} /\ t <= b /\ t <= n - start
    <2>1. b \in Int /\ n - start \in Int
      BY <1>5
    <2> QED
      BY <1>8, <2>1, MinOfTwo
  <1>10. t \in Nat \ {0} /\ t <= b /\ start + t <= n /\ (t # b => start + t = n)
    BY <1>5, <1>6, <1>9
  <1> QED
    BY <1>1, <1>3, <1>5, <1>6, <1>7, <1>10

\* The bytes of a frame.
DataPart(f, start, n) == SubSeq(Data(f), start + 1, start + n)

LEMMA DataSlice ==
  ASSUME NEW f \in Frames, NEW start \in Nat, NEW n \in Nat, start + n <= f.size
  PROVE  /\ DataPart(f, start, n) \in Seq(Nat)
         /\ Len(DataPart(f, start, n)) = n
         /\ \A i \in 1 .. n : DataPart(f, start, n)[i] = 255 + start + i
  <1>0. PICK m \in Nat : m = f.size
    BY FrameTypes
  <1>1. PICK d, s : m = f.size /\ d = Data(f) /\ s = SubSeq(d, start + 1, start + n)
    BY <1>0
  <1>2. d = [k \in 1 .. m |-> 255 + k]
    BY <1>1 DEF Data
  <1>3. d \in Seq(Nat) /\ Len(d) = m
    <2>1. d \in [1 .. m -> Nat]
      BY <1>2
    <2> QED
      BY <2>1, SeqDef, LenProperties
  <1>4. start + 1 \in 1 .. Len(d) + 1 /\ start + n \in (start + 1) - 1 .. Len(d)
    BY <1>1, <1>3
  <1>5. /\ s \in Seq(Nat) /\ Len(s) = (start + n) - (start + 1) + 1
        /\ \A i \in 1 .. (start + n) - (start + 1) + 1 : s[i] = d[(start + 1) + i - 1]
    BY <1>1, <1>3, <1>4, SliceType
  <1>6. (start + n) - (start + 1) + 1 = n
    OBVIOUS
  <1>7. ASSUME NEW i \in 1 .. n PROVE s[i] = 255 + start + i
    <2>1. (start + 1) + i - 1 = start + i /\ start + i \in 1 .. m
      BY <1>1
    <2> QED
      BY <1>2, <1>5, <1>6, <2>1
  <1> QED
    BY <1>1, <1>5, <1>6, <1>7 DEF DataPart

\* What a packet of a frame consists of.
Stuffing(f, start) == BodySize(f, start) - Taken(f, start)
PesControl(f, start) == IF Stuffing(f, start) = 0 THEN FirstControl(f, start) ELSE 3
PesField(f, start) ==
  CASE Stuffing(f, start) = 0 -> StartField(f, start)
    [] Stuffing(f, start) # 0 /\ FirstControl(f, start) = 3 ->
         Longer(StartField(f, start), Stuffing(f, start))
    [] OTHER -> Added(Stuffing(f, start))
PesPayload(f, start) ==
  StartPes(f, start) \o SubSeq(Data(f), start + 1, start + Taken(f, start))

LEMMA StuffingType ==
  ASSUME NEW f \in Frames, NEW start \in Nat, start < f.size
  PROVE  /\ Stuffing(f, start) \in 0 .. 255
         /\ 4 + Len(StartField(f, start)) + Len(StartPes(f, start))
              + Taken(f, start) + Stuffing(f, start) = PacketSize
         /\ Taken(f, start) \in Nat \ {0}
  <1>1. PICK a \in 0 .. 8, e \in 0 .. 19 :
          a = Len(StartField(f, start)) /\ e = Len(StartPes(f, start))
    BY StartTypes
  <1>2. PICK b \in 1 .. 256, t \in Nat \ {0} : b = BodySize(f, start) /\ t = Taken(f, start)
    BY TakenType
  <1>3. 4 + a + e + b = PacketSize /\ t <= b
    BY <1>1, <1>2, TakenType
  <1>4. Stuffing(f, start) = b - t
    BY <1>2 DEF Stuffing
  <1>5. b - t \in 0 .. 255 /\ 4 + a + e + t + (b - t) = PacketSize
    BY <1>3
  <1> QED
    BY <1>1, <1>2, <1>4, <1>5

\* The adaptation field of a packet of a frame.
LEMMA PesFieldType ==
  ASSUME NEW f \in Frames, NEW start \in Nat, start < f.size
  PROVE  /\ PesControl(f, start) \in {1, 3}
         /\ PesField(f, start) \in Seq(Byte)
         /\ Len(PesField(f, start)) = Len(StartField(f, start)) + Stuffing(f, start)
         /\ PesControl(f, start) = 1 => PesField(f, start) = <<>>
         /\ PesControl(f, start) = 3 =>
              PesField(f, start) # <<>> /\ Len(PesField(f, start)) = 1 + PesField(f, start)[1]
  <1>6. PICK n \in 0 .. 255 : n = Stuffing(f, start)
    BY StuffingType
  <1>1. PICK a, s : a = StartField(f, start) /\ s = PesField(f, start) /\ n = Stuffing(f, start)
    BY <1>6
  <1>2. a \in Seq(Byte) /\ Len(a) \in Nat /\ FirstControl(f, start) \in {1, 3}
    BY <1>1, StartTypes
  <1>3. CASE n = 0
    <2>1. s = a /\ PesControl(f, start) = FirstControl(f, start)
      BY <1>1, <1>3 DEF PesField, PesControl
    <2>2. Len(s) = Len(a) + n
      BY <1>2, <1>3, <2>1
    <2> QED
      BY <1>1, <1>2, <2>1, <2>2, StartTypes
  <1>4. CASE n # 0 /\ FirstControl(f, start) = 3
    <2>1. s = Longer(a, n) /\ PesControl(f, start) = 3
      BY <1>1, <1>4 DEF PesField, PesControl
    <2>2. a # <<>> /\ Len(a) = 1 + a[1]
      BY <1>1, <1>4, StartTypes
    <2>3. PICK x \in Nat : x = a[1]
      <3>1. 1 \in 1 .. Len(a) /\ Byte \subseteq Nat
        BY <1>2, <2>2, EmptySeq DEF Byte
      <3> QED
        BY <1>2, <3>1, ElementOfSeq
    <2>4. x + n <= 255
      <3>1. PICK e \in 0 .. 19, t \in Nat \ {0} : e = Len(StartPes(f, start)) /\ t = Taken(f, start)
        BY StartTypes, TakenType
      <3>2. 4 + Len(a) + e + t + n = PacketSize
        BY <1>1, <3>1, StuffingType
      <3>3. 4 + (1 + x) + e + t + n = PacketSize
        BY <2>2, <2>3, <3>2
      <3> QED
        BY <3>3, Sizes
    <2>5. s \in Seq(Byte) /\ Len(s) = Len(a) + n /\ s[1] = x + n
      <3>1. n \in Nat /\ a[1] + n <= 255 /\ a \in Seq(Byte) /\ a # <<>>
        BY <1>2, <2>2, <2>3, <2>4
      <3>2. /\ Longer(a, n) \in Seq(Byte) /\ Len(Longer(a, n)) = Len(a) + n
            /\ Longer(a, n)[1] = a[1] + n
        BY <3>1, LongerType
      <3> QED
        BY <2>1, <2>3, <3>2
    <2>6. s # <<>> /\ Len(s) = 1 + s[1]
      <3>1. Len(s) = (1 + x) + n
        BY <2>2, <2>3, <2>5
      <3>2. Len(s) # 0 /\ Len(s) = 1 + (x + n)
        BY <3>1
      <3> QED
        BY <2>5, <3>2, EmptySeq
    <2> QED
      BY <1>1, <2>1, <2>5, <2>6
  <1>5. CASE n # 0 /\ FirstControl(f, start) = 1
    <2>1. s = Added(n) /\ PesControl(f, start) = 3
      BY <1>1, <1>5 DEF PesField, PesControl
    <2>2. a = <<>> /\ Len(a) = 0
      BY <1>1, <1>5, StartTypes, EmptySeq
    <2>3. n \in 1 .. 256
      BY <1>5
    <2>4. s \in Seq(Byte) /\ Len(s) = n /\ s[1] = n - 1
      BY <2>1, <2>3, AddedType
    <2>5. s # <<>> /\ Len(s) = 1 + s[1] /\ Len(s) = Len(a) + n
      BY <1>5, <2>2, <2>4, EmptySeq
    <2> QED
      BY <1>1, <2>1, <2>4, <2>5
  <1> QED
    BY <1>2, <1>3, <1>4, <1>5

\* What createPes makes room for: the packet without its data.
LEMMA StuffedParts ==
  ASSUME NEW f \in Frames, NEW start \in Nat, start < f.size,
         NEW cc \in 0 .. CcModulus - 1
  PROVE  (IF Stuffing(f, start) = 0 THEN BeforePayload(f, start = 0, cc)
          ELSE Stuffed(BeforePayload(f, start = 0, cc), Stuffing(f, start)))
           = (FrameHeader(f, start, PesControl(f, start), cc) \o PesField(f, start))
             \o StartPes(f, start)
  <1>1. PICK n \in 0 .. 255 : n = Stuffing(f, start)
    BY StuffingType
  <1>2. PICK h, a, e, p : /\ h = FrameHeader(f, start, FirstControl(f, start), cc)
                          /\ a = StartField(f, start) /\ e = StartPes(f, start)
                          /\ p = BeforePayload(f, start = 0, cc)
    OBVIOUS
  <1>3. p = (h \o a) \o e
    BY <1>2, BeforeParts
  <1>4. FirstControl(f, start) \in {1, 3} /\ FirstControl(f, start) \in 1 .. 3
    BY StartTypes
  <1>5. Byte \subseteq Nat
    BY DEF Byte
  <1>6. h \in Seq(Nat) /\ Len(h) = 4 /\ a \in Seq(Nat) /\ e \in Seq(Nat)
    <2>1. Bytes(h, 4)
      BY <1>2, <1>4, FrameHeaderType
    <2>2. h \in Seq(Byte) /\ Len(h) = 4 /\ a \in Seq(Byte) /\ e \in Seq(Byte)
      BY <1>2, <2>1, StartTypes DEF Bytes
    <2> QED
      BY <1>5, <2>2, SeqSubset
  <1>7. (h[4] \div 16) % 4 = FirstControl(f, start)
    <2>1. PICK x, y : x = FirstControl(f, start) /\ y = IF start = 0 THEN 1 ELSE 0
      OBVIOUS
    <2>2. TsType(y, Pid(f), x, cc)
      BY <1>4, <2>1, FrameHeaderType
    <2>3. (Encode(TsHeader, Ts(y, Pid(f), x, cc))[4] \div 16) % 4 = x
      BY <2>2, FlagSeen
    <2>4. h = Encode(TsHeader, Ts(y, Pid(f), x, cc))
      BY <1>2, <2>1 DEF FrameHeader
    <2> QED
      BY <2>1, <2>3, <2>4
  <1>8. CASE n = 0
    BY <1>1, <1>2, <1>3, <1>8 DEF PesControl, PesField
  <1>9. CASE n # 0 /\ FirstControl(f, start) = 3
    <2>1. a # <<>> /\ Len(a) = 1 + a[1]
      BY <1>2, <1>9, StartTypes
    <2>2. Stuffed((h \o a) \o e, n) = (h \o Longer(a, n)) \o e
      <3>1. (h[4] \div 16) % 4 = 3 /\ n \in Nat
        BY <1>7, <1>9
      <3> QED
        BY <1>6, <2>1, <3>1, StuffedField, ZenonT(40)
    <2>3. PesField(f, start) = Longer(a, n) /\ PesControl(f, start) = 3
      BY <1>1, <1>2, <1>9 DEF PesField, PesControl
    <2>4. h = FrameHeader(f, start, 3, cc)
      BY <1>2, <1>9
    <2> QED
      BY <1>1, <1>2, <1>3, <1>9, <2>2, <2>3, <2>4
  <1>10. CASE n # 0 /\ FirstControl(f, start) = 1
    <2>1. a = <<>> /\ h \o a = h
      <3>1. a = <<>>
        BY <1>2, <1>10, StartTypes
      <3> QED
        BY <1>6, <3>1, ConcatEmptySeq
    <2>2. Stuffed(h \o e, n) = (Raise(h, 4, 32) \o Added(n)) \o e
      <3>1. (h[4] \div 16) % 4 = 1 /\ n \in Nat
        BY <1>7, <1>10
      <3> QED
        BY <1>6, <3>1, StuffedNew
    <2>3. PesField(f, start) = Added(n) /\ PesControl(f, start) = 3
      BY <1>1, <1>10 DEF PesField, PesControl
    <2>4. Raise(h, 4, 32) = FrameHeader(f, start, 3, cc)
      <3>1. PICK y : y = IF start = 0 THEN 1 ELSE 0
        OBVIOUS
      <3>2. TsType(y, Pid(f), 1, cc)
        <4>1. 1 \in 1 .. 3
          OBVIOUS
        <4> QED
          BY <3>1, <4>1, FrameHeaderType
      <3>3. Raise(Encode(TsHeader, Ts(y, Pid(f), 1, cc)), 4, 32)
              = Encode(TsHeader, Ts(y, Pid(f), 3, cc))
        BY <3>2, FlagAdded
      <3> QED
        BY <1>2, <1>10, <3>1, <3>3 DEF FrameHeader
    <2> QED
      BY <1>1, <1>2, <1>3, <1>10, <2>1, <2>2, <2>3, <2>4
  <1> QED
    BY <1>4, <1>8, <1>9, <1>10

\* The packet that createPes makes.
LEMMA PesParts ==
  ASSUME NEW f \in Frames, NEW start \in Nat, start < f.size,
         NEW cc \in 0 .. CcModulus - 1
  PROVE  IsPacket(PesPacket(f, start, cc), IF start = 0 THEN 1 ELSE 0, Pid(f),
                  PesControl(f, start), cc, PesField(f, start), PesPayload(f, start))
  <1>1. PICK h, a, e, d : /\ h = FrameHeader(f, start, PesControl(f, start), cc)
                          /\ a = PesField(f, start) /\ e = StartPes(f, start)
                          /\ d = SubSeq(Data(f), start + 1, start + Taken(f, start))
    OBVIOUS
  <1>2. PICK t \in Nat \ {0} : t = Taken(f, start)
    BY StuffingType
  <1>3. PesControl(f, start) \in {1, 3} /\ PesControl(f, start) \in 1 .. 3
    BY PesFieldType
  <1>4. Byte \subseteq Nat
    BY DEF Byte
  <1>5. h \in Seq(Nat) /\ Len(h) = 4 /\ a \in Seq(Nat) /\ a \in Seq(Byte) /\ e \in Seq(Nat)
    <2>1. Bytes(h, 4)
      BY <1>1, <1>3, FrameHeaderType
    <2>2. h \in Seq(Byte) /\ Len(h) = 4 /\ a \in Seq(Byte) /\ e \in Seq(Byte)
      BY <1>1, <2>1, StartTypes, PesFieldType DEF Bytes
    <2> QED
      BY <1>4, <2>2, SeqSubset
  <1>6. d \in Seq(Nat) /\ Len(d) = t
    <2>1. start + t <= f.size /\ f.size \in Nat /\ t \in Nat
      BY <1>2, TakenType, FrameTypes
    <2>2. DataPart(f, start, t) \in Seq(Nat) /\ Len(DataPart(f, start, t)) = t
      BY <2>1, DataSlice, ZenonT(40)
    <2>3. d = DataPart(f, start, t)
      BY <1>1, <1>2 DEF DataPart
    <2> QED
      BY <2>2, <2>3
  <1>7. PICK g, s, b : g = h \o a /\ s = g \o e /\ b = e \o d
    OBVIOUS
  <1>8. g \in Seq(Nat) /\ s \in Seq(Nat)
    BY <1>5, <1>7, ConcatParts
  <1>9. PesPacket(f, start, cc) = s \o d
    <2>1. PesPacket(f, start, cc) = SetData(s \o Filled(t, 0), Len(s), d)
      BY <1>1, <1>2, <1>7, StuffedParts DEF PesPacket, Stuffing
    <2>2. SetData(s \o Filled(t, 0), Len(s), d) = s \o d
      BY <1>6, <1>8, SetDataAppends
    <2> QED
      BY <2>1, <2>2
  <1>10. s \o d = h \o (a \o b)
    <2>1. (g \o e) \o d = g \o (e \o d)
      <3>1. Regroups(g, e, d)
        BY <1>5, <1>6, <1>8, ConcatRegroups
      <3> QED
        BY <3>1 DEF Regroups
    <2>2. b \in Seq(Nat)
      BY <1>5, <1>6, <1>7, ConcatParts
    <2>3. (h \o a) \o b = h \o (a \o b)
      <3>1. Regroups(h, a, b)
        BY <1>5, <2>2, ConcatRegroups
      <3> QED
        BY <3>1 DEF Regroups
    <2> QED
      BY <1>7, <2>1, <2>3
  <1>11. PICK m \in 0 .. 19 : m = Len(e)
    BY <1>1, StartTypes
  <1>12. b \in Seq(Nat) /\ Len(b) = m + t
    <2>1. Chained(Nat, e, m, d, t, b)
      BY <1>5, <1>6, <1>7, <1>11, ConcatChained
    <2> QED
      BY <2>1 DEF Chained
  <1>13. b # <<>> /\ 4 + Len(a) + Len(b) = PacketSize
    <2>1. Len(b) # 0
      BY <1>12
    <2>2. PICK k \in 0 .. 8, n \in 0 .. 255 : k = Len(StartField(f, start)) /\ n = Stuffing(f, start)
      BY StartTypes, StuffingType
    <2>3. 4 + k + m + t + n = PacketSize
      BY <1>1, <1>2, <1>11, <2>2, StuffingType
    <2>4. Len(a) = k + n
      BY <1>1, <2>2, PesFieldType
    <2>5. 4 + (k + n) + (m + t) = PacketSize
      BY <2>3
    <2> QED
      BY <1>12, <2>1, <2>4, <2>5, EmptySeq
  <1>14. b = PesPayload(f, start)
    BY <1>1, <1>7 DEF PesPayload
  <1>15. TsType(IF start = 0 THEN 1 ELSE 0, Pid(f), PesControl(f, start), cc)
    BY <1>3, FrameHeaderType
  <1>16. PesPacket(f, start, cc)
           = Encode(TsHeader, Ts(IF start = 0 THEN 1 ELSE 0, Pid(f), PesControl(f, start), cc))
             \o (a \o b)
    BY <1>1, <1>9, <1>10 DEF FrameHeader
  <1>17. IF PesControl(f, start) = 1 THEN a = <<>> ELSE a # <<>> /\ Len(a) = 1 + a[1]
    BY <1>1, <1>3, PesFieldType
  <1>18. PesControl(f, start) # 2
    BY <1>3
  <1> QED
    BY <1>1, <1>5, <1>12, <1>13, <1>14, <1>15, <1>16, <1>17, <1>18 DEF IsPacket

-----------------------------------------------------------------------------
(* The packets of the tables and of the PCR.                               *)

LEMMA BytesConcat ==
  ASSUME NEW m, NEW n, NEW a, NEW b, Bytes(a, m), Bytes(b, n)
  PROVE  Bytes(a \o b, m + n)
  <1>1. a \in Seq(Byte) /\ b \in Seq(Byte) /\ Len(a) = m /\ Len(b) = n
    BY DEF Bytes
  <1>2. a \o b \in Seq(Byte) /\ Len(a \o b) = Len(a) + Len(b)
    BY <1>1, ConcatParts
  <1> QED
    BY <1>1, <1>2 DEF Bytes

LEMMA BytesFilled ==
  ASSUME NEW n \in Nat
  PROVE  Bytes(Filled(n, 255), n)
  <1>1. 255 \in Byte
    BY DEF Byte
  <1> QED
    BY <1>1, FilledType DEF Bytes

LEMMA BytesNat ==
  ASSUME NEW n, NEW a, Bytes(a, n)
  PROVE  a \in Seq(Byte) /\ a \in Seq(Nat) /\ Len(a) = n /\ n \in Nat
  <1>1. Byte \subseteq Nat
    BY DEF Byte
  <1>2. a \in Seq(Byte) /\ Len(a) = n
    BY DEF Bytes
  <1> QED
    BY <1>1, <1>2, SeqSubset, LenProperties

LEMMA TsBytes ==
  ASSUME NEW start, NEW pid, NEW afc, NEW cc, TsType(start, pid, afc, cc)
  PROVE  Bytes(Encode(TsHeader, Ts(start, pid, afc, cc)), 4)
  BY TsIsValue, TsHeaderRead

\* The pointer to the section.
Pointer == EncodeAdaptation(Zero(AdaptationFieldHeader))

LEMMA PointerBytes ==
  Bytes(Pointer, 1) /\ Pointer[1] = 0
  <1>1. PICK z : z = Zero(AdaptationFieldHeader)
    OBVIOUS
  <1>2. AdaptationValues(z) /\ z.mAdaptationFieldLength = 0
    BY <1>1, AdaptationNames DEF Zero, AdaptationValues
  <1> QED
    BY <1>1, <1>2, AdaptationWritten DEF Pointer

\* What follows the header of the packet of a section.
SectionPayload(s) ==
  ((Pointer \o s) \o crc32(s)) \o Filled(PacketSize - (4 + 1 + Len(s) + 4), 255)

LEMMA SectionParts ==
  ASSUME NEW pid, NEW cc, TsType(1, pid, 1, cc), NEW n, NEW s, Bytes(s, n),
         n + 9 <= PacketSize
  PROVE  /\ Bytes(SectionPayload(s), PacketSize - 4)
         /\ IsPacket(Section(pid, cc, s), 1, pid, 1, cc, <<>>, SectionPayload(s))
  <1>1. PICK h, e, c : /\ h = Encode(TsHeader, Ts(1, pid, 1, cc)) /\ e = Pointer
                       /\ c = crc32(s)
    OBVIOUS
  <1>2. Bytes(h, 4) /\ Bytes(e, 1) /\ Bytes(c, 4)
    BY <1>1, TsBytes, PointerBytes, CrcWritten
  <1>3. n \in Nat /\ Len(s) = n
    BY BytesNat
  <1>4. PICK m \in Nat : m = PacketSize - (4 + 1 + n + 4)
    BY <1>3, Sizes
  <1>5. PICK x : x = Filled(m, 255)
    OBVIOUS
  <1>6. Bytes(x, m)
    BY <1>5, BytesFilled
  <1>7. Bytes((h \o e) \o s, 4 + 1 + n) /\ Bytes(((h \o e) \o s) \o c, 4 + 1 + n + 4)
    BY <1>2, BytesConcat
  <1>8. PICK f, g, b, u, v : /\ f = e \o s /\ g = f \o c /\ b = g \o x
                             /\ u = 1 + n /\ v = 1 + n + 4
    OBVIOUS
  <1>9. Bytes(f, u) /\ Bytes(g, v) /\ Bytes(b, PacketSize - 4)
    <2>1. Bytes(f, 1 + n)
      BY <1>2, <1>8, BytesConcat
    <2>2. Bytes(g, (1 + n) + 4)
      BY <1>2, <1>8, <2>1, BytesConcat
    <2>3. Bytes(g, v) /\ Bytes(f, u)
      BY <1>8, <2>1, <2>2
    <2>4. Bytes(b, v + m)
      BY <1>6, <1>8, <2>3, BytesConcat
    <2>5. v + m = PacketSize - 4
      BY <1>3, <1>4, <1>8, Sizes
    <2> QED
      BY <2>3, <2>4, <2>5
  <1>10. Section(pid, cc, s) = (((h \o e) \o s) \o c) \o x
    <2>1. Len(((h \o e) \o s) \o c) = 4 + 1 + n + 4
      BY <1>7, BytesNat
    <2>2. Section(pid, cc, s)
            = (((h \o e) \o s) \o c) \o Filled(PacketSize - Len(((h \o e) \o s) \o c), 255)
      BY <1>1 DEF Section, Ts, Pointer
    <2> QED
      BY <1>4, <1>5, <2>1, <2>2
  <1>11. SectionPayload(s) = b
    BY <1>1, <1>3, <1>4, <1>5, <1>8 DEF SectionPayload
  <1>12. (((h \o e) \o s) \o c) \o x = h \o b
    <2>1. /\ h \in Seq(Byte) /\ e \in Seq(Byte) /\ s \in Seq(Byte) /\ c \in Seq(Byte)
          /\ f \in Seq(Byte) /\ g \in Seq(Byte) /\ x \in Seq(Byte)
      BY <1>2, <1>6, <1>9 DEF Bytes
    <2>2. (h \o e) \o s = h \o (e \o s)
      <3>1. Regroups(h, e, s)
        BY <2>1, ConcatRegroups
      <3> QED
        BY <3>1 DEF Regroups
    <2>3. (h \o f) \o c = h \o (f \o c)
      <3>1. Regroups(h, f, c)
        BY <2>1, ConcatRegroups
      <3> QED
        BY <3>1 DEF Regroups
    <2>4. (h \o g) \o x = h \o (g \o x)
      <3>1. Regroups(h, g, x)
        BY <2>1, ConcatRegroups
      <3> QED
        BY <3>1 DEF Regroups
    <2> QED
      BY <1>8, <2>2, <2>3, <2>4
  <1>15. b \in Seq(Nat) /\ Len(b) = PacketSize - 4
    BY <1>9, BytesNat
  <1>16. /\ <<>> \in Seq(Byte) /\ Len(<<>>) = 0 /\ b # <<>>
    <2>1. Len(b) # 0
      BY <1>15, Sizes
    <2> QED
      BY <2>1, EmptySeq
  <1>17. Section(pid, cc, s) = h \o (<<>> \o b)
    <2>1. <<>> \o b = b
      BY <1>15, ConcatEmptySeq
    <2> QED
      BY <1>10, <1>12, <2>1
  <1>18. 4 + 0 + (PacketSize - 4) = PacketSize
    BY Sizes
  <1> QED
    BY <1>1, <1>9, <1>11, <1>15, <1>16, <1>17, <1>18 DEF IsPacket

\* The section of the PAT.
PatSection ==
  Encode(PATHeader,
         [Zero(PATHeader) EXCEPT !.mSectionSyntaxIndicator = 1,
            !.mReserved0 = 3, !.mSectionLength = 4 + 4 + 5,
            !.mReserved1 = 3, !.mCurrentNextIndicator = 1])
  \o Octets(Bits(1, 16) \o Filled(3, 1) \o Bits(PmtPid, 13))

LEMMA PatNames ==
  /\ Names(PATHeader) =
       {"mTableId", "mSectionSyntaxIndicator", "mB0", "mReserved0", "mSectionLength",
        "mTransportStreamId", "mReserved1", "mVersionNumber", "mCurrentNextIndicator",
        "mSectionNumber", "mLastSectionNumber"}
  /\ PATHeader[1] = <<"mTableId", 8>>
  /\ PATHeader[2] = <<"mSectionSyntaxIndicator", 1>>
  /\ PATHeader[3] = <<"mB0", 1>> /\ PATHeader[4] = <<"mReserved0", 2>>
  /\ PATHeader[5] = <<"mSectionLength", 12>>
  /\ PATHeader[6] = <<"mTransportStreamId", 16>>
  /\ PATHeader[7] = <<"mReserved1", 2>> /\ PATHeader[8] = <<"mVersionNumber", 5>>
  /\ PATHeader[9] = <<"mCurrentNextIndicator", 1>>
  /\ PATHeader[10] = <<"mSectionNumber", 8>>
  /\ PATHeader[11] = <<"mLastSectionNumber", 8>>
  BY DEF Names, PATHeader

LEMMA PatSectionBytes ==
  Bytes(PatSection, 12)
  <1>1. PICK z : z = [Zero(PATHeader) EXCEPT !.mSectionSyntaxIndicator = 1,
                        !.mReserved0 = 3, !.mSectionLength = 4 + 4 + 5,
                        !.mReserved1 = 3, !.mCurrentNextIndicator = 1]
    OBVIOUS
  <1>2. \A name \in Names(PATHeader) : z[name] \in Nat
    <2>1. z = [name \in Names(PATHeader) |->
                 CASE name = "mSectionSyntaxIndicator" -> 1
                   [] name = "mReserved0" -> 3
                   [] name = "mSectionLength" -> 4 + 4 + 5
                   [] name = "mReserved1" -> 3
                   [] name = "mCurrentNextIndicator" -> 1
                   [] OTHER -> 0]
      BY <1>1, PatNames DEF Zero
    <2> QED
      BY <2>1
  <1>3. Values(PATHeader, 11, z)
    <2>1. \A k \in 1 .. 11 : PATHeader[k][1] \in Names(PATHeader)
      BY PATHeaderLayout DEF Names, Sized, Layout
    <2> QED
      BY <1>2, <2>1 DEF Values
  <1>4. Bytes(Encode(PATHeader, z), 8)
    BY <1>3, PATHeaderLayout, EncodeType
  <1>5. PICK p, q, r : p = Bits(1, 16) /\ q = Filled(3, 1) /\ r = Bits(PmtPid, 13)
    OBVIOUS
  <1>6. BitSeq(p, 16) /\ BitSeq(q, 3) /\ BitSeq(r, 13)
    BY <1>5, Streams, BitSeqBits, BitSeqFilled DEF Bit
  <1>7. BitSeq((p \o q) \o r, 16 + 3 + 13)
    <2>1. BitSeq(p \o q, 16 + 3)
      BY <1>6, BitSeqConcat
    <2> QED
      BY <1>6, <2>1, BitSeqConcat
  <1>8. Bytes(Octets((p \o q) \o r), 4)
    <2>1. PICK g, n : g = (p \o q) \o r /\ n = 32
      OBVIOUS
    <2>2. BitSeq(g, n) /\ 4 \in Nat /\ n = 8 * 4
      BY <1>7, <2>1
    <2>3. Bytes(Octets(g), 4)
      BY <2>2, OctetsOf
    <2> QED
      BY <2>1, <2>3
  <1>9. Bytes(Encode(PATHeader, z) \o Octets((p \o q) \o r), 8 + 4)
    BY <1>4, <1>8, BytesConcat
  <1> QED
    BY <1>1, <1>5, <1>9 DEF PatSection

\* What the PMT says of a stream.
Info(t) == Encode(PMTElementInfo, NewPMTElementInfo(t, StreamPidMap[t]))

LEMMA InfoNames ==
  /\ Names(PMTElementInfo) = {"mStreamType", "mReserved0", "mElementaryPid",
                              "mReserved1", "mEsInfoLength"}
  /\ PMTElementInfo[1] = <<"mStreamType", 8>> /\ PMTElementInfo[2] = <<"mReserved0", 3>>
  /\ PMTElementInfo[3] = <<"mElementaryPid", 13>>
  /\ PMTElementInfo[4] = <<"mReserved1", 4>>
  /\ PMTElementInfo[5] = <<"mEsInfoLength", 12>>
  BY DEF Names, PMTElementInfo

LEMMA InfoBytes ==
  ASSUME NEW t \in DOMAIN StreamPidMap
  PROVE  Bytes(Info(t), 5)
  <1>1. PICK z : z = NewPMTElementInfo(t, StreamPidMap[t])
    OBVIOUS
  <1>2. t \in Nat /\ StreamPidMap[t] \in Nat
    BY Streams
  <1>3. Values(PMTElementInfo, 5, z)
    <2>1. /\ z.mStreamType = t /\ z.mReserved0 = 7 /\ z.mElementaryPid = StreamPidMap[t]
          /\ z.mReserved1 = 15 /\ z.mEsInfoLength = 0
      BY <1>1 DEF NewPMTElementInfo
    <2> QED
      BY <1>2, <2>1, InfoNames DEF Values
  <1>4. Bytes(Encode(PMTElementInfo, z), 5)
    BY <1>3, PMTElementInfoLayout, EncodeType
  <1> QED
    BY <1>1, <1>4 DEF Info

InfoStep(w, t) == IF t \in DOMAIN StreamPidMap THEN w \o Info(t) ELSE w

LEMMA InfoStepType ==
  ASSUME NEW w, w \in Seq(Byte), NEW t
  PROVE  InfoStep(w, t) \in Seq(Byte)
  <1>1. CASE t \in DOMAIN StreamPidMap
    <2>1. Info(t) \in Seq(Byte)
      BY <1>1, InfoBytes DEF Bytes
    <2>2. w \o Info(t) \in Seq(Byte)
      BY <2>1, ConcatParts
    <2> QED
      BY <1>1, <2>2 DEF InfoStep
  <1>2. CASE t \notin DOMAIN StreamPidMap
    BY <1>2 DEF InfoStep
  <1> QED
    BY <1>1, <1>2

\* The streams up to a type.
UpToType(k) == {t \in DOMAIN StreamPidMap : t <= k}

LEMMA LastTypeIs ==
  LastType \in Nat /\ UpToType(LastType) = DOMAIN StreamPidMap
  <1>1. PICK T : T = {0} \cup DOMAIN StreamPidMap
    OBVIOUS
  <1>2. PICK n \in Nat \ {0} : T \subseteq 0 .. n - 1 /\ T # {}
    <2>1. 256 \in Nat \ {0} /\ T \subseteq 0 .. 256 - 1 /\ T # {}
      BY <1>1, Streams
    <2> QED
      BY <2>1
  <1>3. PICK x \in T : \A y \in T : x >= y
    <2>1. PICK U : U = {y + 1 : y \in T}
      OBVIOUS
    <2>2. n \in Nat /\ U \subseteq 1 .. n /\ U # {}
      <3>1. ASSUME NEW y \in T PROVE y + 1 \in 1 .. n
        BY <1>2
      <3> QED
        BY <1>2, <2>1, <3>1
    <2>3. PICK z \in U : \A y \in U : z >= y
      BY <2>2, GreatestElement
    <2>4. PICK x \in T : z = x + 1
      BY <2>1, <2>3
    <2>5. ASSUME NEW y \in T PROVE x >= y
      <3>1. y + 1 \in U
        BY <2>1
      <3>2. z >= y + 1
        BY <2>3, <3>1
      <3> QED
        BY <1>2, <2>4, <3>2
    <2> QED
      BY <2>4, <2>5
  <1>4. LastType \in T /\ \A y \in T : LastType >= y
    BY <1>1, <1>3 DEF LastType, Max
  <1>5. LastType \in Nat
    BY <1>2, <1>4
  <1>6. \A t \in DOMAIN StreamPidMap : t <= LastType
    BY <1>1, <1>2, <1>4, <1>5
  <1> QED
    BY <1>5, <1>6 DEF UpToType

InfoSteps(f) == f[0] = <<>> /\ \A k \in 1 .. LastType : f[k] = InfoStep(f[k - 1], k)

LEMMA InfosUnfold ==
  \E f : InfoSteps(f) /\ mInfos = f[LastType]
  <1> DEFINE UpTo[t \in 0 .. LastType] ==
               IF t = 0 THEN <<>>
               ELSE IF t \in DOMAIN StreamPidMap
                    THEN UpTo[t - 1] \o Encode(PMTElementInfo,
                                              NewPMTElementInfo(t, StreamPidMap[t]))
                    ELSE UpTo[t - 1]
  <1>1. mInfos = UpTo[LastType]
    BY DEF mInfos
  <1>2. <<>> \in Seq(Byte)
    BY EmptySeq
  <1>3. \E f : f = [k \in 0 .. LastType |-> IF k = 0 THEN <<>> ELSE InfoStep(f[k - 1], k)]
    <2>1. PICK V, v, N, G : /\ V = Seq(Byte) /\ v = <<>> /\ N = LastType
                            /\ G = [k \in 1 .. N |-> [x \in V |-> InfoStep(x, k)]]
      OBVIOUS
    <2>2. \A k \in 1 .. N : \A x \in V : G[k][x] = InfoStep(x, k)
      BY <2>1
    <2>3. G \in Steps(N, V) /\ v \in V /\ N \in Nat
      <3>1. \A k \in 1 .. N : \A x \in V : InfoStep(x, k) \in V
        BY <2>1, InfoStepType
      <3>2. v \in V /\ N \in Nat
        BY <1>2, <2>1, LastTypeIs
      <3>3. G \in Steps(N, V)
        BY <2>1, <3>1 DEF Steps
      <3> QED
        BY <3>2, <3>3
    <2>4. PICK f \in [0 .. N -> V] : Unfolds(f, v, N, G)
      BY <2>3, Recursion
    <2>5. f[0] = v /\ \A k \in 1 .. N : f[k] = G[k][f[k - 1]]
      BY <2>4 DEF Unfolds
    <2>6. ASSUME NEW k \in 1 .. N PROVE f[k] = InfoStep(f[k - 1], k)
      <3>1. f[k - 1] \in V
        BY <2>3
      <3> QED
        BY <2>2, <2>5, <3>1
    <2>7. f = [k \in 0 .. N |-> IF k = 0 THEN v ELSE InfoStep(f[k - 1], k)]
      BY <2>3, <2>5, <2>6
    <2> QED
      BY <2>1, <2>7, ZenonT(40)
  <1>4. UpTo = [k \in 0 .. LastType |-> IF k = 0 THEN <<>> ELSE InfoStep(UpTo[k - 1], k)]
    BY <1>3 DEF InfoStep, Info
  <1>5. PICK g : g = UpTo
    OBVIOUS
  <1> HIDE DEF UpTo
  <1>9. LastType \in Nat
    BY LastTypeIs
  <1>6. g = [k \in 0 .. LastType |-> IF k = 0 THEN <<>> ELSE InfoStep(g[k - 1], k)]
    BY <1>4, <1>5
  <1>7. g[0] = <<>> /\ \A k \in 1 .. LastType : g[k] = InfoStep(g[k - 1], k)
    BY <1>6, <1>9, SMTT(60)
  <1>8. InfoSteps(g)
    BY <1>7 DEF InfoSteps
  <1> QED
    BY <1>1, <1>5, <1>8

\* w lists the streams of T, n of them, each once.
InfoAt(w, j) == SubSeq(w, 5 * j - 4, 5 * j)

Listed(w, n, T) ==
  /\ n \in Nat /\ Bytes(w, 5 * n)
  /\ IsFiniteSet(T) /\ n = Cardinality(T)
  /\ \A j \in 1 .. n : \E t \in T : InfoAt(w, j) = Info(t)
  /\ \A t \in T : \E j \in 1 .. n : InfoAt(w, j) = Info(t)

LEMMA InfoAtLeft ==
  ASSUME NEW n \in Nat, NEW w, Bytes(w, 5 * n), NEW x, Bytes(x, 5), NEW j \in 1 .. n
  PROVE  InfoAt(w \o x, j) = InfoAt(w, j)
  <1>1. w \in Seq(Byte) /\ x \in Seq(Byte) /\ Len(w) = 5 * n
    BY DEF Bytes
  <1>2. /\ 5 * j - 4 \in Nat \ {0} /\ 5 * j \in Nat
        /\ 5 * j - 4 <= 5 * j + 1 /\ 5 * j <= Len(w)
    BY <1>1
  <1>3. SubSeq(w \o x, 5 * j - 4, 5 * j) = SubSeq(w, 5 * j - 4, 5 * j)
    BY <1>1, <1>2, SliceLeft
  <1> QED
    BY <1>3 DEF InfoAt

LEMMA InfoAtRight ==
  ASSUME NEW n \in Nat, NEW w, Bytes(w, 5 * n), NEW x, Bytes(x, 5)
  PROVE  InfoAt(w \o x, n + 1) = x
  <1>1. w \in Seq(Byte) /\ x \in Seq(Byte) /\ Len(w) = 5 * n /\ Len(x) = 5
    BY DEF Bytes
  <1>2. 1 \in Nat \ {0} /\ 5 \in Nat /\ 1 <= 5 + 1 /\ 5 <= Len(x)
    BY <1>1
  <1>3. SubSeq(w \o x, Len(w) + 1, Len(w) + 5) = SubSeq(x, 1, 5)
    BY <1>1, <1>2, SliceRight
  <1>4. SubSeq(x, 1, 5) = x
    BY <1>1, SliceAll
  <1>5. Len(w) + 1 = 5 * (n + 1) - 4 /\ Len(w) + 5 = 5 * (n + 1)
    BY <1>1
  <1> QED
    BY <1>3, <1>4, <1>5 DEF InfoAt

LEMMA ListedNext ==
  ASSUME NEW w, NEW n, NEW T, Listed(w, n, T), NEW t \in DOMAIN StreamPidMap, t \notin T
  PROVE  Listed(w \o Info(t), n + 1, T \cup {t})
  <1>1. n \in Nat /\ Bytes(w, 5 * n) /\ Bytes(Info(t), 5)
    BY InfoBytes DEF Listed
  <1>2. PICK v, U : v = w \o Info(t) /\ U = T \cup {t}
    OBVIOUS
  <1>3. Bytes(v, 5 * (n + 1))
    <2>1. Bytes(v, 5 * n + 5)
      BY <1>1, <1>2, BytesConcat
    <2>2. 5 * n + 5 = 5 * (n + 1)
      BY <1>1
    <2> QED
      BY <2>1, <2>2
  <1>4. IsFiniteSet(U) /\ n + 1 = Cardinality(U)
    BY <1>2, FS_AddElement DEF Listed
  <1>5. \A j \in 1 .. n : InfoAt(v, j) = InfoAt(w, j)
    BY <1>1, <1>2, InfoAtLeft
  <1>6. InfoAt(v, n + 1) = Info(t)
    BY <1>1, <1>2, InfoAtRight
  <1>7. ASSUME NEW j \in 1 .. n + 1 PROVE \E u \in U : InfoAt(v, j) = Info(u)
    <2>1. CASE j = n + 1
      BY <1>2, <1>6, <2>1
    <2>2. CASE j # n + 1
      <3>1. j \in 1 .. n
        BY <1>1, <2>2
      <3>2. PICK u \in T : InfoAt(w, j) = Info(u)
        BY <3>1 DEF Listed
      <3> QED
        BY <1>2, <1>5, <3>1, <3>2
    <2> QED
      BY <2>1, <2>2
  <1>8. ASSUME NEW u \in U PROVE \E j \in 1 .. n + 1 : InfoAt(v, j) = Info(u)
    <2>1. CASE u = t
      <3>1. n + 1 \in 1 .. n + 1
        BY <1>1
      <3> QED
        BY <1>6, <2>1, <3>1
    <2>2. CASE u # t
      <3>1. u \in T
        BY <1>2, <2>2
      <3>2. PICK j \in 1 .. n : InfoAt(w, j) = Info(u)
        BY <3>1 DEF Listed
      <3>3. j \in 1 .. n + 1 /\ InfoAt(v, j) = Info(u)
        BY <1>1, <1>5, <3>2
      <3> QED
        BY <3>3
    <2> QED
      BY <2>1, <2>2
  <1>9. n + 1 \in Nat
    BY <1>1
  <1> QED
    BY <1>2, <1>3, <1>4, <1>7, <1>8, <1>9 DEF Listed

LEMMA InfosListed ==
  Listed(mInfos, Cardinality(DOMAIN StreamPidMap), DOMAIN StreamPidMap)
  <1>0. PICK f : InfoSteps(f) /\ mInfos = f[LastType]
    BY InfosUnfold
  <1>1. f[0] = <<>> /\ \A k \in 1 .. LastType : f[k] = InfoStep(f[k - 1], k)
    BY <1>0 DEF InfoSteps
  <1> DEFINE S == {k \in 0 .. LastType : Listed(f[k], Cardinality(UpToType(k)), UpToType(k))}
  <1>2. 0 \in S
    <2>1. UpToType(0) = {}
      BY Streams DEF UpToType
    <2>2. Bytes(<<>>, 0)
      BY EmptySeq DEF Bytes
    <2>3. IsFiniteSet({}) /\ Cardinality({}) = 0
      BY FS_EmptySet
    <2>4. Listed(<<>>, 0, {})
      BY <2>2, <2>3 DEF Listed
    <2>5. 0 \in 0 .. LastType
      BY LastTypeIs
    <2>6. Listed(f[0], Cardinality(UpToType(0)), UpToType(0))
      BY <1>1, <2>1, <2>3, <2>4
    <2> QED
      BY <2>5, <2>6
  <1>3. ASSUME NEW k \in 1 .. LastType, k - 1 \in S PROVE k \in S
    <2>0. k \in Nat \ {0}
      BY LastTypeIs
    <2>1. Listed(f[k - 1], Cardinality(UpToType(k - 1)), UpToType(k - 1))
      BY <1>3
    <2>2. CASE k \in DOMAIN StreamPidMap
      <3>1. UpToType(k) = UpToType(k - 1) \cup {k} /\ k \notin UpToType(k - 1)
        BY <2>0, <2>2, Streams DEF UpToType
      <3>2. PICK w, n, T : w = f[k - 1] /\ n = Cardinality(UpToType(k - 1)) /\ T = UpToType(k - 1)
        OBVIOUS
      <3>3. Listed(w \o Info(k), n + 1, T \cup {k}) /\ Cardinality(T \cup {k}) = n + 1
        <4>1. Listed(w, n, T) /\ k \notin T
          BY <2>1, <3>1, <3>2
        <4>2. Listed(w \o Info(k), n + 1, T \cup {k})
          BY <2>2, <4>1, ListedNext
        <4> QED
          BY <4>2 DEF Listed
      <3>4. f[k] = f[k - 1] \o Info(k)
        BY <1>1, <2>2 DEF InfoStep
      <3>5. Listed(f[k], Cardinality(UpToType(k)), UpToType(k))
        BY <3>1, <3>2, <3>3, <3>4
      <3> QED
        BY <3>5
    <2>3. CASE k \notin DOMAIN StreamPidMap
      <3>1. UpToType(k) = UpToType(k - 1)
        BY <2>0, <2>3, Streams DEF UpToType
      <3>2. f[k] = f[k - 1]
        BY <1>1, <2>3 DEF InfoStep
      <3> QED
        BY <2>1, <3>1, <3>2
    <2> QED
      BY <2>2, <2>3
  <1> HIDE DEF S
  <1>4. LastType \in S
    <2>0. LastType \in 0 .. LastType
      BY LastTypeIs
    <2>1. LastType \in Nat /\ \A k \in 1 .. LastType : k - 1 \in S => k \in S
      BY <1>3, LastTypeIs
    <2>2. 0 .. LastType \subseteq S
      BY <1>2, <2>1, Induction
    <2> QED
      BY <2>0, <2>2
  <1>5. UpToType(LastType) = DOMAIN StreamPidMap
    BY LastTypeIs
  <1> QED
    BY <1>0, <1>4, <1>5 DEF S

\* The section of the PMT.
PmtHeaderOf ==
  [Zero(PMTHeader) EXCEPT !.mTableId = 2,
     !.mSectionSyntaxIndicator = 1, !.mReserved0 = 3,
     !.mSectionLength = PmtSectionLength(12 + Len(mInfos)),
     !.mProgramNumber = 1, !.mReserved1 = 3,
     !.mCurrentNextIndicator = 1, !.mReserved2 = 7,
     !.mPcrPid = PcrPid, !.mReserved3 = 15]
PmtSection == Encode(PMTHeader, PmtHeaderOf) \o mInfos

LEMMA PmtNames ==
  /\ Names(PMTHeader) =
       {"mTableId", "mSectionSyntaxIndicator", "mB0", "mReserved0", "mSectionLength",
        "mProgramNumber", "mReserved1", "mVersionNumber", "mCurrentNextIndicator",
        "mSectionNumber", "mLastSectionNumber", "mReserved2", "mPcrPid", "mReserved3",
        "mProgramInfoLength"}
  /\ PMTHeader[1] = <<"mTableId", 8>> /\ PMTHeader[2] = <<"mSectionSyntaxIndicator", 1>>
  /\ PMTHeader[3] = <<"mB0", 1>> /\ PMTHeader[4] = <<"mReserved0", 2>>
  /\ PMTHeader[5] = <<"mSectionLength", 12>> /\ PMTHeader[6] = <<"mProgramNumber", 16>>
  /\ PMTHeader[7] = <<"mReserved1", 2>> /\ PMTHeader[8] = <<"mVersionNumber", 5>>
  /\ PMTHeader[9] = <<"mCurrentNextIndicator", 1>>
  /\ PMTHeader[10] = <<"mSectionNumber", 8>> /\ PMTHeader[11] = <<"mLastSectionNumber", 8>>
  /\ PMTHeader[12] = <<"mReserved2", 3>> /\ PMTHeader[13] = <<"mPcrPid", 13>>
  /\ PMTHeader[14] = <<"mReserved3", 4>> /\ PMTHeader[15] = <<"mProgramInfoLength", 12>>
  BY DEF Names, PMTHeader

LEMMA StreamCount ==
  /\ IsFiniteSet(DOMAIN StreamPidMap) /\ Cardinality(DOMAIN StreamPidMap) \in Nat
  /\ Bytes(mInfos, 5 * Cardinality(DOMAIN StreamPidMap))
  /\ Len(mInfos) = 5 * Cardinality(DOMAIN StreamPidMap)
  BY InfosListed DEF Listed, Bytes

LEMMA PmtValues ==
  PmtHeaderOf = [name \in Names(PMTHeader) |->
                   CASE name = "mTableId" -> 2
                     [] name = "mSectionSyntaxIndicator" -> 1
                     [] name = "mReserved0" -> 3
                     [] name = "mSectionLength" ->
                          5 * Cardinality(DOMAIN StreamPidMap) + 13
                     [] name = "mProgramNumber" -> 1
                     [] name = "mReserved1" -> 3
                     [] name = "mCurrentNextIndicator" -> 1
                     [] name = "mReserved2" -> 7
                     [] name = "mPcrPid" -> PcrPid
                     [] name = "mReserved3" -> 15
                     [] OTHER -> 0]
  <1>1. PICK n \in Nat : n = Cardinality(DOMAIN StreamPidMap)
    BY StreamCount
  <1>2. PmtSectionLength(12 + Len(mInfos)) = 5 * n + 13
    <2>1. Len(mInfos) = 5 * n
      BY <1>1, StreamCount
    <2> QED
      BY <2>1 DEF PmtSectionLength
  <1>3. PICK l : l = PmtSectionLength(12 + Len(mInfos))
    OBVIOUS
  <1>4. PmtHeaderOf = [name \in Names(PMTHeader) |->
                   CASE name = "mTableId" -> 2
                     [] name = "mSectionSyntaxIndicator" -> 1
                     [] name = "mReserved0" -> 3
                     [] name = "mSectionLength" -> l
                     [] name = "mProgramNumber" -> 1
                     [] name = "mReserved1" -> 3
                     [] name = "mCurrentNextIndicator" -> 1
                     [] name = "mReserved2" -> 7
                     [] name = "mPcrPid" -> PcrPid
                     [] name = "mReserved3" -> 15
                     [] OTHER -> 0]
    BY <1>3, PmtNames DEF PmtHeaderOf, Zero
  <1> QED
    BY <1>1, <1>2, <1>3, <1>4

LEMMA PmtSectionBytes ==
  /\ Bytes(Encode(PMTHeader, PmtHeaderOf), 12)
  /\ Bytes(PmtSection, 12 + 5 * Cardinality(DOMAIN StreamPidMap))
  <1>1. PICK z : z = PmtHeaderOf
    OBVIOUS
  <1>2. \A name \in Names(PMTHeader) : z[name] \in Nat
    <2>1. PICK l \in Nat : l = 5 * Cardinality(DOMAIN StreamPidMap) + 13
      BY StreamCount
    <2>2. z = [name \in Names(PMTHeader) |->
                   CASE name = "mTableId" -> 2
                     [] name = "mSectionSyntaxIndicator" -> 1
                     [] name = "mReserved0" -> 3
                     [] name = "mSectionLength" -> l
                     [] name = "mProgramNumber" -> 1
                     [] name = "mReserved1" -> 3
                     [] name = "mCurrentNextIndicator" -> 1
                     [] name = "mReserved2" -> 7
                     [] name = "mPcrPid" -> PcrPid
                     [] name = "mReserved3" -> 15
                     [] OTHER -> 0]
      BY <1>1, <2>1, PmtValues
    <2>3. PcrPid \in Nat
      BY Streams
    <2> QED
      BY <2>2, <2>3
  <1>3. Values(PMTHeader, 15, z)
    <2>1. \A k \in 1 .. 15 : PMTHeader[k][1] \in Names(PMTHeader)
      BY PMTHeaderLayout DEF Names, Sized, Layout
    <2> QED
      BY <1>2, <2>1 DEF Values
  <1>4. Bytes(Encode(PMTHeader, z), 12)
    BY <1>3, PMTHeaderLayout, EncodeType
  <1>5. Bytes(Encode(PMTHeader, z) \o mInfos, 12 + 5 * Cardinality(DOMAIN StreamPidMap))
    <2>1. PICK n, x : n = 5 * Cardinality(DOMAIN StreamPidMap) /\ x = Encode(PMTHeader, z)
      OBVIOUS
    <2>2. Bytes(x, 12) /\ Bytes(mInfos, n)
      BY <1>4, <2>1, StreamCount
    <2>3. Bytes(x \o mInfos, 12 + n)
      BY <2>2, BytesConcat
    <2> QED
      BY <2>1, <2>3
  <1> QED
    BY <1>1, <1>4, <1>5 DEF PmtSection

\* The packets of the tables, as createPat and createPmt make them.
LEMMA TableParts ==
  ASSUME NEW cc \in 0 .. CcModulus - 1
  PROVE  /\ Bytes(SectionPayload(PatSection), PacketSize - 4)
         /\ IsPacket(createPat(cc), 1, 0, 1, cc, <<>>, SectionPayload(PatSection))
         /\ Bytes(SectionPayload(PmtSection), PacketSize - 4)
         /\ IsPacket(createPmt(cc), 1, PmtPid, 1, cc, <<>>, SectionPayload(PmtSection))
  <1>1. 1 \in 0 .. 1 /\ 1 \in 1 .. 3 /\ 0 \in Nat /\ 0 <= 8191
    OBVIOUS
  <1>2. TsType(1, 0, 1, cc) /\ TsType(1, PmtPid, 1, cc)
    BY <1>1, Streams DEF TsType
  <1>3. PICK n, s, m, t : /\ n = 12 /\ s = PatSection
                          /\ m = 12 + 5 * Cardinality(DOMAIN StreamPidMap) /\ t = PmtSection
    OBVIOUS
  <1>4. Bytes(s, n) /\ Bytes(t, m)
    BY <1>3, PatSectionBytes, PmtSectionBytes
  <1>5. n + 9 <= PacketSize /\ m + 9 <= PacketSize
    <2>1. PICK c \in Nat : c = Cardinality(DOMAIN StreamPidMap)
      BY StreamCount
    <2>2. 5 + 12 + 5 * c + 4 <= PacketSize
      <3>1. 5 + 12 + 5 * Cardinality(DOMAIN StreamPidMap) + 4 <= PacketSize
        BY SizeAssumption
      <3> QED
        BY <2>1, <3>1
    <2>3. n = 12 /\ m = 12 + 5 * c
      BY <1>3, <2>1
    <2> QED
      BY <2>2, <2>3, Sizes
  <1>6. /\ Bytes(SectionPayload(s), PacketSize - 4)
        /\ IsPacket(Section(0, cc, s), 1, 0, 1, cc, <<>>, SectionPayload(s))
    BY <1>2, <1>4, <1>5, SectionParts
  <1>7. /\ Bytes(SectionPayload(t), PacketSize - 4)
        /\ IsPacket(Section(PmtPid, cc, t), 1, PmtPid, 1, cc, <<>>, SectionPayload(t))
    BY <1>2, <1>4, <1>5, SectionParts
  <1>8. createPat(cc) = Section(0, cc, s)
    BY <1>3 DEF createPat, PatSection
  <1>9. createPmt(cc) = Section(PmtPid, cc, t)
    BY <1>3 DEF createPmt, PmtSection, PmtHeaderOf
  <1> QED
    BY <1>3, <1>6, <1>7, <1>8, <1>9

\* The adaptation field of the packet with nothing but the PCR.
PcrField(pcr) ==
  (EncodeAdaptation(Field(PacketSize - 5, 0, 1)) \o writePcr(pcr))
  \o Filled(PacketSize - (4 + 2 + 6), 255)

LEMMA PcrParts ==
  ASSUME NEW pcr \in Stamps
  PROVE  IsPacket(PcrPacket(pcr), 0, PcrPid, 2, 0, PcrField(pcr), <<>>)
  <1>1. PICK h, e, w, m, x, a, n :
          /\ h = Encode(TsHeader, Ts(0, PcrPid, 2, 0))
          /\ n = PacketSize - 5
          /\ e = EncodeAdaptation(Field(n, 0, 1)) /\ w = writePcr(pcr)
          /\ m = PacketSize - (4 + 2 + 6) /\ x = Filled(m, 255) /\ a = (e \o w) \o x
    OBVIOUS
  <1>2. TsType(0, PcrPid, 2, 0)
    <2>1. 0 \in 0 .. 1 /\ 2 \in 1 .. 3 /\ 0 \in 0 .. CcModulus - 1
      BY Sizes
    <2> QED
      BY <2>1, Streams DEF TsType
  <1>3. Bytes(h, 4)
    BY <1>1, <1>2, TsBytes
  <1>4. Bytes(e, 2) /\ e[1] = n
    <2>1. n \in 1 .. 255 /\ 0 \in 0 .. 1 /\ 1 \in 0 .. 1
      BY <1>1, Sizes
    <2> QED
      BY <1>1, <2>1, FieldBytes
  <1>5. Bytes(w, 6)
    BY <1>1, StampBits, PcrWritten
  <1>6. m \in Nat /\ Bytes(x, m)
    BY <1>1, Sizes, BytesFilled
  <1>7. Bytes(e \o w, 2 + 6) /\ Bytes((h \o e) \o w, (4 + 2) + 6)
    <2>1. Bytes(h \o e, 4 + 2)
      BY <1>3, <1>4, BytesConcat
    <2> QED
      BY <1>4, <1>5, <2>1, BytesConcat
  <1>8. Bytes(a, PacketSize - 4)
    <2>1. PICK f, v : f = e \o w /\ v = 2 + 6
      OBVIOUS
    <2>2. Bytes(f, v)
      BY <1>7, <2>1
    <2>3. Bytes(f \o x, v + m)
      BY <1>6, <2>2, BytesConcat
    <2>4. v + m = PacketSize - 4
      BY <1>1, <2>1, Sizes
    <2> QED
      BY <1>1, <2>1, <2>3, <2>4
  <1>9. PcrPacket(pcr) = ((h \o e) \o w) \o x
    <2>1. Len((h \o e) \o w) = 4 + 2 + 6
      BY <1>7 DEF Bytes
    <2>2. PcrPacket(pcr) = ((h \o e) \o w) \o Filled(PacketSize - Len((h \o e) \o w), 255)
      <3>1. Ts(0, PcrPid, 2, 0) = [NewTsHeader EXCEPT !.mPid = PcrPid,
                                     !.mAdaptationFieldControl = 2]
        BY TsNames DEF Ts, NewTsHeader, Zero
      <3>2. Field(n, 0, 1) = [Zero(AdaptationFieldHeader) EXCEPT
                                !.mAdaptationFieldLength = PcrAdaptationLength, !.mPcrFlag = 1]
        <4>1. PcrAdaptationLength = n
          BY <1>1, Sizes DEF PcrAdaptationLength
        <4> QED
          BY <4>1, AdaptationNames DEF Field, Zero
      <3> QED
        BY <1>1, <3>1, <3>2 DEF PcrPacket
    <2> QED
      BY <1>1, <2>1, <2>2
  <1>10. ((h \o e) \o w) \o x = h \o a
    <2>1. /\ h \in Seq(Byte) /\ e \in Seq(Byte) /\ w \in Seq(Byte) /\ x \in Seq(Byte)
          /\ e \o w \in Seq(Byte)
      BY <1>3, <1>4, <1>5, <1>6, <1>7 DEF Bytes
    <2>2. (h \o e) \o w = h \o (e \o w)
      <3>1. Regroups(h, e, w)
        BY <2>1, ConcatRegroups
      <3> QED
        BY <3>1 DEF Regroups
    <2>3. (h \o (e \o w)) \o x = h \o ((e \o w) \o x)
      <3>1. Regroups(h, e \o w, x)
        BY <2>1, ConcatRegroups
      <3> QED
        BY <3>1 DEF Regroups
    <2> QED
      BY <1>1, <2>2, <2>3, ZenonT(40)
  <1>11. a \in Seq(Byte) /\ Len(a) = PacketSize - 4 /\ a # <<>>
    <2>1. a \in Seq(Byte) /\ Len(a) = PacketSize - 4
      BY <1>8 DEF Bytes
    <2>2. Len(a) # 0
      BY <2>1, Sizes
    <2> QED
      BY <2>1, <2>2, EmptySeq
  <1>12. Len(a) = 1 + a[1]
    <2>1. e \in Seq(Byte) /\ w \in Seq(Byte) /\ x \in Seq(Byte) /\ Len(e) = 2
      BY <1>4, <1>5, <1>6 DEF Bytes
    <2>2. 1 \in 1 .. Len(e) /\ 1 \in 1 .. Len(e \o w) /\ e \o w \in Seq(Byte)
      BY <1>7, <2>1 DEF Bytes
    <2>3. (e \o w)[1] = e[1]
      <3>1. \A i \in 1 .. Len(e) : (e \o w)[i] = e[i]
        BY <2>1, ConcatParts, ZenonT(40)
      <3> QED
        BY <2>2, <3>1
    <2>4. ((e \o w) \o x)[1] = (e \o w)[1]
      <3>1. PICK g : g = e \o w
        OBVIOUS
      <3>2. \A i \in 1 .. Len(g) : (g \o x)[i] = g[i]
        BY <2>1, <2>2, <3>1, ConcatParts
      <3> QED
        BY <2>2, <3>1, <3>2
    <2>5. a[1] = n
      BY <1>1, <1>4, <2>3, <2>4
    <2> QED
      BY <1>1, <1>11, <2>5, Sizes
  <1>13. a = PcrField(pcr)
    BY <1>1 DEF PcrField
  <1>14. a \o <<>> = a /\ <<>> \in Seq(Nat) /\ Len(<<>>) = 0
    BY <1>11, ConcatEmptySeq, EmptySeq
  <1>15. PcrPacket(pcr) = Encode(TsHeader, Ts(0, PcrPid, 2, 0)) \o (a \o <<>>)
    BY <1>1, <1>9, <1>10, <1>14
  <1>16. 4 + Len(a) + Len(<<>>) = PacketSize
    BY <1>11, <1>14, Sizes
  <1> QED
    BY <1>2, <1>11, <1>12, <1>13, <1>14, <1>15, <1>16 DEF IsPacket

\* Nothing but a header.
LEMMA NullBytes ==
  Bytes(NullPacket, 4)
  <1>1. PICK t : t = Ts(0, 8191, 1, 0)
    OBVIOUS
  <1>2. TsType(0, 8191, 1, 0)
    <2>1. 0 \in 0 .. 1 /\ 1 \in 1 .. 3 /\ 0 \in 0 .. CcModulus - 1
      BY Sizes
    <2>2. 8191 \in Nat /\ 8191 <= 8191
      OBVIOUS
    <2> QED
      BY <2>1, <2>2 DEF TsType
  <1>3. Bytes(Encode(TsHeader, t), 4)
    BY <1>1, <1>2, TsBytes
  <1>4. t = [NewTsHeader EXCEPT !.mPid = 8191, !.mAdaptationFieldControl = 1]
    <2>1. PICK q : q = 8191
      OBVIOUS
    <2>2. t = Ts(0, q, 1, 0)
      BY <1>1, <2>1
    <2>3. Ts(0, q, 1, 0) = [NewTsHeader EXCEPT !.mPid = q, !.mAdaptationFieldControl = 1]
      BY TsNames DEF Ts, NewTsHeader, Zero
    <2> QED
      BY <2>1, <2>2, <2>3
  <1> QED
    BY <1>3, <1>4 DEF NullPacket

-----------------------------------------------------------------------------
(* The buffer, one packet after the other.                                 *)

PacketIn(s, k) == SubSeq(s, (k - 1) * PacketSize + 1, k * PacketSize)
HeaderOf(p) == DecodeTsHeader(SubSeq(p, 1, 4))
PayloadIn(p) == HeaderOf(p).mAdaptationFieldControl \in {1, 3}
AdaptationIn(p) == HeaderOf(p).mAdaptationFieldControl \in {2, 3}

\* A packet as a receiver wants it.
Sound(p) ==
  /\ p \in Seq(Nat) /\ Len(p) = PacketSize
  /\ HeaderOf(p).mSyncByte = 71
  /\ HeaderOf(p).mContinuityCounter \in 0 .. CcModulus - 1
  /\ AdaptationIn(p) => IF PayloadIn(p) THEN 5 + p[5] < PacketSize
                        ELSE 5 + p[5] = PacketSize

\* The packet belongs to a PID, or is of no concern to who listens to it.
Carries(p, pid, cc) ==
  PayloadIn(p) /\ HeaderOf(p).mPid = pid /\ HeaderOf(p).mContinuityCounter = cc
Without(p, pid) == ~ (PayloadIn(p) /\ HeaderOf(p).mPid = pid)

LEMMA PacketSound ==
  ASSUME NEW p, NEW start, NEW pid, NEW afc, NEW cc, NEW a, NEW b,
         IsPacket(p, start, pid, afc, cc, a, b)
  PROVE  /\ Sound(p)
         /\ afc # 2 => Carries(p, pid, cc)
         /\ \A q : afc = 2 \/ q # pid => Without(p, q)
  <1>1. /\ p \in Seq(Nat) /\ Len(p) = PacketSize
        /\ HeaderShows(p, start, pid, afc, cc)
        /\ afc # 1 => p[5] = a[1]
    BY PacketShows DEF Shows
  <1>2. PICK h : h = HeaderOf(p)
    OBVIOUS
  <1>3. /\ h.mSyncByte = 71 /\ h.mPid = pid
        /\ h.mAdaptationFieldControl = afc /\ h.mContinuityCounter = cc
    BY <1>1, <1>2 DEF HeaderShows, HeaderOf
  <1>4. afc \in 1 .. 3 /\ cc \in 0 .. CcModulus - 1
    BY DEF IsPacket, TsType
  <1>5. PayloadIn(p) <=> afc # 2
    BY <1>2, <1>3, <1>4 DEF PayloadIn
  <1>6. AdaptationIn(p) <=> afc # 1
    BY <1>2, <1>3, <1>4 DEF AdaptationIn
  <1>7. ASSUME afc # 1
        PROVE  IF afc # 2 THEN 5 + p[5] < PacketSize ELSE 5 + p[5] = PacketSize
    <2>1. a \in Seq(Byte) /\ a # <<>> /\ Len(a) = 1 + a[1] /\ b \in Seq(Nat)
          /\ 4 + Len(a) + Len(b) = PacketSize
      BY <1>7 DEF IsPacket
    <2>2. PICK x \in Nat : x = a[1]
      <3>1. Len(a) \in Nat /\ Len(a) # 0
        BY <2>1, LenProperties, EmptySeq
      <3>2. a[1] \in Byte
        BY <2>1, <3>1, ElementOfSeq
      <3> QED
        BY <3>2 DEF Byte
    <2>3. PICK m \in Nat : m = Len(b)
      BY <2>1, LenProperties
    <2>4. 4 + (1 + x) + m = PacketSize /\ p[5] = x
      BY <1>1, <1>7, <2>1, <2>2, <2>3
    <2>5. m = 0 <=> afc = 2
      BY <2>1, <2>3, EmptySeq DEF IsPacket
    <2> QED
      BY <2>4, <2>5
  <1>8. Sound(p)
    BY <1>1, <1>2, <1>3, <1>4, <1>5, <1>6, <1>7 DEF Sound
  <1> QED
    BY <1>2, <1>3, <1>5, <1>8 DEF Carries, Without

LEMMA SmallerProduct ==
  ASSUME NEW m \in Nat, NEW n \in Nat, NEW k \in Nat, k <= n
  PROVE  k * m \in Nat /\ n * m \in Nat /\ k * m <= n * m
  <1>1. PICK d \in Nat : n = k + d
    <2>1. n - k \in Nat /\ n = k + (n - k)
      OBVIOUS
    <2> QED
      BY <2>1
  <1>2. n * m = k * m + d * m /\ k * m \in Nat /\ d * m \in Nat
    BY <1>1
  <1> QED
    BY <1>2

LEMMA NextProduct ==
  ASSUME NEW m \in Nat, NEW n \in Nat
  PROVE  (n + 1) * m = n * m + m /\ n * m \in Nat
  OBVIOUS

LEMMA Quotient ==
  ASSUME NEW m \in Nat \ {0}, NEW n \in Nat
  PROVE  (n * m) \div m = n /\ (n * m) % m = 0
  <1>1. PICK x \in Nat, q \in Int, r \in Nat :
          x = n * m /\ q = x \div m /\ r = x % m /\ x = m * q + r /\ r < m
    <2>1. PICK x \in Nat : x = n * m
      OBVIOUS
    <2>2. /\ x \div m \in Int /\ x % m \in Nat /\ x % m < m
          /\ x = m * (x \div m) + (x % m)
      OBVIOUS
    <2> QED
      BY <2>1, <2>2
  <1>2. ~ q < n
    <2> SUFFICES ASSUME q < n PROVE FALSE
      OBVIOUS
    <2>1. PICK d \in Nat : n = q + 1 + d
      <3>1. n - q - 1 \in Nat /\ n = q + 1 + (n - q - 1)
        OBVIOUS
      <3> QED
        BY <3>1
    <2>2. n * m = q * m + m + d * m /\ d * m \in Nat
      BY <2>1
    <2> QED
      BY <1>1, <2>2
  <1>3. ~ n < q
    <2> SUFFICES ASSUME n < q PROVE FALSE
      OBVIOUS
    <2>1. PICK d \in Nat : q = n + 1 + d
      <3>1. q - n - 1 \in Nat /\ q = n + 1 + (q - n - 1)
        OBVIOUS
      <3> QED
        BY <3>1
    <2>2. q * m = n * m + m + d * m /\ d * m \in Nat
      BY <2>1
    <2> QED
      BY <1>1, <2>2
  <1>4. q = n
    BY <1>2, <1>3
  <1> QED
    BY <1>1, <1>4

\* One packet more.
Grown(t, s, n, p) ==
  PacketIn(t, n + 1) = p /\ \A k \in 1 .. n : PacketIn(t, k) = PacketIn(s, k)

LEMMA PacketAppended ==
  ASSUME NEW n \in Nat, NEW s, s \in Seq(Nat), Len(s) = n * PacketSize,
         NEW p, p \in Seq(Nat), Len(p) = PacketSize
  PROVE  /\ s \o p \in Seq(Nat) /\ Len(s \o p) = (n + 1) * PacketSize
         /\ Grown(s \o p, s, n, p)
  <1>1. PICK m \in Nat : m = PacketSize
    BY Sizes
  <1>2. (n + 1) * m = n * m + m /\ n * m \in Nat
    BY NextProduct
  <1>3. s \o p \in Seq(Nat) /\ Len(s \o p) = (n + 1) * PacketSize
    <2>1. s \o p \in Seq(Nat) /\ Len(s \o p) = Len(s) + Len(p)
      BY ConcatParts
    <2> QED
      BY <1>1, <1>2, <2>1
  <1>4. PacketIn(s \o p, n + 1) = p
    <2>1. 1 \in Nat \ {0} /\ m \in Nat /\ 1 <= m + 1 /\ m <= Len(p)
      BY <1>1
    <2>2. SubSeq(s \o p, Len(s) + 1, Len(s) + m) = SubSeq(p, 1, m)
      BY <2>1, SliceRight
    <2>3. SubSeq(p, 1, m) = p
      BY <1>1, SliceAll
    <2>4. Len(s) + 1 = (n + 1 - 1) * m + 1 /\ Len(s) + m = (n + 1) * m
      <3>1. n + 1 - 1 = n
        OBVIOUS
      <3> QED
        BY <1>1, <1>2, <3>1
    <2> QED
      BY <1>1, <2>2, <2>3, <2>4 DEF PacketIn
  <1>5. ASSUME NEW k \in 1 .. n PROVE PacketIn(s \o p, k) = PacketIn(s, k)
    <2>1. PICK j \in Nat, l \in Nat, r \in Nat : j = k - 1 /\ l = j * m /\ r = k * m
      <3>1. k - 1 \in Nat /\ (k - 1) * m \in Nat /\ k * m \in Nat
        BY SmallerProduct
      <3> QED
        BY <3>1
    <2>2. l <= r
      BY <2>1, SmallerProduct
    <2>3. r <= n * m
      BY <2>1, SmallerProduct
    <2>4. l + 1 \in Nat \ {0} /\ l + 1 <= r + 1 /\ r <= Len(s)
      BY <1>1, <2>2, <2>3
    <2>5. SubSeq(s \o p, l + 1, r) = SubSeq(s, l + 1, r)
      BY <2>4, SliceLeft
    <2> QED
      BY <1>1, <2>1, <2>5 DEF PacketIn
  <1> QED
    BY <1>3, <1>4, <1>5 DEF Grown

\* A buffer of n packets.
Whole(s, n) ==
  /\ n \in Nat /\ s \in Seq(Nat) /\ Len(s) = n * PacketSize
  /\ \A k \in 1 .. n : Sound(PacketIn(s, k))

LEMMA WholeAppended ==
  ASSUME NEW s, NEW n, Whole(s, n), NEW p, Sound(p)
  PROVE  Whole(s \o p, n + 1) /\ Grown(s \o p, s, n, p)
  <1>1. /\ n \in Nat /\ s \in Seq(Nat) /\ Len(s) = n * PacketSize
        /\ p \in Seq(Nat) /\ Len(p) = PacketSize
    BY DEF Whole, Sound
  <1>2. PICK t : t = s \o p
    OBVIOUS
  <1>3. t \in Seq(Nat) /\ Len(t) = (n + 1) * PacketSize /\ Grown(t, s, n, p)
    BY <1>1, <1>2, PacketAppended
  <1>4. ASSUME NEW k \in 1 .. n + 1 PROVE Sound(PacketIn(t, k))
    <2>1. CASE k = n + 1
      BY <1>3, <2>1 DEF Grown
    <2>2. CASE k # n + 1
      <3>1. k \in 1 .. n
        BY <1>1, <2>2
      <3> QED
        BY <1>3, <3>1 DEF Grown, Whole
    <2> QED
      BY <2>1, <2>2
  <1> QED
    BY <1>1, <1>2, <1>3, <1>4 DEF Whole

LEMMA WholeEmpty ==
  Whole(<<>>, 0)
  <1>1. <<>> \in Seq(Nat) /\ Len(<<>>) = 0 /\ 0 * PacketSize = 0
    BY EmptySeq, Sizes
  <1> QED
    BY <1>1 DEF Whole

LEMMA WholeCount ==
  ASSUME NEW s, NEW n, Whole(s, n)
  PROVE  Len(s) \div PacketSize = n /\ Len(s) % PacketSize = 0
  <1>1. PICK m \in Nat \ {0} : m = PacketSize
    BY Sizes
  <1>2. (n * m) \div m = n /\ (n * m) % m = 0
    BY Quotient DEF Whole
  <1> QED
    BY <1>1, <1>2 DEF Whole

\* The bytes of a packet with a frame's data.
LEMMA PacketBounded ==
  ASSUME NEW p, NEW start, NEW pid, NEW afc, NEW cc, NEW a, NEW b,
         IsPacket(p, start, pid, afc, cc, a, b),
         NEW m \in Nat, m >= 255, b \in Seq(0 .. m)
  PROVE  p \in Seq(0 .. m)
  <1>1. PICK M, h : M = 0 .. m /\ h = Encode(TsHeader, Ts(start, pid, afc, cc))
    OBVIOUS
  <1>2. Byte \subseteq M
    BY <1>1 DEF Byte
  <1>3. h \in Seq(Byte) /\ a \in Seq(Byte) /\ b \in Seq(M)
    <2>1. Bytes(h, 4)
      BY <1>1, TsBytes DEF IsPacket
    <2> QED
      BY <1>1, <2>1 DEF Bytes, IsPacket
  <1>4. h \in Seq(M) /\ a \in Seq(M)
    BY <1>2, <1>3, SeqSubset
  <1>5. a \o b \in Seq(M)
    BY <1>3, <1>4, ConcatParts
  <1>6. h \o (a \o b) \in Seq(M)
    BY <1>4, <1>5, ConcatParts
  <1> QED
    BY <1>1, <1>6 DEF IsPacket

LEMMA PayloadBounded ==
  ASSUME NEW f \in Frames, NEW start \in Nat, start < f.size
  PROVE  PesPayload(f, start) \in Seq(0 .. 255 + f.size)
  <1>1. PICK z \in Nat : z = f.size
    BY FrameTypes
  <1>2. PICK M : M = 0 .. 255 + z
    OBVIOUS
  <1>3. StartPes(f, start) \in Seq(M)
    <2>1. Byte \subseteq M
      BY <1>2 DEF Byte
    <2>2. StartPes(f, start) \in Seq(Byte)
      BY StartTypes
    <2> QED
      BY <2>1, <2>2, SeqSubset
  <1>4. PICK n \in Nat : n = Taken(f, start) /\ start + n <= f.size
    BY TakenType
  <1>5. PICK d : d = DataPart(f, start, n)
    OBVIOUS
  <1>6. d \in Seq(Nat) /\ Len(d) = n /\ \A i \in 1 .. n : d[i] = 255 + start + i
    <2>1. /\ DataPart(f, start, n) \in Seq(Nat) /\ Len(DataPart(f, start, n)) = n
          /\ \A i \in 1 .. n : DataPart(f, start, n)[i] = 255 + start + i
      BY <1>4, DataSlice
    <2> QED
      BY <1>5, <2>1
  <1>7. d \in Seq(M)
    <2>1. \A i \in 1 .. n : d[i] \in M
      BY <1>1, <1>2, <1>4, <1>6
    <2>2. d = [i \in 1 .. n |-> d[i]]
      BY <1>6, LenProperties
    <2>3. d \in [1 .. n -> M]
      BY <2>1, <2>2
    <2> QED
      BY <2>3, SeqDef
  <1>8. StartPes(f, start) \o d \in Seq(M)
    BY <1>3, <1>7, ConcatParts
  <1> QED
    BY <1>1, <1>2, <1>4, <1>5, <1>8 DEF PesPayload, DataPart

-----------------------------------------------------------------------------
(* The counters.                                                           *)

\* The packets of a PID, among the first n of a buffer.
CcIn(s, k) == HeaderOf(PacketIn(s, k)).mContinuityCounter
OfIn(s, n, pid) ==
  {k \in 1 .. n : PayloadIn(PacketIn(s, k)) /\ HeaderOf(PacketIn(s, k)).mPid = pid}

Succeeds(cc, last) == cc = (last + 1) % CcModulus

\* map has counted the packets of the PID under the key, those that are in the
\* buffer after those that the receiver has seen.
Counted(s, n, before, map, key, pid) ==
  LET packets == OfIn(s, n, pid)
  IN /\ key \in DOMAIN map <=> pid \in DOMAIN before \/ packets # {}
     /\ packets = {} /\ pid \in DOMAIN before => map[key] = before[pid]
     /\ \A k \in packets : (\A j \in packets : j <= k) => CcIn(s, k) = map[key]
     /\ \A k \in packets : (\A j \in packets : k <= j) /\ pid \in DOMAIN before =>
                             Succeeds(CcIn(s, k), before[pid])
     /\ \A j, k \in packets :
          j < k /\ (\A i \in packets : i <= j \/ k <= i) => Succeeds(CcIn(s, k), CcIn(s, j))

\* The PIDs that are counted, alone, under a key.
CountedBy(key, pid) ==
  IF pid \in {0, PmtPid} THEN key = 0 /\ 0 \notin Types
  ELSE key \in Types \ {0} /\ \A f \in Frames : f.mPid = pid <=> f.mStreamType = key

CountersInv ==
  \A key \in {0} \cup Types, pid \in Pids :
    CountedBy(key, pid) =>
      Counted(lSb, Len(lSb) \div PacketSize, seen, mPidCcMap, key, pid)

BufferInv ==
  /\ lSb \in Seq(0 .. 255 + frame.size)
  /\ op # "createNull" => \E n \in 0 .. Len(lSb) : Whole(lSb, n)
  /\ op = "createNull" => pc = "callback" /\ Len(lSb) = 4

PhaseInv ==
  /\ pc = "idle" => lSb = <<>> /\ pos = 0 /\ frame = NoFrame /\ op = "none"
  /\ pc = "createPes" => op = "encode"
  /\ IF op = "encode" THEN frame \in Frames ELSE frame = NoFrame

IInv == TypeOK /\ PhaseInv /\ BufferInv /\ CountersInv

LEMMA OfGrown ==
  ASSUME NEW n \in Nat, NEW t, NEW s, NEW p, Grown(t, s, n, p), NEW pid
  PROVE  /\ OfIn(s, n, pid) \subseteq 1 .. n
         /\ Without(p, pid) => OfIn(t, n + 1, pid) = OfIn(s, n, pid)
         /\ \A cc : Carries(p, pid, cc) =>
              OfIn(t, n + 1, pid) = OfIn(s, n, pid) \cup {n + 1} /\ CcIn(t, n + 1) = cc
         /\ \A k \in 1 .. n : CcIn(t, k) = CcIn(s, k)
  <1>1. PICK O, Q : O = OfIn(s, n, pid) /\ Q = OfIn(t, n + 1, pid)
    OBVIOUS
  <1>2. O \subseteq 1 .. n /\ Q \subseteq 1 .. n + 1
    BY <1>1 DEF OfIn
  <1>3. ASSUME NEW k \in 1 .. n PROVE k \in Q <=> k \in O
    <2>1. PacketIn(t, k) = PacketIn(s, k) /\ k \in 1 .. n + 1
      BY DEF Grown
    <2> QED
      BY <1>1, <2>1 DEF OfIn
  <1>4. n + 1 \in Q <=> PayloadIn(p) /\ HeaderOf(p).mPid = pid
    <2>1. PacketIn(t, n + 1) = p /\ n + 1 \in 1 .. n + 1
      BY DEF Grown
    <2> QED
      BY <1>1, <2>1 DEF OfIn
  <1>5. \A k \in 1 .. n + 1 : k = n + 1 \/ k \in 1 .. n
    OBVIOUS
  <1>6. ASSUME Without(p, pid) PROVE Q = O
    <2>1. n + 1 \notin Q
      BY <1>4, <1>6 DEF Without
    <2> QED
      BY <1>2, <1>3, <1>5, <2>1
  <1>7. ASSUME NEW cc, Carries(p, pid, cc) PROVE Q = O \cup {n + 1} /\ CcIn(t, n + 1) = cc
    <2>1. n + 1 \in Q
      BY <1>4, <1>7 DEF Carries
    <2>2. CcIn(t, n + 1) = cc
      BY <1>7 DEF Carries, CcIn, Grown
    <2> QED
      BY <1>2, <1>3, <1>5, <2>1, <2>2
  <1>8. \A k \in 1 .. n : CcIn(t, k) = CcIn(s, k)
    BY DEF CcIn, Grown
  <1> QED
    BY <1>1, <1>2, <1>6, <1>7, <1>8

\* Another packet goes by.
LEMMA CountedOther ==
  ASSUME NEW n \in Nat, NEW t, NEW s, NEW p, Grown(t, s, n, p), NEW pid,
         Without(p, pid), NEW before, NEW map, NEW key, Counted(s, n, before, map, key, pid)
  PROVE  Counted(t, n + 1, before, map, key, pid)
  <1>1. PICK O : O = OfIn(s, n, pid) /\ O = OfIn(t, n + 1, pid)
    BY OfGrown
  <1>2. O \subseteq 1 .. n /\ \A k \in O : CcIn(t, k) = CcIn(s, k)
    BY <1>1, OfGrown
  <1> QED
    BY <1>1, <1>2 DEF Counted

\* The key is not touched.
LEMMA CountedAgree ==
  ASSUME NEW s, NEW n, NEW before, NEW map, NEW key, NEW pid,
         Counted(s, n, before, map, key, pid),
         NEW next, key \in DOMAIN next <=> key \in DOMAIN map,
         key \in DOMAIN map => next[key] = map[key]
  PROVE  Counted(s, n, before, next, key, pid)
  BY DEF Counted

\* A packet is counted.
LEMMA CountedNext ==
  ASSUME NEW n \in Nat, NEW t, NEW s, NEW p, Grown(t, s, n, p), NEW pid,
         NEW map, NEW key, Carries(p, pid, NextCc(map, key)),
         NEW before, Counted(s, n, before, map, key, pid)
  PROVE  Counted(t, n + 1, before, getCc(map, key), key, pid)
  <1>1. PICK O, Q, cc, next : /\ O = OfIn(s, n, pid) /\ Q = OfIn(t, n + 1, pid)
                              /\ cc = NextCc(map, key) /\ next = getCc(map, key)
    OBVIOUS
  <1>2. /\ O \subseteq 1 .. n /\ Q = O \cup {n + 1}
        /\ \A k \in O : CcIn(t, k) = CcIn(s, k)
        /\ CcIn(t, n + 1) = cc
    BY <1>1, OfGrown
  <1>3. key \in DOMAIN next /\ next[key] = cc
    BY <1>1 DEF getCc
  <1>4. key \in DOMAIN map => Succeeds(cc, map[key])
    BY <1>1 DEF NextCc, Succeeds
  <1>5. /\ key \in DOMAIN map <=> pid \in DOMAIN before \/ O # {}
        /\ O = {} /\ pid \in DOMAIN before => map[key] = before[pid]
        /\ \A k \in O : (\A j \in O : j <= k) => CcIn(s, k) = map[key]
        /\ \A k \in O : (\A j \in O : k <= j) /\ pid \in DOMAIN before =>
                          Succeeds(CcIn(s, k), before[pid])
        /\ \A j, k \in O :
             j < k /\ (\A i \in O : i <= j \/ k <= i) => Succeeds(CcIn(s, k), CcIn(s, j))
    BY <1>1 DEF Counted
  <1>6. ASSUME NEW k \in O PROVE k \in 1 .. n /\ k <= n + 1 /\ ~ n + 1 <= k /\ k < n + 1
    BY <1>2
  <1>7. ASSUME NEW k \in Q, \A j \in Q : j <= k PROVE CcIn(t, k) = next[key]
    <2>1. k = n + 1
      BY <1>2, <1>6, <1>7
    <2> QED
      BY <1>2, <1>3, <2>1
  <1>8. ASSUME NEW k \in Q, \A j \in Q : k <= j, pid \in DOMAIN before
        PROVE  Succeeds(CcIn(t, k), before[pid])
    <2>1. CASE k = n + 1
      <3>1. O = {}
        BY <1>2, <1>6, <1>8, <2>1
      <3>2. key \in DOMAIN map /\ map[key] = before[pid]
        BY <1>5, <1>8, <3>1
      <3> QED
        BY <1>2, <1>4, <2>1, <3>2
    <2>2. CASE k \in O
      <3>1. Succeeds(CcIn(s, k), before[pid])
        BY <1>2, <1>5, <1>8, <2>2
      <3> QED
        BY <1>2, <2>2, <3>1
    <2> QED
      BY <1>2, <2>1, <2>2
  <1>9. ASSUME NEW j \in Q, NEW k \in Q, j < k, \A i \in Q : i <= j \/ k <= i
        PROVE  Succeeds(CcIn(t, k), CcIn(t, j))
    <2>1. j \in O
      BY <1>2, <1>6, <1>9
    <2>2. CASE k = n + 1
      <3>1. \A i \in O : i <= j
        BY <1>2, <1>6, <1>9, <2>2
      <3>2. CcIn(s, j) = map[key] /\ key \in DOMAIN map
        BY <1>5, <2>1, <3>1
      <3> QED
        BY <1>2, <1>4, <2>1, <2>2, <3>2
    <2>3. CASE k \in O
      <3>1. Succeeds(CcIn(s, k), CcIn(s, j))
        BY <1>2, <1>5, <1>9, <2>1, <2>3
      <3> QED
        BY <1>2, <2>1, <2>3, <3>1
    <2> QED
      BY <1>2, <2>2, <2>3
  <1> QED
    BY <1>1, <1>2, <1>3, <1>7, <1>8, <1>9 DEF Counted

LEMMA NextCcType ==
  ASSUME NEW map, NEW key, NEW D, DOMAIN map \subseteq D, key \in D,
         \A k \in DOMAIN map : map[k] \in 0 .. CcModulus - 1
  PROVE  /\ NextCc(map, key) \in 0 .. CcModulus - 1
         /\ DOMAIN getCc(map, key) \subseteq D
         /\ \A k \in DOMAIN getCc(map, key) : getCc(map, key)[k] \in 0 .. CcModulus - 1
         /\ \A k : k # key => /\ k \in DOMAIN getCc(map, key) <=> k \in DOMAIN map
                              /\ k \in DOMAIN map => getCc(map, key)[k] = map[k]
  <1>0. PICK m \in Nat \ {0} : m = CcModulus
    BY Sizes
  <1>1. PICK cc : m = CcModulus /\ cc = NextCc(map, key)
    BY <1>0
  <1>2. cc \in 0 .. m - 1
    <2>1. CASE key \in DOMAIN map
      <3>1. PICK x \in Nat : x = map[key]
        BY <1>1, <2>1
      <3>2. (x + 1) % m \in 0 .. m - 1
        OBVIOUS
      <3> QED
        BY <1>1, <2>1, <3>1, <3>2 DEF NextCc
    <2>2. CASE key \notin DOMAIN map
      BY <1>1, <2>2 DEF NextCc
    <2> QED
      BY <2>1, <2>2
  <1>3. getCc(map, key) = [k \in DOMAIN map \cup {key} |-> IF k = key THEN cc ELSE map[k]]
    BY <1>1 DEF getCc
  <1> QED
    BY <1>1, <1>2, <1>3

LEMMA CountedEmpty ==
  ASSUME NEW s, NEW before, NEW map, NEW key, NEW pid
  PROVE  Counted(s, 0, before, map, key, pid) <=>
           /\ key \in DOMAIN map <=> pid \in DOMAIN before
           /\ pid \in DOMAIN before => map[key] = before[pid]
  <1>1. OfIn(s, 0, pid) = {}
    BY DEF OfIn
  <1> QED
    BY <1>1 DEF Counted

LEMMA CountedPids ==
  ASSUME NEW key, NEW pid, CountedBy(key, pid)
  PROVE  /\ key = 0 => pid = 0 \/ pid = PmtPid
         /\ key # 0 => pid # 0 /\ pid # PmtPid
         /\ \A f \in Frames : Pid(f) = pid <=> f.mStreamType = key
  <1>1. key = 0 => pid = 0 \/ pid = PmtPid
    BY DEF CountedBy
  <1>2. key # 0 => pid # 0 /\ pid # PmtPid
    BY DEF CountedBy
  <1>3. ASSUME NEW f \in Frames PROVE Pid(f) = pid <=> f.mStreamType = key
    <2>1. CASE pid \in {0, PmtPid}
      <3>1. Pid(f) # pid
        BY <2>1, FrameTypes
      <3>2. f.mStreamType # key
        BY <2>1, FrameTypes DEF CountedBy
      <3> QED
        BY <3>1, <3>2
    <2>2. CASE pid \notin {0, PmtPid}
      BY <2>2 DEF CountedBy, Pid
    <2> QED
      BY <2>1, <2>2
  <1> QED
    BY <1>1, <1>2, <1>3

LEMMA AloneIsCounted ==
  ASSUME NEW pid, CountedAlone(pid)
  PROVE  \E key \in {0} \cup Types : CountedBy(key, pid)
  <1>1. CASE pid \in {0, PmtPid}
    BY <1>1 DEF CountedAlone, CountedBy
  <1>2. CASE pid \notin {0, PmtPid}
    BY <1>2 DEF CountedAlone, CountedBy
  <1> QED
    BY <1>1, <1>2

\* PAT and PMT are counted with one step of the counter of both.
LEMMA TablesCounted ==
  ASSUME NEW map, DOMAIN map \subseteq {0} \cup Types,
         \A k \in DOMAIN map : map[k] \in 0 .. CcModulus - 1
  PROVE  LET cc == NextCc(map, 0)
             t == createPat(cc) \o createPmt(cc)
         IN /\ Whole(t, 2)
            /\ \A m \in Nat : m >= 255 => t \in Seq(0 .. m)
            /\ \A before, key, pid :
                 CountedBy(key, pid) /\ Counted(<<>>, 0, before, map, key, pid) =>
                   Counted(t, 2, before, getCc(map, 0), key, pid)
  <1>1. PICK cc, p, q, t, D : /\ cc = NextCc(map, 0) /\ p = createPat(cc)
                              /\ q = createPmt(cc) /\ t = p \o q
                              /\ D = {0} \cup Types
    OBVIOUS
  <1>2. /\ cc \in 0 .. CcModulus - 1
        /\ \A k : k # 0 => /\ k \in DOMAIN getCc(map, 0) <=> k \in DOMAIN map
                           /\ k \in DOMAIN map => getCc(map, 0)[k] = map[k]
    <2>1. DOMAIN map \subseteq D /\ 0 \in D
      BY <1>1
    <2> QED
      BY <1>1, <2>1, NextCcType
  <1>3. PICK a, b : a = SectionPayload(PatSection) /\ b = SectionPayload(PmtSection)
    OBVIOUS
  <1>4. /\ IsPacket(p, 1, 0, 1, cc, <<>>, a) /\ a \in Seq(Byte)
        /\ IsPacket(q, 1, PmtPid, 1, cc, <<>>, b) /\ b \in Seq(Byte)
    BY <1>1, <1>2, <1>3, TableParts DEF Bytes
  <1>5. Sound(p) /\ Carries(p, 0, cc) /\ \A r : r # 0 => Without(p, r)
    <2>1. 1 # 2
      OBVIOUS
    <2> QED
      BY <1>4, <2>1, PacketSound
  <1>6. Sound(q) /\ Carries(q, PmtPid, cc) /\ \A r : r # PmtPid => Without(q, r)
    <2>1. 1 # 2
      OBVIOUS
    <2> QED
      BY <1>4, <2>1, PacketSound
  <1>7. Whole(p, 1) /\ Grown(p, <<>>, 0, p)
    <2>1. Whole(<<>> \o p, 0 + 1) /\ Grown(<<>> \o p, <<>>, 0, p)
      BY <1>5, WholeEmpty, WholeAppended
    <2>2. <<>> \o p = p
      BY <1>5, ConcatEmptySeq DEF Sound
    <2> QED
      BY <2>1, <2>2
  <1>8. Whole(t, 2) /\ Grown(t, p, 1, q)
    <2>1. Whole(p \o q, 1 + 1) /\ Grown(p \o q, p, 1, q)
      BY <1>6, <1>7, WholeAppended
    <2> QED
      BY <1>1, <2>1
  <1>9. ASSUME NEW m \in Nat, m >= 255 PROVE t \in Seq(0 .. m)
    <2>1. PICK M : M = 0 .. m
      OBVIOUS
    <2>2. Byte \subseteq M
      BY <1>9, <2>1 DEF Byte
    <2>3. a \in Seq(M) /\ b \in Seq(M)
      BY <1>4, <2>2, SeqSubset
    <2>4. p \in Seq(0 .. m)
      BY <1>4, <1>9, <2>1, <2>3, PacketBounded
    <2>5. q \in Seq(0 .. m)
      BY <1>4, <1>9, <2>1, <2>3, PacketBounded
    <2>6. p \o q \in Seq(M)
      BY <2>1, <2>4, <2>5, ConcatParts
    <2> QED
      BY <1>1, <2>1, <2>6
  <1>10. ASSUME NEW before, NEW key, NEW pid, CountedBy(key, pid),
                Counted(<<>>, 0, before, map, key, pid)
         PROVE  Counted(t, 2, before, getCc(map, 0), key, pid)
    <2>1. PICK next : next = getCc(map, 0)
      OBVIOUS
    <2>2. 0 \in Nat /\ 1 \in Nat /\ 0 + 1 = 1 /\ 1 + 1 = 2 /\ PmtPid # 0
      BY Streams
    <2>3. CASE key = 0 /\ pid = 0
      <3>1. Counted(p, 0 + 1, before, getCc(map, key), key, pid)
        <4>1. Carries(p, pid, NextCc(map, key))
          BY <1>1, <1>5, <2>3
        <4> QED
          BY <1>7, <1>10, <2>2, <4>1, CountedNext
      <3>2. Counted(p, 1, before, next, key, pid) /\ Without(q, pid)
        BY <1>6, <2>1, <2>2, <2>3, <3>1
      <3>3. Counted(t, 1 + 1, before, next, key, pid)
        BY <1>8, <2>2, <3>2, CountedOther
      <3> QED
        BY <2>1, <2>2, <3>3
    <2>4. CASE key = 0 /\ pid = PmtPid
      <3>1. Counted(p, 0 + 1, before, map, key, pid)
        <4>1. Without(p, pid)
          BY <1>5, <2>2, <2>4
        <4> QED
          BY <1>7, <1>10, <2>2, <4>1, CountedOther
      <3>2. Counted(p, 1, before, map, key, pid) /\ Carries(q, pid, NextCc(map, key))
        BY <1>1, <1>6, <2>2, <2>4, <3>1
      <3>3. Counted(t, 1 + 1, before, getCc(map, key), key, pid)
        BY <1>8, <2>2, <3>2, CountedNext
      <3> QED
        BY <2>2, <2>4, <3>3
    <2>5. CASE key # 0
      <3>1. pid # 0 /\ pid # PmtPid
        BY <1>10, <2>5, CountedPids
      <3>2. Without(p, pid) /\ Without(q, pid)
        BY <1>5, <1>6, <3>1
      <3>3. Counted(p, 0 + 1, before, map, key, pid)
        BY <1>7, <1>10, <2>2, <3>2, CountedOther
      <3>4. Counted(p, 1, before, map, key, pid)
        BY <2>2, <3>3
      <3>5. Counted(t, 1 + 1, before, map, key, pid)
        BY <1>8, <2>2, <3>2, <3>4, CountedOther
      <3>6. /\ key \in DOMAIN next <=> key \in DOMAIN map
            /\ key \in DOMAIN map => next[key] = map[key]
        BY <1>2, <2>1, <2>5
      <3>7. Counted(t, 1 + 1, before, next, key, pid)
        BY <3>5, <3>6, CountedAgree
      <3> QED
        BY <2>1, <2>2, <3>7
    <2> QED
      BY <1>10, <2>3, <2>4, <2>5, CountedPids
  <1> QED
    BY <1>1, <1>8, <1>9, <1>10

\* A packet of a frame is counted under the type of its stream.
LEMMA PesCounted ==
  ASSUME NEW f \in Frames, NEW start \in Nat, start < f.size,
         NEW map, DOMAIN map \subseteq {0} \cup Types,
         \A k \in DOMAIN map : map[k] \in 0 .. CcModulus - 1,
         NEW s, NEW n, Whole(s, n), s \in Seq(0 .. 255 + f.size)
  PROVE  LET p == PesPacket(f, start, NextCc(map, f.mStreamType))
         IN /\ Whole(s \o p, n + 1)
            /\ s \o p \in Seq(0 .. 255 + f.size)
            /\ \A before, key, pid :
                 CountedBy(key, pid) /\ Counted(s, n, before, map, key, pid) =>
                   Counted(s \o p, n + 1, before, getCc(map, f.mStreamType), key, pid)
  <1>1. PICK type, cc, p, t, D :
          /\ type = f.mStreamType /\ cc = NextCc(map, type)
          /\ p = PesPacket(f, start, cc) /\ t = s \o p
          /\ D = {0} \cup Types
    OBVIOUS
  <1>2. type \in Types
    BY <1>1, FrameTypes
  <1>3. /\ cc \in 0 .. CcModulus - 1
        /\ \A k : k # type => /\ k \in DOMAIN getCc(map, type) <=> k \in DOMAIN map
                              /\ k \in DOMAIN map => getCc(map, type)[k] = map[k]
    <2>1. DOMAIN map \subseteq D /\ type \in D
      BY <1>1, <1>2
    <2> QED
      BY <1>1, <2>1, NextCcType
  <1>4. PICK y, afc, a, b : /\ b = PesPayload(f, start) /\ afc # 2
                            /\ IsPacket(p, y, Pid(f), afc, cc, a, b)
    <2>1. IsPacket(PesPacket(f, start, cc), IF start = 0 THEN 1 ELSE 0, Pid(f),
                   PesControl(f, start), cc, PesField(f, start), PesPayload(f, start))
      BY <1>3, PesParts
    <2>2. PesControl(f, start) # 2
      <3>1. PesControl(f, start) \in {1, 3}
        BY PesFieldType
      <3> QED
        BY <3>1
    <2> QED
      BY <1>1, <2>1, <2>2
  <1>5. Sound(p) /\ Carries(p, Pid(f), cc) /\ \A r : r # Pid(f) => Without(p, r)
    BY <1>4, PacketSound
  <1>6. Whole(t, n + 1) /\ Grown(t, s, n, p) /\ n \in Nat
    <2>1. Whole(s \o p, n + 1) /\ Grown(s \o p, s, n, p)
      BY <1>5, WholeAppended
    <2> QED
      BY <1>1, <2>1 DEF Whole
  <1>7. t \in Seq(0 .. 255 + f.size)
    <2>1. PICK m, M : m \in Nat /\ m = 255 + f.size /\ m >= 255 /\ M = 0 .. m
      BY FrameTypes
    <2>2. b \in Seq(0 .. m)
      BY <1>4, <2>1, PayloadBounded
    <2>3. p \in Seq(0 .. m)
      BY <1>4, <2>1, <2>2, PacketBounded
    <2>4. s \o p \in Seq(M)
      BY <2>1, <2>3, ConcatParts
    <2> QED
      BY <1>1, <2>1, <2>4
  <1>8. ASSUME NEW before, NEW key, NEW pid, CountedBy(key, pid),
               Counted(s, n, before, map, key, pid)
        PROVE  Counted(t, n + 1, before, getCc(map, type), key, pid)
    <2>1. CASE key = type
      <3>1. pid = Pid(f)
        BY <1>1, <1>8, <2>1, CountedPids
      <3>2. Carries(p, pid, NextCc(map, key))
        BY <1>1, <1>5, <2>1, <3>1
      <3>3. Counted(t, n + 1, before, getCc(map, key), key, pid)
        BY <1>6, <1>8, <3>2, CountedNext
      <3> QED
        BY <2>1, <3>3
    <2>2. CASE key # type
      <3>1. pid # Pid(f)
        BY <1>1, <1>8, <2>2, CountedPids
      <3>2. Without(p, pid)
        BY <1>5, <3>1
      <3>3. Counted(t, n + 1, before, map, key, pid)
        BY <1>6, <1>8, <3>2, CountedOther
      <3>4. PICK next : next = getCc(map, type)
        OBVIOUS
      <3>5. /\ key \in DOMAIN next <=> key \in DOMAIN map
            /\ key \in DOMAIN map => next[key] = map[key]
        BY <1>3, <2>2, <3>4
      <3>6. Counted(t, n + 1, before, next, key, pid)
        BY <3>3, <3>5, CountedAgree
      <3> QED
        BY <3>4, <3>6
    <2> QED
      BY <2>1, <2>2
  <1> QED
    BY <1>1, <1>6, <1>7, <1>8

-----------------------------------------------------------------------------
(* The invariant.                                                          *)

\* The number of packets, which Continuity and WholePackets divide for.
LEMMA CountPackets ==
  ASSUME IInv
  PROVE  /\ Len(lSb) \div PacketSize \in Nat
         /\ op # "createNull" => Whole(lSb, Len(lSb) \div PacketSize)
         /\ op = "createNull" => Len(lSb) \div PacketSize = 0
  <1>1. PICK n, m : /\ n \in Nat /\ m \in Nat \ {0}
                 /\ n = Len(lSb) /\ m = PacketSize /\ 4 < m
    <2>1. lSb \in Seq(0 .. 255 + frame.size)
      BY DEF IInv, BufferInv
    <2>2. Len(lSb) \in Nat
      BY <2>1, LenProperties
    <2> QED
      BY <2>2, Sizes
  <1>2. n \div m \in Nat
    BY <1>1, Halves
  <1>3. ASSUME op # "createNull" PROVE Whole(lSb, Len(lSb) \div PacketSize)
    <2>1. PICK k \in 0 .. Len(lSb) : Whole(lSb, k)
      BY <1>3 DEF IInv, BufferInv
    <2>2. Len(lSb) \div PacketSize = k
      BY <2>1, WholeCount
    <2> QED
      BY <2>1, <2>2
  <1>4. ASSUME op = "createNull" PROVE Len(lSb) \div PacketSize = 0
    <2>1. n = 4
      BY <1>1, <1>4 DEF IInv, BufferInv
    <2>2. 4 \div m = 0
      BY <1>1
    <2> QED
      BY <1>1, <2>1, <2>2
  <1> QED
    BY <1>1, <1>2, <1>3, <1>4

LEMMA NextIndexType ==
  ASSUME lCurrentIndex \in 0 .. PatInterval
  PROVE  NextIndex \in 0 .. PatInterval
  <1>1. PICK m \in Nat \ {0}, i \in Nat : m = PatInterval /\ i = lCurrentIndex /\ i <= m
    BY Sizes
  <1>2. CASE i = m
    <2>1. m % m = 0
      <3>1. (1 * m) % m = 0
        BY Quotient
      <3>2. 1 * m = m
        OBVIOUS
      <3> QED
        BY <3>1, <3>2
    <2> QED
      BY <1>1, <1>2, <2>1 DEF NextIndex, shouldCreatePat
  <1>3. CASE i # m
    BY <1>1, <1>3 DEF NextIndex, shouldCreatePat
  <1> QED
    BY <1>2, <1>3

LEMMA InitInv ==
  ASSUME Init
  PROVE  IInv
  <1>1. /\ mPidCcMap = <<>> /\ seen = <<>> /\ lSb = <<>> /\ pos = 0
        /\ frame = NoFrame /\ pc = "idle" /\ op = "none"
    BY DEF Init
  <1>2. DOMAIN <<>> = {}
    OBVIOUS
  <1>3. NoFrame.size = 0
    BY DEF NoFrame
  <1>4. TypeOK
    <2>1. /\ DOMAIN mPidCcMap = {} /\ DOMAIN seen = {} /\ DOMAIN lSb = {}
          /\ pos \in 0 .. frame.size
      BY <1>1, <1>2, <1>3
    <2>2. mMuxType \in MuxTypes /\ lRandomAccess \in BOOLEAN
      BY DEF Init
    <2>3. lCurrentIndex \in 0 .. PatInterval
      BY Sizes DEF Init
    <2> QED
      BY <1>1, <2>1, <2>2, <2>3 DEF TypeOK
  <1>5. PhaseInv
    BY <1>1 DEF PhaseInv
  <1>6. BufferInv
    <2>1. lSb \in Seq(0 .. 255 + frame.size)
      BY <1>1, EmptySeq
    <2>2. 0 \in 0 .. Len(lSb) /\ Whole(lSb, 0)
      BY <1>1, WholeEmpty, EmptySeq
    <2> QED
      BY <1>1, <2>1, <2>2 DEF BufferInv
  <1>7. CountersInv
    <2>1. Len(lSb) \div PacketSize = 0
      BY <1>1, WholeEmpty, WholeCount
    <2>2. \A key, pid : Counted(lSb, 0, seen, mPidCcMap, key, pid)
      BY <1>1, <1>2, CountedEmpty
    <2> QED
      BY <2>1, <2>2 DEF CountersInv
  <1> QED
    BY <1>4, <1>5, <1>6, <1>7 DEF IInv

\* What BufferInv asks, from the number of packets.
LEMMA WholeWithin ==
  ASSUME NEW s, NEW n, Whole(s, n)
  PROVE  n \in 0 .. Len(s)
  <1>1. PICK m \in Nat \ {0} : m = PacketSize
    BY Sizes
  <1>2. n \in Nat /\ Len(s) = n * m
    BY <1>1 DEF Whole
  <1>3. n <= n * m /\ n * m \in Nat
    <2>1. PICK d \in Nat : m = 1 + d
      <3>1. m - 1 \in Nat /\ m = 1 + (m - 1)
        OBVIOUS
      <3> QED
        BY <3>1
    <2>2. n * m = n + n * d /\ n * d \in Nat
      BY <1>2, <2>1
    <2> QED
      BY <1>2, <2>2
  <1> QED
    BY <1>2, <1>3

LEMMA EncodeFrameInv ==
  ASSUME IInv, NEW f \in Frames, NEW randomAccess \in BOOLEAN, EncodeFrame(f, randomAccess)
  PROVE  IInv'
  <1>1. /\ pc = "idle" /\ lSb = <<>> /\ pos = 0 /\ frame = NoFrame /\ op = "none"
        /\ pc' = "createPes" /\ op' = "encode" /\ frame' = f
        /\ pos' = 0 /\ seen' = seen /\ mMuxType' = mMuxType
        /\ lRandomAccess' = randomAccess
    BY DEF EncodeFrame, IInv, PhaseInv
  <1>2. /\ DOMAIN mPidCcMap \subseteq {0} \cup Types
        /\ \A k \in DOMAIN mPidCcMap : mPidCcMap[k] \in 0 .. CcModulus - 1
    BY DEF IInv, TypeOK
  <1>3. f.size \in Nat
    BY FrameTypes
  <1>4. Len(lSb) \div PacketSize = 0
    BY <1>1, WholeEmpty, WholeCount
  <1>5. \E n : /\ Whole(lSb', n) /\ lSb' \in Seq(0 .. 255 + f.size)
               /\ \A key, pid : CountedBy(key, pid) /\ Counted(<<>>, 0, seen, mPidCcMap, key, pid)
                                  => Counted(lSb', n, seen, mPidCcMap', key, pid)
               /\ DOMAIN mPidCcMap' \subseteq {0} \cup Types
               /\ \A k \in DOMAIN mPidCcMap' : mPidCcMap'[k] \in 0 .. CcModulus - 1
    <2>1. CASE TablesDue(randomAccess)
      <3>0. 255 + f.size \in Nat /\ 255 + f.size >= 255
        BY <1>3
      <3>1. PICK cc, t, m : /\ cc = NextCc(mPidCcMap, 0)
                            /\ t = createPat(cc) \o createPmt(cc)
                            /\ m = 255 + f.size /\ m \in Nat /\ m >= 255
        BY <3>0
      <3>2. lSb' = t /\ mPidCcMap' = getCc(mPidCcMap, 0)
        BY <2>1, <3>1 DEF EncodeFrame
      <3>3. /\ Whole(t, 2) /\ t \in Seq(0 .. m)
            /\ \A before, key, pid :
                 CountedBy(key, pid) /\ Counted(<<>>, 0, before, mPidCcMap, key, pid) =>
                   Counted(t, 2, before, getCc(mPidCcMap, 0), key, pid)
        BY <1>2, <3>1, TablesCounted
      <3>4. /\ DOMAIN getCc(mPidCcMap, 0) \subseteq {0} \cup Types
            /\ \A k \in DOMAIN getCc(mPidCcMap, 0) :
                 getCc(mPidCcMap, 0)[k] \in 0 .. CcModulus - 1
        <4>1. PICK D : D = {0} \cup Types
          OBVIOUS
        <4>2. DOMAIN mPidCcMap \subseteq D /\ 0 \in D
          BY <1>2, <4>1
        <4> QED
          BY <1>2, <4>1, <4>2, NextCcType
      <3> QED
        BY <3>1, <3>2, <3>3, <3>4
    <2>2. CASE ~ TablesDue(randomAccess)
      <3>1. lSb' = <<>> /\ mPidCcMap' = mPidCcMap
        BY <1>1, <2>2 DEF EncodeFrame
      <3>2. Whole(<<>>, 0) /\ <<>> \in Seq(0 .. 255 + f.size)
        BY WholeEmpty, EmptySeq
      <3> QED
        BY <1>2, <3>1, <3>2
    <2> QED
      BY <2>1, <2>2
  <1>6. PICK n : /\ Whole(lSb', n) /\ lSb' \in Seq(0 .. 255 + f.size)
                 /\ \A key, pid : CountedBy(key, pid) /\ Counted(<<>>, 0, seen, mPidCcMap, key, pid)
                                    => Counted(lSb', n, seen, mPidCcMap', key, pid)
                 /\ DOMAIN mPidCcMap' \subseteq {0} \cup Types
                 /\ \A k \in DOMAIN mPidCcMap' : mPidCcMap'[k] \in 0 .. CcModulus - 1
    BY <1>5
  <1>7. TypeOK'
    <2>1. lCurrentIndex' \in 0 .. PatInterval
      <3>1. lCurrentIndex \in 0 .. PatInterval
        BY DEF IInv, TypeOK
      <3> QED
        BY <3>1, NextIndexType DEF EncodeFrame
    <2>2. \A k \in DOMAIN lSb' : lSb'[k] \in 0 .. 255 + frame'.size
      <3>1. PICK M : M = 0 .. 255 + f.size
        OBVIOUS
      <3>2. lSb' \in Seq(M)
        BY <1>6, <3>1
      <3>3. DOMAIN lSb' = 1 .. Len(lSb') /\ \A k \in 1 .. Len(lSb') : lSb'[k] \in M
        BY <3>2, LenProperties, ElementOfSeq
      <3> QED
        BY <1>1, <3>1, <3>3
    <2>3. pos' \in 0 .. frame'.size
      BY <1>1, <1>3
    <2> QED
      BY <1>1, <1>6, <2>1, <2>2, <2>3 DEF TypeOK, IInv
  <1>8. PhaseInv'
    BY <1>1 DEF PhaseInv
  <1>9. BufferInv'
    <2>1. n \in 0 .. Len(lSb')
      BY <1>6, WholeWithin
    <2> QED
      BY <1>1, <1>6, <2>1 DEF BufferInv
  <1>10. CountersInv'
    <2>1. Len(lSb') \div PacketSize = n
      BY <1>6, WholeCount
    <2>2. ASSUME NEW key \in {0} \cup Types, NEW pid \in Pids,
                 CountedBy(key, pid)
          PROVE  Counted(lSb', n, seen', mPidCcMap', key, pid)
      <3>1. Counted(<<>>, 0, seen, mPidCcMap, key, pid)
        BY <1>1, <1>4, <2>2 DEF IInv, CountersInv
      <3> QED
        BY <1>1, <1>6, <2>2, <3>1
    <2> QED
      BY <2>1, <2>2 DEF CountersInv
  <1> QED
    BY <1>7, <1>8, <1>9, <1>10 DEF IInv

LEMMA createPesInv ==
  ASSUME IInv, createPes
  PROVE  IInv'
  <1>1. /\ pc = "createPes" /\ op = "encode" /\ frame \in Frames /\ pos < frame.size
        /\ UNCHANGED <<mMuxType, lCurrentIndex, pc, op, frame, lRandomAccess, seen>>
    BY DEF createPes, IInv, PhaseInv
  <1>2. PICK key, p : /\ key = frame.mStreamType
                      /\ p = PesPacket(frame, pos, NextCc(mPidCcMap, key))
                      /\ mPidCcMap' = getCc(mPidCcMap, key) /\ lSb' = lSb \o p
                      /\ pos' = pos + Taken(frame, pos)
    BY DEF createPes
  <1>3. /\ DOMAIN mPidCcMap \subseteq {0} \cup Types
        /\ \A k \in DOMAIN mPidCcMap : mPidCcMap[k] \in 0 .. CcModulus - 1
    BY DEF IInv, TypeOK
  <1>4. pos \in Nat /\ frame.size \in Nat
    BY <1>1, FrameTypes DEF IInv, TypeOK
  <1>5. PICK n : n = Len(lSb) \div PacketSize /\ Whole(lSb, n) /\ n \in Nat
    BY <1>1, CountPackets
  <1>6. /\ Whole(lSb', n + 1) /\ lSb' \in Seq(0 .. 255 + frame.size)
        /\ \A k, pid : CountedBy(k, pid) /\ Counted(lSb, n, seen, mPidCcMap, k, pid) =>
                         Counted(lSb', n + 1, seen, mPidCcMap', k, pid)
    <2>1. lSb \in Seq(0 .. 255 + frame.size)
      BY DEF IInv, BufferInv
    <2> QED
      BY <1>1, <1>2, <1>3, <1>4, <1>5, <2>1, PesCounted
  <1>7. TypeOK'
    <2>1. /\ DOMAIN mPidCcMap' \subseteq {0} \cup Types
          /\ \A k \in DOMAIN mPidCcMap' : mPidCcMap'[k] \in 0 .. CcModulus - 1
      <3>1. PICK D : D = {0} \cup Types
        OBVIOUS
      <3>2. DOMAIN mPidCcMap \subseteq D /\ key \in D
        BY <1>1, <1>2, <1>3, <3>1, FrameTypes
      <3> QED
        BY <1>2, <1>3, <3>1, <3>2, NextCcType
    <2>2. \A k \in DOMAIN lSb' : lSb'[k] \in 0 .. 255 + frame'.size
      <3>1. PICK M : M = 0 .. 255 + frame.size
        OBVIOUS
      <3>2. lSb' \in Seq(M)
        BY <1>6, <3>1
      <3>3. DOMAIN lSb' = 1 .. Len(lSb') /\ \A k \in 1 .. Len(lSb') : lSb'[k] \in M
        BY <3>2, LenProperties, ElementOfSeq
      <3> QED
        BY <1>1, <3>1, <3>3
    <2>3. pos' \in 0 .. frame'.size
      <3>1. PICK t \in Nat : t = Taken(frame, pos) /\ pos + t <= frame.size
        BY <1>1, <1>4, TakenType
      <3> QED
        BY <1>1, <1>2, <1>4, <3>1
    <2> QED
      BY <1>1, <2>1, <2>2, <2>3 DEF TypeOK, IInv
  <1>8. PhaseInv'
    BY <1>1 DEF PhaseInv
  <1>9. BufferInv'
    <2>1. n + 1 \in 0 .. Len(lSb')
      BY <1>6, WholeWithin
    <2> QED
      BY <1>1, <1>6, <2>1 DEF BufferInv
  <1>10. CountersInv'
    <2>1. Len(lSb') \div PacketSize = n + 1
      BY <1>6, WholeCount
    <2>2. ASSUME NEW k \in {0} \cup Types, NEW pid \in Pids, CountedBy(k, pid)
          PROVE  Counted(lSb', n + 1, seen', mPidCcMap', k, pid)
      <3>1. Counted(lSb, n, seen, mPidCcMap, k, pid)
        BY <1>5, <2>2 DEF IInv, CountersInv
      <3> QED
        BY <1>1, <1>6, <2>2, <3>1
    <2> QED
      BY <2>1, <2>2 DEF CountersInv
  <1> QED
    BY <1>7, <1>8, <1>9, <1>10 DEF IInv

LEMMA PesDoneInv ==
  ASSUME IInv, PesDone
  PROVE  IInv'
  <1>1. /\ pc = "createPes" /\ pc' = "callback" /\ op = "encode" /\ op' = "encode"
        /\ UNCHANGED <<mMuxType, mPidCcMap, lCurrentIndex, frame, pos,
                       lRandomAccess, lSb, seen>>
    BY DEF PesDone, IInv, PhaseInv
  <1>2. TypeOK'
    BY <1>1 DEF IInv, TypeOK
  <1>3. PhaseInv'
    BY <1>1 DEF IInv, PhaseInv
  <1>4. BufferInv' /\ CountersInv'
    BY <1>1 DEF IInv, BufferInv, CountersInv
  <1> QED
    BY <1>2, <1>3, <1>4 DEF IInv

LEMMA createPcrInv ==
  ASSUME IInv, createPcr
  PROVE  IInv'
  <1>1. PICK lPcr \in Pcrs : Sends("createPcr", PcrPacket(lPcr))
    BY DEF createPcr
  <1>2. PICK p : p = PcrPacket(lPcr)
    OBVIOUS
  <1>3. /\ pc = "idle" /\ lSb = <<>> /\ pos = 0 /\ frame = NoFrame
        /\ pc' = "callback" /\ op' = "createPcr" /\ lSb' = p
        /\ UNCHANGED <<mMuxType, mPidCcMap, lCurrentIndex, frame, pos, lRandomAccess, seen>>
    BY <1>1, <1>2 DEF Sends, IInv, PhaseInv
  <1>4. IsPacket(p, 0, PcrPid, 2, 0, PcrField(lPcr), <<>>)
    <2>1. lPcr \in Stamps
      BY FrameAssumption
    <2> QED
      BY <1>2, <2>1, PcrParts
  <1>5. Sound(p) /\ \A q : Without(p, q)
    BY <1>4, PacketSound
  <1>6. Whole(p, 1) /\ Grown(p, <<>>, 0, p)
    <2>1. Whole(<<>> \o p, 0 + 1) /\ Grown(<<>> \o p, <<>>, 0, p)
      BY <1>5, WholeEmpty, WholeAppended
    <2>2. <<>> \o p = p
      BY <1>5, ConcatEmptySeq DEF Sound
    <2> QED
      BY <2>1, <2>2
  <1>7. NoFrame.size = 0 /\ 255 \in Nat /\ 255 >= 255 /\ 255 + 0 = 255
    BY DEF NoFrame
  <1>8. lSb' \in Seq(0 .. 255 + frame'.size)
    <2>1. PICK m \in Nat : m = 255 /\ m >= 255
      BY <1>7
    <2>2. PICK y, e, c, a, b : /\ y = 0 /\ e = 2 /\ c = 0
                               /\ a = PcrField(lPcr) /\ b = <<>>
      OBVIOUS
    <2>3. p \in Seq(0 .. m)
      <3>1. <<>> \in Seq(0 .. m)
        BY EmptySeq
      <3>2. IsPacket(p, y, PcrPid, e, c, a, b) /\ b \in Seq(0 .. m)
        BY <1>4, <2>2, <3>1
      <3>3. m >= 255
        BY <2>1
      <3> QED
        BY <3>2, <3>3, PacketBounded
    <2> QED
      BY <1>3, <1>7, <2>1, <2>3
  <1>9. TypeOK'
    <2>1. \A k \in DOMAIN lSb' : lSb'[k] \in 0 .. 255 + frame'.size
      <3>1. PICK M : M = 0 .. 255 + frame'.size
        OBVIOUS
      <3>2. lSb' \in Seq(M)
        BY <1>8, <3>1
      <3>3. DOMAIN lSb' = 1 .. Len(lSb') /\ \A k \in 1 .. Len(lSb') : lSb'[k] \in M
        BY <3>2, LenProperties, ElementOfSeq
      <3> QED
        BY <3>1, <3>3
    <2> QED
      BY <1>3, <2>1 DEF TypeOK, IInv
  <1>10. PhaseInv'
    BY <1>3 DEF PhaseInv
  <1>11. BufferInv'
    <2>1. 1 \in 0 .. Len(lSb')
      BY <1>3, <1>6, WholeWithin
    <2> QED
      BY <1>3, <1>6, <1>8, <2>1 DEF BufferInv
  <1>12. CountersInv'
    <2>1. Len(lSb') \div PacketSize = 1 /\ Len(lSb) \div PacketSize = 0
      BY <1>3, <1>6, WholeEmpty, WholeCount
    <2>2. ASSUME NEW key \in {0} \cup Types, NEW pid \in Pids,
                 CountedBy(key, pid)
          PROVE  Counted(lSb', 1, seen', mPidCcMap', key, pid)
      <3>1. Counted(<<>>, 0, seen, mPidCcMap, key, pid)
        BY <1>3, <2>1, <2>2 DEF IInv, CountersInv
      <3>2. Without(p, pid) /\ 0 \in Nat
        BY <1>5
      <3>3. Counted(p, 0 + 1, seen, mPidCcMap, key, pid)
        BY <1>6, <3>1, <3>2, CountedOther
      <3>4. 0 + 1 = 1
        OBVIOUS
      <3> QED
        BY <1>3, <3>3, <3>4
    <2> QED
      BY <2>1, <2>2 DEF CountersInv
  <1> QED
    BY <1>9, <1>10, <1>11, <1>12 DEF IInv

LEMMA createNullInv ==
  ASSUME IInv, createNull
  PROVE  IInv'
  <1>1. PICK p : p = NullPacket /\ Bytes(p, 4)
    BY NullBytes
  <1>2. /\ pc = "idle" /\ lSb = <<>> /\ pos = 0 /\ frame = NoFrame
        /\ pc' = "callback" /\ op' = "createNull" /\ lSb' = p
        /\ UNCHANGED <<mMuxType, mPidCcMap, lCurrentIndex, frame, pos, lRandomAccess, seen>>
    BY <1>1 DEF createNull, Sends, IInv, PhaseInv
  <1>3. lSb' \in Seq(0 .. 255 + frame'.size) /\ Len(lSb') = 4
    <2>1. 255 + frame'.size = 255
      BY <1>2 DEF NoFrame
    <2> QED
      BY <1>1, <1>2, <2>1 DEF Bytes, Byte
  <1>4. TypeOK'
    <2>1. \A k \in DOMAIN lSb' : lSb'[k] \in 0 .. 255 + frame'.size
      <3>1. PICK M : M = 0 .. 255 + frame'.size
        OBVIOUS
      <3>2. lSb' \in Seq(M)
        BY <1>3, <3>1
      <3>3. DOMAIN lSb' = 1 .. Len(lSb') /\ \A k \in 1 .. Len(lSb') : lSb'[k] \in M
        BY <3>2, LenProperties, ElementOfSeq
      <3> QED
        BY <3>1, <3>3
    <2> QED
      BY <1>2, <2>1 DEF TypeOK, IInv
  <1>5. PhaseInv'
    BY <1>2 DEF PhaseInv
  <1>6. BufferInv'
    BY <1>2, <1>3 DEF BufferInv
  <1>7. CountersInv'
    <2>1. Len(lSb') \div PacketSize = 0
      <3>1. PICK m \in Nat : m = PacketSize /\ 4 < m
        BY Sizes
      <3>2. 4 \div m = 0
        BY <3>1
      <3> QED
        BY <1>3, <3>1, <3>2
    <2>2. Len(lSb) \div PacketSize = 0
      BY <1>2, WholeEmpty, WholeCount
    <2>3. ASSUME NEW key \in {0} \cup Types, NEW pid \in Pids,
                 CountedBy(key, pid)
          PROVE  Counted(lSb', 0, seen', mPidCcMap', key, pid)
      <3>1. Counted(lSb, 0, seen, mPidCcMap, key, pid)
        BY <2>2, <2>3 DEF IInv, CountersInv
      <3> QED
        BY <1>2, <3>1, CountedEmpty
    <2> QED
      BY <2>1, <2>3 DEF CountersInv
  <1> QED
    BY <1>4, <1>5, <1>6, <1>7 DEF IInv

LEMMA OtherMuxerInv ==
  ASSUME IInv, OtherMuxer
  PROVE  IInv'
  <1>1. /\ lCurrentIndex' = NextIndex
        /\ UNCHANGED <<mMuxType, mPidCcMap, pc, op, frame, pos, lRandomAccess, lSb, seen>>
    BY DEF OtherMuxer
  <1>2. lCurrentIndex' \in 0 .. PatInterval
    BY <1>1, NextIndexType DEF IInv, TypeOK
  <1>3. TypeOK'
    BY <1>1, <1>2 DEF IInv, TypeOK
  <1>4. PhaseInv' /\ BufferInv' /\ CountersInv'
    BY <1>1 DEF IInv, PhaseInv, BufferInv, CountersInv
  <1> QED
    BY <1>3, <1>4 DEF IInv

\* What the receiver has, in terms of the buffer.
LEMMA SeenPackets ==
  ASSUME NEW pid
  PROVE  /\ Of(pid) = OfIn(lSb, Len(lSb) \div PacketSize, pid)
         /\ \A k : Header(k).mContinuityCounter = CcIn(lSb, k)
  BY DEF Of, Packets, HasPayload, Header, Packet, OfIn, PayloadIn, HeaderOf, PacketIn, CcIn

LEMMA GreatestIs ==
  ASSUME NEW n \in Nat, NEW T, T \subseteq 1 .. n, T # {}
  PROVE  Max(T) \in T /\ \A y \in T : y <= Max(T)
  <1>1. PICK x \in T : \A y \in T : x >= y
    BY GreatestElement
  <1>2. Max(T) \in T /\ \A y \in T : Max(T) >= y
    BY <1>1 DEF Max
  <1> QED
    BY <1>2

LEMMA CallbackInv ==
  ASSUME IInv, CallbackReturns
  PROVE  IInv'
  <1>1. /\ pc' = "idle" /\ op' = "none" /\ frame' = NoFrame /\ pos' = 0
        /\ lRandomAccess' = FALSE /\ lSb' = <<>>
        /\ UNCHANGED <<mMuxType, mPidCcMap, lCurrentIndex>>
        /\ seen' = [pid \in DOMAIN seen \cup {p \in Pids : Of(p) # {}} |->
                      LastCounter(pid, Of(pid))]
    BY DEF CallbackReturns
  <1>2. PICK n : n = Len(lSb) \div PacketSize /\ n \in Nat
    BY CountPackets
  <1>3. DOMAIN mPidCcMap \subseteq {0} \cup Types
        /\ \A k \in DOMAIN mPidCcMap : mPidCcMap[k] \in 0 .. CcModulus - 1
    BY DEF IInv, TypeOK
  <1>4. ASSUME NEW key \in {0} \cup Types, NEW pid \in Pids,
               CountedBy(key, pid)
        PROVE  /\ key \in DOMAIN mPidCcMap <=> pid \in DOMAIN seen'
               /\ pid \in DOMAIN seen' => mPidCcMap[key] = seen'[pid]
    <2>1. PICK O : O = Of(pid) /\ O = OfIn(lSb, n, pid) /\ O \subseteq 1 .. n
      BY <1>2, SeenPackets DEF OfIn
    <2>2. Counted(lSb, n, seen, mPidCcMap, key, pid)
      BY <1>2, <1>4 DEF IInv, CountersInv
    <2>3. /\ key \in DOMAIN mPidCcMap <=> pid \in DOMAIN seen \/ O # {}
          /\ O = {} /\ pid \in DOMAIN seen => mPidCcMap[key] = seen[pid]
          /\ \A k \in O : (\A j \in O : j <= k) => CcIn(lSb, k) = mPidCcMap[key]
      BY <2>1, <2>2 DEF Counted
    <2>4. pid \in DOMAIN seen' <=> pid \in DOMAIN seen \/ O # {}
      BY <1>1, <2>1
    <2>5. ASSUME pid \in DOMAIN seen' PROVE mPidCcMap[key] = seen'[pid]
      <3>1. seen'[pid] = LastCounter(pid, O)
        BY <1>1, <2>1, <2>5
      <3>2. CASE O = {}
        BY <2>3, <2>4, <2>5, <3>1, <3>2 DEF LastCounter
      <3>3. CASE O # {}
        <4>1. PICK x : x = Max(O) /\ x \in O /\ \A j \in O : j <= x
          BY <1>2, <2>1, <3>3, GreatestIs
        <4>2. CcIn(lSb, x) = mPidCcMap[key]
          BY <2>3, <4>1
        <4>3. Header(x).mContinuityCounter = CcIn(lSb, x)
          BY SeenPackets
        <4> QED
          BY <3>1, <3>3, <4>1, <4>2, <4>3 DEF LastCounter
      <3> QED
        BY <3>2, <3>3
    <2> QED
      BY <2>3, <2>4, <2>5
  <1>5. ASSUME NEW pid \in DOMAIN seen' PROVE seen'[pid] \in 0 .. CcModulus - 1
    <2>1. PICK O : O = Of(pid) /\ O = OfIn(lSb, n, pid) /\ O \subseteq 1 .. n
      BY <1>2, SeenPackets DEF OfIn
    <2>2. seen'[pid] = LastCounter(pid, O) /\ (pid \in DOMAIN seen \/ O # {})
      BY <1>1, <1>5, <2>1
    <2>3. CASE O = {}
      <3>1. seen[pid] \in 0 .. CcModulus - 1
        BY <2>2, <2>3 DEF IInv, TypeOK
      <3> QED
        BY <2>2, <2>3, <3>1 DEF LastCounter
    <2>4. CASE O # {}
      <3>1. PICK x : x = Max(O) /\ x \in O
        BY <1>2, <2>1, <2>4, GreatestIs
      <3>2. op # "createNull" /\ x \in 1 .. n
        BY <1>2, <2>1, <3>1, CountPackets
      <3>3. Sound(PacketIn(lSb, x))
        BY <1>2, <3>2, CountPackets DEF Whole
      <3>4. Header(x).mContinuityCounter \in 0 .. CcModulus - 1
        BY <3>3, SeenPackets DEF Sound, CcIn
      <3> QED
        BY <2>2, <2>4, <3>1, <3>4 DEF LastCounter
    <2> QED
      BY <2>3, <2>4
  <1>6. TypeOK'
    <2>1. DOMAIN seen' \subseteq Pids
      <3>1. DOMAIN seen \subseteq Pids
        BY DEF IInv, TypeOK
      <3> QED
        BY <1>1, <3>1
    <2>2. \A pid \in DOMAIN seen' : seen'[pid] \in 0 .. CcModulus - 1
      BY <1>5
    <2>3. DOMAIN lSb' = {} /\ pos' \in 0 .. frame'.size
      BY <1>1 DEF NoFrame
    <2>4. DOMAIN seen' \subseteq Pids /\ \A pid \in DOMAIN seen' : seen'[pid] \in 0 .. CcModulus - 1
      BY <2>1, <2>2
    <2>5. \A k \in DOMAIN lSb' : lSb'[k] \in 0 .. 255 + frame'.size
      BY <2>3
    <2> QED
      BY <1>1, <2>3, <2>4, <2>5 DEF TypeOK, IInv
  <1>7. PhaseInv'
    BY <1>1 DEF PhaseInv
  <1>8. BufferInv'
    <2>1. lSb' \in Seq(0 .. 255 + frame'.size)
      BY <1>1, EmptySeq
    <2>2. 0 \in 0 .. Len(lSb') /\ Whole(lSb', 0)
      BY <1>1, WholeEmpty, EmptySeq
    <2> QED
      BY <1>1, <2>1, <2>2 DEF BufferInv
  <1>9. CountersInv'
    <2>1. Len(lSb') \div PacketSize = 0
      BY <1>1, WholeEmpty, WholeCount
    <2>2. ASSUME NEW key \in {0} \cup Types, NEW pid \in Pids,
                 CountedBy(key, pid)
          PROVE  Counted(lSb', 0, seen', mPidCcMap', key, pid)
      <3>1. /\ key \in DOMAIN mPidCcMap <=> pid \in DOMAIN seen'
            /\ pid \in DOMAIN seen' => mPidCcMap[key] = seen'[pid]
        BY <1>4, <2>2
      <3>2. mPidCcMap' = mPidCcMap
        BY <1>1
      <3>3. PICK s, b, m : s = lSb' /\ b = seen' /\ m = mPidCcMap'
        OBVIOUS
      <3>4. Counted(s, 0, b, m, key, pid)
        BY <3>1, <3>2, <3>3, CountedEmpty
      <3> QED
        BY <3>3, <3>4
    <2> QED
      BY <2>1, <2>2 DEF CountersInv
  <1> QED
    BY <1>6, <1>7, <1>8, <1>9 DEF IInv

LEMMA Invariance ==
  Spec => []IInv
  <1>1. Init => IInv
    BY InitInv
  <1>2. IInv /\ [Next]_vars => IInv'
    <2> SUFFICES ASSUME IInv, [Next]_vars PROVE IInv'
      OBVIOUS
    <2>1. ASSUME NEW f \in Frames, NEW randomAccess \in BOOLEAN, EncodeFrame(f, randomAccess)
          PROVE  IInv'
      BY <2>1, EncodeFrameInv
    <2>2. CASE createPes
      BY <2>2, createPesInv
    <2>3. CASE PesDone
      BY <2>3, PesDoneInv
    <2>4. CASE createPcr
      BY <2>4, createPcrInv
    <2>5. CASE createNull
      BY <2>5, createNullInv
    <2>6. CASE OtherMuxer
      BY <2>6, OtherMuxerInv
    <2>7. CASE CallbackReturns
      BY <2>7, CallbackInv
    <2>8. CASE UNCHANGED vars
      <3>1. TypeOK'
        BY <2>8 DEF vars, IInv, TypeOK
      <3>2. PhaseInv' /\ BufferInv' /\ CountersInv'
        BY <2>8 DEF vars, IInv, PhaseInv, BufferInv, CountersInv
      <3> QED
        BY <3>1, <3>2 DEF IInv
    <2> QED
      BY <2>1, <2>2, <2>3, <2>4, <2>5, <2>6, <2>7, <2>8 DEF Next
  <1> QED
    BY <1>1, <1>2, PTL DEF Spec

\* Every variable of the muxer has the values its type allows: a counter stays
\* below its modulus (getCc, mpegts_muxer.cpp), the position stays within the
\* frame, and what is written to the buffer are bytes.
THEOREM TypeCorrect ==
  Spec => []TypeOK
  <1>1. IInv => TypeOK
    BY DEF IInv
  <1> QED
    BY <1>1, Invariance, PTL

\* The buffer that goes to tsOutCallback can be cut into packets of one size, for
\* every packet size, stream and frame: the stuffing of createPes and of
\* createPcr leaves no byte missing or over.
THEOREM PacketsAreWhole ==
  Spec => []WholePackets
  <1>1. ASSUME IInv, op # "createNull"
        PROVE  /\ Len(lSb) % PacketSize = 0
               /\ \A k \in Packets :
                    /\ Header(k).mSyncByte = 71
                    /\ HasAdaptation(k) =>
                         IF HasPayload(k) THEN 5 + Packet(k)[5] < PacketSize
                         ELSE 5 + Packet(k)[5] = PacketSize
    <2>1. PICK n : n = Len(lSb) \div PacketSize /\ Whole(lSb, n)
      BY <1>1, CountPackets
    <2>2. Len(lSb) % PacketSize = 0
      BY <2>1, WholeCount
    <2>3. ASSUME NEW k \in Packets
          PROVE  /\ Header(k).mSyncByte = 71
                 /\ HasAdaptation(k) =>
                      IF HasPayload(k) THEN 5 + Packet(k)[5] < PacketSize
                      ELSE 5 + Packet(k)[5] = PacketSize
      <3>1. Sound(PacketIn(lSb, k))
        BY <2>1, <2>3 DEF Whole, Packets
      <3>2. Packet(k) = PacketIn(lSb, k) /\ Header(k) = HeaderOf(PacketIn(lSb, k))
        BY DEF Packet, PacketIn, Header, HeaderOf
      <3> QED
        BY <3>1, <3>2 DEF Sound, HasAdaptation, HasPayload, AdaptationIn, PayloadIn
    <2> QED
      BY <2>2, <2>3
  <1>2. IInv => WholePackets
    BY <1>1 DEF WholePackets
  <1> QED
    BY <1>2, Invariance, PTL

\* Of every PID with a type of stream of its own, and of the tables if no frame has
\* type 0, the receiver sees the continuity counter go up by one with each packet
\* that has a payload, over all operations and whatever the frames of the other
\* PIDs are: what getCc counts by type of stream is what these PIDs need.
THEOREM CountersContinuous ==
  Spec => []Continuity
  <1>1. ASSUME IInv, NEW pid \in Pids, CountedAlone(pid), NEW k \in Of(pid),
               {j \in Of(pid) : j < k} # {} \/ pid \in DOMAIN seen
        PROVE  Header(k).mContinuityCounter
                 = (LastCounter(pid, {j \in Of(pid) : j < k}) + 1) % CcModulus
    <2>1. PICK n : n = Len(lSb) \div PacketSize /\ n \in Nat
      BY <1>1, CountPackets
    <2>2. PICK O, B : /\ O = Of(pid) /\ O = OfIn(lSb, n, pid) /\ O \subseteq 1 .. n
                      /\ B = {j \in O : j < k}
      BY <2>1, SeenPackets DEF OfIn
    <2>3. PICK key \in {0} \cup Types : CountedBy(key, pid)
      BY <1>1, AloneIsCounted
    <2>4. Counted(lSb, n, seen, mPidCcMap, key, pid)
      BY <1>1, <2>1, <2>3 DEF IInv, CountersInv
    <2>5. /\ \A i \in O : (\A j \in O : i <= j) /\ pid \in DOMAIN seen =>
                            Succeeds(CcIn(lSb, i), seen[pid])
          /\ \A j, i \in O :
               j < i /\ (\A l \in O : l <= j \/ i <= l) =>
                 Succeeds(CcIn(lSb, i), CcIn(lSb, j))
      BY <2>2, <2>4 DEF Counted
    <2>6. k \in O /\ \A i \in O : i \in Nat
      BY <1>1, <2>2
    <2>7. CASE B = {}
      <3>1. \A j \in O : k <= j
        BY <2>2, <2>6, <2>7
      <3>2. Succeeds(CcIn(lSb, k), seen[pid])
        BY <1>1, <2>2, <2>5, <2>6, <2>7, <3>1
      <3> QED
        BY <2>2, <2>7, <3>2, SeenPackets DEF LastCounter, Succeeds
    <2>8. CASE B # {}
      <3>1. PICK x : x = Max(B) /\ x \in B /\ \A j \in B : j <= x
        <4>1. B \subseteq 1 .. n
          BY <2>2
        <4> QED
          BY <2>1, <2>8, <4>1, GreatestIs
      <3>2. x \in O /\ x < k /\ \A l \in O : l <= x \/ k <= l
        BY <2>2, <2>6, <3>1
      <3>3. Succeeds(CcIn(lSb, k), CcIn(lSb, x))
        BY <2>5, <2>6, <3>2
      <3>4. /\ Header(k).mContinuityCounter = CcIn(lSb, k)
            /\ Header(x).mContinuityCounter = CcIn(lSb, x)
        BY SeenPackets
      <3> QED
        BY <2>2, <2>8, <3>1, <3>3, <3>4 DEF LastCounter, Succeeds
    <2> QED
      BY <2>7, <2>8
  <1>2. IInv => Continuity
    BY <1>1 DEF Continuity, CountsOn
  <1> QED
    BY <1>2, Invariance, PTL

-----------------------------------------------------------------------------
(* What a receiver makes of the tables.                                     *)

\* The section in a payload, as SectionIn finds it.
SectionOf(payload) ==
  SubSeq(payload, 2 + payload[1],
         4 + payload[1] + DecodePATHeader(SubSeq(payload, 2, 9)).mSectionLength)

LEMMA SectionRead ==
  ASSUME NEW n, NEW s, Bytes(s, n), n >= 8, n + 9 <= PacketSize,
         DecodePATHeader(SubSeq(s, 1, 8)).mSectionLength = n + 1
  PROVE  SectionOf(SectionPayload(s)) = s \o crc32(s)
  <1>1. PICK e, c, x : /\ e = Pointer /\ c = crc32(s)
                       /\ x = Filled(PacketSize - (4 + 1 + Len(s) + 4), 255)
    OBVIOUS
  <1>2. s \in Seq(Byte) /\ Len(s) = n /\ n \in Nat
    BY LenProperties DEF Bytes
  <1>3. e \in Seq(Byte) /\ Len(e) = 1 /\ e[1] = 0 /\ c \in Seq(Byte) /\ Len(c) = 4
    <2>1. Bytes(e, 1) /\ e[1] = 0 /\ Bytes(c, 4)
      BY <1>1, PointerBytes, CrcWritten
    <2> QED
      BY <2>1 DEF Bytes
  <1>4. x \in Seq(Byte)
    <2>1. PICK m \in Nat : m = PacketSize - (4 + 1 + n + 4)
      BY <1>2, Sizes
    <2>2. Bytes(Filled(m, 255), m)
      BY BytesFilled
    <2> QED
      BY <1>1, <1>2, <2>1, <2>2 DEF Bytes
  <1>5. PICK f, r, p : f = s \o c /\ r = f \o x /\ p = SectionPayload(s)
    OBVIOUS
  <1>6. f \in Seq(Byte) /\ Len(f) = n + 4 /\ r \in Seq(Byte)
    <2>1. f \in Seq(Byte) /\ Len(f) = Len(s) + Len(c)
      BY <1>2, <1>3, <1>5, ConcatParts
    <2>2. r \in Seq(Byte)
      BY <1>4, <1>5, <2>1, ConcatParts
    <2> QED
      BY <1>2, <1>3, <2>1, <2>2
  <1>7. p = e \o r
    <2>1. Regroups(e, s, c) /\ Regroups(e, f, x)
      BY <1>2, <1>3, <1>4, <1>6, ConcatRegroups
    <2>2. p = ((e \o s) \o c) \o x
      BY <1>1, <1>5 DEF SectionPayload
    <2> QED
      BY <1>5, <2>1, <2>2 DEF Regroups
  <1>8. p[1] = 0
    <2>1. (e \o r)[1] = e[1]
      BY <1>3, <1>6, ConcatParts
    <2> QED
      BY <1>3, <1>7, <2>1
  <1>9. Len(r) = n + 4 + Len(x) /\ Len(x) \in Nat
    <2>1. Len(f \o x) = Len(f) + Len(x)
      BY <1>4, <1>6, ConcatParts
    <2> QED
      BY <1>4, <1>5, <1>6, <2>1, LenProperties
  <1>10. SubSeq(p, 2, 9) = SubSeq(s, 1, 8)
    <2>1. PICK j, k \in Nat : j = 1 /\ k = 8
      OBVIOUS
    <2>2. j \in Nat \ {0} /\ j <= k + 1 /\ k <= Len(r) /\ k <= Len(f) /\ k <= Len(s)
      BY <1>2, <1>6, <1>9, <2>1
    <2>3. SubSeq(e \o r, Len(e) + j, Len(e) + k) = SubSeq(r, j, k)
      BY <1>3, <1>6, <2>2, SliceRight
    <2>4. SubSeq(f \o x, j, k) = SubSeq(f, j, k)
      BY <1>4, <1>6, <2>2, SliceLeft
    <2>5. SubSeq(s \o c, j, k) = SubSeq(s, j, k)
      BY <1>2, <1>3, <2>2, SliceLeft
    <2>6. Len(e) + j = 2 /\ Len(e) + k = 9
      BY <1>3, <2>1
    <2> QED
      BY <1>5, <1>7, <2>1, <2>3, <2>4, <2>5, <2>6
  <1>11. SubSeq(p, 2, n + 5) = f
    <2>1. PICK j, k \in Nat : j = 1 /\ k = n + 4
      BY <1>2
    <2>2. j \in Nat \ {0} /\ j <= k + 1 /\ k <= Len(r)
      BY <1>2, <1>9, <2>1
    <2>3. SubSeq(e \o r, Len(e) + j, Len(e) + k) = SubSeq(r, j, k)
      BY <1>3, <1>6, <2>2, SliceRight
    <2>4. Meet(f \o x, k, k + Len(x), f, x)
      BY <1>4, <1>6, <2>1, CutConcat
    <2>5. SubSeq(r, 1, k) = f
      BY <1>5, <2>4 DEF Meet
    <2>6. Len(e) + j = 2 /\ Len(e) + k = n + 5
      BY <1>2, <1>3, <2>1
    <2> QED
      BY <1>7, <2>1, <2>3, <2>5, <2>6
  <1>12. PICK l : l = DecodePATHeader(SubSeq(p, 2, 9)).mSectionLength
    OBVIOUS
  <1>13. 2 + p[1] = 2 /\ 4 + p[1] + l = n + 5
    <2>1. l = n + 1
      BY <1>10, <1>12
    <2> QED
      BY <1>2, <1>8, <2>1
  <1> QED
    BY <1>1, <1>5, <1>11, <1>12, <1>13 DEF SectionOf

\* The two parts of the section of the PAT.
PatHeaderOf ==
  [Zero(PATHeader) EXCEPT !.mSectionSyntaxIndicator = 1,
     !.mReserved0 = 3, !.mSectionLength = 4 + 4 + 5,
     !.mReserved1 = 3, !.mCurrentNextIndicator = 1]

PatProgram == Octets(Bits(1, 16) \o Filled(3, 1) \o Bits(PmtPid, 13))

LEMMA PatReadable ==
  /\ Readable(PATHeader, 11, 8, PatHeaderOf)
  /\ PatHeaderOf.mTableId = 0 /\ PatHeaderOf.mSectionLength = 13
  <1>1. PICK z : z = PatHeaderOf
    OBVIOUS
  <1>2. z = [name \in Names(PATHeader) |->
               CASE name = "mSectionSyntaxIndicator" -> 1
                 [] name = "mReserved0" -> 3
                 [] name = "mSectionLength" -> 4 + 4 + 5
                 [] name = "mReserved1" -> 3
                 [] name = "mCurrentNextIndicator" -> 1
                 [] OTHER -> 0]
    BY <1>1, PatNames DEF Zero, PatHeaderOf
  <1>3. /\ z.mTableId = 0 /\ z.mSectionSyntaxIndicator = 1 /\ z.mB0 = 0
        /\ z.mReserved0 = 3 /\ z.mSectionLength = 4 + 4 + 5 /\ z.mTransportStreamId = 0
        /\ z.mReserved1 = 3 /\ z.mVersionNumber = 0 /\ z.mCurrentNextIndicator = 1
        /\ z.mSectionNumber = 0 /\ z.mLastSectionNumber = 0
    BY <1>2, PatNames
  <1>4. z.mSectionLength = 13
    <2>1. z.mSectionLength = 4 + 4 + 5
      BY <1>3
    <2> QED
      BY <2>1
  <1>5. Fits(13, 12)
    <2>1. 13 \in Nat /\ 12 \in 0 .. 24 /\ 13 < Power[12]
      BY PowerValues
    <2> QED
      BY <2>1, FitsBelow
  <1>6. ASSUME NEW k \in 1 .. 11 PROVE Fits(z[PATHeader[k][1]], PATHeader[k][2])
    BY <1>3, <1>4, <1>5, FitsSmall, PatNames
  <1>7. Readable(PATHeader, 11, 8, z)
    BY <1>6, PATHeaderLayout DEF Readable
  <1> QED
    BY <1>1, <1>3, <1>4, <1>7

\* What a receiver makes of the section of the PAT.
LEMMA PatRead ==
  /\ DecodePATHeader(SubSeq(PatSection, 1, 8)).mTableId = 0
  /\ DecodePATHeader(SubSeq(PatSection, 1, 8)).mSectionLength = 12 + 1
  /\ Number(SubSeq(BitsOf(SubSeq(PatSection, 11, 12)), 4, 16)) = PmtPid
  <1>1. PICK h, z : z = PatHeaderOf /\ h = Encode(PATHeader, z)
    OBVIOUS
  <1>2. Bytes(h, 8) /\ Decode(PATHeader, h) = [name \in Names(PATHeader) |-> z[name]]
    <2>1. Readable(PATHeader, 11, 8, z)
      BY <1>1, PatReadable
    <2>2. Sized(PATHeader, 11, 8) /\ Values(PATHeader, 11, z)
      BY <2>1, ReadableHeader
    <2> QED
      BY <1>1, <2>1, <2>2, HeaderReadBack, EncodeType
  <1>3. PICK p, q, r, t : /\ p = Bits(1, 16) /\ q = Filled(3, 1) /\ r = Bits(PmtPid, 13)
                          /\ t = q \o r
    OBVIOUS
  <1>4. BitSeq(p, 16) /\ BitSeq(q, 3) /\ BitSeq(r, 13)
    BY <1>3, Streams, BitSeqBits, BitSeqFilled DEF Bit
  <1>5. BitSeq(t, 16)
    <2>1. BitSeq(t, 3 + 13)
      BY <1>3, <1>4, BitSeqConcat
    <2> QED
      BY <2>1
  <1>6. ByteBits(p, 2) /\ ByteBits(t, 2)
    BY <1>4, <1>5 DEF BitSeq, ByteBits
  <1>7. PICK x, y : x = Octets(p) /\ y = Octets(t)
    OBVIOUS
  <1>8. Bytes(x, 2) /\ Bytes(y, 2)
    BY <1>6, <1>7, OctetsType DEF Bytes
  <1>9. PatProgram = x \o y
    <2>1. Regroups(p, q, r)
      BY <1>4, ConcatRegroups DEF BitSeq
    <2>2. PatProgram = Octets((p \o q) \o r)
      BY <1>3 DEF PatProgram
    <2>3. PatProgram = Octets(p \o t)
      BY <1>3, <2>1, <2>2 DEF Regroups
    <2>4. Octets(p \o t) = Octets(p) \o Octets(t)
      BY <1>6, OctetsConcat
    <2> QED
      BY <1>7, <2>3, <2>4
  <1>10. PatSection = h \o (x \o y)
    <2>1. PatSection = h \o PatProgram
      BY <1>1 DEF PatSection, PatHeaderOf, PatProgram
    <2> QED
      BY <1>9, <2>1
  <1>11. Bytes(x \o y, 4)
    <2>1. Bytes(x \o y, 2 + 2)
      BY <1>8, BytesConcat
    <2> QED
      BY <2>1
  <1>12. SubSeq(PatSection, 1, 8) = h
    <2>1. PICK w : w = x \o y
      OBVIOUS
    <2>2. h \in Seq(Byte) /\ 8 = Len(h) /\ w \in Seq(Byte) /\ 12 = Len(h) + Len(w)
      BY <1>2, <1>11, <2>1 DEF Bytes
    <2>3. Meet(h \o w, 8, 12, h, w)
      BY <2>2, CutConcat
    <2> QED
      BY <1>10, <2>1, <2>3 DEF Meet
  <1>13. SubSeq(PatSection, 11, 12) = y
    <2>1. PICK w : w = x \o y
      OBVIOUS
    <2>2. h \in Seq(Byte) /\ Len(h) = 8 /\ w \in Seq(Byte) /\ Len(w) = 4
      BY <1>2, <1>11, <2>1 DEF Bytes
    <2>3. x \in Seq(Byte) /\ Len(x) = 2 /\ y \in Seq(Byte) /\ Len(y) = 2
      BY <1>8 DEF Bytes
    <2>4. PICK j, k \in Nat : j = 3 /\ k = 4
      OBVIOUS
    <2>5. j \in Nat \ {0} /\ j <= k + 1 /\ k <= Len(w)
      BY <2>2, <2>4
    <2>6. SubSeq(h \o w, Len(h) + j, Len(h) + k) = SubSeq(w, j, k)
      BY <2>2, <2>5, SliceRight
    <2>7. Meet(x \o y, 2, 4, x, y)
      <3>1. 2 = Len(x) /\ 4 = Len(x) + Len(y)
        BY <2>3
      <3> QED
        BY <2>3, <3>1, CutConcat
    <2>8. SubSeq(w, j, k) = y
      <3>1. j = 2 + 1
        BY <2>4
      <3> QED
        BY <2>1, <2>4, <2>7, <3>1 DEF Meet
    <2>9. Len(h) + j = 11 /\ Len(h) + k = 12
      BY <2>2, <2>4
    <2> QED
      BY <1>10, <2>1, <2>6, <2>8, <2>9
  <1>14. SubSeq(BitsOf(y), 4, 16) = r
    <2>1. BitsOf(y) = t
      BY <1>6, <1>7, BitsOfOctets
    <2>2. Meet(q \o r, 3, 16, q, r)
      <3>1. q \in Seq(Bit) /\ r \in Seq(Bit) /\ Len(q) = 3 /\ Len(r) = 13
        BY <1>4 DEF BitSeq
      <3>2. 3 = Len(q) /\ 16 = Len(q) + Len(r)
        BY <3>1
      <3> QED
        BY <3>1, <3>2, CutConcat
    <2>3. 3 + 1 = 4
      OBVIOUS
    <2> QED
      BY <1>3, <2>1, <2>2, <2>3 DEF Meet
  <1>15. Number(r) = PmtPid
    <2>1. Fits(PmtPid, 13)
      BY Streams, FitsPid
    <2> QED
      BY <1>3, <2>1, NumberOfBits
  <1>16. /\ DecodePATHeader(h).mTableId = 0
         /\ DecodePATHeader(h).mSectionLength = 13
    <2>1. PICK d : d = Decode(PATHeader, h)
      OBVIOUS
    <2>2. /\ DOMAIN d = Names(PATHeader)
          /\ d.mTableId = 0 /\ d.mSectionLength = 13
      BY <1>1, <1>2, <2>1, PatReadable, PatNames
    <2>3. DecodePATHeader(h) = [name \in DOMAIN d |-> IF name = "mReserved0" THEN 0 ELSE d[name]]
      BY <2>1 DEF DecodePATHeader, Unread
    <2> QED
      BY <2>2, <2>3, PatNames
  <1>17. 12 + 1 = 13
    OBVIOUS
  <1> QED
    BY <1>12, <1>13, <1>14, <1>15, <1>16, <1>17

LEMMA PmtReadable ==
  /\ Readable(PMTHeader, 15, 12, PmtHeaderOf)
  /\ PmtHeaderOf.mSectionLength = 5 * Cardinality(DOMAIN StreamPidMap) + 13
  /\ PmtHeaderOf.mPcrPid = PcrPid
  /\ PmtHeaderOf.mProgramInfoLength = 0
  <1>1. PICK n \in Nat, l \in Nat : n = Cardinality(DOMAIN StreamPidMap) /\ l = 5 * n + 13
    BY StreamCount
  <1>2. PICK z : z = PmtHeaderOf
    OBVIOUS
  <1>3. z = [name \in Names(PMTHeader) |->
               CASE name = "mTableId" -> 2
                 [] name = "mSectionSyntaxIndicator" -> 1
                 [] name = "mReserved0" -> 3
                 [] name = "mSectionLength" -> l
                 [] name = "mProgramNumber" -> 1
                 [] name = "mReserved1" -> 3
                 [] name = "mCurrentNextIndicator" -> 1
                 [] name = "mReserved2" -> 7
                 [] name = "mPcrPid" -> PcrPid
                 [] name = "mReserved3" -> 15
                 [] OTHER -> 0]
    BY <1>1, <1>2, PmtValues
  <1>4. /\ z.mTableId = 2 /\ z.mSectionSyntaxIndicator = 1 /\ z.mB0 = 0
        /\ z.mReserved0 = 3 /\ z.mSectionLength = l /\ z.mProgramNumber = 1
        /\ z.mReserved1 = 3 /\ z.mVersionNumber = 0 /\ z.mCurrentNextIndicator = 1
        /\ z.mSectionNumber = 0 /\ z.mLastSectionNumber = 0 /\ z.mReserved2 = 7
        /\ z.mPcrPid = PcrPid /\ z.mReserved3 = 15 /\ z.mProgramInfoLength = 0
    BY <1>3, PmtNames
  <1>5. Fits(l, 12)
    <2>1. 5 + 12 + 5 * n + 4 <= PacketSize
      <3>1. 5 + 12 + 5 * Cardinality(DOMAIN StreamPidMap) + 4 <= PacketSize
        BY SizeAssumption
      <3> QED
        BY <1>1, <3>1
    <2>2. l < 4096
      BY <1>1, <2>1, Sizes
    <2>3. 12 \in 0 .. 24 /\ l < Power[12]
      BY <2>2, PowerValues
    <2> QED
      BY <2>3, FitsBelow
  <1>6. Fits(PcrPid, 13)
    BY Streams, FitsPid
  <1>7. ASSUME NEW k \in 1 .. 15 PROVE Fits(z[PMTHeader[k][1]], PMTHeader[k][2])
    BY <1>4, <1>5, <1>6, FitsSmall, PmtNames
  <1>8. Readable(PMTHeader, 15, 12, z)
    BY <1>7, PMTHeaderLayout DEF Readable
  <1> QED
    BY <1>1, <1>2, <1>4, <1>8

\* The length of a section is at the same place in both headers.
LEMMA LengthPlace ==
  /\ Ends(PATHeader)[4] = 12 /\ Ends(PATHeader)[5] = 24
  /\ Ends(PMTHeader)[4] = 12 /\ Ends(PMTHeader)[5] = 24
  <1>1. PICK E, F : E = Ends(PATHeader) /\ F = Ends(PMTHeader)
    OBVIOUS
  <1>2. Sums(PATHeader, 11, E)
    BY <1>1, PATHeaderLayout, EndsSum DEF Sized
  <1>3. Sums(PMTHeader, 15, F)
    BY <1>1, PMTHeaderLayout, EndsSum DEF Sized
  <1>4. E[0] = 0 /\ E[1] = E[0] + 8 /\ E[2] = E[1] + 1 /\ E[3] = E[2] + 1
        /\ E[4] = E[3] + 2 /\ E[5] = E[4] + 12
    BY <1>2, PatNames DEF Sums
  <1>5. F[0] = 0 /\ F[1] = F[0] + 8 /\ F[2] = F[1] + 1 /\ F[3] = F[2] + 1
        /\ F[4] = F[3] + 2 /\ F[5] = F[4] + 12
    BY <1>3, PmtNames DEF Sums
  <1>6. E[4] = 12 /\ E[5] = 24
    BY <1>4
  <1>7. F[4] = 12 /\ F[5] = 24
    BY <1>5
  <1> QED
    BY <1>1, <1>6, <1>7

\* The length of the section of the PMT, as it is read before it is known what
\* table it is.
LEMMA PmtLengthRead ==
  DecodePATHeader(SubSeq(PmtSection, 1, 8)).mSectionLength
    = 5 * Cardinality(DOMAIN StreamPidMap) + 13
  <1>1. PICK z, h, o : /\ z = PmtHeaderOf /\ h = Encode(PMTHeader, z)
                       /\ o = SubSeq(h, 1, 8)
    OBVIOUS
  <1>2. Readable(PMTHeader, 15, 12, z)
    BY <1>1, PmtReadable
  <1>3. Sized(PMTHeader, 15, 12) /\ Values(PMTHeader, 15, z) /\ Bytes(h, 12)
    BY <1>1, <1>2, ReadableHeader, EncodeType
  <1>4. SubSeq(PmtSection, 1, 8) = o
    <2>1. PICK w : w = mInfos
      OBVIOUS
    <2>2. h \in Seq(Byte) /\ Len(h) = 12 /\ w \in Seq(Byte)
      BY <1>3, <2>1, StreamCount DEF Bytes
    <2>3. PICK j, k \in Nat : j = 1 /\ k = 8
      OBVIOUS
    <2>4. j \in Nat \ {0} /\ j <= k + 1 /\ k <= Len(h)
      BY <2>2, <2>3
    <2>5. SubSeq(h \o w, j, k) = SubSeq(h, j, k)
      BY <2>2, <2>4, SliceLeft
    <2> QED
      BY <1>1, <2>1, <2>3, <2>5 DEF PmtSection
  <1>5. Bytes(o, 8)
    <2>1. h \in Seq(Byte) /\ 1 \in 1 .. Len(h) + 1 /\ 8 \in 1 - 1 .. Len(h) /\ 8 - 1 + 1 = 8
      BY <1>3 DEF Bytes
    <2>2. SubSeq(h, 1, 8) \in Seq(Byte) /\ Len(SubSeq(h, 1, 8)) = 8 - 1 + 1
      BY <2>1, SliceType
    <2> QED
      BY <1>1, <2>1, <2>2 DEF Bytes
  <1>6. PICK E : E = Ends(PMTHeader)
    OBVIOUS
  <1>7. PICK W : /\ ByteBits(W, 12) /\ h = Octets(W)
                 /\ Fields(PMTHeader, 15, z, E, W)
    BY <1>1, <1>3, <1>6, EncodeOctets
  <1>8. BitsOf(h) = W /\ BitSeq(W, 96)
    <2>1. 8 * 12 = 96
      OBVIOUS
    <2> QED
      BY <1>7, <2>1, BitsOfOctets DEF ByteBits, BitSeq
  <1>9. PICK b : b = BitsOf(o)
    OBVIOUS
  <1>10. BitSeq(b, 64)
    <2>1. BitSeq(b, 8 * 8)
      BY <1>5, <1>9, BitsOfType
    <2> QED
      BY <2>1
  <1>11. ASSUME NEW i \in 1 .. 24 PROVE b[i] = W[i]
    <2>1. PICK m \in Nat : m = 8
      OBVIOUS
    <2>2. m <= 12 /\ i \in 1 .. 8 * m
      BY <2>1
    <2>3. BitsOf(SubSeq(h, 1, m))[i] = BitsOf(h)[i]
      BY <1>3, <2>2, BitsOfPrefix
    <2> QED
      BY <1>1, <1>8, <1>9, <2>1, <2>3
  <1>12. SubSeq(b, 13, 24) = SubSeq(W, 13, 24)
    <2>1. PICK l, r \in Nat : l = 13 /\ r = 24
      OBVIOUS
    <2>2. l \in Nat \ {0} /\ l <= r + 1 /\ r <= 64 /\ r <= 96 /\ \A i \in 1 .. r : b[i] = W[i]
      BY <1>11, <2>1
    <2>3. SubSeq(b, l, r) = SubSeq(W, l, r)
      BY <1>8, <1>10, <2>2, BitSlices
    <2> QED
      BY <2>1, <2>3
  <1>13. SubSeq(W, 13, 24) = Bits(z.mSectionLength, 12)
    <2>1. Sums(PMTHeader, 15, E)
      BY <1>3, <1>6, EndsSum DEF Sized
    <2>2. 5 \in 1 .. 15 /\ PMTHeader[5] = <<"mSectionLength", 12>>
      BY PmtNames
    <2>3. FieldAt(W, E, 5) = Bits(z[PMTHeader[5][1]], PMTHeader[5][2])
      BY <1>3, <1>7, <2>1, <2>2, FieldSlice DEF Sized
    <2>4. FieldAt(W, E, 5) = SubSeq(W, 13, 24)
      <3>1. E[5 - 1] + 1 = 13 /\ E[5] = 24
        BY <1>6, LengthPlace
      <3> QED
        BY <3>1 DEF FieldAt
    <2> QED
      BY <2>2, <2>3, <2>4
  <1>14. Number(Bits(z.mSectionLength, 12)) = z.mSectionLength
    <2>1. Fits(z[PMTHeader[5][1]], PMTHeader[5][2])
      BY <1>2 DEF Readable
    <2>2. Fits(z.mSectionLength, 12)
      BY <2>1, PmtNames
    <2> QED
      BY <2>2, NumberOfBits
  <1>15. PICK d : d = Decode(PATHeader, o)
    OBVIOUS
  <1>16. d.mSectionLength = z.mSectionLength
    <2>1. PICK F : F = Ends(PATHeader)
      OBVIOUS
    <2>2. 5 \in 1 .. 11 /\ PATHeader[5][1] = "mSectionLength"
      BY PatNames
    <2>3. Decode(PATHeader, o)[PATHeader[5][1]] = Number(FieldAt(BitsOf(o), Ends(PATHeader), 5))
      BY <2>2, PATHeaderLayout, FieldDecoded DEF Sized
    <2>4. FieldAt(b, F, 5) = SubSeq(b, 13, 24)
      <3>1. F[5 - 1] + 1 = 13 /\ F[5] = 24
        BY <2>1, LengthPlace
      <3> QED
        BY <3>1 DEF FieldAt
    <2> QED
      BY <1>9, <1>12, <1>13, <1>14, <1>15, <2>1, <2>2, <2>3, <2>4
  <1>17. DecodePATHeader(o).mSectionLength = d.mSectionLength
    <2>1. DOMAIN d = Names(PATHeader)
      BY <1>15 DEF Decode
    <2>2. DecodePATHeader(o) = [name \in DOMAIN d |-> IF name = "mReserved0" THEN 0 ELSE d[name]]
      BY <1>15 DEF DecodePATHeader, Unread
    <2> QED
      BY <2>1, <2>2, PatNames
  <1> QED
    BY <1>1, <1>4, <1>16, <1>17, PmtReadable

\* What is read of one stream.
LEMMA InfoRead ==
  ASSUME NEW t \in DOMAIN StreamPidMap
  PROVE  /\ Decode(PMTElementInfo, Info(t)).mStreamType = t
         /\ Decode(PMTElementInfo, Info(t)).mElementaryPid = StreamPidMap[t]
  <1>1. PICK z : z = NewPMTElementInfo(t, StreamPidMap[t])
    OBVIOUS
  <1>2. /\ z.mStreamType = t /\ z.mReserved0 = 7 /\ z.mElementaryPid = StreamPidMap[t]
        /\ z.mReserved1 = 15 /\ z.mEsInfoLength = 0
    BY <1>1 DEF NewPMTElementInfo
  <1>3. Fits(t, 8) /\ Fits(StreamPidMap[t], 13)
    <2>1. t \in 0 .. 255
      BY Streams
    <2>2. StreamPidMap[t] \in Nat /\ StreamPidMap[t] <= 8191
      BY Streams
    <2> QED
      BY <2>1, <2>2, FitsByte, FitsPid
  <1>4. ASSUME NEW k \in 1 .. 5 PROVE Fits(z[PMTElementInfo[k][1]], PMTElementInfo[k][2])
    BY <1>2, <1>3, FitsSmall, InfoNames
  <1>5. Readable(PMTElementInfo, 5, 5, z)
    BY <1>4, PMTElementInfoLayout DEF Readable
  <1>6. Decode(PMTElementInfo, Encode(PMTElementInfo, z))
          = [name \in Names(PMTElementInfo) |-> z[name]]
    BY <1>5, HeaderReadBack
  <1>7. PICK d : d = Decode(PMTElementInfo, Info(t))
    OBVIOUS
  <1>8. d = [name \in Names(PMTElementInfo) |-> z[name]]
    BY <1>1, <1>6, <1>7 DEF Info
  <1>9. d.mStreamType = t /\ d.mElementaryPid = StreamPidMap[t]
    BY <1>2, <1>8, InfoNames
  <1> QED
    BY <1>7, <1>9

\* What a receiver makes of the section of the PMT, whatever follows it.
LEMMA PmtRead ==
  ASSUME NEW c, c \in Seq(Byte), NEW q, q = PmtSection \o c
  PROVE  /\ Decode(PMTHeader, SubSeq(q, 1, 12)).mPcrPid = PcrPid
         /\ Elements(q) = {<<t, StreamPidMap[t]>> : t \in DOMAIN StreamPidMap}
  <1>1. PICK n \in Nat : n = Cardinality(DOMAIN StreamPidMap)
    BY StreamCount
  <1>2. PICK z, h, w, r : /\ z = PmtHeaderOf /\ h = Encode(PMTHeader, z) /\ w = mInfos
                          /\ r = w \o c
    OBVIOUS
  <1>3. Readable(PMTHeader, 15, 12, z)
    BY <1>2, PmtReadable
  <1>4. h \in Seq(Byte) /\ Len(h) = 12 /\ w \in Seq(Byte) /\ Len(w) = 5 * n
    <2>1. Bytes(h, 12)
      BY <1>2, PmtSectionBytes
    <2>2. Bytes(w, 5 * n)
      BY <1>1, <1>2, StreamCount
    <2> QED
      BY <2>1, <2>2 DEF Bytes
  <1>5. r \in Seq(Byte) /\ Len(r) = Len(w) + Len(c) /\ Len(c) \in Nat
    <2>1. Len(c) \in Nat
      BY LenProperties
    <2> QED
      BY <1>2, <1>4, <2>1, ConcatParts
  <1>6. q = h \o r
    <2>1. Regroups(h, w, c)
      BY <1>4, ConcatRegroups
    <2> QED
      BY <1>2, <2>1 DEF Regroups, PmtSection
  <1>7. SubSeq(q, 1, 12) = h
    <2>1. PICK m : m = Len(h) + Len(r)
      OBVIOUS
    <2>2. 12 = Len(h)
      BY <1>4
    <2>3. Meet(h \o r, 12, m, h, r)
      BY <1>4, <1>5, <2>1, <2>2, CutConcat
    <2> QED
      BY <1>6, <2>3 DEF Meet
  <1>8. PICK d : d = Decode(PMTHeader, h)
    OBVIOUS
  <1>9. d.mPcrPid = PcrPid /\ d.mSectionLength = 5 * n + 13 /\ d.mProgramInfoLength = 0
    <2>1. Decode(PMTHeader, Encode(PMTHeader, z)) = [name \in Names(PMTHeader) |-> z[name]]
      BY <1>3, HeaderReadBack
    <2>2. d = [name \in Names(PMTHeader) |-> z[name]]
      BY <1>2, <1>8, <2>1
    <2>3. d.mPcrPid = z.mPcrPid /\ d.mSectionLength = z.mSectionLength
          /\ d.mProgramInfoLength = z.mProgramInfoLength
      BY <2>2, PmtNames
    <2> QED
      BY <1>1, <1>2, <2>3, PmtReadable
  <1>10. (d.mSectionLength - 4 - 9 - d.mProgramInfoLength) \div 5 = n
    <2>1. d.mSectionLength - 4 - 9 - d.mProgramInfoLength = n * 5
      BY <1>9
    <2>2. (n * 5) \div 5 = n
      BY Quotient
    <2> QED
      BY <2>1, <2>2
  <1>11. ASSUME NEW k \in 1 .. n
         PROVE  SubSeq(q, 12 + 5 * k - 4, 12 + 5 * k) = InfoAt(w, k)
    <2>1. PICK i, j \in Nat : i = 5 * k - 4 /\ j = 5 * k
      OBVIOUS
    <2>2. i \in Nat \ {0} /\ i <= j + 1 /\ j <= Len(w) /\ j <= Len(r)
      BY <1>4, <1>5, <2>1
    <2>3. SubSeq(h \o r, Len(h) + i, Len(h) + j) = SubSeq(r, i, j)
      BY <1>4, <1>5, <2>2, SliceRight
    <2>4. SubSeq(w \o c, i, j) = SubSeq(w, i, j)
      BY <1>4, <2>2, SliceLeft
    <2>5. Len(h) + i = 12 + 5 * k - 4 /\ Len(h) + j = 12 + 5 * k
      BY <1>4, <2>1
    <2> QED
      BY <1>2, <1>6, <2>1, <2>3, <2>4, <2>5 DEF InfoAt
  <1>12. DecodeElements(q) = [k \in 1 .. n |-> Decode(PMTElementInfo, InfoAt(w, k))]
    <2>1. DecodeElements(q)
            = [k \in 1 .. (d.mSectionLength - 4 - 9 - d.mProgramInfoLength) \div 5 |->
                 Decode(PMTElementInfo, SubSeq(q, 12 + 5 * k - 4, 12 + 5 * k))]
      BY <1>7, <1>8 DEF DecodeElements
    <2>2. DecodeElements(q)
            = [k \in 1 .. n |-> Decode(PMTElementInfo, SubSeq(q, 12 + 5 * k - 4, 12 + 5 * k))]
      BY <1>10, <2>1
    <2> QED
      BY <1>11, <2>2
  <1>13. PICK T : T = DOMAIN StreamPidMap
    OBVIOUS
  <1>14. /\ \A k \in 1 .. n : \E t \in T : InfoAt(w, k) = Info(t)
         /\ \A t \in T : \E k \in 1 .. n : InfoAt(w, k) = Info(t)
    BY <1>1, <1>2, <1>13, InfosListed DEF Listed
  <1>15. PICK R : R = Range(DecodeElements(q))
    OBVIOUS
  <1>16. R = {Decode(PMTElementInfo, InfoAt(w, k)) : k \in 1 .. n}
    BY <1>12, <1>15 DEF Range
  <1>17. R = {Decode(PMTElementInfo, Info(t)) : t \in T}
    BY <1>14, <1>16
  <1>18. Elements(q) = {<<info.mStreamType, info.mElementaryPid>> : info \in R}
    BY <1>15 DEF Elements
  <1>19. Elements(q) = {<<t, StreamPidMap[t]>> : t \in T}
    BY <1>13, <1>17, <1>18, InfoRead
  <1> QED
    BY <1>7, <1>8, <1>9, <1>13, <1>19

\* What the sections of the tables say.
PatSays(section) ==
  /\ crc32(section) = <<0, 0, 0, 0>>
  /\ DecodePATHeader(SubSeq(section, 1, 8)).mTableId = 0
  /\ Number(SubSeq(BitsOf(SubSeq(section, 11, 12)), 4, 16)) = PmtPid

PmtSays(section) ==
  /\ crc32(section) = <<0, 0, 0, 0>>
  /\ Decode(PMTHeader, SubSeq(section, 1, 12)).mPcrPid = PcrPid
  /\ Elements(section) = {<<t, StreamPidMap[t]>> : t \in DOMAIN StreamPidMap}

LEMMA PatSectionSays ==
  PatSays(SectionOf(SectionPayload(PatSection)))
  <1>1. PICK n, s, c : n = 12 /\ s = PatSection /\ c = crc32(s)
    OBVIOUS
  <1>2. Bytes(s, n) /\ n >= 8 /\ n + 9 <= PacketSize
    BY <1>1, PatSectionBytes, Sizes
  <1>3. DecodePATHeader(SubSeq(s, 1, 8)).mSectionLength = n + 1
    BY <1>1, PatRead
  <1>4. SectionOf(SectionPayload(s)) = s \o c
    BY <1>1, <1>2, <1>3, SectionRead
  <1>5. crc32(s \o c) = <<0, 0, 0, 0>>
    BY <1>1, <1>2, CrcOfSection
  <1>6. s \in Seq(Byte) /\ Len(s) = 12 /\ c \in Seq(Byte)
    <2>1. Bytes(c, 4)
      BY <1>1, <1>2, CrcWritten
    <2> QED
      BY <1>1, <1>2, <2>1 DEF Bytes
  <1>7. SubSeq(s \o c, 1, 8) = SubSeq(s, 1, 8)
    <2>1. PICK j, k \in Nat : j = 1 /\ k = 8
      OBVIOUS
    <2>2. j \in Nat \ {0} /\ j <= k + 1 /\ k <= Len(s)
      BY <1>6, <2>1
    <2> QED
      BY <1>6, <2>1, <2>2, SliceLeft
  <1>8. SubSeq(s \o c, 11, 12) = SubSeq(s, 11, 12)
    <2>1. PICK j, k \in Nat : j = 11 /\ k = 12
      OBVIOUS
    <2>2. j \in Nat \ {0} /\ j <= k + 1 /\ k <= Len(s)
      BY <1>6, <2>1
    <2> QED
      BY <1>6, <2>1, <2>2, SliceLeft
  <1>9. PatSays(s \o c)
    BY <1>1, <1>5, <1>7, <1>8, PatRead DEF PatSays
  <1> QED
    BY <1>1, <1>4, <1>9

LEMMA PmtSectionSays ==
  PmtSays(SectionOf(SectionPayload(PmtSection)))
  <1>1. PICK m \in Nat : m = Cardinality(DOMAIN StreamPidMap)
    BY StreamCount
  <1>2. PICK n, s, c : n = 12 + 5 * m /\ s = PmtSection /\ c = crc32(s)
    OBVIOUS
  <1>3. n >= 8 /\ n + 9 <= PacketSize
    <2>1. 5 + 12 + 5 * m + 4 <= PacketSize
      <3>1. 5 + 12 + 5 * Cardinality(DOMAIN StreamPidMap) + 4 <= PacketSize
        BY SizeAssumption
      <3> QED
        BY <1>1, <3>1
    <2> QED
      BY <1>1, <1>2, <2>1, Sizes
  <1>4. Bytes(s, n)
    BY <1>1, <1>2, PmtSectionBytes
  <1>5. DecodePATHeader(SubSeq(s, 1, 8)).mSectionLength = n + 1
    <2>1. 5 * m + 13 = (12 + 5 * m) + 1
      BY <1>1
    <2> QED
      BY <1>1, <1>2, <2>1, PmtLengthRead
  <1>6. SectionOf(SectionPayload(s)) = s \o c
    BY <1>2, <1>3, <1>4, <1>5, SectionRead
  <1>7. crc32(s \o c) = <<0, 0, 0, 0>>
    BY <1>2, <1>4, CrcOfSection
  <1>8. c \in Seq(Byte)
    <2>1. Bytes(c, 4)
      BY <1>2, <1>4, CrcWritten
    <2> QED
      BY <2>1 DEF Bytes
  <1>9. PmtSays(s \o c)
    BY <1>2, <1>7, <1>8, PmtRead DEF PmtSays
  <1> QED
    BY <1>2, <1>6, <1>9

\* The payload of a packet, as Payload finds it.
PayloadOf(p) == SubSeq(p, 5 + (IF AdaptationIn(p) THEN 1 + p[5] ELSE 0), PacketSize)

LEMMA PayloadFound ==
  ASSUME NEW p, NEW start, NEW pid, NEW cc, NEW b,
         IsPacket(p, start, pid, 1, cc, <<>>, b)
  PROVE  PayloadOf(p) = b
  <1>1. PICK afc, a : afc = 1 /\ a = <<>>
    OBVIOUS
  <1>2. Shows(p, start, pid, afc, cc, a, b)
    BY <1>1, PacketShows
  <1>3. SubSeq(p, 5 + Len(a), PacketSize) = b /\ HeaderOf(p).mAdaptationFieldControl = 1
    BY <1>1, <1>2 DEF Shows, HeaderShows, HeaderOf
  <1>4. ~ AdaptationIn(p) /\ 5 + Len(a) = 5 + 0
    BY <1>1, <1>3 DEF AdaptationIn
  <1> QED
    BY <1>3, <1>4 DEF PayloadOf

\* The packets of the tables, for a receiver.
TellsPat(p) == PatSays(SectionOf(PayloadOf(p)))

TellsPmt(p) == PmtSays(SectionOf(PayloadOf(p)))

LEMMA TablesTell ==
  ASSUME NEW cc \in 0 .. CcModulus - 1
  PROVE  TellsPat(createPat(cc)) /\ TellsPmt(createPmt(cc))
  <1>1. PICK p, q, a, b : /\ p = createPat(cc) /\ q = createPmt(cc)
                          /\ a = SectionPayload(PatSection)
                          /\ b = SectionPayload(PmtSection)
    OBVIOUS
  <1>2. /\ IsPacket(p, 1, 0, 1, cc, <<>>, a)
        /\ IsPacket(q, 1, PmtPid, 1, cc, <<>>, b)
    BY <1>1, TableParts
  <1>3. PayloadOf(p) = a /\ PayloadOf(q) = b
    BY <1>2, PayloadFound
  <1> QED
    BY <1>1, <1>3, PatSectionSays, PmtSectionSays DEF TellsPat, TellsPmt

\* The first n packets of a buffer start with both tables, or none is there.
NoTables(s, n) == OfIn(s, n, 0) = {} /\ OfIn(s, n, PmtPid) = {}

WithTables(s, n) ==
  /\ OfIn(s, n, 0) = {1} /\ OfIn(s, n, PmtPid) = {2}
  /\ TellsPat(PacketIn(s, 1)) /\ TellsPmt(PacketIn(s, 2))

LEMMA TablesFirst ==
  ASSUME NEW cc \in 0 .. CcModulus - 1
  PROVE  LET t == createPat(cc) \o createPmt(cc)
         IN Whole(t, 2) /\ WithTables(t, 2)
  <1>1. PICK p, q, t, a, b : /\ p = createPat(cc) /\ q = createPmt(cc) /\ t = p \o q
                             /\ a = SectionPayload(PatSection)
                             /\ b = SectionPayload(PmtSection)
    OBVIOUS
  <1>2. /\ IsPacket(p, 1, 0, 1, cc, <<>>, a)
        /\ IsPacket(q, 1, PmtPid, 1, cc, <<>>, b)
    BY <1>1, TableParts
  <1>3. Sound(p) /\ Carries(p, 0, cc) /\ \A r : r # 0 => Without(p, r)
    <2>1. 1 # 2
      OBVIOUS
    <2> QED
      BY <1>2, <2>1, PacketSound
  <1>4. Sound(q) /\ Carries(q, PmtPid, cc) /\ \A r : r # PmtPid => Without(q, r)
    <2>1. 1 # 2
      OBVIOUS
    <2> QED
      BY <1>2, <2>1, PacketSound
  <1>5. Whole(p, 1) /\ Grown(p, <<>>, 0, p)
    <2>1. Whole(<<>> \o p, 0 + 1) /\ Grown(<<>> \o p, <<>>, 0, p)
      BY <1>3, WholeEmpty, WholeAppended
    <2>2. <<>> \o p = p
      BY <1>3, ConcatEmptySeq DEF Sound
    <2> QED
      BY <2>1, <2>2
  <1>6. Whole(t, 2) /\ Grown(t, p, 1, q)
    <2>1. Whole(p \o q, 1 + 1) /\ Grown(p \o q, p, 1, q)
      BY <1>4, <1>5, WholeAppended
    <2> QED
      BY <1>1, <2>1
  <1>7. 0 \in Nat /\ 1 \in Nat /\ 0 + 1 = 1 /\ 1 + 1 = 2 /\ PmtPid # 0
    BY Streams
  <1>8. PICK e : e = <<>>
    OBVIOUS
  <1>9. OfIn(p, 1, 0) = {1} /\ OfIn(p, 1, PmtPid) = {}
    <2>1. OfIn(e, 0, 0) = {} /\ OfIn(e, 0, PmtPid) = {}
      BY DEF OfIn
    <2>2. OfIn(p, 0 + 1, 0) = OfIn(e, 0, 0) \cup {0 + 1}
      <3>1. PICK m, pid, u : m = 0 /\ pid = 0 /\ u = p
        OBVIOUS
      <3>2. Grown(u, e, m, p) /\ Carries(p, pid, cc) /\ m \in Nat
        BY <1>3, <1>5, <1>8, <3>1
      <3>3. OfIn(u, m + 1, pid) = OfIn(e, m, pid) \cup {m + 1}
        BY <3>2, OfGrown
      <3> QED
        BY <3>1, <3>3
    <2>3. Without(p, PmtPid)
      BY <1>3, <1>7
    <2>4. OfIn(p, 0 + 1, PmtPid) = OfIn(e, 0, PmtPid)
      BY <1>5, <1>7, <1>8, <2>3, OfGrown
    <2> QED
      BY <1>7, <2>1, <2>2, <2>4
  <1>10. OfIn(t, 2, 0) = {1} /\ OfIn(t, 2, PmtPid) = {2}
    <2>1. Without(q, 0)
      BY <1>4, <1>7
    <2>2. OfIn(t, 1 + 1, 0) = OfIn(p, 1, 0)
      BY <1>6, <1>7, <2>1, OfGrown
    <2>3. OfIn(t, 1 + 1, PmtPid) = OfIn(p, 1, PmtPid) \cup {1 + 1}
      BY <1>4, <1>6, <1>7, OfGrown
    <2> QED
      BY <1>7, <1>9, <2>2, <2>3
  <1>11. PacketIn(t, 1) = p /\ PacketIn(t, 2) = q
    <2>1. PacketIn(p, 0 + 1) = p
      BY <1>5 DEF Grown
    <2>2. PacketIn(t, 1 + 1) = q /\ \A k \in 1 .. 1 : PacketIn(t, k) = PacketIn(p, k)
      BY <1>6 DEF Grown
    <2>3. 1 \in 1 .. 1
      OBVIOUS
    <2> QED
      BY <1>7, <2>1, <2>2, <2>3
  <1>12. TellsPat(p) /\ TellsPmt(q)
    BY <1>1, TablesTell
  <1> QED
    BY <1>1, <1>6, <1>10, <1>11, <1>12 DEF WithTables

\* A packet of a frame leaves the tables as they are.
LEMMA TablesKept ==
  ASSUME NEW f \in Frames, NEW start \in Nat, start < f.size,
         NEW cc \in 0 .. CcModulus - 1, NEW s, NEW n, Whole(s, n)
  PROVE  LET t == s \o PesPacket(f, start, cc)
         IN /\ Whole(t, n + 1)
            /\ OfIn(t, n + 1, 0) = OfIn(s, n, 0)
            /\ NoTables(s, n) => NoTables(t, n + 1)
            /\ WithTables(s, n) => WithTables(t, n + 1)
  <1>1. PICK p, t : p = PesPacket(f, start, cc) /\ t = s \o p
    OBVIOUS
  <1>2. Pid(f) # 0 /\ Pid(f) # PmtPid
    BY FrameTypes
  <1>3. Sound(p) /\ Without(p, 0) /\ Without(p, PmtPid)
    <2>1. PICK y, afc, a, b : IsPacket(p, y, Pid(f), afc, cc, a, b)
      BY <1>1, PesParts
    <2> QED
      BY <1>2, <2>1, PacketSound
  <1>4. Whole(t, n + 1) /\ Grown(t, s, n, p) /\ n \in Nat
    <2>1. Whole(s \o p, n + 1) /\ Grown(s \o p, s, n, p)
      BY <1>3, WholeAppended
    <2> QED
      BY <1>1, <2>1 DEF Whole
  <1>5. /\ OfIn(t, n + 1, 0) = OfIn(s, n, 0)
        /\ OfIn(t, n + 1, PmtPid) = OfIn(s, n, PmtPid)
        /\ OfIn(s, n, 0) \subseteq 1 .. n /\ OfIn(s, n, PmtPid) \subseteq 1 .. n
    BY <1>3, <1>4, OfGrown
  <1>6. ASSUME WithTables(s, n) PROVE WithTables(t, n + 1)
    <2>1. 1 \in 1 .. n /\ 2 \in 1 .. n
      BY <1>5, <1>6 DEF WithTables
    <2>2. PacketIn(t, 1) = PacketIn(s, 1) /\ PacketIn(t, 2) = PacketIn(s, 2)
      BY <1>4, <2>1 DEF Grown
    <2> QED
      BY <1>5, <1>6, <2>2 DEF WithTables
  <1>7. NoTables(s, n) => NoTables(t, n + 1)
    BY <1>5 DEF NoTables
  <1> QED
    BY <1>1, <1>4, <1>5, <1>6, <1>7

\* What the tables are while a frame is encoded.
TablesInv ==
  op = "encode" =>
    LET n == Len(lSb) \div PacketSize
    IN /\ NoTables(lSb, n) \/ WithTables(lSb, n)
       /\ mMuxType = "segmentType" => (OfIn(lSb, n, 0) # {}) = lRandomAccess

LEMMA EncodeFrameTables ==
  ASSUME IInv, NEW f \in Frames, NEW randomAccess \in BOOLEAN, EncodeFrame(f, randomAccess)
  PROVE  TablesInv'
  <1>1. pc = "idle" /\ lSb = <<>> /\ mMuxType' = mMuxType /\ lRandomAccess' = randomAccess
    BY DEF EncodeFrame, IInv, PhaseInv
  <1>2. CASE TablesDue(randomAccess)
    <2>1. PICK cc, t : cc = NextCc(mPidCcMap, 0) /\ t = createPat(cc) \o createPmt(cc)
      OBVIOUS
    <2>2. lSb' = t
      BY <1>2, <2>1 DEF EncodeFrame
    <2>3. cc \in 0 .. CcModulus - 1
      <3>1. PICK D : D = {0} \cup Types
        OBVIOUS
      <3>2. /\ DOMAIN mPidCcMap \subseteq D /\ 0 \in D
            /\ \A k \in DOMAIN mPidCcMap : mPidCcMap[k] \in 0 .. CcModulus - 1
        BY <3>1 DEF IInv, TypeOK
      <3> QED
        BY <2>1, <3>2, NextCcType
    <2>4. Whole(t, 2) /\ WithTables(t, 2)
      BY <2>1, <2>3, TablesFirst
    <2>5. Len(lSb') \div PacketSize = 2
      BY <2>2, <2>4, WholeCount
    <2>6. OfIn(t, 2, 0) # {}
      BY <2>4 DEF WithTables
    <2>7. mMuxType = "segmentType" => randomAccess = TRUE
      BY <1>2 DEF TablesDue
    <2> QED
      BY <1>1, <2>2, <2>4, <2>5, <2>6, <2>7 DEF TablesInv
  <1>3. CASE ~ TablesDue(randomAccess)
    <2>1. lSb' = <<>>
      BY <1>1, <1>3 DEF EncodeFrame
    <2>2. Len(lSb') \div PacketSize = 0
      BY <2>1, WholeEmpty, WholeCount
    <2>3. \A s, pid : OfIn(s, 0, pid) = {}
      BY DEF OfIn
    <2>4. mMuxType = "segmentType" => randomAccess = FALSE
      BY <1>3 DEF TablesDue
    <2> QED
      BY <1>1, <2>2, <2>3, <2>4 DEF TablesInv, NoTables
  <1> QED
    BY <1>2, <1>3

LEMMA createPesTables ==
  ASSUME IInv, TablesInv, createPes
  PROVE  TablesInv'
  <1>1. PICK n : n = Len(lSb) \div PacketSize
    OBVIOUS
  <1>2. /\ op = "encode" /\ pc = "createPes" /\ frame \in Frames
        /\ mMuxType' = mMuxType /\ lRandomAccess' = lRandomAccess
    BY DEF createPes, IInv, PhaseInv
  <1>3. Whole(lSb, n)
    BY <1>1, <1>2, CountPackets
  <1>4. PICK cc : cc = NextCc(mPidCcMap, frame.mStreamType)
    OBVIOUS
  <1>5. cc \in 0 .. CcModulus - 1
    <2>1. PICK D : D = {0} \cup Types
      OBVIOUS
    <2>2. /\ DOMAIN mPidCcMap \subseteq D
          /\ \A k \in DOMAIN mPidCcMap : mPidCcMap[k] \in 0 .. CcModulus - 1
      BY <2>1 DEF IInv, TypeOK
    <2>3. frame.mStreamType \in D
      BY <1>2, <2>1, FrameTypes
    <2> QED
      BY <1>4, <2>2, <2>3, NextCcType
  <1>6. pos \in Nat /\ pos < frame.size
    <2>1. pos \in 0 .. frame.size
      BY DEF IInv, TypeOK
    <2> QED
      BY <2>1 DEF createPes
  <1>7. PICK s, t : s = lSb /\ t = s \o PesPacket(frame, pos, cc)
    OBVIOUS
  <1>8. lSb' = t
    BY <1>4, <1>7 DEF createPes
  <1>9. /\ Whole(t, n + 1)
        /\ OfIn(t, n + 1, 0) = OfIn(s, n, 0)
        /\ NoTables(s, n) => NoTables(t, n + 1)
        /\ WithTables(s, n) => WithTables(t, n + 1)
    BY <1>2, <1>3, <1>5, <1>6, <1>7, TablesKept
  <1>10. Len(lSb') \div PacketSize = n + 1
    BY <1>8, <1>9, WholeCount
  <1>11. /\ NoTables(s, n) \/ WithTables(s, n)
         /\ mMuxType = "segmentType" => (OfIn(s, n, 0) # {}) = lRandomAccess
    BY <1>1, <1>2, <1>7 DEF TablesInv
  <1>12. /\ NoTables(t, n + 1) \/ WithTables(t, n + 1)
         /\ mMuxType = "segmentType" => (OfIn(t, n + 1, 0) # {}) = lRandomAccess
    BY <1>9, <1>11
  <1> QED
    BY <1>2, <1>8, <1>10, <1>12 DEF TablesInv

\* PAT and PMT come together, at the start of a buffer, always where a segment
\* starts; they are intact, the PAT leads to the PMT, and the PMT lists every
\* stream with its PID, and the PID of the PCR (createPat, createPmt and encode of
\* mpegts_muxer.cpp): for every map of streams that fits into one packet.
THEOREM TablesAreRight ==
  Spec => []TablesDescribe
  <1>1. Init => IInv /\ TablesInv
    BY InitInv DEF Init, TablesInv
  <1>2. IInv /\ TablesInv /\ [Next]_vars => TablesInv'
    <2> SUFFICES ASSUME IInv, TablesInv, [Next]_vars PROVE TablesInv'
      OBVIOUS
    <2>1. ASSUME NEW f \in Frames, NEW randomAccess \in BOOLEAN, EncodeFrame(f, randomAccess)
          PROVE  TablesInv'
      BY <2>1, EncodeFrameTables
    <2>2. CASE createPes
      BY <2>2, createPesTables
    <2>3. CASE PesDone
      BY <2>3 DEF PesDone, TablesInv
    <2>4. CASE createPcr
      BY <2>4 DEF createPcr, Sends, TablesInv
    <2>5. CASE createNull
      BY <2>5 DEF createNull, Sends, TablesInv
    <2>6. CASE OtherMuxer
      BY <2>6 DEF OtherMuxer, TablesInv
    <2>7. CASE CallbackReturns
      BY <2>7 DEF CallbackReturns, TablesInv
    <2>8. CASE UNCHANGED vars
      BY <2>8 DEF vars, TablesInv
    <2> QED
      BY <2>1, <2>2, <2>3, <2>4, <2>5, <2>6, <2>7, <2>8 DEF Next
  <1>3. IInv /\ TablesInv => TablesDescribe
    <2> SUFFICES ASSUME IInv, TablesInv, op = "encode", pc = "callback"
                 PROVE  /\ mMuxType = "segmentType" => (Of(0) # {}) = lRandomAccess
                        /\ Of(0) # {} \/ Of(PmtPid) # {} =>
                             /\ Of(0) = {1} /\ Of(PmtPid) = {2}
                             /\ PatSays(SectionIn(1)) /\ PmtSays(SectionIn(2))
      BY DEF TablesDescribe, PatSays, PmtSays
    <2>1. PICK n : n = Len(lSb) \div PacketSize
      OBVIOUS
    <2>2. Of(0) = OfIn(lSb, n, 0) /\ Of(PmtPid) = OfIn(lSb, n, PmtPid)
      BY <2>1, SeenPackets
    <2>3. /\ NoTables(lSb, n) \/ WithTables(lSb, n)
          /\ mMuxType = "segmentType" => (OfIn(lSb, n, 0) # {}) = lRandomAccess
      BY <2>1 DEF TablesInv
    <2>4. \A k : SectionIn(k) = SectionOf(PayloadOf(PacketIn(lSb, k)))
      BY DEF SectionIn, SectionOf, Payload, PayloadOf, Packet, PacketIn, HasAdaptation,
             Header, AdaptationIn, HeaderOf
    <2> QED
      BY <2>2, <2>3, <2>4 DEF NoTables, WithTables, TellsPat, TellsPmt
  <1>4. Spec => []IInv
    BY Invariance
  <1> QED
    BY <1>1, <1>2, <1>3, <1>4, PTL DEF Spec

\* A time stamp is read as it was written, but for its first bit.
LEMMA PtsReadBack ==
  ASSUME NEW fb \in 0 .. 15, NEW pts, BitSeq(pts, 33)
  PROVE  SameStamp(writePts(fb, pts), pts)
  <1>1. PICK s : /\ BitSeq(s, 40) /\ BitsOf(writePts(fb, pts)) = s
                 /\ \A i \in 1 .. 3 : s[4 + i] = pts[i]
                 /\ \A i \in 4 .. 18 : s[5 + i] = pts[i]
                 /\ \A i \in 19 .. 33 : s[6 + i] = pts[i]
    BY PtsBits
  <1>2. PICK a, b, c, d : /\ a = <<0>> /\ b = SubSeq(s, 6, 7) /\ c = SubSeq(s, 9, 23)
                          /\ d = SubSeq(s, 25, 39)
    OBVIOUS
  <1>3. s \in Seq(Bit) /\ Len(s) = 40
    BY <1>1 DEF BitSeq
  <1>4. BitSeq(b, 2) /\ \A i \in 1 .. 2 : b[i] = s[i + 5]
    <2>1. PICK k, l, m, w : k = 6 /\ l = 5 /\ m = 2 /\ w = 7
      OBVIOUS
    <2>2. l \in Nat /\ m \in Nat /\ l + m <= 40 /\ k = l + 1 /\ w = l + m
      BY <2>1
    <2>3. BitSeq(SubSeq(s, k, w), m) /\ \A i \in 1 .. m : SubSeq(s, k, w)[i] = s[i + l]
      BY <1>1, <2>2, CutBits
    <2> QED
      BY <1>2, <2>1, <2>3
  <1>5. BitSeq(c, 15) /\ \A i \in 1 .. 15 : c[i] = s[i + 8]
    <2>1. PICK k, l, m, w : k = 9 /\ l = 8 /\ m = 15 /\ w = 23
      OBVIOUS
    <2>2. l \in Nat /\ m \in Nat /\ l + m <= 40 /\ k = l + 1 /\ w = l + m
      BY <2>1
    <2>3. BitSeq(SubSeq(s, k, w), m) /\ \A i \in 1 .. m : SubSeq(s, k, w)[i] = s[i + l]
      BY <1>1, <2>2, CutBits
    <2> QED
      BY <1>2, <2>1, <2>3
  <1>6. BitSeq(d, 15) /\ \A i \in 1 .. 15 : d[i] = s[i + 24]
    <2>1. PICK k, l, m, w : k = 25 /\ l = 24 /\ m = 15 /\ w = 39
      OBVIOUS
    <2>2. l \in Nat /\ m \in Nat /\ l + m <= 40 /\ k = l + 1 /\ w = l + m
      BY <2>1
    <2>3. BitSeq(SubSeq(s, k, w), m) /\ \A i \in 1 .. m : SubSeq(s, k, w)[i] = s[i + l]
      BY <1>1, <2>2, CutBits
    <2> QED
      BY <1>2, <2>1, <2>3
  <1>7. PICK p, q, r : p = a \o b /\ q = p \o c /\ r = q \o d
    OBVIOUS
  <1>8. BitSeq(p, 3) /\ Joined(a, 1, b, 2, p)
    <2>1. BitSeq(a, 1)
      BY <1>2, BitSeqOne
    <2>2. BitSeq(p, 1 + 2) /\ Joined(a, 1, b, 2, p)
      BY <1>4, <1>7, <2>1, BitSeqConcat, BitSeqJoined
    <2> QED
      BY <2>2
  <1>9. BitSeq(q, 18) /\ Joined(p, 3, c, 15, q)
    <2>1. BitSeq(q, 3 + 15) /\ Joined(p, 3, c, 15, q)
      BY <1>5, <1>7, <1>8, BitSeqConcat, BitSeqJoined
    <2> QED
      BY <2>1
  <1>10. BitSeq(r, 33) /\ Joined(q, 18, d, 15, r)
    <2>1. BitSeq(r, 18 + 15) /\ Joined(q, 18, d, 15, r)
      BY <1>6, <1>7, <1>9, BitSeqConcat, BitSeqJoined
    <2> QED
      BY <2>1
  <1>11. readPts(writePts(fb, pts)) = r
    BY <1>1, <1>2, <1>7 DEF readPts
  <1>12. ASSUME NEW i \in 2 .. 33 PROVE r[i] = pts[i]
    <2>1. CASE i \in 2 .. 3
      <3>1. PICK j \in 1 .. 2 : j = i - 1 /\ 1 + j = i /\ j + 5 = 4 + i
        BY <2>1
      <3>2. p[1 + j] = b[j] /\ b[j] = s[j + 5]
        BY <1>4, <1>8 DEF Joined
      <3>3. i \in 1 .. 3 /\ i \in 1 .. 18
        BY <2>1
      <3>4. q[i] = p[i] /\ r[i] = q[i]
        BY <1>9, <1>10, <3>3 DEF Joined
      <3>5. s[4 + i] = pts[i]
        BY <1>1, <3>3
      <3> QED
        BY <3>1, <3>2, <3>4, <3>5
    <2>2. CASE i \in 4 .. 18
      <3>1. PICK j \in 1 .. 15 : j = i - 3 /\ 3 + j = i /\ j + 8 = 5 + i
        BY <2>2
      <3>2. q[3 + j] = c[j] /\ c[j] = s[j + 8]
        BY <1>5, <1>9 DEF Joined
      <3>3. i \in 1 .. 18
        BY <2>2
      <3>4. r[i] = q[i]
        BY <1>10, <3>3 DEF Joined
      <3>5. s[5 + i] = pts[i]
        BY <1>1, <2>2
      <3> QED
        BY <3>1, <3>2, <3>4, <3>5
    <2>3. CASE i \in 19 .. 33
      <3>1. PICK j \in 1 .. 15 : j = i - 18 /\ 18 + j = i /\ j + 24 = 6 + i
        BY <2>3
      <3>2. r[18 + j] = d[j] /\ d[j] = s[j + 24]
        BY <1>6, <1>10 DEF Joined
      <3>3. s[6 + i] = pts[i]
        BY <1>1, <2>3
      <3> QED
        BY <3>1, <3>2, <3>3
    <2>4. i \in 2 .. 3 \/ i \in 4 .. 18 \/ i \in 19 .. 33
      OBVIOUS
    <2> QED
      BY <2>1, <2>2, <2>3, <2>4
  <1>13. Tail(r) = Tail(pts)
    <2>1. r \in Seq(Bit) /\ Len(r) = 33 /\ pts \in Seq(Bit) /\ Len(pts) = 33
      BY <1>10 DEF BitSeq
    <2>2. /\ BitSeq(Tail(r), 32) /\ \A i \in 1 .. 32 : Tail(r)[i] = r[i + 1]
          /\ BitSeq(Tail(pts), 32) /\ \A i \in 1 .. 32 : Tail(pts)[i] = pts[i + 1]
      <3>1. /\ Tail(r) \in Seq(Bit) /\ Len(Tail(r)) = 32
            /\ Tail(pts) \in Seq(Bit) /\ Len(Tail(pts)) = 32
        BY <2>1
      <3>2. r # <<>> /\ pts # <<>>
        BY <2>1
      <3>3. /\ \A i \in 1 .. Len(Tail(r)) : Tail(r)[i] = r[i + 1]
            /\ \A i \in 1 .. Len(Tail(pts)) : Tail(pts)[i] = pts[i + 1]
        BY <2>1, <3>2, HeadTailProperties
      <3> QED
        BY <3>1, <3>3 DEF BitSeq
    <2>3. ASSUME NEW i \in 1 .. 32 PROVE Tail(r)[i] = Tail(pts)[i]
      <3>1. i + 1 \in 2 .. 33
        OBVIOUS
      <3> QED
        BY <1>12, <2>2, <3>1
    <2> QED
      BY <2>2, <2>3, BitSeqEqual
  <1> QED
    BY <1>11, <1>13 DEF SameStamp

\* The payloads of the packets of a PID among the first n, put together.
Gathers(s, n, pid, f) ==
  /\ f[0] = <<>>
  /\ \A k \in 1 .. n : f[k] = IF k \in OfIn(s, n, pid)
                              THEN f[k - 1] \o PayloadOf(PacketIn(s, k)) ELSE f[k - 1]
Gathered(s, n, pid, bytes) == \E f : Gathers(s, n, pid, f) /\ f[n] = bytes

LEMMA GatheredNone ==
  ASSUME NEW s, NEW pid
  PROVE  Gathered(s, 0, pid, <<>>)
  <1>1. PICK f : f = [k \in {0} |-> <<>>]
    OBVIOUS
  <1>2. f[0] = <<>>
    BY <1>1
  <1>3. Gathers(s, 0, pid, f)
    BY <1>2 DEF Gathers
  <1> QED
    BY <1>2, <1>3 DEF Gathered

\* A packet of the PID adds its payload; another changes nothing.
LEMMA GatheredNext ==
  ASSUME NEW n \in Nat, NEW t, NEW s, NEW p, Grown(t, s, n, p), NEW pid,
         NEW bytes, Gathered(s, n, pid, bytes)
  PROVE  /\ Without(p, pid) => Gathered(t, n + 1, pid, bytes)
         /\ \A cc : Carries(p, pid, cc) => Gathered(t, n + 1, pid, bytes \o PayloadOf(p))
  <1>1. PICK f : Gathers(s, n, pid, f) /\ f[n] = bytes
    BY DEF Gathered
  <1>2. /\ OfIn(s, n, pid) \subseteq 1 .. n
        /\ Without(p, pid) => OfIn(t, n + 1, pid) = OfIn(s, n, pid)
        /\ \A cc : Carries(p, pid, cc) =>
             OfIn(t, n + 1, pid) = OfIn(s, n, pid) \cup {n + 1} /\ CcIn(t, n + 1) = cc
        /\ \A k \in 1 .. n : CcIn(t, k) = CcIn(s, k)
    BY OfGrown
  <1>3. ASSUME NEW last,
               \/ OfIn(t, n + 1, pid) = OfIn(s, n, pid)
               \/ OfIn(t, n + 1, pid) = OfIn(s, n, pid) \cup {n + 1},
               last = IF n + 1 \in OfIn(t, n + 1, pid)
                      THEN bytes \o PayloadOf(PacketIn(t, n + 1)) ELSE bytes
        PROVE  Gathered(t, n + 1, pid, last)
    <2>1. PICK g : g = [k \in 0 .. n + 1 |-> IF k = n + 1 THEN last ELSE f[k]]
      OBVIOUS
    <2>2. /\ g[0] = f[0] /\ g[n] = f[n] /\ g[n + 1] = last
          /\ \A k \in 1 .. n : g[k] = f[k] /\ g[k - 1] = f[k - 1]
      <3>1. 0 \in 0 .. n + 1 /\ 0 # n + 1 /\ n \in 0 .. n + 1 /\ n # n + 1 /\ n + 1 \in 0 .. n + 1
        OBVIOUS
      <3>2. \A k \in 1 .. n : k \in 0 .. n + 1 /\ k # n + 1 /\ k - 1 \in 0 .. n + 1 /\ k - 1 # n + 1
        OBVIOUS
      <3> QED
        BY <2>1, <3>1, <3>2
    <2>3. ASSUME NEW k \in 1 .. n + 1
          PROVE  g[k] = IF k \in OfIn(t, n + 1, pid)
                        THEN g[k - 1] \o PayloadOf(PacketIn(t, k)) ELSE g[k - 1]
      <3>1. CASE k = n + 1
        <4>1. k - 1 = n /\ g[k] = last /\ g[k - 1] = bytes
          BY <1>1, <2>2, <3>1
        <4> QED
          BY <1>3, <3>1, <4>1
      <3>2. CASE k # n + 1
        <4>1. k \in 1 .. n
          BY <3>2
        <4>2. k \in OfIn(t, n + 1, pid) <=> k \in OfIn(s, n, pid)
          BY <1>3, <3>2
        <4>3. PacketIn(t, k) = PacketIn(s, k)
          BY <4>1 DEF Grown
        <4>4. f[k] = IF k \in OfIn(s, n, pid)
                     THEN f[k - 1] \o PayloadOf(PacketIn(s, k)) ELSE f[k - 1]
          BY <1>1, <4>1 DEF Gathers
        <4>5. g[k] = f[k] /\ g[k - 1] = f[k - 1]
          BY <2>2, <4>1
        <4> QED
          BY <4>2, <4>3, <4>4, <4>5
      <3> QED
        BY <3>1, <3>2
    <2>4. Gathers(t, n + 1, pid, g)
      BY <1>1, <2>2, <2>3 DEF Gathers
    <2> QED
      BY <2>2, <2>4 DEF Gathered
  <1>4. n + 1 \notin OfIn(s, n, pid)
    BY <1>2
  <1>5. ASSUME Without(p, pid) PROVE Gathered(t, n + 1, pid, bytes)
    <2>1. OfIn(t, n + 1, pid) = OfIn(s, n, pid)
      BY <1>2, <1>5
    <2> QED
      BY <1>3, <1>4, <2>1
  <1>6. ASSUME NEW cc, Carries(p, pid, cc)
        PROVE  Gathered(t, n + 1, pid, bytes \o PayloadOf(p))
    <2>1. OfIn(t, n + 1, pid) = OfIn(s, n, pid) \cup {n + 1}
      BY <1>2, <1>6
    <2>2. n + 1 \in OfIn(t, n + 1, pid)
      BY <2>1
    <2>3. PacketIn(t, n + 1) = p
      BY DEF Grown
    <2>4. PICK last : last = bytes \o PayloadOf(p)
      OBVIOUS
    <2>5. last = IF n + 1 \in OfIn(t, n + 1, pid)
                 THEN bytes \o PayloadOf(PacketIn(t, n + 1)) ELSE bytes
      BY <2>2, <2>3, <2>4
    <2>6. Gathered(t, n + 1, pid, last)
      BY <1>3, <2>1, <2>5
    <2> QED
      BY <2>4, <2>6
  <1> QED
    BY <1>5, <1>6

\* The receiver gathers all there is.
LEMMA ReceivedIs ==
  ASSUME NEW n \in Nat, n = Len(lSb) \div PacketSize, NEW pid, NEW bytes,
         Gathered(lSb, n, pid, bytes)
  PROVE  Received(pid) = bytes
  <1>1. PICK f : Gathers(lSb, n, pid, f) /\ f[n] = bytes
    BY DEF Gathered
  <1>2. PICK T : T = Of(pid)
    OBVIOUS
  <1>3. \A k \in 1 .. n : f[k] = IF k \in T THEN f[k - 1] \o Payload(k) ELSE f[k - 1]
    <2>1. T = OfIn(lSb, n, pid)
      BY <1>2, SeenPackets
    <2>2. \A k \in 1 .. n : Payload(k) = PayloadOf(PacketIn(lSb, k))
      BY DEF Payload, PayloadOf, Packet, PacketIn, HasAdaptation, Header, AdaptationIn, HeaderOf
    <2> QED
      BY <1>1, <2>1, <2>2 DEF Gathers
  <1> DEFINE UpTo[k \in 0 .. n] ==
               IF k = 0 THEN <<>>
               ELSE IF k \in T THEN UpTo[k - 1] \o Payload(k) ELSE UpTo[k - 1]
  <1>4. Received(pid) = UpTo[n]
    BY <1>2 DEF Received
  <1>5. \E g : g = [k \in 0 .. n |-> IF k = 0 THEN <<>>
                                     ELSE IF k \in T THEN g[k - 1] \o Payload(k) ELSE g[k - 1]]
    <2>1. PICK g : g = [k \in 0 .. n |-> f[k]]
      OBVIOUS
    <2>2. \A k \in 1 .. n : k - 1 \in 0 .. n /\ k \in 0 .. n /\ k # 0
      OBVIOUS
    <2>3. \A k \in 0 .. n : k = 0 \/ k \in 1 .. n
      OBVIOUS
    <2>4. f[0] = <<>>
      BY <1>1 DEF Gathers
    <2>5. ASSUME NEW k \in 0 .. n
          PROVE  g[k] = IF k = 0 THEN <<>>
                        ELSE IF k \in T THEN g[k - 1] \o Payload(k) ELSE g[k - 1]
      <3>1. CASE k = 0
        BY <2>1, <2>4, <3>1
      <3>2. CASE k \in 1 .. n
        <4>1. g[k] = f[k] /\ g[k - 1] = f[k - 1] /\ k # 0
          BY <2>1, <2>2, <3>2
        <4> QED
          BY <1>3, <3>2, <4>1
      <3> QED
        BY <2>3, <3>1, <3>2
    <2> QED
      BY <2>1, <2>5, Zenon
  <1>7. UpTo = [k \in 0 .. n |-> IF k = 0 THEN <<>>
                                 ELSE IF k \in T THEN UpTo[k - 1] \o Payload(k) ELSE UpTo[k - 1]]
    BY <1>5
  <1>8. PICK g : g = UpTo
    OBVIOUS
  <1> HIDE DEF UpTo
  <1>9. g = [k \in 0 .. n |-> IF k = 0 THEN <<>>
                              ELSE IF k \in T THEN g[k - 1] \o Payload(k) ELSE g[k - 1]]
    BY <1>7, <1>8
  <1>10. /\ g[0] = <<>>
         /\ \A k \in 1 .. n : g[k] = IF k \in T THEN g[k - 1] \o Payload(k) ELSE g[k - 1]
    <2>1. 0 \in 0 .. n /\ \A k \in 1 .. n : k \in 0 .. n /\ k # 0
      OBVIOUS
    <2>2. g[0] = <<>>
      BY <1>9, <2>1, Zenon
    <2>3. ASSUME NEW k \in 1 .. n
          PROVE  g[k] = IF k \in T THEN g[k - 1] \o Payload(k) ELSE g[k - 1]
      <3>1. k \in 0 .. n /\ k # 0
        BY <2>1
      <3> QED
        BY <1>9, <3>1, Zenon
    <2> QED
      BY <2>2, <2>3
  <1>11. PICK S : S = {k \in 0 .. n : g[k] = f[k]}
    OBVIOUS
  <1>12. 0 \in S
    BY <1>1, <1>10, <1>11 DEF Gathers
  <1>13. ASSUME NEW k \in 1 .. n, k - 1 \in S PROVE k \in S
    BY <1>3, <1>10, <1>11, <1>13
  <1>14. 0 .. n \subseteq S
    BY <1>12, <1>13, Induction
  <1> QED
    BY <1>1, <1>4, <1>8, <1>11, <1>14

\* A packet of a frame gives its part of the PES packet.
StartIn(p) == HeaderOf(p).mPayloadUnitStartIndicator
LEMMA PesPacketRead ==
  ASSUME NEW f \in Frames, NEW start \in Nat, start < f.size,
         NEW cc \in 0 .. CcModulus - 1, NEW p, p = PesPacket(f, start, cc)
  PROVE  /\ PayloadOf(p) = PesPayload(f, start)
         /\ StartIn(p) = IF start = 0 THEN 1 ELSE 0
         /\ Sound(p) /\ Carries(p, Pid(f), cc)
  <1>1. PICK y, afc, a, b : /\ y = (IF start = 0 THEN 1 ELSE 0) /\ afc = PesControl(f, start)
                            /\ a = PesField(f, start) /\ b = PesPayload(f, start)
    OBVIOUS
  <1>2. IsPacket(p, y, Pid(f), afc, cc, a, b)
    BY <1>1, PesParts
  <1>3. Shows(p, y, Pid(f), afc, cc, a, b)
    BY <1>2, PacketShows
  <1>4. afc \in {1, 3} /\ (afc = 1 => a = <<>>) /\ (afc = 3 => Len(a) = 1 + a[1])
    BY <1>1, PesFieldType
  <1>5. /\ SubSeq(p, 5 + Len(a), PacketSize) = b
        /\ HeaderOf(p).mAdaptationFieldControl = afc
        /\ HeaderOf(p).mPayloadUnitStartIndicator = y
        /\ afc # 1 => p[5] = a[1]
    BY <1>3 DEF Shows, HeaderShows, HeaderOf
  <1>6. PayloadOf(p) = b
    <2>1. CASE afc = 1
      <3>1. ~ AdaptationIn(p) /\ Len(a) = 0
        BY <1>4, <1>5, <2>1 DEF AdaptationIn
      <3> QED
        BY <1>5, <3>1 DEF PayloadOf
    <2>2. CASE afc = 3
      <3>1. AdaptationIn(p) /\ Len(a) = 1 + p[5]
        BY <1>4, <1>5, <2>2 DEF AdaptationIn
      <3> QED
        BY <1>5, <3>1 DEF PayloadOf
    <2> QED
      BY <1>4, <2>1, <2>2
  <1>7. Sound(p) /\ Carries(p, Pid(f), cc)
    BY <1>2, <1>4, PacketSound
  <1> QED
    BY <1>1, <1>5, <1>6, <1>7 DEF StartIn

\* The packets of a frame, after so much of its data: the first is marked as the
\* start, and no other, and the payloads are the PES packet so far.
FirstIs(s, n, f, first, cc) ==
  /\ first \in OfIn(s, n, Pid(f))
  /\ cc \in 0 .. CcModulus - 1 /\ PacketIn(s, first) = PesPacket(f, 0, cc)
  /\ \A k \in OfIn(s, n, Pid(f)) : first <= k /\ (StartIn(PacketIn(s, k)) = 1) = (k = first)
FrameIn(s, n, f, at) ==
  IF at = 0 THEN OfIn(s, n, Pid(f)) = {} /\ Gathered(s, n, Pid(f), <<>>)
  ELSE /\ \E first, cc : FirstIs(s, n, f, first, cc)
       /\ Gathered(s, n, Pid(f), EncodePes(f) \o SubSeq(Data(f), 1, at))

LEMMA FrameInEmpty ==
  ASSUME NEW f, NEW s
  PROVE  FrameIn(s, 0, f, 0)
  <1>1. OfIn(s, 0, Pid(f)) = {}
    BY DEF OfIn
  <1> QED
    BY <1>1, GatheredNone DEF FrameIn

\* A packet that is not of the frame changes nothing before its first.
LEMMA FrameInOther ==
  ASSUME NEW n \in Nat, NEW t, NEW s, NEW p, Grown(t, s, n, p), NEW f,
         Without(p, Pid(f)), FrameIn(s, n, f, 0)
  PROVE  FrameIn(t, n + 1, f, 0)
  <1>1. PICK pid : pid = Pid(f)
    OBVIOUS
  <1>2. OfIn(s, n, pid) = {} /\ Gathered(s, n, pid, <<>>)
    BY <1>1 DEF FrameIn
  <1>3. Without(p, pid)
    BY <1>1
  <1>4. OfIn(t, n + 1, pid) = {}
    BY <1>2, <1>3, OfGrown
  <1>5. Gathered(t, n + 1, pid, <<>>)
    <2>1. PICK e : e = <<>>
      OBVIOUS
    <2>2. Gathered(s, n, pid, e)
      BY <1>2, <2>1
    <2>3. Gathered(t, n + 1, pid, e)
      BY <1>3, <2>2, GatheredNext
    <2> QED
      BY <2>1, <2>3
  <1> QED
    BY <1>1, <1>4, <1>5 DEF FrameIn

LEMMA TablesNotOfFrame ==
  ASSUME NEW cc \in 0 .. CcModulus - 1, NEW f \in Frames
  PROVE  FrameIn(createPat(cc) \o createPmt(cc), 2, f, 0)
  <1>1. PICK p, q, t, a, b, e : /\ p = createPat(cc) /\ q = createPmt(cc) /\ t = p \o q
                                /\ a = SectionPayload(PatSection)
                                /\ b = SectionPayload(PmtSection) /\ e = <<>>
    OBVIOUS
  <1>2. /\ IsPacket(p, 1, 0, 1, cc, <<>>, a)
        /\ IsPacket(q, 1, PmtPid, 1, cc, <<>>, b)
    BY <1>1, TableParts
  <1>3. Pid(f) # 0 /\ Pid(f) # PmtPid
    BY FrameTypes
  <1>4. Sound(p) /\ Without(p, Pid(f))
    BY <1>2, <1>3, PacketSound
  <1>5. Sound(q) /\ Without(q, Pid(f))
    BY <1>2, <1>3, PacketSound
  <1>6. Whole(p, 1) /\ Grown(p, e, 0, p)
    <2>1. Whole(<<>> \o p, 0 + 1) /\ Grown(<<>> \o p, <<>>, 0, p)
      BY <1>4, WholeEmpty, WholeAppended
    <2>2. <<>> \o p = p
      BY <1>4, ConcatEmptySeq DEF Sound
    <2> QED
      BY <1>1, <2>1, <2>2
  <1>7. Grown(t, p, 1, q)
    <2>1. Whole(p \o q, 1 + 1) /\ Grown(p \o q, p, 1, q)
      BY <1>5, <1>6, WholeAppended
    <2> QED
      BY <1>1, <2>1
  <1>8. PICK i, j \in Nat : i = 0 /\ j = 1
    OBVIOUS
  <1>9. FrameIn(e, i, f, 0)
    BY <1>8, FrameInEmpty
  <1>10. FrameIn(p, i + 1, f, 0)
    <2>1. PICK u : u = p
      OBVIOUS
    <2>2. Grown(u, e, i, p)
      BY <1>6, <1>8, <2>1
    <2>3. FrameIn(u, i + 1, f, 0)
      BY <1>4, <1>9, <2>2, FrameInOther
    <2> QED
      BY <2>1, <2>3
  <1>11. FrameIn(p, j, f, 0) /\ Grown(t, p, j, q)
    <2>1. i + 1 = j
      BY <1>8
    <2> QED
      BY <1>7, <1>8, <1>10, <2>1
  <1>12. FrameIn(t, j + 1, f, 0)
    BY <1>5, <1>11, FrameInOther
  <1>13. j + 1 = 2
    BY <1>8
  <1> QED
    BY <1>1, <1>12, <1>13

\* The data up to a place, and the next part.
LEMMA DataUpTo ==
  ASSUME NEW f \in Frames, NEW at \in Nat, NEW n \in Nat, at + n <= f.size
  PROVE  /\ SubSeq(Data(f), 1, at) \in Seq(Nat) /\ Len(SubSeq(Data(f), 1, at)) = at
         /\ SubSeq(Data(f), 1, at) \o SubSeq(Data(f), at + 1, at + n)
              = SubSeq(Data(f), 1, at + n)
  <1>1. f.size \in Nat
    BY FrameTypes
  <1>2. PICK z : z = 0
    OBVIOUS
  <1>3. PICK a, b, c, m : /\ a = DataPart(f, z, at) /\ b = DataPart(f, at, n) /\ m = at + n
                          /\ c = DataPart(f, z, m)
    OBVIOUS
  <1>4. a \in Seq(Nat) /\ Len(a) = at /\ \A i \in 1 .. at : a[i] = 255 + z + i
    <2>1. z \in Nat /\ z + at <= f.size
      BY <1>1, <1>2
    <2> QED
      BY <1>3, <2>1, DataSlice
  <1>5. b \in Seq(Nat) /\ Len(b) = n /\ \A i \in 1 .. n : b[i] = 255 + at + i
    BY <1>3, DataSlice
  <1>6. c \in Seq(Nat) /\ Len(c) = m /\ \A i \in 1 .. m : c[i] = 255 + z + i
    <2>1. z \in Nat /\ m \in Nat /\ z + m <= f.size
      BY <1>1, <1>2, <1>3
    <2> QED
      BY <1>3, <2>1, DataSlice
  <1>7. /\ a \o b \in Seq(Nat) /\ Len(a \o b) = m
        /\ \A i \in 1 .. at : (a \o b)[i] = a[i]
        /\ \A i \in 1 .. n : (a \o b)[at + i] = b[i]
    <2>1. PICK S : S = Nat
      OBVIOUS
    <2>2. Chained(S, a, at, b, n, a \o b)
      BY <1>4, <1>5, <2>1, ConcatChained
    <2> QED
      BY <1>3, <2>1, <2>2 DEF Chained
  <1>8. ASSUME NEW i \in 1 .. m PROVE (a \o b)[i] = c[i]
    <2>1. c[i] = 255 + i
      BY <1>2, <1>6
    <2>2. CASE i <= at
      <3>1. i \in 1 .. at
        BY <2>2
      <3> QED
        BY <1>2, <1>4, <1>7, <2>1, <3>1
    <2>3. CASE ~ (i <= at)
      <3>1. PICK j \in 1 .. n : i = at + j
        <4>1. i - at \in 1 .. n /\ i = at + (i - at)
          BY <1>3, <2>3
        <4> QED
          BY <4>1
      <3>2. (a \o b)[at + j] = b[j] /\ b[j] = 255 + at + j
        BY <1>5, <1>7
      <3> QED
        BY <2>1, <3>1, <3>2
    <2> QED
      BY <2>2, <2>3
  <1>9. a \o b = c
    BY <1>6, <1>7, <1>8, SeqEqual
  <1>10. /\ a = SubSeq(Data(f), 1, at) /\ b = SubSeq(Data(f), at + 1, at + n)
         /\ c = SubSeq(Data(f), 1, at + n)
    <2>1. z + 1 = 1 /\ z + at = at /\ z + m = at + n
      BY <1>2, <1>3
    <2> QED
      BY <1>3, <2>1 DEF DataPart
  <1> QED
    BY <1>4, <1>9, <1>10

LEMMA EncodePesType ==
  ASSUME NEW f \in Frames
  PROVE  EncodePes(f) \in Seq(Nat)
  BY PesWritten, BytesNat

\* The next packet of a frame.
LEMMA FrameInNext ==
  ASSUME NEW f \in Frames, NEW start \in Nat, start < f.size,
         NEW cc \in 0 .. CcModulus - 1, NEW p, p = PesPacket(f, start, cc),
         NEW n \in Nat, NEW t, NEW s, Grown(t, s, n, p), FrameIn(s, n, f, start)
  PROVE  FrameIn(t, n + 1, f, start + Taken(f, start))
  <1>1. PICK pid, m, k : pid = Pid(f) /\ m = Taken(f, start) /\ k = n + 1
    OBVIOUS
  <1>2. m \in Nat \ {0} /\ start + m <= f.size /\ f.size \in Nat
    BY <1>1, TakenType, FrameTypes
  <1>3. /\ PayloadOf(p) = PesPayload(f, start)
        /\ StartIn(p) = IF start = 0 THEN 1 ELSE 0
        /\ Sound(p) /\ Carries(p, pid, cc)
    BY <1>1, PesPacketRead
  <1>4. /\ OfIn(t, k, pid) = OfIn(s, n, pid) \cup {k}
        /\ OfIn(s, n, pid) \subseteq 1 .. n
    BY <1>1, <1>3, OfGrown
  <1>5. PacketIn(t, k) = p /\ \A i \in 1 .. n : PacketIn(t, i) = PacketIn(s, i)
    BY <1>1 DEF Grown
  <1>6. \A bytes : Gathered(s, n, pid, bytes) => Gathered(t, k, pid, bytes \o PayloadOf(p))
    BY <1>1, <1>3, GatheredNext
  <1>7. PICK d, e : d = SubSeq(Data(f), start + 1, start + m) /\ e = SubSeq(Data(f), 1, start)
    OBVIOUS
  <1>8. e \in Seq(Nat) /\ d \in Seq(Nat) /\ e \o d = SubSeq(Data(f), 1, start + m)
    <2>1. e \in Seq(Nat) /\ e \o d = SubSeq(Data(f), 1, start + m)
      BY <1>2, <1>7, DataUpTo
    <2>2. d \in Seq(Nat)
      BY <1>2, <1>7, DataSlice DEF DataPart
    <2> QED
      BY <2>1, <2>2
  <1>9. EncodePes(f) \in Seq(Nat)
    BY EncodePesType
  <1>10. start + m # 0
    BY <1>2
  <1>11. CASE start = 0
    <2>1. OfIn(s, n, pid) = {} /\ Gathered(s, n, pid, <<>>)
      BY <1>1, <1>11 DEF FrameIn
    <2>2. FirstIs(t, k, f, k, cc)
      <3>1. OfIn(t, k, pid) = {k}
        BY <1>4, <2>1
      <3>2. StartIn(p) = 1 /\ k <= k
        BY <1>1, <1>3, <1>11
      <3>3. PacketIn(t, k) = PesPacket(f, 0, cc)
        BY <1>5, <1>11
      <3> QED
        BY <1>1, <1>5, <3>1, <3>2, <3>3 DEF FirstIs
    <2>3. Gathered(t, k, pid, EncodePes(f) \o SubSeq(Data(f), 1, start + m))
      <3>1. Gathered(t, k, pid, <<>> \o PayloadOf(p))
        BY <1>6, <2>1
      <3>2. PayloadOf(p) = EncodePes(f) \o d
        BY <1>1, <1>3, <1>7, <1>11 DEF PesPayload, StartPes
      <3>3. EncodePes(f) \o d \in Seq(Nat)
        BY <1>8, <1>9, ConcatProperties
      <3>4. <<>> \o PayloadOf(p) = PayloadOf(p)
        BY <3>2, <3>3, ConcatEmptySeq
      <3>5. d = SubSeq(Data(f), 1, start + m)
        <4>1. start + 1 = 1
          BY <1>11
        <4> QED
          BY <1>7, <4>1
      <3> QED
        BY <3>1, <3>2, <3>4, <3>5
    <2> QED
      BY <1>1, <1>10, <2>2, <2>3 DEF FrameIn
  <1>12. CASE start # 0
    <2>1. PICK first, x : FirstIs(s, n, f, first, x)
      BY <1>12 DEF FrameIn
    <2>2. /\ first \in OfIn(s, n, pid)
          /\ x \in 0 .. CcModulus - 1 /\ PacketIn(s, first) = PesPacket(f, 0, x)
          /\ \A j \in OfIn(s, n, pid) : first <= j /\ (StartIn(PacketIn(s, j)) = 1) = (j = first)
      BY <1>1, <2>1 DEF FirstIs
    <2>3. FirstIs(t, k, f, first, x)
      <3>1. first \in 1 .. n /\ first \in OfIn(t, k, pid) /\ first <= k /\ k # first
        BY <1>1, <1>4, <2>2
      <3>2. PacketIn(t, first) = PesPacket(f, 0, x)
        BY <1>5, <2>2, <3>1
      <3>3. ASSUME NEW j \in OfIn(t, k, pid)
            PROVE  first <= j /\ (StartIn(PacketIn(t, j)) = 1) = (j = first)
        <4>1. CASE j = k
          <5>1. StartIn(PacketIn(t, j)) = 0
            BY <1>3, <1>5, <1>12, <4>1
          <5> QED
            BY <3>1, <4>1, <5>1
        <4>2. CASE j \in OfIn(s, n, pid)
          <5>1. PacketIn(t, j) = PacketIn(s, j)
            BY <1>4, <1>5, <4>2
          <5> QED
            BY <2>2, <4>2, <5>1
        <4> QED
          BY <1>4, <4>1, <4>2
      <3> QED
        BY <1>1, <2>2, <3>1, <3>2, <3>3 DEF FirstIs
    <2>4. Gathered(t, k, pid, EncodePes(f) \o SubSeq(Data(f), 1, start + m))
      <3>1. Gathered(s, n, pid, EncodePes(f) \o e)
        BY <1>1, <1>7, <1>12 DEF FrameIn
      <3>2. Gathered(t, k, pid, (EncodePes(f) \o e) \o PayloadOf(p))
        BY <1>6, <3>1
      <3>3. PayloadOf(p) = d
        <4>1. PayloadOf(p) = <<>> \o d
          BY <1>1, <1>3, <1>7, <1>12 DEF PesPayload, StartPes
        <4> QED
          BY <1>8, <4>1, ConcatEmptySeq
      <3>4. (EncodePes(f) \o e) \o d = EncodePes(f) \o (e \o d)
        <4>1. PICK a : a = EncodePes(f)
          OBVIOUS
        <4>2. Regroups(a, e, d)
          BY <1>8, <1>9, <4>1, ConcatRegroups
        <4> QED
          BY <4>1, <4>2 DEF Regroups
      <3> QED
        BY <1>8, <3>2, <3>3, <3>4
    <2> QED
      BY <1>1, <1>10, <2>3, <2>4 DEF FrameIn
  <1> QED
    BY <1>11, <1>12

\* What the packets of a frame are while it is encoded.
FrameInv ==
  op = "encode" =>
    /\ FrameIn(lSb, Len(lSb) \div PacketSize, frame, pos)
    /\ pc = "callback" => pos = frame.size

LEMMA EncodeFrameFrame ==
  ASSUME IInv, NEW f \in Frames, NEW randomAccess \in BOOLEAN, EncodeFrame(f, randomAccess)
  PROVE  FrameInv'
  <1>1. lSb = <<>> /\ pos = 0 /\ pos' = pos /\ frame' = f /\ pc' = "createPes"
    BY DEF EncodeFrame, IInv, PhaseInv
  <1>2. CASE TablesDue(randomAccess)
    <2>1. PICK cc, t : cc = NextCc(mPidCcMap, 0) /\ t = createPat(cc) \o createPmt(cc)
      OBVIOUS
    <2>2. lSb' = t
      BY <1>2, <2>1 DEF EncodeFrame
    <2>3. cc \in 0 .. CcModulus - 1
      <3>1. PICK D : D = {0} \cup Types
        OBVIOUS
      <3>2. /\ DOMAIN mPidCcMap \subseteq D /\ 0 \in D
            /\ \A k \in DOMAIN mPidCcMap : mPidCcMap[k] \in 0 .. CcModulus - 1
        BY <3>1 DEF IInv, TypeOK
      <3> QED
        BY <2>1, <3>2, NextCcType
    <2>4. Whole(t, 2)
      BY <2>1, <2>3, TablesFirst
    <2>5. Len(lSb') \div PacketSize = 2
      BY <2>2, <2>4, WholeCount
    <2>6. FrameIn(t, 2, f, 0)
      BY <2>1, <2>3, TablesNotOfFrame
    <2> QED
      BY <1>1, <2>2, <2>5, <2>6 DEF FrameInv
  <1>3. CASE ~ TablesDue(randomAccess)
    <2>1. lSb' = <<>>
      BY <1>1, <1>3 DEF EncodeFrame
    <2>2. Len(lSb') \div PacketSize = 0
      BY <2>1, WholeEmpty, WholeCount
    <2> QED
      BY <1>1, <2>2, FrameInEmpty DEF FrameInv
  <1> QED
    BY <1>2, <1>3

LEMMA createPesFrame ==
  ASSUME IInv, FrameInv, createPes
  PROVE  FrameInv'
  <1>1. PICK n, s, cc, p, t : /\ n = Len(lSb) \div PacketSize /\ s = lSb
                              /\ cc = NextCc(mPidCcMap, frame.mStreamType)
                              /\ p = PesPacket(frame, pos, cc) /\ t = s \o p
    OBVIOUS
  <1>2. op = "encode" /\ pc = "createPes" /\ frame \in Frames
    BY DEF createPes, IInv, PhaseInv
  <1>3. lSb' = t /\ pos' = pos + Taken(frame, pos) /\ frame' = frame /\ pc' = pc
    BY <1>1 DEF createPes
  <1>4. Whole(s, n)
    BY <1>1, <1>2, CountPackets
  <1>5. cc \in 0 .. CcModulus - 1
    <2>1. PICK D : D = {0} \cup Types
      OBVIOUS
    <2>2. /\ DOMAIN mPidCcMap \subseteq D
          /\ \A k \in DOMAIN mPidCcMap : mPidCcMap[k] \in 0 .. CcModulus - 1
      BY <2>1 DEF IInv, TypeOK
    <2>3. frame.mStreamType \in D
      BY <1>2, <2>1, FrameTypes
    <2> QED
      BY <1>1, <2>2, <2>3, NextCcType
  <1>6. pos \in Nat /\ pos < frame.size
    <2>1. pos \in 0 .. frame.size
      BY DEF IInv, TypeOK
    <2> QED
      BY <2>1 DEF createPes
  <1>7. Whole(t, n + 1) /\ Grown(t, s, n, p) /\ n \in Nat
    <2>1. Sound(p)
      BY <1>1, <1>2, <1>5, <1>6, PesPacketRead
    <2>2. Whole(s \o p, n + 1) /\ Grown(s \o p, s, n, p)
      BY <1>4, <2>1, WholeAppended
    <2> QED
      BY <1>1, <1>4, <2>2 DEF Whole
  <1>8. Len(lSb') \div PacketSize = n + 1
    BY <1>3, <1>7, WholeCount
  <1>9. FrameIn(s, n, frame, pos)
    BY <1>1, <1>2 DEF FrameInv
  <1>10. FrameIn(t, n + 1, frame, pos + Taken(frame, pos))
    BY <1>1, <1>2, <1>5, <1>6, <1>7, <1>9, FrameInNext
  <1> QED
    BY <1>2, <1>3, <1>8, <1>10 DEF FrameInv

LEMMA FrameInvNext ==
  ASSUME IInv, FrameInv, [Next]_vars
  PROVE  FrameInv'
  <1>1. ASSUME NEW f \in Frames, NEW randomAccess \in BOOLEAN, EncodeFrame(f, randomAccess)
        PROVE  FrameInv'
    BY <1>1, EncodeFrameFrame
  <1>2. CASE createPes
    BY <1>2, createPesFrame
  <1>3. CASE PesDone
    <2>1. pos = frame.size
      <3>1. pos \in 0 .. frame.size /\ pos >= frame.size
        BY <1>3 DEF PesDone, IInv, TypeOK
      <3>2. pc = "createPes" /\ op = "encode" /\ frame.size \in Nat
        BY <1>3, FrameTypes DEF PesDone, IInv, PhaseInv
      <3> QED
        BY <3>1, <3>2
    <2> QED
      BY <1>3, <2>1 DEF PesDone, FrameInv
  <1>4. CASE createPcr
    BY <1>4 DEF createPcr, Sends, FrameInv
  <1>5. CASE createNull
    BY <1>5 DEF createNull, Sends, FrameInv
  <1>6. CASE OtherMuxer
    BY <1>6 DEF OtherMuxer, FrameInv
  <1>7. CASE CallbackReturns
    BY <1>7 DEF CallbackReturns, FrameInv
  <1>8. CASE UNCHANGED vars
    BY <1>8 DEF vars, FrameInv
  <1> QED
    BY <1>1, <1>2, <1>3, <1>4, <1>5, <1>6, <1>7, <1>8 DEF Next

\* The flags of an adaptation field do not depend on its length.
LEMMA FlagsSame ==
  ASSUME NEW x \in 1 .. 255, NEW y \in 1 .. 255, NEW ra \in 0 .. 1, NEW pcr \in 0 .. 1
  PROVE  EncodeAdaptation(Field(x, ra, pcr))[2] = EncodeAdaptation(Field(y, ra, pcr))[2]
  <1>1. PICK h, g, E : /\ h = Field(x, ra, pcr) /\ g = Field(y, ra, pcr)
                       /\ E = Ends(AdaptationFieldHeader)
    OBVIOUS
  <1>2. x \in 0 .. 255 /\ y \in 0 .. 255
    OBVIOUS
  <1>3. AdaptationValues(h) /\ AdaptationValues(g)
    BY <1>1, <1>2, FieldIsValue
  <1>4. h.mAdaptationFieldLength # 0 /\ g.mAdaptationFieldLength # 0
    <2>1. h.mAdaptationFieldLength = x /\ g.mAdaptationFieldLength = y
      BY <1>1, FieldFields
    <2> QED
      BY <2>1
  <1>5. /\ Sized(AdaptationFieldHeader, 9, 2) /\ Values(AdaptationFieldHeader, 9, h)
        /\ Values(AdaptationFieldHeader, 9, g)
    BY <1>3, AdaptationReadable, ReadableHeader
  <1>6. ASSUME NEW i \in 1 .. 8
        PROVE  SameAt(AdaptationFieldHeader, 9, E, h, g, 8 * 2 - 8 + i)
    <2>1. PICK q \in 1 .. 9, j \in 1 .. 1 : q = i + 1 /\ j = 1 /\ q # 1 /\ q - 1 \in 1 .. 9
      <3>1. i + 1 \in 1 .. 9 /\ 1 \in 1 .. 1 /\ i + 1 # 1 /\ i + 1 - 1 \in 1 .. 9
        OBVIOUS
      <3> QED
        BY <3>1
    <2>2. E[q - 1] = 7 + (q - 1)
      BY <1>1, <2>1, AdaptationHeaderLayout
    <2>3. 8 * 2 - 8 + i = E[q - 1] + j
      BY <2>1, <2>2
    <2>4. AdaptationFieldHeader[q][2] = 1
      BY <2>1, AdaptationFields
    <2>5. h[AdaptationFieldHeader[q][1]] = g[AdaptationFieldHeader[q][1]]
      <3>1. \A name \in Names(AdaptationFieldHeader) :
              name # "mAdaptationFieldLength" => h[name] = g[name]
        BY <1>1, FieldFields
      <3>2. AdaptationFieldHeader[q][1] \in Names(AdaptationFieldHeader)
            /\ AdaptationFieldHeader[q][1] # "mAdaptationFieldLength"
        BY <2>1, AdaptationFields, AdaptationNames
      <3> QED
        BY <3>1, <3>2
    <2> QED
      BY <2>3, <2>4, <2>5 DEF SameAt
  <1>7. Encode(AdaptationFieldHeader, h)[2] = Encode(AdaptationFieldHeader, g)[2]
    <2>1. PICK k \in 1 .. 2 : k = 2
      OBVIOUS
    <2>2. \A i \in 1 .. 8 : SameAt(AdaptationFieldHeader, 9, Ends(AdaptationFieldHeader),
                                   h, g, 8 * k - 8 + i)
      BY <1>1, <1>6, <2>1
    <2>3. Encode(AdaptationFieldHeader, h)[k] = Encode(AdaptationFieldHeader, g)[k]
      BY <1>5, <2>2, SameOctet
    <2> QED
      BY <2>1, <2>3
  <1> QED
    BY <1>1, <1>4, <1>7 DEF EncodeAdaptation

\* No flag is set in a byte that is zero.
LEMMA NoFlags ==
  ASSUME NEW x \in 1 .. 255
  PROVE  EncodeAdaptation(Field(x, 0, 0))[2] = 0
  <1>1. PICK h, E : h = Field(x, 0, 0) /\ E = Ends(AdaptationFieldHeader)
    OBVIOUS
  <1>2. AdaptationValues(h)
    <2>1. x \in 0 .. 255 /\ 0 \in 0 .. 1
      OBVIOUS
    <2>2. PICK z : z = 0
      OBVIOUS
    <2>3. AdaptationValues(Field(x, z, z))
      BY <2>1, <2>2, FieldIsValue
    <2> QED
      BY <1>1, <2>2, <2>3
  <1>3. h.mAdaptationFieldLength # 0
    <2>1. h.mAdaptationFieldLength = x
      BY <1>1, FieldFields
    <2> QED
      BY <2>1
  <1>4. Sized(AdaptationFieldHeader, 9, 2) /\ Values(AdaptationFieldHeader, 9, h)
    BY <1>2, AdaptationReadable, ReadableHeader
  <1>5. PICK W : /\ ByteBits(W, 2) /\ Encode(AdaptationFieldHeader, h) = Octets(W)
                 /\ Fields(AdaptationFieldHeader, 9, h, E, W)
    BY <1>1, <1>4, EncodeOctets
  <1>6. ASSUME NEW i \in 1 .. 8 PROVE W[8 + i] = 0
    <2>1. PICK q \in 1 .. 9 : q = i + 1 /\ q # 1 /\ q - 1 \in 1 .. 9
      <3>1. i + 1 \in 1 .. 9 /\ i + 1 # 1 /\ i + 1 - 1 \in 1 .. 9
        OBVIOUS
      <3> QED
        BY <3>1
    <2>2. E[q - 1] = 7 + (q - 1)
      BY <1>1, <2>1, AdaptationHeaderLayout
    <2>3. AdaptationFieldHeader[q][2] = 1
      BY <2>1, AdaptationFields
    <2>4. h[AdaptationFieldHeader[q][1]] = 0
      <3>1. \A name \in Names(AdaptationFieldHeader) :
              name # "mAdaptationFieldLength" => h[name] = 0
        BY <1>1, FieldFields
      <3>2. AdaptationFieldHeader[q][1] \in Names(AdaptationFieldHeader)
            /\ AdaptationFieldHeader[q][1] # "mAdaptationFieldLength"
        BY <2>1, AdaptationFields, AdaptationNames
      <3> QED
        BY <3>1, <3>2
    <2>5. PICK j : j = 1
      OBVIOUS
    <2>6. W[E[q - 1] + j] = Bits(h[AdaptationFieldHeader[q][1]], AdaptationFieldHeader[q][2])[j]
      <3>1. j \in 1 .. AdaptationFieldHeader[q][2]
        BY <2>3, <2>5
      <3> QED
        BY <1>5, <3>1 DEF Fields
    <2>7. Bits(0, 1)[1] = 0
      <3>1. Power[0] = 1
        BY Powers
      <3>2. Bits(0, 1)[1] = (0 \div Power[1 - 1]) % 2
        BY DEF Bits
      <3>3. (0 \div 1) % 2 = 0
        OBVIOUS
      <3> QED
        BY <3>1, <3>2, <3>3
    <2>8. E[q - 1] + j = 8 + i
      BY <2>1, <2>2, <2>5
    <2> QED
      BY <2>3, <2>4, <2>5, <2>6, <2>7, <2>8
  <1>7. PICK k \in 1 .. 2 : k = 2
    OBVIOUS
  <1>8. PICK v : v = ByteAt(W, k)
    OBVIOUS
  <1>9. v \in [1 .. 8 -> Bit] /\ \A i \in 1 .. 8 : v[i] = W[8 * k - 8 + i]
    BY <1>5, <1>8, OctetBits
  <1>10. \A i \in 1 .. 8 : v[i] = 0
    BY <1>6, <1>7, <1>9
  <1>11. Number(v) = 128 * v[1] + 64 * v[2] + 32 * v[3] + 16 * v[4]
                     + 8 * v[5] + 4 * v[6] + 2 * v[7] + v[8]
    BY <1>9, NumberOfEight
  <1>12. /\ v[1] = 0 /\ v[2] = 0 /\ v[3] = 0 /\ v[4] = 0
         /\ v[5] = 0 /\ v[6] = 0 /\ v[7] = 0 /\ v[8] = 0
    BY <1>10
  <1>13. Number(v) = 0
    BY <1>11, <1>12
  <1>14. Octets(W)[k] = Number(v)
    BY <1>5, <1>8, OctetsType
  <1> QED
    BY <1>1, <1>3, <1>5, <1>7, <1>13, <1>14 DEF EncodeAdaptation

\* What a receiver reads from two bytes with these flags.
FlagsOf(ra, pcr) == EncodeAdaptation(Field(1, ra, pcr))[2]
LEMMA FlagsRead ==
  ASSUME NEW q, Bytes(q, 2), NEW ra \in 0 .. 1, NEW pcr \in 0 .. 1,
         q[1] # 0, q[2] = FlagsOf(ra, pcr)
  PROVE  /\ DecodeAdaptation(q).mRandomAccessIndicator = ra
         /\ DecodeAdaptation(q).mPcrFlag = pcr
  <1>1. q \in Seq(Byte) /\ Len(q) = 2
    BY DEF Bytes
  <1>2. PICK x \in 1 .. 255 : x = q[1]
    <2>1. 1 \in 1 .. Len(q)
      BY <1>1
    <2>2. q[1] \in Byte
      BY <1>1, <2>1, ElementOfSeq
    <2> QED
      BY <2>2 DEF Byte
  <1>3. PICK h, e : h = Field(x, ra, pcr) /\ e = EncodeAdaptation(h)
    OBVIOUS
  <1>4. Bytes(e, 2) /\ e[1] = x
    BY <1>3, FieldBytes
  <1>5. e[2] = q[2]
    <2>1. PICK y \in 1 .. 255 : y = 1
      OBVIOUS
    <2>2. EncodeAdaptation(Field(x, ra, pcr))[2] = EncodeAdaptation(Field(y, ra, pcr))[2]
      BY FlagsSame
    <2> QED
      BY <1>3, <2>1, <2>2 DEF FlagsOf
  <1>6. q = e
    <2>1. e \in Seq(Byte) /\ Len(e) = 2
      BY <1>4 DEF Bytes
    <2>2. ASSUME NEW i \in 1 .. 2 PROVE q[i] = e[i]
      <3>1. i = 1 \/ i = 2
        OBVIOUS
      <3> QED
        BY <1>2, <1>4, <1>5, <3>1
    <2> QED
      BY <1>1, <2>1, <2>2, SeqEqual
  <1>7. x \in 0 .. 255 /\ x # 0
    OBVIOUS
  <1>8. AdaptationValues(h) /\ h.mAdaptationFieldLength = x
    <2>1. AdaptationValues(h)
      BY <1>3, <1>7, FieldIsValue
    <2>2. h.mAdaptationFieldLength = x
      BY <1>3, FieldFields
    <2> QED
      BY <2>1, <2>2
  <1>9. e = Encode(AdaptationFieldHeader, h)
    BY <1>3, <1>7, <1>8 DEF EncodeAdaptation
  <1>10. Decode(AdaptationFieldHeader, e) = [name \in Names(AdaptationFieldHeader) |-> h[name]]
    <2>1. Readable(AdaptationFieldHeader, 9, 2, h)
      BY <1>8, AdaptationReadable
    <2> QED
      BY <1>9, <2>1, HeaderReadBack
  <1>11. DecodeAdaptation(q) = Decode(AdaptationFieldHeader, e)
    <2>1. SubSeq(q, 1, 2) = q
      BY <1>1, SliceAll
    <2> QED
      BY <1>2, <1>6, <1>7, <2>1 DEF DecodeAdaptation
  <1>12. h.mRandomAccessIndicator = ra /\ h.mPcrFlag = pcr
    BY <1>3, FieldFields
  <1>13. PICK d : d = DecodeAdaptation(q)
    OBVIOUS
  <1>14. d.mRandomAccessIndicator = ra /\ d.mPcrFlag = pcr
    BY <1>10, <1>11, <1>12, <1>13, AdaptationNames
  <1> QED
    BY <1>13, <1>14

PcrOf(f) == IF Pid(f) = PcrPid THEN 1 ELSE 0

\* An adaptation field tells the random access point, and the PCR on its PID.
Marks(a, f) ==
  /\ Len(a) >= 2 /\ a[1] # 0
  /\ a[2] = FlagsOf(f.mRandomAccess, PcrOf(f))
  /\ Pid(f) = PcrPid => Len(a) >= 8 /\ \A i \in 1 .. 6 : a[2 + i] = writePcr(f.mPcr)[i]

LEMMA FirstFieldMarks ==
  ASSUME NEW f \in Frames, HasField(f)
  PROVE  Marks(FirstField(f), f)
  <1>1. PICK s, ra, pcr : s = FirstField(f) /\ ra = f.mRandomAccess /\ pcr = PcrOf(f)
    OBVIOUS
  <1>2. ra \in 0 .. 1 /\ BitSeq(f.mPcr, 33)
    <2>1. f.mRandomAccess \in {0, 1} /\ f.mPcr \in Stamps
      BY FrameTypes
    <2> QED
      BY <1>1, <2>1, StampBits
  <1>3. pcr \in 0 .. 1
    BY <1>1 DEF PcrOf
  <1>4. PICK y \in 1 .. 255 : y = 1
    OBVIOUS
  <1>5. CASE Pid(f) = PcrPid
    <2>1. PICK a, b, x : x = 7 /\ a = EncodeAdaptation(Field(x, ra, pcr)) /\ b = writePcr(f.mPcr)
      OBVIOUS
    <2>2. pcr = 1
      BY <1>1, <1>5 DEF PcrOf
    <2>3. s = a \o b
      BY <1>1, <1>5, <2>1, <2>2 DEF FirstField
    <2>4. x \in 1 .. 255
      BY <2>1
    <2>5. Bytes(a, 2) /\ a[1] = x
      BY <1>2, <1>3, <2>1, <2>4, FieldBytes
    <2>6. Bytes(b, 6)
      BY <1>2, <2>1, PcrWritten
    <2>7. a \in Seq(Byte) /\ Len(a) = 2 /\ b \in Seq(Byte) /\ Len(b) = 6
      BY <2>5, <2>6 DEF Bytes
    <2>8. Chained(Byte, a, 2, b, 6, s)
      BY <2>3, <2>7, ConcatChained
    <2>9. /\ Len(s) = 8 /\ s[1] = a[1] /\ s[2] = a[2]
          /\ \A i \in 1 .. 6 : s[2 + i] = b[i]
      <3>1. 1 \in 1 .. 2 /\ 2 \in 1 .. 2 /\ 2 + 6 = 8
        OBVIOUS
      <3> QED
        BY <2>8, <3>1 DEF Chained
    <2>10. a[2] = FlagsOf(ra, pcr)
      <3>1. EncodeAdaptation(Field(x, ra, pcr))[2] = EncodeAdaptation(Field(y, ra, pcr))[2]
        BY <1>2, <1>3, <2>4, FlagsSame
      <3> QED
        BY <1>4, <2>1, <3>1 DEF FlagsOf
    <2>11. s[1] # 0
      BY <2>1, <2>5, <2>9
    <2> QED
      BY <1>1, <2>1, <2>9, <2>10, <2>11 DEF Marks
  <1>6. CASE Pid(f) # PcrPid
    <2>1. pcr = 0 /\ ra = 1
      BY <1>1, <1>6 DEF PcrOf, HasField
    <2>2. s = EncodeAdaptation(Field(y, ra, pcr))
      BY <1>1, <1>4, <1>6, <2>1 DEF FirstField
    <2>3. Bytes(s, 2) /\ s[1] = y
      BY <1>2, <1>3, <2>2, FieldBytes
    <2>4. Len(s) = 2 /\ s[1] # 0
      BY <2>3 DEF Bytes
    <2>5. s[2] = FlagsOf(ra, pcr)
      BY <1>4, <2>2 DEF FlagsOf
    <2> QED
      BY <1>1, <1>6, <2>4, <2>5 DEF Marks
  <1> QED
    BY <1>5, <1>6

\* Stuffing leaves the marks as they are.
LEMMA LongerMarks ==
  ASSUME NEW f, NEW s, s \in Seq(Byte), s # <<>>, Marks(s, f), NEW n \in Nat, s[1] + n <= 255
  PROVE  Marks(Longer(s, n), f)
  <1>1. PICK a : a = Longer(s, n)
    OBVIOUS
  <1>2. /\ a \in Seq(Byte) /\ Len(a) = Len(s) + n /\ a[1] = s[1] + n
        /\ \A i \in 2 .. Len(s) : a[i] = s[i]
    BY <1>1, LongerType
  <1>3. Len(s) \in Nat /\ Len(s) >= 2
    BY LenProperties DEF Marks
  <1>4. s[1] \in Nat /\ s[1] # 0
    <2>1. 1 \in 1 .. Len(s)
      BY <1>3
    <2>2. s[1] \in Byte
      BY <2>1, ElementOfSeq
    <2>3. s[1] # 0
      BY DEF Marks
    <2>4. Byte \subseteq Nat
      BY DEF Byte
    <2> QED
      BY <2>2, <2>3, <2>4
  <1>5. a[1] # 0 /\ a[2] = s[2] /\ Len(a) >= 2
    <2>1. 2 \in 2 .. Len(s)
      BY <1>3
    <2> QED
      BY <1>2, <1>3, <1>4, <2>1
  <1>6. ASSUME Pid(f) = PcrPid
        PROVE  Len(a) >= 8 /\ \A i \in 1 .. 6 : a[2 + i] = writePcr(f.mPcr)[i]
    <2>1. Len(s) >= 8 /\ \A i \in 1 .. 6 : s[2 + i] = writePcr(f.mPcr)[i]
      BY <1>6 DEF Marks
    <2>2. \A i \in 1 .. 6 : 2 + i \in 2 .. Len(s)
      BY <1>3, <2>1
    <2> QED
      BY <1>2, <1>3, <2>1, <2>2
  <1>7. a[2] = FlagsOf(f.mRandomAccess, PcrOf(f))
    BY <1>5 DEF Marks
  <1> QED
    BY <1>1, <1>5, <1>6, <1>7 DEF Marks

\* The adaptation field of the first packet: with marks, or as there is nothing
\* to mark, without flags or not there.
LEMMA FirstPacketMarks ==
  ASSUME NEW f \in Frames, 0 < f.size, NEW a, a = PesField(f, 0)
  PROVE  \/ PesControl(f, 0) = 3 /\ Marks(a, f)
         \/ /\ f.mRandomAccess = 0 /\ Pid(f) # PcrPid
            /\ PesControl(f, 0) = 1 \/ (PesControl(f, 0) = 3 /\ a[1] = 0)
  <1>1. PICK z, n : z = 0 /\ n = Stuffing(f, z)
    OBVIOUS
  <1>2. z \in Nat /\ z < f.size
    BY <1>1
  <1>3. n \in 0 .. 255
    BY <1>1, <1>2, StuffingType
  <1>4. CASE HasField(f)
    <2>1. PICK s : s = FirstField(f)
      OBVIOUS
    <2>2. Marks(s, f) /\ s \in Seq(Byte) /\ s # <<>> /\ Len(s) = 1 + s[1]
      BY <1>4, <2>1, FirstFieldMarks, FirstFieldType
    <2>3. FirstControl(f, 0) = 3 /\ StartField(f, 0) = s
      BY <1>4, <2>1 DEF FirstControl, StartField
    <2>4. CASE n = 0
      <3>1. PesControl(f, 0) = 3 /\ a = s
        BY <1>1, <2>3, <2>4 DEF PesControl, PesField
      <3> QED
        BY <2>2, <3>1
    <2>5. CASE n # 0
      <3>1. PesControl(f, 0) = 3 /\ a = Longer(s, n)
        BY <1>1, <2>3, <2>5 DEF PesControl, PesField
      <3>2. s[1] + n <= 255
        <4>1. /\ 4 + Len(StartField(f, z)) + Len(StartPes(f, z)) + Taken(f, z)
                   + Stuffing(f, z) = PacketSize
              /\ Taken(f, z) \in Nat \ {0}
          BY <1>2, StuffingType
        <4>2. Len(StartPes(f, z)) \in Nat /\ Len(StartField(f, z)) = 1 + s[1] /\ s[1] \in Nat
          <5>1. Len(StartPes(f, z)) \in 0 .. 19
            BY <1>2, StartTypes
          <5>2. 1 \in 1 .. Len(s)
            BY <2>2, EmptySeq, LenProperties
          <5>3. s[1] \in Byte
            BY <2>2, <5>2, ElementOfSeq
          <5>4. s[1] \in Nat
            BY <5>3 DEF Byte
          <5>5. Len(StartField(f, z)) = 1 + s[1]
            BY <1>1, <2>2, <2>3
          <5> QED
            BY <5>1, <5>4, <5>5
        <4> QED
          BY <1>1, <1>3, <4>1, <4>2, Sizes
      <3>3. n \in Nat
        BY <1>3
      <3>4. Marks(Longer(s, n), f)
        BY <2>2, <3>2, <3>3, LongerMarks
      <3> QED
        BY <3>1, <3>4
    <2> QED
      BY <2>4, <2>5
  <1>5. CASE ~ HasField(f)
    <2>1. FirstControl(f, 0) = 1
      BY <1>5 DEF FirstControl
    <2>2. Pid(f) # PcrPid /\ f.mRandomAccess = 0
      <3>1. f.mRandomAccess \in {0, 1}
        BY FrameTypes
      <3> QED
        BY <1>5, <3>1 DEF HasField
    <2>3. CASE n = 0
      <3>1. PesControl(f, 0) = 1
        BY <1>1, <2>1, <2>3 DEF PesControl
      <3> QED
        BY <2>2, <3>1
    <2>4. CASE n # 0
      <3>1. PesControl(f, 0) = 3 /\ a = Added(n) /\ n \in 1 .. 256
        BY <1>1, <1>3, <2>1, <2>4 DEF PesControl, PesField
      <3>2. Len(a) = n /\ a[1] = n - 1 /\ (n >= 2 => a[2] = 0)
        BY <3>1, AddedType
      <3>3. CASE n = 1
        BY <2>2, <3>1, <3>2, <3>3
      <3>4. CASE n >= 2
        <4>1. FlagsOf(0, 0) = 0
          <5>1. 1 \in 1 .. 255
            OBVIOUS
          <5> QED
            BY <5>1, NoFlags DEF FlagsOf
        <4>2. PcrOf(f) = 0
          BY <2>2 DEF PcrOf
        <4>3. a[1] # 0 /\ Len(a) >= 2
          BY <3>1, <3>2, <3>4
        <4> QED
          BY <2>2, <3>1, <3>2, <3>4, <4>1, <4>2, <4>3 DEF Marks
      <3> QED
        BY <3>1, <3>3, <3>4
    <2> QED
      BY <2>2, <2>3, <2>4
  <1> QED
    BY <1>4, <1>5

\* The adaptation field stands behind the header.
LEMMA PacketField ==
  ASSUME NEW p, NEW start, NEW pid, NEW afc, NEW cc, NEW a, NEW b,
         IsPacket(p, start, pid, afc, cc, a, b)
  PROVE  \A i \in 1 .. Len(a) : p[4 + i] = a[i]
  <1>1. PICK h, c : h = Encode(TsHeader, Ts(start, pid, afc, cc)) /\ c = a \o b
    OBVIOUS
  <1>2. /\ TsType(start, pid, afc, cc) /\ p = h \o c
        /\ a \in Seq(Byte) /\ b \in Seq(Nat)
    BY <1>1 DEF IsPacket
  <1>3. h \in Seq(Nat) /\ Len(h) = 4
    BY <1>1, <1>2, TsBytes, BytesNat
  <1>4. a \in Seq(Nat)
    <2>1. Byte \subseteq Nat
      BY DEF Byte
    <2> QED
      BY <1>2, <2>1, SeqSubset
  <1>5. /\ c \in Seq(Nat) /\ Len(c) = Len(a) + Len(b)
        /\ \A i \in 1 .. Len(a) : c[i] = a[i]
    <2>1. /\ a \o b \in Seq(Nat) /\ Len(a \o b) = Len(a) + Len(b)
          /\ \A i \in 1 .. Len(a) : (a \o b)[i] = a[i]
      BY <1>2, <1>4, ConcatParts
    <2> QED
      BY <1>1, <2>1
  <1>6. \A i \in 1 .. Len(c) : p[4 + i] = c[i]
    <2>1. /\ h \o c \in Seq(Nat) /\ Len(h \o c) = Len(h) + Len(c)
          /\ \A i \in 1 .. Len(c) : (h \o c)[Len(h) + i] = c[i]
      <3>1. h \in Seq(Nat) /\ c \in Seq(Nat)
        BY <1>3, <1>5
      <3> QED
        BY <3>1, ConcatParts
    <2> QED
      BY <1>2, <1>3, <2>1
  <1>7. Len(a) \in Nat /\ Len(b) \in Nat
    BY <1>2, <1>4, LenProperties
  <1>8. \A i \in 1 .. Len(a) : i \in 1 .. Len(c)
    BY <1>5, <1>7
  <1> QED
    BY <1>5, <1>6, <1>8

AdaptationRead(p) ==
  IF AdaptationIn(p) THEN DecodeAdaptation(SubSeq(p, 5, 6)) ELSE Zero(AdaptationFieldHeader)

\* What a receiver learns from the first packet of a frame.
LEMMA FirstPacketRead ==
  ASSUME NEW f \in Frames, 0 < f.size, NEW cc \in 0 .. CcModulus - 1,
         NEW p, p = PesPacket(f, 0, cc)
  PROVE  /\ AdaptationRead(p).mRandomAccessIndicator = f.mRandomAccess
         /\ AdaptationRead(p).mPcrFlag = PcrOf(f)
         /\ Pid(f) = PcrPid => readPcr(SubSeq(p, 7, 12)) = f.mPcr
  <1>1. PICK z, y, afc, a, b : /\ z = 0 /\ y = 1 /\ afc = PesControl(f, z)
                               /\ a = PesField(f, z) /\ b = PesPayload(f, z)
    OBVIOUS
  <1>2. z \in Nat /\ z < f.size
    BY <1>1
  <1>3. IsPacket(p, y, Pid(f), afc, cc, a, b)
    <2>1. IsPacket(PesPacket(f, z, cc), IF z = 0 THEN 1 ELSE 0, Pid(f),
                   PesControl(f, z), cc, PesField(f, z), PesPayload(f, z))
      BY <1>2, PesParts
    <2> QED
      BY <1>1, <2>1
  <1>4. /\ p \in Seq(Nat) /\ Len(p) = PacketSize
        /\ HeaderOf(p).mAdaptationFieldControl = afc
        /\ afc # 1 => p[5] = a[1]
        /\ Len(a) >= 2 => SubSeq(p, 5, 6) = SubSeq(a, 1, 2)
    BY <1>3, PacketShows DEF Shows, HeaderShows, HeaderOf
  <1>5. PacketSize \in Nat /\ PacketSize >= 32
    BY Sizes
  <1>6. a \in Seq(Byte)
    BY <1>3 DEF IsPacket
  <1>7. CASE afc = 3 /\ Marks(a, f)
    <2>1. PICK q, ra, pcr : q = SubSeq(p, 5, 6) /\ ra = f.mRandomAccess /\ pcr = PcrOf(f)
      OBVIOUS
    <2>2. Len(a) \in Nat /\ Len(a) >= 2 /\ a[1] # 0 /\ a[2] = FlagsOf(ra, pcr)
      BY <1>6, <1>7, <2>1, LenProperties DEF Marks
    <2>3. Bytes(q, 2) /\ q[1] = a[1] /\ q[2] = a[2]
      <3>1. PICK l, r : l = 1 /\ r = 2
        OBVIOUS
      <3>2. l \in 1 .. Len(a) + 1 /\ r \in l - 1 .. Len(a) /\ r - l + 1 = 2
        BY <2>2, <3>1
      <3>3. /\ SubSeq(a, l, r) \in Seq(Byte) /\ Len(SubSeq(a, l, r)) = r - l + 1
            /\ \A i \in 1 .. r - l + 1 : SubSeq(a, l, r)[i] = a[l + i - 1]
        BY <1>6, <3>2, SliceType
      <3>4. q = SubSeq(a, l, r)
        BY <1>4, <2>1, <2>2, <3>1
      <3>5. 1 \in 1 .. r - l + 1 /\ 2 \in 1 .. r - l + 1 /\ l + 1 - 1 = 1 /\ l + 2 - 1 = 2
        BY <3>1
      <3>6. q[1] = a[1] /\ q[2] = a[2]
        BY <3>3, <3>4, <3>5
      <3> QED
        BY <3>2, <3>3, <3>4, <3>6 DEF Bytes
    <2>4. ra \in 0 .. 1 /\ pcr \in 0 .. 1
      <3>1. f.mRandomAccess \in {0, 1}
        BY FrameTypes
      <3> QED
        BY <2>1, <3>1 DEF PcrOf
    <2>5. DecodeAdaptation(q).mRandomAccessIndicator = ra /\ DecodeAdaptation(q).mPcrFlag = pcr
      BY <2>2, <2>3, <2>4, FlagsRead
    <2>6. AdaptationRead(p) = DecodeAdaptation(q)
      BY <1>4, <1>7, <2>1 DEF AdaptationRead, AdaptationIn
    <2>7. ASSUME Pid(f) = PcrPid PROVE readPcr(SubSeq(p, 7, 12)) = f.mPcr
      <3>1. BitSeq(f.mPcr, 33)
        BY FrameTypes, StampBits
      <3>2. PICK w : w = writePcr(f.mPcr)
        OBVIOUS
      <3>3. w \in Seq(Nat) /\ Len(w) = 6
        BY <3>1, <3>2, PcrWritten, BytesNat
      <3>4. Len(a) >= 8 /\ \A i \in 1 .. 6 : a[2 + i] = w[i]
        BY <1>7, <2>7, <3>2 DEF Marks
      <3>5. PICK l, r : l = 7 /\ r = 12
        OBVIOUS
      <3>6. l \in 1 .. Len(p) + 1 /\ r \in l - 1 .. Len(p) /\ r - l + 1 = 6
        BY <1>4, <1>5, <3>5
      <3>7. /\ SubSeq(p, l, r) \in Seq(Nat) /\ Len(SubSeq(p, l, r)) = r - l + 1
            /\ \A i \in 1 .. r - l + 1 : SubSeq(p, l, r)[i] = p[l + i - 1]
        BY <1>4, <3>6, SliceType
      <3>8. ASSUME NEW i \in 1 .. 6 PROVE SubSeq(p, l, r)[i] = w[i]
        <4>1. PICK j \in 1 .. Len(a) : j = 2 + i /\ 4 + j = l + i - 1
          <5>1. 2 + i \in 1 .. Len(a) /\ 4 + (2 + i) = l + i - 1
            BY <2>2, <3>4, <3>5
          <5> QED
            BY <5>1
        <4>2. p[4 + j] = a[j]
          BY <1>3, PacketField
        <4>3. SubSeq(p, l, r)[i] = p[l + i - 1]
          BY <3>6, <3>7
        <4> QED
          BY <3>4, <4>1, <4>2, <4>3
      <3>9. SubSeq(p, l, r) = w
        BY <3>3, <3>6, <3>7, <3>8, SeqEqual
      <3>10. readPcr(w) = f.mPcr
        BY <3>1, <3>2, PcrReadBack
      <3> QED
        BY <3>5, <3>9, <3>10
    <2> QED
      BY <2>1, <2>5, <2>6, <2>7
  <1>8. CASE /\ f.mRandomAccess = 0 /\ Pid(f) # PcrPid
             /\ afc = 1 \/ (afc = 3 /\ a[1] = 0)
    <2>1. AdaptationRead(p) = Zero(AdaptationFieldHeader)
      <3>1. CASE afc = 1
        <4>1. ~ AdaptationIn(p)
          BY <1>4, <3>1 DEF AdaptationIn
        <4> QED
          BY <4>1 DEF AdaptationRead
      <3>2. CASE afc = 3 /\ a[1] = 0
        <4>1. p[5] = 0
          BY <1>4, <3>2
        <4>2. PICK l, r : l = 5 /\ r = 6
          OBVIOUS
        <4>3. l \in 1 .. Len(p) + 1 /\ r \in l - 1 .. Len(p) /\ 1 \in 1 .. r - l + 1
              /\ l + 1 - 1 = 5
          BY <1>4, <1>5, <4>2
        <4>4. \A i \in 1 .. r - l + 1 : SubSeq(p, l, r)[i] = p[l + i - 1]
          BY <1>4, <4>3, SliceType
        <4>5. SubSeq(p, l, r)[1] = 0
          BY <4>1, <4>3, <4>4
        <4> QED
          BY <4>2, <4>5 DEF AdaptationRead, DecodeAdaptation
      <3> QED
        BY <1>8, <3>1, <3>2
    <2>2. /\ Zero(AdaptationFieldHeader).mRandomAccessIndicator = 0
          /\ Zero(AdaptationFieldHeader).mPcrFlag = 0
      BY AdaptationNames DEF Zero
    <2>3. PcrOf(f) = 0
      BY <1>8 DEF PcrOf
    <2> QED
      BY <1>8, <2>1, <2>2, <2>3
  <1> QED
    BY <1>1, <1>7, <1>8, FirstPacketMarks

\* What a receiver reads from a PES packet.
LEMMA PesRead ==
  ASSUME NEW f \in Frames, NEW bytes, bytes = EncodePes(f) \o SubSeq(Data(f), 1, f.size),
         NEW header, header = Decode(PESHeader, SubSeq(bytes, 1, 9))
  PROVE  /\ header.mPacketStartCode = 1 /\ header.mStreamId = f.mStreamId
         /\ header.mHeaderDataLength \in {5, 10}
         /\ SubSeq(bytes, 10 + header.mHeaderDataLength, Len(bytes)) = Data(f)
         /\ header.mPesPacketLength =
              IF Len(bytes) - 6 > PesLengthLimit THEN 0 ELSE Len(bytes) - 6
         /\ SameStamp(SubSeq(bytes, 10, 14), f.mPts)
         /\ header.mPtsDtsFlags = 3 => SameStamp(SubSeq(bytes, 15, 19), f.mDts)
         /\ header.mPtsDtsFlags # 3 => f.mDts = f.mPts
  <1>1. PICK h, s, d, m, l : /\ h = Encode(PESHeader, PesHeaderOf(f))
                          /\ s = (IF Both(f) THEN writePts(3, f.mPts) \o writePts(1, f.mDts)
                                  ELSE writePts(2, f.mPts))
                          /\ d = Data(f) /\ l = HeaderDataLength(f) /\ m = f.size
    OBVIOUS
  <1>2. /\ Bytes(h, 9) /\ EncodePes(f) = h \o s /\ Bytes(s, l)
    BY <1>1, PesWritten
  <1>3. l \in {5, 10} /\ m \in Nat /\ (Both(f) => l = 10) /\ (~ Both(f) => l = 5)
    BY <1>1, FrameTypes DEF HeaderDataLength
  <1>4. /\ h \in Seq(Nat) /\ Len(h) = 9 /\ s \in Seq(Nat) /\ Len(s) = l
    BY <1>2, BytesNat
  <1>5. d \in Seq(Nat) /\ Len(d) = m /\ SubSeq(d, 1, m) = d
    <2>1. d = [k \in 1 .. m |-> 255 + k]
      BY <1>1 DEF Data
    <2>2. \A k \in 1 .. m : 255 + k \in Nat
      OBVIOUS
    <2>3. d \in Seq(Nat) /\ Len(d) = m
      BY <1>3, <2>1, <2>2, IsASeq
    <2> QED
      BY <2>3, SliceAll
  <1>6. PICK sd : sd = s \o d
    OBVIOUS
  <1>7. bytes = h \o sd
    <2>1. bytes = (h \o s) \o d
      BY <1>1, <1>2, <1>5
    <2>2. Regroups(h, s, d)
      BY <1>4, <1>5, ConcatRegroups
    <2> QED
      BY <1>6, <2>1, <2>2 DEF Regroups
  <1>8. sd \in Seq(Nat) /\ Len(sd) = l + m
    <2>1. s \o d \in Seq(Nat) /\ Len(s \o d) = Len(s) + Len(d)
      BY <1>4, <1>5, ConcatProperties
    <2> QED
      BY <1>4, <1>5, <1>6, <2>1
  <1>9. PICK n : n = Len(bytes) /\ n = 9 + (l + m)
    <2>1. Len(h \o sd) = Len(h) + Len(sd)
      BY <1>4, <1>8, ConcatProperties
    <2> QED
      BY <1>4, <1>7, <1>8, <2>1
  <1>10. SubSeq(bytes, 1, 9) = h /\ \A i, j \in Nat : i # 0 /\ i <= j + 1 /\ j <= l + m =>
            SubSeq(bytes, 9 + i, 9 + j) = SubSeq(sd, i, j)
    <2>1. SubSeq(bytes, 1, 9) = h
      <3>1. PICK u, k : u = 9 /\ k = 9 + (l + m)
        OBVIOUS
      <3>2. u = Len(h) /\ k = Len(h) + Len(sd)
        BY <1>4, <1>8, <3>1
      <3>3. Meet(h \o sd, u, k, h, sd)
        BY <1>4, <1>8, <3>2, CutConcat
      <3> QED
        BY <1>7, <3>1, <3>3 DEF Meet
    <2>2. ASSUME NEW i \in Nat, NEW j \in Nat, i # 0, i <= j + 1, j <= l + m
          PROVE  SubSeq(bytes, 9 + i, 9 + j) = SubSeq(sd, i, j)
      <3>1. i \in Nat \ {0} /\ j <= Len(sd)
        BY <1>8, <2>2
      <3>2. SubSeq(h \o sd, Len(h) + i, Len(h) + j) = SubSeq(sd, i, j)
        BY <1>4, <1>8, <2>2, <3>1, SliceRight
      <3> QED
        BY <1>4, <1>7, <3>2
    <2> QED
      BY <2>1, <2>2
  <1>11. header = [name \in Names(PESHeader) |-> PesHeaderOf(f)[name]]
    <2>1. PICK g : g = PesHeaderOf(f)
      OBVIOUS
    <2>2. Readable(PESHeader, 17, 9, g)
      BY <2>1, PesReadable
    <2>3. Decode(PESHeader, Encode(PESHeader, g)) = [name \in Names(PESHeader) |-> g[name]]
      BY <2>2, HeaderReadBack
    <2>4. header = Decode(PESHeader, Encode(PESHeader, g))
      BY <1>1, <1>10, <2>1
    <2> QED
      BY <2>1, <2>3, <2>4
  <1>12. /\ header.mPacketStartCode = 1 /\ header.mStreamId = f.mStreamId
         /\ header.mHeaderDataLength = l
         /\ header.mPesPacketLength = PesLength(f, l)
         /\ header.mPtsDtsFlags = IF Both(f) THEN 3 ELSE 2
    <2>1. PICK g : g = PesHeaderOf(f)
      OBVIOUS
    <2>2. /\ g.mPacketStartCode = 1 /\ g.mStreamId = f.mStreamId
          /\ g.mHeaderDataLength = l /\ g.mPesPacketLength = PesLength(f, l)
          /\ g.mPtsDtsFlags = IF Both(f) THEN 3 ELSE 2
      BY <1>1, <2>1, PesValues, PesFields
    <2>3. \A name \in Names(PESHeader) : header[name] = g[name]
      BY <1>11, <2>1
    <2>4. {"mPacketStartCode", "mStreamId", "mHeaderDataLength", "mPesPacketLength",
           "mPtsDtsFlags"} \subseteq Names(PESHeader)
      BY PesFields
    <2> QED
      BY <2>2, <2>3, <2>4
  <1>13. PesLength(f, l) = IF Len(bytes) - 6 > PesLengthLimit THEN 0 ELSE Len(bytes) - 6
    <2>1. PesLength(f, l) = IF l + m + 3 > PesLengthLimit THEN 0 ELSE l + m + 3
      BY <1>1 DEF PesLength
    <2>2. l \in Nat /\ m \in Nat
      BY <1>3
    <2>3. PICK k : k = n
      OBVIOUS
    <2>4. k = 9 + (l + m)
      BY <1>9, <2>3
    <2>5. k - 6 = l + m + 3
      BY <2>2, <2>4
    <2> QED
      BY <1>9, <2>1, <2>3, <2>5
  <1>14. SubSeq(bytes, 10 + l, Len(bytes)) = d
    <2>0. l \in Nat /\ m \in Nat
      BY <1>3
    <2>1. PICK i, j \in Nat : i = l + 1 /\ j = l + m
      BY <2>0
    <2>2. i # 0 /\ i <= j + 1 /\ j <= l + m /\ 9 + i = 10 + l /\ 9 + j = 9 + (l + m)
      BY <2>0, <2>1
    <2>3. SubSeq(bytes, 9 + i, 9 + j) = SubSeq(sd, i, j)
      BY <1>10, <2>2
    <2>4. Meet(s \o d, l, j, s, d)
      <3>1. l = Len(s) /\ j = Len(s) + Len(d)
        BY <1>4, <1>5, <2>1
      <3> QED
        BY <1>4, <1>5, <3>1, CutConcat
    <2>5. SubSeq(sd, i, j) = d
      BY <1>6, <2>1, <2>4 DEF Meet
    <2> QED
      BY <1>9, <2>2, <2>3, <2>5
  <1>15. BitSeq(f.mPts, 33) /\ BitSeq(f.mDts, 33)
    BY FrameTypes, StampBits
  <1>16. ASSUME NEW i \in Nat, NEW j \in Nat, i # 0, i <= j + 1, j <= l
         PROVE  SubSeq(bytes, 9 + i, 9 + j) = SubSeq(s, i, j)
    <2>1. i \in Nat \ {0} /\ j <= Len(s) /\ j <= l + m
      BY <1>3, <1>4, <1>16
    <2>2. SubSeq(bytes, 9 + i, 9 + j) = SubSeq(sd, i, j)
      BY <1>10, <1>16, <2>1
    <2>3. SubSeq(s \o d, i, j) = SubSeq(s, i, j)
      BY <1>4, <1>5, <1>16, <2>1, SliceLeft
    <2> QED
      BY <1>6, <2>2, <2>3
  <1>17. /\ SubSeq(bytes, 10, 14) = SubSeq(s, 1, 5)
         /\ l = 10 => SubSeq(bytes, 15, 19) = SubSeq(s, 6, 10)
    <2>1. PICK i, j, k, u \in Nat : i = 1 /\ j = 5 /\ k = 6 /\ u = 10
      OBVIOUS
    <2>2. SubSeq(bytes, 9 + i, 9 + j) = SubSeq(s, i, j)
      <3>1. i # 0 /\ i <= j + 1 /\ j <= l
        BY <1>3, <2>1
      <3> QED
        BY <1>16, <3>1
    <2>3. ASSUME l = 10 PROVE SubSeq(bytes, 9 + k, 9 + u) = SubSeq(s, k, u)
      <3>1. k # 0 /\ k <= u + 1 /\ u <= l
        BY <2>1, <2>3
      <3> QED
        BY <1>16, <3>1
    <2>4. 9 + i = 10 /\ 9 + j = 14 /\ 9 + k = 15 /\ 9 + u = 19
      BY <2>1
    <2> QED
      BY <2>1, <2>2, <2>3, <2>4
  <1>18. /\ SameStamp(SubSeq(s, 1, 5), f.mPts)
         /\ Both(f) => SameStamp(SubSeq(s, 6, 10), f.mDts)
    <2>1. CASE Both(f)
      <3>1. PICK x, y, v, w : /\ v = 3 /\ w = 1 /\ x = writePts(v, f.mPts)
                              /\ y = writePts(w, f.mDts)
        OBVIOUS
      <3>2. v \in 0 .. 15 /\ w \in 0 .. 15
        BY <3>1
      <3>3. x \in Seq(Nat) /\ Len(x) = 5 /\ y \in Seq(Nat) /\ Len(y) = 5
        BY <1>15, <3>1, <3>2, PtsWritten, BytesNat
      <3>4. SameStamp(x, f.mPts) /\ SameStamp(y, f.mDts)
        BY <1>15, <3>1, <3>2, PtsReadBack
      <3>5. s = x \o y
        BY <1>1, <2>1, <3>1
      <3>6. PICK i, j : i = 5 /\ j = 10
        OBVIOUS
      <3>7. Meet(x \o y, i, j, x, y)
        <4>1. i = Len(x) /\ j = Len(x) + Len(y)
          BY <3>3, <3>6
        <4> QED
          BY <3>3, <4>1, CutConcat
      <3>8. SubSeq(s, 1, 5) = x /\ SubSeq(s, 6, 10) = y
        <4>1. i + 1 = 6
          BY <3>6
        <4> QED
          BY <3>5, <3>6, <3>7, <4>1 DEF Meet
      <3> QED
        BY <3>4, <3>8
    <2>2. CASE ~ Both(f)
      <3>1. PICK x, v : v = 2 /\ x = writePts(v, f.mPts)
        OBVIOUS
      <3>2. v \in 0 .. 15
        BY <3>1
      <3>3. SameStamp(x, f.mPts)
        BY <1>15, <3>1, <3>2, PtsReadBack
      <3>4. s = x /\ Len(s) = 5
        BY <1>1, <1>3, <1>4, <2>2, <3>1
      <3>5. SubSeq(s, 1, 5) = x
        BY <1>4, <3>4, SliceAll
      <3> QED
        BY <2>2, <3>3, <3>5
    <2> QED
      BY <2>1, <2>2
  <1>19. ~ Both(f) => f.mDts = f.mPts
    BY DEF Both
  <1>20. header.mPtsDtsFlags = 3 <=> Both(f)
    BY <1>12
  <1> QED
    BY <1>1, <1>3, <1>12, <1>13, <1>14, <1>17, <1>18, <1>19, <1>20

LEMMA LeastIs ==
  ASSUME NEW n \in Nat, NEW T, T \subseteq 1 .. n, NEW x \in T, \A y \in T : x <= y
  PROVE  Min(T) = x
  <1>1. \A y \in T : y \in Nat
    OBVIOUS
  <1>2. ASSUME NEW z \in T, \A y \in T : z <= y PROVE z = x
    BY <1>1, <1>2
  <1> QED
    BY <1>2 DEF Min

\* A receiver gets the frame back from its packets: the stream, the time stamps but
\* for their highest bit, every byte of the data once and in order, the length or
\* zero, the random access point and the PCR; the first packet, and no other, is
\* marked as the start (createPes, TsHeader, AdaptationFieldHeader and PESHeader):
\* for every frame of every size, with and without stuffing.
THEOREM FrameComesBack ==
  Spec => []FrameRecovered
  <1>1. Init => FrameInv
    BY DEF Init, FrameInv
  <1>2. IInv /\ FrameInv /\ [Next]_vars => FrameInv'
    BY FrameInvNext
  <1>3. IInv /\ FrameInv => FrameRecovered
    <2> SUFFICES ASSUME IInv, FrameInv, op = "encode", pc = "callback", frame.size > 0
                 PROVE  FrameRecovered
      BY DEF FrameRecovered
    <2>1. PICK f, n, pid, T : /\ f = frame /\ n = Len(lSb) \div PacketSize /\ pid = Pid(f)
                              /\ T = OfIn(lSb, n, pid)
      OBVIOUS
    <2>2. f \in Frames /\ 0 < f.size /\ n \in Nat
      <3>1. f \in Frames
        BY <2>1 DEF IInv, PhaseInv
      <3>2. f.size \in Nat
        BY <3>1, FrameTypes
      <3>3. n \in Nat
        BY <2>1, CountPackets
      <3> QED
        BY <2>1, <3>1, <3>2, <3>3
    <2>3. FrameIn(lSb, n, f, f.size)
      BY <2>1 DEF FrameInv
    <2>4. PICK bytes : bytes = EncodePes(f) \o SubSeq(Data(f), 1, f.size)
      OBVIOUS
    <2>5. PICK first, cc : FirstIs(lSb, n, f, first, cc)
      BY <2>2, <2>3 DEF FrameIn
    <2>6. /\ first \in T /\ cc \in 0 .. CcModulus - 1
          /\ PacketIn(lSb, first) = PesPacket(f, 0, cc)
          /\ \A k \in T : first <= k /\ (StartIn(PacketIn(lSb, k)) = 1) = (k = first)
      BY <2>1, <2>5 DEF FirstIs
    <2>7. Of(pid) = T /\ Min(T) = first
      <3>1. T \subseteq 1 .. n
        BY <2>1 DEF OfIn
      <3>2. Min(T) = first
        BY <2>2, <2>6, <3>1, LeastIs
      <3>3. Of(pid) = T
        BY <2>1, SeenPackets
      <3> QED
        BY <3>2, <3>3
    <2>8. Received(pid) = bytes
      <3>1. Gathered(lSb, n, pid, bytes)
        BY <2>1, <2>2, <2>3, <2>4 DEF FrameIn
      <3> QED
        BY <2>1, <2>2, <3>1, ReceivedIs
    <2>9. PICK header, p, ad : /\ header = Decode(PESHeader, SubSeq(bytes, 1, 9))
                               /\ p = Packet(first) /\ ad = AdaptationRead(p)
      OBVIOUS
    <2>10. /\ header.mPacketStartCode = 1 /\ header.mStreamId = f.mStreamId
           /\ SubSeq(bytes, 10 + header.mHeaderDataLength, Len(bytes)) = Data(f)
           /\ header.mPesPacketLength =
                IF Len(bytes) - 6 > PesLengthLimit THEN 0 ELSE Len(bytes) - 6
           /\ SameStamp(SubSeq(bytes, 10, 14), f.mPts)
           /\ header.mPtsDtsFlags = 3 => SameStamp(SubSeq(bytes, 15, 19), f.mDts)
           /\ header.mPtsDtsFlags # 3 => f.mDts = f.mPts
      BY <2>2, <2>4, <2>9, PesRead
    <2>11. p = PesPacket(f, 0, cc)
      BY <2>6, <2>9 DEF Packet, PacketIn
    <2>12. /\ ad.mRandomAccessIndicator = f.mRandomAccess /\ ad.mPcrFlag = PcrOf(f)
           /\ Pid(f) = PcrPid => readPcr(SubSeq(p, 7, 12)) = f.mPcr
      BY <2>2, <2>6, <2>9, <2>11, FirstPacketRead
    <2>13. (ad.mPcrFlag = 1) = (pid = PcrPid)
      BY <2>1, <2>12 DEF PcrOf
    <2>14. \A k \in T : (Header(k).mPayloadUnitStartIndicator = 1) = (k = first)
      <3>1. \A k : Header(k).mPayloadUnitStartIndicator = StartIn(PacketIn(lSb, k))
        BY DEF Header, Packet, StartIn, PacketIn, HeaderOf
      <3> QED
        BY <2>6, <3>1
    <2>15. ad = IF HasAdaptation(first) THEN Adaptation(first) ELSE Zero(AdaptationFieldHeader)
      BY <2>9 DEF AdaptationRead, HasAdaptation, Adaptation, Header, AdaptationIn, HeaderOf
    <2>16. /\ ad.mPcrFlag = 1 => readPcr(SubSeq(Packet(first), 7, 12)) = f.mPcr
      BY <2>1, <2>9, <2>12, <2>13
    <2> QED
      BY <2>1, <2>7, <2>8, <2>9, <2>10, <2>12, <2>13, <2>14, <2>15, <2>16 DEF FrameRecovered
  <1>4. Spec => []IInv
    BY Invariance
  <1> QED
    BY <1>1, <1>2, <1>3, <1>4, PTL DEF Spec
=============================================================================
