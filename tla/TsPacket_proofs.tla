-------------------------- MODULE TsPacket_proofs --------------------------
(***************************************************************************)
(* What the headers of TsPacket are: the bytes that are written, and that  *)
(* reading them gives the header back.                                     *)
(***************************************************************************)
EXTENDS TsPacket, SequenceLemmas

Bit == {0, 1}
Byte == 0 .. 255
-----------------------------------------------------------------------------
(* Numbers and their bits.                                                 *)

LEMMA Powers ==
  /\ Power[0] = 1
  /\ \A k \in 1 .. 24 : Power[k] = 2 * Power[k - 1]
  /\ \A k \in 0 .. 24 : Power[k] \in Nat \ {0}
  <1>1. \A k \in 0 .. 24 : Power[k] = 2^k
    BY Zenon DEF Power
  <1>2. /\ Power[0] = 2^0 /\ Power[1] = 2^1 /\ Power[2] = 2^2 /\ Power[3] = 2^3
        /\ Power[4] = 2^4 /\ Power[5] = 2^5 /\ Power[6] = 2^6 /\ Power[7] = 2^7
        /\ Power[8] = 2^8 /\ Power[9] = 2^9 /\ Power[10] = 2^10 /\ Power[11] = 2^11
        /\ Power[12] = 2^12 /\ Power[13] = 2^13 /\ Power[14] = 2^14
        /\ Power[15] = 2^15 /\ Power[16] = 2^16 /\ Power[17] = 2^17
        /\ Power[18] = 2^18 /\ Power[19] = 2^19 /\ Power[20] = 2^20
        /\ Power[21] = 2^21 /\ Power[22] = 2^22 /\ Power[23] = 2^23
        /\ Power[24] = 2^24
    BY <1>1
  <1> QED
    BY <1>2

\* A number that is shifted one bit at a time.
Shift(n) == [k \in 0 .. 24 |-> n \div Power[k]]

LEMMA Halves ==
  ASSUME NEW n \in Nat, NEW p \in Nat \ {0}
  PROVE  n \div (2 * p) = (n \div p) \div 2 /\ n \div p \in Nat
  OBVIOUS

LEMMA Shifts ==
  ASSUME NEW n \in Nat
  PROVE  /\ Shift(n) \in [0 .. 24 -> Nat]
         /\ Shift(n)[0] = n
         /\ \A k \in 1 .. 24 : Shift(n)[k] = Shift(n)[k - 1] \div 2
  <1>1. Shift(n)[0] = n
    BY Powers DEF Shift
  <1>2. ASSUME NEW k \in 0 .. 24 PROVE Shift(n)[k] \in Nat
    <2>1. Power[k] \in Nat \ {0}
      BY Powers
    <2>2. n \div Power[k] \in Nat
      BY <2>1, Halves
    <2> QED
      BY <2>2 DEF Shift
  <1>3. ASSUME NEW k \in 1 .. 24 PROVE Shift(n)[k] = Shift(n)[k - 1] \div 2
    <2>1. k - 1 \in 0 .. 24
      OBVIOUS
    <2>2. PICK p \in Nat \ {0} : p = Power[k - 1]
      BY <2>1, Powers
    <2>3. Power[k] = 2 * p
      BY <2>2, Powers
    <2>4. Shift(n)[k] = n \div (2 * p) /\ Shift(n)[k - 1] = n \div p
      BY <2>1, <2>2, <2>3 DEF Shift
    <2> QED
      BY <2>4, Halves
  <1>4. Shift(n) \in [0 .. 24 -> Nat]
    BY <1>2 DEF Shift
  <1> QED
    BY <1>1, <1>3, <1>4

LEMMA BitsType ==
  ASSUME NEW n \in Nat, NEW w \in 0 .. 24
  PROVE  /\ Bits(n, w) \in Seq(Bit) /\ Len(Bits(n, w)) = w
         /\ \A k \in 1 .. w : /\ Bits(n, w)[k] \in Bit
                              /\ Shift(n)[w - k] = 2 * Shift(n)[w - k + 1] + Bits(n, w)[k]
  <1>1. ASSUME NEW k \in 1 .. w
        PROVE  /\ Bits(n, w)[k] \in Bit
               /\ Shift(n)[w - k] = 2 * Shift(n)[w - k + 1] + Bits(n, w)[k]
    <2>1. w - k \in 0 .. 24
      OBVIOUS
    <2>2. Bits(n, w)[k] = Shift(n)[w - k] % 2
      BY <2>1 DEF Bits, Shift
    <2>3. Shift(n)[w - k] \in Nat
      BY <2>1, Shifts
    <2>4. Shift(n)[w - k + 1] = Shift(n)[w - k] \div 2
      <3>1. PICK j \in 1 .. 24 : j = w - k + 1 /\ j - 1 = w - k
        OBVIOUS
      <3>2. Shift(n)[j] = Shift(n)[j - 1] \div 2
        BY Shifts
      <3> QED
        BY <3>1, <3>2
    <2> QED
      BY <2>2, <2>3, <2>4 DEF Bit
  <1>2. Bits(n, w) = [k \in 1 .. w |-> Bits(n, w)[k]]
    BY DEF Bits
  <1>3. Bits(n, w) \in [1 .. w -> Bit]
    BY <1>1, <1>2
  <1> QED
    BY <1>1, <1>3, SeqDef, LenProperties

\* Number goes over the bits from the most significant one on.
LEMMA NumberReads ==
  ASSUME NEW bits \in Seq(Nat)
  PROVE  \E f \in [0 .. Len(bits) -> Nat] :
           /\ f[0] = 0
           /\ \A k \in 1 .. Len(bits) : f[k] = 2 * f[k - 1] + bits[k]
           /\ Number(bits) = f[Len(bits)]
  <1> DEFINE Read[k \in 0 .. Len(bits)] ==
               IF k = 0 THEN 0 ELSE 2 * Read[k - 1] + bits[k]
  <1>1. PICK N \in Nat : N = Len(bits)
    BY LenProperties
  <1>2. \A k \in 1 .. N : bits[k] \in Nat
    BY <1>1, ElementOfSeq
  <1>3. Number(bits) = Read[N]
    BY <1>1 DEF Number
  <1>4. \E f : f = [k \in 0 .. Len(bits) |-> IF k = 0 THEN 0 ELSE 2 * f[k - 1] + bits[k]]
    <2>1. PICK G : G = [k \in 1 .. N |-> [x \in Nat |-> 2 * x + bits[k]]]
      OBVIOUS
    <2>2. /\ G \in Steps(N, Nat)
          /\ \A k \in 1 .. N : \A x \in Nat : G[k][x] = 2 * x + bits[k]
      <3>1. ASSUME NEW k \in 1 .. N, NEW x \in Nat PROVE 2 * x + bits[k] \in Nat
        <4>1. PICK y \in Nat : y = bits[k]
          BY <1>2
        <4> QED
          BY <4>1
      <3>2. \A k \in 1 .. N : \A x \in Nat : G[k][x] = 2 * x + bits[k]
        BY <2>1
      <3>3. G \in Steps(N, Nat)
        BY <2>1, <3>1 DEF Steps
      <3> QED
        BY <3>2, <3>3
    <2>3. PICK f \in [0 .. N -> Nat] : Unfolds(f, 0, N, G)
      BY <2>2, Recursion
    <2>4. f[0] = 0 /\ \A k \in 1 .. N : f[k] = G[k][f[k - 1]]
      BY <2>3 DEF Unfolds
    <2>5. ASSUME NEW k \in 1 .. N PROVE f[k] = 2 * f[k - 1] + bits[k]
      <3>1. f[k - 1] \in Nat
        OBVIOUS
      <3> QED
        BY <2>2, <2>4, <3>1
    <2>6. f = [k \in 0 .. N |-> IF k = 0 THEN 0 ELSE 2 * f[k - 1] + bits[k]]
      BY <2>4, <2>5
    <2> QED
      BY <1>1, <2>6
  <1>5. Read = [k \in 0 .. Len(bits) |-> IF k = 0 THEN 0 ELSE 2 * Read[k - 1] + bits[k]]
    BY <1>4
  <1>6. PICK g : g = Read
    OBVIOUS
  <1> HIDE DEF Read
  <1>7. g = [k \in 0 .. N |-> IF k = 0 THEN 0 ELSE 2 * g[k - 1] + bits[k]]
    BY <1>1, <1>5, <1>6
  <1>8. g[0] = 0 /\ \A k \in 1 .. N : g[k] = 2 * g[k - 1] + bits[k]
    BY <1>7
  <1>9. \A k \in 0 .. N : g[k] \in Nat
    <2>1. ASSUME NEW k \in 1 .. N, g[k - 1] \in Nat PROVE g[k] \in Nat
      <3>1. PICK x \in Nat, y \in Nat : x = g[k - 1] /\ y = bits[k]
        BY <1>2, <2>1
      <3>2. g[k] = 2 * x + y
        BY <1>8, <3>1
      <3> QED
        BY <3>2
    <2>2. g[0] \in Nat
      BY <1>8
    <2> QED
      BY <2>1, <2>2, RecursionType
  <1>10. g \in [0 .. N -> Nat]
    BY <1>7, <1>9
  <1> QED
    BY <1>1, <1>3, <1>6, <1>8, <1>10

\* The number is read back that was written, if it has no more bits.
Fits(n, w) == n \in Nat /\ w \in 0 .. 24 /\ Shift(n)[w] = 0

LEMMA NumberOfBits ==
  ASSUME NEW n, NEW w, Fits(n, w)
  PROVE  Number(Bits(n, w)) = n
  <1> DEFINE b == Bits(n, w)
  <1>1. n \in Nat /\ w \in 0 .. 24 /\ Shift(n)[w] = 0
    BY DEF Fits
  <1>2. /\ b \in Seq(Nat) /\ Len(b) = w
        /\ \A k \in 1 .. w : Shift(n)[w - k] = 2 * Shift(n)[w - k + 1] + b[k]
    <2>1. Seq(Bit) \subseteq Seq(Nat)
      BY SeqDef DEF Bit
    <2> QED
      BY <1>1, <2>1, BitsType
  <1> HIDE DEF b
  <1>3. PICK f \in [0 .. w -> Nat] :
               /\ f[0] = 0 /\ \A k \in 1 .. w : f[k] = 2 * f[k - 1] + b[k]
               /\ Number(b) = f[w]
    BY <1>2, NumberReads
  <1> DEFINE S == {k \in 0 .. w : f[k] = Shift(n)[w - k]}
  <1>4. 0 \in S
    BY <1>1, <1>3
  <1>5. ASSUME NEW k \in 1 .. w, k - 1 \in S PROVE k \in S
    <2>1. w - (k - 1) = w - k + 1
      BY <1>1
    <2>2. f[k - 1] = Shift(n)[w - k + 1]
      BY <1>5, <2>1
    <2>3. f[k] = Shift(n)[w - k]
      BY <1>2, <1>3, <2>2
    <2> QED
      BY <2>3
  <1> HIDE DEF S
  <1>6. w \in S
    <2>1. w \in Nat
      BY <1>1
    <2>2. 0 .. w \subseteq S
      BY <1>4, <1>5, <2>1, Induction
    <2> QED
      BY <1>1, <2>2
  <1>7. f[w] = Shift(n)[w - w]
    BY <1>6 DEF S
  <1>8. w - w = 0
    BY <1>1
  <1>9. Shift(n)[0] = n
    BY <1>1, Shifts
  <1> QED
    BY <1>3, <1>7, <1>8, <1>9 DEF b

LEMMA HalvedOnce ==
  ASSUME NEW x \in Nat, NEW y \in Nat, NEW i \in Bit, NEW j \in Bit,
         2 * x + i = 2 * y + j
  PROVE  x = y /\ i = j
  BY DEF Bit

\* The bits are written back that were read.
LEMMA BitsOfNumber ==
  ASSUME NEW w \in 0 .. 24, NEW b \in [1 .. w -> Bit]
  PROVE  Number(b) \in Nat /\ Bits(Number(b), w) = b
  <1>1. b \in Seq(Nat) /\ Len(b) = w
    <2>1. w \in Nat /\ b \in [1 .. w -> Nat]
      BY DEF Bit
    <2> QED
      BY <2>1, SeqDef, LenProperties
  <1>3. PICK f \in [0 .. w -> Nat] :
               /\ f[0] = 0 /\ \A k \in 1 .. w : f[k] = 2 * f[k - 1] + b[k]
               /\ Number(b) = f[w]
    BY <1>1, NumberReads
  <1>4. PICK n \in Nat : n = Number(b)
    BY <1>3
  <1>5. PICK s, c : s = Shift(n) /\ c = Bits(n, w)
    OBVIOUS
  <1>6. s \in [0 .. 24 -> Nat] /\ s[0] = n
    BY <1>5, Shifts
  <1>7. /\ c \in Seq(Bit) /\ Len(c) = w
        /\ \A k \in 1 .. w : c[k] \in Bit /\ s[w - k] = 2 * s[w - k + 1] + c[k]
    BY <1>5, BitsType
  <1>8. ASSUME NEW k \in 1 .. w, f[k] = s[w - k]
        PROVE  c[k] = b[k] /\ f[k - 1] = s[w - k + 1]
    <2>1. w - k + 1 \in 0 .. 24
      OBVIOUS
    <2>2. PICK x \in Nat : x = s[w - k + 1]
      BY <1>6, <2>1
    <2>3. PICK y \in Nat : y = f[k - 1]
      OBVIOUS
    <2>4. 2 * x + c[k] = 2 * y + b[k]
      BY <1>3, <1>7, <1>8, <2>2, <2>3
    <2>5. PICK i \in Bit, j \in Bit : i = c[k] /\ j = b[k]
      BY <1>7
    <2>6. 2 * x + i = 2 * y + j
      BY <2>4, <2>5
    <2>7. x = y /\ i = j
      BY <2>6, HalvedOnce
    <2> QED
      BY <2>2, <2>3, <2>5, <2>7
  <1> DEFINE S == {j \in 0 .. w : s[j] = f[w - j]}
  <1>9. 0 \in S
    BY <1>3, <1>4, <1>6
  <1>10. ASSUME NEW j \in 1 .. w, j - 1 \in S PROVE j \in S
    <2>1. PICK k \in 1 .. w : k = w - j + 1
      OBVIOUS
    <2>2. w - k = j - 1 /\ w - (j - 1) = k /\ w - k + 1 = j /\ k - 1 = w - j
      BY <2>1
    <2>3. f[k] = s[w - k]
      BY <1>10, <2>2
    <2>4. f[k - 1] = s[w - k + 1]
      BY <1>8, <2>3
    <2>5. s[j] = f[w - j]
      BY <2>2, <2>4
    <2> QED
      BY <2>5
  <1> HIDE DEF S
  <1>11. \A j \in 0 .. w : s[j] = f[w - j]
    <2>1. w \in Nat
      OBVIOUS
    <2>2. 0 .. w \subseteq S
      BY <1>9, <1>10, <2>1, Induction
    <2> QED
      BY <2>2 DEF S
  <1>12. ASSUME NEW k \in 1 .. w PROVE c[k] = b[k]
    <2>1. w - k \in 0 .. w /\ w - (w - k) = k
      OBVIOUS
    <2>2. f[k] = s[w - k]
      BY <1>11, <2>1
    <2> QED
      BY <1>8, <2>2
  <1>13. c = b
    BY <1>1, <1>7, <1>12, SeqEqual
  <1> QED
    BY <1>4, <1>5, <1>13

\* What fits into w bits, and what w bits can be.
LEMMA PowerValues ==
  /\ Power[1] = 2 /\ Power[2] = 4 /\ Power[3] = 8 /\ Power[4] = 16 /\ Power[5] = 32
  /\ Power[8] = 256 /\ Power[12] = 4096 /\ Power[13] = 8192 /\ Power[16] = 65536
  /\ Power[24] = 16777216
  <1>1. \A k \in 0 .. 24 : Power[k] = 2^k
    BY Zenon DEF Power
  <1>2. /\ Power[1] = 2^1 /\ Power[2] = 2^2 /\ Power[3] = 2^3 /\ Power[4] = 2^4
        /\ Power[5] = 2^5 /\ Power[8] = 2^8 /\ Power[12] = 2^12
        /\ Power[13] = 2^13 /\ Power[16] = 2^16 /\ Power[24] = 2^24
    BY <1>1
  <1> QED
    BY <1>2

LEMMA Halved ==
  ASSUME NEW x \in Nat, NEW p \in Nat, x < 2 * p
  PROVE  x \div 2 \in Nat /\ x \div 2 < p
  OBVIOUS

LEMMA FitsBelow ==
  ASSUME NEW w \in 0 .. 24, NEW n \in Nat, n < Power[w]
  PROVE  Fits(n, w)
  <1>1. PICK s : s = Shift(n)
    OBVIOUS
  <1>2. s \in [0 .. 24 -> Nat] /\ s[0] = n /\ \A k \in 1 .. 24 : s[k] = s[k - 1] \div 2
    BY <1>1, Shifts
  <1> DEFINE S == {k \in 0 .. w : s[k] < Power[w - k]}
  <1>3. 0 \in S
    BY <1>2
  <1>4. ASSUME NEW k \in 1 .. w, k - 1 \in S PROVE k \in S
    <2>1. k \in 1 .. 24 /\ w - k \in 0 .. 23 /\ w - (k - 1) = (w - k) + 1
          /\ (w - k) + 1 \in 1 .. 24 /\ ((w - k) + 1) - 1 = w - k /\ k - 1 \in 0 .. 24
      OBVIOUS
    <2>2. PICK p \in Nat : p = Power[w - k]
      BY <2>1, Powers
    <2>3. Power[(w - k) + 1] = 2 * p
      BY <2>1, <2>2, Powers
    <2>4. PICK x \in Nat : x = s[k - 1]
      BY <1>2, <2>1
    <2>5. x < 2 * p
      BY <1>4, <2>1, <2>3, <2>4
    <2>6. s[k] = x \div 2
      BY <1>2, <2>1, <2>4
    <2>7. s[k] < p
      BY <2>5, <2>6, Halved
    <2> QED
      BY <2>2, <2>7
  <1> HIDE DEF S
  <1>5. w \in S
    <2>1. w \in Nat
      OBVIOUS
    <2>2. 0 .. w \subseteq S
      BY <1>3, <1>4, <2>1, Induction
    <2> QED
      BY <2>2
  <1>6. s[w] < Power[w - w] /\ w - w = 0
    BY <1>5 DEF S
  <1>7. s[w] < 1 /\ s[w] \in Nat
    BY <1>2, <1>6, Powers
  <1>8. s[w] = 0
    BY <1>7
  <1> QED
    BY <1>1, <1>8 DEF Fits

LEMMA NumberBelow ==
  ASSUME NEW w \in 0 .. 24, NEW b \in [1 .. w -> Bit]
  PROVE  Number(b) \in Nat /\ Number(b) < Power[w]
  <1>1. b \in Seq(Nat) /\ Len(b) = w
    <2>1. w \in Nat /\ b \in [1 .. w -> Nat]
      BY DEF Bit
    <2> QED
      BY <2>1, SeqDef, LenProperties
  <1>2. PICK f \in [0 .. w -> Nat] :
               /\ f[0] = 0 /\ \A k \in 1 .. w : f[k] = 2 * f[k - 1] + b[k]
               /\ Number(b) = f[w]
    BY <1>1, NumberReads
  <1> DEFINE S == {k \in 0 .. w : f[k] < Power[k]}
  <1>3. 0 \in S
    <2>1. Power[0] = 1
      BY Powers
    <2>2. f[0] < Power[0] /\ 0 \in 0 .. w
      BY <1>2, <2>1
    <2> QED
      BY <2>2
  <1>4. ASSUME NEW k \in 1 .. w, k - 1 \in S PROVE k \in S
    <2>1. k \in 1 .. 24 /\ k - 1 \in 0 .. 24
      OBVIOUS
    <2>2. PICK p \in Nat : p = Power[k - 1]
      BY <2>1, Powers
    <2>3. Power[k] = 2 * p
      BY <2>1, <2>2, Powers
    <2>4. PICK x \in Nat, i \in Bit : x = f[k - 1] /\ i = b[k]
      OBVIOUS
    <2>5. x < p /\ f[k] = 2 * x + i
      BY <1>2, <1>4, <2>2, <2>4
    <2>6. f[k] < 2 * p
      BY <2>5 DEF Bit
    <2> QED
      BY <2>3, <2>6
  <1> HIDE DEF S
  <1>5. w \in S
    <2>1. w \in Nat
      OBVIOUS
    <2>2. 0 .. w \subseteq S
      BY <1>3, <1>4, <2>1, Induction
    <2> QED
      BY <2>2
  <1> QED
    BY <1>2, <1>5 DEF S

-----------------------------------------------------------------------------
(* Bytes and their bits.                                                   *)

\* The position of the i-th bit of the k-th byte.
LEMMA ByteAndBit ==
  ASSUME NEW x \in Nat
  PROVE  x \div 8 \in Nat /\ x % 8 \in 0 .. 7 /\ x = 8 * (x \div 8) + (x % 8)
  OBVIOUS

LEMMA BitPosition ==
  ASSUME NEW n \in Nat, NEW j \in 1 .. 8 * n
  PROVE  \E k \in 1 .. n, i \in 1 .. 8 :
           /\ j = 8 * k - 8 + i /\ 1 + (j - 1) \div 8 = k
           /\ 7 - ((j - 1) % 8) = 8 - i
  <1>1. PICK q \in Nat, r \in 0 .. 7 : j - 1 = 8 * q + r /\ (j - 1) \div 8 = q
                                       /\ (j - 1) % 8 = r
    <2>1. PICK x \in Nat : x = j - 1
      OBVIOUS
    <2>2. x \div 8 \in Nat /\ x % 8 \in 0 .. 7 /\ x = 8 * (x \div 8) + (x % 8)
      BY ByteAndBit
    <2> QED
      BY <2>1, <2>2
  <1>2. q + 1 \in 1 .. n /\ r + 1 \in 1 .. 8
    BY <1>1
  <1>3. /\ j = 8 * (q + 1) - 8 + (r + 1) /\ 1 + (j - 1) \div 8 = q + 1
        /\ 7 - ((j - 1) % 8) = 8 - (r + 1)
    BY <1>1
  <1> QED
    BY <1>2, <1>3

Bytes(o, n) == o \in Seq(Byte) /\ Len(o) = n

\* The bits of n bytes.
ByteBits(b, n) == n \in Nat /\ b \in Seq(Bit) /\ Len(b) = 8 * n
ByteAt(b, k) == SubSeq(b, 8 * k - 7, 8 * k)

LEMMA OctetBits ==
  ASSUME NEW n, NEW b, ByteBits(b, n), NEW k \in 1 .. n
  PROVE  /\ ByteAt(b, k) \in [1 .. 8 -> Bit]
         /\ \A i \in 1 .. 8 : ByteAt(b, k)[i] = b[8 * k - 8 + i]
  <1>1. PICK x, l, r : x = SubSeq(b, l, r) /\ l = 8 * k - 7 /\ r = 8 * k
    OBVIOUS
  <1>2. /\ b \in Seq(Bit) /\ l \in 1 .. Len(b) + 1 /\ r \in l - 1 .. Len(b)
        /\ r - l + 1 = 8 /\ \A i \in 1 .. 8 : l + i - 1 = 8 * k - 8 + i
    BY <1>1 DEF ByteBits
  <1>3. x \in Seq(Bit) /\ Len(x) = r - l + 1 /\ \A i \in 1 .. r - l + 1 : x[i] = b[l + i - 1]
    BY <1>1, <1>2, SliceType
  <1>4. x \in Seq(Bit) /\ Len(x) = 8
    BY <1>2, <1>3
  <1>5. x \in [1 .. 8 -> Bit]
    BY <1>4, LenProperties, ElementOfSeq
  <1>6. \A i \in 1 .. 8 : x[i] = b[8 * k - 8 + i]
    BY <1>2, <1>3
  <1> QED
    BY <1>1, <1>5, <1>6 DEF ByteAt

LEMMA NumberOctet ==
  ASSUME NEW b \in [1 .. 8 -> Bit]
  PROVE  Number(b) \in Byte /\ Bits(Number(b), 8) = b
  <1>1. PICK w \in 0 .. 24 : w = 8
    OBVIOUS
  <1>2. b \in [1 .. w -> Bit]
    BY <1>1
  <1>3. Number(b) \in Nat /\ Number(b) < Power[w]
    BY <1>2, NumberBelow
  <1>4. Bits(Number(b), w) = b
    BY <1>2, BitsOfNumber
  <1> QED
    BY <1>1, <1>3, <1>4, PowerValues DEF Byte

LEMMA OctetsType ==
  ASSUME NEW n, NEW b, ByteBits(b, n)
  PROVE  /\ Octets(b) \in Seq(Byte) /\ Len(Octets(b)) = n
         /\ \A k \in 1 .. n : Octets(b)[k] = Number(ByteAt(b, k))
  <1>1. PICK o : o = Octets(b)
    OBVIOUS
  <1>2. n \in Nat /\ o = [k \in 1 .. n |-> Number(ByteAt(b, k))]
    <2>1. n \in Nat /\ Len(b) \div 8 = n
      BY DEF ByteBits
    <2> QED
      BY <1>1, <2>1 DEF Octets, ByteAt
  <1>3. ASSUME NEW k \in 1 .. n PROVE o[k] \in Byte
    <2>1. PICK x : x = ByteAt(b, k)
      OBVIOUS
    <2>2. x \in [1 .. 8 -> Bit]
      BY <2>1, OctetBits
    <2>3. o[k] = Number(x)
      BY <1>2, <2>1
    <2> QED
      BY <2>2, <2>3, NumberOctet
  <1>4. o = [k \in 1 .. n |-> o[k]]
    BY <1>2
  <1>5. o \in Seq(Byte) /\ Len(o) = n
    <2>1. n \in Nat
      BY <1>2
    <2>2. o \in [1 .. n -> Byte]
      BY <1>3, <1>4
    <2> QED
      BY <2>1, <2>2, SeqDef, LenProperties
  <1> QED
    BY <1>1, <1>2, <1>5

LEMMA BitsOfOctets ==
  ASSUME NEW n, NEW b, ByteBits(b, n)
  PROVE  BitsOf(Octets(b)) = b
  <1>1. PICK o : o = Octets(b)
    OBVIOUS
  <1>2. /\ o \in Seq(Byte) /\ Len(o) = n
        /\ \A k \in 1 .. n : o[k] = Number(ByteAt(b, k))
    BY <1>1, OctetsType
  <1>3. PICK c : c = BitsOf(o)
    OBVIOUS
  <1>4. c = [j \in 1 .. 8 * n |->
               (o[1 + (j - 1) \div 8] \div Power[7 - ((j - 1) % 8)]) % 2]
    BY <1>2, <1>3 DEF BitsOf
  <1>5. ASSUME NEW j \in 1 .. 8 * n PROVE c[j] = b[j]
    <2>1. PICK k \in 1 .. n, i \in 1 .. 8 :
                 /\ j = 8 * k - 8 + i /\ 1 + (j - 1) \div 8 = k
                 /\ 7 - ((j - 1) % 8) = 8 - i
      <3>1. n \in Nat
        BY DEF ByteBits
      <3> QED
        BY <3>1, BitPosition
    <2>2. PICK x : x = ByteAt(b, k)
      OBVIOUS
    <2>3. x \in [1 .. 8 -> Bit] /\ \A m \in 1 .. 8 : x[m] = b[8 * k - 8 + m]
      BY <2>2, OctetBits
    <2>4. o[k] = Number(x) /\ x[i] = b[j]
      BY <1>2, <2>1, <2>2, <2>3
    <2>5. c[j] = (o[k] \div Power[8 - i]) % 2
      BY <1>4, <2>1
    <2>6. Bits(Number(x), 8) = x
      BY <2>3, NumberOctet
    <2>7. Bits(Number(x), 8)[i] = (Number(x) \div Power[8 - i]) % 2
      BY DEF Bits
    <2> QED
      BY <2>4, <2>5, <2>6, <2>7
  <1>6. b = [j \in 1 .. 8 * n |-> b[j]]
    BY LenProperties DEF ByteBits
  <1>7. c = b
    BY <1>4, <1>5, <1>6
  <1> QED
    BY <1>1, <1>3, <1>7

LEMMA ByteBitsConcat ==
  ASSUME NEW m, NEW n, NEW a, NEW b, ByteBits(a, m), ByteBits(b, n)
  PROVE  ByteBits(a \o b, m + n)
  <1>1. m \in Nat /\ n \in Nat
    BY DEF ByteBits
  <1>2. a \in Seq(Bit) /\ b \in Seq(Bit)
    BY DEF ByteBits
  <1>3. a \o b \in Seq(Bit) /\ Len(a \o b) = Len(a) + Len(b)
    BY <1>2, ConcatParts
  <1>4. Len(a) = 8 * m /\ Len(b) = 8 * n
    BY DEF ByteBits
  <1> QED
    BY <1>1, <1>3, <1>4 DEF ByteBits

LEMMA ByteOfLeft ==
  ASSUME NEW m, NEW n, NEW a, NEW b, ByteBits(a, m), ByteBits(b, n), NEW k \in 1 .. m
  PROVE  ByteAt(a \o b, k) = ByteAt(a, k)
  <1>1. PICK l, r : l = 8 * k - 7 /\ r = 8 * k
    OBVIOUS
  <1>2. a \in Seq(Bit) /\ b \in Seq(Bit)
    BY DEF ByteBits
  <1>3. l \in Nat \ {0} /\ r \in Nat /\ l <= r + 1 /\ r <= Len(a)
    BY <1>1 DEF ByteBits
  <1>4. SubSeq(a \o b, l, r) = SubSeq(a, l, r)
    BY <1>2, <1>3, SliceLeft
  <1> QED
    BY <1>1, <1>4 DEF ByteAt

LEMMA ByteOfRight ==
  ASSUME NEW m, NEW n, NEW a, NEW b, ByteBits(a, m), ByteBits(b, n), NEW k \in 1 .. n
  PROVE  ByteAt(a \o b, m + k) = ByteAt(b, k)
  <1>1. PICK l, r : l = 8 * k - 7 /\ r = 8 * k
    OBVIOUS
  <1>2. a \in Seq(Bit) /\ b \in Seq(Bit)
    BY DEF ByteBits
  <1>3. l \in Nat \ {0} /\ r \in Nat /\ l <= r + 1 /\ r <= Len(b)
    BY <1>1 DEF ByteBits
  <1>4. SubSeq(a \o b, Len(a) + l, Len(a) + r) = SubSeq(b, l, r)
    BY <1>2, <1>3, SliceRight
  <1>5. Len(a) + l = 8 * (m + k) - 7 /\ Len(a) + r = 8 * (m + k)
    BY <1>1 DEF ByteBits
  <1> QED
    BY <1>1, <1>4, <1>5 DEF ByteAt

LEMMA OctetsConcat ==
  ASSUME NEW m, NEW n, NEW a, NEW b, ByteBits(a, m), ByteBits(b, n)
  PROVE  Octets(a \o b) = Octets(a) \o Octets(b)
  <1>1. PICK c : c = a \o b
    OBVIOUS
  <1>2. PICK x, y, z, w : x = Octets(a) /\ y = Octets(b) /\ z = Octets(c) /\ w = x \o y
    OBVIOUS
  <1>3. m \in Nat /\ n \in Nat
    BY DEF ByteBits
  <1>4. ByteBits(c, m + n)
    BY <1>1, ByteBitsConcat
  <1>5. /\ x \in Seq(Byte) /\ Len(x) = m
        /\ \A k \in 1 .. m : x[k] = Number(ByteAt(a, k))
    BY <1>2, OctetsType
  <1>6. /\ y \in Seq(Byte) /\ Len(y) = n
        /\ \A k \in 1 .. n : y[k] = Number(ByteAt(b, k))
    BY <1>2, OctetsType
  <1>7. /\ z \in Seq(Byte) /\ Len(z) = m + n
        /\ \A k \in 1 .. m + n : z[k] = Number(ByteAt(c, k))
    BY <1>2, <1>4, OctetsType
  <1>8. /\ w \in Seq(Byte) /\ Len(w) = Len(x) + Len(y)
        /\ \A i \in 1 .. Len(x) : w[i] = x[i]
        /\ \A i \in 1 .. Len(y) : w[Len(x) + i] = y[i]
    BY <1>2, <1>5, <1>6, ConcatParts
  <1>9. ASSUME NEW k \in 1 .. m PROVE z[k] = w[k]
    <2>1. k \in 1 .. m + n
      BY <1>3
    <2>2. z[k] = Number(ByteAt(a, k))
      <3>1. ByteAt(a \o b, k) = ByteAt(a, k)
        BY ByteOfLeft
      <3> QED
        BY <1>1, <1>7, <2>1, <3>1
    <2>3. w[k] = x[k]
      BY <1>5, <1>8
    <2> QED
      BY <1>5, <2>2, <2>3
  <1>10. ASSUME NEW k \in 1 .. n PROVE z[m + k] = w[m + k]
    <2>1. m + k \in 1 .. m + n
      BY <1>3
    <2>2. z[m + k] = Number(ByteAt(c, m + k))
      BY <1>7, <2>1
    <2>3. z[m + k] = Number(ByteAt(b, k))
      <3>1. ByteAt(a \o b, m + k) = ByteAt(b, k)
        BY ByteOfRight
      <3> QED
        BY <1>1, <2>2, <3>1
    <2>4. w[m + k] = y[k]
      BY <1>5, <1>6, <1>8
    <2> QED
      BY <1>6, <2>3, <2>4
  <1>11. ASSUME NEW k \in 1 .. m + n PROVE z[k] = w[k]
    <2>1. k \in 1 .. m \/ (k - m \in 1 .. n /\ m + (k - m) = k)
      BY <1>3
    <2> QED
      BY <1>9, <1>10, <2>1
  <1>12. Len(z) = Len(w)
    BY <1>5, <1>6, <1>7, <1>8
  <1>13. z = w
    BY <1>7, <1>8, <1>11, <1>12, SeqEqual
  <1> QED
    BY <1>1, <1>2, <1>13

-----------------------------------------------------------------------------
(* Headers: any list of N fields.                                          *)

Layout(fields, N) ==
  /\ N \in Nat /\ Len(fields) = N /\ DOMAIN fields = 1 .. N
  /\ \A k \in 1 .. N : fields[k][2] \in 0 .. 24
Values(fields, N, header) == \A k \in 1 .. N : header[fields[k][1]] \in Nat

\* E has the last bit of each field.
Sums(fields, N, E) ==
  /\ E \in [0 .. N -> Nat] /\ E[0] = 0
  /\ \A k \in 1 .. N : E[k] = E[k - 1] + fields[k][2]

\* W is what is written up to the k-th field.
Fields(fields, k, header, E, W) ==
  /\ W \in Seq(Bit) /\ Len(W) = E[k]
  /\ \A j \in 1 .. k :
       /\ E[j] <= E[k]
       /\ \A i \in 1 .. fields[j][2] :
            W[E[j - 1] + i] = Bits(header[fields[j][1]], fields[j][2])[i]

LEMMA EndsSum ==
  ASSUME NEW fields, NEW N, Layout(fields, N)
  PROVE  Sums(fields, N, Ends(fields))
  <1> DEFINE Sum[k \in 0 .. Len(fields)] ==
               IF k = 0 THEN 0 ELSE Sum[k - 1] + fields[k][2]
  <1>1. N \in Nat /\ Len(fields) = N /\ \A k \in 1 .. N : fields[k][2] \in Nat
    <2>1. 0 .. 24 \subseteq Nat
      OBVIOUS
    <2> QED
      BY <2>1, Zenon DEF Layout
  <1>2. Ends(fields) = Sum
    BY DEF Ends
  <1>3. \E f : f = [k \in 0 .. Len(fields) |-> IF k = 0 THEN 0 ELSE f[k - 1] + fields[k][2]]
    <2>1. PICK G : G = [k \in 1 .. N |-> [x \in Nat |-> x + fields[k][2]]]
      OBVIOUS
    <2>2. \A k \in 1 .. N : \A x \in Nat : G[k][x] = x + fields[k][2]
      BY <2>1
    <2>3. G \in Steps(N, Nat)
      <3>1. ASSUME NEW k \in 1 .. N, NEW x \in Nat PROVE x + fields[k][2] \in Nat
        <4>1. PICK y \in Nat : y = fields[k][2]
          BY <1>1
        <4> QED
          BY <4>1
      <3> QED
        BY <2>1, <3>1 DEF Steps
    <2>4. PICK f \in [0 .. N -> Nat] : Unfolds(f, 0, N, G)
      BY <1>1, <2>3, Recursion
    <2>5. f[0] = 0 /\ \A k \in 1 .. N : f[k] = G[k][f[k - 1]]
      BY <2>4 DEF Unfolds
    <2>6. ASSUME NEW k \in 1 .. N PROVE f[k] = f[k - 1] + fields[k][2]
      <3>1. f[k - 1] \in Nat
        BY <1>1
      <3> QED
        BY <2>2, <2>5, <3>1
    <2>7. f = [k \in 0 .. N |-> IF k = 0 THEN 0 ELSE f[k - 1] + fields[k][2]]
      BY <1>1, <2>5, <2>6
    <2> QED
      BY <1>1, <2>7
  <1>4. Sum = [k \in 0 .. Len(fields) |-> IF k = 0 THEN 0 ELSE Sum[k - 1] + fields[k][2]]
    BY <1>3
  <1>5. PICK g : g = Sum
    OBVIOUS
  <1> HIDE DEF Sum
  <1>6. g = [k \in 0 .. N |-> IF k = 0 THEN 0 ELSE g[k - 1] + fields[k][2]]
    BY <1>1, <1>4, <1>5
  <1>7. g[0] = 0 /\ \A k \in 1 .. N : g[k] = g[k - 1] + fields[k][2]
    BY <1>1, <1>6
  <1>8. \A k \in 0 .. N : g[k] \in Nat
    <2>1. ASSUME NEW k \in 1 .. N, g[k - 1] \in Nat PROVE g[k] \in Nat
      <3>1. PICK x \in Nat, y \in Nat : x = g[k - 1] /\ y = fields[k][2]
        BY <1>1, <2>1
      <3>2. g[k] = x + y
        BY <1>7, <3>1
      <3> QED
        BY <3>2
    <2>2. g[0] \in Nat
      BY <1>7
    <2> QED
      BY <1>1, <2>1, <2>2, RecursionType
  <1>9. g \in [0 .. N -> Nat]
    BY <1>6, <1>8
  <1> QED
    BY <1>2, <1>5, <1>7, <1>9 DEF Sums

\* What Encode has written after each field.
Writes(fields, N, header, f) ==
  /\ f \in [0 .. N -> Seq(Bit)] /\ f[0] = <<>>
  /\ \A k \in 1 .. N : f[k] = f[k - 1] \o Bits(header[fields[k][1]], fields[k][2])

LEMMA EncodeUnfolds ==
  ASSUME NEW fields, NEW N, Layout(fields, N), NEW header, Values(fields, N, header)
  PROVE  \E f : Writes(fields, N, header, f) /\ Encode(fields, header) = Octets(f[N])
  <1> DEFINE Written[k \in 0 .. Len(fields)] ==
               IF k = 0 THEN <<>>
               ELSE Written[k - 1] \o Bits(header[fields[k][1]], fields[k][2])
  <1>1. PICK b : b = [k \in 1 .. N |-> Bits(header[fields[k][1]], fields[k][2])]
    OBVIOUS
  <1>2. N \in Nat /\ Len(fields) = N
    BY DEF Layout
  <1>3. ASSUME NEW k \in 1 .. N PROVE b[k] \in Seq(Bit)
    <2>1. PICK n \in Nat, w \in 0 .. 24 : n = header[fields[k][1]] /\ w = fields[k][2]
      BY DEF Layout, Values
    <2>2. Bits(n, w) \in Seq(Bit)
      BY BitsType
    <2> QED
      BY <1>1, <2>1, <2>2
  <1>4. Encode(fields, header) = Octets(Written[N])
    BY <1>2 DEF Encode
  <1>5. \E f : f = [k \in 0 .. Len(fields) |->
                      IF k = 0 THEN <<>>
                      ELSE f[k - 1] \o Bits(header[fields[k][1]], fields[k][2])]
    <2>1. PICK G : G = [k \in 1 .. N |-> [x \in Seq(Bit) |-> x \o b[k]]]
      OBVIOUS
    <2>2. \A k \in 1 .. N : \A x \in Seq(Bit) : G[k][x] = x \o b[k]
      BY <2>1
    <2>3. G \in Steps(N, Seq(Bit))
      <3>1. ASSUME NEW k \in 1 .. N, NEW x \in Seq(Bit) PROVE x \o b[k] \in Seq(Bit)
        BY <1>3, ConcatParts
      <3> QED
        BY <2>1, <3>1 DEF Steps
    <2>4. <<>> \in Seq(Bit)
      OBVIOUS
    <2>5. PICK f \in [0 .. N -> Seq(Bit)] : Unfolds(f, <<>>, N, G)
      BY <1>2, <2>3, <2>4, Recursion
    <2>6. f[0] = <<>> /\ \A k \in 1 .. N : f[k] = G[k][f[k - 1]]
      BY <2>5 DEF Unfolds
    <2>7. ASSUME NEW k \in 1 .. N
          PROVE  f[k] = f[k - 1] \o Bits(header[fields[k][1]], fields[k][2])
      <3>1. f[k - 1] \in Seq(Bit)
        BY <1>2
      <3>2. f[k] = f[k - 1] \o b[k]
        BY <2>2, <2>6, <3>1
      <3> QED
        BY <1>1, <3>2
    <2>8. f = [k \in 0 .. N |->
                 IF k = 0 THEN <<>>
                 ELSE f[k - 1] \o Bits(header[fields[k][1]], fields[k][2])]
      <3>1. f = [k \in 0 .. N |-> f[k]]
        BY <1>2
      <3>2. \A k \in 0 .. N :
              f[k] = IF k = 0 THEN <<>>
                     ELSE f[k - 1] \o Bits(header[fields[k][1]], fields[k][2])
        <4>1. \A k \in 0 .. N : k = 0 \/ k \in 1 .. N
          BY <1>2
        <4> QED
          BY <2>6, <2>7, <4>1, Zenon
      <3> QED
        BY <3>1, <3>2, Zenon
    <2> QED
      BY <1>2, <2>8
  <1>6. Written = [k \in 0 .. Len(fields) |->
                     IF k = 0 THEN <<>>
                     ELSE Written[k - 1] \o Bits(header[fields[k][1]], fields[k][2])]
    BY <1>5
  <1>7. PICK g : g = Written
    OBVIOUS
  <1> HIDE DEF Written
  <1>8. g = [k \in 0 .. N |->
               IF k = 0 THEN <<>>
               ELSE g[k - 1] \o Bits(header[fields[k][1]], fields[k][2])]
    BY <1>2, <1>6, <1>7
  <1>9. /\ g[0] = <<>>
        /\ \A k \in 1 .. N : g[k] = g[k - 1] \o Bits(header[fields[k][1]], fields[k][2])
    BY <1>2, <1>8
  <1>10. \A k \in 0 .. N : g[k] \in Seq(Bit)
    <2>1. ASSUME NEW k \in 1 .. N, g[k - 1] \in Seq(Bit) PROVE g[k] \in Seq(Bit)
      <3>1. g[k] = g[k - 1] \o b[k]
        BY <1>1, <1>9
      <3> QED
        BY <1>3, <2>1, <3>1, ConcatParts
    <2>2. g[0] \in Seq(Bit)
      BY <1>9
    <2> QED
      BY <1>2, <2>1, <2>2, RecursionType
  <1>11. g \in [0 .. N -> Seq(Bit)]
    BY <1>8, <1>10
  <1>12. Writes(fields, N, header, g)
    BY <1>9, <1>11 DEF Writes
  <1> QED
    BY <1>4, <1>7, <1>12

LEMMA NextField ==
  ASSUME NEW fields, NEW N, Layout(fields, N), NEW header, Values(fields, N, header),
         NEW E, Sums(fields, N, E), NEW k \in 1 .. N, NEW W,
         Fields(fields, k - 1, header, E, W)
  PROVE  Fields(fields, k, header, E, W \o Bits(header[fields[k][1]], fields[k][2]))
  <1>1. PICK n \in Nat, w \in 0 .. 24 : n = header[fields[k][1]] /\ w = fields[k][2]
    BY DEF Layout, Values
  <1>2. PICK b : b = Bits(n, w)
    OBVIOUS
  <1>3. b \in Seq(Bit) /\ Len(b) = w
    BY <1>2, BitsType
  <1>4. PICK V : V = W \o b
    OBVIOUS
  <1>5. W \in Seq(Bit) /\ Len(W) = E[k - 1]
    BY DEF Fields
  <1>6. /\ V \in Seq(Bit) /\ Len(V) = Len(W) + Len(b)
        /\ \A i \in 1 .. Len(W) : V[i] = W[i]
        /\ \A i \in 1 .. Len(b) : V[Len(W) + i] = b[i]
    <2>1. W \in Seq(Bit) /\ b \in Seq(Bit)
      BY <1>3, <1>5
    <2>2. /\ W \o b \in Seq(Bit) /\ Len(W \o b) = Len(W) + Len(b)
          /\ \A i \in 1 .. Len(W) : (W \o b)[i] = W[i]
          /\ \A i \in 1 .. Len(b) : (W \o b)[Len(W) + i] = b[i]
      BY <2>1, ConcatParts
    <2> QED
      BY <1>4, <2>2, Zenon
  <1>7. N \in Nat /\ \A j \in 1 .. N : fields[j][2] \in 0 .. 24
    BY DEF Layout
  <1>8. \A j \in 0 .. N : E[j] \in Nat
    BY <1>7 DEF Sums
  <1>9. \A j \in 1 .. N : E[j] = E[j - 1] + fields[j][2]
    BY DEF Sums
  <1>10. E[k] = E[k - 1] + w /\ E[k - 1] \in Nat
    BY <1>1, <1>7, <1>8, <1>9
  <1>11. V \in Seq(Bit) /\ Len(V) = E[k]
    BY <1>3, <1>5, <1>6, <1>10
  <1>12. ASSUME NEW j \in 1 .. k - 1
         PROVE  /\ E[j] <= E[k]
                /\ \A i \in 1 .. fields[j][2] :
                     V[E[j - 1] + i] = Bits(header[fields[j][1]], fields[j][2])[i]
    <2>1. j \in 1 .. N /\ j - 1 \in 0 .. N /\ j \in 0 .. N
      BY <1>7
    <2>2. PICK x \in Nat, y \in Nat, z \in Nat, v \in 0 .. 24 :
            x = E[j - 1] /\ y = E[j] /\ z = E[k - 1] /\ v = fields[j][2]
      BY <1>7, <1>8, <1>10, <2>1
    <2>3. y = x + v /\ y <= z
      BY <1>9, <2>1, <2>2 DEF Fields
    <2>4. E[j] <= E[k]
      BY <1>10, <2>2, <2>3
    <2>5. ASSUME NEW i \in 1 .. v PROVE V[x + i] = Bits(header[fields[j][1]], v)[i]
      <3>1. x + i \in 1 .. z
        BY <2>3
      <3>2. V[x + i] = W[x + i]
        BY <1>5, <1>6, <2>2, <3>1
      <3>3. W[x + i] = Bits(header[fields[j][1]], v)[i]
        BY <2>2 DEF Fields
      <3> QED
        BY <3>2, <3>3
    <2> QED
      BY <2>2, <2>4, <2>5
  <1>13. /\ E[k] <= E[k]
         /\ \A i \in 1 .. w : V[E[k - 1] + i] = b[i]
    <2>1. E[k] <= E[k]
      BY <1>10
    <2> QED
      BY <1>3, <1>5, <1>6, <2>1
  <1>14. \A j \in 1 .. k : j \in 1 .. k - 1 \/ j = k
    OBVIOUS
  <1>15. ASSUME NEW j \in 1 .. k
         PROVE  /\ E[j] <= E[k]
                /\ \A i \in 1 .. fields[j][2] :
                     V[E[j - 1] + i] = Bits(header[fields[j][1]], fields[j][2])[i]
    <2>1. CASE j \in 1 .. k - 1
      BY <1>12, <2>1
    <2>2. CASE j = k
      BY <1>1, <1>2, <1>13, <2>2
    <2> QED
      BY <1>14, <2>1, <2>2
  <1>16. Fields(fields, k, header, E, V)
    BY <1>11, <1>15 DEF Fields
  <1> QED
    BY <1>1, <1>2, <1>4, <1>16

LEMMA EncodeFields ==
  ASSUME NEW fields, NEW N, Layout(fields, N), NEW header, Values(fields, N, header)
  PROVE  \E W : /\ Fields(fields, N, header, Ends(fields), W)
                /\ Encode(fields, header) = Octets(W)
  <1>1. PICK E : E = Ends(fields)
    OBVIOUS
  <1>2. N \in Nat
    BY DEF Layout
  <1>3. Sums(fields, N, E)
    BY <1>1, EndsSum
  <1>9. PICK f : Writes(fields, N, header, f) /\ Encode(fields, header) = Octets(f[N])
    BY EncodeUnfolds
  <1>4. /\ f[0] = <<>>
        /\ \A k \in 1 .. N : f[k] = f[k - 1] \o Bits(header[fields[k][1]], fields[k][2])
        /\ Encode(fields, header) = Octets(f[N])
    BY <1>9 DEF Writes
  <1> DEFINE S == {k \in 0 .. N : Fields(fields, k, header, E, f[k])}
  <1>5. 0 \in S
    <2>1. <<>> \in Seq(Bit) /\ Len(<<>>) = 0 /\ E[0] = 0
      BY <1>3 DEF Sums
    <2>2. Fields(fields, 0, header, E, f[0])
      BY <1>4, <2>1 DEF Fields
    <2> QED
      BY <1>2, <2>2
  <1>6. ASSUME NEW k \in 1 .. N, k - 1 \in S PROVE k \in S
    <2>1. Fields(fields, k - 1, header, E, f[k - 1])
      BY <1>6
    <2>2. Fields(fields, k, header, E,
                 f[k - 1] \o Bits(header[fields[k][1]], fields[k][2]))
      BY <1>3, <2>1, NextField
    <2>3. Fields(fields, k, header, E, f[k])
      BY <1>4, <2>2
    <2> QED
      BY <1>2, <2>3
  <1> HIDE DEF S
  <1>7. N \in S
    <2>1. 0 .. N \subseteq S
      BY <1>2, <1>5, <1>6, Induction
    <2> QED
      BY <1>2, <2>1
  <1>8. Fields(fields, N, header, E, f[N])
    BY <1>7 DEF S
  <1> QED
    BY <1>1, <1>4, <1>8

\* The bits of the k-th field.
FieldAt(W, E, k) == SubSeq(W, E[k - 1] + 1, E[k])

LEMMA FieldSlice ==
  ASSUME NEW fields, NEW N, Layout(fields, N), NEW header, Values(fields, N, header),
         NEW E, Sums(fields, N, E), NEW W, Fields(fields, N, header, E, W),
         NEW k \in 1 .. N
  PROVE  FieldAt(W, E, k) = Bits(header[fields[k][1]], fields[k][2])
  <1>1. PICK n \in Nat, w \in 0 .. 24 : n = header[fields[k][1]] /\ w = fields[k][2]
    BY DEF Layout, Values
  <1>2. PICK b : b = Bits(n, w)
    OBVIOUS
  <1>3. b \in Seq(Bit) /\ Len(b) = w
    BY <1>2, BitsType
  <1>4. PICK x \in Nat, y \in Nat, z \in Nat : x = E[k - 1] /\ y = E[k] /\ z = E[N]
    <2>1. N \in Nat /\ k - 1 \in 0 .. N /\ k \in 0 .. N /\ N \in 0 .. N
      BY DEF Layout
    <2>2. \A j \in 0 .. N : E[j] \in Nat
      BY DEF Sums
    <2>3. E[k - 1] \in Nat /\ E[k] \in Nat /\ E[N] \in Nat
      BY <2>1, <2>2
    <2> QED
      BY <2>3
  <1>5. y = x + w /\ y <= z
    BY <1>1, <1>4 DEF Sums, Fields
  <1>6. W \in Seq(Bit) /\ Len(W) = z
    BY <1>4 DEF Fields
  <1>7. \A i \in 1 .. w : W[x + i] = b[i]
    BY <1>1, <1>2, <1>4 DEF Fields
  <1>8. PICK s : s = SubSeq(W, x + 1, y)
    OBVIOUS
  <1>9. x + 1 \in 1 .. Len(W) + 1 /\ y \in (x + 1) - 1 .. Len(W)
    BY <1>5, <1>6
  <1>10. /\ s \in Seq(Bit) /\ Len(s) = y - (x + 1) + 1
         /\ \A i \in 1 .. y - (x + 1) + 1 : s[i] = W[(x + 1) + i - 1]
    BY <1>6, <1>8, <1>9, SliceType
  <1>11. Len(s) = Len(b)
    BY <1>3, <1>5, <1>10
  <1>12. ASSUME NEW i \in 1 .. w PROVE s[i] = b[i]
    <2>1. i \in 1 .. y - (x + 1) + 1 /\ (x + 1) + i - 1 = x + i
      BY <1>5
    <2> QED
      BY <1>7, <1>10, <2>1
  <1>13. s = b
    BY <1>3, <1>10, <1>11, <1>12, SeqEqual
  <1> QED
    BY <1>1, <1>2, <1>4, <1>8, <1>13 DEF FieldAt

\* A header of m bytes.
Sized(fields, N, m) ==
  Layout(fields, N) /\ m \in Nat /\ Ends(fields)[N] = 8 * m

\* All of its fields fit, and have different names.
Readable(fields, N, m, header) ==
  /\ Sized(fields, N, m)
  /\ \A j, k \in 1 .. N : fields[j][1] = fields[k][1] => j = k
  /\ \A k \in 1 .. N : Fits(header[fields[k][1]], fields[k][2])

LEMMA ReadableHeader ==
  ASSUME NEW fields, NEW N, NEW m, NEW header, Readable(fields, N, m, header)
  PROVE  Sized(fields, N, m) /\ Values(fields, N, header)
  BY DEF Readable, Values, Fits

LEMMA EncodeOctets ==
  ASSUME NEW fields, NEW N, NEW m, Sized(fields, N, m),
         NEW header, Values(fields, N, header)
  PROVE  \E W : /\ ByteBits(W, m) /\ Encode(fields, header) = Octets(W)
                /\ Fields(fields, N, header, Ends(fields), W)
  <1>1. PICK W : /\ Fields(fields, N, header, Ends(fields), W)
                 /\ Encode(fields, header) = Octets(W)
    BY EncodeFields DEF Sized
  <1>2. ByteBits(W, m)
    BY <1>1 DEF Fields, ByteBits, Sized
  <1> QED
    BY <1>1, <1>2

LEMMA EncodeType ==
  ASSUME NEW fields, NEW N, NEW m, Sized(fields, N, m),
         NEW header, Values(fields, N, header)
  PROVE  Bytes(Encode(fields, header), m)
  <1>1. PICK W : ByteBits(W, m) /\ Encode(fields, header) = Octets(W)
    BY EncodeOctets
  <1>2. Octets(W) \in Seq(Byte) /\ Len(Octets(W)) = m
    BY <1>1, OctetsType
  <1> QED
    BY <1>1, <1>2 DEF Bytes

\* What decode() reads is what encode() has written, for every header the code has:
\* the shifts and masks of the two agree on where each field is.
THEOREM HeaderReadBack ==
  ASSUME NEW fields, NEW N, NEW m, NEW header, Readable(fields, N, m, header)
  PROVE  Decode(fields, Encode(fields, header))
           = [name \in Names(fields) |-> header[name]]
  <1>1. /\ Layout(fields, N)
        /\ \A j, k \in 1 .. N : fields[j][1] = fields[k][1] => j = k
    BY DEF Readable, Sized
  <1>2. Sized(fields, N, m) /\ Values(fields, N, header)
    BY ReadableHeader
  <1>3. PICK E : E = Ends(fields)
    OBVIOUS
  <1>4. Sums(fields, N, E)
    BY <1>1, <1>3, EndsSum
  <1>5. PICK W : /\ ByteBits(W, m) /\ Encode(fields, header) = Octets(W)
                 /\ Fields(fields, N, header, E, W)
    BY <1>2, <1>3, EncodeOctets
  <1>6. BitsOf(Encode(fields, header)) = W
    BY <1>5, BitsOfOctets
  <1> DEFINE Index(name) == CHOOSE k \in DOMAIN fields : fields[k][1] = name
  <1>7. Decode(fields, Encode(fields, header))
          = [name \in Names(fields) |-> Number(FieldAt(W, E, Index(name)))]
    BY <1>3, <1>6 DEF Decode, FieldAt
  <1>8. ASSUME NEW name \in Names(fields)
        PROVE  Number(FieldAt(W, E, Index(name))) = header[name]
    <2>1. PICK k : k = Index(name)
      OBVIOUS
    <2>2. k \in 1 .. N /\ fields[k][1] = name
      <3>1. \E j \in DOMAIN fields : fields[j][1] = name
        BY DEF Names
      <3>2. k \in DOMAIN fields /\ fields[k][1] = name
        BY <2>1, <3>1
      <3> QED
        BY <1>1, <3>2 DEF Layout
    <2>3. FieldAt(W, E, k) = Bits(header[name], fields[k][2])
      BY <1>1, <1>2, <1>4, <1>5, <2>2, FieldSlice
    <2>4. Fits(header[name], fields[k][2])
      BY <2>2 DEF Readable
    <2>5. Number(Bits(header[name], fields[k][2])) = header[name]
      BY <2>4, NumberOfBits
    <2> QED
      BY <2>1, <2>3, <2>5
  <1> QED
    BY <1>7, <1>8

-----------------------------------------------------------------------------
(* The headers there are.                                                  *)

LEMMA TsHeaderLayout ==
  /\ Layout(TsHeader, 8) /\ Sized(TsHeader, 8, 4)
  /\ \A j, k \in 1 .. 8 : TsHeader[j][1] = TsHeader[k][1] => j = k
  <1>1. Layout(TsHeader, 8)
    BY DEF Layout, TsHeader
  <1>2. \A j, k \in 1 .. 8 : TsHeader[j][1] = TsHeader[k][1] => j = k
    BY DEF TsHeader
  <1>3. PICK E : E = Ends(TsHeader)
    OBVIOUS
  <1>4. Sums(TsHeader, 8, E)
    BY <1>1, <1>3, EndsSum
  <1>5. E[0] = 0 /\ \A k \in 1 .. 8 : E[k] = E[k - 1] + TsHeader[k][2]
    BY <1>4 DEF Sums
  <1>6. /\ TsHeader[1][2] = 8 /\ TsHeader[2][2] = 1 /\ TsHeader[3][2] = 1
        /\ TsHeader[4][2] = 1 /\ TsHeader[5][2] = 13 /\ TsHeader[6][2] = 2
        /\ TsHeader[7][2] = 2 /\ TsHeader[8][2] = 4
    BY DEF TsHeader
  <1>7. E[8] = 32
    BY <1>5, <1>6
  <1> QED
    BY <1>1, <1>2, <1>3, <1>7 DEF Sized

LEMMA TsNames ==
  Names(TsHeader) =
    {"mSyncByte", "mTransportErrorIndicator", "mPayloadUnitStartIndicator",
     "mTransportPriority", "mPid", "mTransportScramblingControl",
     "mAdaptationFieldControl", "mContinuityCounter"}
  <1>1. DOMAIN TsHeader = 1 .. 8
    BY DEF TsHeader
  <1> QED
    BY <1>1 DEF Names, TsHeader

\* Two headers agree on the field that the j-th bit is in.
SameAt(fields, N, E, h, g, j) ==
  \E q \in 1 .. N : \E i \in 1 .. fields[q][2] :
    j = E[q - 1] + i /\ h[fields[q][1]] = g[fields[q][1]]

LEMMA SameOctet ==
  ASSUME NEW fields, NEW N, NEW m, Sized(fields, N, m), NEW h, Values(fields, N, h),
         NEW g, Values(fields, N, g), NEW k \in 1 .. m,
         \A i \in 1 .. 8 : SameAt(fields, N, Ends(fields), h, g, 8 * k - 8 + i)
  PROVE  Encode(fields, h)[k] = Encode(fields, g)[k]
  <1>1. PICK E : E = Ends(fields)
    OBVIOUS
  <1>2. PICK V : /\ ByteBits(V, m) /\ Encode(fields, h) = Octets(V)
                 /\ Fields(fields, N, h, E, V)
    BY <1>1, EncodeOctets
  <1>3. PICK W : /\ ByteBits(W, m) /\ Encode(fields, g) = Octets(W)
                 /\ Fields(fields, N, g, E, W)
    BY <1>1, EncodeOctets
  <1>4. ASSUME NEW i \in 1 .. 8 PROVE V[8 * k - 8 + i] = W[8 * k - 8 + i]
    <2>1. PICK j : j = 8 * k - 8 + i
      OBVIOUS
    <2>2. SameAt(fields, N, E, h, g, j)
      BY <1>1, <2>1
    <2>3. PICK q \in 1 .. N : \E l \in 1 .. fields[q][2] :
                  j = E[q - 1] + l /\ h[fields[q][1]] = g[fields[q][1]]
      BY <2>2 DEF SameAt
    <2>4. PICK l \in 1 .. fields[q][2] :
                  j = E[q - 1] + l /\ h[fields[q][1]] = g[fields[q][1]]
      BY <2>3
    <2>5. V[j] = Bits(h[fields[q][1]], fields[q][2])[l]
      BY <1>2, <2>4 DEF Fields
    <2>6. W[j] = Bits(g[fields[q][1]], fields[q][2])[l]
      BY <1>3, <2>4 DEF Fields
    <2> QED
      BY <2>1, <2>4, <2>5, <2>6
  <1>5. PICK v, w : v = ByteAt(V, k) /\ w = ByteAt(W, k)
    OBVIOUS
  <1>6. v \in [1 .. 8 -> Bit] /\ \A i \in 1 .. 8 : v[i] = V[8 * k - 8 + i]
    BY <1>2, <1>5, OctetBits
  <1>7. w \in [1 .. 8 -> Bit] /\ \A i \in 1 .. 8 : w[i] = W[8 * k - 8 + i]
    BY <1>3, <1>5, OctetBits
  <1>8. v = w
    BY <1>4, <1>6, <1>7
  <1>9. Octets(V)[k] = Number(v) /\ Octets(W)[k] = Number(w)
    BY <1>2, <1>3, <1>5, OctetsType
  <1> QED
    BY <1>2, <1>3, <1>8, <1>9

\* The number that eight bits are.
LEMMA NumberOfEight ==
  ASSUME NEW b \in [1 .. 8 -> Bit]
  PROVE  Number(b) = 128 * b[1] + 64 * b[2] + 32 * b[3] + 16 * b[4]
                     + 8 * b[5] + 4 * b[6] + 2 * b[7] + b[8]
  <1>1. b \in Seq(Nat) /\ Len(b) = 8
    <2>1. PICK w \in Nat : w = 8
      OBVIOUS
    <2>2. b \in [1 .. w -> Nat]
      BY <2>1 DEF Bit
    <2>3. b \in Seq(Nat) /\ Len(b) = w
      BY <2>2, SeqDef, LenProperties
    <2> QED
      BY <2>1, <2>3
  <1>2. PICK f \in [0 .. 8 -> Nat] :
               /\ f[0] = 0 /\ \A k \in 1 .. 8 : f[k] = 2 * f[k - 1] + b[k]
               /\ Number(b) = f[8]
    BY <1>1, NumberReads
  <1>3. /\ f[0] = 0 /\ f[1] = 2 * f[0] + b[1] /\ f[2] = 2 * f[1] + b[2]
        /\ f[3] = 2 * f[2] + b[3] /\ f[4] = 2 * f[3] + b[4]
        /\ f[5] = 2 * f[4] + b[5] /\ f[6] = 2 * f[5] + b[6]
        /\ f[7] = 2 * f[6] + b[7] /\ f[8] = 2 * f[7] + b[8]
    BY <1>2
  <1>4. PICK b1 \in Nat, b2 \in Nat, b3 \in Nat, b4 \in Nat,
             b5 \in Nat, b6 \in Nat, b7 \in Nat, b8 \in Nat :
          /\ b1 = b[1] /\ b2 = b[2] /\ b3 = b[3] /\ b4 = b[4]
          /\ b5 = b[5] /\ b6 = b[6] /\ b7 = b[7] /\ b8 = b[8]
    <2>1. \A k \in 1 .. 8 : b[k] \in Nat
      BY DEF Bit
    <2>2. /\ b[1] \in Nat /\ b[2] \in Nat /\ b[3] \in Nat /\ b[4] \in Nat
          /\ b[5] \in Nat /\ b[6] \in Nat /\ b[7] \in Nat /\ b[8] \in Nat
      BY <2>1
    <2> QED
      BY <2>2, Zenon
  <1>5. f[8] = 128 * b1 + 64 * b2 + 32 * b3 + 16 * b4 + 8 * b5 + 4 * b6 + 2 * b7 + b8
    BY <1>3, <1>4
  <1> QED
    BY <1>2, <1>4, <1>5

LEMMA BitsOfTwo ==
  ASSUME NEW n \in 0 .. 3
  PROVE  /\ Bits(n, 2)[1] \in Bit /\ Bits(n, 2)[2] \in Bit
         /\ n = 2 * Bits(n, 2)[1] + Bits(n, 2)[2]
  <1>1. PICK w \in 0 .. 24, m \in Nat : w = 2 /\ m = n
    OBVIOUS
  <1>2. m < Power[w]
    BY <1>1, PowerValues
  <1>3. Fits(m, w)
    BY <1>2, FitsBelow
  <1>4. PICK s : s = Shift(m)
    OBVIOUS
  <1>5. s[0] = m /\ s[w] = 0
    BY <1>3, <1>4, Shifts DEF Fits
  <1>6. \A k \in 1 .. w : /\ Bits(m, w)[k] \in Bit
                          /\ s[w - k] = 2 * s[w - k + 1] + Bits(m, w)[k]
    BY <1>4, BitsType
  <1>7. /\ Bits(n, 2)[1] \in Bit /\ Bits(n, 2)[2] \in Bit
        /\ s[2 - 1] = 2 * s[2 - 1 + 1] + Bits(n, 2)[1]
        /\ s[2 - 2] = 2 * s[2 - 2 + 1] + Bits(n, 2)[2]
    BY <1>1, <1>6
  <1>8. PICK i \in Nat, j \in Nat : i = Bits(n, 2)[1] /\ j = Bits(n, 2)[2]
    BY <1>7 DEF Bit
  <1>9. s[2] = 0 /\ s[1] = 2 * s[2] + i /\ s[0] = 2 * s[1] + j
    BY <1>1, <1>5, <1>7, <1>8
  <1>10. n = 2 * i + j
    BY <1>1, <1>5, <1>9
  <1> QED
    BY <1>7, <1>8, <1>10

LEMMA BitsOfFour ==
  ASSUME NEW n \in 0 .. 15
  PROVE  /\ \A k \in 1 .. 4 : Bits(n, 4)[k] \in Bit
         /\ n = 8 * Bits(n, 4)[1] + 4 * Bits(n, 4)[2] + 2 * Bits(n, 4)[3] + Bits(n, 4)[4]
  <1>1. PICK w \in 0 .. 24, m \in Nat : w = 4 /\ m = n
    OBVIOUS
  <1>2. m < Power[w]
    BY <1>1, PowerValues
  <1>3. Fits(m, w)
    BY <1>2, FitsBelow
  <1>4. PICK s : s = Shift(m)
    OBVIOUS
  <1>5. s[0] = m /\ s[w] = 0
    BY <1>3, <1>4, Shifts DEF Fits
  <1>6. \A k \in 1 .. w : /\ Bits(m, w)[k] \in Bit
                          /\ s[w - k] = 2 * s[w - k + 1] + Bits(m, w)[k]
    BY <1>4, BitsType
  <1>7. /\ \A k \in 1 .. 4 : Bits(n, 4)[k] \in Bit
        /\ s[4 - 1] = 2 * s[4 - 1 + 1] + Bits(n, 4)[1]
        /\ s[4 - 2] = 2 * s[4 - 2 + 1] + Bits(n, 4)[2]
        /\ s[4 - 3] = 2 * s[4 - 3 + 1] + Bits(n, 4)[3]
        /\ s[4 - 4] = 2 * s[4 - 4 + 1] + Bits(n, 4)[4]
    BY <1>1, <1>6
  <1>8. PICK b1 \in Nat, b2 \in Nat, b3 \in Nat, b4 \in Nat :
          /\ b1 = Bits(n, 4)[1] /\ b2 = Bits(n, 4)[2]
          /\ b3 = Bits(n, 4)[3] /\ b4 = Bits(n, 4)[4]
    BY <1>7 DEF Bit
  <1>9. /\ s[4] = 0 /\ s[3] = 2 * s[4] + b1 /\ s[2] = 2 * s[3] + b2
        /\ s[1] = 2 * s[2] + b3 /\ s[0] = 2 * s[1] + b4
    BY <1>1, <1>5, <1>7, <1>8
  <1>10. n = 8 * b1 + 4 * b2 + 2 * b3 + b4
    BY <1>1, <1>5, <1>9
  <1> QED
    BY <1>7, <1>8, <1>10

\* Where the fields of a transport header end.
LEMMA TsEnds ==
  /\ Sums(TsHeader, 8, Ends(TsHeader))
  /\ Ends(TsHeader)[0] = 0 /\ Ends(TsHeader)[1] = 8 /\ Ends(TsHeader)[2] = 9
  /\ Ends(TsHeader)[3] = 10 /\ Ends(TsHeader)[4] = 11 /\ Ends(TsHeader)[5] = 24
  /\ Ends(TsHeader)[6] = 26 /\ Ends(TsHeader)[7] = 28 /\ Ends(TsHeader)[8] = 32
  <1>1. PICK E : E = Ends(TsHeader)
    OBVIOUS
  <1>2. Sums(TsHeader, 8, E)
    BY <1>1, TsHeaderLayout, EndsSum
  <1>3. E[0] = 0 /\ \A k \in 1 .. 8 : E[k] = E[k - 1] + TsHeader[k][2]
    BY <1>2 DEF Sums
  <1>4. /\ TsHeader[1][2] = 8 /\ TsHeader[2][2] = 1 /\ TsHeader[3][2] = 1
        /\ TsHeader[4][2] = 1 /\ TsHeader[5][2] = 13 /\ TsHeader[6][2] = 2
        /\ TsHeader[7][2] = 2 /\ TsHeader[8][2] = 4
    BY DEF TsHeader
  <1>5. /\ E[1] = 8 /\ E[2] = 9 /\ E[3] = 10 /\ E[4] = 11 /\ E[5] = 24
        /\ E[6] = 26 /\ E[7] = 28 /\ E[8] = 32
    BY <1>3, <1>4
  <1> QED
    BY <1>1, <1>2, <1>3, <1>5

\* The values a transport header can have.
TsValues(h) ==
  /\ h.mSyncByte \in 0 .. 255 /\ h.mTransportErrorIndicator \in 0 .. 1
  /\ h.mPayloadUnitStartIndicator \in 0 .. 1 /\ h.mTransportPriority \in 0 .. 1
  /\ h.mPid \in Nat /\ h.mPid <= 8191 /\ h.mTransportScramblingControl \in 0 .. 3
  /\ h.mAdaptationFieldControl \in 0 .. 3 /\ h.mContinuityCounter \in 0 .. 15

LEMMA FitsOne ==
  ASSUME NEW n \in 0 .. 1
  PROVE  Fits(n, 1)
  <1>1. n \in Nat /\ n < Power[1] /\ 1 \in 0 .. 24
    BY PowerValues
  <1> QED
    BY <1>1, FitsBelow

LEMMA FitsTwo ==
  ASSUME NEW n \in 0 .. 3
  PROVE  Fits(n, 2)
  <1>1. n \in Nat /\ n < Power[2] /\ 2 \in 0 .. 24
    BY PowerValues
  <1> QED
    BY <1>1, FitsBelow

LEMMA FitsFour ==
  ASSUME NEW n \in 0 .. 15
  PROVE  Fits(n, 4)
  <1>1. n \in Nat /\ n < Power[4] /\ 4 \in 0 .. 24
    BY PowerValues
  <1> QED
    BY <1>1, FitsBelow

LEMMA FitsByte ==
  ASSUME NEW n \in 0 .. 255
  PROVE  Fits(n, 8)
  <1>1. n \in Nat /\ n < Power[8] /\ 8 \in 0 .. 24
    BY PowerValues
  <1> QED
    BY <1>1, FitsBelow

LEMMA FitsPid ==
  ASSUME NEW n \in Nat, n <= 8191
  PROVE  Fits(n, 13)
  <1>1. n < Power[13] /\ 13 \in 0 .. 24
    BY PowerValues
  <1> QED
    BY <1>1, FitsBelow

LEMMA TsReadable ==
  ASSUME NEW h, TsValues(h)
  PROVE  Readable(TsHeader, 8, 4, h)
  <1>1. /\ Fits(h.mSyncByte, 8) /\ Fits(h.mTransportErrorIndicator, 1)
        /\ Fits(h.mPayloadUnitStartIndicator, 1) /\ Fits(h.mTransportPriority, 1)
        /\ Fits(h.mPid, 13) /\ Fits(h.mTransportScramblingControl, 2)
        /\ Fits(h.mAdaptationFieldControl, 2) /\ Fits(h.mContinuityCounter, 4)
    <2>1. Fits(h.mSyncByte, 8)
      <3>1. h.mSyncByte \in 0 .. 255
        BY DEF TsValues
      <3> QED
        BY <3>1, FitsByte
    <2>2. Fits(h.mTransportErrorIndicator, 1)
      BY FitsOne DEF TsValues
    <2>3. Fits(h.mPayloadUnitStartIndicator, 1)
      BY FitsOne DEF TsValues
    <2>4. Fits(h.mTransportPriority, 1)
      BY FitsOne DEF TsValues
    <2>5. Fits(h.mPid, 13)
      <3>1. h.mPid \in Nat /\ h.mPid <= 8191
        BY DEF TsValues
      <3> QED
        BY <3>1, FitsPid
    <2>6. Fits(h.mTransportScramblingControl, 2)
      BY FitsTwo DEF TsValues
    <2>7. Fits(h.mAdaptationFieldControl, 2)
      BY FitsTwo DEF TsValues
    <2>8. Fits(h.mContinuityCounter, 4)
      BY FitsFour DEF TsValues
    <2> QED
      BY <2>1, <2>2, <2>3, <2>4, <2>5, <2>6, <2>7, <2>8
  <1>2. ASSUME NEW k \in 1 .. 8 PROVE Fits(h[TsHeader[k][1]], TsHeader[k][2])
    BY <1>1 DEF TsHeader
  <1> QED
    BY <1>2, TsHeaderLayout DEF Readable

\* A transport header as it is read: nothing but the priority is lost.
LEMMA TsHeaderRead ==
  ASSUME NEW h, TsValues(h)
  PROVE  /\ Bytes(Encode(TsHeader, h), 4)
         /\ DecodeTsHeader(Encode(TsHeader, h))
              = [name \in Names(TsHeader) |->
                   IF name = "mTransportPriority" THEN 0 ELSE h[name]]
  <1>1. Readable(TsHeader, 8, 4, h)
    BY TsReadable
  <1>2. Bytes(Encode(TsHeader, h), 4)
    <2>1. Sized(TsHeader, 8, 4) /\ Values(TsHeader, 8, h)
      BY <1>1, ReadableHeader
    <2> QED
      BY <2>1, EncodeType
  <1>3. Decode(TsHeader, Encode(TsHeader, h)) = [name \in Names(TsHeader) |-> h[name]]
    BY <1>1, HeaderReadBack
  <1> QED
    BY <1>2, <1>3 DEF DecodeTsHeader, Unread

\* The last byte of a transport header.
LEMMA TsLastByte ==
  ASSUME NEW h, TsValues(h)
  PROVE  Encode(TsHeader, h)[4] = 64 * h.mTransportScramblingControl
                                  + 16 * h.mAdaptationFieldControl
                                  + h.mContinuityCounter
  <1>1. Sized(TsHeader, 8, 4) /\ Values(TsHeader, 8, h)
    BY TsReadable, ReadableHeader
  <1>2. PICK E : E = Ends(TsHeader)
    OBVIOUS
  <1>3. PICK W : /\ ByteBits(W, 4) /\ Encode(TsHeader, h) = Octets(W)
                 /\ Fields(TsHeader, 8, h, E, W)
    BY <1>1, <1>2, EncodeOctets
  <1>4. PICK x \in 0 .. 3, y \in 0 .. 3, z \in 0 .. 15 :
          /\ x = h.mTransportScramblingControl /\ y = h.mAdaptationFieldControl
          /\ z = h.mContinuityCounter
    BY DEF TsValues
  <1>5. PICK a, b, c : a = Bits(x, 2) /\ b = Bits(y, 2) /\ c = Bits(z, 4)
    OBVIOUS
  <1>6. /\ \A i \in 1 .. 2 : W[24 + i] = a[i]
        /\ \A i \in 1 .. 2 : W[26 + i] = b[i]
        /\ \A i \in 1 .. 4 : W[28 + i] = c[i]
    <2>1. \A j \in 1 .. 8 : \A i \in 1 .. TsHeader[j][2] :
            W[E[j - 1] + i] = Bits(h[TsHeader[j][1]], TsHeader[j][2])[i]
      BY <1>3 DEF Fields
    <2>2. /\ TsHeader[6] = <<"mTransportScramblingControl", 2>>
          /\ TsHeader[7] = <<"mAdaptationFieldControl", 2>>
          /\ TsHeader[8] = <<"mContinuityCounter", 4>>
      BY DEF TsHeader
    <2>3. E[6 - 1] = 24 /\ E[7 - 1] = 26 /\ E[8 - 1] = 28
      BY <1>2, TsEnds
    <2>4. \A i \in 1 .. 2 : W[24 + i] = a[i]
      BY <1>4, <1>5, <2>1, <2>2, <2>3
    <2>5. \A i \in 1 .. 2 : W[26 + i] = b[i]
      BY <1>4, <1>5, <2>1, <2>2, <2>3
    <2>6. \A i \in 1 .. 4 : W[28 + i] = c[i]
      BY <1>4, <1>5, <2>1, <2>2, <2>3
    <2> QED
      BY <2>4, <2>5, <2>6
  <1>7. PICK v : v = ByteAt(W, 4)
    OBVIOUS
  <1>8. v \in [1 .. 8 -> Bit] /\ \A i \in 1 .. 8 : v[i] = W[8 * 4 - 8 + i]
    BY <1>3, <1>7, OctetBits
  <1>9. /\ v[1] = a[1] /\ v[2] = a[2] /\ v[3] = b[1] /\ v[4] = b[2]
        /\ v[5] = c[1] /\ v[6] = c[2] /\ v[7] = c[3] /\ v[8] = c[4]
    BY <1>6, <1>8
  <1>10. Number(v) = 128 * v[1] + 64 * v[2] + 32 * v[3] + 16 * v[4]
                     + 8 * v[5] + 4 * v[6] + 2 * v[7] + v[8]
    BY <1>8, NumberOfEight
  <1>11. x = 2 * a[1] + a[2] /\ y = 2 * b[1] + b[2]
    BY <1>5, BitsOfTwo
  <1>12. z = 8 * c[1] + 4 * c[2] + 2 * c[3] + c[4]
    BY <1>5, BitsOfFour
  <1>13. PICK a1 \in Int, a2 \in Int, b1 \in Int, b2 \in Int,
              c1 \in Int, c2 \in Int, c3 \in Int, c4 \in Int :
           /\ a1 = v[1] /\ a2 = v[2] /\ b1 = v[3] /\ b2 = v[4]
           /\ c1 = v[5] /\ c2 = v[6] /\ c3 = v[7] /\ c4 = v[8]
    <2>1. \A k \in 1 .. 8 : v[k] \in Int
      BY <1>8 DEF Bit
    <2>2. /\ v[1] \in Int /\ v[2] \in Int /\ v[3] \in Int /\ v[4] \in Int
          /\ v[5] \in Int /\ v[6] \in Int /\ v[7] \in Int /\ v[8] \in Int
      BY <2>1
    <2> QED
      BY <2>2, Zenon
  <1>14. Number(v) = 64 * x + 16 * y + z
    <2>1. x = 2 * a1 + a2 /\ y = 2 * b1 + b2
      BY <1>9, <1>11, <1>13
    <2>2. z = 8 * c1 + 4 * c2 + 2 * c3 + c4
      BY <1>9, <1>12, <1>13
    <2>3. Number(v) = 128 * a1 + 64 * a2 + 32 * b1 + 16 * b2
                      + 8 * c1 + 4 * c2 + 2 * c3 + c4
      BY <1>10, <1>13
    <2> QED
      BY <2>1, <2>2, <2>3
  <1>15. Octets(W)[4] = Number(v)
    BY <1>3, <1>7, OctetsType
  <1> QED
    BY <1>3, <1>4, <1>14, <1>15

LEMMA AdaptationLayout ==
  /\ Sized(AdaptationLength, 1, 1)
  /\ \A j, k \in 1 .. 1 : AdaptationLength[j][1] = AdaptationLength[k][1] => j = k
  <1>1. Layout(AdaptationLength, 1)
    BY DEF Layout, AdaptationLength
  <1>2. PICK E : E = Ends(AdaptationLength)
    OBVIOUS
  <1>3. Sums(AdaptationLength, 1, E)
    BY <1>1, <1>2, EndsSum
  <1>4. E[1] = 8
    BY <1>3 DEF Sums, AdaptationLength
  <1> QED
    BY <1>1, <1>2, <1>4 DEF Sized

LEMMA AdaptationFields ==
  /\ Len(AdaptationFieldHeader) = 9 /\ DOMAIN AdaptationFieldHeader = 1 .. 9
  /\ AdaptationFieldHeader[1] = <<"mAdaptationFieldLength", 8>>
  /\ AdaptationFieldHeader[2] = <<"mDiscontinuityIndicator", 1>>
  /\ AdaptationFieldHeader[3] = <<"mRandomAccessIndicator", 1>>
  /\ AdaptationFieldHeader[4] = <<"mElementaryStreamPriorityIndicator", 1>>
  /\ AdaptationFieldHeader[5] = <<"mPcrFlag", 1>>
  /\ AdaptationFieldHeader[6] = <<"mOpcrFlag", 1>>
  /\ AdaptationFieldHeader[7] = <<"mSplicingPointFlag", 1>>
  /\ AdaptationFieldHeader[8] = <<"mTransportPrivateDataFlag", 1>>
  /\ AdaptationFieldHeader[9] = <<"mAdaptationFieldExtensionFlag", 1>>
  BY DEF AdaptationFieldHeader, AdaptationLength, AdaptationFlags

LEMMA AdaptationNames ==
  Names(AdaptationFieldHeader) =
    {"mAdaptationFieldLength", "mDiscontinuityIndicator", "mRandomAccessIndicator",
     "mElementaryStreamPriorityIndicator", "mPcrFlag", "mOpcrFlag",
     "mSplicingPointFlag", "mTransportPrivateDataFlag",
     "mAdaptationFieldExtensionFlag"}
  BY AdaptationFields DEF Names

LEMMA AdaptationHeaderLayout ==
  /\ Sized(AdaptationFieldHeader, 9, 2)
  /\ \A j, k \in 1 .. 9 :
       AdaptationFieldHeader[j][1] = AdaptationFieldHeader[k][1] => j = k
  /\ Ends(AdaptationFieldHeader)[0] = 0
  /\ \A k \in 1 .. 9 : Ends(AdaptationFieldHeader)[k] = 7 + k
  <1>1. Layout(AdaptationFieldHeader, 9)
    BY AdaptationFields DEF Layout
  <1>2. \A j, k \in 1 .. 9 :
          AdaptationFieldHeader[j][1] = AdaptationFieldHeader[k][1] => j = k
    BY AdaptationFields
  <1>3. PICK E : E = Ends(AdaptationFieldHeader)
    OBVIOUS
  <1>4. Sums(AdaptationFieldHeader, 9, E)
    BY <1>1, <1>3, EndsSum
  <1>5. E[0] = 0 /\ \A k \in 1 .. 9 : E[k] = E[k - 1] + AdaptationFieldHeader[k][2]
    BY <1>4 DEF Sums
  <1>6. /\ AdaptationFieldHeader[1][2] = 8
        /\ \A k \in 2 .. 9 : AdaptationFieldHeader[k][2] = 1
    BY AdaptationFields
  <1>7. /\ E[1] = 8 /\ E[2] = 9 /\ E[3] = 10 /\ E[4] = 11 /\ E[5] = 12
        /\ E[6] = 13 /\ E[7] = 14 /\ E[8] = 15 /\ E[9] = 16
    BY <1>5, <1>6
  <1>8. \A k \in 1 .. 9 : E[k] = 7 + k
    BY <1>7
  <1> QED
    BY <1>1, <1>2, <1>3, <1>5, <1>7, <1>8 DEF Sized

\* A field that is a byte.
LEMMA OctetField ==
  ASSUME NEW fields, NEW N, NEW m, NEW h, Readable(fields, N, m, h),
         NEW q \in 1 .. N, NEW k \in 1 .. m,
         Ends(fields)[q - 1] = 8 * k - 8, Ends(fields)[q] = 8 * k
  PROVE  Encode(fields, h)[k] = h[fields[q][1]]
  <1>1. Sized(fields, N, m) /\ Values(fields, N, h) /\ Layout(fields, N)
    BY ReadableHeader DEF Sized
  <1>2. PICK E : E = Ends(fields)
    OBVIOUS
  <1>3. PICK W : /\ ByteBits(W, m) /\ Encode(fields, h) = Octets(W)
                 /\ Fields(fields, N, h, E, W)
    BY <1>1, <1>2, EncodeOctets
  <1>4. Sums(fields, N, E)
    BY <1>1, <1>2, EndsSum
  <1>5. FieldAt(W, E, q) = Bits(h[fields[q][1]], fields[q][2])
    BY <1>1, <1>3, <1>4, FieldSlice
  <1>6. FieldAt(W, E, q) = ByteAt(W, k)
    <2>1. m \in Nat
      BY <1>1 DEF Sized
    <2>2. E[q - 1] + 1 = 8 * k - 7 /\ E[q] = 8 * k
      BY <1>2, <2>1
    <2> QED
      BY <2>2 DEF FieldAt, ByteAt
  <1>7. Number(Bits(h[fields[q][1]], fields[q][2])) = h[fields[q][1]]
    <2>1. Fits(h[fields[q][1]], fields[q][2])
      BY DEF Readable
    <2> QED
      BY <2>1, NumberOfBits
  <1>8. Octets(W)[k] = Number(ByteAt(W, k))
    BY <1>3, OctetsType
  <1> QED
    BY <1>3, <1>5, <1>6, <1>7, <1>8

\* The values an adaptation field can have.
AdaptationValues(a) ==
  /\ a.mAdaptationFieldLength \in 0 .. 255
  /\ a.mDiscontinuityIndicator \in 0 .. 1 /\ a.mRandomAccessIndicator \in 0 .. 1
  /\ a.mElementaryStreamPriorityIndicator \in 0 .. 1 /\ a.mPcrFlag \in 0 .. 1
  /\ a.mOpcrFlag \in 0 .. 1 /\ a.mSplicingPointFlag \in 0 .. 1
  /\ a.mTransportPrivateDataFlag \in 0 .. 1
  /\ a.mAdaptationFieldExtensionFlag \in 0 .. 1

LEMMA AdaptationReadable ==
  ASSUME NEW a, AdaptationValues(a)
  PROVE  /\ Readable(AdaptationFieldHeader, 9, 2, a)
         /\ Readable(AdaptationLength, 1, 1, a)
  <1>1. Fits(a.mAdaptationFieldLength, 8)
    <2>1. a.mAdaptationFieldLength \in 0 .. 255
      BY DEF AdaptationValues
    <2> QED
      BY <2>1, FitsByte
  <1>2. /\ Fits(a.mDiscontinuityIndicator, 1) /\ Fits(a.mRandomAccessIndicator, 1)
        /\ Fits(a.mElementaryStreamPriorityIndicator, 1) /\ Fits(a.mPcrFlag, 1)
        /\ Fits(a.mOpcrFlag, 1) /\ Fits(a.mSplicingPointFlag, 1)
        /\ Fits(a.mTransportPrivateDataFlag, 1)
        /\ Fits(a.mAdaptationFieldExtensionFlag, 1)
    <2>1. \A x \in 0 .. 1 : Fits(x, 1)
      BY FitsOne
    <2> QED
      BY <2>1 DEF AdaptationValues
  <1>3. ASSUME NEW k \in 1 .. 9
        PROVE  Fits(a[AdaptationFieldHeader[k][1]], AdaptationFieldHeader[k][2])
    BY <1>1, <1>2, AdaptationFields
  <1>4. ASSUME NEW k \in 1 .. 1
        PROVE  Fits(a[AdaptationLength[k][1]], AdaptationLength[k][2])
    BY <1>1 DEF AdaptationLength
  <1>5. Readable(AdaptationFieldHeader, 9, 2, a)
    BY <1>3, AdaptationHeaderLayout DEF Readable
  <1>6. Readable(AdaptationLength, 1, 1, a)
    BY <1>4, AdaptationLayout DEF Readable
  <1> QED
    BY <1>5, <1>6

\* An adaptation field starts with its length; if that is 0, this is all of it.
LEMMA AdaptationWritten ==
  ASSUME NEW a, AdaptationValues(a)
  PROVE  /\ a.mAdaptationFieldLength = 0 =>
              Bytes(EncodeAdaptation(a), 1) /\ EncodeAdaptation(a)[1] = 0
         /\ a.mAdaptationFieldLength # 0 =>
              /\ Bytes(EncodeAdaptation(a), 2)
              /\ EncodeAdaptation(a)[1] = a.mAdaptationFieldLength
  <1>1. CASE a.mAdaptationFieldLength = 0
    <2>1. EncodeAdaptation(a) = Encode(AdaptationLength, a)
      BY <1>1 DEF EncodeAdaptation
    <2>2. Readable(AdaptationLength, 1, 1, a)
      BY AdaptationReadable
    <2>3. Sized(AdaptationLength, 1, 1) /\ Values(AdaptationLength, 1, a)
      BY <2>2, ReadableHeader
    <2>4. Bytes(Encode(AdaptationLength, a), 1)
      BY <2>3, EncodeType
    <2>5. Ends(AdaptationLength)[1 - 1] = 8 * 1 - 8 /\ Ends(AdaptationLength)[1] = 8 * 1
      <3>1. Layout(AdaptationLength, 1) /\ Ends(AdaptationLength)[1] = 8 * 1
        BY <2>3 DEF Sized
      <3>2. Ends(AdaptationLength)[0] = 0
        BY <3>1, EndsSum DEF Sums
      <3> QED
        BY <3>1, <3>2
    <2>6. Encode(AdaptationLength, a)[1] = a[AdaptationLength[1][1]]
      BY <2>2, <2>5, OctetField
    <2>7. AdaptationLength[1][1] = "mAdaptationFieldLength"
      BY DEF AdaptationLength
    <2> QED
      BY <1>1, <2>1, <2>4, <2>6, <2>7
  <1>2. CASE a.mAdaptationFieldLength # 0
    <2>1. EncodeAdaptation(a) = Encode(AdaptationFieldHeader, a)
      BY <1>2 DEF EncodeAdaptation
    <2>2. Readable(AdaptationFieldHeader, 9, 2, a)
      BY AdaptationReadable
    <2>3. Sized(AdaptationFieldHeader, 9, 2) /\ Values(AdaptationFieldHeader, 9, a)
      BY <2>2, ReadableHeader
    <2>4. Bytes(Encode(AdaptationFieldHeader, a), 2)
      BY <2>3, EncodeType
    <2>5. /\ Ends(AdaptationFieldHeader)[1 - 1] = 8 * 1 - 8
          /\ Ends(AdaptationFieldHeader)[1] = 8 * 1
      BY AdaptationHeaderLayout
    <2>6. Encode(AdaptationFieldHeader, a)[1] = a[AdaptationFieldHeader[1][1]]
      BY <2>2, <2>5, OctetField
    <2>7. AdaptationFieldHeader[1][1] = "mAdaptationFieldLength"
      BY AdaptationFields
    <2> QED
      BY <1>2, <2>1, <2>4, <2>6, <2>7
  <1> QED
    BY <1>1, <1>2

LEMMA PESHeaderLayout ==
  /\ Sized(PESHeader, 17, 9)
  /\ \A j, k \in 1 .. 17 : PESHeader[j][1] = PESHeader[k][1] => j = k
  <1>1. Layout(PESHeader, 17)
    BY DEF Layout, PESHeader
  <1>2. \A j, k \in 1 .. 17 : PESHeader[j][1] = PESHeader[k][1] => j = k
    BY DEF PESHeader
  <1>3. PICK E : E = Ends(PESHeader)
    OBVIOUS
  <1>4. Sums(PESHeader, 17, E)
    BY <1>1, <1>3, EndsSum
  <1>5. E[0] = 0 /\ \A k \in 1 .. 17 : E[k] = E[k - 1] + PESHeader[k][2]
    BY <1>4 DEF Sums
  <1>6. /\ PESHeader[1][2] = 24 /\ PESHeader[2][2] = 8 /\ PESHeader[3][2] = 16
        /\ PESHeader[4][2] = 2 /\ PESHeader[5][2] = 2 /\ PESHeader[6][2] = 1
        /\ PESHeader[7][2] = 1 /\ PESHeader[8][2] = 1 /\ PESHeader[9][2] = 1
        /\ PESHeader[10][2] = 2 /\ PESHeader[11][2] = 1 /\ PESHeader[12][2] = 1
        /\ PESHeader[13][2] = 1 /\ PESHeader[14][2] = 1 /\ PESHeader[15][2] = 1
        /\ PESHeader[16][2] = 1 /\ PESHeader[17][2] = 8
    BY DEF PESHeader
  <1>7. E[17] = 72
    BY <1>5, <1>6
  <1> QED
    BY <1>1, <1>2, <1>3, <1>7 DEF Sized

LEMMA PATHeaderLayout ==
  /\ Sized(PATHeader, 11, 8)
  /\ \A j, k \in 1 .. 11 : PATHeader[j][1] = PATHeader[k][1] => j = k
  <1>1. Layout(PATHeader, 11)
    BY DEF Layout, PATHeader
  <1>2. \A j, k \in 1 .. 11 : PATHeader[j][1] = PATHeader[k][1] => j = k
    BY DEF PATHeader
  <1>3. PICK E : E = Ends(PATHeader)
    OBVIOUS
  <1>4. Sums(PATHeader, 11, E)
    BY <1>1, <1>3, EndsSum
  <1>5. E[0] = 0 /\ \A k \in 1 .. 11 : E[k] = E[k - 1] + PATHeader[k][2]
    BY <1>4 DEF Sums
  <1>6. /\ PATHeader[1][2] = 8 /\ PATHeader[2][2] = 1 /\ PATHeader[3][2] = 1
        /\ PATHeader[4][2] = 2 /\ PATHeader[5][2] = 12 /\ PATHeader[6][2] = 16
        /\ PATHeader[7][2] = 2 /\ PATHeader[8][2] = 5 /\ PATHeader[9][2] = 1
        /\ PATHeader[10][2] = 8 /\ PATHeader[11][2] = 8
    BY DEF PATHeader
  <1>7. E[11] = 64
    BY <1>5, <1>6
  <1> QED
    BY <1>1, <1>2, <1>3, <1>7 DEF Sized

LEMMA PMTHeaderLayout ==
  /\ Sized(PMTHeader, 15, 12)
  /\ \A j, k \in 1 .. 15 : PMTHeader[j][1] = PMTHeader[k][1] => j = k
  <1>1. Layout(PMTHeader, 15)
    BY DEF Layout, PMTHeader
  <1>2. \A j, k \in 1 .. 15 : PMTHeader[j][1] = PMTHeader[k][1] => j = k
    BY DEF PMTHeader
  <1>3. PICK E : E = Ends(PMTHeader)
    OBVIOUS
  <1>4. Sums(PMTHeader, 15, E)
    BY <1>1, <1>3, EndsSum
  <1>5. E[0] = 0 /\ \A k \in 1 .. 15 : E[k] = E[k - 1] + PMTHeader[k][2]
    BY <1>4 DEF Sums
  <1>6. /\ PMTHeader[1][2] = 8 /\ PMTHeader[2][2] = 1 /\ PMTHeader[3][2] = 1
        /\ PMTHeader[4][2] = 2 /\ PMTHeader[5][2] = 12 /\ PMTHeader[6][2] = 16
        /\ PMTHeader[7][2] = 2 /\ PMTHeader[8][2] = 5 /\ PMTHeader[9][2] = 1
        /\ PMTHeader[10][2] = 8 /\ PMTHeader[11][2] = 8 /\ PMTHeader[12][2] = 3
        /\ PMTHeader[13][2] = 13 /\ PMTHeader[14][2] = 4 /\ PMTHeader[15][2] = 12
    BY DEF PMTHeader
  <1>7. E[15] = 96
    BY <1>5, <1>6
  <1> QED
    BY <1>1, <1>2, <1>3, <1>7 DEF Sized

LEMMA PMTElementInfoLayout ==
  /\ Sized(PMTElementInfo, 5, 5)
  /\ \A j, k \in 1 .. 5 : PMTElementInfo[j][1] = PMTElementInfo[k][1] => j = k
  <1>1. Layout(PMTElementInfo, 5)
    BY DEF Layout, PMTElementInfo
  <1>2. \A j, k \in 1 .. 5 : PMTElementInfo[j][1] = PMTElementInfo[k][1] => j = k
    BY DEF PMTElementInfo
  <1>3. PICK E : E = Ends(PMTElementInfo)
    OBVIOUS
  <1>4. Sums(PMTElementInfo, 5, E)
    BY <1>1, <1>3, EndsSum
  <1>5. E[0] = 0 /\ \A k \in 1 .. 5 : E[k] = E[k - 1] + PMTElementInfo[k][2]
    BY <1>4 DEF Sums
  <1>6. /\ PMTElementInfo[1][2] = 8 /\ PMTElementInfo[2][2] = 3
        /\ PMTElementInfo[3][2] = 13 /\ PMTElementInfo[4][2] = 4
        /\ PMTElementInfo[5][2] = 12
    BY DEF PMTElementInfo
  <1>7. E[5] = 40
    BY <1>5, <1>6
  <1> QED
    BY <1>1, <1>2, <1>3, <1>7 DEF Sized

-----------------------------------------------------------------------------
(* Time stamps and the CRC: how many bytes they are.                       *)

LEMMA FilledType ==
  ASSUME NEW S, NEW n \in Nat, NEW v \in S
  PROVE  Filled(n, v) \in Seq(S) /\ Len(Filled(n, v)) = n
         /\ \A k \in 1 .. n : Filled(n, v)[k] = v
  <1>1. Filled(n, v) \in [1 .. n -> S]
    BY DEF Filled
  <1>2. \A k \in 1 .. n : Filled(n, v)[k] = v
    BY DEF Filled
  <1> QED
    BY <1>1, <1>2, SeqDef, LenProperties

\* A string of n bits.
BitSeq(s, n) == n \in Nat /\ s \in Seq(Bit) /\ Len(s) = n

LEMMA BitSeqConcat ==
  ASSUME NEW m, NEW n, NEW a, NEW b, BitSeq(a, m), BitSeq(b, n)
  PROVE  BitSeq(a \o b, m + n)
  <1>1. m \in Nat /\ n \in Nat /\ a \in Seq(Bit) /\ b \in Seq(Bit)
        /\ Len(a) = m /\ Len(b) = n
    BY DEF BitSeq
  <1>2. a \o b \in Seq(Bit) /\ Len(a \o b) = Len(a) + Len(b)
    BY <1>1, ConcatParts
  <1> QED
    BY <1>1, <1>2 DEF BitSeq

\* The parts of c, which is a followed by b.
Joined(a, m, b, n, c) ==
  (\A i \in 1 .. m : c[i] = a[i]) /\ (\A i \in 1 .. n : c[m + i] = b[i])

LEMMA BitSeqJoined ==
  ASSUME NEW m, NEW n, NEW a, NEW b, BitSeq(a, m), BitSeq(b, n)
  PROVE  Joined(a, m, b, n, a \o b)
  <1>1. a \in Seq(Bit) /\ b \in Seq(Bit)
    BY DEF BitSeq
  <1>2. /\ \A i \in 1 .. Len(a) : (a \o b)[i] = a[i]
        /\ \A i \in 1 .. Len(b) : (a \o b)[Len(a) + i] = b[i]
    BY <1>1, ConcatParts
  <1>3. Len(a) = m /\ Len(b) = n
    BY DEF BitSeq
  <1> QED
    BY <1>2, <1>3 DEF Joined

LEMMA BitSeqSlice ==
  ASSUME NEW n, NEW s, BitSeq(s, n), NEW l \in Nat \ {0}, NEW r \in Nat,
         l <= r + 1, r <= n
  PROVE  BitSeq(SubSeq(s, l, r), r - l + 1)
  <1>1. n \in Nat /\ s \in Seq(Bit) /\ Len(s) = n
    BY DEF BitSeq
  <1>2. l \in 1 .. Len(s) + 1 /\ r \in l - 1 .. Len(s) /\ r - l + 1 \in Nat
    BY <1>1
  <1>3. SubSeq(s, l, r) \in Seq(Bit) /\ Len(SubSeq(s, l, r)) = r - l + 1
    BY <1>1, <1>2, SliceType
  <1> QED
    BY <1>2, <1>3 DEF BitSeq

LEMMA BitSeqOne ==
  BitSeq(<<0>>, 1) /\ BitSeq(<<1>>, 1)
  BY DEF BitSeq, Bit

LEMMA BitSeqFilled ==
  ASSUME NEW n \in Nat, NEW v \in Bit
  PROVE  BitSeq(Filled(n, v), n)
  BY FilledType DEF BitSeq

LEMMA BitSeqBits ==
  ASSUME NEW n \in Nat, NEW w \in 0 .. 24
  PROVE  BitSeq(Bits(n, w), w)
  <1>1. Bits(n, w) \in Seq(Bit) /\ Len(Bits(n, w)) = w
    BY BitsType
  <1> QED
    BY <1>1 DEF BitSeq

LEMMA BitSeqFunction ==
  ASSUME NEW n, NEW s, BitSeq(s, n)
  PROVE  s \in [1 .. n -> Bit]
  <1>1. n \in Nat /\ s \in Seq(Bit) /\ Len(s) = n
    BY DEF BitSeq
  <1> QED
    BY <1>1, LenProperties, ElementOfSeq

LEMMA OctetsOf ==
  ASSUME NEW n, NEW m, NEW s, BitSeq(s, m), n \in Nat, m = 8 * n
  PROVE  Bytes(Octets(s), n)
  <1>1. ByteBits(s, n)
    BY DEF BitSeq, ByteBits
  <1>2. Octets(s) \in Seq(Byte) /\ Len(Octets(s)) = n
    BY <1>1, OctetsType
  <1> QED
    BY <1>2 DEF Bytes

LEMMA PtsWritten ==
  ASSUME NEW fb \in 0 .. 15, NEW pts, BitSeq(pts, 33)
  PROVE  Bytes(writePts(fb, pts), 5)
  <1>1. PICK a, b, c, d, e, f, g :
          /\ a = Bits(fb, 4) /\ b = SubSeq(pts, 1, 3) /\ c = <<1>>
          /\ d = SubSeq(pts, 4, 18) /\ e = <<1>> /\ f = SubSeq(pts, 19, 33) /\ g = <<1>>
    OBVIOUS
  <1>2. BitSeq(a, 4)
    BY <1>1, BitSeqBits
  <1>3. BitSeq(b, 3 - 1 + 1) /\ BitSeq(d, 18 - 4 + 1) /\ BitSeq(f, 33 - 19 + 1)
    BY <1>1, BitSeqSlice
  <1>4. BitSeq(c, 1) /\ BitSeq(e, 1) /\ BitSeq(g, 1)
    BY <1>1, BitSeqOne
  <1>5. BitSeq(b, 3) /\ BitSeq(d, 15) /\ BitSeq(f, 15)
    BY <1>3
  <1>6. BitSeq(a \o b, 4 + 3)
    BY <1>2, <1>5, BitSeqConcat
  <1>7. BitSeq(a \o b \o c, 4 + 3 + 1)
    BY <1>4, <1>6, BitSeqConcat
  <1>8. BitSeq(a \o b \o c \o d, 4 + 3 + 1 + 15)
    BY <1>5, <1>7, BitSeqConcat
  <1>9. BitSeq(a \o b \o c \o d \o e, 4 + 3 + 1 + 15 + 1)
    BY <1>4, <1>8, BitSeqConcat
  <1>10. BitSeq(a \o b \o c \o d \o e \o f, 4 + 3 + 1 + 15 + 1 + 15)
    BY <1>5, <1>9, BitSeqConcat
  <1>11. BitSeq(a \o b \o c \o d \o e \o f \o g, 4 + 3 + 1 + 15 + 1 + 15 + 1)
    BY <1>4, <1>10, BitSeqConcat
  <1>12. 4 + 3 + 1 + 15 + 1 + 15 + 1 = 8 * 5
    OBVIOUS
  <1>13. Bytes(Octets(a \o b \o c \o d \o e \o f \o g), 5)
    BY <1>11, <1>12, OctetsOf
  <1> QED
    BY <1>1, <1>13 DEF writePts

LEMMA PcrWritten ==
  ASSUME NEW pcr, BitSeq(pcr, 33)
  PROVE  Bytes(writePcr(pcr), 6)
  <1>1. PICK a, b : a = Filled(6, 1) /\ b = Filled(9, 0)
    OBVIOUS
  <1>2. BitSeq(a, 6) /\ BitSeq(b, 9)
    BY <1>1, BitSeqFilled DEF Bit
  <1>3. BitSeq(pcr \o a, 33 + 6)
    BY <1>2, BitSeqConcat
  <1>4. BitSeq(pcr \o a \o b, 33 + 6 + 9)
    BY <1>2, <1>3, BitSeqConcat
  <1>5. 33 + 6 + 9 = 8 * 6
    OBVIOUS
  <1>6. Bytes(Octets(pcr \o a \o b), 6)
    BY <1>4, <1>5, OctetsOf
  <1> QED
    BY <1>1, <1>6 DEF writePcr

\* A register of the CRC.
Words == {s \in Seq(Bit) : Len(s) = 32}

LEMMA WordIs ==
  ASSUME NEW s
  PROVE  s \in Words <=> BitSeq(s, 32)
  BY DEF Words, BitSeq

LEMMA XorType ==
  ASSUME NEW n, NEW a, NEW b, BitSeq(a, n), BitSeq(b, n)
  PROVE  BitSeq(Xor(a, b), n)
  <1>1. n \in Nat /\ DOMAIN a = 1 .. n
    BY LenProperties DEF BitSeq
  <1>2. a \in [1 .. n -> Bit] /\ b \in [1 .. n -> Bit]
    BY BitSeqFunction
  <1>3. PICK x : x = Xor(a, b)
    OBVIOUS
  <1>4. x = [k \in 1 .. n |-> (a[k] + b[k]) % 2]
    BY <1>1, <1>3 DEF Xor
  <1>5. ASSUME NEW k \in 1 .. n PROVE (a[k] + b[k]) % 2 \in Bit
    <2>1. PICK i \in Bit, j \in Bit : i = a[k] /\ j = b[k]
      BY <1>2
    <2>2. (i + j) % 2 \in Bit
      BY DEF Bit
    <2> QED
      BY <2>1, <2>2
  <1>6. x \in [1 .. n -> Bit]
    BY <1>4, <1>5
  <1>7. x \in Seq(Bit) /\ Len(x) = n
    BY <1>1, <1>6, SeqDef, LenProperties
  <1> QED
    BY <1>1, <1>3, <1>7 DEF BitSeq

LEMMA PolynomialType ==
  BitSeq(Polynomial, 32)
  <1>1. BitSeq(Bits(1217, 16), 16) /\ BitSeq(Bits(7607, 16), 16)
    BY BitSeqBits
  <1>2. BitSeq(Bits(1217, 16) \o Bits(7607, 16), 16 + 16)
    BY <1>1, BitSeqConcat
  <1>3. 16 + 16 = 32
    OBVIOUS
  <1> QED
    BY <1>2, <1>3 DEF Polynomial

LEMMA ShiftType ==
  ASSUME NEW r, BitSeq(r, 32)
  PROVE  BitSeq(SubSeq(r, 2, 32) \o <<0>>, 32)
  <1>1. PICK s : s = SubSeq(r, 2, 32)
    OBVIOUS
  <1>2. BitSeq(s, 32 - 2 + 1)
    BY <1>1, BitSeqSlice
  <1>3. BitSeq(s \o <<0>>, 32 - 2 + 1 + 1)
    BY <1>2, BitSeqOne, BitSeqConcat
  <1>4. 32 - 2 + 1 + 1 = 32
    OBVIOUS
  <1> QED
    BY <1>1, <1>3, <1>4

\* One step of the division.
Divided(r) ==
  LET shifted == SubSeq(r, 2, 32) \o <<0>>
  IN IF r[1] = 1 THEN Xor(shifted, Polynomial) ELSE shifted

LEMMA DividedType ==
  ASSUME NEW r \in Words
  PROVE  Divided(r) \in Words
  <1>1. BitSeq(SubSeq(r, 2, 32) \o <<0>>, 32)
    BY WordIs, ShiftType
  <1>2. BitSeq(Xor(SubSeq(r, 2, 32) \o <<0>>, Polynomial), 32)
    BY <1>1, PolynomialType, XorType
  <1>3. BitSeq(Divided(r), 32)
    BY <1>1, <1>2, Zenon DEF Divided
  <1> QED
    BY <1>3, WordIs

LEMMA RemainderType ==
  ASSUME NEW n \in 0 .. 255
  PROVE  Remainder(n) \in Words
  <1> DEFINE First == Bits(n, 8) \o Filled(24, 0)
             Step[k \in 0 .. 8] ==
               IF k = 0 THEN First
               ELSE LET r == Step[k - 1]
                        shifted == SubSeq(r, 2, 32) \o <<0>>
                    IN IF r[1] = 1 THEN Xor(shifted, Polynomial) ELSE shifted
  <1>1. First \in Words
    <2>1. BitSeq(Bits(n, 8), 8) /\ BitSeq(Filled(24, 0), 24)
      BY BitSeqBits, BitSeqFilled DEF Bit
    <2>2. BitSeq(Bits(n, 8) \o Filled(24, 0), 8 + 24)
      BY <2>1, BitSeqConcat
    <2>3. 8 + 24 = 32
      OBVIOUS
    <2> QED
      BY <2>2, <2>3, WordIs
  <1>2. Remainder(n) = Step[8]
    BY DEF Remainder
  <1> HIDE DEF First
  <1>3. \E f : f = [k \in 0 .. 8 |-> IF k = 0 THEN First ELSE Divided(f[k - 1])]
    <2>1. PICK N \in Nat : N = 8
      OBVIOUS
    <2>2. PICK G : G = [k \in 1 .. N |-> [x \in Words |-> Divided(x)]]
      OBVIOUS
    <2>3. \A k \in 1 .. N : \A x \in Words : G[k][x] = Divided(x)
      BY <2>2
    <2>4. G \in Steps(N, Words)
      BY <2>2, DividedType DEF Steps
    <2>5. PICK f \in [0 .. N -> Words] : Unfolds(f, First, N, G)
      BY <1>1, <2>4, Recursion
    <2>6. f[0] = First /\ \A k \in 1 .. N : f[k] = G[k][f[k - 1]]
      BY <2>5 DEF Unfolds
    <2>7. ASSUME NEW k \in 1 .. N PROVE f[k] = Divided(f[k - 1])
      <3>1. f[k - 1] \in Words
        OBVIOUS
      <3> QED
        BY <2>3, <2>6, <3>1
    <2>8. f = [k \in 0 .. N |-> IF k = 0 THEN First ELSE Divided(f[k - 1])]
      BY <2>6, <2>7
    <2> QED
      BY <2>1, <2>8
  <1>4. Step = [k \in 0 .. 8 |-> IF k = 0 THEN First ELSE Divided(Step[k - 1])]
    BY <1>3 DEF Divided
  <1>5. PICK g : g = Step
    OBVIOUS
  <1> HIDE DEF Step
  <1>6. g[0] = First /\ \A k \in 1 .. 8 : g[k] = Divided(g[k - 1])
    BY <1>4, <1>5
  <1>7. \A k \in 0 .. 8 : g[k] \in Words
    <2>1. \A k \in 1 .. 8 : g[k - 1] \in Words => g[k] \in Words
      BY <1>6, DividedType
    <2>2. g[0] \in Words /\ 8 \in Nat
      BY <1>1, <1>6
    <2> QED
      BY <2>1, <2>2, RecursionType
  <1> QED
    BY <1>2, <1>5, <1>7

\* One byte more.
CrcStep(lCrc, octet) ==
  LET index == Number(Xor(SubSeq(lCrc, 1, 8), Bits(octet, 8)))
  IN Xor(SubSeq(lCrc, 9, 32) \o Filled(8, 0), crcTable[index])

LEMMA CrcStepType ==
  ASSUME NEW lCrc \in Words, NEW octet \in Byte
  PROVE  CrcStep(lCrc, octet) \in Words
  <1>1. BitSeq(lCrc, 32)
    BY WordIs
  <1>2. PICK x, y : x = Xor(SubSeq(lCrc, 1, 8), Bits(octet, 8))
                    /\ y = SubSeq(lCrc, 9, 32) \o Filled(8, 0)
    OBVIOUS
  <1>3. BitSeq(x, 8)
    <2>1. BitSeq(SubSeq(lCrc, 1, 8), 8 - 1 + 1)
      BY <1>1, BitSeqSlice
    <2>2. BitSeq(Bits(octet, 8), 8)
      BY BitSeqBits DEF Byte
    <2>3. 8 - 1 + 1 = 8
      OBVIOUS
    <2>4. BitSeq(SubSeq(lCrc, 1, 8), 8)
      BY <2>1, <2>3
    <2>5. BitSeq(Xor(SubSeq(lCrc, 1, 8), Bits(octet, 8)), 8)
      BY <2>2, <2>4, XorType
    <2> QED
      BY <1>2, <2>5
  <1>4. BitSeq(y, 32)
    <2>1. BitSeq(SubSeq(lCrc, 9, 32), 32 - 9 + 1) /\ BitSeq(Filled(8, 0), 8)
      BY <1>1, BitSeqSlice, BitSeqFilled DEF Bit
    <2>2. BitSeq(SubSeq(lCrc, 9, 32) \o Filled(8, 0), 32 - 9 + 1 + 8)
      BY <2>1, BitSeqConcat
    <2>3. 32 - 9 + 1 + 8 = 32
      OBVIOUS
    <2> QED
      BY <1>2, <2>2, <2>3
  <1>5. Number(x) \in 0 .. 255
    <2>1. x \in [1 .. 8 -> Bit]
      BY <1>3, BitSeqFunction
    <2> QED
      BY <2>1, NumberOctet DEF Byte
  <1>6. BitSeq(crcTable[Number(x)], 32)
    <2>1. crcTable[Number(x)] = Remainder(Number(x))
      BY <1>5 DEF crcTable
    <2>2. Remainder(Number(x)) \in Words
      BY <1>5, RemainderType
    <2> QED
      BY <2>1, <2>2, WordIs
  <1>7. BitSeq(Xor(y, crcTable[Number(x)]), 32)
    BY <1>4, <1>6, XorType
  <1>8. CrcStep(lCrc, octet) = Xor(y, crcTable[Number(x)])
    BY <1>2 DEF CrcStep
  <1> QED
    BY <1>7, <1>8, WordIs

\* The register after each byte.
Registers(octets, N, f) ==
  /\ f \in [0 .. N -> Words] /\ f[0] = Filled(32, 1)
  /\ \A k \in 1 .. N : f[k] = CrcStep(f[k - 1], octets[k])

LEMMA CrcUnfolds ==
  ASSUME NEW N, NEW octets, Bytes(octets, N)
  PROVE  \E f : Registers(octets, N, f) /\ crc32(octets) = Octets(f[N])
  <1> DEFINE Crc[k \in 0 .. Len(octets)] ==
               IF k = 0 THEN Filled(32, 1)
               ELSE LET lCrc == Crc[k - 1]
                        index == Number(Xor(SubSeq(lCrc, 1, 8), Bits(octets[k], 8)))
                    IN Xor(SubSeq(lCrc, 9, 32) \o Filled(8, 0), crcTable[index])
  <1>1. N \in Nat /\ N = Len(octets) /\ \A k \in 1 .. N : octets[k] \in Byte
    <2>1. octets \in Seq(Byte) /\ Len(octets) = N
      BY DEF Bytes
    <2> QED
      BY <2>1, LenProperties, ElementOfSeq
  <1>2. crc32(octets) = Octets(Crc[N])
    BY <1>1 DEF crc32
  <1>3. Filled(32, 1) \in Words
    BY BitSeqFilled, WordIs DEF Bit
  <1>4. \E f : f = [k \in 0 .. Len(octets) |->
                      IF k = 0 THEN Filled(32, 1) ELSE CrcStep(f[k - 1], octets[k])]
    <2>1. PICK G : G = [k \in 1 .. N |-> [x \in Words |-> CrcStep(x, octets[k])]]
      OBVIOUS
    <2>2. \A k \in 1 .. N : \A x \in Words : G[k][x] = CrcStep(x, octets[k])
      BY <2>1
    <2>3. G \in Steps(N, Words)
      <3>1. \A k \in 1 .. N : \A x \in Words : CrcStep(x, octets[k]) \in Words
        BY <1>1, CrcStepType
      <3> QED
        BY <2>1, <3>1 DEF Steps
    <2>4. PICK f \in [0 .. N -> Words] : Unfolds(f, Filled(32, 1), N, G)
      BY <1>1, <1>3, <2>3, Recursion
    <2>5. f[0] = Filled(32, 1) /\ \A k \in 1 .. N : f[k] = G[k][f[k - 1]]
      BY <2>4 DEF Unfolds
    <2>6. ASSUME NEW k \in 1 .. N PROVE f[k] = CrcStep(f[k - 1], octets[k])
      <3>1. f[k - 1] \in Words
        BY <1>1
      <3> QED
        BY <2>2, <2>5, <3>1
    <2>7. f = [k \in 0 .. N |->
                 IF k = 0 THEN Filled(32, 1) ELSE CrcStep(f[k - 1], octets[k])]
      BY <1>1, <2>5, <2>6
    <2> QED
      BY <1>1, <2>7
  <1>5. Crc = [k \in 0 .. Len(octets) |->
                 IF k = 0 THEN Filled(32, 1) ELSE CrcStep(Crc[k - 1], octets[k])]
    BY <1>4 DEF CrcStep
  <1>6. PICK g : g = Crc
    OBVIOUS
  <1> HIDE DEF Crc
  <1>7. g = [k \in 0 .. N |->
               IF k = 0 THEN Filled(32, 1) ELSE CrcStep(g[k - 1], octets[k])]
    BY <1>1, <1>5, <1>6
  <1>8. g[0] = Filled(32, 1) /\ \A k \in 1 .. N : g[k] = CrcStep(g[k - 1], octets[k])
    BY <1>1, <1>7
  <1>9. \A k \in 0 .. N : g[k] \in Words
    <2>1. \A k \in 1 .. N : g[k - 1] \in Words => g[k] \in Words
      BY <1>1, <1>8, CrcStepType
    <2>2. g[0] \in Words
      BY <1>3, <1>8
    <2> QED
      BY <1>1, <2>1, <2>2, RecursionType
  <1>10. g \in [0 .. N -> Words]
    BY <1>7, <1>9
  <1>11. Registers(octets, N, g)
    BY <1>8, <1>10 DEF Registers
  <1> QED
    BY <1>2, <1>6, <1>11

LEMMA CrcWritten ==
  ASSUME NEW N, NEW octets, Bytes(octets, N)
  PROVE  Bytes(crc32(octets), 4)
  <1>1. PICK f : Registers(octets, N, f) /\ crc32(octets) = Octets(f[N])
    BY CrcUnfolds
  <1>2. N \in Nat
    BY LenProperties DEF Bytes
  <1>3. f[N] \in Words
    BY <1>1, <1>2 DEF Registers
  <1>4. BitSeq(f[N], 32)
    BY <1>3, WordIs
  <1>5. 32 = 8 * 4
    OBVIOUS
  <1>6. Bytes(Octets(f[N]), 4)
    BY <1>4, <1>5, OctetsOf
  <1> QED
    BY <1>1, <1>6

-----------------------------------------------------------------------------
(* The CRC of what ends in its own CRC.                                    *)

Zeros(n) == Filled(n, 0)

LEMMA ZerosType ==
  ASSUME NEW n \in Nat
  PROVE  BitSeq(Zeros(n), n) /\ Zeros(n) = [k \in 1 .. n |-> 0]
  BY BitSeqFilled DEF Zeros, Filled, Bit

LEMMA BitSeqEqual ==
  ASSUME NEW n, NEW a, NEW b, BitSeq(a, n), BitSeq(b, n), \A i \in 1 .. n : a[i] = b[i]
  PROVE  a = b
  <1>1. a \in Seq(Bit) /\ b \in Seq(Bit) /\ Len(a) = n /\ Len(b) = n
    BY DEF BitSeq
  <1> QED
    BY <1>1, SeqEqual

LEMMA XorSelf ==
  ASSUME NEW n, NEW a, BitSeq(a, n)
  PROVE  Xor(a, a) = Zeros(n)
  <1>1. n \in Nat /\ DOMAIN a = 1 .. n
    BY LenProperties DEF BitSeq
  <1>2. a \in [1 .. n -> Bit]
    BY BitSeqFunction
  <1>3. Xor(a, a) = [k \in 1 .. n |-> (a[k] + a[k]) % 2]
    BY <1>1 DEF Xor
  <1>4. ASSUME NEW k \in 1 .. n PROVE (a[k] + a[k]) % 2 = 0
    <2>1. PICK i \in Bit : i = a[k]
      BY <1>2
    <2>2. (i + i) % 2 = 0
      BY DEF Bit
    <2> QED
      BY <2>1, <2>2
  <1>5. [k \in 1 .. n |-> (a[k] + a[k]) % 2] = [k \in 1 .. n |-> 0]
    BY <1>4
  <1> QED
    BY <1>1, <1>3, <1>5, ZerosType

LEMMA XorZeros ==
  ASSUME NEW n, NEW a, BitSeq(a, n)
  PROVE  Xor(a, Zeros(n)) = a
  <1>1. n \in Nat /\ DOMAIN a = 1 .. n
    BY LenProperties DEF BitSeq
  <1>2. a \in [1 .. n -> Bit]
    BY BitSeqFunction
  <1>3. PICK z : z = Zeros(n)
    OBVIOUS
  <1>4. \A k \in 1 .. n : z[k] = 0
    BY <1>1, <1>3, ZerosType
  <1>5. PICK x : x = Xor(a, z)
    OBVIOUS
  <1>6. x = [k \in 1 .. n |-> (a[k] + z[k]) % 2]
    BY <1>1, <1>5 DEF Xor
  <1>7. ASSUME NEW k \in 1 .. n PROVE x[k] = a[k]
    <2>1. PICK i \in Bit : i = a[k]
      BY <1>2
    <2>2. (i + 0) % 2 = i
      BY DEF Bit
    <2> QED
      BY <1>4, <1>6, <2>1, <2>2
  <1>8. x = a
    BY <1>2, <1>6, <1>7
  <1> QED
    BY <1>3, <1>5, <1>8

LEMMA NumberZeros ==
  Number(Zeros(8)) = 0
  <1>1. PICK z : z = Zeros(8)
    OBVIOUS
  <1>2. z = [k \in 1 .. 8 |-> 0]
    BY <1>1, ZerosType
  <1>3. z \in [1 .. 8 -> Bit]
    BY <1>2 DEF Bit
  <1>4. Number(z) = 128 * z[1] + 64 * z[2] + 32 * z[3] + 16 * z[4]
                    + 8 * z[5] + 4 * z[6] + 2 * z[7] + z[8]
    BY <1>3, NumberOfEight
  <1>5. /\ z[1] = 0 /\ z[2] = 0 /\ z[3] = 0 /\ z[4] = 0
        /\ z[5] = 0 /\ z[6] = 0 /\ z[7] = 0 /\ z[8] = 0
    BY <1>2
  <1>6. Number(z) = 0
    BY <1>4, <1>5
  <1> QED
    BY <1>1, <1>6

LEMMA BitsZero ==
  Bits(0, 8) = Zeros(8)
  <1>1. BitSeq(Zeros(8), 8)
    BY ZerosType
  <1>2. Zeros(8) \in [1 .. 8 -> Bit]
    BY <1>1, BitSeqFunction
  <1>3. Bits(Number(Zeros(8)), 8) = Zeros(8)
    BY <1>2, NumberOctet
  <1> QED
    BY <1>3, NumberZeros

LEMMA DividedZero ==
  Divided(Zeros(32)) = Zeros(32)
  <1>1. PICK z, s, t : z = Zeros(32) /\ s = SubSeq(z, 2, 32) /\ t = s \o <<0>>
    OBVIOUS
  <1>2. BitSeq(z, 32) /\ z = [k \in 1 .. 32 |-> 0]
    BY <1>1, ZerosType
  <1>3. z[1] # 1
    BY <1>2
  <1>4. Divided(z) = t
    BY <1>1, <1>3 DEF Divided
  <1>5. BitSeq(t, 32)
    BY <1>1, <1>2, ShiftType
  <1>6. z \in Seq(Bit) /\ 2 \in 1 .. Len(z) + 1 /\ 32 \in 2 - 1 .. Len(z)
    BY <1>2 DEF BitSeq
  <1>7. s \in Seq(Bit) /\ Len(s) = 31 /\ \A i \in 1 .. 31 : s[i] = z[i + 1]
    <2>1. /\ s \in Seq(Bit) /\ Len(s) = 32 - 2 + 1
          /\ \A i \in 1 .. 32 - 2 + 1 : s[i] = z[2 + i - 1]
      BY <1>1, <1>6, SliceType, ZenonT(40)
    <2>2. 32 - 2 + 1 = 31 /\ \A i \in 1 .. 31 : 2 + i - 1 = i + 1
      OBVIOUS
    <2> QED
      BY <2>1, <2>2
  <1>8. PICK u : u = <<0>>
    OBVIOUS
  <1>9. u \in Seq(Bit) /\ Len(u) = 1 /\ u[1] = 0
    BY <1>8 DEF Bit
  <1>10. (\A i \in 1 .. 31 : t[i] = s[i]) /\ t[31 + 1] = u[1]
    <2>1. /\ \A i \in 1 .. Len(s) : (s \o u)[i] = s[i]
          /\ \A i \in 1 .. Len(u) : (s \o u)[Len(s) + i] = u[i]
      <3>1. s \in Seq(Bit) /\ u \in Seq(Bit)
        BY <1>7, <1>9
      <3> QED
        BY <3>1, ConcatParts
    <2>2. s \o u = t
      BY <1>1, <1>8
    <2> QED
      BY <1>7, <1>9, <2>1, <2>2
  <1>12. ASSUME NEW i \in 1 .. 32 PROVE t[i] = z[i]
    <2>1. z[i] = 0
      BY <1>2
    <2>2. CASE i \in 1 .. 31
      <3>1. z[i + 1] = 0
        BY <1>2, <2>2
      <3>2. s[i] = 0
        BY <1>7, <2>2, <3>1
      <3> QED
        BY <1>10, <2>1, <2>2, <3>2
    <2>3. CASE i = 32
      BY <1>9, <1>10, <2>1, <2>3
    <2> QED
      BY <2>2, <2>3
  <1>11. t = z
    BY <1>2, <1>5, <1>12, BitSeqEqual
  <1> QED
    BY <1>1, <1>4, <1>11

LEMMA RemainderZero ==
  Remainder(0) = Zeros(32)
  <1> DEFINE Step[k \in 0 .. 8] ==
               IF k = 0 THEN Bits(0, 8) \o Filled(24, 0)
               ELSE LET r == Step[k - 1]
                        shifted == SubSeq(r, 2, 32) \o <<0>>
                    IN IF r[1] = 1 THEN Xor(shifted, Polynomial) ELSE shifted
  <1>1. Bits(0, 8) \o Filled(24, 0) = Zeros(32)
    <2>1. PICK a, b, c : a = Zeros(8) /\ b = Zeros(24) /\ c = a \o b
      OBVIOUS
    <2>2. /\ BitSeq(a, 8) /\ BitSeq(b, 24)
          /\ \A i \in 1 .. 8 : a[i] = 0
          /\ \A i \in 1 .. 24 : b[i] = 0
      BY <2>1, ZerosType
    <2>3. Joined(a, 8, b, 24, a \o b)
      BY <2>2, BitSeqJoined
    <2>4. (\A i \in 1 .. 8 : c[i] = a[i]) /\ \A i \in 1 .. 24 : c[8 + i] = b[i]
      BY <2>1, <2>3 DEF Joined
    <2>6. \A i \in 1 .. 32 : i \in 1 .. 8 \/ (i - 8 \in 1 .. 24 /\ 8 + (i - 8) = i)
      OBVIOUS
    <2>7. \A i \in 1 .. 8 : c[i] = 0
      BY <2>2, <2>4
    <2>8. \A i \in 1 .. 24 : c[8 + i] = 0
      BY <2>2, <2>4
    <2>9. \A i \in 1 .. 32 : c[i] = 0
      BY <2>6, <2>7, <2>8
    <2>10. BitSeq(c, 32)
      <3>1. BitSeq(a \o b, 8 + 24)
        BY <2>2, BitSeqConcat
      <3>2. 8 + 24 = 32
        OBVIOUS
      <3> QED
        BY <2>1, <3>1, <3>2
    <2>11. BitSeq(Zeros(32), 32) /\ \A i \in 1 .. 32 : Zeros(32)[i] = 0
      BY ZerosType
    <2>12. \A i \in 1 .. 32 : c[i] = Zeros(32)[i]
      BY <2>9, <2>11
    <2>13. c = Zeros(32)
      BY <2>10, <2>11, <2>12, BitSeqEqual
    <2> QED
      BY <2>1, <2>13, BitsZero DEF Zeros
  <1>2. Remainder(0) = Step[8]
    BY DEF Remainder
  <1>3. \E f : f = [k \in 0 .. 8 |->
                      IF k = 0 THEN Bits(0, 8) \o Filled(24, 0) ELSE Divided(f[k - 1])]
    <2>1. PICK f : f = [k \in 0 .. 8 |-> Zeros(32)]
      OBVIOUS
    <2>2. f = [k \in 0 .. 8 |-> IF k = 0 THEN Zeros(32) ELSE Divided(f[k - 1])]
      <3>1. \A k \in 1 .. 8 : f[k - 1] = Zeros(32)
        BY <2>1
      <3> QED
        BY <2>1, <3>1, DividedZero
    <2> QED
      BY <1>1, <2>2
  <1>4. Step = [k \in 0 .. 8 |->
                  IF k = 0 THEN Bits(0, 8) \o Filled(24, 0) ELSE Divided(Step[k - 1])]
    BY <1>3 DEF Divided
  <1>5. PICK g : g = Step
    OBVIOUS
  <1> HIDE DEF Step
  <1>10. PICK z : z = Bits(0, 8) \o Filled(24, 0)
    OBVIOUS
  <1>11. g = [k \in 0 .. 8 |-> IF k = 0 THEN z ELSE Divided(g[k - 1])]
    BY <1>4, <1>5, <1>10, Zenon
  <1>6. g[0] = Zeros(32) /\ \A k \in 1 .. 8 : g[k] = Divided(g[k - 1])
    <2>1. g[0] = z /\ \A k \in 1 .. 8 : g[k] = Divided(g[k - 1])
      BY <1>11
    <2> QED
      BY <1>1, <1>10, <2>1
  <1>7. /\ g[1] = Divided(g[0]) /\ g[2] = Divided(g[1]) /\ g[3] = Divided(g[2])
        /\ g[4] = Divided(g[3]) /\ g[5] = Divided(g[4]) /\ g[6] = Divided(g[5])
        /\ g[7] = Divided(g[6]) /\ g[8] = Divided(g[7])
    BY <1>6
  <1>8. g[8] = Zeros(32)
    BY <1>6, <1>7, DividedZero
  <1> QED
    BY <1>2, <1>5, <1>8

\* The register without its first m bytes.
Rest(r, m) == [i \in 1 .. 32 |-> IF i + 8 * m <= 32 THEN r[i + 8 * m] ELSE 0]

LEMMA RestType ==
  ASSUME NEW r, BitSeq(r, 32), NEW m \in 0 .. 4
  PROVE  BitSeq(Rest(r, m), 32)
  <1>1. r \in [1 .. 32 -> Bit]
    BY BitSeqFunction
  <1>2. \A i \in 1 .. 32 : i + 8 * m <= 32 => i + 8 * m \in 1 .. 32
    OBVIOUS
  <1>3. \A i \in 1 .. 32 : Rest(r, m)[i] \in Bit
    BY <1>1, <1>2 DEF Rest, Bit
  <1>0. PICK n \in Nat : n = 32
    OBVIOUS
  <1>4. PICK s : n = 32 /\ s = Rest(r, m)
    BY <1>0
  <1>5. s \in [1 .. n -> Bit]
    BY <1>3, <1>4 DEF Rest
  <1>6. s \in Seq(Bit) /\ Len(s) = n
    BY <1>5, SeqDef, LenProperties
  <1> QED
    BY <1>4, <1>6 DEF BitSeq

\* The byte that the register itself ends in makes it shorter.
LEMMA CrcOwnByte ==
  ASSUME NEW r, BitSeq(r, 32), NEW m \in 0 .. 3
  PROVE  CrcStep(Rest(r, m), Number(ByteAt(r, m + 1))) = Rest(r, m + 1)
  <1>1. PICK s, b, c : s = Rest(r, m) /\ b = ByteAt(r, m + 1) /\ c = SubSeq(s, 1, 8)
    OBVIOUS
  <1>2. BitSeq(s, 32) /\ \A i \in 1 .. 32 : i + 8 * m <= 32 => s[i] = r[i + 8 * m]
    <2>1. BitSeq(s, 32)
      BY <1>1, RestType
    <2> QED
      BY <1>1, <2>1 DEF Rest
  <1>3. b \in [1 .. 8 -> Bit] /\ \A i \in 1 .. 8 : b[i] = r[8 * (m + 1) - 8 + i]
    <2>1. ByteBits(r, 4) /\ m + 1 \in 1 .. 4
      BY DEF BitSeq, ByteBits
    <2> QED
      BY <1>1, <2>1, OctetBits
  <1>4. BitSeq(b, 8)
    <2>1. PICK n \in Nat : n = 8
      OBVIOUS
    <2>2. b \in [1 .. n -> Bit]
      BY <1>3, <2>1
    <2>3. b \in Seq(Bit) /\ Len(b) = n
      BY <2>2, SeqDef, LenProperties
    <2> QED
      BY <2>1, <2>3 DEF BitSeq
  <1>5. BitSeq(c, 8) /\ \A i \in 1 .. 8 : c[i] = s[i]
    <2>1. s \in Seq(Bit) /\ 1 \in 1 .. Len(s) + 1 /\ 8 \in 1 - 1 .. Len(s)
      BY <1>2 DEF BitSeq
    <2>2. c \in Seq(Bit) /\ Len(c) = 8 - 1 + 1 /\ \A i \in 1 .. 8 - 1 + 1 : c[i] = s[1 + i - 1]
      BY <1>1, <2>1, SliceType
    <2>3. 8 - 1 + 1 = 8 /\ \A i \in 1 .. 8 : 1 + i - 1 = i
      OBVIOUS
    <2>4. BitSeq(c, 8)
      BY <2>2, <2>3 DEF BitSeq
    <2> QED
      BY <2>2, <2>3, <2>4
  <1>6. c = b
    <2>1. ASSUME NEW i \in 1 .. 8 PROVE c[i] = b[i]
      <3>1. i + 8 * m <= 32 /\ 8 * (m + 1) - 8 + i = i + 8 * m /\ i \in 1 .. 32
        OBVIOUS
      <3> QED
        BY <1>2, <1>3, <1>5, <3>1
    <2> QED
      BY <1>4, <1>5, <2>1, BitSeqEqual
  <1>7. Bits(Number(b), 8) = b
    BY <1>3, NumberOctet
  <1>8. Number(Xor(c, Bits(Number(b), 8))) = 0
    BY <1>4, <1>6, <1>7, XorSelf, NumberZeros
  <1>9. crcTable[0] = Zeros(32)
    BY RemainderZero DEF crcTable
  <1>10. PICK t : t = SubSeq(s, 9, 32) \o Zeros(8)
    OBVIOUS
  <1>11. BitSeq(t, 32) /\ (\A i \in 1 .. 24 : t[i] = s[8 + i]) /\ \A i \in 1 .. 8 : t[24 + i] = 0
    <2>1. PICK d, z : d = SubSeq(s, 9, 32) /\ z = Zeros(8)
      OBVIOUS
    <2>2. s \in Seq(Bit) /\ 9 \in 1 .. Len(s) + 1 /\ 32 \in 9 - 1 .. Len(s)
      BY <1>2 DEF BitSeq
    <2>3. d \in Seq(Bit) /\ Len(d) = 32 - 9 + 1 /\ \A i \in 1 .. 32 - 9 + 1 : d[i] = s[9 + i - 1]
      BY <2>1, <2>2, SliceType
    <2>4. Len(d) = 24 /\ \A i \in 1 .. 24 : d[i] = s[8 + i]
      <3>1. 32 - 9 + 1 = 24 /\ \A i \in 1 .. 24 : 9 + i - 1 = 8 + i
        OBVIOUS
      <3> QED
        BY <2>3, <3>1
    <2>5. BitSeq(z, 8) /\ \A i \in 1 .. 8 : z[i] = 0
      BY <2>1, ZerosType
    <2>6. BitSeq(d, 24)
      BY <2>3, <2>4 DEF BitSeq
    <2>7. Joined(d, 24, z, 8, d \o z)
      BY <2>5, <2>6, BitSeqJoined
    <2>8. (\A i \in 1 .. 24 : t[i] = d[i]) /\ \A i \in 1 .. 8 : t[24 + i] = z[i]
      BY <1>10, <2>1, <2>7 DEF Joined
    <2>9. BitSeq(t, 32)
      <3>1. BitSeq(d \o z, 24 + 8)
        BY <2>5, <2>6, BitSeqConcat
      <3>2. 24 + 8 = 32
        OBVIOUS
      <3> QED
        BY <1>10, <2>1, <3>1, <3>2
    <2> QED
      BY <2>4, <2>5, <2>8, <2>9
  <1>12. t = Rest(r, m + 1)
    <2>1. m + 1 \in 0 .. 4
      OBVIOUS
    <2>2. PICK u : u = Rest(r, m + 1)
      OBVIOUS
    <2>3. BitSeq(u, 32)
      BY <2>1, <2>2, RestType
    <2>4. ASSUME NEW i \in 1 .. 32 PROVE t[i] = u[i]
      <3>1. u[i] = IF i + 8 * (m + 1) <= 32 THEN r[i + 8 * (m + 1)] ELSE 0
        BY <2>2 DEF Rest
      <3>2. CASE i \in 1 .. 24
        <4>1. t[i] = s[8 + i]
          BY <1>11, <3>2
        <4>2. 8 + i \in 1 .. 32 /\ 8 + i + 8 * m = i + 8 * (m + 1)
          BY <3>2
        <4>3. s[8 + i] = IF 8 + i + 8 * m <= 32 THEN r[8 + i + 8 * m] ELSE 0
          BY <1>1, <4>2 DEF Rest
        <4> QED
          BY <3>1, <4>1, <4>2, <4>3
      <3>3. CASE i \in 25 .. 32
        <4>1. i - 24 \in 1 .. 8 /\ 24 + (i - 24) = i /\ ~ (i + 8 * (m + 1) <= 32)
          BY <3>3
        <4>2. t[24 + (i - 24)] = 0
          BY <1>11, <4>1
        <4> QED
          BY <3>1, <4>1, <4>2
      <3> QED
        BY <3>2, <3>3
    <2> QED
      BY <1>11, <2>2, <2>3, <2>4, BitSeqEqual
  <1>13. CrcStep(s, Number(b)) = Xor(t, Zeros(32))
    BY <1>1, <1>8, <1>9, <1>10 DEF CrcStep, Zeros
  <1>14. Xor(t, Zeros(32)) = t
    BY <1>11, XorZeros
  <1> QED
    BY <1>1, <1>12, <1>13, <1>14

LEMMA OctetsOfRegister ==
  ASSUME NEW r, BitSeq(r, 32)
  PROVE  /\ ByteBits(r, 4)
         /\ \A m \in 1 .. 4 : Octets(r)[m] = Number(ByteAt(r, m))
  <1>1. 32 = 8 * 4
    OBVIOUS
  <1>2. ByteBits(r, 4)
    BY <1>1 DEF BitSeq, ByteBits
  <1> QED
    BY <1>2, OctetsType

LEMMA OctetsOfZeros ==
  Octets(Zeros(32)) = <<0, 0, 0, 0>>
  <1>1. PICK z : z = Zeros(32)
    OBVIOUS
  <1>2. BitSeq(z, 32) /\ z = [i \in 1 .. 32 |-> 0]
    BY <1>1, ZerosType
  <1>3. ByteBits(z, 4) /\ \A m \in 1 .. 4 : Octets(z)[m] = Number(ByteAt(z, m))
    BY <1>2, OctetsOfRegister
  <1>4. ASSUME NEW m \in 1 .. 4 PROVE Octets(z)[m] = 0
    <2>1. PICK x, y : x = ByteAt(z, m) /\ y = Zeros(8)
      OBVIOUS
    <2>2. /\ x \in [1 .. 8 -> Bit]
          /\ \A i \in 1 .. 8 : x[i] = z[8 * m - 8 + i]
      BY <1>3, <2>1, OctetBits
    <2>3. \A i \in 1 .. 8 : 8 * m - 8 + i \in 1 .. 32
      OBVIOUS
    <2>4. \A i \in 1 .. 8 : x[i] = 0
      BY <1>2, <2>2, <2>3
    <2>5. y = [i \in 1 .. 8 |-> 0]
      BY <2>1, ZerosType
    <2>6. x = y
      BY <2>2, <2>4, <2>5
    <2> QED
      BY <1>3, <2>1, <2>6, NumberZeros
  <1>5. PICK o : o = Octets(z)
    OBVIOUS
  <1>6. o \in Seq(Byte) /\ Len(o) = 4
    BY <1>3, <1>5, OctetsType
  <1>7. o[1] = 0 /\ o[2] = 0 /\ o[3] = 0 /\ o[4] = 0
    BY <1>4, <1>5
  <1>8. o = <<0, 0, 0, 0>>
    BY <1>6, <1>7, ElementOfSeq, LenProperties
  <1> QED
    BY <1>1, <1>5, <1>8

\* The register after the m-th byte of the CRC itself.
LEMMA CrcOwnBytes ==
  ASSUME NEW r, BitSeq(r, 32), NEW N \in Nat, NEW t, NEW g,
         Registers(t, N + 4, g), g[N] = r,
         \A m \in 1 .. 4 : t[N + m] = Octets(r)[m]
  PROVE  g[N + 4] = Zeros(32)
  <1>1. \A m \in 1 .. 4 : t[N + m] = Number(ByteAt(r, m))
    BY OctetsOfRegister
  <1>2. \A k \in 1 .. N + 4 : g[k] = CrcStep(g[k - 1], t[k])
    BY DEF Registers
  <1>3. ASSUME NEW m \in 0 .. 3, g[N + m] = Rest(r, m)
        PROVE  g[N + (m + 1)] = Rest(r, m + 1)
    <2>1. /\ N + (m + 1) \in 1 .. N + 4 /\ N + (m + 1) - 1 = N + m
          /\ m + 1 \in 1 .. 4
      OBVIOUS
    <2>2. g[N + (m + 1)] = CrcStep(g[N + m], t[N + (m + 1)])
      BY <1>2, <2>1
    <2>3. t[N + (m + 1)] = Number(ByteAt(r, m + 1))
      BY <1>1, <2>1
    <2> QED
      BY <1>3, <2>2, <2>3, CrcOwnByte
  <1>4. Rest(r, 0) = r
    <2>1. PICK u : u = Rest(r, 0)
      OBVIOUS
    <2>2. u = [i \in 1 .. 32 |-> r[i]]
      BY <2>1 DEF Rest
    <2>3. r \in [1 .. 32 -> Bit]
      BY BitSeqFunction
    <2> QED
      BY <2>1, <2>2, <2>3
  <1>5. N + 0 = N /\ 0 + 1 = 1 /\ 1 + 1 = 2 /\ 2 + 1 = 3 /\ 3 + 1 = 4
    OBVIOUS
  <1>6. g[N + 1] = Rest(r, 1)
    BY <1>3, <1>4, <1>5
  <1>7. g[N + 2] = Rest(r, 2)
    BY <1>3, <1>5, <1>6
  <1>8. g[N + 3] = Rest(r, 3)
    BY <1>3, <1>5, <1>7
  <1>9. g[N + 4] = Rest(r, 4)
    BY <1>3, <1>5, <1>8
  <1>10. Rest(r, 4) = [i \in 1 .. 32 |-> 0]
    <2>1. \A i \in 1 .. 32 : ~ (i + 8 * 4 <= 32)
      OBVIOUS
    <2> QED
      BY <2>1 DEF Rest
  <1> QED
    BY <1>9, <1>10, ZerosType

\* The CRC of a section and the CRC behind it is zero, which is how a receiver
\* checks a section, and crc32() with its table of remainders computes it.
THEOREM CrcOfSection ==
  ASSUME NEW N, NEW s, Bytes(s, N)
  PROVE  crc32(s \o crc32(s)) = <<0, 0, 0, 0>>
  <1>1. PICK c, t : c = crc32(s) /\ t = s \o c
    OBVIOUS
  <1>2. PICK f : Registers(s, N, f) /\ crc32(s) = Octets(f[N])
    BY CrcUnfolds
  <1>3. PICK r : r = f[N]
    OBVIOUS
  <1>4. s \in Seq(Byte) /\ Len(s) = N /\ N \in Nat
    BY LenProperties DEF Bytes
  <1>5. BitSeq(r, 32)
    <2>1. r \in Words
      BY <1>2, <1>3, <1>4 DEF Registers
    <2> QED
      BY <2>1, WordIs
  <1>6. c \in Seq(Byte) /\ Len(c) = 4 /\ c = Octets(r)
    <2>1. Bytes(crc32(s), 4)
      BY CrcWritten
    <2> QED
      BY <1>1, <1>2, <1>3, <2>1 DEF Bytes
  <1>7. /\ t \in Seq(Byte) /\ Len(t) = N + 4
        /\ \A k \in 1 .. N : t[k] = s[k]
        /\ \A m \in 1 .. 4 : t[N + m] = c[m]
    <2>1. s \in Seq(Byte) /\ c \in Seq(Byte)
      BY <1>4, <1>6
    <2>2. /\ s \o c \in Seq(Byte)
          /\ Len(s \o c) = Len(s) + Len(c)
          /\ \A i \in 1 .. Len(s) : (s \o c)[i] = s[i]
          /\ \A i \in 1 .. Len(c) : (s \o c)[Len(s) + i] = c[i]
      BY <2>1, ConcatParts
    <2> QED
      BY <1>1, <1>4, <1>6, <2>2
  <1>8. Bytes(t, N + 4)
    BY <1>7 DEF Bytes
  <1>9. PICK g : Registers(t, N + 4, g) /\ crc32(t) = Octets(g[N + 4])
    BY <1>8, CrcUnfolds
  <1>10. g[N] = r
    <2> DEFINE S == {k \in 0 .. N : g[k] = f[k]}
    <2>1. 0 \in S
      BY <1>2, <1>4, <1>9 DEF Registers
    <2>2. ASSUME NEW k \in 1 .. N, k - 1 \in S PROVE k \in S
      <3>1. f[k] = CrcStep(f[k - 1], s[k])
        BY <1>2 DEF Registers
      <3>2. g[k] = CrcStep(g[k - 1], t[k])
        BY <1>4, <1>9 DEF Registers
      <3> QED
        BY <1>4, <1>7, <2>2, <3>1, <3>2
    <2>3. 0 .. N \subseteq S
      <3> HIDE DEF S
      <3> QED
        BY <1>4, <2>1, <2>2, Induction
    <2> QED
      BY <1>3, <1>4, <2>3
  <1>11. g[N + 4] = Zeros(32)
    <2>1. \A m \in 1 .. 4 : t[N + m] = Octets(r)[m]
      BY <1>6, <1>7
    <2> QED
      BY <1>4, <1>5, <1>9, <1>10, <2>1, CrcOwnBytes
  <1> QED
    BY <1>1, <1>9, <1>11, OctetsOfZeros

-----------------------------------------------------------------------------
(* What is read of bytes that are not all of a header.                     *)

\* A field of a header is its bits, wherever the bytes come from.
LEMMA FieldDecoded ==
  ASSUME NEW fields, NEW N, Layout(fields, N),
         \A j, k \in 1 .. N : fields[j][1] = fields[k][1] => j = k,
         NEW k \in 1 .. N, NEW octets
  PROVE  Decode(fields, octets)[fields[k][1]]
           = Number(FieldAt(BitsOf(octets), Ends(fields), k))
  <1>1. PICK E, b : E = Ends(fields) /\ b = BitsOf(octets)
    OBVIOUS
  <1> DEFINE Index(name) == CHOOSE i \in DOMAIN fields : fields[i][1] = name
  <1>2. Decode(fields, octets)
          = [name \in Names(fields) |-> Number(FieldAt(b, E, Index(name)))]
    BY <1>1 DEF Decode, FieldAt
  <1>3. DOMAIN fields = 1 .. N
    BY DEF Layout
  <1>4. Index(fields[k][1]) = k
    BY <1>3
  <1>5. fields[k][1] \in Names(fields)
    BY <1>3 DEF Names
  <1> HIDE DEF Index
  <1> QED
    BY <1>1, <1>2, <1>4, <1>5

\* The first bytes have the first bits.
LEMMA BitsOfPrefix ==
  ASSUME NEW n, NEW o, Bytes(o, n), NEW m \in Nat, m <= n, NEW k \in 1 .. 8 * m
  PROVE  BitsOf(SubSeq(o, 1, m))[k] = BitsOf(o)[k]
  <1>1. o \in Seq(Byte) /\ Len(o) = n /\ n \in Nat
    BY LenProperties DEF Bytes
  <1>2. PICK p : p = SubSeq(o, 1, m)
    OBVIOUS
  <1>3. /\ Len(p) = m
        /\ \A i \in 1 .. m : p[i] = o[i]
    <2>1. 1 \in 1 .. Len(o) + 1 /\ m \in 1 - 1 .. Len(o)
      BY <1>1
    <2>2. /\ Len(SubSeq(o, 1, m)) = m - 1 + 1
          /\ \A i \in 1 .. m - 1 + 1 : SubSeq(o, 1, m)[i] = o[1 + i - 1]
      BY <1>1, <2>1, SliceType
    <2> QED
      BY <1>2, <2>2
  <1>4. PICK i \in 1 .. m, e \in 0 .. 7 : i = 1 + (k - 1) \div 8 /\ e = 7 - ((k - 1) % 8)
    BY BitPosition
  <1>5. k \in 1 .. 8 * n
    BY <1>1
  <1>6. BitsOf(p)[k] = (p[i] \div Power[e]) % 2
    BY <1>3, <1>4 DEF BitsOf
  <1>7. BitsOf(o)[k] = (o[i] \div Power[e]) % 2
    BY <1>1, <1>4, <1>5 DEF BitsOf
  <1> QED
    BY <1>2, <1>3, <1>6, <1>7

LEMMA FitsSmall ==
  /\ Fits(0, 1) /\ Fits(1, 1) /\ Fits(0, 2) /\ Fits(3, 2) /\ Fits(7, 3)
  /\ Fits(15, 4) /\ Fits(0, 5) /\ Fits(0, 8) /\ Fits(2, 8) /\ Fits(0, 12)
  /\ Fits(0, 16) /\ Fits(1, 16)
  <1>1. /\ 3 \in 0 .. 24 /\ 5 \in 0 .. 24 /\ 12 \in 0 .. 24 /\ 16 \in 0 .. 24
        /\ 7 < Power[3] /\ 0 < Power[5] /\ 0 < Power[12] /\ 0 < Power[16] /\ 1 < Power[16]
        /\ 0 \in Nat /\ 1 \in Nat /\ 7 \in Nat
    BY PowerValues
  <1>2. Fits(7, 3) /\ Fits(0, 5) /\ Fits(0, 12) /\ Fits(0, 16) /\ Fits(1, 16)
    BY <1>1, FitsBelow
  <1> QED
    BY <1>2, FitsOne, FitsTwo, FitsFour, FitsByte

\* A slice is decided by the elements that are in it.
LEMMA BitSlices ==
  ASSUME NEW n, NEW s, BitSeq(s, n), NEW m, NEW t, BitSeq(t, m),
         NEW l \in Nat \ {0}, NEW r \in Nat, l <= r + 1, r <= n, r <= m,
         \A i \in 1 .. r : s[i] = t[i]
  PROVE  SubSeq(s, l, r) = SubSeq(t, l, r)
  <1>1. s \in Seq(Bit) /\ t \in Seq(Bit) /\ Len(s) = n /\ Len(t) = m /\ n \in Nat /\ m \in Nat
    BY DEF BitSeq
  <1>2. /\ l \in 1 .. Len(s) + 1 /\ r \in l - 1 .. Len(s)
        /\ l \in 1 .. Len(t) + 1 /\ r \in l - 1 .. Len(t)
    BY <1>1
  <1>3. BitSeq(SubSeq(s, l, r), r - l + 1) /\ BitSeq(SubSeq(t, l, r), r - l + 1)
    BY BitSeqSlice
  <1>4. \A i \in 1 .. r - l + 1 : SubSeq(s, l, r)[i] = s[l + i - 1]
    BY <1>1, <1>2, SliceType
  <1>5. \A i \in 1 .. r - l + 1 : SubSeq(t, l, r)[i] = t[l + i - 1]
    BY <1>1, <1>2, SliceType
  <1>6. \A i \in 1 .. r - l + 1 : SubSeq(s, l, r)[i] = SubSeq(t, l, r)[i]
    BY <1>4, <1>5
  <1> QED
    BY <1>3, <1>6, BitSeqEqual

LEMMA BitIn ==
  ASSUME NEW n \in Nat, NEW o, Bytes(o, n), NEW k \in 1 .. 8 * n
  PROVE  (o[1 + (k - 1) \div 8] \div Power[7 - ((k - 1) % 8)]) % 2 \in Bit
  <1>1. PICK j \in 1 .. n, i \in 1 .. 8 :
          /\ k = 8 * j - 8 + i /\ 1 + (k - 1) \div 8 = j
          /\ 7 - ((k - 1) % 8) = 8 - i
    BY BitPosition
  <1>2. PICK v \in Nat, p \in Nat \ {0} : v = o[j] /\ p = Power[8 - i]
    <2>1. o[j] \in Nat
      <3>1. o \in Seq(Byte) /\ j \in 1 .. Len(o)
        BY DEF Bytes
      <3>2. o[j] \in Byte
        BY <3>1, ElementOfSeq
      <3> QED
        BY <3>2 DEF Byte
    <2>2. 8 - i \in 0 .. 24
      OBVIOUS
    <2> QED
      BY <2>1, <2>2, Powers
  <1>3. v \div p \in Nat
    BY Halves
  <1>4. (v \div p) % 2 \in Bit
    <2>1. PICK d \in Nat : d = v \div p
      BY <1>3
    <2>2. d % 2 \in Bit
      BY DEF Bit
    <2> QED
      BY <2>1, <2>2
  <1> QED
    BY <1>1, <1>2, <1>4

LEMMA BitsOfType ==
  ASSUME NEW n, NEW o, Bytes(o, n)
  PROVE  BitSeq(BitsOf(o), 8 * n)
  <1>1. Len(o) = n /\ n \in Nat
    BY LenProperties DEF Bytes
  <1>2. PICK N \in Nat : N = 8 * n
    BY <1>1
  <1>3. \A k \in 1 .. N :
          (o[1 + (k - 1) \div 8] \div Power[7 - ((k - 1) % 8)]) % 2 \in Bit
    <2>1. \A k \in 1 .. 8 * n :
            (o[1 + (k - 1) \div 8] \div Power[7 - ((k - 1) % 8)]) % 2 \in Bit
      BY <1>1, BitIn
    <2> QED
      BY <1>2, <2>1
  <1>4. PICK b : b = BitsOf(o)
    OBVIOUS
  <1>5. b = [k \in 1 .. N |-> (o[1 + (k - 1) \div 8] \div Power[7 - ((k - 1) % 8)]) % 2]
    BY <1>1, <1>2, <1>4 DEF BitsOf
  <1>6. b \in [1 .. N -> Bit]
    BY <1>3, <1>5
  <1>7. b \in Seq(Bit) /\ Len(b) = N
    BY <1>2, <1>6
  <1> QED
    BY <1>2, <1>4, <1>7 DEF BitSeq

\* The bits of a time stamp between their markers.
LEMMA PtsBits ==
  ASSUME NEW fb \in 0 .. 15, NEW pts, BitSeq(pts, 33)
  PROVE  \E s : /\ BitSeq(s, 40) /\ BitsOf(writePts(fb, pts)) = s
                /\ \A i \in 1 .. 3 : s[4 + i] = pts[i]
                /\ \A i \in 4 .. 18 : s[5 + i] = pts[i]
                /\ \A i \in 19 .. 33 : s[6 + i] = pts[i]
  <1>1. PICK a, b, c, d, e : /\ a = Bits(fb, 4) /\ b = SubSeq(pts, 1, 3) /\ c = <<1>>
                             /\ d = SubSeq(pts, 4, 18) /\ e = SubSeq(pts, 19, 33)
    OBVIOUS
  <1>2. BitSeq(a, 4)
    <2>1. fb \in Nat /\ 4 \in 0 .. 24
      OBVIOUS
    <2> QED
      BY <1>1, <2>1, BitSeqBits
  <1>3. BitSeq(b, 3) /\ BitSeq(d, 15) /\ BitSeq(e, 15)
    <2>1. PICK l, r : l = 1 /\ r = 3
      OBVIOUS
    <2>2. BitSeq(SubSeq(pts, l, r), r - l + 1)
      <3>1. l \in Nat \ {0} /\ r \in Nat /\ l <= r + 1 /\ r <= 33
        BY <2>1
      <3> QED
        BY <3>1, BitSeqSlice
    <2>3. PICK x, y : x = 4 /\ y = 18
      OBVIOUS
    <2>4. BitSeq(SubSeq(pts, x, y), y - x + 1)
      <3>1. x \in Nat \ {0} /\ y \in Nat /\ x <= y + 1 /\ y <= 33
        BY <2>3
      <3> QED
        BY <3>1, BitSeqSlice
    <2>5. PICK u, v : u = 19 /\ v = 33
      OBVIOUS
    <2>6. BitSeq(SubSeq(pts, u, v), v - u + 1)
      <3>1. u \in Nat \ {0} /\ v \in Nat /\ u <= v + 1 /\ v <= 33
        BY <2>5
      <3> QED
        BY <3>1, BitSeqSlice
    <2>7. r - l + 1 = 3 /\ y - x + 1 = 15 /\ v - u + 1 = 15
      BY <2>1, <2>3, <2>5
    <2> QED
      BY <1>1, <2>1, <2>2, <2>3, <2>4, <2>5, <2>6, <2>7
  <1>4. /\ \A i \in 1 .. 3 : b[i] = pts[i]
        /\ \A i \in 1 .. 15 : d[i] = pts[i + 3]
        /\ \A i \in 1 .. 15 : e[i] = pts[i + 18]
    <2>1. pts \in Seq(Bit) /\ Len(pts) = 33
      BY DEF BitSeq
    <2>2. \A i \in 1 .. 3 - 1 + 1 : SubSeq(pts, 1, 3)[i] = pts[1 + i - 1]
      <3>1. 1 \in 1 .. Len(pts) + 1 /\ 3 \in 1 - 1 .. Len(pts)
        BY <2>1
      <3> QED
        BY <2>1, <3>1, SliceType
    <2>3. \A i \in 1 .. 18 - 4 + 1 : SubSeq(pts, 4, 18)[i] = pts[4 + i - 1]
      <3>1. 4 \in 1 .. Len(pts) + 1 /\ 18 \in 4 - 1 .. Len(pts)
        BY <2>1
      <3> QED
        BY <2>1, <3>1, SliceType
    <2>4. \A i \in 1 .. 33 - 19 + 1 : SubSeq(pts, 19, 33)[i] = pts[19 + i - 1]
      <3>1. 19 \in 1 .. Len(pts) + 1 /\ 33 \in 19 - 1 .. Len(pts)
        BY <2>1
      <3> QED
        BY <2>1, <3>1, SliceType
    <2>5. ASSUME NEW i \in 1 .. 3 PROVE b[i] = pts[i]
      <3>1. i \in 1 .. 3 - 1 + 1 /\ 1 + i - 1 = i
        OBVIOUS
      <3> QED
        BY <1>1, <2>2, <3>1
    <2>6. ASSUME NEW i \in 1 .. 15 PROVE d[i] = pts[i + 3]
      <3>1. i \in 1 .. 18 - 4 + 1 /\ 4 + i - 1 = i + 3
        OBVIOUS
      <3> QED
        BY <1>1, <2>3, <3>1
    <2>7. ASSUME NEW i \in 1 .. 15 PROVE e[i] = pts[i + 18]
      <3>1. i \in 1 .. 33 - 19 + 1 /\ 19 + i - 1 = i + 18
        OBVIOUS
      <3> QED
        BY <1>1, <2>4, <3>1
    <2> QED
      BY <2>5, <2>6, <2>7
  <1>5. PICK p, q, r, s, t, u : /\ p = a \o b /\ q = p \o c /\ r = q \o d
                                /\ s = r \o c /\ t = s \o e /\ u = t \o c
    OBVIOUS
  <1>6. BitSeq(c, 1)
    BY <1>1, BitSeqOne
  <1>7. BitSeq(p, 7) /\ Joined(a, 4, b, 3, p)
    <2>1. BitSeq(p, 4 + 3) /\ Joined(a, 4, b, 3, p)
      BY <1>2, <1>3, <1>5, BitSeqConcat, BitSeqJoined
    <2> QED
      BY <2>1
  <1>8. BitSeq(q, 8) /\ Joined(p, 7, c, 1, q)
    <2>1. BitSeq(q, 7 + 1) /\ Joined(p, 7, c, 1, q)
      BY <1>5, <1>6, <1>7, BitSeqConcat, BitSeqJoined
    <2> QED
      BY <2>1
  <1>9. BitSeq(r, 23) /\ Joined(q, 8, d, 15, r)
    <2>1. BitSeq(r, 8 + 15) /\ Joined(q, 8, d, 15, r)
      BY <1>3, <1>5, <1>8, BitSeqConcat, BitSeqJoined
    <2> QED
      BY <2>1
  <1>10. BitSeq(s, 24) /\ Joined(r, 23, c, 1, s)
    <2>1. BitSeq(s, 23 + 1) /\ Joined(r, 23, c, 1, s)
      BY <1>5, <1>6, <1>9, BitSeqConcat, BitSeqJoined
    <2> QED
      BY <2>1
  <1>11. BitSeq(t, 39) /\ Joined(s, 24, e, 15, t)
    <2>1. BitSeq(t, 24 + 15) /\ Joined(s, 24, e, 15, t)
      BY <1>3, <1>5, <1>10, BitSeqConcat, BitSeqJoined
    <2> QED
      BY <2>1
  <1>12. BitSeq(u, 40) /\ Joined(t, 39, c, 1, u)
    <2>1. BitSeq(u, 39 + 1) /\ Joined(t, 39, c, 1, u)
      BY <1>5, <1>6, <1>11, BitSeqConcat, BitSeqJoined
    <2> QED
      BY <2>1
  <1>13. BitsOf(writePts(fb, pts)) = u
    <2>1. writePts(fb, pts) = Octets(u)
      BY <1>1, <1>5 DEF writePts
    <2>2. ByteBits(u, 5)
      BY <1>12 DEF BitSeq, ByteBits
    <2> QED
      BY <2>1, <2>2, BitsOfOctets
  <1>14. ASSUME NEW i \in 1 .. 3 PROVE u[4 + i] = pts[i]
    <2>1. p[4 + i] = b[i]
      BY <1>7 DEF Joined
    <2>2. 4 + i \in 1 .. 7 /\ 4 + i \in 1 .. 8 /\ 4 + i \in 1 .. 23 /\ 4 + i \in 1 .. 24
          /\ 4 + i \in 1 .. 39
      OBVIOUS
    <2>3. q[4 + i] = p[4 + i] /\ r[4 + i] = q[4 + i]
      BY <1>8, <1>9, <2>2 DEF Joined
    <2>4. s[4 + i] = r[4 + i] /\ t[4 + i] = s[4 + i] /\ u[4 + i] = t[4 + i]
      BY <1>10, <1>11, <1>12, <2>2 DEF Joined
    <2> QED
      BY <1>4, <2>1, <2>3, <2>4
  <1>15. ASSUME NEW i \in 4 .. 18 PROVE u[5 + i] = pts[i]
    <2>1. PICK j \in 1 .. 15 : j = i - 3 /\ 8 + j = 5 + i /\ j + 3 = i
      OBVIOUS
    <2>2. 8 + j \in 1 .. 23 /\ 8 + j \in 1 .. 24 /\ 8 + j \in 1 .. 39
      OBVIOUS
    <2>3. r[8 + j] = d[j] /\ d[j] = pts[j + 3]
      BY <1>4, <1>9 DEF Joined
    <2>4. s[8 + j] = r[8 + j] /\ t[8 + j] = s[8 + j] /\ u[8 + j] = t[8 + j]
      BY <1>10, <1>11, <1>12, <2>2 DEF Joined
    <2> QED
      BY <2>1, <2>3, <2>4
  <1>16. ASSUME NEW i \in 19 .. 33 PROVE u[6 + i] = pts[i]
    <2>1. PICK j \in 1 .. 15 : j = i - 18 /\ 24 + j = 6 + i /\ j + 18 = i
      OBVIOUS
    <2>2. 24 + j \in 1 .. 39
      OBVIOUS
    <2>3. t[24 + j] = e[j] /\ e[j] = pts[j + 18]
      BY <1>4, <1>11 DEF Joined
    <2>4. u[24 + j] = t[24 + j]
      BY <1>12, <2>2 DEF Joined
    <2> QED
      BY <2>1, <2>3, <2>4
  <1> QED
    BY <1>12, <1>13, <1>14, <1>15, <1>16

\* The bits from the l-th on.
LEMMA CutBits ==
  ASSUME NEW n, NEW s, BitSeq(s, n), NEW l \in Nat, NEW m \in Nat, l + m <= n,
         NEW k, k = l + 1, NEW r, r = l + m
  PROVE  BitSeq(SubSeq(s, k, r), m) /\ \A i \in 1 .. m : SubSeq(s, k, r)[i] = s[i + l]
  <1>1. s \in Seq(Bit) /\ Len(s) = n
    BY DEF BitSeq
  <1>2. k \in 1 .. Len(s) + 1 /\ r \in k - 1 .. Len(s) /\ r - k + 1 = m
    BY <1>1 DEF BitSeq
  <1>3. /\ SubSeq(s, k, r) \in Seq(Bit) /\ Len(SubSeq(s, k, r)) = r - k + 1
        /\ \A i \in 1 .. r - k + 1 : SubSeq(s, k, r)[i] = s[k + i - 1]
    <2>1. /\ SubSeq(s, k, r) \in Seq(Bit)
          /\ Len(SubSeq(s, k, r)) = r - k + 1
          /\ \A i \in 1 .. r - k + 1 : SubSeq(s, k, r)[i] = s[k + i - 1]
      BY <1>1, <1>2, SliceType
    <2> QED
      BY <2>1
  <1>4. BitSeq(SubSeq(s, k, r), m)
    BY <1>2, <1>3 DEF BitSeq
  <1>5. ASSUME NEW i \in 1 .. m PROVE SubSeq(s, k, r)[i] = s[i + l]
    <2>1. i \in 1 .. r - k + 1 /\ k + i - 1 = i + l
      BY <1>2
    <2> QED
      BY <1>3, <2>1
  <1> QED
    BY <1>4, <1>5

\* A clock reference is read as it was written.
LEMMA PcrReadBack ==
  ASSUME NEW pcr, BitSeq(pcr, 33)
  PROVE  readPcr(writePcr(pcr)) = pcr
  <1>1. PICK a, b, c, u : a = Filled(6, 1) /\ b = Filled(9, 0) /\ c = pcr \o a /\ u = c \o b
    OBVIOUS
  <1>2. BitSeq(a, 6) /\ BitSeq(b, 9)
    BY <1>1, BitSeqFilled DEF Bit
  <1>3. BitSeq(c, 39) /\ BitSeq(u, 48)
    <2>1. BitSeq(c, 33 + 6)
      BY <1>1, <1>2, BitSeqConcat
    <2>2. BitSeq(c, 39)
      BY <2>1
    <2>3. BitSeq(u, 39 + 9)
      BY <1>1, <1>2, <2>2, BitSeqConcat
    <2> QED
      BY <2>2, <2>3
  <1>4. BitsOf(writePcr(pcr)) = u
    <2>1. writePcr(pcr) = Octets(u)
      BY <1>1 DEF writePcr
    <2>2. ByteBits(u, 6)
      BY <1>3 DEF BitSeq, ByteBits
    <2> QED
      BY <2>1, <2>2, BitsOfOctets
  <1>5. SubSeq(u, 1, 33) = pcr
    <2>1. pcr \in Seq(Bit) /\ Len(pcr) = 33 /\ a \in Seq(Bit) /\ b \in Seq(Bit)
          /\ c \in Seq(Bit) /\ Len(c) = 39 /\ Len(a) = 6
      BY <1>2, <1>3 DEF BitSeq
    <2>2. PICK j, k \in Nat : j = 1 /\ k = 33
      OBVIOUS
    <2>3. j \in Nat \ {0} /\ j <= k + 1 /\ k <= Len(c)
      BY <2>1, <2>2
    <2>4. SubSeq(c \o b, j, k) = SubSeq(c, j, k)
      BY <2>1, <2>3, SliceLeft
    <2>5. Meet(pcr \o a, 33, 39, pcr, a)
      <3>1. 33 = Len(pcr) /\ 39 = Len(pcr) + Len(a)
        BY <2>1
      <3> QED
        BY <2>1, <3>1, CutConcat
    <2> QED
      BY <1>1, <2>2, <2>4, <2>5 DEF Meet
  <1> QED
    BY <1>4, <1>5 DEF readPcr
=============================================================================
