--------------------------- MODULE SequenceLemmas ---------------------------
(***************************************************************************)
(* What the proofs about buffers need to know of sequences: how one is cut *)
(* in two, how the positions of a stream add up, and what holds of a       *)
(* function that is defined by recursion on the positions.                 *)
(***************************************************************************)
EXTENDS SequenceTheorems, WellFoundedInduction, TLAPS

\* Cutting a sequence in two loses nothing.
LEMMA CutSequence ==
  ASSUME NEW S, NEW s \in Seq(S), NEW n \in 0 .. Len(s)
  PROVE  /\ SubSeq(s, 1, n) \in Seq(S)
         /\ SubSeq(s, n + 1, Len(s)) \in Seq(S)
         /\ Len(SubSeq(s, 1, n)) = n
         /\ SubSeq(s, 1, n) \o SubSeq(s, n + 1, Len(s)) = s
  <1> DEFINE a == SubSeq(s, 1, n)
             b == SubSeq(s, n + 1, Len(s))
  <1>1. Len(s) \in Nat /\ n \in Nat
    BY LenProperties
  <1>2. \A i \in 1 .. Len(s) : s[i] \in S
    BY ElementOfSeq
  <1>3. a \in Seq(S) /\ Len(a) = n /\ \A i \in 1 .. n : a[i] = s[i]
    BY <1>1, <1>2, SubSeqProperties
  <1>4. /\ b \in Seq(S) /\ Len(b) = Len(s) - n
        /\ \A i \in 1 .. Len(s) - n : b[i] = s[n + i]
    BY <1>1, <1>2, SubSeqProperties
  <1> HIDE DEF a, b
  <1>5. /\ a \o b \in Seq(S)
        /\ Len(a \o b) = Len(a) + Len(b)
        /\ \A i \in 1 .. Len(a) + Len(b) :
             (a \o b)[i] = IF i <= Len(a) THEN a[i] ELSE b[i - Len(a)]
    BY <1>3, <1>4, ConcatProperties
  <1>6. \A i \in 1 .. Len(s) : (a \o b)[i] = s[i]
    <2> SUFFICES ASSUME NEW i \in 1 .. Len(s) PROVE (a \o b)[i] = s[i]
      OBVIOUS
    <2>1. i \in 1 .. Len(a) + Len(b)
      BY <1>1, <1>3, <1>4
    <2>2. CASE i <= n
      BY <1>1, <1>3, <1>5, <2>1, <2>2
    <2>3. CASE i > n
      <3>1. i - n \in 1 .. Len(s) - n /\ n + (i - n) = i
        BY <1>1, <2>3
      <3>2. b[i - n] = s[n + (i - n)]
        BY <1>4, <3>1
      <3>3. (a \o b)[i] = b[i - Len(a)]
        BY <1>1, <1>3, <1>5, <2>1, <2>3
      <3> QED
        BY <1>3, <3>1, <3>2, <3>3
    <2>4. i <= n \/ i > n
      BY <1>1
    <2> QED
      BY <2>2, <2>3, <2>4
  <1>7. Len(a \o b) = Len(s)
    BY <1>1, <1>3, <1>4, <1>5
  <1>8. a \o b = s
    BY <1>5, <1>6, <1>7, SeqEqual
  <1> QED
    BY <1>3, <1>4, <1>8 DEF a, b

\* Concatenation is associative, in a form that is quick to use.
Regroups(a, b, c) == (a \o b) \o c = a \o (b \o c)

LEMMA ConcatRegroups ==
  ASSUME NEW S, NEW a, NEW b, NEW c, a \in Seq(S), b \in Seq(S), c \in Seq(S)
  PROVE  Regroups(a, b, c)
  BY ConcatAssociative, SMTT(60) DEF Regroups

\* Moving the front of a sequence to the end of another one.
LEMMA MoveFront ==
  ASSUME NEW S, NEW r \in Seq(S), NEW s \in Seq(S), NEW n \in 0 .. Len(s)
  PROVE  /\ r \o SubSeq(s, 1, n) \in Seq(S)
         /\ SubSeq(s, n + 1, Len(s)) \in Seq(S)
         /\ (r \o SubSeq(s, 1, n)) \o SubSeq(s, n + 1, Len(s)) = r \o s
  <1> DEFINE a == SubSeq(s, 1, n)
             b == SubSeq(s, n + 1, Len(s))
  <1>1. a \in Seq(S) /\ b \in Seq(S) /\ a \o b = s
    BY CutSequence
  <1> HIDE DEF a, b
  <1>2. r \o a \in Seq(S)
    BY <1>1, ConcatProperties
  <1>3. a \in Seq(S) /\ b \in Seq(S)
    BY <1>1
  <1>4. (r \o a) \o b = r \o (a \o b)
    <2>1. Regroups(r, a, b)
      BY <1>3, ConcatRegroups
    <2> QED
      BY <2>1 DEF Regroups
  <1>5. (r \o a) \o b = r \o s
    BY <1>1, <1>4
  <1> QED
    BY <1>1, <1>2, <1>5 DEF a, b

\* Appending the next positions to the first ones gives the first ones again.
LEMMA NextBytes ==
  ASSUME NEW m \in Nat, NEW n \in Nat
  PROVE  [k \in 1 .. m |-> k] \o [k \in 1 .. n |-> m + k]
           = [k \in 1 .. m + n |-> k]
  <1> DEFINE s == [k \in 1 .. m |-> k]
             t == [k \in 1 .. n |-> m + k]
             u == [k \in 1 .. m + n |-> k]
  <1>1. s \in Seq(Nat) /\ t \in Seq(Nat) /\ u \in Seq(Nat)
    BY SeqDef
  <1>2. Len(s) = m /\ Len(t) = n /\ Len(u) = m + n
    BY LenProperties, <1>1
  <1>3. s \o t \in Seq(Nat) /\ Len(s \o t) = m + n
    BY <1>1, <1>2, ConcatProperties
  <1>4. \A k \in 1 .. m + n : (s \o t)[k] = u[k]
    BY <1>1, <1>2, ConcatProperties
  <1> QED
    BY <1>1, <1>2, <1>3, <1>4, SeqEqual
-----------------------------------------------------------------------------
(* Slices.                                                                 *)

LEMMA SliceType ==
  ASSUME NEW S, NEW s \in Seq(S), NEW m \in 1 .. Len(s) + 1, NEW n \in m - 1 .. Len(s)
  PROVE  /\ SubSeq(s, m, n) \in Seq(S)
         /\ Len(SubSeq(s, m, n)) = n - m + 1
         /\ \A i \in 1 .. n - m + 1 : SubSeq(s, m, n)[i] = s[m + i - 1]
  <1>1. Len(s) \in Nat /\ m \in Int /\ n \in Int
    BY LenProperties
  <1>2. \A i \in m .. n : s[i] \in S
    BY <1>1, ElementOfSeq
  <1>3. /\ SubSeq(s, m, n) \in Seq(S)
        /\ Len(SubSeq(s, m, n)) = IF m <= n THEN n - m + 1 ELSE 0
        /\ \A i \in 1 .. n - m + 1 : SubSeq(s, m, n)[i] = s[m + i - 1]
    BY <1>1, <1>2, SubSeqProperties
  <1> QED
    BY <1>1, <1>3

\* A slice up to the end of a longer sequence is one element longer.
LEMMA SliceAppend ==
  ASSUME NEW S, NEW s \in Seq(S), NEW x \in S, NEW m \in 1 .. Len(s) + 1
  PROVE  SubSeq(Append(s, x), m, Len(s) + 1) = Append(SubSeq(s, m, Len(s)), x)
  <1> DEFINE t == Append(s, x)
             a == SubSeq(t, m, Len(s) + 1)
             b == SubSeq(s, m, Len(s))
  <1>1. Len(s) \in Nat
    BY LenProperties
  <1>2. /\ t \in Seq(S) /\ Len(t) = Len(s) + 1 /\ t[Len(s) + 1] = x
        /\ \A i \in 1 .. Len(s) : t[i] = s[i]
    BY AppendProperties
  <1> HIDE DEF t
  <1>3. /\ a \in Seq(S) /\ Len(a) = Len(s) + 1 - m + 1
        /\ \A i \in 1 .. Len(s) + 1 - m + 1 : a[i] = t[m + i - 1]
    <2>1. m \in 1 .. Len(t) + 1 /\ Len(s) + 1 \in m - 1 .. Len(t)
      BY <1>1, <1>2
    <2> QED
      BY <1>2, <2>1, SliceType
  <1>4. /\ b \in Seq(S) /\ Len(b) = Len(s) - m + 1
        /\ \A i \in 1 .. Len(s) - m + 1 : b[i] = s[m + i - 1]
    <2>1. Len(s) \in m - 1 .. Len(s)
      BY <1>1
    <2> QED
      BY <2>1, SliceType
  <1> HIDE DEF a, b
  <1>5. /\ Append(b, x) \in Seq(S) /\ Len(Append(b, x)) = Len(b) + 1
        /\ Append(b, x)[Len(b) + 1] = x
        /\ \A i \in 1 .. Len(b) : Append(b, x)[i] = b[i]
    <2>1. b \in Seq(S)
      BY <1>4
    <2> QED
      BY <2>1, AppendProperties
  <1>6. ASSUME NEW i \in 1 .. Len(a) PROVE a[i] = Append(b, x)[i]
    <2>1. CASE i \in 1 .. Len(b)
      <3>1. m + i - 1 \in 1 .. Len(s) /\ i \in 1 .. Len(s) - m + 1
        BY <1>1, <1>4, <2>1
      <3> QED
        BY <1>2, <1>3, <1>4, <1>5, <2>1, <3>1
    <2>2. CASE i = Len(b) + 1
      <3>1. m + i - 1 = Len(s) + 1
        BY <1>1, <1>4, <2>2
      <3> QED
        BY <1>2, <1>3, <1>5, <2>2, <3>1
    <2>3. Len(b) \in Nat /\ Len(a) = Len(b) + 1
      BY <1>1, <1>3, <1>4
    <2>4. i \in 1 .. Len(b) \/ i = Len(b) + 1
      BY <2>3
    <2> QED
      BY <2>1, <2>2, <2>4
  <1>7. Len(a) = Len(Append(b, x))
    BY <1>1, <1>3, <1>4, <1>5
  <1>8. a = Append(b, x)
    BY <1>3, <1>5, <1>6, <1>7, SeqEqual
  <1> QED
    BY <1>8 DEF a, b, t

\* A slice is decided by its elements.
LEMMA SliceEqual ==
  ASSUME NEW S, NEW s \in Seq(S), NEW t \in Seq(S),
         NEW n \in Nat, n <= Len(s), n <= Len(t), \A i \in 1 .. n : s[i] = t[i]
  PROVE  SubSeq(s, 1, n) = SubSeq(t, 1, n)
  <1>1. Len(s) \in Nat /\ Len(t) \in Nat
    BY LenProperties
  <1>2. /\ 1 \in 1 .. Len(s) + 1 /\ n \in 1 - 1 .. Len(s)
        /\ 1 \in 1 .. Len(t) + 1 /\ n \in 1 - 1 .. Len(t)
    BY <1>1
  <1>3. /\ SubSeq(s, 1, n) \in Seq(S) /\ Len(SubSeq(s, 1, n)) = n - 1 + 1
        /\ \A i \in 1 .. n - 1 + 1 : SubSeq(s, 1, n)[i] = s[1 + i - 1]
    BY <1>2, SliceType
  <1>4. /\ SubSeq(t, 1, n) \in Seq(S) /\ Len(SubSeq(t, 1, n)) = n - 1 + 1
        /\ \A i \in 1 .. n - 1 + 1 : SubSeq(t, 1, n)[i] = t[1 + i - 1]
    BY <1>2, SliceType
  <1>5. n - 1 + 1 = n /\ \A i \in 1 .. n : 1 + i - 1 = i
    OBVIOUS
  <1>6. \A i \in 1 .. n : SubSeq(s, 1, n)[i] = SubSeq(t, 1, n)[i]
    BY <1>3, <1>4, <1>5
  <1> QED
    BY <1>3, <1>4, <1>5, <1>6, SeqEqual

\* The front of a slice is a slice.
LEMMA SliceFront ==
  ASSUME NEW S, NEW s \in Seq(S), NEW m \in 1 .. Len(s) + 1, NEW n \in m - 1 .. Len(s),
         NEW k \in m - 1 .. n
  PROVE  SubSeq(SubSeq(s, m, n), 1, k - m + 1) = SubSeq(s, m, k)
  <1> DEFINE a == SubSeq(s, m, n)
             b == SubSeq(s, m, k)
             c == SubSeq(a, 1, k - m + 1)
  <1>1. Len(s) \in Nat /\ m \in Int /\ n \in Int /\ k \in Int /\ k \in m - 1 .. Len(s)
    BY LenProperties
  <1>2. /\ a \in Seq(S) /\ Len(a) = n - m + 1
        /\ \A i \in 1 .. n - m + 1 : a[i] = s[m + i - 1]
    BY SliceType
  <1>3. /\ b \in Seq(S) /\ Len(b) = k - m + 1
        /\ \A i \in 1 .. k - m + 1 : b[i] = s[m + i - 1]
    BY <1>1, SliceType
  <1> HIDE DEF a, b
  <1>4. /\ c \in Seq(S) /\ Len(c) = k - m + 1 - 1 + 1
        /\ \A i \in 1 .. k - m + 1 - 1 + 1 : c[i] = a[1 + i - 1]
    <2>1. 1 \in 1 .. Len(a) + 1 /\ k - m + 1 \in 1 - 1 .. Len(a)
      BY <1>1, <1>2
    <2> QED
      BY <1>2, <2>1, SliceType
  <1> HIDE DEF c
  <1>5. ASSUME NEW i \in 1 .. k - m + 1 PROVE c[i] = b[i]
    <2>1. 1 + i - 1 = i /\ i \in 1 .. n - m + 1 /\ i \in 1 .. k - m + 1 - 1 + 1
      BY <1>1
    <2> QED
      BY <1>2, <1>3, <1>4, <2>1
  <1>6. Len(c) = Len(b) /\ Len(c) = k - m + 1
    BY <1>1, <1>3, <1>4
  <1>7. c = b
    BY <1>3, <1>4, <1>5, <1>6, SeqEqual
  <1> QED
    BY <1>7 DEF a, b, c
-----------------------------------------------------------------------------
(* Induction and recursion up to a bound, on a set instead of a predicate. *)

LEMMA LeastElement ==
  ASSUME NEW T, T \subseteq Nat, T # {}
  PROVE  \E n \in T : \A m \in T : n <= m
  <1>1. PICK n \in T : \A m \in T : ~ (<<m, n>> \in OpToRel(<, Nat))
    BY NatLessThanWellFounded, WFMin
  <1>2. ASSUME NEW m \in T PROVE n <= m
    <2>1. ~ (m < n)
      BY <1>1 DEF OpToRel
    <2> QED
      BY <2>1
  <1> QED
    BY <1>2

LEMMA Induction ==
  ASSUME NEW S, NEW N \in Nat, 0 \in S, \A n \in 1 .. N : n - 1 \in S => n \in S
  PROVE  0 .. N \subseteq S
  <1> SUFFICES ASSUME NEW m \in 0 .. N, m \notin S PROVE FALSE
    OBVIOUS
  <1> DEFINE T == {n \in 0 .. N : n \notin S}
  <1>1. T \subseteq Nat /\ T # {}
    OBVIOUS
  <1>2. PICK n \in T : \A k \in T : n <= k
    BY <1>1, LeastElement
  <1>3. n # 0 /\ n \in 1 .. N
    BY <1>2
  <1>4. n - 1 \in 0 .. N /\ n - 1 \in S
    BY <1>2, <1>3
  <1> QED
    BY <1>2, <1>3, <1>4

\* What is defined by recursion exists: f starts with v and goes on by G.
Steps(N, V) == [1 .. N -> [V -> V]]
Unfolds(f, v, N, G) == f[0] = v /\ \A k \in 1 .. N : f[k] = G[k][f[k - 1]]

LEMMA Recursion ==
  ASSUME NEW V, NEW N \in Nat, NEW v \in V, NEW G \in Steps(N, V)
  PROVE  \E f \in [0 .. N -> V] : Unfolds(f, v, N, G)
  <1> USE DEF Steps, Unfolds
  <1> DEFINE Good(n, f) == f[0] = v /\ \A k \in 1 .. n : f[k] = G[k][f[k - 1]]
             S == {n \in 0 .. N : \E f \in [0 .. N -> V] : Good(n, f)}
  <1>1. 0 \in S
    <2> DEFINE g == [k \in 0 .. N |-> v]
    <2>1. g \in [0 .. N -> V] /\ g[0] = v /\ 0 \in 0 .. N
      OBVIOUS
    <2>2. Good(0, g)
      BY <2>1
    <2> HIDE DEF g, Good
    <2> QED
      BY <2>1, <2>2
  <1>2. ASSUME NEW n \in 1 .. N, n - 1 \in S PROVE n \in S
    <2>1. PICK f \in [0 .. N -> V] : Good(n - 1, f)
      BY <1>2
    <2> DEFINE g == [f EXCEPT ![n] = G[n][f[n - 1]]]
    <2>2. g \in [0 .. N -> V]
      <3>1. G[n][f[n - 1]] \in V
        OBVIOUS
      <3> QED
        BY <3>1
    <2>3. Good(n, g)
      <3>1. g[0] = v
        BY <2>1
      <3>2. ASSUME NEW k \in 1 .. n PROVE g[k] = G[k][g[k - 1]]
        <4>1. g[k - 1] = f[k - 1]
          OBVIOUS
        <4> QED
          BY <2>1, <4>1
      <3> QED
        BY <3>1, <3>2
    <2> HIDE DEF g
    <2> QED
      BY <2>2, <2>3
  <1> HIDE DEF S
  <1>3. N \in S
    <2>1. 0 .. N \subseteq S
      BY <1>1, <1>2, Induction
    <2> QED
      BY <2>1
  <1> QED
    BY <1>3 DEF S

\* The type of what is defined by recursion.
LEMMA RecursionType ==
  ASSUME NEW V, NEW N \in Nat, NEW f, f[0] \in V,
         \A k \in 1 .. N : f[k - 1] \in V => f[k] \in V
  PROVE  \A k \in 0 .. N : f[k] \in V
  <1> DEFINE S == {k \in 0 .. N : f[k] \in V}
  <1>1. 0 \in S /\ \A n \in 1 .. N : n - 1 \in S => n \in S
    OBVIOUS
  <1> HIDE DEF S
  <1>2. 0 .. N \subseteq S
    BY <1>1, Induction
  <1> QED
    BY <1>2 DEF S

\* The parts of a concatenation.
LEMMA ConcatParts ==
  ASSUME NEW S, NEW a \in Seq(S), NEW b \in Seq(S)
  PROVE  /\ a \o b \in Seq(S)
         /\ Len(a \o b) = Len(a) + Len(b)
         /\ \A i \in 1 .. Len(a) : (a \o b)[i] = a[i]
         /\ \A i \in 1 .. Len(b) : (a \o b)[Len(a) + i] = b[i]
  <1>1. /\ a \o b \in Seq(S)
        /\ Len(a \o b) = Len(a) + Len(b)
        /\ \A i \in 1 .. Len(a) + Len(b) :
             (a \o b)[i] = IF i <= Len(a) THEN a[i] ELSE b[i - Len(a)]
    BY ConcatProperties
  <1>2. PICK m \in Nat, n \in Nat : m = Len(a) /\ n = Len(b)
    BY LenProperties
  <1>3. ASSUME NEW i \in 1 .. m PROVE (a \o b)[i] = a[i]
    <2>1. i \in 1 .. m + n /\ i <= m
      OBVIOUS
    <2> QED
      BY <1>1, <1>2, <2>1
  <1>4. ASSUME NEW i \in 1 .. n PROVE (a \o b)[m + i] = b[i]
    <2>1. m + i \in 1 .. m + n /\ ~ (m + i <= m) /\ (m + i) - m = i
      OBVIOUS
    <2> QED
      BY <1>1, <1>2, <2>1
  <1> QED
    BY <1>1, <1>2, <1>3, <1>4

LEMMA SliceLeft ==
  ASSUME NEW S, NEW a \in Seq(S), NEW b \in Seq(S),
         NEW m \in Nat \ {0}, NEW n \in Nat, m <= n + 1, n <= Len(a)
  PROVE  SubSeq(a \o b, m, n) = SubSeq(a, m, n)
  <1>1. PICK c : c = a \o b
    OBVIOUS
  <1>2. c \in Seq(S) /\ Len(c) = Len(a) + Len(b) /\ \A i \in 1 .. Len(a) : c[i] = a[i]
    BY <1>1, ConcatParts
  <1>3. PICK l \in Nat, r \in Nat : l = Len(a) /\ r = Len(b)
    BY LenProperties
  <1>4. m \in 1 .. Len(a) + 1 /\ n \in m - 1 .. Len(a)
        /\ m \in 1 .. Len(c) + 1 /\ n \in m - 1 .. Len(c)
    BY <1>2, <1>3
  <1>5. PICK x, y : x = SubSeq(c, m, n) /\ y = SubSeq(a, m, n)
    OBVIOUS
  <1>6. x \in Seq(S) /\ Len(x) = n - m + 1 /\ \A i \in 1 .. n - m + 1 : x[i] = c[m + i - 1]
    BY <1>2, <1>4, <1>5, SliceType
  <1>7. y \in Seq(S) /\ Len(y) = n - m + 1 /\ \A i \in 1 .. n - m + 1 : y[i] = a[m + i - 1]
    BY <1>4, <1>5, SliceType
  <1>8. \A i \in 1 .. n - m + 1 : x[i] = y[i]
    <2> SUFFICES ASSUME NEW i \in 1 .. n - m + 1 PROVE x[i] = y[i]
      OBVIOUS
    <2>1. m + i - 1 \in 1 .. Len(a)
      BY <1>3
    <2> QED
      BY <1>2, <1>6, <1>7, <2>1
  <1>9. x = y
    BY <1>6, <1>7, <1>8, SeqEqual
  <1> QED
    BY <1>1, <1>5, <1>9

LEMMA SliceRight ==
  ASSUME NEW S, NEW a \in Seq(S), NEW b \in Seq(S),
         NEW m \in Nat \ {0}, NEW n \in Nat, m <= n + 1, n <= Len(b)
  PROVE  SubSeq(a \o b, Len(a) + m, Len(a) + n) = SubSeq(b, m, n)
  <1>1. PICK c : c = a \o b
    OBVIOUS
  <1>3. PICK l \in Nat, r \in Nat : l = Len(a) /\ r = Len(b)
    BY LenProperties
  <1>2. c \in Seq(S) /\ Len(c) = l + r /\ \A i \in 1 .. r : c[l + i] = b[i]
    BY <1>1, <1>3, ConcatParts
  <1>4. m \in 1 .. Len(b) + 1 /\ n \in m - 1 .. Len(b)
        /\ l + m \in 1 .. Len(c) + 1 /\ l + n \in (l + m) - 1 .. Len(c)
        /\ (l + n) - (l + m) + 1 = n - m + 1
    BY <1>2, <1>3
  <1>5. PICK x, y : x = SubSeq(c, l + m, l + n) /\ y = SubSeq(b, m, n)
    OBVIOUS
  <1>6. /\ x \in Seq(S) /\ Len(x) = (l + n) - (l + m) + 1
        /\ \A i \in 1 .. (l + n) - (l + m) + 1 : x[i] = c[(l + m) + i - 1]
    BY <1>2, <1>4, <1>5, SliceType
  <1>7. y \in Seq(S) /\ Len(y) = n - m + 1 /\ \A i \in 1 .. n - m + 1 : y[i] = b[m + i - 1]
    BY <1>4, <1>5, SliceType
  <1>8. \A i \in 1 .. n - m + 1 : x[i] = y[i]
    <2> SUFFICES ASSUME NEW i \in 1 .. n - m + 1 PROVE x[i] = y[i]
      OBVIOUS
    <2>1. m + i - 1 \in 1 .. r /\ (l + m) + i - 1 = l + (m + i - 1)
      BY <1>3
    <2>2. c[l + (m + i - 1)] = b[m + i - 1]
      BY <1>2, <2>1
    <2> QED
      BY <1>4, <1>6, <1>7, <2>1, <2>2
  <1>9. x = y
    BY <1>4, <1>6, <1>7, <1>8, SeqEqual
  <1> QED
    BY <1>1, <1>3, <1>5, <1>9

\* All of a sequence.
LEMMA SliceAll ==
  ASSUME NEW S, NEW s \in Seq(S)
  PROVE  SubSeq(s, 1, Len(s)) = s
  <1>1. 1 \in 1 .. Len(s) + 1 /\ Len(s) \in 1 - 1 .. Len(s) /\ Len(s) \in Nat
    BY LenProperties
  <1>2. PICK x : x = SubSeq(s, 1, Len(s))
    OBVIOUS
  <1>3. /\ x \in Seq(S) /\ Len(x) = Len(s) - 1 + 1
        /\ \A i \in 1 .. Len(s) - 1 + 1 : x[i] = s[1 + i - 1]
    BY <1>1, <1>2, SliceType
  <1>4. Len(x) = Len(s) /\ \A i \in 1 .. Len(s) : x[i] = s[i]
    BY <1>1, <1>3
  <1>5. x = s
    BY <1>3, <1>4, SeqEqual
  <1> QED
    BY <1>2, <1>5

LEMMA SeqSubset ==
  ASSUME NEW S, NEW T, S \subseteq T
  PROVE  Seq(S) \subseteq Seq(T)
  BY SeqDef

\* A concatenation is cut where its parts meet.
Meet(c, n, m, a, b) == SubSeq(c, 1, n) = a /\ SubSeq(c, n + 1, m) = b

LEMMA CutConcat ==
  ASSUME NEW S, NEW a \in Seq(S), NEW b \in Seq(S), NEW n, n = Len(a),
         NEW m, m = Len(a) + Len(b)
  PROVE  Meet(a \o b, n, m, a, b)
  <1>1. n \in Nat /\ Len(b) \in Nat
    BY LenProperties
  <1>2. SubSeq(a \o b, 1, n) = a
    <2>1. SubSeq(a \o b, 1, n) = SubSeq(a, 1, n)
      <3>1. 1 \in Nat \ {0} /\ 1 <= n + 1 /\ n <= Len(a)
        BY <1>1
      <3> QED
        BY <1>1, <3>1, SliceLeft
    <2>2. SubSeq(a, 1, Len(a)) = a
      BY SliceAll
    <2> QED
      BY <2>1, <2>2
  <1>3. SubSeq(a \o b, n + 1, m) = b
    <2>1. SubSeq(a \o b, Len(a) + 1, Len(a) + Len(b)) = SubSeq(b, 1, Len(b))
      <3>1. 1 \in Nat \ {0} /\ 1 <= Len(b) + 1 /\ Len(b) <= Len(b)
        BY <1>1
      <3> QED
        BY <1>1, <3>1, SliceRight
    <2>2. SubSeq(b, 1, Len(b)) = b
      BY SliceAll
    <2> QED
      BY <2>1, <2>2
  <1> QED
    BY <1>2, <1>3 DEF Meet

\* There is a greatest element.
LEMMA GreatestElement ==
  ASSUME NEW n \in Nat, NEW T, T \subseteq 1 .. n, T # {}
  PROVE  \E x \in T : \A y \in T : x >= y
  <1> DEFINE R == {n - x : x \in T}
  <1>1. R \subseteq Nat /\ R # {}
    <2>1. \A x \in T : n - x \in Nat /\ n - x \in R
      OBVIOUS
    <2>2. PICK x \in T : TRUE
      OBVIOUS
    <2> QED
      BY <2>1, <2>2
  <1>2. PICK m \in R : \A k \in R : m <= k
    <2> HIDE DEF R
    <2> QED
      BY <1>1, LeastElement
  <1>3. PICK x \in T : m = n - x
    BY <1>2
  <1>4. ASSUME NEW y \in T PROVE x >= y
    <2>1. n - x <= n - y
      BY <1>2, <1>3
    <2> QED
      BY <2>1
  <1> QED
    BY <1>4

\* The concatenation of a sequence of n elements and one of m.
Chained(S, a, n, b, m, c) ==
  /\ n \in Nat /\ m \in Nat
  /\ c \in Seq(S) /\ Len(c) = n + m
  /\ \A i \in 1 .. n : c[i] = a[i]
  /\ \A i \in 1 .. m : c[n + i] = b[i]

LEMMA ConcatChained ==
  ASSUME NEW S, NEW a, NEW b, a \in Seq(S), b \in Seq(S),
         NEW n, n = Len(a), NEW m, m = Len(b)
  PROVE  Chained(S, a, n, b, m, a \o b)
  <1>1. n \in Nat /\ m \in Nat
    BY LenProperties
  <1>2. PICK c : c = a \o b
    OBVIOUS
  <1>3. /\ a \o b \in Seq(S)
        /\ Len(a \o b) = Len(a) + Len(b)
        /\ \A i \in 1 .. Len(a) : (a \o b)[i] = a[i]
        /\ \A i \in 1 .. Len(b) : (a \o b)[Len(a) + i] = b[i]
    BY ConcatParts
  <1>4. Chained(S, a, n, b, m, c)
    BY <1>1, <1>2, <1>3 DEF Chained
  <1> QED
    BY <1>2, <1>4
=============================================================================
