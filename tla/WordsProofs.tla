---------------------------- MODULE WordsProofs ----------------------------
(***************************************************************************)
(* The invariants of Words for integers of any number of words, of any     *)
(* number of bytes of any number of bits, on hosts of either byte order.   *)
(*                                                                         *)
(* A number is the sum of its digits times their weights, which are powers *)
(* of two, and both are recursive functions: Inductive and Unrolled are    *)
(* what is known of them before anything else.  What follows are three     *)
(* facts about numbers.  Consecutive digits can be taken together (the law *)
(* of slices): two halves of an integer, the bytes of a word, the digits   *)
(* below, at and above one place.  A number of digits has these digits     *)
(* (DigitOfNumber), and the digits of a number make it (NumberOfDigits).   *)
(* Leading zeros are determined by the powers of two that a number is      *)
(* between (ZerosAre).                                                     *)
(*                                                                         *)
(* On these rest the operations: a bit of a word among words (BitAccess),  *)
(* two integers in one (Joined), words over the wire (Sent) and clz256 of  *)
(* a digest (ZerosOfDigest).  Laws with many parameters are operators of   *)
(* their own, so that a proof names the instance it uses.                  *)
(***************************************************************************)
EXTENDS Words, WellFoundedInduction, SequenceTheorems, TLAPS

-----------------------------------------------------------------------------
(* Induction over Nat, from the library's theorem that < is well-founded   *)
(* on it.                                                                  *)

LEMMA LeastElement ==
  ASSUME NEW T \in SUBSET Nat, T # {}
  PROVE  \E x \in T : \A y \in T : x <= y
<1> DEFINE Less == {ss \in Nat \X Nat : ss[1] < ss[2]}
<1>1. IsWellFoundedOn(Less, Nat)
  BY NatLessThanWellFounded DEF OpToRel
<1>2. \E x \in T : \A y \in T : ~ (<<y, x>> \in Less)
  <2> HIDE DEF Less
  <2> QED BY <1>1, WFMin
<1>3. PICK x \in T : \A y \in T : ~ (<<y, x>> \in Less)
  BY <1>2
<1>4. ASSUME NEW y \in T PROVE x <= y
  <2>1. x \in Nat /\ y \in Nat /\ <<y, x>> \in Nat \X Nat
    OBVIOUS
  <2>2. ~ (<<y, x>>[1] < <<y, x>>[2])
    BY <1>3, <2>1
  <2> QED BY <2>1, <2>2
<1> QED BY <1>4

LEMMA Inductive ==
  ASSUME NEW T \in SUBSET Nat, 0 \in T, \A n \in T : n + 1 \in T
  PROVE  T = Nat
<1> SUFFICES ASSUME Nat \ T # {} PROVE FALSE
  OBVIOUS
<1>1. PICK x \in Nat \ T : \A y \in Nat \ T : x <= y
  BY LeastElement
<1>2. x # 0 /\ x - 1 \in Nat /\ x - 1 \in T
  BY <1>1
<1> QED BY <1>2

\* A sequence is given by its first element and its steps.
LEMMA Unrolled ==
  ASSUME NEW a \in Nat, NEW F \in [Nat \X Nat -> Nat]
  PROVE  \E f \in [Nat -> Nat] :
            f[0] = a /\ \A k \in Nat : f[k + 1] = F[<<k, f[k]>>]
<1> DEFINE Is(n, g) ==
      /\ g \in [0..n -> Nat]
      /\ g[0] = a
      /\ \A k \in 0..n : k < n => g[k + 1] = F[<<k, g[k]>>]
<1>1. \A n \in Nat : \E g : Is(n, g)
  <2> DEFINE T == {n \in Nat : \E g : Is(n, g)}
  <2>1. 0 \in T
    <3>1. Is(0, [k \in 0..0 |-> a])
      OBVIOUS
    <3> QED BY <3>1
  <2>2. ASSUME NEW n \in T PROVE n + 1 \in T
    <3>1. PICK g : Is(n, g)
      OBVIOUS
    <3> DEFINE h == [k \in 0..(n + 1) |-> IF k <= n THEN g[k] ELSE F[<<n, g[n]>>]]
    <3>2. n \in Nat /\ \A k \in 0..n : g[k] \in Nat
      BY <3>1
    <3>3. h \in [0..(n + 1) -> Nat]
      BY <3>2
    <3>4. h[0] = a
      BY <3>1, <3>2
    <3>5. ASSUME NEW k \in 0..(n + 1), k < n + 1 PROVE h[k + 1] = F[<<k, h[k]>>]
      <4>1. CASE k < n
        BY <4>1, <3>1, <3>2
      <4>2. CASE k = n
        BY <4>2, <3>2
      <4> QED BY <4>1, <4>2, <3>2, <3>5
    <3>6. Is(n + 1, h)
      BY <3>3, <3>4, <3>5
    <3> HIDE DEF Is
    <3> QED BY <3>2, <3>6
  <2>3. T = Nat
    <3> HIDE DEF T
    <3>1. T \in SUBSET Nat
      BY DEF T
    <3> QED BY <2>1, <2>2, <3>1, Inductive
  <2> QED BY <2>3
<1>2. ASSUME NEW m \in Nat, NEW n \in Nat, m <= n, NEW g, NEW h, Is(m, g), Is(n, h)
      PROVE  g[m] = h[m]
  <2> DEFINE T == {k \in Nat : k <= m => g[k] = h[k]}
  <2>1. 0 \in T
    BY <1>2
  <2>2. ASSUME NEW k \in T PROVE k + 1 \in T
    <3> SUFFICES ASSUME k + 1 <= m PROVE g[k + 1] = h[k + 1]
      OBVIOUS
    <3>1. k \in 0..m /\ k \in 0..n /\ k < m /\ k < n /\ g[k] = h[k]
      BY <1>2
    <3> QED BY <3>1, <1>2
  <2>3. T = Nat
    <3> HIDE DEF T
    <3>1. T \in SUBSET Nat
      BY DEF T
    <3> QED BY <2>1, <2>2, <3>1, Inductive
  <2> QED BY <2>3
<1> DEFINE c(n) == CHOOSE g : Is(n, g)
           f == [n \in Nat |-> c(n)[n]]
<1>3. \A n \in Nat : Is(n, c(n))
  <2> HIDE DEF Is
  <2> QED BY <1>1
<1> HIDE DEF c
<1>4. f \in [Nat -> Nat] /\ f[0] = a
  <2>1. \A n \in Nat : n \in 0..n /\ c(n) \in [0..n -> Nat]
    BY <1>3
  <2>2. \A n \in Nat : c(n)[n] \in Nat
    BY <2>1
  <2>3. c(0)[0] = a
    BY <1>3
  <2> QED BY <2>2, <2>3
<1>5. ASSUME NEW k \in Nat PROVE f[k + 1] = F[<<k, f[k]>>]
  <2>1. c(k + 1)[k + 1] = F[<<k, c(k + 1)[k]>>]
    <3>1. k + 1 \in Nat /\ k \in 0..(k + 1) /\ k < k + 1
      OBVIOUS
    <3> QED BY <1>3, <3>1
  <2>2. c(k + 1)[k] = c(k)[k]
    <3>1. k + 1 \in Nat /\ k <= k + 1
      OBVIOUS
    <3> HIDE DEF Is
    <3>2. Is(k, c(k)) /\ Is(k + 1, c(k + 1))
      BY <1>3, <3>1
    <3> QED BY <1>2, <3>1, <3>2
  <2>3. f[k + 1] = c(k + 1)[k + 1] /\ f[k] = c(k)[k]
    BY <1>4
  <2> QED BY <2>1, <2>2, <2>3
<1> HIDE DEF f
<1> QED BY <1>4, <1>5

-----------------------------------------------------------------------------
(* Powers of two.                                                          *)

LEMMA Powers ==
  /\ Pow2[0] = 1
  /\ \A n \in Nat : Pow2[n + 1] = 2 * Pow2[n]
<1> DEFINE F == [p \in Nat \X Nat |-> 2 * p[2]]
<1>1. PICK f \in [Nat -> Nat] : f[0] = 1 /\ \A k \in Nat : f[k + 1] = F[<<k, f[k]>>]
  <2>1. F \in [Nat \X Nat -> Nat]
    OBVIOUS
  <2>2. 1 \in Nat
    OBVIOUS
  <2> HIDE DEF F
  <2>3. \E f \in [Nat -> Nat] : f[0] = 1 /\ \A k \in Nat : f[k + 1] = F[<<k, f[k]>>]
    BY <2>1, <2>2, Unrolled
  <2> QED BY <2>3
<1>2. f = [n \in Nat |-> IF n = 0 THEN 1 ELSE 2 * f[n - 1]]
  <2>1. ASSUME NEW n \in Nat PROVE f[n] = IF n = 0 THEN 1 ELSE 2 * f[n - 1]
    <3>1. CASE n = 0
      BY <3>1, <1>1
    <3>2. CASE n # 0
      <4>1. n - 1 \in Nat /\ (n - 1) + 1 = n /\ f[n - 1] \in Nat
        BY <3>2
      <4>2. f[(n - 1) + 1] = F[<<n - 1, f[n - 1]>>]
        BY <4>1, <1>1
      <4> QED BY <3>2, <4>1, <4>2
    <3> QED BY <3>1, <3>2
  <2> QED BY <2>1, <1>1
<1>3. Pow2 = [n \in Nat |-> IF n = 0 THEN 1 ELSE 2 * Pow2[n - 1]]
  BY <1>2 DEF Pow2
<1> HIDE DEF F
<1>4. Pow2[0] = 1
  BY <1>3
<1>5. ASSUME NEW n \in Nat PROVE Pow2[n + 1] = 2 * Pow2[n]
  <2>1. n + 1 \in Nat /\ n + 1 # 0 /\ (n + 1) - 1 = n
    OBVIOUS
  <2>2. Pow2[n + 1] = 2 * Pow2[(n + 1) - 1]
    BY <1>3, <2>1
  <2> QED BY <2>1, <2>2
<1> QED BY <1>4, <1>5

LEMMA Pow2Nat == \A n \in Nat : Pow2[n] \in Nat /\ Pow2[n] > 0
<1> DEFINE T == {n \in Nat : Pow2[n] \in Nat /\ Pow2[n] > 0}
<1>1. 0 \in T
  BY Powers
<1>2. \A n \in T : n + 1 \in T
  BY Powers
<1>3. T \in SUBSET Nat
  OBVIOUS
<1>4. T = Nat
  <2> HIDE DEF T
  <2> QED BY <1>1, <1>2, <1>3, Inductive
<1> QED BY <1>4

LEMMA DoubleProduct ==
  ASSUME NEW p \in Nat, NEW q \in Nat
  PROVE  2 * (p * q) = p * (2 * q)
OBVIOUS

LEMMA Pow2Plus == \A m, n \in Nat : Pow2[m + n] = Pow2[m] * Pow2[n]
<1> SUFFICES ASSUME NEW m \in Nat PROVE \A n \in Nat : Pow2[m + n] = Pow2[m] * Pow2[n]
  OBVIOUS
<1> DEFINE T == {n \in Nat : Pow2[m + n] = Pow2[m] * Pow2[n]}
<1>1. 0 \in T
  BY Powers, Pow2Nat
<1>2. ASSUME NEW n \in T PROVE n + 1 \in T
  <2>1. n \in Nat /\ n + 1 \in Nat /\ m + n \in Nat /\ (m + n) + 1 = m + (n + 1)
    OBVIOUS
  <2>2. Pow2[m + (n + 1)] = 2 * Pow2[m + n] /\ Pow2[n + 1] = 2 * Pow2[n]
    BY <2>1, Powers
  <2>3. Pow2[m + n] = Pow2[m] * Pow2[n]
    OBVIOUS
  <2>4. Pow2[m] \in Nat /\ Pow2[n] \in Nat
    BY <2>1, Pow2Nat
  <2>5. 2 * (Pow2[m] * Pow2[n]) = Pow2[m] * (2 * Pow2[n])
    BY <2>4, DoubleProduct
  <2> QED BY <2>1, <2>2, <2>3, <2>5
<1>3. T \in SUBSET Nat
  OBVIOUS
<1>4. T = Nat
  <2> HIDE DEF T
  <2> QED BY <1>1, <1>2, <1>3, Inductive
<1> QED BY <1>4

-----------------------------------------------------------------------------
(* Arithmetic.                                                             *)

LEMMA AddNat == \A a, b \in Nat : a + b \in Nat
OBVIOUS

LEMMA MulNat == \A a, b \in Nat : a * b \in Nat
OBVIOUS

LEMMA MulMono ==
  ASSUME NEW a \in Nat, NEW b \in Nat, NEW c \in Nat, a <= b
  PROVE  c * a <= c * b
OBVIOUS

LEMMA MulAssoc ==
  ASSUME NEW a \in Int, NEW b \in Int, NEW c \in Int
  PROVE  (a * b) * c = a * (b * c)
OBVIOUS

LEMMA MulDist ==
  ASSUME NEW a \in Int, NEW b \in Int, NEW c \in Int
  PROVE  a * (b + c) = a * b + a * c
OBVIOUS

LEMMA MulComm == ASSUME NEW a \in Int, NEW b \in Int PROVE a * b = b * a
OBVIOUS

LEMMA DivMod ==
  ASSUME NEW n \in Nat, NEW d \in Nat, d > 0
  PROVE  /\ n \div d \in Nat
         /\ n % d \in Nat
         /\ n % d < d
         /\ n = d * (n \div d) + (n % d)
OBVIOUS

LEMMA DivModUnique ==
  ASSUME NEW d \in Nat, d > 0, NEW q \in Nat, NEW r \in Nat, r < d
  PROVE  /\ (d * q + r) \div d = q
         /\ (d * q + r) % d = r
OBVIOUS

LEMMA LessMono ==
  ASSUME NEW a \in Nat, NEW b \in Nat, NEW c \in Nat, c > 0, a < b
  PROVE  c * a < c * b
OBVIOUS

\* A digit more than a number below p.
LEMMA RoomForDigit ==
  ASSUME NEW p \in Nat, NEW l \in Nat, l < p, NEW b \in Nat, NEW d \in Nat, d < b
  PROVE  l + p * d < p * b
OBVIOUS

\* A digit between a smaller number and larger digits.
DigitLaw(p, lo, b, d, q) ==
  lo < p /\ d < b => ((lo + p * (d + b * q)) \div p) % b = d

LEMMA DigitAt ==
  ASSUME NEW p \in Nat, NEW lo \in Nat, NEW b \in Nat, NEW d \in Nat, NEW q \in Nat
  PROVE  DigitLaw(p, lo, b, d, q)
<1> SUFFICES ASSUME lo < p, d < b
             PROVE  ((lo + p * (d + b * q)) \div p) % b = d
  BY DEF DigitLaw
<1>1. d + b * q \in Nat /\ p > 0 /\ b > 0
  BY MulNat
<1>2. (lo + p * (d + b * q)) \div p = d + b * q
  <2> DEFINE e == d + b * q
  <2>1. e \in Nat
    BY <1>1
  <2> HIDE DEF e
  <2>2. (p * e + lo) \div p = e
    BY <1>1, <2>1, DivModUnique
  <2>3. p * e + lo = lo + p * e
    BY <2>1, MulNat
  <2>4. (lo + p * e) \div p = e
    BY <2>2, <2>3
  <2> QED BY <2>4 DEF e
<1>3. (b * q + d) % b = d
  BY <1>1, DivModUnique
<1>4. b * q + d = d + b * q
  BY MulNat
<1> QED BY <1>2, <1>3, <1>4

\* One digit more of a number.
LEMMA DigitMore ==
  ASSUME NEW v \in Nat, NEW p \in Nat, p > 0, NEW b \in Nat, b > 0
  PROVE  v % (p * b) = (v % p) + p * ((v \div p) % b)
<1> DEFINE e == v \div p
           lo == v % p
           q == e \div b
           d == e % b
<1>1. e \in Nat /\ lo \in Nat /\ lo < p /\ v = p * e + lo
  BY DivMod
<1>2. q \in Nat /\ d \in Nat /\ d < b /\ e = b * q + d
  BY <1>1, DivMod
<1> HIDE DEF e, lo, q, d
<1>3. lo + p * d < p * b /\ lo + p * d \in Nat /\ p * b \in Nat /\ p * b > 0
  BY <1>1, <1>2, RoomForDigit, MulNat
<1>4. v = (p * b) * q + (lo + p * d)
  <2>1. p * (b * q + d) = p * (b * q) + p * d
    BY <1>2, MulNat, MulDist
  <2>2. p * (b * q) = (p * b) * q
    BY <1>2, MulAssoc
  <2>3. p * (b * q) \in Nat /\ p * d \in Nat
    BY <1>2, MulNat
  <2> QED BY <1>1, <1>2, <2>1, <2>2, <2>3
<1>5. v % (p * b) = lo + p * d
  BY <1>2, <1>3, <1>4, DivModUnique
<1> QED BY <1>5 DEF e, lo, d

-----------------------------------------------------------------------------
(* Numbers and their digits.                                               *)

LEMMA Length ==
  ASSUME NEW S, NEW n \in Nat, NEW x \in [1..n -> S]
  PROVE  Len(x) = n /\ x \in Seq(S)
OBVIOUS

LEMMA SumsUnrolled ==
  ASSUME NEW b \in Nat, NEW n \in Nat, NEW d \in [1..n -> Nat]
  PROVE  /\ Number(b, d) = Sums(b, d)[n]
         /\ Sums(b, d)[0] = 0
         /\ \A k \in 0..n :
               k < n => Sums(b, d)[k + 1] = Sums(b, d)[k] + Pow2[k * b] * d[k + 1]
         /\ \A k \in 0..n : Sums(b, d)[k] \in Nat
<1>1. Len(d) = n
  BY Length
<1> DEFINE F == [p \in Nat \X Nat |->
                   IF p[1] < n THEN p[2] + Pow2[p[1] * b] * d[p[1] + 1] ELSE 0]
<1>2. F \in [Nat \X Nat -> Nat]
  <2> SUFFICES ASSUME NEW k \in Nat, NEW r \in Nat, k < n
               PROVE  r + Pow2[k * b] * d[k + 1] \in Nat
    OBVIOUS
  <2>1. k * b \in Nat
    BY MulNat
  <2>2. Pow2[k * b] \in Nat /\ d[k + 1] \in Nat
    BY <2>1, Pow2Nat
  <2>3. Pow2[k * b] * d[k + 1] \in Nat
    BY <2>2, MulNat
  <2> QED BY <2>3
<1>3. PICK f \in [Nat -> Nat] : f[0] = 0 /\ \A k \in Nat : f[k + 1] = F[<<k, f[k]>>]
  <2> HIDE DEF F
  <2>1. 0 \in Nat
    OBVIOUS
  <2>2. \E f \in [Nat -> Nat] : f[0] = 0 /\ \A k \in Nat : f[k + 1] = F[<<k, f[k]>>]
    BY <1>2, <2>1, Unrolled
  <2> QED BY <2>2
<1> DEFINE g == [k \in 0..n |-> f[k]]
           Step(s, k) == IF k = 0 THEN 0 ELSE s[k - 1] + Pow2[(k - 1) * b] * d[k]
<1>4. g = [k \in 0..n |-> Step(g, k)]
  <2>1. ASSUME NEW k \in 0..n PROVE g[k] = Step(g, k)
    <3>1. CASE k = 0
      BY <3>1, <1>3
    <3>2. CASE k # 0
      <4>1. k - 1 \in Nat /\ (k - 1) + 1 = k /\ k - 1 < n /\ k - 1 \in 0..n
        BY <3>2
      <4>2. f[(k - 1) + 1] = F[<<k - 1, f[k - 1]>>]
        BY <4>1, <1>3
      <4>3. f[k - 1] \in Nat
        BY <4>1
      <4>4. f[k] = f[k - 1] + Pow2[(k - 1) * b] * d[k]
        BY <4>1, <4>2, <4>3
      <4> QED BY <4>1, <4>4, <3>2
    <3> QED BY <3>1, <3>2
  <2> HIDE DEF Step
  <2> QED BY <2>1
<1> DEFINE T == Sums(b, d)
<1>5. T = [k \in 0..n |-> Step(T, k)]
  <2>1. T = CHOOSE s : s = [k \in 0..n |-> Step(s, k)]
    BY <1>1 DEF Sums
  <2> HIDE DEF T, Step, g
  <2> QED BY <1>4, <2>1
<1> HIDE DEF T
<1>6. T[0] = 0
  BY <1>5
<1>7. ASSUME NEW k \in 0..n, k < n
      PROVE  T[k + 1] = T[k] + Pow2[k * b] * d[k + 1]
  <2>1. k + 1 \in 0..n /\ k + 1 # 0 /\ (k + 1) - 1 = k
    BY <1>7
  <2>2. T[k + 1] = Step(T, k + 1)
    <3> HIDE DEF Step
    <3> QED BY <2>1, <1>5
  <2> QED BY <2>1, <2>2
<1> HIDE DEF F, g, Step
<1>8. \A k \in Nat : k <= n => T[k] \in Nat
  <2> DEFINE G == {k \in Nat : k <= n => T[k] \in Nat}
  <2>1. 0 \in G
    BY <1>6
  <2>2. ASSUME NEW k \in G PROVE k + 1 \in G
    <3> SUFFICES ASSUME k + 1 <= n PROVE T[k + 1] \in Nat
      OBVIOUS
    <3>1. k \in 0..n /\ k < n /\ T[k] \in Nat /\ k * b \in Nat
      BY MulNat
    <3>2. Pow2[k * b] \in Nat
      BY <3>1, Pow2Nat
    <3>3. k + 1 \in 1..n
      BY <3>1
    <3>4. d[k + 1] \in Nat
      BY <3>3
    <3>5. Pow2[k * b] * d[k + 1] \in Nat
      BY <3>2, <3>4, MulNat
    <3>6. T[k + 1] = T[k] + Pow2[k * b] * d[k + 1]
      BY <3>1, <1>7
    <3>7. T[k + 1] \in Nat
      <4>1. T[k] + Pow2[k * b] * d[k + 1] \in Nat
        BY <3>1, <3>5, AddNat
      <4> QED BY <3>6, <4>1
    <3> QED BY <3>7
  <2>3. G \in SUBSET Nat
    OBVIOUS
  <2>4. G = Nat
    <3> HIDE DEF G
    <3> QED BY <2>1, <2>2, <2>3, Inductive
  <2> QED BY <2>4
<1>9. Number(b, d) = T[n]
  BY <1>1 DEF Number, T
<1> QED BY <1>6, <1>7, <1>8, <1>9 DEF T


\* Digits below Pow2[b] make numbers that k digits hold.
LEMMA SumsBelow ==
  ASSUME NEW b \in Nat, NEW n \in Nat, NEW d \in [1..n -> Nat],
         \A i \in 1..n : d[i] < Pow2[b]
  PROVE  \A k \in 0..n : Sums(b, d)[k] < Pow2[k * b]
<1> DEFINE s == Sums(b, d)
           G == {k \in Nat : k <= n => s[k] < Pow2[k * b]}
<1>a. /\ s[0] = 0
      /\ \A k \in 0..n : k < n => s[k + 1] = s[k] + Pow2[k * b] * d[k + 1]
      /\ \A k \in 0..n : s[k] \in Nat
  BY SumsUnrolled
<1> HIDE DEF s
<1>1. 0 \in G
  <2>1. s[0] = 0 /\ 0 * b = 0
    BY <1>a
  <2> QED BY <2>1, Powers
<1>2. ASSUME NEW k \in G PROVE k + 1 \in G
  <2> SUFFICES ASSUME k + 1 <= n PROVE s[k + 1] < Pow2[(k + 1) * b]
    OBVIOUS
  <2>1. k \in 0..n /\ k < n /\ s[k] < Pow2[k * b] /\ k * b \in Nat /\ k + 1 \in 1..n
    BY MulNat
  <2> HIDE DEF G
  <2>2. s[k] \in Nat /\ s[k + 1] = s[k] + Pow2[k * b] * d[k + 1]
    BY <1>a, <2>1
  <2>3. (k + 1) * b = k * b + b
    BY <2>1
  <2>4. Pow2[(k + 1) * b] = Pow2[k * b] * Pow2[b]
    BY <2>1, <2>3, Pow2Plus
  <2>5. Pow2[k * b] \in Nat /\ Pow2[b] \in Nat /\ d[k + 1] \in Nat /\ d[k + 1] < Pow2[b]
    BY <2>1, Pow2Nat
  <2> QED BY <2>1, <2>2, <2>4, <2>5, RoomForDigit
<1>3. G \in SUBSET Nat
  OBVIOUS
<1>4. G = Nat
  <2> HIDE DEF G
  <2> QED BY <1>1, <1>2, <1>3, Inductive
<1>5. \A k \in Nat : k <= n => s[k] < Pow2[k * b]
  BY <1>4
<1> HIDE DEF G
<1>6. \A k \in 0..n : s[k] < Pow2[k * b]
  BY <1>5
<1> QED BY <1>6 DEF s

\* The number of i + m digits is that of the first i and that of the next m, e.
SliceLaw(b, n, d, i, m, e) ==
  /\ d \in [1..n -> Nat]
  /\ e \in [1..m -> Nat]
  /\ i + m <= n
  /\ \A j \in 1..m : e[j] = d[i + j]
  => Sums(b, d)[i + m] = Sums(b, d)[i] + Pow2[i * b] * Sums(b, e)[m]

LEMMA SumsSlice ==
  ASSUME NEW b \in Nat, NEW n \in Nat, NEW i \in Nat, NEW m \in Nat, NEW d, NEW e
  PROVE  SliceLaw(b, n, d, i, m, e)
<1> SUFFICES ASSUME d \in [1..n -> Nat], e \in [1..m -> Nat], i + m <= n,
                    \A j \in 1..m : e[j] = d[i + j]
             PROVE  Sums(b, d)[i + m] = Sums(b, d)[i] + Pow2[i * b] * Sums(b, e)[m]
  BY DEF SliceLaw
<1> DEFINE s == Sums(b, d)
           t == Sums(b, e)
           P == Pow2[i * b]
           G == {k \in Nat : k <= m => s[i + k] = s[i] + P * t[k]}
<1>a. i * b \in Nat /\ P \in Nat
  BY MulNat, Pow2Nat
<1>b. /\ s[0] = 0
      /\ \A k \in 0..n : k < n => s[k + 1] = s[k] + Pow2[k * b] * d[k + 1]
      /\ \A k \in 0..n : s[k] \in Nat
  BY SumsUnrolled
<1>c. /\ t[0] = 0
      /\ \A k \in 0..m : k < m => t[k + 1] = t[k] + Pow2[k * b] * e[k + 1]
      /\ \A k \in 0..m : t[k] \in Nat
  BY SumsUnrolled
<1> HIDE DEF s, t
<1>1. 0 \in G
  <2>1. t[0] = 0 /\ i \in 0..n /\ s[i] \in Nat
    BY <1>b, <1>c
  <2>2. P * 0 = 0 /\ i + 0 = i
    BY <1>a
  <2> HIDE DEF P
  <2>3. s[i + 0] = s[i] + P * t[0]
    BY <2>1, <2>2
  <2> QED BY <2>3
<1>2. ASSUME NEW k \in G PROVE k + 1 \in G
  <2> SUFFICES ASSUME k + 1 <= m PROVE s[i + (k + 1)] = s[i] + P * t[k + 1]
    OBVIOUS
  <2>1. k \in Nat /\ k <= m /\ s[i + k] = s[i] + P * t[k]
    OBVIOUS
  <2> HIDE DEF G
  <2>2. /\ k \in 0..m /\ k < m /\ k + 1 \in 1..m
        /\ i \in 0..n /\ i + k \in 0..n /\ i + k < n /\ (i + k) + 1 = i + (k + 1)
        /\ k * b \in Nat
    BY <2>1, MulNat
  <2>3. t[k] \in Nat /\ t[k + 1] = t[k] + Pow2[k * b] * e[k + 1]
    BY <1>c, <2>2
  <2>4. s[i] \in Nat /\ s[i + (k + 1)] = s[i + k] + Pow2[(i + k) * b] * d[i + (k + 1)]
    BY <1>b, <2>2
  <2>5. e[k + 1] = d[i + (k + 1)] /\ e[k + 1] \in Nat
    BY <2>2
  <2>6. (i + k) * b = i * b + k * b
    BY <2>1
  <2>7. Pow2[(i + k) * b] = P * Pow2[k * b] /\ Pow2[k * b] \in Nat
    <3>1. Pow2[i * b + k * b] = Pow2[i * b] * Pow2[k * b]
      BY <1>a, <2>2, Pow2Plus
    <3>2. Pow2[k * b] \in Nat
      BY <2>2, Pow2Nat
    <3> QED BY <2>6, <3>1, <3>2
  <2> DEFINE Q == Pow2[k * b]
             c == e[k + 1]
  <2> HIDE DEF P
  <2>8. P \in Nat /\ Q \in Nat /\ c \in Nat
    BY <1>a, <2>5, <2>7
  <2>9. s[i + (k + 1)] = (s[i] + P * t[k]) + (P * Q) * c
    BY <2>1, <2>4, <2>5, <2>7
  <2>10. t[k + 1] = t[k] + Q * c
    BY <2>3
  <2> HIDE DEF Q, c
  <2>11. (P * Q) * c = P * (Q * c)
    BY <2>8, MulAssoc
  <2>12. P * (t[k] + Q * c) = P * t[k] + P * (Q * c)
    BY <2>3, <2>8, MulNat, MulDist
  <2>13. P * t[k] \in Nat /\ P * (Q * c) \in Nat
    BY <2>3, <2>8, MulNat
  <2> QED BY <2>4, <2>9, <2>10, <2>11, <2>12, <2>13
<1>3. G \in SUBSET Nat
  OBVIOUS
<1>4. G = Nat
  <2> HIDE DEF G
  <2> QED BY <1>1, <1>2, <1>3, Inductive
<1>5. m \in G
  BY <1>4
<1>6. s[i + m] = s[i] + P * t[m]
  <2> HIDE DEF P
  <2> QED BY <1>5
<1> QED BY <1>6 DEF s, t


DigitsOf(b) == 0..(Pow2[b] - 1)

LEMMA NumberOf ==
  ASSUME NEW b \in Nat, NEW n \in Nat, NEW d \in [1..n -> DigitsOf(b)]
  PROVE  /\ d \in [1..n -> Nat]
         /\ \A i \in 1..n : d[i] < Pow2[b]
         /\ Number(b, d) = Sums(b, d)[n]
         /\ Number(b, d) \in Nat
         /\ Number(b, d) \in DigitsOf(n * b)
<1>1. d \in [1..n -> Nat] /\ \A i \in 1..n : d[i] < Pow2[b]
  BY Pow2Nat DEF DigitsOf
<1>2. Number(b, d) = Sums(b, d)[n] /\ \A k \in 0..n : Sums(b, d)[k] \in Nat
  BY <1>1, SumsUnrolled
<1>3. \A k \in 0..n : Sums(b, d)[k] < Pow2[k * b]
  BY <1>1, SumsBelow
<1>4. n \in 0..n /\ n * b \in Nat
  BY MulNat
<1>5. Number(b, d) \in Nat /\ Number(b, d) < Pow2[n * b] /\ Pow2[n * b] \in Nat
  BY <1>2, <1>3, <1>4, Pow2Nat
<1>6. Number(b, d) \in DigitsOf(n * b)
  BY <1>5 DEF DigitsOf
<1> QED BY <1>1, <1>2, <1>5, <1>6

\* A number is that of its first i digits, lo, and that of the others, hi.
HalvesLaw(b, d, i, m, lo, hi) ==
  /\ d \in [1..(i + m) -> DigitsOf(b)]
  /\ lo \in [1..i -> DigitsOf(b)]
  /\ \A j \in 1..i : lo[j] = d[j]
  /\ hi \in [1..m -> DigitsOf(b)]
  /\ \A j \in 1..m : hi[j] = d[i + j]
  => Number(b, d) = Number(b, lo) + Pow2[i * b] * Number(b, hi)

LEMMA NumberHalves ==
  ASSUME NEW b \in Nat, NEW i \in Nat, NEW m \in Nat, NEW d, NEW lo, NEW hi
  PROVE  HalvesLaw(b, d, i, m, lo, hi)
<1> DEFINE n == i + m
<1> SUFFICES ASSUME d \in [1..n -> DigitsOf(b)],
                    lo \in [1..i -> DigitsOf(b)], \A j \in 1..i : lo[j] = d[j],
                    hi \in [1..m -> DigitsOf(b)], \A j \in 1..m : hi[j] = d[i + j]
             PROVE  Number(b, d) = Number(b, lo) + Pow2[i * b] * Number(b, hi)
  BY DEF HalvesLaw
<1>a. n \in Nat /\ n = i + m
  OBVIOUS
<1> HIDE DEF n
<1>1. d \in [1..n -> Nat] /\ Number(b, d) = Sums(b, d)[n]
  BY <1>a, NumberOf
<1>2. lo \in [1..i -> Nat] /\ Number(b, lo) = Sums(b, lo)[i] /\ Number(b, lo) \in Nat
  BY NumberOf
<1>3. hi \in [1..m -> Nat] /\ Number(b, hi) = Sums(b, hi)[m]
  BY NumberOf
<1>4. Sums(b, d)[i + m] = Sums(b, d)[i] + Pow2[i * b] * Sums(b, hi)[m]
  <2>1. SliceLaw(b, n, d, i, m, hi)
    BY <1>a, SumsSlice
  <2> QED BY <1>a, <1>1, <1>3, <2>1 DEF SliceLaw
<1>5. Sums(b, d)[0 + i] = Sums(b, d)[0] + Pow2[0 * b] * Sums(b, lo)[i]
  <2>1. \A j \in 1..i : lo[j] = d[0 + j]
    OBVIOUS
  <2>2. 0 \in Nat /\ 0 + i <= n
    BY <1>a
  <2>3. SliceLaw(b, n, d, 0, i, lo)
    BY <1>a, <2>2, SumsSlice
  <2> QED BY <1>1, <1>2, <2>1, <2>2, <2>3 DEF SliceLaw
<1>6. Sums(b, d)[0] = 0
  BY <1>a, <1>1, SumsUnrolled
<1>7. 0 * b = 0 /\ 0 + i = i
  OBVIOUS
<1>8. Sums(b, d)[i] = 0 + 1 * Number(b, lo)
  BY <1>2, <1>5, <1>6, <1>7, Powers
<1>9. Sums(b, d)[i] = Number(b, lo)
  BY <1>2, <1>8
<1> QED BY <1>a, <1>1, <1>3, <1>4, <1>9

LEMMA OneDigit ==
  ASSUME NEW b \in Nat, NEW d \in [1..1 -> DigitsOf(b)]
  PROVE  Number(b, d) = d[1]
<1>1. d \in [1..1 -> Nat] /\ Number(b, d) = Sums(b, d)[1]
  BY NumberOf
<1>2. /\ Sums(b, d)[0] = 0
      /\ \A k \in 0..1 : k < 1 => Sums(b, d)[k + 1] = Sums(b, d)[k] + Pow2[k * b] * d[k + 1]
  BY <1>1, SumsUnrolled
<1>3. Sums(b, d)[0 + 1] = Sums(b, d)[0] + Pow2[0 * b] * d[0 + 1]
  BY <1>2
<1>4. 0 * b = 0 /\ 0 + 1 = 1 /\ d[1] \in Nat
  BY <1>1
<1>5. Sums(b, d)[1] = 0 + 1 * d[1]
  BY <1>2, <1>3, <1>4, Powers
<1> QED BY <1>1, <1>4, <1>5

\* The digits below the i-th and above it.
Below(d, i) == [j \in 1..i |-> d[j]]
Above(d, n, i) == [j \in 1..(n - i - 1) |-> d[i + 1 + j]]

LEMMA NumberAt ==
  ASSUME NEW b \in Nat, NEW n \in Nat, NEW d \in [1..n -> DigitsOf(b)],
         NEW i \in 0..(n - 1)
  PROVE  /\ Number(b, Below(d, i)) \in DigitsOf(i * b)
         /\ Number(b, Above(d, n, i)) \in DigitsOf((n - i - 1) * b)
         /\ Number(b, d) = Number(b, Below(d, i)) + Pow2[i * b] *
                             (d[i + 1] + Pow2[b] * Number(b, Above(d, n, i)))
<1> DEFINE m == n - i - 1
           r == [j \in 1..(m + 1) |-> d[i + j]]
           one == [j \in 1..1 |-> d[i + 1]]
<1>1. i \in Nat /\ m \in Nat /\ m + 1 \in Nat /\ i + (m + 1) = n
  OBVIOUS
<1>2. Below(d, i) \in [1..i -> DigitsOf(b)] /\ \A j \in 1..i : Below(d, i)[j] = d[j]
  BY DEF Below
<1>3. r \in [1..(m + 1) -> DigitsOf(b)] /\ \A j \in 1..(m + 1) : r[j] = d[i + j]
  OBVIOUS
<1>4. one \in [1..1 -> DigitsOf(b)] /\ \A j \in 1..1 : one[j] = r[j]
  OBVIOUS
<1>5. /\ Above(d, n, i) \in [1..m -> DigitsOf(b)]
      /\ \A j \in 1..m : Above(d, n, i)[j] = r[1 + j]
  <2>1. \A j \in 1..m : i + 1 + j \in 1..n /\ 1 + j \in 1..(m + 1) /\ i + (1 + j) = i + 1 + j
    OBVIOUS
  <2> QED BY <2>1 DEF Above
<1> HIDE DEF r, one
<1>6. Number(b, d) = Number(b, Below(d, i)) + Pow2[i * b] * Number(b, r)
  <2> HIDE DEF m
  <2>1. HalvesLaw(b, d, i, m + 1, Below(d, i), r)
    BY <1>1, NumberHalves
  <2> QED BY <1>1, <1>2, <1>3, <2>1 DEF HalvesLaw
<1>7. Number(b, r) = Number(b, one) + Pow2[1 * b] * Number(b, Above(d, n, i))
  <2>1. 1 \in Nat /\ 1 + m = m + 1
    BY <1>1
  <2> HIDE DEF m
  <2>2. HalvesLaw(b, r, 1, m, one, Above(d, n, i))
    BY <1>1, <2>1, NumberHalves
  <2> QED BY <1>3, <1>4, <1>5, <2>1, <2>2 DEF HalvesLaw
<1>8. Number(b, one) = d[i + 1]
  BY <1>4, OneDigit DEF one
<1>9. 1 * b = b
  OBVIOUS
<1>10. Number(b, Below(d, i)) \in DigitsOf(i * b)
  BY <1>1, <1>2, NumberOf
<1>11. Number(b, Above(d, n, i)) \in DigitsOf(m * b)
  <2> HIDE DEF m
  <2> QED BY <1>1, <1>5, NumberOf
<1> QED BY <1>6, <1>7, <1>8, <1>9, <1>10, <1>11


LEMMA DigitOfNumber ==
  ASSUME NEW b \in Nat, NEW n \in Nat, NEW d \in [1..n -> DigitsOf(b)],
         NEW i \in 0..(n - 1)
  PROVE  Digit(b, i, Number(b, d)) = d[i + 1]
<1> DEFINE lo == Number(b, Below(d, i))
           hi == Number(b, Above(d, n, i))
<1>1. /\ lo \in DigitsOf(i * b)
      /\ hi \in DigitsOf((n - i - 1) * b)
      /\ Number(b, d) = lo + Pow2[i * b] * (d[i + 1] + Pow2[b] * hi)
  BY NumberAt
<1> HIDE DEF lo, hi
<1>2. i * b \in Nat
  BY MulNat
<1>3. Pow2[i * b] \in Nat /\ Pow2[b] \in Nat
  BY <1>2, Pow2Nat
<1>4. lo \in Nat /\ lo < Pow2[i * b] /\ hi \in Nat
  BY <1>1, <1>3 DEF DigitsOf
<1>5. d[i + 1] \in DigitsOf(b)
  OBVIOUS
<1>6. d[i + 1] \in Nat /\ d[i + 1] < Pow2[b]
  BY <1>3, <1>5 DEF DigitsOf
<1>7. ((lo + Pow2[i * b] * (d[i + 1] + Pow2[b] * hi)) \div Pow2[i * b]) % Pow2[b] = d[i + 1]
  <2> DEFINE P == Pow2[i * b]
             B == Pow2[b]
             c == d[i + 1]
  <2>1. P \in Nat /\ B \in Nat /\ c \in Nat /\ c < B /\ lo \in Nat /\ lo < P /\ hi \in Nat
    BY <1>3, <1>4, <1>6
  <2> HIDE DEF P, B, c
  <2>2. ((lo + P * (c + B * hi)) \div P) % B = c
    <3>1. DigitLaw(P, lo, B, c, hi)
      BY <2>1, DigitAt
    <3> QED BY <2>1, <3>1 DEF DigitLaw
  <2> QED BY <2>2 DEF P, B, c
<1> QED BY <1>1, <1>7 DEF Digit

LEMMA DigitType ==
  ASSUME NEW b \in Nat, NEW i \in Nat, NEW v \in Nat
  PROVE  Digit(b, i, v) \in DigitsOf(b)
<1>1. i * b \in Nat
  BY MulNat
<1>2. Pow2[i * b] \in Nat /\ Pow2[i * b] > 0 /\ Pow2[b] \in Nat /\ Pow2[b] > 0
  BY <1>1, Pow2Nat
<1>3. v \div Pow2[i * b] \in Nat
  BY <1>2, DivMod
<1> QED BY <1>2, <1>3, DivMod DEF Digit, DigitsOf

\* The digits of a number make it again.
DigitsIn(b, n, v) == [k \in 1..n |-> Digit(b, k - 1, v)]

LEMMA NumberOfDigits ==
  ASSUME NEW b \in Nat, NEW n \in Nat, NEW v \in DigitsOf(n * b)
  PROVE  /\ DigitsIn(b, n, v) \in [1..n -> DigitsOf(b)]
         /\ Number(b, DigitsIn(b, n, v)) = v
<1> DEFINE d == DigitsIn(b, n, v)
           s == Sums(b, d)
           G == {k \in Nat : k <= n => s[k] = v % Pow2[k * b]}
<1>1. n * b \in Nat /\ Pow2[n * b] \in Nat /\ v \in Nat /\ v < Pow2[n * b]
  BY MulNat, Pow2Nat DEF DigitsOf
<1>2. d \in [1..n -> DigitsOf(b)]
  <2>1. \A k \in 1..n : Digit(b, k - 1, v) \in DigitsOf(b)
    BY <1>1, DigitType
  <2> QED BY <2>1 DEF DigitsIn
<1>3. d \in [1..n -> Nat] /\ Number(b, d) = s[n]
  BY <1>2, NumberOf
<1>4. /\ s[0] = 0
      /\ \A k \in 0..n : k < n => s[k + 1] = s[k] + Pow2[k * b] * d[k + 1]
  BY <1>3, SumsUnrolled
<1>5. \A k \in 0..n : k < n => d[k + 1] = (v \div Pow2[k * b]) % Pow2[b]
  <2> SUFFICES ASSUME NEW k \in 0..n, k < n PROVE d[k + 1] = (v \div Pow2[k * b]) % Pow2[b]
    OBVIOUS
  <2>1. k + 1 \in 1..n /\ (k + 1) - 1 = k
    OBVIOUS
  <2>2. d[k + 1] = Digit(b, k, v)
    BY <2>1 DEF DigitsIn
  <2> QED BY <2>2 DEF Digit
<1> HIDE DEF s, d
<1>6. 0 \in G
  <2>1. v % 1 = 0 /\ 0 * b = 0
    BY <1>1
  <2> QED BY <2>1, <1>4, Powers
<1>7. ASSUME NEW k \in G PROVE k + 1 \in G
  <2> SUFFICES ASSUME k + 1 <= n PROVE s[k + 1] = v % Pow2[(k + 1) * b]
    OBVIOUS
  <2>1. k \in 0..n /\ k < n /\ s[k] = v % Pow2[k * b] /\ k * b \in Nat
    BY MulNat
  <2> HIDE DEF G
  <2>2. (k + 1) * b = k * b + b
    BY <2>1
  <2>3. Pow2[(k + 1) * b] = Pow2[k * b] * Pow2[b]
    BY <2>1, <2>2, Pow2Plus
  <2>4. Pow2[k * b] \in Nat /\ Pow2[k * b] > 0 /\ Pow2[b] \in Nat /\ Pow2[b] > 0
    BY <2>1, Pow2Nat
  <2>5. v % (Pow2[k * b] * Pow2[b]) =
          (v % Pow2[k * b]) + Pow2[k * b] * ((v \div Pow2[k * b]) % Pow2[b])
    BY <1>1, <2>4, DigitMore
  <2> QED BY <1>4, <1>5, <2>1, <2>3, <2>5
<1>8. G = Nat
  <2>1. G \in SUBSET Nat
    OBVIOUS
  <2> HIDE DEF G
  <2> QED BY <1>6, <1>7, <2>1, Inductive
<1>9. s[n] = v % Pow2[n * b]
  <2>1. n \in G
    BY <1>8
  <2> QED BY <2>1
<1>10. v % Pow2[n * b] = v
  BY <1>1
<1> QED BY <1>2, <1>3, <1>9, <1>10 DEF d


-----------------------------------------------------------------------------
(* The bits of a word, and of a word among others.                         *)

\* s is the weight of a bit, h what the bits above it count to.
LEMMA BitParts ==
  ASSUME NEW s \in Nat, s > 0, NEW h \in Nat, h > 0, NEW v \in Nat, v < s * (2 * h)
  PROVE  /\ v % s \in Nat /\ v % s < s
         /\ (v \div s) % 2 \in {0, 1}
         /\ (v \div s) \div 2 \in Nat /\ (v \div s) \div 2 < h
         /\ v = (v % s) + s * (((v \div s) % 2) + 2 * ((v \div s) \div 2))
<1> DEFINE e == v \div s
           l == v % s
<1>1. e \in Nat /\ l \in Nat /\ l < s /\ v = s * e + l
  BY DivMod
<1> HIDE DEF e, l
<1>2. e % 2 \in {0, 1} /\ e \div 2 \in Nat /\ e = (e % 2) + 2 * (e \div 2)
  BY <1>1
<1>3. e < 2 * h
  <2> SUFFICES ASSUME 2 * h <= e PROVE FALSE
    BY <1>1
  <2>1. s * (2 * h) <= s * e
    BY <1>1, MulMono
  <2>2. s * e \in Nat /\ s * (2 * h) \in Nat
    BY <1>1, MulNat
  <2> QED BY <1>1, <2>1, <2>2
<1>4. e \div 2 < h
  BY <1>1, <1>2, <1>3
<1> QED BY <1>1, <1>2, <1>4 DEF e, l

LEMMA Regroup ==
  ASSUME NEW lo \in Nat, NEW p \in Nat, NEW l \in Nat, NEW s \in Nat, NEW c \in Nat,
         NEW h \in Nat, NEW k \in Nat, NEW hi \in Nat
  PROVE  lo + p * ((l + s * (c + 2 * h)) + (s * (2 * k)) * hi)
           = (lo + p * l) + (p * s) * (c + 2 * (h + k * hi))
OBVIOUS

PlacedLaw(lo, p, l, s, c, h, k, hi) ==
  lo < p /\ l < s /\ c < 2
  => ((lo + p * ((l + s * (c + 2 * h)) + (s * (2 * k)) * hi)) \div (p * s)) % 2 = c

LEMMA BitPlaced ==
  ASSUME NEW lo \in Nat, NEW p \in Nat, NEW l \in Nat, NEW s \in Nat,
         NEW c \in Nat, NEW h \in Nat, NEW k \in Nat, NEW hi \in Nat
  PROVE  PlacedLaw(lo, p, l, s, c, h, k, hi)
<1> SUFFICES ASSUME lo < p, l < s, c < 2
    PROVE  ((lo + p * ((l + s * (c + 2 * h)) + (s * (2 * k)) * hi)) \div (p * s)) % 2 = c
  BY DEF PlacedLaw
<1>1. lo + p * l < p * s /\ lo + p * l \in Nat /\ p * s \in Nat
  BY RoomForDigit, MulNat
<1>2. 2 \in Nat /\ h + k * hi \in Nat
  BY MulNat
<1>3. DigitLaw(p * s, lo + p * l, 2, c, h + k * hi)
  BY <1>1, <1>2, DigitAt
<1>4. (((lo + p * l) + (p * s) * (c + 2 * (h + k * hi))) \div (p * s)) % 2 = c
  BY <1>1, <1>2, <1>3 DEF DigitLaw
<1> QED BY <1>2, <1>4, Regroup

LEMMA BitReplaced ==
  ASSUME NEW lo \in Nat, NEW p \in Nat, NEW s \in Nat, NEW v \in Nat, NEW r \in Nat,
         NEW c \in {0, 1}, NEW d \in {0, 1}
  PROVE  lo + p * ((v + s * (d - c)) + r) = (lo + p * (v + r)) + (p * s) * (d - c)
<1>1. CASE d = c
  BY <1>1
<1>2. CASE d = 1 /\ c = 0
  BY <1>2
<1>3. CASE d = 0 /\ c = 1
  BY <1>3
<1> QED BY <1>1, <1>2, <1>3


-----------------------------------------------------------------------------
(* The operations on words.                                                *)

LEMMA Widths ==
  /\ ByteBits \in Nat /\ ByteBits > 0
  /\ WordBytes \in Nat /\ WordBytes > 0
  /\ WordCount \in Nat /\ WordCount > 0
  /\ WordBits \in Nat /\ WordBits > 0
  /\ NarrowBits \in Nat /\ NarrowBits = WordCount * WordBits
  /\ Word = DigitsOf(WordBits)
  /\ Bytes = DigitsOf(ByteBits)
<1>1. /\ ByteBits \in Nat /\ ByteBits > 0
      /\ WordBytes \in Nat /\ WordBytes > 0
      /\ WordCount \in Nat /\ WordCount > 0
  BY WordsAssumption
<1>2. WordBits \in Nat /\ WordBits > 0
  BY <1>1 DEF WordBits
<1>3. WordCount * WordBits \in Nat
  BY <1>1, <1>2
<1> QED BY <1>1, <1>2, <1>3 DEF NarrowBits, Word, Bytes, DigitsOf

\* A bit number is split into that of a word and that of a bit in it.
LEMMA BitIndex ==
  ASSUME NEW n \in Nat, NEW bit \in 0..(n * WordBits - 1)
  PROVE  /\ bit \div WordBits \in 0..(n - 1)
         /\ bit % WordBits \in 0..(WordBits - 1)
         /\ bit = (bit \div WordBits) * WordBits + (bit % WordBits)
<1> DEFINE b == WordBits
           q == bit \div b
           r == bit % b
<1>1. b \in Nat /\ b > 0 /\ n * b \in Nat
  BY Widths, MulNat
<1> HIDE DEF b
<1>2. bit \in Nat /\ bit < n * b
  BY <1>1 DEF b
<1>3. q \in Nat /\ r \in Nat /\ r < b /\ bit = b * q + r
  BY <1>1, <1>2, DivMod
<1> HIDE DEF q, r
<1>4. q < n
  <2> SUFFICES ASSUME n <= q PROVE FALSE
    BY <1>3
  <2>1. b * n <= b * q /\ b * n = n * b
    BY <1>1, <1>3, MulMono, MulComm
  <2>2. b * q \in Nat
    BY <1>1, <1>3, MulNat
  <2> QED BY <1>1, <1>2, <1>3, <2>1, <2>2
<1>5. b * q = q * b
  BY <1>1, <1>3, MulComm
<1> QED BY <1>1, <1>3, <1>4, <1>5 DEF b, q, r

\* The weights of a bit in its word and in the whole integer.
LEMMA BitWeights ==
  ASSUME NEW n \in Nat, NEW bit \in 0..(n * WordBits - 1)
  PROVE  LET i == bit \div WordBits
             s == bit % WordBits
             k == WordBits - s - 1
         IN  /\ Pow2[s] \in Nat /\ Pow2[s] > 0
             /\ Pow2[k] \in Nat /\ Pow2[k] > 0
             /\ i * WordBits \in Nat /\ Pow2[i * WordBits] \in Nat
             /\ Pow2[WordBits] = Pow2[s] * (2 * Pow2[k])
             /\ bit \in Nat /\ Pow2[bit] = Pow2[i * WordBits] * Pow2[s]
<1> DEFINE i == bit \div WordBits
           s == bit % WordBits
           k == WordBits - s - 1
<1>1. /\ i \in 0..(n - 1)
      /\ s \in 0..(WordBits - 1)
      /\ bit = i * WordBits + s
  BY BitIndex
<1>2. WordBits \in Nat
  BY Widths
<1> HIDE DEF i, s
<1>3. s \in Nat /\ i \in Nat /\ k \in Nat /\ k + 1 \in Nat /\ WordBits = s + (k + 1)
  BY <1>1, <1>2
<1> HIDE DEF k
<1>4. i * WordBits \in Nat
  BY <1>2, <1>3, MulNat
<1>5. Pow2[s + (k + 1)] = Pow2[s] * Pow2[k + 1] /\ Pow2[k + 1] = 2 * Pow2[k]
  BY <1>3, Powers, Pow2Plus
<1>6. Pow2[i * WordBits + s] = Pow2[i * WordBits] * Pow2[s]
  BY <1>3, <1>4, Pow2Plus
<1>7. /\ Pow2[s] \in Nat /\ Pow2[s] > 0
      /\ Pow2[k] \in Nat /\ Pow2[k] > 0
      /\ Pow2[i * WordBits] \in Nat
  BY <1>3, <1>4, Pow2Nat
<1>8. Pow2[WordBits] = Pow2[s] * (2 * Pow2[k])
  BY <1>3, <1>5
<1>9. bit \in Nat /\ Pow2[bit] = Pow2[i * WordBits] * Pow2[s]
  BY <1>1, <1>3, <1>4, <1>6, AddNat
<1> QED BY <1>4, <1>7, <1>8, <1>9 DEF i, s, k

LEMMA BitDigit ==
  ASSUME NEW i \in Nat, NEW v
  PROVE  Digit(1, i, v) = (v \div Pow2[i]) % 2
<1>1. Pow2[0 + 1] = 2 * 1 /\ i * 1 = i
  BY Powers
<1> QED BY <1>1 DEF Digit


LEMMA BitAccess ==
  ASSUME NEW n \in Nat, NEW x \in [1..n -> Word],
         NEW bit \in 0..(n * WordBits - 1), NEW val \in BOOLEAN
  PROVE  LET y == SetBit(x, bit, val)
             old == Digit(1, bit, Value(x))
         IN  /\ y \in [1..n -> Word]
             /\ GetBit(x, bit) <=> (old = 1)
             /\ Value(y) = Value(x) + Pow2[bit] * ((IF val THEN 1 ELSE 0) - old)
             /\ Equal(y, x) <=> (val = (old = 1))
<1> DEFINE y == SetBit(x, bit, val)
           old == Digit(1, bit, Value(x))
           i == bit \div WordBits
           sh == bit % WordBits
           S == Pow2[sh]
           H == Pow2[WordBits - sh - 1]
           P == Pow2[i * WordBits]
           v == x[i + 1]
           l == v % S
           c == (v \div S) % 2
           h == (v \div S) \div 2
           d == IF val THEN 1 ELSE 0
           lo == Number(WordBits, Below(x, i))
           hi == Number(WordBits, Above(x, n, i))
<1>1. i \in 0..(n - 1) /\ sh \in 0..(WordBits - 1) /\ sh \in Nat /\ i + 1 \in 1..n
  BY BitIndex, Widths
<1>2. /\ S \in Nat /\ S > 0 /\ H \in Nat /\ H > 0 /\ P \in Nat
      /\ i * WordBits \in Nat
      /\ Pow2[WordBits] = S * (2 * H)
      /\ bit \in Nat /\ Pow2[bit] = P * S
  BY BitWeights
<1>3. v \in Nat /\ v < S * (2 * H) /\ x \in [1..n -> DigitsOf(WordBits)]
  <2>1. v \in DigitsOf(WordBits) /\ x \in [1..n -> DigitsOf(WordBits)]
    BY <1>1, Widths
  <2>2. S * (2 * H) \in Nat
    BY <1>2, MulNat
  <2> HIDE DEF S, H, v
  <2> QED BY <1>2, <2>1, <2>2 DEF DigitsOf
<1>4. /\ l \in Nat /\ l < S /\ c \in {0, 1} /\ h \in Nat /\ h < H
      /\ v = l + S * (c + 2 * h)
  <2> HIDE DEF S, H, v
  <2> QED BY <1>2, <1>3, BitParts
<1>5. d \in {0, 1}
  OBVIOUS
<1>6. Digit(1, sh, v) = c
  BY <1>1, BitDigit
<1>7. y = [x EXCEPT ![i + 1] = v + S * (d - c)]
  BY <1>6 DEF SetBit
<1>8. GetBit(x, bit) <=> c = 1
  BY <1>6 DEF GetBit
<1>9. /\ lo \in Nat /\ lo < P /\ hi \in Nat
      /\ Number(WordBits, x) = lo + P * (v + (S * (2 * H)) * hi)
  <2>1. /\ lo \in DigitsOf(i * WordBits)
        /\ hi \in DigitsOf((n - i - 1) * WordBits)
        /\ Number(WordBits, x) = lo + P * (v + Pow2[WordBits] * hi)
    BY <1>1, <1>3, Widths, NumberAt
  <2>2. lo \in Nat /\ lo < P /\ hi \in Nat
    <3> HIDE DEF lo, hi
    <3> QED BY <1>2, <2>1 DEF DigitsOf
  <2> QED BY <1>2, <2>1, <2>2
<1> HIDE DEF lo, hi, y
<1>10. old = c
  <2> HIDE DEF S, H, P, v, l, c, h
  <2>1. ((lo + P * ((l + S * (c + 2 * h)) + (S * (2 * H)) * hi)) \div (P * S)) % 2 = c
    <3>1. /\ lo \in Nat /\ P \in Nat /\ l \in Nat /\ S \in Nat
          /\ c \in Nat /\ c < 2 /\ h \in Nat /\ H \in Nat /\ hi \in Nat
      BY <1>2, <1>4, <1>9
    <3>2. PlacedLaw(lo, P, l, S, c, h, H, hi)
      BY <3>1, BitPlaced
    <3> QED BY <1>4, <1>9, <3>1, <3>2 DEF PlacedLaw
  <2>2. old = (Number(WordBits, x) \div Pow2[bit]) % 2
    BY <1>2, BitDigit DEF Value
  <2> QED BY <1>2, <1>4, <1>9, <2>1, <2>2
<1>11. v + S * (d - c) \in DigitsOf(WordBits)
  <2> HIDE DEF S, H, P, v, l, c, h, d
  <2>1. v + S * (d - c) = l + S * (d + 2 * h)
    <3>1. CASE d = c
      <4>1. d - c = 0 /\ S * 0 = 0
        BY <1>2, <1>4, <3>1
      <4> QED BY <1>4, <3>1, <4>1
    <3>2. CASE d = 1 /\ c = 0
      BY <1>2, <1>4, <3>2
    <3>3. CASE d = 0 /\ c = 1
      BY <1>2, <1>4, <3>3
    <3> QED BY <1>4, <1>5, <3>1, <3>2, <3>3
  <2>2. d + 2 * h \in Nat /\ d + 2 * h < 2 * H /\ 2 * H \in Nat
    BY <1>2, <1>4, <1>5
  <2>3. l + S * (d + 2 * h) < S * (2 * H)
    BY <1>2, <1>4, <2>2, RoomForDigit
  <2>4. l + S * (d + 2 * h) \in Nat /\ S * (2 * H) \in Nat
    BY <1>2, <1>4, <2>2, MulNat, AddNat
  <2> QED BY <1>2, <2>1, <2>3, <2>4 DEF DigitsOf
<1>12. y \in [1..n -> DigitsOf(WordBits)] /\ y[i + 1] = v + S * (d - c)
  BY <1>1, <1>3, <1>7, <1>11
<1>13. Number(WordBits, y) = lo + P * ((v + S * (d - c)) + (S * (2 * H)) * hi)
  <2>1. Below(y, i) = Below(x, i)
    BY <1>1, <1>7 DEF Below
  <2>2. Above(y, n, i) = Above(x, n, i)
    BY <1>1, <1>7 DEF Above
  <2>3. Number(WordBits, y) = Number(WordBits, Below(y, i)) + P *
            (y[i + 1] + Pow2[WordBits] * Number(WordBits, Above(y, n, i)))
    BY <1>1, <1>12, Widths, NumberAt
  <2> QED BY <1>2, <1>12, <2>1, <2>2, <2>3 DEF lo, hi
<1>14. Value(y) = Value(x) + Pow2[bit] * (d - c)
  <2> DEFINE r == (S * (2 * H)) * hi
  <2>1. r \in Nat
    BY <1>2, <1>9, MulNat
  <2> HIDE DEF S, H, P, v, c, d, r
  <2>2. lo + P * ((v + S * (d - c)) + r) = (lo + P * (v + r)) + (P * S) * (d - c)
    BY <1>2, <1>3, <1>4, <1>5, <1>9, <2>1, BitReplaced
  <2>3. Number(WordBits, y) = Number(WordBits, x) + Pow2[bit] * (d - c)
    BY <1>2, <1>9, <1>13, <2>2 DEF r
  <2> QED BY <2>3 DEF Value
<1>15. Equal(y, x) <=> d = c
  <2>1. DOMAIN y = 1..n
    BY <1>12
  <2>2. Equal(y, x) <=> y[i + 1] = v
    BY <1>1, <1>7, <2>1 DEF Equal
  <2>3. v + S * (d - c) = v <=> d = c
    <3> HIDE DEF S, v, c, d
    <3>1. CASE d = c
      BY <1>2, <1>3, <1>4, <3>1
    <3>2. CASE d = 1 /\ c = 0
      BY <1>2, <1>3, <3>2
    <3>3. CASE d = 0 /\ c = 1
      BY <1>2, <1>3, <3>3
    <3> QED BY <1>4, <1>5, <3>1, <3>2, <3>3
  <2> QED BY <1>12, <2>2, <2>3
<1>16. d = c <=> (val = (c = 1))
  <2> HIDE DEF c
  <2>1. CASE val
    BY <1>4, <2>1
  <2>2. CASE ~val
    BY <1>4, <2>2
  <2> QED BY <2>1, <2>2
<1>17. y \in [1..n -> Word]
  BY <1>12, Widths
<1> HIDE DEF c, d, old
<1>18. /\ y \in [1..n -> Word]
       /\ GetBit(x, bit) <=> (old = 1)
       /\ Value(y) = Value(x) + Pow2[bit] * (d - old)
       /\ Equal(y, x) <=> (val = (old = 1))
  BY <1>8, <1>10, <1>14, <1>15, <1>16, <1>17
<1> QED BY <1>18 DEF y, old, d


LEMMA Joined ==
  ASSUME NEW high \in Narrow, NEW low \in Narrow
  PROVE  FromTwo(high, low) \in Wide
<1> DEFINE n == WordCount
           x == FromTwo(high, low)
<1>1. n \in Nat /\ NarrowBits = n * WordBits /\ WordBits \in Nat
  BY Widths
<1>2. high \in [1..n -> Word] /\ low \in [1..n -> Word]
  BY DEF Narrow
<1>3. /\ Len(high) = n /\ high \in Seq(Word)
      /\ Len(low) = n /\ low \in Seq(Word)
  BY <1>1, <1>2, Length
<1>4. x = [j \in 1..(n + n) |-> IF j <= n THEN high[j] ELSE low[j - n]]
  <2>1. /\ high \o low \in Seq(Word)
        /\ Len(high \o low) = Len(high) + Len(low)
        /\ \A j \in 1..(Len(high) + Len(low)) :
              (high \o low)[j] = IF j <= Len(high) THEN high[j] ELSE low[j - Len(high)]
    BY <1>3, ConcatProperties
  <2>2. /\ Len(high \o low) = n + n
        /\ \A j \in 1..(n + n) :
              (high \o low)[j] = IF j <= n THEN high[j] ELSE low[j - n]
    BY <1>3, <2>1
  <2>3. high \o low \in [1..(n + n) -> Word]
    BY <2>1, <2>2, LenProperties
  <2> HIDE DEF n
  <2> QED BY <2>2, <2>3 DEF FromTwo
<1>5. x \in [1..(n + n) -> Word]
  <2> SUFFICES ASSUME NEW j \in 1..(n + n)
               PROVE  (IF j <= n THEN high[j] ELSE low[j - n]) \in Word
    BY <1>4
  <2>1. j <= n => j \in 1..n
    BY <1>1
  <2>2. ~(j <= n) => j - n \in 1..n
    BY <1>1
  <2> QED BY <1>2, <2>1, <2>2
<1>6. n + n = 2 * n
  BY <1>1
<1> QED BY <1>5, <1>6 DEF Wide

-----------------------------------------------------------------------------
(* Words in memory and on the wire.                                        *)

ByteSeqs == [1..WordBytes -> Bytes]

LEMMA Mirrored ==
  ASSUME NEW S, NEW n \in Nat, NEW s \in [1..n -> S]
  PROVE  /\ Reverse(s) = [k \in 1..n |-> s[n - k + 1]]
         /\ Reverse(s) \in [1..n -> S]
         /\ Reverse(Reverse(s)) = s
<1>1. Len(s) = n
  BY Length
<1>2. Reverse(s) = [k \in 1..n |-> s[n - k + 1]]
  BY <1>1 DEF Reverse
<1>3. \A k \in 1..n : n - k + 1 \in 1..n /\ n - (n - k + 1) + 1 = k
  OBVIOUS
<1>4. Reverse(s) \in [1..n -> S]
  BY <1>2, <1>3
<1>5. Len(Reverse(s)) = n
  BY <1>4, Length
<1>6. Reverse(Reverse(s)) = [k \in 1..n |-> Reverse(s)[n - k + 1]]
  BY <1>5 DEF Reverse
<1>7. Reverse(Reverse(s)) = [k \in 1..n |-> s[k]]
  BY <1>2, <1>3, <1>6
<1> QED BY <1>2, <1>4, <1>7

LEMMA Memory ==
  ASSUME NEW o, NEW s \in ByteSeqs
  PROVE  InMemory(o, s) \in ByteSeqs /\ InMemory(o, InMemory(o, s)) = s
BY Mirrored, Widths DEF InMemory, ByteSeqs

LEMMA WordDigits ==
  /\ ByteSeqs = [1..WordBytes -> DigitsOf(ByteBits)]
  /\ Word = DigitsOf(WordBytes * ByteBits)
<1>1. WordBytes * ByteBits = WordBits
  BY Widths DEF WordBits
<1> QED BY <1>1, Widths DEF ByteSeqs

LEMMA WordOfBytes ==
  ASSUME NEW o, NEW x \in Word
  PROVE  BytesOf(o, x) \in ByteSeqs /\ WordOf(o, BytesOf(o, x)) = x
<1> DEFINE d == DigitsIn(ByteBits, WordBytes, x)
<1>1. d \in ByteSeqs /\ Number(ByteBits, d) = x
  BY Widths, WordDigits, NumberOfDigits
<1>2. BytesOf(o, x) = InMemory(o, d)
  BY DEF BytesOf, DigitsIn
<1> QED BY <1>1, <1>2, Memory DEF WordOf

LEMMA BytesOfWord ==
  ASSUME NEW o, NEW s \in ByteSeqs
  PROVE  WordOf(o, s) \in Word /\ BytesOf(o, WordOf(o, s)) = s
<1> DEFINE d == InMemory(o, s)
<1>1. d \in ByteSeqs /\ InMemory(o, d) = s
  BY Memory
<1> HIDE DEF d
<1>2. d \in [1..WordBytes -> DigitsOf(ByteBits)]
  BY <1>1, WordDigits
<1>3. Number(ByteBits, d) \in Word
  BY <1>2, Widths, WordDigits, NumberOf
<1>4. \A i \in 0..(WordBytes - 1) : Digit(ByteBits, i, Number(ByteBits, d)) = d[i + 1]
  BY <1>2, Widths, DigitOfNumber
<1>5. [k \in 1..WordBytes |-> Digit(ByteBits, k - 1, Number(ByteBits, d))] = d
  <2>1. \A k \in 1..WordBytes : k - 1 \in 0..(WordBytes - 1) /\ (k - 1) + 1 = k
    BY Widths
  <2>2. \A k \in 1..WordBytes : Digit(ByteBits, k - 1, Number(ByteBits, d)) = d[k]
    BY <1>4, <2>1
  <2> QED BY <1>2, <2>2
<1>6. WordOf(o, s) = Number(ByteBits, d)
  BY DEF WordOf, d
<1> QED BY <1>1, <1>3, <1>5, <1>6 DEF BytesOf

\* htobe64, whose result has the bytes of the word in order of their weight.
LEMMA SwappedWord ==
  ASSUME NEW o \in Orders, NEW x \in Word
  PROVE  /\ Swapped(o, x) \in Word
         /\ BytesOf(o, Swapped(o, x)) = BytesOf("big", x)
         /\ Swapped(o, Swapped(o, x)) = x
<1>1. BytesOf("big", x) \in ByteSeqs /\ WordOf("big", BytesOf("big", x)) = x
  BY WordOfBytes
<1>2. Swapped(o, x) \in Word /\ BytesOf(o, Swapped(o, x)) = BytesOf("big", x)
  BY <1>1, BytesOfWord DEF Swapped
<1>3. CASE o = "big"
  BY <1>1, <1>2, <1>3 DEF Swapped
<1>4. CASE o = "little"
  <2> DEFINE y == Swapped(o, x)
             dy == [k \in 1..WordBytes |-> Digit(ByteBits, k - 1, y)]
             dx == [k \in 1..WordBytes |-> Digit(ByteBits, k - 1, x)]
  <2>1. dy = Reverse(dx)
    BY <1>2, <1>4 DEF BytesOf, InMemory
  <2>2. dx \in ByteSeqs /\ Number(ByteBits, dx) = x
    BY Widths, WordDigits, NumberOfDigits DEF DigitsIn
  <2> HIDE DEF dx
  <2>3. Reverse(Reverse(dx)) = dx
    BY <2>2, Mirrored, Widths DEF ByteSeqs
  <2>4. BytesOf("big", y) = Reverse(dy)
    BY DEF BytesOf, InMemory
  <2> HIDE DEF dy, y
  <2>5. WordOf(o, BytesOf("big", y)) = Number(ByteBits, dx)
    BY <1>4, <2>1, <2>3, <2>4 DEF WordOf, InMemory
  <2> QED BY <1>2, <2>2, <2>5 DEF Swapped, y
<1> QED BY <1>2, <1>3, <1>4 DEF Orders


\* A host reads the words that another one sent.
LEMMA Sent ==
  ASSUME NEW o \in Orders, NEW p \in Orders, NEW n \in Nat, NEW x \in [1..n -> Word]
  PROVE  Deserialized(p, Serialized(o, x)) = x
<1> DEFINE m == WordBytes
           s == Serialized(o, x)
<1>1. m \in Nat /\ m > 0 /\ n * m \in Nat
  BY Widths, MulNat
<1>2. Len(x) = n
  BY Length
<1>3. s = [j \in 1..(n * m) |->
             BytesOf(o, Swapped(o, x[((j - 1) \div m) + 1]))[((j - 1) % m) + 1]]
  BY <1>2 DEF Serialized
<1>4. Len(s) = n * m /\ (n * m) \div m = n
  <2>1. Len(s) = n * m
    <3> DEFINE S == {s[j] : j \in 1..(n * m)}
    <3>1. s \in [1..(n * m) -> S]
      BY <1>3
    <3> HIDE DEF S, s
    <3> QED BY <1>1, <3>1, Length
  <2> HIDE DEF m
  <2>2. (m * n + 0) \div m = n
    BY <1>1, DivModUnique
  <2>3. m * n + 0 = n * m
    BY <1>1
  <2> QED BY <2>1, <2>2, <2>3
<1>5. ASSUME NEW i \in 1..n PROVE Piece(s, i) = BytesOf("big", x[i])
  <2>1. x[i] \in Word
    OBVIOUS
  <2>2. /\ BytesOf("big", x[i]) \in ByteSeqs
        /\ BytesOf(o, Swapped(o, x[i])) = BytesOf("big", x[i])
    BY <2>1, WordOfBytes, SwappedWord
  <2>3. ASSUME NEW k \in 1..m PROVE s[(i - 1) * m + k] = BytesOf("big", x[i])[k]
    <3> DEFINE j == (i - 1) * m + k
    <3> HIDE DEF m, s
    <3>1. i - 1 \in Nat /\ k - 1 \in Nat /\ k - 1 < m
      BY <1>1
    <3>2. /\ (m * (i - 1) + (k - 1)) \div m = i - 1
          /\ (m * (i - 1) + (k - 1)) % m = k - 1
      BY <1>1, <3>1, DivModUnique
    <3>3. m * (i - 1) = (i - 1) * m /\ (i - 1) * m \in Nat
      BY <1>1, <3>1, MulComm, MulNat
    <3>4. j - 1 = m * (i - 1) + (k - 1)
      BY <1>1, <3>1, <3>3
    <3>5. j \in 1..(n * m)
      <4>1. m * (i - 1) + m = m * i
        BY <1>1
      <4>2. m * i <= m * n /\ m * n = n * m
        BY <1>1, MulMono, MulComm
      <4>3. m * i \in Nat
        BY <1>1, MulNat
      <4> QED BY <1>1, <3>1, <3>3, <4>1, <4>2, <4>3
    <3> HIDE DEF j
    <3>6. s[j] = BytesOf(o, Swapped(o, x[((j - 1) \div m) + 1]))[((j - 1) % m) + 1]
      BY <1>3, <3>5
    <3>7. ((j - 1) \div m) + 1 = i /\ ((j - 1) % m) + 1 = k
      BY <1>1, <3>1, <3>2, <3>4
    <3>8. s[j] = BytesOf("big", x[i])[k]
      BY <2>2, <3>6, <3>7
    <3> QED BY <3>8 DEF j
  <2>4. Piece(s, i) = [k \in 1..m |-> BytesOf("big", x[i])[k]]
    <3> HIDE DEF s
    <3> QED BY <2>3 DEF Piece
  <2> QED BY <2>2, <2>4 DEF ByteSeqs
<1>6. Deserialized(p, s) = [i \in 1..n |-> Swapped(p, WordOf(p, Piece(s, i)))]
  <2> HIDE DEF s
  <2> QED BY <1>4 DEF Deserialized
<1>7. ASSUME NEW i \in 1..n PROVE Swapped(p, WordOf(p, Piece(s, i))) = x[i]
  <2>1. x[i] \in Word
    OBVIOUS
  <2>2. Swapped(p, WordOf(p, BytesOf("big", x[i]))) = x[i]
    BY <2>1, SwappedWord DEF Swapped
  <2> QED BY <1>5, <2>2
<1> HIDE DEF s
<1>8. Deserialized(p, s) = [i \in 1..n |-> x[i]]
  BY <1>6, <1>7
<1> QED BY <1>8 DEF s

LEMMA HashedType ==
  ASSUME NEW o, NEW d \in Digests
  PROVE  /\ \A i \in 1..WordCount : Piece(d, i) \in ByteSeqs
         /\ Hashed(o, d) \in Narrow
<1> DEFINE m == WordBytes
           n == WordCount
<1>1. m \in Nat /\ m > 0 /\ n \in Nat /\ n * m \in Nat
  BY Widths, MulNat
<1>2. ASSUME NEW i \in 1..n PROVE Piece(d, i) \in ByteSeqs
  <2>1. ASSUME NEW k \in 1..m PROVE d[(i - 1) * m + k] \in Bytes
    <3> HIDE DEF m, n
    <3>1. (i - 1) * m + m = i * m /\ (i - 1) * m \in Nat
      BY <1>1
    <3>2. m * i <= m * n /\ m * i = i * m /\ m * n = n * m /\ i * m \in Nat
      BY <1>1, MulMono, MulComm, MulNat
    <3>3. (i - 1) * m + k \in 1..(n * m)
      BY <1>1, <3>1, <3>2
    <3> QED BY <3>3 DEF Digests, n, m
  <2> QED BY <2>1 DEF Piece, ByteSeqs
<1>3. \A i \in 1..n : WordOf(o, Piece(d, i)) \in Word
  BY <1>2, BytesOfWord
<1> QED BY <1>2, <1>3 DEF Hashed, Narrow


-----------------------------------------------------------------------------
(* Leading zeros.                                                          *)

LEMMA Pow2Mono ==
  ASSUME NEW m \in Nat, NEW n \in Nat, m <= n
  PROVE  Pow2[m] <= Pow2[n]
<1>1. n - m \in Nat /\ m + (n - m) = n
  OBVIOUS
<1>2. Pow2[m + (n - m)] = Pow2[m] * Pow2[n - m]
  BY <1>1, Pow2Plus
<1>3. Pow2[m] \in Nat /\ Pow2[n - m] \in Nat /\ Pow2[n - m] >= 1
  BY <1>1, Pow2Nat
<1>4. Pow2[m] * 1 <= Pow2[m] * Pow2[n - m]
  BY <1>3, MulMono
<1> QED BY <1>1, <1>2, <1>3, <1>4

\* z of the width bits of n come before the first that is set.
StartsWith(width, n, z) ==
  /\ z \in 0..width
  /\ n < Pow2[width - z]
  /\ z < width => n >= Pow2[width - z - 1]

LEMMA ZerosAre ==
  ASSUME NEW width \in Nat, NEW n \in DigitsOf(width)
  PROVE  /\ StartsWith(width, n, Zeros(width, n))
         /\ \A z : StartsWith(width, n, z) => z = Zeros(width, n)
<1>1. n \in Nat /\ n < Pow2[width]
  BY Pow2Nat DEF DigitsOf
<1>2. \E z : StartsWith(width, n, z)
  <2> DEFINE T == {k \in Nat : n < Pow2[k]}
  <2>1. width \in T /\ T \in SUBSET Nat
    BY <1>1
  <2>2. PICK k \in T : \A j \in T : k <= j
    <3> HIDE DEF T
    <3>1. T # {}
      BY <2>1
    <3> QED BY <2>1, <3>1, LeastElement
  <2>3. k \in Nat /\ k <= width /\ n < Pow2[k]
    BY <2>1, <2>2
  <2>4. k > 0 => n >= Pow2[k - 1]
    <3> SUFFICES ASSUME k > 0 PROVE n >= Pow2[k - 1]
      OBVIOUS
    <3>1. k - 1 \in Nat /\ k - 1 \notin T
      BY <2>2, <2>3
    <3>2. Pow2[k - 1] \in Nat
      BY <3>1, Pow2Nat
    <3> QED BY <1>1, <3>1, <3>2
  <2> HIDE DEF T
  <2>5. width - (width - k) = k /\ width - k \in 0..width
    BY <2>3
  <2>6. StartsWith(width, n, width - k)
    BY <2>3, <2>4, <2>5 DEF StartsWith
  <2> QED BY <2>6
<1>3. ASSUME NEW y, NEW z, StartsWith(width, n, y), StartsWith(width, n, z), y < z
      PROVE  FALSE
  <2>1. y \in Nat /\ z \in Nat /\ y < width /\ z <= width
    BY <1>3 DEF StartsWith
  <2>2. width - z \in Nat /\ width - y - 1 \in Nat /\ width - z <= width - y - 1
    BY <1>3, <2>1
  <2>3. Pow2[width - z] <= Pow2[width - y - 1]
    BY <2>2, Pow2Mono
  <2>4. n < Pow2[width - z] /\ n >= Pow2[width - y - 1]
    BY <1>3, <2>1 DEF StartsWith
  <2>5. Pow2[width - z] \in Nat /\ Pow2[width - y - 1] \in Nat
    BY <2>2, Pow2Nat
  <2> QED BY <1>1, <2>3, <2>4, <2>5
<1>4. Zeros(width, n) = CHOOSE z \in 0..width : StartsWith(width, n, z)
  BY DEF Zeros, StartsWith
<1>5. \E z \in 0..width : StartsWith(width, n, z)
  BY <1>2 DEF StartsWith
<1>6. StartsWith(width, n, Zeros(width, n))
  BY <1>4, <1>5
<1>7. ASSUME NEW z, StartsWith(width, n, z) PROVE z = Zeros(width, n)
  <2>1. z \in Int /\ Zeros(width, n) \in Int
    BY <1>6, <1>7 DEF StartsWith
  <2>2. ~(z < Zeros(width, n)) /\ ~(Zeros(width, n) < z)
    BY <1>3, <1>6, <1>7
  <2> QED BY <2>1, <2>2
<1> QED BY <1>6, <1>7

\* The first element that is not zero.
IsFirst(x, n, i) ==
  i \in 1..n /\ x[i] # 0 /\ \A j \in 1..(i - 1) : x[j] = 0

LEMMA FirstIs ==
  ASSUME NEW n \in Nat, NEW x \in [1..n -> Nat], \E i \in 1..n : x[i] # 0
  PROVE  /\ IsFirst(x, n, First(x))
         /\ \A i : IsFirst(x, n, i) => i = First(x)
<1> DEFINE T == {i \in 1..n : x[i] # 0}
<1>1. PICK i \in T : \A j \in T : i <= j
  <2>1. T \in SUBSET Nat /\ T # {}
    OBVIOUS
  <2> HIDE DEF T
  <2> QED BY <2>1, LeastElement
<1>2. IsFirst(x, n, i)
  BY <1>1 DEF IsFirst
<1>3. ASSUME NEW a, NEW b, IsFirst(x, n, a), IsFirst(x, n, b) PROVE a = b
  <2>1. a \in 1..n /\ b \in 1..n
    BY <1>3 DEF IsFirst
  <2>2. ~(a < b)
    BY <1>3, <2>1 DEF IsFirst
  <2>3. ~(b < a)
    BY <1>3, <2>1 DEF IsFirst
  <2> QED BY <2>1, <2>2, <2>3
<1>4. First(x) = CHOOSE k \in 1..n : x[k] # 0 /\ \A j \in 1..(k - 1) : x[j] = 0
  BY DEF First
<1>5. IsFirst(x, n, First(x))
  BY <1>2, <1>4 DEF IsFirst
<1> QED BY <1>3, <1>5

LEMMA NumberZero ==
  ASSUME NEW b \in Nat, NEW n \in Nat, NEW d \in [1..n -> DigitsOf(b)]
  PROVE  Number(b, d) = 0 <=> \A i \in 1..n : d[i] = 0
<1>1. \A i \in Nat : Digit(b, i, 0) = 0
  <2> SUFFICES ASSUME NEW i \in Nat PROVE Digit(b, i, 0) = 0
    OBVIOUS
  <2>1. i * b \in Nat
    BY MulNat
  <2>2. Pow2[i * b] \in Nat /\ Pow2[i * b] > 0 /\ Pow2[b] \in Nat /\ Pow2[b] > 0
    BY <2>1, Pow2Nat
  <2>3. ASSUME NEW p \in Nat, p > 0 PROVE 0 \div p = 0 /\ 0 % p = 0
    <3>1. (p * 0 + 0) \div p = 0 /\ (p * 0 + 0) % p = 0
      BY <2>3, DivModUnique
    <3> QED BY <3>1
  <2> QED BY <2>2, <2>3 DEF Digit
<1>2. ASSUME Number(b, d) = 0, NEW i \in 1..n PROVE d[i] = 0
  <2>1. i - 1 \in 0..(n - 1) /\ (i - 1) + 1 = i /\ i - 1 \in Nat
    OBVIOUS
  <2>2. Digit(b, i - 1, Number(b, d)) = d[(i - 1) + 1]
    BY <2>1, DigitOfNumber
  <2> QED BY <1>1, <1>2, <2>1, <2>2
<1>3. ASSUME \A i \in 1..n : d[i] = 0 PROVE Number(b, d) = 0
  <2>1. n * b \in Nat
    BY MulNat
  <2>2. 0 \in DigitsOf(n * b)
    BY <2>1, Pow2Nat DEF DigitsOf
  <2>3. Number(b, DigitsIn(b, n, 0)) = 0
    BY <2>2, NumberOfDigits
  <2>4. DigitsIn(b, n, 0) = d
    <3>1. \A k \in 1..n : k - 1 \in Nat
      OBVIOUS
    <3> QED BY <1>1, <1>3, <3>1 DEF DigitsIn
  <2> QED BY <2>3, <2>4
<1> QED BY <1>2, <1>3


\* clz256 counts the zeros of the integer of which w[0] is the highest word.
LEMMA ClzOfNumber ==
  ASSUME NEW n \in Nat, NEW x \in [1..n -> Word]
  PROVE  clz256(x) = Zeros(n * WordBits, Number(WordBits, Reverse(x)))
<1> DEFINE b == WordBits
           r == Reverse(x)
           N == Number(b, r)
<1>1. b \in Nat /\ b > 0 /\ n * b \in Nat
  BY Widths, MulNat
<1>2. x \in [1..n -> DigitsOf(b)] /\ x \in [1..n -> Nat] /\ Len(x) = n /\ DOMAIN x = 1..n
  <2>1. x \in [1..n -> DigitsOf(b)]
    BY Widths
  <2> HIDE DEF b
  <2> QED BY <1>1, <2>1, Length, NumberOf
<1>3. r = [k \in 1..n |-> x[n - k + 1]] /\ r \in [1..n -> DigitsOf(b)]
  <2> HIDE DEF b
  <2>1. Reverse(x) = [k \in 1..n |-> x[n - k + 1]]
    BY <1>2 DEF Reverse
  <2>2. \A k \in 1..n : n - k + 1 \in 1..n
    OBVIOUS
  <2> QED BY <1>2, <2>1, <2>2
<1>4. N \in DigitsOf(n * b)
  <2> HIDE DEF b, r
  <2> QED BY <1>1, <1>3, NumberOf
<1>5. CASE \A i \in 1..n : x[i] = 0
  <2>1. clz256(x) = n * b
    BY <1>2, <1>5 DEF clz256
  <2>2. \A k \in 1..n : r[k] = 0
    BY <1>3, <1>5
  <2> HIDE DEF b, r
  <2>3. N = 0
    BY <1>1, <1>3, <2>2, NumberZero
  <2>4. StartsWith(n * b, N, n * b)
    <3>1. n * b - n * b = 0 /\ n * b \in 0..(n * b)
      BY <1>1
    <3>2. Pow2[n * b - n * b] = 1
      BY <3>1, Powers
    <3>3. ~ (n * b < n * b)
      BY <1>1
    <3> QED BY <2>3, <3>1, <3>2, <3>3 DEF StartsWith
  <2> HIDE DEF N
  <2>5. Zeros(n * b, N) = n * b
    BY <1>1, <1>4, <2>4, ZerosAre
  <2> QED BY <2>1, <2>5 DEF N, r, b
<1>6. CASE \E i \in 1..n : x[i] # 0
  <2> DEFINE f == First(x)
             v == x[f]
             z == Zeros(b, v)
             i == n - f
             P == Pow2[i * b]
             lo == Number(b, Below(r, i))
             Z == (f - 1) * b + z
  <2>1. f \in 1..n /\ v # 0 /\ \A j \in 1..(f - 1) : x[j] = 0
    BY <1>2, <1>6, FirstIs DEF IsFirst
  <2>2. clz256(x) = Z
    BY <1>2, <1>6 DEF clz256, LeadingZeros
  <2> HIDE DEF b, r, f
  <2>3. v \in DigitsOf(b) /\ v \in Nat /\ v > 0
    BY <1>2, <2>1
  <2>4. StartsWith(b, v, z)
    BY <1>1, <2>3, ZerosAre
  <2> HIDE DEF v, z
  <2>5. z \in 0..b /\ z \in Nat /\ v < Pow2[b - z] /\ (z < b => v >= Pow2[b - z - 1])
    BY <1>1, <2>4 DEF StartsWith
  <2>6. z < b
    <3> SUFFICES ASSUME z = b PROVE FALSE
      BY <1>1, <2>5
    <3>1. b - z = 0
      BY <1>1
    <3>2. Pow2[b - z] = 1
      BY <3>1, Powers
    <3> QED BY <2>3, <2>5, <3>2
  <2>7. i \in 0..(n - 1) /\ i + 1 \in 1..n /\ r[i + 1] = v
    <3>1. i \in 0..(n - 1) /\ i + 1 \in 1..n /\ n - (i + 1) + 1 = f
      BY <2>1
    <3> QED BY <1>3, <3>1 DEF v
  <2>8. Number(b, Above(r, n, i)) = 0
    <3>1. n - i - 1 \in Nat /\ n - i - 1 = f - 1
      BY <2>1
    <3>2. ASSUME NEW j \in 1..(n - i - 1) PROVE r[i + 1 + j] = 0 /\ r[i + 1 + j] \in DigitsOf(b)
      <4>1. i + 1 + j \in 1..n /\ n - (i + 1 + j) + 1 \in 1..(f - 1)
        BY <2>1
      <4> QED BY <1>3, <2>1, <4>1
    <3>3. /\ Above(r, n, i) \in [1..(n - i - 1) -> DigitsOf(b)]
          /\ \A j \in 1..(n - i - 1) : Above(r, n, i)[j] = 0
      BY <3>2 DEF Above
    <3> HIDE DEF i
    <3> QED BY <1>1, <3>1, <3>3, NumberZero
  <2>9. i * b \in Nat /\ P \in Nat
    BY <1>1, <2>7, MulNat, Pow2Nat
  <2>10. N = lo + P * v /\ lo \in Nat /\ lo < P
    <3>1. /\ lo \in DigitsOf(i * b)
          /\ N = lo + P * (r[i + 1] + Pow2[b] * Number(b, Above(r, n, i)))
      <4> HIDE DEF i
      <4> QED BY <1>1, <1>3, <2>7, NumberAt
    <3>2. Pow2[b] * 0 = 0
      BY <1>1, Pow2Nat
    <3>3. lo \in Nat /\ lo < P
      <4> HIDE DEF lo
      <4> QED BY <2>9, <3>1 DEF DigitsOf
    <3> QED BY <2>3, <2>7, <2>8, <3>1, <3>2, <3>3
  <2> HIDE DEF lo, N
  <2>11. /\ Z \in 0..(n * b) /\ Z < n * b
         /\ n * b - Z = i * b + (b - z)
         /\ n * b - Z - 1 = i * b + (b - z - 1)
    <3>1. n = i + f /\ f \in Nat /\ i \in Nat /\ f - 1 \in Nat
      BY <2>1, <2>7
    <3> HIDE DEF i
    <3>2. n * b = i * b + f * b /\ (f - 1) * b + b = f * b
      BY <1>1, <3>1
    <3> DEFINE A == (f - 1) * b
               F == f * b
               I == i * b
               W == n * b
    <3>3. A \in Nat /\ F \in Nat /\ I \in Nat /\ W \in Nat
      BY <1>1, <2>9, <3>1, MulNat
    <3>4. W = I + F /\ A + b = F
      BY <3>2
    <3> HIDE DEF A, F, I, W
    <3>5. /\ A + z \in 0..W /\ A + z < W
          /\ W - (A + z) = I + (b - z)
          /\ W - (A + z) - 1 = I + (b - z - 1)
      BY <1>1, <2>5, <2>6, <3>3, <3>4
    <3> QED BY <3>5 DEF A, I, W
  <2>12. /\ Pow2[i * b + (b - z)] = P * Pow2[b - z]
         /\ Pow2[i * b + (b - z - 1)] = P * Pow2[b - z - 1]
         /\ Pow2[b - z] \in Nat /\ Pow2[b - z - 1] \in Nat
    <3>1. b - z \in Nat /\ b - z - 1 \in Nat
      BY <1>1, <2>5, <2>6
    <3> QED BY <2>9, <3>1, Pow2Plus, Pow2Nat
  <2> HIDE DEF P, i
  <2>13. N < P * Pow2[b - z]
    BY <2>3, <2>5, <2>9, <2>10, <2>12, RoomForDigit
  <2>14. N >= P * Pow2[b - z - 1]
    <3>1. P * Pow2[b - z - 1] <= P * v
      BY <2>3, <2>5, <2>6, <2>9, <2>12, MulMono
    <3>2. P * v \in Nat /\ P * Pow2[b - z - 1] \in Nat
      BY <2>3, <2>9, <2>12, MulNat
    <3> QED BY <2>10, <3>1, <3>2
  <2> HIDE DEF Z
  <2>15. StartsWith(n * b, N, Z)
    BY <2>11, <2>12, <2>13, <2>14 DEF StartsWith
  <2>16. Zeros(n * b, N) = Z
    BY <1>1, <1>4, <2>15, ZerosAre
  <2> QED BY <2>2, <2>16 DEF N, r, b
<1> QED BY <1>5, <1>6

\* n groups of m digits make a number of n digits.
GroupsOf(b, n, m, d) ==
  [i \in 1..n |-> Number(b, [k \in 1..m |-> d[(i - 1) * m + k]])]

LEMMA Grouped ==
  ASSUME NEW b \in Nat, NEW n \in Nat, NEW m \in Nat, NEW d \in [1..(n * m) -> DigitsOf(b)]
  PROVE  Number(b, d) = Number(m * b, GroupsOf(b, n, m, d))
<1> DEFINE g == GroupsOf(b, n, m, d)
           e(i) == [k \in 1..m |-> d[(i - 1) * m + k]]
           s == Sums(b, d)
           t == Sums(m * b, g)
           T == {k \in Nat : k <= n => s[k * m] = t[k]}
<1>1. n * m \in Nat /\ m * b \in Nat
  BY MulNat
<1>2. ASSUME NEW k \in Nat, k < n
      PROVE  /\ k * m \in Nat /\ k * m + m = (k + 1) * m /\ (k + 1) * m <= n * m
             /\ (k + 1) * m \in Nat
  <2>1. k * m + m = (k + 1) * m /\ k + 1 \in Nat
    OBVIOUS
  <2>2. m * (k + 1) <= m * n
    BY <1>2, <2>1, MulMono
  <2>3. m * (k + 1) = (k + 1) * m /\ m * n = n * m
    BY <2>1, MulComm
  <2>4. k * m \in Nat /\ (k + 1) * m \in Nat
    BY <2>1, MulNat
  <2> QED BY <2>1, <2>2, <2>3, <2>4
<1>3. ASSUME NEW k \in Nat, k < n
      PROVE  /\ e(k + 1) \in [1..m -> DigitsOf(b)]
             /\ \A j \in 1..m : e(k + 1)[j] = d[k * m + j]
  <2>1. (k + 1) - 1 = k
    OBVIOUS
  <2>2. \A j \in 1..m : k * m + j \in 1..(n * m)
    BY <1>1, <1>2, <1>3
  <2>3. \A j \in 1..m : d[k * m + j] \in DigitsOf(b)
    BY <2>2
  <2> QED BY <2>1, <2>3
<1>4. g \in [1..n -> DigitsOf(m * b)]
  <2> SUFFICES ASSUME NEW i \in 1..n PROVE Number(b, e(i)) \in DigitsOf(m * b)
    BY DEF GroupsOf
  <2>1. i - 1 \in Nat /\ i - 1 < n /\ (i - 1) + 1 = i
    OBVIOUS
  <2>2. e(i) \in [1..m -> DigitsOf(b)]
    BY <1>3, <2>1
  <2> HIDE DEF e
  <2> QED BY <2>2, NumberOf
<1>5. /\ d \in [1..(n * m) -> Nat] /\ Number(b, d) = s[n * m]
      /\ g \in [1..n -> Nat] /\ Number(m * b, g) = t[n]
  <2> HIDE DEF g
  <2> QED BY <1>1, <1>4, NumberOf
<1>6. s[0] = 0 /\ \A k \in 0..(n * m) : s[k] \in Nat
  BY <1>1, <1>5, SumsUnrolled
<1>7. /\ t[0] = 0
      /\ \A k \in 0..n : k < n => t[k + 1] = t[k] + Pow2[k * (m * b)] * g[k + 1]
  <2> DEFINE c == m * b
  <2>1. c \in Nat
    BY <1>1
  <2> HIDE DEF c, g
  <2>2. /\ Sums(c, g)[0] = 0
        /\ \A k \in 0..n :
              k < n => Sums(c, g)[k + 1] = Sums(c, g)[k] + Pow2[k * c] * g[k + 1]
    BY <1>5, <2>1, SumsUnrolled
  <2> QED BY <2>2 DEF c
<1>8. ASSUME NEW k \in Nat, k < n
      PROVE  s[(k + 1) * m] = s[k * m] + Pow2[k * (m * b)] * g[k + 1]
  <2>1. e(k + 1) \in [1..m -> DigitsOf(b)] /\ \A j \in 1..m : e(k + 1)[j] = d[k * m + j]
    BY <1>3, <1>8
  <2>2. g[k + 1] = Number(b, e(k + 1))
    <3>1. k + 1 \in 1..n
      BY <1>8
    <3> QED BY <3>1 DEF GroupsOf
  <2> HIDE DEF e, g
  <2>3. e(k + 1) \in [1..m -> Nat] /\ Number(b, e(k + 1)) = Sums(b, e(k + 1))[m]
    BY <2>1, NumberOf
  <2>4. SliceLaw(b, n * m, d, k * m, m, e(k + 1))
    BY <1>1, <1>2, <1>8, SumsSlice
  <2>5. s[k * m + m] = s[k * m] + Pow2[(k * m) * b] * Sums(b, e(k + 1))[m]
    BY <1>2, <1>5, <1>8, <2>1, <2>3, <2>4 DEF SliceLaw
  <2>6. (k * m) * b = k * (m * b)
    BY MulAssoc
  <2> QED BY <1>2, <1>8, <2>2, <2>3, <2>5, <2>6
<1> HIDE DEF g, s, t
<1>9. 0 \in T
  <2>1. 0 * m = 0
    OBVIOUS
  <2> QED BY <1>6, <1>7, <2>1
<1>10. ASSUME NEW k \in T PROVE k + 1 \in T
  <2> SUFFICES ASSUME k + 1 <= n PROVE s[(k + 1) * m] = t[k + 1]
    OBVIOUS
  <2>1. k \in Nat /\ k < n /\ k \in 0..n /\ s[k * m] = t[k]
    OBVIOUS
  <2> HIDE DEF T
  <2> QED BY <1>7, <1>8, <2>1
<1>11. T = Nat
  <2>1. T \in SUBSET Nat
    OBVIOUS
  <2> HIDE DEF T
  <2> QED BY <1>9, <1>10, <2>1, Inductive
<1>12. s[n * m] = t[n]
  <2>1. n \in T
    BY <1>11
  <2> QED BY <2>1
<1> QED BY <1>5, <1>12 DEF g


-----------------------------------------------------------------------------
(* Digests.                                                                *)

LEMMA HashedNumber ==
  ASSUME NEW d \in Digests
  PROVE  Number(ByteBits, Reverse(d)) = Number(WordBits, Reverse(Hashed("big", d)))
<1> DEFINE n == WordCount
           m == WordBytes
           b == ByteBits
           h == Hashed("big", d)
           r == Reverse(d)
           g == GroupsOf(b, n, m, r)
<1>1. /\ n \in Nat /\ m \in Nat /\ m > 0 /\ b \in Nat /\ n * m \in Nat
      /\ Bytes = DigitsOf(b)
  BY Widths, MulNat
<1>2. d \in [1..(n * m) -> DigitsOf(b)]
  BY <1>1 DEF Digests
<1>3. /\ r = [k \in 1..(n * m) |-> d[n * m - k + 1]]
      /\ r \in [1..(n * m) -> DigitsOf(b)]
  <2> DEFINE c == n * m
             S == DigitsOf(b)
  <2>1. c \in Nat /\ d \in [1..c -> S]
    BY <1>1, <1>2
  <2> HIDE DEF c, S
  <2>2. Len(d) = c
    BY <2>1, Length
  <2>3. Reverse(d) = [k \in 1..c |-> d[c - k + 1]]
    BY <2>2 DEF Reverse
  <2>4. \A k \in 1..c : c - k + 1 \in 1..c
    BY <2>1
  <2>5. Reverse(d) \in [1..c -> S]
    BY <2>1, <2>3, <2>4
  <2> QED BY <2>3, <2>5 DEF c, S
<1>4. /\ h \in [1..n -> Word]
      /\ \A i \in 1..n : h[i] = WordOf("big", Piece(d, i)) /\ Piece(d, i) \in ByteSeqs
  BY HashedType DEF Hashed, Narrow
<1>5. Reverse(h) = [i \in 1..n |-> h[n - i + 1]]
  <2> HIDE DEF h, n
  <2>1. Len(h) = n
    BY <1>1, <1>4, Length
  <2> QED BY <2>1 DEF Reverse
<1>6. ASSUME NEW i \in 1..n PROVE g[i] = h[n - i + 1]
  <2> DEFINE j == n - i + 1
             p == Piece(d, j)
  <2>1. j \in 1..n
    BY <1>1
  <2>2. h[j] = WordOf("big", p) /\ p \in [1..m -> Bytes]
    <3> HIDE DEF h, j
    <3> QED BY <1>4, <2>1 DEF ByteSeqs
  <2>3. Reverse(p) = [k \in 1..m |-> p[m - k + 1]]
    <3> HIDE DEF p, m
    <3>1. Len(p) = m
      BY <1>1, <2>2, Length
    <3> QED BY <3>1 DEF Reverse
  <2>4. ASSUME NEW k \in 1..m PROVE r[(i - 1) * m + k] = p[m - k + 1]
    <3>1. m - k + 1 \in 1..m
      BY <1>1
    <3>2. p[m - k + 1] = d[(j - 1) * m + (m - k + 1)]
      BY <3>1 DEF Piece
    <3> HIDE DEF p, r, n, m, j
    <3> DEFINE a == (i - 1) * m
               c == (j - 1) * m
               l == n * m
    <3>3. a \in Nat /\ c \in Nat /\ l \in Nat
      <4>1. i - 1 \in Nat /\ j - 1 \in Nat
        BY <1>1, <2>1
      <4> QED BY <1>1, <4>1, MulNat
    <3>4. a + (c + m) = l
      <4>1. n = (i - 1) + ((j - 1) + 1)
        BY <1>1 DEF j
      <4>2. i - 1 \in Int /\ j - 1 \in Int /\ 1 * m = m
        BY <1>1, <2>1
      <4>3. ((i - 1) + ((j - 1) + 1)) * m = (i - 1) * m + ((j - 1) * m + 1 * m)
        BY <1>1, <4>2
      <4> QED BY <4>1, <4>2, <4>3
    <3> HIDE DEF a, c, l
    <3>5. a + k \in 1..l /\ l - (a + k) + 1 = c + (m - k + 1)
      BY <1>1, <3>3, <3>4
    <3>6. r[a + k] = d[l - (a + k) + 1]
      BY <1>3, <3>5 DEF l
    <3>7. r[a + k] = d[c + (m - k + 1)]
      BY <3>5, <3>6
    <3> QED BY <3>2, <3>7 DEF a, c
  <2>5. [k \in 1..m |-> r[(i - 1) * m + k]] = Reverse(p)
    <3> HIDE DEF p, r, m
    <3> QED BY <2>3, <2>4
  <2>6. g[i] = Number(b, [k \in 1..m |-> r[(i - 1) * m + k]])
    <3> HIDE DEF r
    <3> QED BY DEF GroupsOf
  <2>7. WordOf("big", p) = Number(b, Reverse(p))
    <3> HIDE DEF p
    <3> QED BY DEF WordOf, InMemory
  <2> HIDE DEF g, h, p
  <2> QED BY <2>2, <2>5, <2>6, <2>7
<1>7. g = Reverse(h)
  <2>1. g = [i \in 1..n |-> g[i]]
    <3> HIDE DEF r
    <3> QED BY DEF GroupsOf
  <2> HIDE DEF g, h
  <2> QED BY <1>5, <1>6, <2>1
<1>8. Number(b, r) = Number(m * b, g)
  <2> HIDE DEF r, b, n, m
  <2> QED BY <1>1, <1>3, Grouped
<1>9. m * b = WordBits
  BY <1>1, MulComm DEF WordBits
<1> QED BY <1>7, <1>8, <1>9

LEMMA WordZero ==
  ASSUME NEW o, NEW s \in ByteSeqs
  PROVE  WordOf(o, s) = 0 <=> \A k \in 1..WordBytes : s[k] = 0
<1> DEFINE t == InMemory(o, s)
           m == WordBytes
<1>1. m \in Nat /\ s \in [1..m -> Bytes]
  BY Widths DEF ByteSeqs
<1>2. t \in [1..WordBytes -> DigitsOf(ByteBits)]
  BY Memory, WordDigits
<1>3. WordOf(o, s) = 0 <=> \A k \in 1..m : t[k] = 0
  <2> HIDE DEF t
  <2>1. Number(ByteBits, t) = 0 <=> \A k \in 1..m : t[k] = 0
    BY <1>2, Widths, NumberZero
  <2> QED BY <2>1 DEF WordOf, t
<1>4. CASE t = s
  BY <1>3, <1>4
<1>5. CASE t = Reverse(s)
  <2>1. Reverse(s) = [k \in 1..m |-> s[m - k + 1]]
    <3> HIDE DEF m
    <3>1. Len(s) = m
      BY <1>1, Length
    <3> QED BY <3>1 DEF Reverse
  <2>2. \A k \in 1..m : m - k + 1 \in 1..m /\ m - (m - k + 1) + 1 = k
    BY <1>1
  <2>3. (\A k \in 1..m : t[k] = 0) <=> \A k \in 1..m : s[k] = 0
    <3> HIDE DEF t, m
    <3>1. \A k \in 1..m : t[k] = s[m - k + 1]
      BY <1>5, <2>1
    <3>2. ASSUME \A k \in 1..m : t[k] = 0, NEW k \in 1..m PROVE s[k] = 0
      BY <2>2, <3>1, <3>2
    <3>3. ASSUME \A k \in 1..m : s[k] = 0, NEW k \in 1..m PROVE t[k] = 0
      BY <2>2, <3>1, <3>3
    <3> QED BY <3>2, <3>3
  <2> QED BY <1>3, <2>3
<1>6. t = s \/ t = Reverse(s)
  BY DEF InMemory
<1> QED BY <1>4, <1>5, <1>6


\* Hashed by a big-endian host, words count the zeros of the digest; hashed by
\* any host, they count the same whole words of them.
LEMMA ZerosOfDigest ==
  ASSUME NEW d \in Digests, NEW o \in Orders
  PROVE  LET z == Zeros(NarrowBits, Number(ByteBits, Reverse(d)))
         IN  /\ clz256(Hashed("big", d)) = z
             /\ clz256(Hashed(o, d)) \div WordBits = z \div WordBits
<1> DEFINE n == WordCount
           b == WordBits
           x == Hashed("big", d)
           y == Hashed(o, d)
           z == Zeros(NarrowBits, Number(ByteBits, Reverse(d)))
<1>1. n \in Nat /\ b \in Nat /\ b > 0 /\ NarrowBits = n * b
  BY Widths
<1>2. x \in [1..n -> Word] /\ y \in [1..n -> Word]
  BY HashedType DEF Narrow
<1>3. clz256(x) = z
  <2>1. clz256(x) = Zeros(n * b, Number(b, Reverse(x)))
    <3> HIDE DEF x, n
    <3> QED BY <1>1, <1>2, ClzOfNumber
  <2> QED BY <1>1, <2>1, HashedNumber
<1>4. \A i \in 1..n : x[i] = 0 <=> y[i] = 0
  <2> SUFFICES ASSUME NEW i \in 1..n PROVE x[i] = 0 <=> y[i] = 0
    OBVIOUS
  <2>1. Piece(d, i) \in ByteSeqs
    BY HashedType
  <2>2. x[i] = WordOf("big", Piece(d, i)) /\ y[i] = WordOf(o, Piece(d, i))
    BY DEF Hashed
  <2> QED BY <2>1, <2>2, WordZero
<1>5. /\ x \in [1..n -> Nat] /\ y \in [1..n -> Nat]
      /\ x \in [1..n -> DigitsOf(b)] /\ y \in [1..n -> DigitsOf(b)]
      /\ Len(x) = n /\ DOMAIN x = 1..n /\ Len(y) = n /\ DOMAIN y = 1..n
  <2> HIDE DEF x, y, n, b
  <2>1. x \in [1..n -> DigitsOf(b)] /\ y \in [1..n -> DigitsOf(b)]
    BY <1>2, Widths DEF b
  <2>2. x \in [1..n -> Nat] /\ y \in [1..n -> Nat]
    BY <1>1, <2>1, NumberOf
  <2>3. Len(x) = n /\ Len(y) = n
    BY <1>1, <2>2, Length
  <2> QED BY <2>1, <2>2, <2>3
<1>6. CASE \A i \in 1..n : x[i] = 0
  <2>1. clz256(x) = n * b
    <3> HIDE DEF x
    <3> QED BY <1>5, <1>6 DEF clz256
  <2>2. clz256(y) = n * b
    <3> HIDE DEF x, y
    <3> QED BY <1>4, <1>5, <1>6 DEF clz256
  <2> QED BY <1>3, <2>1, <2>2
<1>7. CASE \E i \in 1..n : x[i] # 0
  <2> DEFINE f == First(x)
  <2> HIDE DEF x, y, n
  <2>1. IsFirst(x, n, f)
    BY <1>1, <1>5, <1>7, FirstIs
  <2>2. IsFirst(y, n, f) /\ \E i \in 1..n : y[i] # 0
    <3>1. f \in 1..n /\ \A j \in 1..(f - 1) : j \in 1..n
      BY <1>1, <2>1 DEF IsFirst
    <3> QED BY <1>4, <2>1, <3>1 DEF IsFirst
  <2>3. First(y) = f
    BY <1>1, <1>5, <2>2, FirstIs
  <2>4. clz256(x) = (f - 1) * b + Zeros(b, x[f]) /\ clz256(y) = (f - 1) * b + Zeros(b, y[f])
    BY <1>5, <1>7, <2>2, <2>3 DEF clz256, LeadingZeros
  <2> HIDE DEF f, b
  <2>5. f \in 1..n /\ f - 1 \in Nat /\ x[f] # 0 /\ y[f] # 0
    BY <1>1, <2>1, <2>2 DEF IsFirst
  <2>6. ASSUME NEW v \in DigitsOf(b), v # 0
        PROVE  ((f - 1) * b + Zeros(b, v)) \div b = f - 1
    <3> DEFINE k == Zeros(b, v)
    <3>1. StartsWith(b, v, k)
      BY <1>1, ZerosAre
    <3> HIDE DEF k
    <3>2. k \in 0..b /\ v < Pow2[b - k] /\ v \in Nat /\ v > 0
      BY <1>1, <2>6, <3>1, Pow2Nat DEF StartsWith, DigitsOf
    <3>3. k # b
      <4> SUFFICES ASSUME k = b PROVE FALSE
        OBVIOUS
      <4>1. b - k = 0
        BY <1>1
      <4>2. Pow2[b - k] = 1
        BY <4>1, Powers
      <4> QED BY <3>2, <4>2
    <3>4. k \in Nat /\ k < b
      BY <1>1, <3>2, <3>3
    <3>5. (b * (f - 1) + k) \div b = f - 1
      BY <1>1, <2>5, <3>4, DivModUnique
    <3>6. b * (f - 1) = (f - 1) * b
      BY <1>1, <2>5, MulComm
    <3> QED BY <3>5, <3>6 DEF k
  <2>7. x[f] \in DigitsOf(b) /\ y[f] \in DigitsOf(b)
    BY <1>5, <2>5
  <2>8. clz256(x) \div b = f - 1 /\ clz256(y) \div b = f - 1
    BY <2>4, <2>5, <2>6, <2>7
  <2> QED BY <1>3, <2>8 DEF x, y, b
<1> QED BY <1>3, <1>6, <1>7

-----------------------------------------------------------------------------
(* The state.                                                              *)

\* As long as the words are a digest's, they are what its host's SHA256 wrote.
HoldsDigest == digest # <<>> => w = Hashed(hasher, digest)

Inv == TypeOK /\ HoldsDigest

LEMMA Shape ==
  ASSUME TypeOK
  PROVE  \E n \in Nat :
            /\ n > 0 /\ w \in [1..n -> Word] /\ Len(w) = n
            /\ [1..n -> Word] \subseteq Narrow \cup Wide
            /\ n = WordCount => w \in Narrow
<1>1. WordCount \in Nat /\ WordCount > 0 /\ 2 * WordCount \in Nat /\ 2 * WordCount > 0
  BY Widths
<1>2. CASE w \in Narrow
  <2>1. w \in [1..WordCount -> Word]
    BY <1>2 DEF Narrow
  <2>2. Len(w) = WordCount
    BY <1>1, <2>1, Length
  <2> QED BY <1>1, <1>2, <2>1, <2>2 DEF Narrow
<1>3. CASE w \in Wide
  <2> DEFINE n == 2 * WordCount
  <2>1. w \in [1..n -> Word] /\ n \in Nat /\ n > 0 /\ n # WordCount
    BY <1>1, <1>3 DEF Wide
  <2>2. [1..n -> Word] \subseteq Narrow \cup Wide
    BY DEF Wide
  <2> HIDE DEF n
  <2>3. Len(w) = n
    BY <2>1, Length
  <2> QED BY <2>1, <2>2, <2>3
<1> QED BY <1>2, <1>3 DEF TypeOK

LEMMA InitInv == Init => Inv
<1> SUFFICES ASSUME Init PROVE Inv
  OBVIOUS
<1>1. 0 \in Word
  BY Widths, Pow2Nat DEF DigitsOf
<1>2. w \in Narrow
  BY <1>1 DEF Init, Narrow
<1> QED BY <1>2 DEF Init, Inv, TypeOK, HoldsDigest

LEMMA BecomesInv ==
  ASSUME Inv, NEW x \in Narrow \cup Wide, Becomes(x)
  PROVE  Inv'
BY DEF Becomes, Inv, TypeOK, HoldsDigest

LEMMA NextInv == Inv /\ [Next]_vars => Inv'
<1> SUFFICES ASSUME Inv, [Next]_vars PROVE Inv'
  OBVIOUS
<1>1. TypeOK
  BY DEF Inv
<1>2. PICK n \in Nat : /\ n > 0 /\ w \in [1..n -> Word] /\ Len(w) = n
                       /\ [1..n -> Word] \subseteq Narrow \cup Wide
                       /\ n = WordCount => w \in Narrow
  BY <1>1, Shape
<1>3. 0 \in Word
  BY Widths, Pow2Nat DEF DigitsOf
<1>4. CASE Reset
  <2>1. Zero(w) \in [1..n -> Word]
    BY <1>2, <1>3 DEF Zero
  <2> QED BY <1>2, <1>4, <2>1, BecomesInv DEF Reset
<1>5. ASSUME NEW v \in Word, Make(v) PROVE Inv'
  <2>1. FromU64(w, v) \in [1..n -> Word]
    BY <1>2, <1>3 DEF FromU64
  <2> QED BY <1>2, <1>5, <2>1, BecomesInv DEF Make
<1>6. ASSUME NEW bit \in Bits(w), NEW val \in BOOLEAN, Change(bit, val) PROVE Inv'
  <2>1. bit \in 0..(n * WordBits - 1)
    BY <1>2 DEF Bits
  <2>2. SetBit(w, bit, val) \in [1..n -> Word]
    BY <1>2, <2>1, BitAccess
  <2> QED BY <1>2, <1>6, <2>2, BecomesInv DEF Change
<1>7. ASSUME NEW low \in Narrow, Join(low) PROVE Inv'
  <2>1. w \in Narrow
    BY <1>2, <1>7 DEF Join
  <2>2. FromTwo(w, low) \in Wide
    BY <2>1, Joined
  <2> QED BY <1>7, <2>2, BecomesInv DEF Join
<1>8. ASSUME NEW bytes \in Digests, Hash(bytes) PROVE Inv'
  <2>1. Hashed(order, bytes) \in Narrow
    BY HashedType
  <2> QED BY <1>1, <1>8, <2>1 DEF Hash, Inv, TypeOK, HoldsDigest
<1>9. CASE Send
  <2>1. order \in Orders /\ order' \in Orders
    BY <1>1, <1>9 DEF Send, TypeOK
  <2>2. w' = w
    BY <1>2, <1>9, <2>1, Sent DEF Send
  <2> QED BY <1>9, <2>1, <2>2 DEF Send, Inv, TypeOK, HoldsDigest
<1>10. CASE UNCHANGED vars
  BY <1>10 DEF vars, Inv, TypeOK, HoldsDigest
<1> QED BY <1>4, <1>5, <1>6, <1>7, <1>8, <1>9, <1>10 DEF Next

\* Inv holds of every state.
LEMMA Invariant == Spec => []Inv
<1> QED BY InitInv, NextInv, PTL DEF Spec

\* Every operation of uint256.h and uint512.h leaves words of their width, set
\* and cleared bits and words from the other host included.
THEOREM WordsTypeCorrect == Spec => []TypeOK
<1>1. Inv => TypeOK
  BY DEF Inv
<1> QED BY <1>1, Invariant, PTL

\* get_bit and set_bit address the bit of that weight in the whole integer and
\* change its value by that weight or not at all; equal tells the two apart.
THEOREM BitsAreArithmetic == Spec => []BitAccessIsArithmetic
<1>1. Inv => BitAccessIsArithmetic
  <2> SUFFICES ASSUME Inv PROVE BitAccessIsArithmetic
    OBVIOUS
  <2>1. PICK n \in Nat : n > 0 /\ w \in [1..n -> Word] /\ Len(w) = n
    BY Shape DEF Inv
  <2>2. Bits(w) = 0..(n * WordBits - 1)
    BY <2>1 DEF Bits
  <2> QED BY <2>1, <2>2, BitAccess DEF BitAccessIsArithmetic
<1> QED BY <1>1, Invariant, PTL

\* The difficulty that clz256 finds in a digest is the one its host found,
\* wherever it is sent; a big-endian host counts the zeros of the digest, and
\* a little-endian one the same whole words of them.
THEOREM DigestsKeepDifficulty == Spec => []DifficultyTravels
<1>1. Inv => DifficultyTravels
  <2> SUFFICES ASSUME Inv, digest # <<>>
               PROVE  /\ hasher = "big" => clz256(w) = DigestZeros
                      /\ clz256(w) = clz256(Hashed(hasher, digest))
                      /\ clz256(w) \div WordBits = DigestZeros \div WordBits
    BY DEF DifficultyTravels
  <2>1. digest \in Digests /\ hasher \in Orders /\ w = Hashed(hasher, digest)
    BY DEF Inv, TypeOK, HoldsDigest
  <2> QED BY <2>1, ZerosOfDigest DEF DigestZeros
<1> QED BY <1>1, Invariant, PTL
=============================================================================
