-------------------------- MODULE WireFormatProofs --------------------------
(***************************************************************************)
(* Theorems about WireFormat: for any structures and any sizes of buffers. *)
(***************************************************************************)
EXTENDS WireFormat, SequenceTheorems, TLAPS

-----------------------------------------------------------------------------
(* Byte order.                                                             *)

Units == {1, 4, 8}

\* The index at which a host of this byte order has the j-th byte of a field
\* on the wire.
Flip(host, u, j) == (j \div u) * u + Reversed(host, u, j % u)

\* The reversal stays in the field, and undoes itself.
LEMMA FlipInside ==
    ASSUME NEW host \in Hosts, NEW u \in Units, NEW n \in Nat, n % u = 0,
           NEW j \in 0..(n - 1)
    PROVE  /\ Flip(host, u, j) \in 0..(n - 1)
           /\ Flip(host, u, Flip(host, u, j)) = j
           /\ u = 1 => Flip(host, u, j) = j
  <1>1. CASE u = 1
    BY <1>1 DEF Hosts, Flip, Reversed
  <1>2. CASE u = 4
    BY <1>2 DEF Hosts, Flip, Reversed
  <1>3. CASE u = 8
    BY <1>3 DEF Hosts, Flip, Reversed
  <1> QED BY <1>1, <1>2, <1>3 DEF Units

\* A byte weighs in the receiver's memory what it weighed in the sender's.
LEMMA WeightsAgree ==
    ASSUME NEW g \in Hosts, NEW h \in Hosts, NEW p, p.unit \in Units,
           NEW j \in Nat
    PROVE  Weight(g, p, Flip(g, p.unit, Flip(h, p.unit, j))) = Weight(h, p, j)
  <1>1. CASE p.unit = 1
    BY <1>1 DEF Hosts, Flip, Reversed, Weight
  <1>2. CASE p.unit = 4
    BY <1>2 DEF Hosts, Flip, Reversed, Weight
  <1>3. CASE p.unit = 8
    BY <1>3 DEF Hosts, Flip, Reversed, Weight
  <1> QED BY <1>1, <1>2, <1>3 DEF Units

-----------------------------------------------------------------------------
(* Layouts.                                                                *)

FieldOf(P) == [field : P, at : Nat, width : Nat, unit : Units]
IsLayout(L) == \E P : L \in Seq(FieldOf(P))

Before(p, q) == p.at + p.width <= q.at
WholeWords(p) == p.width % p.unit = 0

\* The fields lie one after the other from lo to hi without a gap, under
\* different names that begin with one of H.
Laid(L, lo, hi, H) ==
    /\ IsLayout(L)
    /\ \A i \in 1..Len(L) :
         /\ lo <= L[i].at /\ L[i].at + L[i].width <= hi
         /\ WholeWords(L[i])
         /\ L[i].field[1] \in H
    /\ \A i, j \in 1..Len(L) :
         /\ i < j => Before(L[i], L[j])
         /\ i # j => L[i].field # L[j].field
    /\ \A a \in lo..(hi - 1) : \E i \in 1..Len(L) : a \in Cells(L[i])

\* A function on 1..n is a sequence.
LEMMA FunctionIsSequence ==
    ASSUME NEW S, NEW n \in Nat, NEW g \in [1..n -> S]
    PROVE  g \in Seq(S)
  <1>1. g \in UNION {[1..m -> S] : m \in Nat}
    <2>1. [1..n -> S] \in {[1..m -> S] : m \in Nat}
      OBVIOUS
    <2> QED BY <2>1
  <1>2. Seq(S) = UNION {[1..m -> S] : m \in Nat}
    BY SeqDef, Zenon
  <1> QED BY <1>1, <1>2

\* What is indexed in a layout is a field.
LEMMA LayoutField ==
    ASSUME NEW L, IsLayout(L)
    PROVE  /\ Len(L) \in Nat /\ DOMAIN L = 1..Len(L)
           /\ \A i \in 1..Len(L) :
                L[i].at \in Nat /\ L[i].width \in Nat /\ L[i].unit \in Units
  <1>1. PICK P : L \in Seq(FieldOf(P))
    BY DEF IsLayout
  <1>2. \A i \in 1..Len(L) : L[i] \in FieldOf(P)
    BY <1>1, ElementOfSeq
  <1>3. Len(L) \in Nat /\ DOMAIN L = 1..Len(L)
    BY <1>1, LenProperties
  <1> QED BY <1>2, <1>3 DEF FieldOf

\* A layout continued by another one.
LEMMA LayoutConcat ==
    ASSUME NEW L, NEW M, IsLayout(L), IsLayout(M)
    PROVE  /\ IsLayout(L \o M)
           /\ Len(L \o M) = Len(L) + Len(M)
           /\ \A i \in 1..Len(L) : (L \o M)[i] = L[i]
           /\ \A i \in 1..Len(M) : (L \o M)[Len(L) + i] = M[i]
           /\ \A i \in 1..Len(L \o M) :
                i \notin 1..Len(L) => i - Len(L) \in 1..Len(M)
  <1>1. PICK P : L \in Seq(FieldOf(P))
    BY DEF IsLayout
  <1>2. PICK Q : M \in Seq(FieldOf(Q))
    BY DEF IsLayout
  <1>3. L \in Seq(FieldOf(P \cup Q)) /\ M \in Seq(FieldOf(P \cup Q))
    <2>1. FieldOf(P) \subseteq FieldOf(P \cup Q)
          /\ FieldOf(Q) \subseteq FieldOf(P \cup Q)
      BY DEF FieldOf
    <2> QED BY <1>1, <1>2, <2>1, SeqMonotonic
  <1>4. /\ L \o M \in Seq(FieldOf(P \cup Q))
        /\ Len(L \o M) = Len(L) + Len(M)
        /\ \A i \in 1..(Len(L) + Len(M)) :
             (L \o M)[i] = IF i <= Len(L) THEN L[i] ELSE M[i - Len(L)]
    BY <1>3, ConcatProperties
  <1>5. Len(L) \in Nat /\ Len(M) \in Nat
    BY <1>3
  <1>6. IsLayout(L \o M)
    BY <1>4 DEF IsLayout
  <1>7. ASSUME NEW i \in 1..Len(L) PROVE (L \o M)[i] = L[i]
    BY <1>4, <1>5, <1>7
  <1>8. ASSUME NEW i \in 1..Len(M) PROVE (L \o M)[Len(L) + i] = M[i]
    <2>1. Len(L) + i \in 1..(Len(L) + Len(M)) /\ ~(Len(L) + i <= Len(L))
          /\ Len(L) + i - Len(L) = i
      BY <1>5, <1>8
    <2> QED BY <1>4, <2>1
  <1>9. ASSUME NEW i \in 1..Len(L \o M), i \notin 1..Len(L)
        PROVE  i - Len(L) \in 1..Len(M)
    BY <1>4, <1>5, <1>9
  <1> QED BY <1>4, <1>6, <1>7, <1>8, <1>9

\* Two layouts that meet make one.
LEMMA LaidConcat ==
    ASSUME NEW L, NEW M, NEW lo \in Nat, NEW mid \in Nat, NEW hi \in Nat,
           NEW G, NEW H, lo <= mid, mid <= hi, G \cap H = {},
           Laid(L, lo, mid, G), Laid(M, mid, hi, H)
    PROVE  Laid(L \o M, lo, hi, G \cup H)
  <1> DEFINE N == L \o M
             I == 1..Len(L)
             K == 1..Len(M)
  <1>1. /\ IsLayout(N) /\ Len(N) = Len(L) + Len(M)
        /\ \A i \in I : N[i] = L[i]
        /\ \A k \in K : N[Len(L) + k] = M[k]
        /\ \A i \in 1..Len(N) : i \notin I => i - Len(L) \in K
    BY LayoutConcat DEF Laid
  <1>2. /\ Len(L) \in Nat /\ Len(M) \in Nat
        /\ \A i \in I : L[i].at \in Nat /\ L[i].width \in Nat
        /\ \A k \in K : M[k].at \in Nat /\ M[k].width \in Nat
    BY LayoutField DEF Laid
  <1>a. /\ \A i \in I : /\ lo <= L[i].at /\ L[i].at + L[i].width <= mid
                        /\ WholeWords(L[i]) /\ L[i].field[1] \in G
        /\ \A i, j \in I : i < j => Before(L[i], L[j])
        /\ \A i, j \in I : i # j => L[i].field # L[j].field
        /\ \A x \in lo..(mid - 1) : \E i \in I : x \in Cells(L[i])
    BY DEF Laid
  <1>b. /\ \A k \in K : /\ mid <= M[k].at /\ M[k].at + M[k].width <= hi
                        /\ WholeWords(M[k]) /\ M[k].field[1] \in H
        /\ \A k, l \in K : k < l => Before(M[k], M[l])
        /\ \A k, l \in K : k # l => M[k].field # M[l].field
        /\ \A x \in mid..(hi - 1) : \E k \in K : x \in Cells(M[k])
    BY DEF Laid
  <1>c. ASSUME NEW i \in I, NEW k \in K
        PROVE  Before(L[i], M[k]) /\ L[i].field # M[k].field
    <2>1. /\ L[i].at \in Nat /\ L[i].width \in Nat /\ M[k].at \in Nat
          /\ L[i].at + L[i].width <= mid /\ mid <= M[k].at
      BY <1>2, <1>a, <1>b
    <2>2. L[i].at + L[i].width <= M[k].at
      BY <2>1
    <2>3. L[i].field[1] \in G /\ M[k].field[1] \in H
      BY <1>a, <1>b
    <2>4. L[i].field # M[k].field
      BY <2>3
    <2> QED BY <2>2, <2>4 DEF Before
  <1> HIDE DEF N
  <1>3. ASSUME NEW i \in 1..Len(N)
        PROVE  \/ i \in I /\ N[i] = L[i]
               \/ \E k \in K : i = Len(L) + k /\ N[i] = M[k]
    <2>1. CASE i \notin I
      <3>1. i - Len(L) \in K /\ i = Len(L) + (i - Len(L))
        BY <1>1, <1>2, <2>1
      <3> QED BY <1>1, <3>1
    <2> QED BY <1>1, <2>1
  <1>4. ASSUME NEW i \in 1..Len(N)
        PROVE  /\ lo <= N[i].at /\ N[i].at + N[i].width <= hi
               /\ WholeWords(N[i])
               /\ N[i].field[1] \in G \cup H
    <2>1. CASE i \in I /\ N[i] = L[i]
      BY <1>2, <1>a, <2>1
    <2>2. ASSUME NEW k \in K, N[i] = M[k]
          PROVE  /\ lo <= N[i].at /\ N[i].at + N[i].width <= hi
                 /\ WholeWords(N[i])
                 /\ N[i].field[1] \in G \cup H
      BY <1>2, <1>b, <2>2
    <2> QED BY <1>3, <2>1, <2>2
  <1>5. ASSUME NEW i \in 1..Len(N), NEW j \in 1..Len(N)
        PROVE  /\ i < j => Before(N[i], N[j])
               /\ i # j => N[i].field # N[j].field
    <2>1. CASE i \in I /\ N[i] = L[i] /\ j \in I /\ N[j] = L[j]
      BY <1>a, <2>1
    <2>2. ASSUME NEW k \in K, i \in I, N[i] = L[i], j = Len(L) + k, N[j] = M[k]
          PROVE  Before(N[i], N[j]) /\ N[i].field # N[j].field
      BY <1>c, <2>2
    <2>3. ASSUME NEW k \in K, j \in I, N[j] = L[j], i = Len(L) + k, N[i] = M[k]
          PROVE  ~(i < j) /\ N[i].field # N[j].field
      <3>1. N[i].field # N[j].field
        BY <1>c, <2>3
      <3> QED BY <1>2, <2>3, <3>1
    <2>4. ASSUME NEW k \in K, NEW l \in K, i = Len(L) + k, N[i] = M[k],
                 j = Len(L) + l, N[j] = M[l]
          PROVE  /\ i < j => Before(N[i], N[j])
                 /\ i # j => N[i].field # N[j].field
      <3>1. (i < j => k < l) /\ (i # j => k # l)
        BY <1>2, <2>4
      <3> QED BY <1>b, <2>4, <3>1
    <2>5. \/ i \in I /\ N[i] = L[i]
          \/ \E k \in K : i = Len(L) + k /\ N[i] = M[k]
      BY <1>3
    <2>6. \/ j \in I /\ N[j] = L[j]
          \/ \E k \in K : j = Len(L) + k /\ N[j] = M[k]
      BY <1>3
    <2>7. CASE i \in I /\ N[i] = L[i]
      BY <2>1, <2>2, <2>6, <2>7
    <2>8. ASSUME NEW k \in K, i = Len(L) + k, N[i] = M[k]
          PROVE  /\ i < j => Before(N[i], N[j])
                 /\ i # j => N[i].field # N[j].field
      BY <2>3, <2>4, <2>6, <2>8
    <2> QED BY <2>5, <2>7, <2>8
  <1>6. ASSUME NEW a \in lo..(hi - 1)
        PROVE  \E i \in 1..Len(N) : a \in Cells(N[i])
    <2>1. CASE a < mid
      <3>a. a \in lo..(mid - 1)
        BY <2>1
      <3>1. PICK i \in I : a \in Cells(L[i])
        BY <1>a, <3>a
      <3>2. i \in 1..Len(N) /\ N[i] = L[i]
        BY <1>1, <1>2
      <3> QED BY <3>1, <3>2
    <2>2. CASE ~(a < mid)
      <3>a. a \in mid..(hi - 1)
        BY <2>2
      <3>1. PICK k \in K : a \in Cells(M[k])
        BY <1>b, <3>a
      <3>2. Len(L) + k \in 1..Len(N) /\ N[Len(L) + k] = M[k]
        BY <1>1, <1>2
      <3> QED BY <3>1, <3>2
    <2> QED BY <2>1, <2>2
  <1>7. Laid(N, lo, hi, G \cup H)
    BY <1>1, <1>4, <1>5, <1>6 DEF Laid
  <1> QED BY <1>7 DEF N

\* A nested layout is moved to its offset, under the structure's name.
LEMMA LaidWithin ==
    ASSUME NEW L, NEW lo \in Nat, NEW hi \in Nat, NEW G, NEW n \in Nat,
           NEW s, Laid(L, lo, hi, G)
    PROVE  Laid(Within(n, s, L), lo + n, hi + n, {s})
  <1> DEFINE W == Within(n, s, L)
             I == 1..Len(L)
  <1>1. PICK P : L \in Seq(FieldOf(P))
    BY DEF Laid, IsLayout
  <1>2. /\ Len(L) \in Nat
        /\ \A i \in I : L[i] \in FieldOf(P)
    BY <1>1, LenProperties, ElementOfSeq
  <1>a. /\ \A i \in I : /\ lo <= L[i].at /\ L[i].at + L[i].width <= hi
                        /\ WholeWords(L[i])
        /\ \A i, j \in I : i < j => Before(L[i], L[j])
        /\ \A i, j \in I : i # j => L[i].field # L[j].field
        /\ \A x \in lo..(hi - 1) : \E i \in I : x \in Cells(L[i])
    BY DEF Laid
  <1>3. \A i \in I :
          W[i] = [field |-> <<s, L[i].field>>, at |-> L[i].at + n,
                  width |-> L[i].width, unit |-> L[i].unit]
    BY DEF Within
  <1>b. \A i \in I : L[i].field \in P /\ L[i].at \in Nat
                     /\ L[i].width \in Nat /\ L[i].unit \in Units
    BY <1>2 DEF FieldOf
  <1>4. \A i \in I : W[i] \in FieldOf({s} \X P)
    <2> TAKE i \in I
    <2>1. /\ <<s, L[i].field>> \in {s} \X P
          /\ L[i].at + n \in Nat /\ L[i].width \in Nat /\ L[i].unit \in Units
      BY <1>b
    <2>2. [field |-> <<s, L[i].field>>, at |-> L[i].at + n,
           width |-> L[i].width, unit |-> L[i].unit] \in FieldOf({s} \X P)
      BY <2>1 DEF FieldOf
    <2> HIDE DEF W
    <2> QED BY <1>3, <2>2
  <1>5. W \in Seq(FieldOf({s} \X P)) /\ Len(W) = Len(L)
    <2>1. W = [i \in 1..Len(L) |-> W[i]]
      BY DEF Within
    <2>2. DOMAIN W = 1..Len(L)
      BY DEF Within
    <2> HIDE DEF W
    <2>b. \A i \in 1..Len(L) : W[i] \in FieldOf({s} \X P)
      BY <1>4
    <2>3. W \in [1..Len(L) -> FieldOf({s} \X P)]
      BY <2>b, <2>1
    <2>4. W \in Seq(FieldOf({s} \X P))
      BY <1>2, <2>3, FunctionIsSequence
    <2> QED BY <1>2, <2>2, <2>4, LenProperties
  <1>6. IsLayout(W)
    BY <1>5 DEF IsLayout
  <1>7. \A i \in I : /\ W[i].at = L[i].at + n
                     /\ W[i].width = L[i].width
                     /\ W[i].unit = L[i].unit
                     /\ W[i].field = <<s, L[i].field>>
    <2> TAKE i \in I
    <2> HIDE DEF W
    <2>1. W[i] = [field |-> <<s, L[i].field>>, at |-> L[i].at + n,
                  width |-> L[i].width, unit |-> L[i].unit]
      BY <1>3
    <2> QED BY <2>1
  <1> HIDE DEF W
  <1>8. ASSUME NEW i \in I, NEW j \in I
        PROVE  /\ i < j => Before(W[i], W[j])
               /\ i # j => W[i].field # W[j].field
    <2>1. /\ i < j => Before(L[i], L[j])
          /\ i # j => L[i].field # L[j].field
      BY <1>a
    <2>2. i # j => <<s, L[i].field>> # <<s, L[j].field>>
      BY <2>1
    <2>3. /\ L[i].at \in Nat /\ L[j].at \in Nat /\ L[i].width \in Nat
          /\ W[i].at = L[i].at + n /\ W[j].at = L[j].at + n
          /\ W[i].width = L[i].width
      BY <1>7, <1>b
    <2>4. Before(L[i], L[j]) => Before(W[i], W[j])
      BY <2>3 DEF Before
    <2> QED BY <1>7, <2>1, <2>2, <2>4
  <1>9. ASSUME NEW a \in (lo + n)..(hi + n - 1)
        PROVE  \E i \in I : a \in Cells(W[i])
    <2>1. a - n \in lo..(hi - 1)
      OBVIOUS
    <2>2. PICK i \in I : a - n \in Cells(L[i])
      BY <1>a, <2>1
    <2>3. /\ L[i].at \in Nat /\ L[i].width \in Nat
          /\ W[i].at = L[i].at + n /\ W[i].width = L[i].width
      BY <1>7, <1>b
    <2>4. a \in Cells(W[i])
      BY <2>2, <2>3 DEF Cells
    <2> QED BY <2>4
  <1>10. ASSUME NEW i \in I
         PROVE  /\ lo + n <= W[i].at /\ W[i].at + W[i].width <= hi + n
                /\ WholeWords(W[i])
                /\ W[i].field[1] \in {s}
    <2>a. /\ L[i].at \in Nat /\ L[i].width \in Nat
          /\ lo <= L[i].at /\ L[i].at + L[i].width <= hi
          /\ W[i].at = L[i].at + n /\ W[i].width = L[i].width
      BY <1>7, <1>a, <1>b
    <2>1. lo + n <= W[i].at /\ W[i].at + W[i].width <= hi + n
      BY <2>a
    <2>2. WholeWords(W[i])
      BY <1>7, <1>a DEF WholeWords
    <2>3. <<s, L[i].field>>[1] = s
      OBVIOUS
    <2> QED BY <1>7, <2>1, <2>2, <2>3
  <1>11. Laid(W, lo + n, hi + n, {s})
    <2>1. 1..Len(W) = I
      BY <1>5
    <2>2. \A i \in 1..Len(W) :
            /\ lo + n <= W[i].at /\ W[i].at + W[i].width <= hi + n
            /\ WholeWords(W[i])
            /\ W[i].field[1] \in {s}
      BY <1>10, <2>1
    <2>3. \A i, j \in 1..Len(W) :
            /\ i < j => Before(W[i], W[j])
            /\ i # j => W[i].field # W[j].field
      BY <1>8, <2>1
    <2>4. \A a \in (lo + n)..(hi + n - 1) :
            \E i \in 1..Len(W) : a \in Cells(W[i])
      BY <1>9, <2>1
    <2> QED BY <1>6, <2>2, <2>3, <2>4 DEF Laid
  <1> QED BY <1>11 DEF W

\* Where a structure nested at an offset ends.
After(n, k) == n + k

\* A structure nested at an offset.
LEMMA LaidAt ==
    ASSUME NEW L, NEW k \in Nat, NEW G, NEW n \in Nat, NEW s, Laid(L, 0, k, G)
    PROVE  Laid(Within(n, s, L), n, After(n, k), {s})
  <1>1. Laid(Within(n, s, L), 0 + n, k + n, {s})
    BY LaidWithin
  <1>2. 0 + n = n /\ k + n = After(n, k)
    BY DEF After
  <1> QED BY <1>1, <1>2

\* The sizes.
USE DEF UINT32_SIZE, UINT64_SIZE, UINT256_SIZE, UINT512_SIZE, IPV6_SIZE,
        CERT_SIZE, BLOCK_SIZE, MINI_POW_RESULT_SERIALIZED_SIZE,
        TIER_POW_RESULT_SERIALIZED_SIZE, TIER_POW_CHALLENGE_SIZE,
        TIER_POW_SOLVE_SIZE

\* A single field.
LEMMA LaidOne ==
    ASSUME NEW s, NEW lo \in Nat, NEW hi \in Nat, NEW w \in Nat,
           NEW u \in Units, w % u = 0, hi = lo + w
    PROVE  Laid(<<Field(s, lo, w, u)>>, lo, hi, {s})
  <1> DEFINE q == Field(s, lo, w, u)
             L == <<q>>
  <1>1. q \in FieldOf({<<s>>})
    BY DEF Field, FieldOf
  <1>2. q.at = lo /\ q.width = w /\ q.unit = u /\ q.field[1] = s
    BY DEF Field
  <1> HIDE DEF q
  <1>3. L \in Seq(FieldOf({<<s>>})) /\ Len(L) = 1 /\ L[1] = q
    BY <1>1
  <1>4. IsLayout(L)
    BY <1>3 DEF IsLayout
  <1> HIDE DEF L
  <1>5. /\ lo <= L[1].at /\ L[1].at + L[1].width <= hi
        /\ WholeWords(L[1]) /\ L[1].field[1] \in {s}
    BY <1>2, <1>3 DEF WholeWords
  <1>6. \A x \in lo..(hi - 1) : x \in Cells(L[1])
    BY <1>2, <1>3 DEF Cells
  <1>7. \A i \in 1..Len(L) : i = 1
    BY <1>3
  <1>8. 1 \in 1..Len(L)
    BY <1>3
  <1>9. Laid(L, lo, hi, {s})
    BY <1>4, <1>5, <1>6, <1>7, <1>8 DEF Laid
  <1> QED BY <1>9 DEF L, q

\* A field put after a layout.
LEMMA LaidNext ==
    ASSUME NEW L, NEW lo \in Nat, NEW mid \in Nat, NEW hi \in Nat, NEW G,
           lo <= mid, Laid(L, lo, mid, G), NEW s, s \notin G,
           NEW w \in Nat, NEW u \in Units, w % u = 0, hi = mid + w
    PROVE  Laid(L \o <<Field(s, mid, w, u)>>, lo, hi, G \cup {s})
  <1> DEFINE M == <<Field(s, mid, w, u)>>
  <1>1. Laid(M, mid, hi, {s})
    BY LaidOne
  <1> HIDE DEF M
  <1>2. mid <= hi
    OBVIOUS
  <1>3. G \cap {s} = {}
    OBVIOUS
  <1>4. Laid(L \o M, lo, hi, G \cup {s})
    BY <1>1, <1>2, <1>3, LaidConcat
  <1> QED BY <1>4 DEF M

\* Two elements are one and one.
LEMMA PairConcat ==
    ASSUME NEW a, NEW b
    PROVE  <<a, b>> = <<a>> \o <<b>>
  <1> DEFINE L == <<a>>
             M == <<b>>
             N == <<a, b>>
             S == {a, b}
  <1>1. a \in S /\ b \in S
    OBVIOUS
  <1> HIDE DEF S
  <1>2. L \in Seq(S) /\ Len(L) = 1 /\ L[1] = a
    BY <1>1
  <1>3. M \in Seq(S) /\ Len(M) = 1 /\ M[1] = b
    BY <1>1
  <1>4. N \in Seq(S) /\ Len(N) = 2 /\ N[1] = a /\ N[2] = b
    BY <1>1
  <1> HIDE DEF L, M, N
  <1>5. /\ L \o M \in Seq(S) /\ Len(L \o M) = 2
        /\ (L \o M)[1] = a /\ (L \o M)[2] = b
    BY <1>2, <1>3, ConcatProperties
  <1>6. \A i \in 1..Len(N) : N[i] = (L \o M)[i]
    BY <1>4, <1>5
  <1>7. N = L \o M
    BY <1>4, <1>5, <1>6, SeqEqual
  <1> QED BY <1>7 DEF L, M, N

\* The widths that occur are whole words.
LEMMA WholeWidths ==
    /\ 1 \in Units /\ 4 \in Units /\ 8 \in Units
    /\ 1 % 1 = 0 /\ 2 % 1 = 0 /\ 3 % 1 = 0 /\ 16 % 1 = 0 /\ 4 % 4 = 0
    /\ 8 % 8 = 0 /\ 32 % 8 = 0 /\ 64 % 8 = 0
  BY DEF Units

\* Three elements, one after the other.
LEMMA ThreeConcat ==
    ASSUME NEW a, NEW b, NEW c
    PROVE  <<a, b, c>> = <<a>> \o <<b>> \o <<c>>
  <1>1. <<a, b, c>> = <<a, b>> \o <<c>>
    OBVIOUS
  <1> QED BY <1>1, PairConcat

\* The same for four.
LEMMA FourConcat ==
    ASSUME NEW a, NEW b, NEW c, NEW d
    PROVE  <<a, b, c, d>> = <<a>> \o <<b>> \o <<c>> \o <<d>>
  <1> DEFINE T == <<a, b, c>>
  <1>1. <<a, b, c, d>> = T \o <<d>>
    OBVIOUS
  <1>2. T = <<a>> \o <<b>> \o <<c>>
    BY ThreeConcat
  <1> HIDE DEF T
  <1> QED BY <1>1, <1>2, Zenon

\* The hand-written layouts, field by field: no gap and no overlap.
LEMMA CertificateLaid ==
    Laid(Certificate, 0, 83,
         {"pubSignKey"} \cup {"pubEncKey"} \cup {"id"} \cup {"reserved"})
  <1> DEFINE a == Field("pubSignKey", 0, 32, 8)
             b == Field("pubEncKey", 32, 32, 8)
             c == Field("id", 64, 16, 1)
             d == Field("reserved", 80, 3, 1)
             G1 == {"pubSignKey"}
             G2 == G1 \cup {"pubEncKey"}
             G3 == G2 \cup {"id"}
             G4 == G3 \cup {"reserved"}
             T2 == <<a>> \o <<b>>
             T3 == T2 \o <<c>>
             T4 == T3 \o <<d>>
  <1>1. Laid(<<a>>, 0, 32, G1)
    BY LaidOne, WholeWidths
  <1>2. Laid(T2, 0, 64, G2)
    BY <1>1, LaidNext, WholeWidths
  <1>3. Laid(T3, 0, 80, G3)
    BY <1>2, LaidNext, WholeWidths
  <1>4. Laid(T4, 0, 83, G4)
    BY <1>3, LaidNext, WholeWidths
  <1>5. <<a, b, c, d>> = T4
    <2> HIDE DEF a, b, c, d
    <2> QED BY FourConcat
  <1>6. Certificate = <<a, b, c, d>>
    BY DEF Certificate
  <1> QED BY <1>4, <1>5, <1>6

\* A block's own fields begin where CERT_SIZE says.
LEMMA BlockOwnLaid ==
    Laid(BlockOwn, 68, 216,
         {"CurrentCertHash"} \cup {"prevHash"} \cup {"SignedByVerifier"}
           \cup {"height"} \cup {"timestamp"} \cup {"tier"} \cup {"reserved"})
  <1> DEFINE a == Field("CurrentCertHash", 68, 32, 8)
             b == Field("prevHash", 100, 32, 8)
             c == Field("SignedByVerifier", 132, 64, 8)
             d == Field("height", 196, 8, 8)
             e == Field("timestamp", 204, 8, 8)
             f == Field("tier", 212, 1, 1)
             g == Field("reserved", 213, 3, 1)
             G1 == {"CurrentCertHash"}
             G2 == G1 \cup {"prevHash"}
             G3 == G2 \cup {"SignedByVerifier"}
             G4 == G3 \cup {"height"}
             G5 == G4 \cup {"timestamp"}
             G6 == G5 \cup {"tier"}
             G7 == G6 \cup {"reserved"}
             T2 == <<a>> \o <<b>>
             T3 == T2 \o <<c>>
             T4 == T3 \o <<d>>
             T5 == T4 \o <<e>>
             T6 == T5 \o <<f>>
             T7 == T6 \o <<g>>
  <1>1. Laid(<<a>>, 68, 100, G1)
    BY LaidOne, WholeWidths
  <1>2. Laid(T2, 68, 132, G2)
    BY <1>1, LaidNext, WholeWidths
  <1>3. Laid(T3, 68, 196, G3)
    BY <1>2, LaidNext, WholeWidths
  <1>4. Laid(T4, 68, 204, G4)
    BY <1>3, LaidNext, WholeWidths
  <1>5. Laid(T5, 68, 212, G5)
    BY <1>4, LaidNext, WholeWidths
  <1>6. Laid(T6, 68, 213, G6)
    BY <1>5, LaidNext, WholeWidths
  <1>7. Laid(T7, 68, 216, G7)
    BY <1>6, LaidNext, WholeWidths
  <1>8. <<a, b, c, d, e, f, g>> = T7
    <2> DEFINE Q4 == <<a, b, c, d>>
               Q5 == <<a, b, c, d, e>>
               Q6 == <<a, b, c, d, e, f>>
               Q7 == <<a, b, c, d, e, f, g>>
    <2> HIDE DEF a, b, c, d, e, f, g
    <2>1. Q4 = T4
      BY FourConcat
    <2>2. Q5 = Q4 \o <<e>>
      OBVIOUS
    <2>3. Q6 = Q5 \o <<f>>
      OBVIOUS
    <2>4. Q7 = Q6 \o <<g>>
      OBVIOUS
    <2> HIDE DEF T4, Q4, Q5, Q6, Q7
    <2>5. Q7 = T7
      BY <2>1, <2>2, <2>3, <2>4, Zenon
    <2> QED BY <2>5 DEF Q7
  <1>9. BlockOwn = <<a, b, c, d, e, f, g>>
    BY DEF BlockOwn
  <1> QED BY <1>7, <1>8, <1>9

\* So do those of the seed.
LEMMA SeedOwnLaid ==
    Laid(SeedOwn, 68, 108,
         {"lastBlockHash"} \cup {"sessionId"} \cup {"challengeID"})
  <1> DEFINE a == Field("lastBlockHash", 68, 32, 8)
             b == Field("sessionId", 100, 4, 4)
             c == Field("challengeID", 104, 4, 4)
             G1 == {"lastBlockHash"}
             G2 == G1 \cup {"sessionId"}
             G3 == G2 \cup {"challengeID"}
             T2 == <<a>> \o <<b>>
             T3 == T2 \o <<c>>
  <1>1. Laid(<<a>>, 68, 100, G1)
    BY LaidOne, WholeWidths
  <1>2. Laid(T2, 68, 104, G2)
    BY <1>1, LaidNext, WholeWidths
  <1>3. Laid(T3, 68, 108, G3)
    BY <1>2, LaidNext, WholeWidths
  <1>4. <<a, b, c>> = T3
    <2> HIDE DEF a, b, c
    <2> QED BY ThreeConcat
  <1>5. SeedOwn = <<a, b, c>>
    BY DEF SeedOwn
  <1> QED BY <1>3, <1>4, <1>5

\* The result of the mini proof of work.
LEMMA MiniPowResultLaid ==
    Laid(MiniPowResult, 0, 12,
         {"challengeid"} \cup {"sessionid"} \cup {"tier"} \cup {"isValid"}
           \cup {"reserved"})
  <1> DEFINE a == Field("challengeid", 0, 4, 4)
             b == Field("sessionid", 4, 4, 4)
             c == Field("tier", 8, 1, 1)
             d == Field("isValid", 9, 1, 1)
             e == Field("reserved", 10, 2, 1)
             G1 == {"challengeid"}
             G2 == G1 \cup {"sessionid"}
             G3 == G2 \cup {"tier"}
             G4 == G3 \cup {"isValid"}
             G5 == G4 \cup {"reserved"}
             T2 == <<a>> \o <<b>>
             T3 == T2 \o <<c>>
             T4 == T3 \o <<d>>
             T5 == T4 \o <<e>>
  <1>1. Laid(<<a>>, 0, 4, G1)
    BY LaidOne, WholeWidths
  <1>2. Laid(T2, 0, 8, G2)
    BY <1>1, LaidNext, WholeWidths
  <1>3. Laid(T3, 0, 9, G3)
    BY <1>2, LaidNext, WholeWidths
  <1>4. Laid(T4, 0, 10, G4)
    BY <1>3, LaidNext, WholeWidths
  <1>5. Laid(T5, 0, 12, G5)
    BY <1>4, LaidNext, WholeWidths
  <1>6. <<a, b, c, d, e>> = T5
    <2> DEFINE Q4 == <<a, b, c, d>>
               Q5 == <<a, b, c, d, e>>
    <2> HIDE DEF a, b, c, d, e
    <2>1. Q4 = T4
      BY FourConcat
    <2>2. Q5 = Q4 \o <<e>>
      OBVIOUS
    <2> HIDE DEF T4, Q4, Q5
    <2>3. Q5 = T5
      BY <2>1, <2>2, Zenon
    <2> QED BY <2>3 DEF Q5
  <1>7. MiniPowResult = <<a, b, c, d, e>>
    BY DEF MiniPowResult
  <1> QED BY <1>5, <1>6, <1>7

\* A challenge of the tier proof of work.
LEMMA TierPowChallengeLaid ==
    Laid(TierPowChallenge, 0, 44,
         {"challenge"} \cup {"complexity"} \cup {"challenge_id"}
           \cup {"reserved"})
  <1> DEFINE a == Field("challenge", 0, 32, 8)
             b == Field("complexity", 32, 1, 1)
             c == Field("challenge_id", 33, 8, 8)
             d == Field("reserved", 41, 3, 1)
             G1 == {"challenge"}
             G2 == G1 \cup {"complexity"}
             G3 == G2 \cup {"challenge_id"}
             G4 == G3 \cup {"reserved"}
             T2 == <<a>> \o <<b>>
             T3 == T2 \o <<c>>
             T4 == T3 \o <<d>>
  <1>1. Laid(<<a>>, 0, 32, G1)
    BY LaidOne, WholeWidths
  <1>2. Laid(T2, 0, 33, G2)
    BY <1>1, LaidNext, WholeWidths
  <1>3. Laid(T3, 0, 41, G3)
    BY <1>2, LaidNext, WholeWidths
  <1>4. Laid(T4, 0, 44, G4)
    BY <1>3, LaidNext, WholeWidths
  <1>5. <<a, b, c, d>> = T4
    <2> HIDE DEF a, b, c, d
    <2> QED BY FourConcat
  <1>6. TierPowChallenge = <<a, b, c, d>>
    BY DEF TierPowChallenge
  <1> QED BY <1>4, <1>5, <1>6

\* A solution of it.
LEMMA TierPowSolveLaid ==
    Laid(TierPowSolve, 0, 20,
         {"nonce"} \cup {"complexity"} \cup {"challenge_id"}
           \cup {"reserved"})
  <1> DEFINE a == Field("nonce", 0, 8, 8)
             b == Field("complexity", 8, 1, 1)
             c == Field("challenge_id", 9, 8, 8)
             d == Field("reserved", 17, 3, 1)
             G1 == {"nonce"}
             G2 == G1 \cup {"complexity"}
             G3 == G2 \cup {"challenge_id"}
             G4 == G3 \cup {"reserved"}
             T2 == <<a>> \o <<b>>
             T3 == T2 \o <<c>>
             T4 == T3 \o <<d>>
  <1>1. Laid(<<a>>, 0, 8, G1)
    BY LaidOne, WholeWidths
  <1>2. Laid(T2, 0, 9, G2)
    BY <1>1, LaidNext, WholeWidths
  <1>3. Laid(T3, 0, 17, G3)
    BY <1>2, LaidNext, WholeWidths
  <1>4. Laid(T4, 0, 20, G4)
    BY <1>3, LaidNext, WholeWidths
  <1>5. <<a, b, c, d>> = T4
    <2> HIDE DEF a, b, c, d
    <2> QED BY FourConcat
  <1>6. TierPowSolve = <<a, b, c, d>>
    BY DEF TierPowSolve
  <1> QED BY <1>4, <1>5, <1>6

\* A pair of hashes.
LEMMA Uint256PairLaid ==
    Laid(Uint256Pair, 0, 64, {"a"} \cup {"b"})
  <1> DEFINE a == Field("a", 0, 32, 8)
             b == Field("b", 32, 32, 8)
             G1 == {"a"}
             G2 == G1 \cup {"b"}
             T2 == <<a>> \o <<b>>
  <1>1. Laid(<<a>>, 0, 32, G1)
    BY LaidOne, WholeWidths
  <1>2. Laid(T2, 0, 64, G2)
    BY <1>1, LaidNext, WholeWidths
  <1>3. <<a, b>> = T2
    <2> HIDE DEF a, b
    <2> QED BY PairConcat
  <1>4. Uint256Pair = <<a, b>>
    BY DEF Uint256Pair
  <1> QED BY <1>2, <1>3, <1>4

\* The nested layouts, put together from these.
LEMMA TierPowResultLaid ==
    Laid(TierPowResult, 0, 76,
         {"tier"} \cup {"reserved"} \cup {"challenge"} \cup {"solve"}
           \cup {"time_taken"})
  <1> DEFINE a == Field("tier", 0, 1, 1)
             b == Field("reserved", 1, 3, 1)
             C == Within(4, "challenge", TierPowChallenge)
             D == Within(48, "solve", TierPowSolve)
             G2 == {"tier"} \cup {"reserved"}
             G3 == G2 \cup {"challenge"}
             G4 == G3 \cup {"solve"}
             G5 == G4 \cup {"time_taken"}
             T3 == <<a, b>> \o C
             T4 == T3 \o D
             T5 == T4 \o <<Field("time_taken", 68, 8, 8)>>
  <1>1. Laid(<<a>>, 0, 1, {"tier"})
    BY LaidOne, WholeWidths
  <1>2. Laid(<<a>> \o <<b>>, 0, 4, G2)
    BY <1>1, LaidNext, WholeWidths
  <1>3. <<a, b>> = <<a>> \o <<b>>
    <2> HIDE DEF a, b
    <2> QED BY PairConcat
  <1>4. Laid(C, 4, 48, {"challenge"})
    <2>1. After(4, 44) = 48
      BY DEF After
    <2> QED BY <2>1, TierPowChallengeLaid, LaidAt
  <1>5. Laid(D, 48, 68, {"solve"})
    <2>1. After(48, 20) = 68
      BY DEF After
    <2> QED BY <2>1, TierPowSolveLaid, LaidAt
  <1>6. Laid(<<a, b>>, 0, 4, G2)
    BY <1>2, <1>3
  <1>7. Laid(T3, 0, 48, G3)
    <2> HIDE DEF a, b, C
    <2> QED BY <1>4, <1>6, LaidConcat
  <1>8. Laid(T4, 0, 68, G4)
    <2> HIDE DEF T3, D
    <2> QED BY <1>5, <1>7, LaidConcat
  <1>9. Laid(T5, 0, 76, G5)
    <2> HIDE DEF T4
    <2> QED BY <1>8, LaidNext, WholeWidths
  <1> QED BY <1>9 DEF TierPowResult

\* A challenge and its solution, as tier_pow_verify_serialize_inputs writes them.
LEMMA TierPowInputsLaid ==
    Laid(TierPowInputs, 0, 64, {"challenge"} \cup {"solve"})
  <1> DEFINE C == Within(0, "challenge", TierPowChallenge)
             D == Within(44, "solve", TierPowSolve)
  <1>1. Laid(C, 0, 44, {"challenge"})
    <2>1. After(0, 44) = 44
      BY DEF After
    <2> QED BY <2>1, TierPowChallengeLaid, LaidAt
  <1>2. Laid(D, 44, 64, {"solve"})
    <2>1. After(44, 20) = 64
      BY DEF After
    <2> QED BY <2>1, TierPowSolveLaid, LaidAt
  <1>3. Laid(C \o D, 0, 64, {"challenge"} \cup {"solve"})
    <2> HIDE DEF C, D
    <2> QED BY <1>1, <1>2, LaidConcat
  <1> QED BY <1>3 DEF TierPowInputs

\* A block after its certificate.
BlockRest ==
    (BlockOwn \o Within(BLOCK_SIZE, "miniPowResult", MiniPowResult))
      \o Within(BLOCK_SIZE + MINI_POW_RESULT_SERIALIZED_SIZE,
                "tierPoWResult", TierPowResult)

BlockNames ==
    {"CurrentCertHash"} \cup {"prevHash"} \cup {"SignedByVerifier"}
      \cup {"height"} \cup {"timestamp"} \cup {"tier"} \cup {"reserved"}
      \cup {"miniPowResult"} \cup {"tierPoWResult"}

\* A block after its certificate is laid without a gap.
LEMMA BlockRestLaid == Laid(BlockRest, 68, 304, BlockNames)
  <1> DEFINE G == {"CurrentCertHash"} \cup {"prevHash"}
                    \cup {"SignedByVerifier"} \cup {"height"}
                    \cup {"timestamp"} \cup {"tier"} \cup {"reserved"}
             C == Within(216, "miniPowResult", MiniPowResult)
             D == Within(228, "tierPoWResult", TierPowResult)
  <1>1. Laid(C, 216, 228, {"miniPowResult"})
    <2>1. After(216, 12) = 228
      BY DEF After
    <2> QED BY <2>1, MiniPowResultLaid, LaidAt
  <1>2. Laid(D, 228, 304, {"tierPoWResult"})
    <2>1. After(228, 76) = 304
      BY DEF After
    <2> QED BY <2>1, TierPowResultLaid, LaidAt
  <1>3. Laid(BlockOwn \o C, 68, 228, G \cup {"miniPowResult"})
    <2> HIDE DEF C
    <2> QED BY <1>1, BlockOwnLaid, LaidConcat
  <1>4. Laid((BlockOwn \o C) \o D, 68, 304,
             G \cup {"miniPowResult"} \cup {"tierPoWResult"})
    <2> HIDE DEF C, D
    <2> QED BY <1>2, <1>3, LaidConcat
  <1> QED BY <1>4 DEF BlockRest, BlockNames

-----------------------------------------------------------------------------
(* Every layout fits its buffer.                                           *)

\* Only what lies beyond CERT_SIZE of a certificate's byte arrays is where q
\* may also lie.
LosesEnd(p, q) ==
    /\ p.field[1] = "cert" /\ CERT_SIZE <= q.at
    /\ p.unit = 1 \/ p.at + p.width <= CERT_SIZE

\* And all of what lies there is where a later field also lies.
EndCovered(L, i) ==
    \A a \in Cells(L[i]) :
        L[i].field[1] = "cert" /\ CERT_SIZE <= a =>
            \E k \in 1..Len(L) :
                i < k /\ a \in Cells(L[k]) /\ L[k].field[1] # "cert"

Fitted(L, R) ==
    /\ IsLayout(L)
    /\ \A i \in 1..Len(L) : L[i].at + L[i].width <= R /\ WholeWords(L[i])
    /\ \A i, j \in 1..Len(L) :
         /\ i < j => Before(L[i], L[j]) \/ LosesEnd(L[i], L[j])
         /\ i # j => L[i].field # L[j].field
    /\ \A i \in 1..Len(L) : EndCovered(L, i)
    /\ \A a \in 0..(R - 1) : \E i \in 1..Len(L) : a \in Cells(L[i])

\* A layout without a gap, and without a certificate, fits.
LEMMA LaidFits ==
    ASSUME NEW L, NEW R \in Nat, NEW G, "cert" \notin G, Laid(L, 0, R, G)
    PROVE  Fitted(L, R)
  <1>1. \A i \in 1..Len(L) : EndCovered(L, i)
    BY DEF Laid, EndCovered
  <1> QED BY <1>1 DEF Laid, Fitted

\* A certificate loses at most its end to what follows at CERT_SIZE.
LEMMA CertificateFits ==
    ASSUME NEW M, NEW R \in Nat, NEW H, "cert" \notin H, 83 <= R,
           Laid(M, CERT_SIZE, R, H)
    PROVE  Fitted(Within(0, "cert", Certificate) \o M, R)
  <1> DEFINE L == Within(0, "cert", Certificate)
             N == L \o M
             I == 1..Len(L)
             K == 1..Len(M)
  <1>0. Laid(L, 0, 83, {"cert"})
    <2>1. After(0, 83) = 83
      BY DEF After
    <2> QED BY <2>1, CertificateLaid, LaidAt
  <1>c. \A i \in I : /\ L[i].at \in Nat /\ L[i].width \in Nat
                     /\ L[i].unit = 1 \/ L[i].at + L[i].width <= CERT_SIZE
    <2>1. Len(Certificate) = 4
      BY DEF Certificate
    <2>2. Len(L) = 4 /\ \A i \in 1..4 : /\ L[i].at = Certificate[i].at + 0
                                        /\ L[i].width = Certificate[i].width
                                        /\ L[i].unit = Certificate[i].unit
      BY <2>1 DEF Within
    <2>3. /\ Certificate[1] = Field("pubSignKey", 0, 32, 8)
          /\ Certificate[2] = Field("pubEncKey", 32, 32, 8)
          /\ Certificate[3] = Field("id", 64, 16, 1)
          /\ Certificate[4] = Field("reserved", 80, 3, 1)
      BY DEF Certificate
    <2>4. /\ L[1].at = 0 /\ L[1].width = 32
          /\ L[2].at = 32 /\ L[2].width = 32
          /\ L[3].at = 64 /\ L[3].width = 16 /\ L[3].unit = 1
          /\ L[4].at = 80 /\ L[4].width = 3 /\ L[4].unit = 1
      BY <2>2, <2>3 DEF Field
    <2> HIDE DEF L
    <2>5. \A i \in I : i = 1 \/ i = 2 \/ i = 3 \/ i = 4
      BY <2>2
    <2> QED BY <2>4, <2>5
  <1> HIDE DEF L
  <1>1. /\ IsLayout(N) /\ Len(N) = Len(L) + Len(M)
        /\ \A i \in I : N[i] = L[i]
        /\ \A k \in K : N[Len(L) + k] = M[k]
        /\ \A i \in 1..Len(N) : i \notin I => i - Len(L) \in K
    <2>1. IsLayout(L) /\ IsLayout(M)
      BY <1>0 DEF Laid
    <2> QED BY <2>1, LayoutConcat
  <1>2. /\ Len(L) \in Nat /\ Len(M) \in Nat
        /\ \A k \in K : M[k].at \in Nat /\ M[k].width \in Nat
    BY <1>0, LayoutField DEF Laid
  <1>a. /\ \A i \in I : /\ L[i].at + L[i].width <= 83
                        /\ WholeWords(L[i]) /\ L[i].field[1] = "cert"
        /\ \A i, j \in I : i < j => Before(L[i], L[j])
        /\ \A i, j \in I : i # j => L[i].field # L[j].field
        /\ \A x \in 0..82 : \E i \in I : x \in Cells(L[i])
    <2>1. 83 - 1 = 82
      OBVIOUS
    <2> QED BY <1>0, <2>1 DEF Laid
  <1>b. /\ \A k \in K : /\ CERT_SIZE <= M[k].at /\ M[k].at + M[k].width <= R
                        /\ WholeWords(M[k]) /\ M[k].field[1] \in H
        /\ \A k, l \in K : k < l => Before(M[k], M[l])
        /\ \A k, l \in K : k # l => M[k].field # M[l].field
        /\ \A x \in CERT_SIZE..(R - 1) : \E k \in K : x \in Cells(M[k])
    BY DEF Laid
  <1>d. ASSUME NEW i \in I, NEW k \in K
        PROVE  LosesEnd(L[i], M[k]) /\ L[i].field # M[k].field
    <2>1. LosesEnd(L[i], M[k])
      BY <1>a, <1>b, <1>c DEF LosesEnd
    <2>2. L[i].field[1] = "cert" /\ M[k].field[1] \in H
      BY <1>a, <1>b
    <2>3. L[i].field # M[k].field
      BY <2>2
    <2> QED BY <2>1, <2>3
  <1> HIDE DEF N
  <1>3. ASSUME NEW i \in 1..Len(N)
        PROVE  \/ i \in I /\ N[i] = L[i]
               \/ \E k \in K : i = Len(L) + k /\ N[i] = M[k]
    <2>1. CASE i \notin I
      <3>1. i - Len(L) \in K /\ i = Len(L) + (i - Len(L))
        BY <1>1, <1>2, <2>1
      <3> QED BY <1>1, <3>1
    <2> QED BY <1>1, <2>1
  <1>4. ASSUME NEW i \in 1..Len(N)
        PROVE  N[i].at + N[i].width <= R /\ WholeWords(N[i])
    <2>1. CASE i \in I /\ N[i] = L[i]
      <3>1. L[i].at \in Nat /\ L[i].width \in Nat
            /\ L[i].at + L[i].width <= 83 /\ WholeWords(L[i])
        BY <1>a, <1>c, <2>1
      <3>2. L[i].at + L[i].width <= R
        BY <3>1
      <3> QED BY <2>1, <3>1, <3>2
    <2>2. ASSUME NEW k \in K, N[i] = M[k]
          PROVE  N[i].at + N[i].width <= R /\ WholeWords(N[i])
      BY <1>b, <2>2
    <2> QED BY <1>3, <2>1, <2>2
  <1>5. ASSUME NEW i \in 1..Len(N), NEW j \in 1..Len(N)
        PROVE  /\ i < j => Before(N[i], N[j]) \/ LosesEnd(N[i], N[j])
               /\ i # j => N[i].field # N[j].field
    <2>1. CASE i \in I /\ N[i] = L[i] /\ j \in I /\ N[j] = L[j]
      BY <1>a, <2>1
    <2>2. ASSUME NEW k \in K, i \in I, N[i] = L[i], j = Len(L) + k, N[j] = M[k]
          PROVE  LosesEnd(N[i], N[j]) /\ N[i].field # N[j].field
      BY <1>d, <2>2
    <2>3. ASSUME NEW k \in K, j \in I, N[j] = L[j], i = Len(L) + k, N[i] = M[k]
          PROVE  ~(i < j) /\ N[i].field # N[j].field
      <3>1. N[i].field # N[j].field
        BY <1>d, <2>3
      <3> QED BY <1>2, <2>3, <3>1
    <2>4. ASSUME NEW k \in K, NEW l \in K, i = Len(L) + k, N[i] = M[k],
                 j = Len(L) + l, N[j] = M[l]
          PROVE  /\ i < j => Before(N[i], N[j])
                 /\ i # j => N[i].field # N[j].field
      <3>1. (i < j => k < l) /\ (i # j => k # l)
        BY <1>2, <2>4
      <3> QED BY <1>b, <2>4, <3>1
    <2>5. \/ i \in I /\ N[i] = L[i]
          \/ \E k \in K : i = Len(L) + k /\ N[i] = M[k]
      BY <1>3
    <2>6. \/ j \in I /\ N[j] = L[j]
          \/ \E k \in K : j = Len(L) + k /\ N[j] = M[k]
      BY <1>3
    <2>7. CASE i \in I /\ N[i] = L[i]
      BY <2>1, <2>2, <2>6, <2>7
    <2>8. ASSUME NEW k \in K, i = Len(L) + k, N[i] = M[k]
          PROVE  /\ i < j => Before(N[i], N[j])
                 /\ i # j => N[i].field # N[j].field
      BY <2>3, <2>4, <2>6, <2>8
    <2> QED BY <2>5, <2>7, <2>8
  <1>6. ASSUME NEW a \in 0..(R - 1)
        PROVE  \E i \in 1..Len(N) : a \in Cells(N[i])
    <2>1. CASE a < CERT_SIZE
      <3>a. a \in 0..82
        BY <2>1
      <3>1. PICK i \in I : a \in Cells(L[i])
        BY <1>a, <3>a
      <3>2. i \in 1..Len(N) /\ N[i] = L[i]
        BY <1>1, <1>2
      <3> QED BY <3>1, <3>2
    <2>2. CASE ~(a < CERT_SIZE)
      <3>a. a \in CERT_SIZE..(R - 1)
        BY <2>2
      <3>1. PICK k \in K : a \in Cells(M[k])
        BY <1>b, <3>a
      <3>2. Len(L) + k \in 1..Len(N) /\ N[Len(L) + k] = M[k]
        BY <1>1, <1>2
      <3> QED BY <3>1, <3>2
    <2> QED BY <2>1, <2>2
  <1>7. ASSUME NEW i \in 1..Len(N) PROVE EndCovered(N, i)
    <2> SUFFICES ASSUME NEW a \in Cells(N[i]), N[i].field[1] = "cert",
                        CERT_SIZE <= a
                 PROVE  \E k \in 1..Len(N) : /\ i < k /\ a \in Cells(N[k])
                                              /\ N[k].field[1] # "cert"
      BY DEF EndCovered
    <2>1. i \in I /\ N[i] = L[i]
      <3>1. ASSUME NEW k \in K, N[i] = M[k] PROVE FALSE
        <4>1. M[k].field[1] \in H
          BY <1>b
        <4> QED BY <3>1, <4>1
      <3> QED BY <1>3, <3>1
    <2>2. a <= 82
      <3>1. L[i].at \in Nat /\ L[i].width \in Nat /\ L[i].at + L[i].width <= 83
        BY <1>a, <1>c, <2>1
      <3>2. a \in Cells(L[i])
        BY <2>1
      <3> QED BY <3>1, <3>2 DEF Cells
    <2>3. a \in CERT_SIZE..(R - 1)
      BY <1>c, <2>1, <2>2 DEF Cells
    <2>4. PICK k \in K : a \in Cells(M[k])
      BY <1>b, <2>3
    <2>5. Len(L) + k \in 1..Len(N) /\ N[Len(L) + k] = M[k] /\ i < Len(L) + k
      BY <1>1, <1>2, <2>1
    <2>6. M[k].field[1] # "cert"
      BY <1>b
    <2> QED BY <2>4, <2>5, <2>6
  <1>8. Fitted(N, R)
    BY <1>1, <1>4, <1>5, <1>6, <1>7 DEF Fitted
  <1> QED BY <1>8 DEF N, L

\* Three layouts may be put together in either order.
LEMMA LayoutAssociative ==
    ASSUME NEW L, NEW M, NEW N, IsLayout(L), IsLayout(M), IsLayout(N)
    PROVE  ((L \o M) \o N) = (L \o (M \o N))
  <1>1. PICK P : L \in Seq(FieldOf(P))
    BY DEF IsLayout
  <1>2. PICK Q : M \in Seq(FieldOf(Q))
    BY DEF IsLayout
  <1>3. PICK R : N \in Seq(FieldOf(R))
    BY DEF IsLayout
  <1> DEFINE S == FieldOf(P \cup Q \cup R)
  <1>4. FieldOf(P) \subseteq S /\ FieldOf(Q) \subseteq S /\ FieldOf(R) \subseteq S
    BY DEF FieldOf
  <1> HIDE DEF S
  <1>5. L \in Seq(S) /\ M \in Seq(S) /\ N \in Seq(S)
    BY <1>1, <1>2, <1>3, <1>4, SeqMonotonic
  <1> QED BY <1>5, ConcatAssociative

\* A block is its certificate and the rest.
LEMMA BlockFits == Fitted(Block, 304)
  <1> DEFINE L == Within(0, "cert", Certificate)
             C == Within(216, "miniPowResult", MiniPowResult)
             D == Within(228, "tierPoWResult", TierPowResult)
  <1>1. IsLayout(L)
    <2>1. After(0, 83) = 83
      BY DEF After
    <2>2. Laid(L, 0, 83, {"cert"})
      BY <2>1, CertificateLaid, LaidAt
    <2> QED BY <2>2 DEF Laid
  <1>2. IsLayout(C)
    <2>1. After(216, 12) = 228
      BY DEF After
    <2>2. Laid(C, 216, 228, {"miniPowResult"})
      BY <2>1, MiniPowResultLaid, LaidAt
    <2> QED BY <2>2 DEF Laid
  <1>3. IsLayout(D)
    <2>1. After(228, 76) = 304
      BY DEF After
    <2>2. Laid(D, 228, 304, {"tierPoWResult"})
      BY <2>1, TierPowResultLaid, LaidAt
    <2> QED BY <2>2 DEF Laid
  <1>4. IsLayout(BlockOwn)
    BY BlockOwnLaid DEF Laid
  <1>5. Block = ((L \o BlockOwn) \o C) \o D
    BY DEF Block
  <1>6. BlockRest = (BlockOwn \o C) \o D
    BY DEF BlockRest
  <1> HIDE DEF L, C, D
  <1>7. (L \o BlockOwn) \o C = L \o (BlockOwn \o C)
    BY <1>1, <1>2, <1>4, LayoutAssociative
  <1>8. IsLayout(BlockOwn \o C)
    BY <1>2, <1>4, LayoutConcat
  <1>9. (L \o (BlockOwn \o C)) \o D = L \o ((BlockOwn \o C) \o D)
    BY <1>1, <1>3, <1>8, LayoutAssociative
  <1>10. Block = L \o BlockRest
    BY <1>5, <1>6, <1>7, <1>9
  <1>11. "cert" \notin BlockNames
    BY DEF BlockNames
  <1>12. Fitted(L \o BlockRest, 304)
    BY <1>11, BlockRestLaid, CertificateFits DEF L
  <1> QED BY <1>10, <1>12

\* Every other structure fits the size its functions ask for.
LEMMA OthersFit ==
    ASSUME NEW f \in Structures, f # "cert"
    PROVE  Required(f) \in Nat /\ Fitted(Layout(f), Required(f))
  <1>1. CASE f = "uint256"
    <2>1. Laid(Uint256, 0, 32, {"w"})
      BY LaidOne, WholeWidths DEF Uint256
    <2> QED BY <1>1, <2>1, LaidFits DEF Layout, Required
  <1>2. CASE f = "uint512"
    <2>1. Laid(Uint512, 0, 64, {"w"})
      BY LaidOne, WholeWidths DEF Uint512
    <2> QED BY <1>2, <2>1, LaidFits DEF Layout, Required
  <1>3. CASE f = "pair"
    BY <1>3, Uint256PairLaid, LaidFits DEF Layout, Required
  <1>4. CASE f = "ipv6"
    <2>1. Laid(Ipv6, 0, 16, {"address"})
      BY LaidOne, WholeWidths DEF Ipv6
    <2> QED BY <1>4, <2>1, LaidFits DEF Layout, Required
  <1>5. CASE f = "solve"
    BY <1>5, TierPowSolveLaid, LaidFits DEF Layout, Required
  <1>6. CASE f = "challenge"
    BY <1>6, TierPowChallengeLaid, LaidFits DEF Layout, Required
  <1>7. CASE f = "tierResult"
    BY <1>7, TierPowResultLaid, LaidFits DEF Layout, Required
  <1>8. CASE f = "inputs"
    BY <1>8, TierPowInputsLaid, LaidFits DEF Layout, Required
  <1>9. CASE f = "miniResult"
    BY <1>9, MiniPowResultLaid, LaidFits DEF Layout, Required
  <1>10. CASE f = "block"
    BY <1>10, BlockFits DEF Layout, Required
  <1>11. CASE f = "seed"
    <2> DEFINE G == {"lastBlockHash"} \cup {"sessionId"} \cup {"challengeID"}
    <2>1. "cert" \notin G
      OBVIOUS
    <2>2. Laid(SeedOwn, CERT_SIZE, 108, G)
      BY SeedOwnLaid
    <2> HIDE DEF G
    <2>3. Fitted(Within(0, "cert", Certificate) \o SeedOwn, 108)
      BY <2>1, <2>2, CertificateFits
    <2> QED BY <1>11, <2>3 DEF Layout, Required, Seed
  <1> QED
    BY <1>1, <1>2, <1>3, <1>4, <1>5, <1>6, <1>7, <1>8, <1>9, <1>10, <1>11
       DEF Structures

\* What a structure takes: what its functions ask for, but for a certificate.
Extent(f) == IF f = "cert" THEN 83 ELSE Required(f)

\* Every structure fits that size.
LEMMA LayoutsFit ==
    ASSUME NEW f \in Structures
    PROVE  /\ Required(f) \in Nat /\ Extent(f) \in Nat
           /\ Required(f) <= Extent(f)
           /\ f # "cert" => Extent(f) = Required(f)
           /\ Fitted(Layout(f), Extent(f))
  <1>1. CASE f = "cert"
    <2> DEFINE G == {"pubSignKey"} \cup {"pubEncKey"} \cup {"id"}
                      \cup {"reserved"}
    <2>1. "cert" \notin G
      OBVIOUS
    <2>2. Laid(Certificate, 0, 83, G)
      BY CertificateLaid
    <2> HIDE DEF G
    <2>3. Fitted(Certificate, 83)
      BY <2>1, <2>2, LaidFits
    <2> QED BY <1>1, <2>3 DEF Layout, Required, Extent
  <1>2. CASE f # "cert"
    <2>1. Required(f) \in Nat /\ Fitted(Layout(f), Required(f))
      BY <1>2, OthersFit
    <2> QED BY <1>2, <2>1 DEF Extent
  <1> QED BY <1>1, <1>2

-----------------------------------------------------------------------------
(* The exchange of a structure.                                            *)

\* The fields that were written to the buffer.
PutSoFar ==
    CASE phase = "writing" -> 1..(step - 1)
      [] phase \in {"call", "refused"} -> {}
      [] OTHER -> 1..Len(Layout(fmt))

\* The fields the receiver has.
TakenSoFar ==
    CASE phase = "reading" -> 1..(step - 1)
      [] phase \in {"received", "overrun"} -> 1..Len(Layout(fmt))
      [] OTHER -> {}

\* A byte of the buffer belongs to a field that was put there; a field is there
\* as far as the buffer goes, but for the bytes that a later one was put over.
BufInv ==
    /\ \A a \in DOMAIN buf : \E i \in PutSoFar :
         a \in Cells(Layout(fmt)[i]) /\ buf[a] = ByteAt(Layout(fmt)[i], a)
    /\ \A i \in PutSoFar : \A a \in Cells(Layout(fmt)[i]) :
         phase # "overrun" /\ a < room =>
         /\ a \in DOMAIN buf
         /\ (\A j \in PutSoFar : i < j => a \notin Cells(Layout(fmt)[j]))
              => buf[a] = ByteAt(Layout(fmt)[i], a)
    /\ phase \in {"writing", "sent"} =>
         \A i \in PutSoFar : InRoom(Layout(fmt)[i])

\* A field the receiver has holds the bytes found at its offset.
ObjInv ==
    /\ \A n \in DOMAIN obj : \E i \in TakenSoFar :
         n = Layout(fmt)[i].field /\ DOMAIN obj[n] = Bytes(Layout(fmt)[i])
    /\ phase # "overrun" =>
         \A i \in TakenSoFar :
           /\ InRoom(Layout(fmt)[i])
           /\ Layout(fmt)[i].field \in DOMAIN obj
           /\ obj[Layout(fmt)[i].field] =
                [j \in Bytes(Layout(fmt)[i]) |-> buf[Source(Layout(fmt)[i], j)]]

\* Only a certificate runs out of its buffer, one too small for it.
CallInv ==
    /\ fmt \in Formats /\ from \in Hosts /\ to \in Hosts /\ room \in Nat
    /\ phase \in {"call", "refused", "writing", "sent", "arrived", "unread",
                  "reading", "received", "overrun"}
    /\ step \in 1..(Len(Layout(fmt)) + 1)
    /\ phase \in {"writing", "sent", "reading", "received"} => Fits
    /\ phase \in {"call", "sent", "arrived"} => step = 1
    /\ phase \in {"call", "refused"} => buf = <<>>
    /\ phase \in {"call", "refused", "writing", "sent", "arrived", "unread"} =>
         obj = <<>>
    /\ phase = "overrun" => fmt = "cert" /\ room < 83

WireInv == CallInv /\ BufInv /\ ObjInv

\* What the proofs use of the layout of the structure exchanged.
LEMMA LayoutFacts ==
    ASSUME NEW f \in Formats
    PROVE  /\ f \in Structures /\ Required(f) \in Nat /\ Extent(f) \in Nat
           /\ Required(f) <= Extent(f)
           /\ f # "cert" => Extent(f) = Required(f)
           /\ Len(Layout(f)) \in Nat /\ DOMAIN Layout(f) = 1..Len(Layout(f))
           /\ \A i \in 1..Len(Layout(f)) :
                /\ Layout(f)[i].at \in Nat /\ Layout(f)[i].width \in Nat
                /\ Layout(f)[i].unit \in Units
                /\ Layout(f)[i].at + Layout(f)[i].width <= Extent(f)
                /\ WholeWords(Layout(f)[i])
  <1>1. f \in Structures
    BY WireAssumption
  <1>2. Fitted(Layout(f), Extent(f))
    BY <1>1, LayoutsFit
  <1> QED BY <1>1, <1>2, LayoutsFit, LayoutField DEF Fitted

\* A byte of a field is somewhere among its cells, and comes from there.
LEMMA CellOfByte ==
    ASSUME NEW p, p.at \in Nat, p.width \in Nat, p.unit \in Units,
           WholeWords(p), NEW j \in Bytes(p), NEW h \in Hosts
    PROVE  /\ Flip(h, p.unit, j) \in Bytes(p)
           /\ p.at + Flip(h, p.unit, j) \in Cells(p)
           /\ Flip(h, p.unit, Flip(h, p.unit, j)) = j
           /\ p.unit = 1 => Flip(h, p.unit, j) = j
  <1> DEFINE n == p.width
             u == p.unit
  <1>1. n \in Nat /\ u \in Units /\ n % u = 0 /\ j \in 0..(n - 1)
    BY DEF WholeWords, Bytes
  <1> HIDE DEF n, u
  <1>2. /\ Flip(h, u, j) \in 0..(n - 1)
        /\ Flip(h, u, Flip(h, u, j)) = j
        /\ u = 1 => Flip(h, u, j) = j
    BY <1>1, FlipInside
  <1>3. Flip(h, p.unit, j) \in 0..(p.width - 1)
    BY <1>2 DEF n, u
  <1>4. p.at + Flip(h, p.unit, j) \in Cells(p)
    <2> DEFINE x == Flip(h, p.unit, j)
    <2>1. x \in 0..(p.width - 1)
      BY <1>3
    <2> HIDE DEF x
    <2>2. p.at + x \in Cells(p)
      BY <2>1 DEF Cells
    <2> QED BY <2>2 DEF x
  <1> QED BY <1>2, <1>3, <1>4 DEF n, u, Bytes

\* What is in a cell of a field.
LEMMA ByteInCell ==
    ASSUME NEW p, p.at \in Nat, p.width \in Nat, p.unit \in Units,
           WholeWords(p), NEW k \in Bytes(p), from \in Hosts
    PROVE  ByteAt(p, p.at + k) = <<p.field, Flip(from, p.unit, k)>>
  <1>1. k \in Int /\ p.at + k - p.at = k
    BY DEF Bytes
  <1> QED BY <1>1 DEF ByteAt, Flip

\* Every cell holds a byte of the field.
LEMMA CellHoldsByte ==
    ASSUME NEW p, p.at \in Nat, p.width \in Nat, p.unit \in Units,
           WholeWords(p), NEW a \in Cells(p), from \in Hosts
    PROVE  ByteAt(p, a) \in {p.field} \X Bytes(p)
  <1>1. a - p.at \in Bytes(p) /\ a = p.at + (a - p.at)
    BY DEF Cells, Bytes
  <1>2. ByteAt(p, a) = <<p.field, Flip(from, p.unit, a - p.at)>>
    BY <1>1, ByteInCell
  <1>3. Flip(from, p.unit, a - p.at) \in Bytes(p)
    BY <1>1, CellOfByte
  <1> QED BY <1>2, <1>3

\* A buffer has a size.
LEMMA RoomIsSize ==
    ASSUME NEW f \in Formats, NEW n \in Rooms(f)
    PROVE  n \in Nat
  <1>1. Required(f) \in Nat
    BY LayoutFacts
  <1>2. CASE f = "seed"
    BY <1>1, <1>2 DEF Rooms
  <1>3. CASE f # "seed"
    <2>1. PICK d \in Slack : n = Required(f) + d /\ n >= 0
      BY <1>3 DEF Rooms
    <2> QED BY <1>1, <2>1, WireAssumption
  <1> QED BY <1>2, <1>3

\* Initially.
LEMMA InitWire == Init => WireInv
  <1> SUFFICES ASSUME Init PROVE WireInv
    OBVIOUS
  <1>1. fmt \in Formats
    BY DEF Init
  <1>2. room \in Nat
    BY <1>1, RoomIsSize DEF Init
  <1>3. 1 \in 1..(Len(Layout(fmt)) + 1)
    BY <1>1, LayoutFacts
  <1>4. CallInv
    BY <1>1, <1>2, <1>3 DEF Init, CallInv
  <1>5. PutSoFar = {} /\ TakenSoFar = {}
    BY DEF Init, PutSoFar, TakenSoFar
  <1>6. BufInv
    BY <1>5 DEF Init, BufInv
  <1>7. ObjInv
    BY <1>5 DEF Init, ObjInv
  <1> QED BY <1>4, <1>6, <1>7 DEF WireInv

\* A step that leaves the buffer alone.
LEMMA SameBuf ==
    ASSUME BufInv, PutSoFar' = PutSoFar, UNCHANGED <<fmt, from, room, buf>>,
           phase # "overrun", phase' \in {"writing", "sent"} =>
                                phase \in {"writing", "sent"} \/ PutSoFar = {}
    PROVE  BufInv'
  BY DEF BufInv, ByteAt, InRoom

\* A step that leaves the structure alone.
LEMMA SameObj ==
    ASSUME ObjInv, TakenSoFar' = TakenSoFar, phase # "overrun",
           UNCHANGED <<fmt, to, room, buf, obj>>
    PROVE  ObjInv'
  BY DEF ObjInv, Source, InRoom

\* One in which the receiver still has nothing.
LEMMA NoObj ==
    ASSUME obj' = <<>>, TakenSoFar' = {}
    PROVE  ObjInv'
  BY DEF ObjInv

\* A refused call has touched nothing.
LEMMA StepRefuse == WireInv /\ Refuse => WireInv'
  <1> SUFFICES ASSUME WireInv, Refuse PROVE WireInv'
    OBVIOUS
  <1>1. phase = "call" /\ buf = <<>> /\ obj = <<>>
    BY DEF WireInv, CallInv, Refuse
  <1>2. CallInv'
    BY <1>1 DEF WireInv, CallInv, Refuse, Fits
  <1>3. PutSoFar' = {} /\ TakenSoFar' = {} /\ phase' = "refused"
    BY DEF Refuse, PutSoFar, TakenSoFar
  <1>4. buf' = <<>> /\ obj' = <<>>
    BY <1>1 DEF Refuse
  <1>5. BufInv' /\ ObjInv'
    BY <1>3, <1>4 DEF BufInv, ObjInv
  <1> QED BY <1>2, <1>5 DEF WireInv

\* Nothing is written yet.
LEMMA StepSerialize == WireInv /\ Serialize => WireInv'
  <1> SUFFICES ASSUME WireInv, Serialize PROVE WireInv'
    OBVIOUS
  <1>1. step = 1 /\ phase = "call" /\ phase' = "writing" /\ step' = 1
    BY DEF WireInv, CallInv, Serialize
  <1>2. CallInv'
    BY <1>1 DEF WireInv, CallInv, Serialize, Fits
  <1>3. PutSoFar = {} /\ PutSoFar' = {} /\ TakenSoFar' = TakenSoFar
    BY <1>1 DEF PutSoFar, TakenSoFar
  <1>4. BufInv'
    BY <1>1, <1>3, SameBuf DEF WireInv, Serialize
  <1>5. ObjInv'
    BY <1>1, <1>3, SameObj DEF WireInv, Serialize
  <1> QED BY <1>2, <1>4, <1>5 DEF WireInv

\* The next field is put over whatever its cells held.
LEMMA StepPut == WireInv /\ Put => WireInv'
  <1> SUFFICES ASSUME WireInv, Put PROVE WireInv'
    OBVIOUS
  <1> DEFINE L == Layout(fmt)
             p == Piece
  <1>1. /\ phase = "writing" /\ phase' = "writing" /\ step' = step + 1
        /\ fmt' = fmt /\ from' = from /\ to' = to /\ room' = room /\ obj' = obj
        /\ ~(step > Len(L))
    BY DEF Put, AtEnd
  <1>2. Len(L) \in Nat /\ step \in 1..(Len(L) + 1) /\ fmt \in Formats
    BY LayoutFacts DEF WireInv, CallInv
  <1>3. step \in 1..Len(L) /\ step' \in 1..(Len(L) + 1) /\ p = L[step]
    BY <1>1, <1>2 DEF Piece
  <1>4. CallInv'
    BY <1>1, <1>3 DEF WireInv, CallInv, Fits
  <1>5. PutSoFar = 1..(step - 1) /\ PutSoFar' = 1..step
        /\ TakenSoFar' = TakenSoFar
    <2>1. step' - 1 = step
      BY <1>1, <1>2
    <2> QED BY <1>1, <2>1 DEF PutSoFar, TakenSoFar
  <1>6. /\ DOMAIN buf' = Cells(p) \cup DOMAIN buf
        /\ \A a \in DOMAIN buf' :
             buf'[a] = IF a \in Cells(p) THEN ByteAt(p, a) ELSE buf[a]
    BY DEF Put
  <1>7. \A q, a : ByteAt(q, a)' = ByteAt(q, a) /\ InRoom(q)' = InRoom(q)
    BY <1>1 DEF ByteAt, InRoom
  <1> HIDE DEF p
  <1>8. \A a \in DOMAIN buf' : \E i \in PutSoFar' :
          a \in Cells(L[i]) /\ buf'[a] = ByteAt(L[i], a)
    <2> TAKE a \in DOMAIN buf'
    <2>1. CASE a \in Cells(p)
      BY <1>2, <1>3, <1>5, <1>6, <2>1
    <2>2. CASE a \notin Cells(p)
      <3>1. a \in DOMAIN buf /\ buf'[a] = buf[a]
        BY <1>6, <2>2
      <3>2. PICK i \in PutSoFar : a \in Cells(L[i]) /\ buf[a] = ByteAt(L[i], a)
        BY <3>1 DEF WireInv, BufInv
      <3>3. i \in PutSoFar'
        BY <1>2, <1>5
      <3> QED BY <3>1, <3>2, <3>3
    <2> QED BY <2>1, <2>2
  <1>9. ASSUME NEW i \in PutSoFar', NEW a \in Cells(L[i]), a < room
        PROVE  /\ a \in DOMAIN buf'
               /\ (\A j \in PutSoFar' : i < j => a \notin Cells(L[j]))
                    => buf'[a] = ByteAt(L[i], a)
    <2>1. CASE i = step
      BY <1>3, <1>6, <2>1
    <2>2. CASE i # step
      <3>1. i \in PutSoFar /\ i < step /\ step \in PutSoFar'
        BY <1>2, <1>5, <2>2
      <3>2. /\ a \in DOMAIN buf
            /\ (\A j \in PutSoFar : i < j => a \notin Cells(L[j]))
                 => buf[a] = ByteAt(L[i], a)
        BY <1>1, <1>9, <3>1 DEF WireInv, BufInv
      <3>3. ASSUME \A j \in PutSoFar' : i < j => a \notin Cells(L[j])
            PROVE  buf'[a] = ByteAt(L[i], a)
        <4>1. a \notin Cells(p)
          BY <1>3, <3>1, <3>3
        <4>2. \A j \in PutSoFar : j \in PutSoFar'
          BY <1>2, <1>5
        <4>3. buf[a] = ByteAt(L[i], a)
          BY <3>2, <3>3, <4>2
        <4> QED BY <1>6, <3>2, <4>1, <4>3
      <3> QED BY <1>6, <3>2, <3>3
    <2> QED BY <2>1, <2>2
  <1>a. ASSUME NEW i \in PutSoFar' PROVE InRoom(L[i])
    <2>1. CASE i = step
      BY <1>3, <2>1 DEF Put, p
    <2>2. CASE i # step
      BY <1>1, <1>2, <1>5, <2>2 DEF WireInv, BufInv
    <2> QED BY <2>1, <2>2
  <1>10. BufInv'
    <2>1. Layout(fmt)' = L
      BY <1>1
    <2> HIDE DEF L
    <2> QED BY <1>1, <1>7, <1>8, <1>9, <1>a, <2>1 DEF BufInv
  <1>11. ObjInv'
    <2>1. TakenSoFar = {} /\ TakenSoFar' = {} /\ obj = <<>>
      BY <1>1 DEF TakenSoFar, WireInv, CallInv
    <2> QED BY <1>1, <2>1 DEF ObjInv
  <1> QED BY <1>4, <1>10, <1>11 DEF WireInv

\* Every field is in the buffer.
LEMMA StepSend == WireInv /\ Send => WireInv'
  <1> SUFFICES ASSUME WireInv, Send PROVE WireInv'
    OBVIOUS
  <1>1. /\ phase = "writing" /\ phase' = "sent" /\ step' = 1
        /\ fmt' = fmt /\ from' = from /\ to' = to /\ room' = room
        /\ buf' = buf /\ obj' = obj /\ step > Len(Layout(fmt))
    BY DEF Send, AtEnd
  <1>2. Len(Layout(fmt)) \in Nat /\ step \in 1..(Len(Layout(fmt)) + 1)
    BY LayoutFacts DEF WireInv, CallInv
  <1>3. step - 1 = Len(Layout(fmt)) /\ 1 \in 1..(Len(Layout(fmt)) + 1)
    BY <1>1, <1>2
  <1>4. CallInv'
    BY <1>1, <1>3 DEF WireInv, CallInv, Fits
  <1>5. PutSoFar' = PutSoFar /\ TakenSoFar' = TakenSoFar
    BY <1>1, <1>3 DEF PutSoFar, TakenSoFar
  <1>6. BufInv' /\ ObjInv'
    BY <1>1, <1>5, SameBuf, SameObj DEF WireInv
  <1> QED BY <1>4, <1>6 DEF WireInv

\* The receiver's buffer holds what it has room for.
LEMMA StepArrive == WireInv /\ Arrive => WireInv'
  <1> SUFFICES ASSUME WireInv, Arrive PROVE WireInv'
    OBVIOUS
  <1> DEFINE L == Layout(fmt)
             S == {a \in DOMAIN buf : a < room'}
  <1>1. /\ phase = "sent" /\ phase' = "arrived" /\ step' = step
        /\ fmt' = fmt /\ from' = from /\ to' = to /\ obj' = obj
        /\ room' \in Rooms(fmt)
    BY DEF Arrive
  <1>2. fmt \in Formats /\ room \in Nat
    BY DEF WireInv, CallInv
  <1>3. room' \in Nat
    BY <1>1, <1>2, RoomIsSize
  <1>4. CallInv'
    BY <1>1, <1>3 DEF WireInv, CallInv
  <1>5. PutSoFar = 1..Len(L) /\ PutSoFar' = PutSoFar /\ TakenSoFar' = {}
    BY <1>1 DEF PutSoFar, TakenSoFar
  <1>6. DOMAIN buf' = S /\ \A a \in S : buf'[a] = buf[a]
    <2>1. buf' = [a \in S |-> buf[a]]
      BY DEF Arrive, Restrict
    <2> HIDE DEF S
    <2> QED BY <2>1
  <1>7. \A q, a : ByteAt(q, a)' = ByteAt(q, a)
    BY <1>1 DEF ByteAt
  <1>8. ASSUME NEW a \in DOMAIN buf'
        PROVE  \E i \in PutSoFar : a \in Cells(L[i]) /\ buf'[a] = ByteAt(L[i], a)
    BY <1>6, <1>8 DEF WireInv, BufInv
  <1>9. ASSUME NEW i \in PutSoFar, NEW a \in Cells(L[i]), a < room'
        PROVE  /\ a \in DOMAIN buf'
               /\ (\A j \in PutSoFar : i < j => a \notin Cells(L[j]))
                    => buf'[a] = ByteAt(L[i], a)
    <2>1. L[i].at \in Nat /\ L[i].width \in Nat
      BY <1>2, <1>5, LayoutFacts
    <2>2. InRoom(L[i])
      BY <1>1 DEF WireInv, BufInv
    <2>3. a < room
      BY <1>2, <2>1, <2>2 DEF InRoom, Cells
    <2>4. /\ a \in DOMAIN buf
          /\ (\A j \in PutSoFar : i < j => a \notin Cells(L[j]))
               => buf[a] = ByteAt(L[i], a)
      BY <1>1, <2>3 DEF WireInv, BufInv
    <2> QED BY <1>6, <1>9, <2>4
  <1>10. BufInv'
    <2>1. Layout(fmt)' = L
      BY <1>1
    <2> HIDE DEF L, S
    <2> QED BY <1>1, <1>5, <1>7, <1>8, <1>9, <2>1 DEF BufInv
  <1>11. obj' = <<>>
    BY <1>1 DEF WireInv, CallInv
  <1>12. ObjInv'
    BY <1>5, <1>11, NoObj
  <1> QED BY <1>4, <1>10, <1>12 DEF WireInv

\* A refused deserializer has read nothing.
LEMMA StepRefuseRead == WireInv /\ RefuseRead => WireInv'
  <1> SUFFICES ASSUME WireInv, RefuseRead PROVE WireInv'
    OBVIOUS
  <1>1. /\ phase = "arrived" /\ phase' = "unread" /\ step' = step
        /\ fmt' = fmt /\ from' = from /\ to' = to /\ room' = room
        /\ buf' = buf /\ obj' = obj
    BY DEF RefuseRead
  <1>2. CallInv'
    BY <1>1 DEF WireInv, CallInv
  <1>3. PutSoFar' = PutSoFar /\ TakenSoFar = {} /\ TakenSoFar' = {}
    BY <1>1 DEF PutSoFar, TakenSoFar
  <1>4. BufInv' /\ ObjInv'
    BY <1>1, <1>3, SameBuf, SameObj DEF WireInv
  <1> QED BY <1>2, <1>4 DEF WireInv

\* Nothing is read yet.
LEMMA StepDeserialize == WireInv /\ Deserialize => WireInv'
  <1> SUFFICES ASSUME WireInv, Deserialize PROVE WireInv'
    OBVIOUS
  <1>1. /\ phase = "arrived" /\ phase' = "reading" /\ step = 1 /\ step' = step
        /\ fmt' = fmt /\ from' = from /\ to' = to /\ room' = room
        /\ buf' = buf /\ obj' = obj /\ Fits
    BY DEF Deserialize, WireInv, CallInv
  <1>2. CallInv'
    BY <1>1 DEF WireInv, CallInv, Fits
  <1>3. PutSoFar' = PutSoFar /\ TakenSoFar = {} /\ TakenSoFar' = {}
    BY <1>1 DEF PutSoFar, TakenSoFar
  <1>4. BufInv' /\ ObjInv'
    BY <1>1, <1>3, SameBuf, SameObj DEF WireInv
  <1> QED BY <1>2, <1>4 DEF WireInv

\* The next field is read; no other field has its name.
LEMMA StepTake == WireInv /\ Take => WireInv'
  <1> SUFFICES ASSUME WireInv, Take PROVE WireInv'
    OBVIOUS
  <1> DEFINE L == Layout(fmt)
             p == Piece
             Read(q) == [j \in Bytes(q) |-> buf[Source(q, j)]]
  <1>1. /\ phase = "reading" /\ phase' = "reading" /\ step' = step + 1
        /\ fmt' = fmt /\ from' = from /\ to' = to /\ room' = room /\ buf' = buf
        /\ ~(step > Len(L))
    BY DEF Take, AtEnd
  <1>2. Len(L) \in Nat /\ step \in 1..(Len(L) + 1) /\ fmt \in Formats
    BY LayoutFacts DEF WireInv, CallInv
  <1>3. step \in 1..Len(L) /\ step' \in 1..(Len(L) + 1) /\ p = L[step]
    BY <1>1, <1>2 DEF Piece
  <1>4. CallInv'
    BY <1>1, <1>3 DEF WireInv, CallInv, Fits
  <1>5. TakenSoFar = 1..(step - 1) /\ TakenSoFar' = 1..step
        /\ PutSoFar' = PutSoFar
    <2>1. step' - 1 = step
      BY <1>1, <1>2
    <2> QED BY <1>1, <2>1 DEF PutSoFar, TakenSoFar
  <1>6. BufInv'
    BY <1>1, <1>5, SameBuf DEF WireInv
  <1>7. /\ DOMAIN obj' = {p.field} \cup DOMAIN obj
        /\ \A n \in DOMAIN obj' :
             obj'[n] = IF n = p.field THEN Read(p) ELSE obj[n]
    <2>1. obj' = [n \in DOMAIN obj \cup {p.field} |->
                    IF n = p.field THEN Read(p) ELSE obj[n]]
      BY DEF Take
    <2> HIDE DEF p, Read
    <2> QED BY <2>1
  <1>8. \A q, j : Source(q, j)' = Source(q, j) /\ InRoom(q)' = InRoom(q)
    BY <1>1 DEF Source, InRoom
  <1>9. \A i, j \in 1..Len(L) : i # j => L[i].field # L[j].field
    BY <1>2, LayoutFacts, LayoutsFit DEF Fitted
  <1>10. /\ \A n \in DOMAIN obj : \E i \in TakenSoFar :
              n = L[i].field /\ DOMAIN obj[n] = Bytes(L[i])
         /\ \A i \in TakenSoFar : /\ InRoom(L[i])
                                  /\ L[i].field \in DOMAIN obj
                                  /\ obj[L[i].field] = Read(L[i])
    BY <1>1 DEF WireInv, ObjInv
  <1>b. InRoom(p) /\ DOMAIN Read(p) = Bytes(p)
    BY DEF Take
  <1> HIDE DEF p, Read
  <1>11. ASSUME NEW n \in DOMAIN obj'
         PROVE  \E i \in TakenSoFar' :
                  n = L[i].field /\ DOMAIN obj'[n] = Bytes(L[i])
    <2>1. CASE n = p.field
      BY <1>2, <1>3, <1>5, <1>7, <1>b, <2>1
    <2>2. CASE n # p.field
      <3>1. n \in DOMAIN obj /\ obj'[n] = obj[n]
        BY <1>7, <2>2
      <3>2. PICK i \in TakenSoFar : n = L[i].field /\ DOMAIN obj[n] = Bytes(L[i])
        BY <1>10, <3>1
      <3>3. i \in TakenSoFar'
        BY <1>2, <1>5
      <3> QED BY <3>1, <3>2, <3>3
    <2> QED BY <2>1, <2>2
  <1>12. ASSUME NEW i \in TakenSoFar'
         PROVE  /\ InRoom(L[i])
                /\ L[i].field \in DOMAIN obj'
                /\ obj'[L[i].field] = Read(L[i])
    <2>1. CASE i = step
      BY <1>3, <1>7, <1>b, <2>1
    <2>2. CASE i # step
      <3>1. i \in TakenSoFar /\ i \in 1..Len(L)
        BY <1>2, <1>3, <1>5, <2>2
      <3>2. L[i].field # p.field
        BY <1>3, <1>9, <2>2, <3>1
      <3> QED BY <1>7, <1>10, <3>1, <3>2
    <2> QED BY <2>1, <2>2
  <1>13. ObjInv'
    <2>1. Layout(fmt)' = L
      BY <1>1
    <2> HIDE DEF L
    <2> QED BY <1>1, <1>8, <1>11, <1>12, <2>1 DEF ObjInv, Read
  <1> QED BY <1>4, <1>6, <1>13 DEF WireInv

\* The receiver has every field.
LEMMA StepReceived == WireInv /\ Received => WireInv'
  <1> SUFFICES ASSUME WireInv, Received PROVE WireInv'
    OBVIOUS
  <1>1. /\ phase = "reading" /\ phase' = "received" /\ step' = step
        /\ fmt' = fmt /\ from' = from /\ to' = to /\ room' = room
        /\ buf' = buf /\ obj' = obj /\ step > Len(Layout(fmt))
    BY DEF Received, AtEnd
  <1>2. Len(Layout(fmt)) \in Nat /\ step \in 1..(Len(Layout(fmt)) + 1)
    BY LayoutFacts DEF WireInv, CallInv
  <1>3. step - 1 = Len(Layout(fmt))
    BY <1>1, <1>2
  <1>4. CallInv'
    BY <1>1 DEF WireInv, CallInv, Fits
  <1>5. PutSoFar' = PutSoFar /\ TakenSoFar' = TakenSoFar
    BY <1>1, <1>3 DEF PutSoFar, TakenSoFar
  <1>6. BufInv' /\ ObjInv'
    BY <1>1, <1>5, SameBuf, SameObj DEF WireInv
  <1> QED BY <1>4, <1>6 DEF WireInv

\* Only a certificate's functions get past their buffer.
LEMMA StepOverrun == WireInv /\ Overrun => WireInv'
  <1> SUFFICES ASSUME WireInv, Overrun PROVE WireInv'
    OBVIOUS
  <1> DEFINE L == Layout(fmt)
  <1>1. /\ phase \in {"writing", "reading"} /\ phase' = "overrun"
        /\ step' = step /\ fmt' = fmt /\ from' = from /\ to' = to
        /\ room' = room /\ buf' = buf /\ obj' = obj
        /\ ~(step > Len(L)) /\ ~InRoom(L[step])
    BY DEF Overrun, AtEnd, Piece
  <1>2. /\ Len(L) \in Nat /\ step \in 1..(Len(L) + 1) /\ fmt \in Formats
        /\ room \in Nat /\ room >= Required(fmt)
    BY <1>1, LayoutFacts DEF WireInv, CallInv, Fits
  <1>3. step \in 1..Len(L)
    BY <1>1, <1>2
  <1>4. fmt = "cert"
    <2>1. /\ L[step].at \in Nat /\ L[step].width \in Nat
          /\ L[step].at + L[step].width <= Extent(fmt)
          /\ Required(fmt) \in Nat
          /\ fmt # "cert" => Extent(fmt) = Required(fmt)
      BY <1>2, <1>3, LayoutFacts
    <2> HIDE DEF L
    <2> QED BY <1>1, <1>2, <2>1 DEF InRoom
  <1>5. CallInv'
    <2>1. L[step].at \in Nat /\ L[step].width \in Nat
      BY <1>2, <1>3, LayoutFacts
    <2>2. L[step].at + L[step].width <= Extent(fmt) /\ Extent(fmt) = 83
      BY <1>2, <1>3, <1>4, LayoutFacts DEF Extent
    <2> HIDE DEF L
    <2>3. room < 83
      BY <1>1, <1>2, <2>1, <2>2 DEF InRoom
    <2> QED BY <1>1, <1>4, <2>3 DEF WireInv, CallInv, L
  <1>6. /\ PutSoFar' = 1..Len(L) /\ PutSoFar \subseteq 1..Len(L)
        /\ TakenSoFar' = 1..Len(L) /\ TakenSoFar \subseteq 1..Len(L)
    <2>1. 1..(step - 1) \subseteq 1..Len(L)
      BY <1>2, <1>3
    <2> QED BY <1>1, <2>1 DEF PutSoFar, TakenSoFar
  <1>7. BufInv'
    <2>1. \A q, a : ByteAt(q, a)' = ByteAt(q, a)
      BY <1>1 DEF ByteAt
    <2> QED BY <1>1, <1>6, <2>1 DEF WireInv, BufInv
  <1>8. ObjInv'
    BY <1>1, <1>6 DEF WireInv, ObjInv
  <1> QED BY <1>5, <1>7, <1>8 DEF WireInv

\* The inductive invariant of an exchange.
LEMMA WireInvariant == Spec => []WireInv
  <1>1. WireInv /\ [Next]_vars => WireInv'
    <2> SUFFICES ASSUME WireInv, [Next]_vars PROVE WireInv'
      OBVIOUS
    <2>1. CASE Next
      BY <2>1, StepRefuse, StepSerialize, StepPut, StepSend, StepArrive,
         StepRefuseRead, StepDeserialize, StepTake, StepReceived, StepOverrun
         DEF Next
    <2>2. CASE UNCHANGED vars
      <3>1. PutSoFar' = PutSoFar /\ TakenSoFar' = TakenSoFar
        BY <2>2 DEF vars, PutSoFar, TakenSoFar
      <3>2. BufInv' /\ ObjInv'
        BY <2>2, <3>1
           DEF vars, WireInv, BufInv, ObjInv, ByteAt, Source, InRoom
      <3>3. CallInv'
        BY <2>2 DEF vars, WireInv, CallInv, Fits
      <3> QED BY <3>2, <3>3 DEF WireInv
    <2> QED BY <2>1, <2>2
  <1> QED BY <1>1, InitWire, PTL DEF Spec

-----------------------------------------------------------------------------
(* What the invariant shows.                                               *)

\* The fields of the structure exchanged, by their position.
LEMMA PieceIsField ==
    ASSUME WireInv, NEW p \in Pieces
    PROVE  /\ \E i \in 1..Len(Layout(fmt)) : p = Layout(fmt)[i]
           /\ p.at \in Nat /\ p.width \in Nat /\ p.unit \in Units
           /\ WholeWords(p) /\ p.at + p.width <= Extent(fmt)
  BY LayoutFacts DEF WireInv, CallInv, Pieces, Range

\* And the other way round.
LEMMA FieldIsPiece ==
    ASSUME WireInv, NEW i \in 1..Len(Layout(fmt))
    PROVE  Layout(fmt)[i] \in Pieces
  BY LayoutFacts DEF WireInv, CallInv, Pieces, Range

\* The fields put or taken so far are fields.
LEMMA SoFarInside ==
    ASSUME WireInv
    PROVE  /\ PutSoFar \subseteq 1..Len(Layout(fmt))
           /\ TakenSoFar \subseteq 1..Len(Layout(fmt))
  <1>1. Len(Layout(fmt)) \in Nat /\ step \in 1..(Len(Layout(fmt)) + 1)
    BY LayoutFacts DEF WireInv, CallInv
  <1>2. \A i \in 1..(step - 1) : i \in 1..Len(Layout(fmt))
    BY <1>1
  <1>3. PutSoFar \subseteq 1..Len(Layout(fmt))
    BY <1>2 DEF PutSoFar
  <1>4. TakenSoFar \subseteq 1..Len(Layout(fmt))
    BY <1>2 DEF TakenSoFar
  <1> QED BY <1>3, <1>4

\* A written byte that no later field covers is the field's own; a later
\* field can cover only the end of a certificate.
LEMMA WhatIsInACell ==
    ASSUME WireInv, phase \in {"sent", "received"},
           NEW p \in Pieces, NEW j \in Bytes(p), NEW h \in Hosts,
           ~CertificateEnd(p, j)
    PROVE  LET c == p.at + Flip(h, p.unit, j) IN
           /\ c \in DOMAIN buf
           /\ buf[c] = <<p.field, Flip(from, p.unit, Flip(h, p.unit, j))>>
  <1> DEFINE L == Layout(fmt)
             m == Flip(h, p.unit, j)
             c == p.at + m
  <1>1. PICK i \in 1..Len(L) : p = L[i]
    BY PieceIsField
  <1>2. /\ p.at \in Nat /\ p.width \in Nat /\ p.unit \in Units
        /\ WholeWords(p)
    BY PieceIsField
  <1>3. /\ m \in Bytes(p) /\ c \in Cells(p)
        /\ p.unit = 1 => m = j
    BY <1>2, CellOfByte
  <1>4. PutSoFar = 1..Len(L)
    BY DEF PutSoFar
  <1>5. from \in Hosts /\ fmt \in Formats
    BY DEF WireInv, CallInv
  <1>6. ByteAt(p, c) = <<p.field, Flip(from, p.unit, m)>>
    <2> HIDE DEF m
    <2> QED BY <1>2, <1>3, <1>5, ByteInCell
  <1> HIDE DEF m
  <1>7. ASSUME NEW k \in 1..Len(L), i < k PROVE c \notin Cells(L[k])
    <2> DEFINE q == L[k]
    <2>1. q.at \in Nat /\ q.width \in Nat
      BY <1>5, LayoutFacts
    <2>2. Before(p, q) \/ LosesEnd(p, q)
      <3>1. Fitted(L, Extent(fmt))
        BY <1>5, LayoutFacts, LayoutsFit
      <3> HIDE DEF L
      <3> QED BY <1>1, <1>7, <3>1 DEF Fitted
    <2> HIDE DEF q, L
    <2>3. m \in Nat /\ m <= p.width - 1 /\ c = p.at + m
      BY <1>2, <1>3 DEF Bytes
    <2>4. ASSUME Before(p, q) PROVE c \notin Cells(q)
      BY <1>2, <2>1, <2>3, <2>4 DEF Before, Cells
    <2>5. ASSUME LosesEnd(p, q) PROVE c \notin Cells(q)
      <3>1. p.field[1] = "cert" /\ CERT_SIZE <= q.at
        BY <2>5 DEF LosesEnd
      <3>2. ~(p.at + j >= CERT_SIZE)
        BY <3>1 DEF CertificateEnd
      <3>3. c < CERT_SIZE
        <4>1. CASE p.unit = 1
          BY <1>2, <1>3, <2>3, <3>2, <4>1
        <4>2. CASE p.at + p.width <= CERT_SIZE
          BY <1>2, <2>3, <4>2
        <4> QED BY <2>5, <4>1, <4>2 DEF LosesEnd
      <3> QED BY <2>1, <2>3, <1>2, <3>1, <3>3 DEF Cells
    <2> QED BY <2>2, <2>4, <2>5 DEF q
  <1>r. c < room
    <2>1. InRoom(p)
      <3>1. CASE phase = "sent"
        BY <1>1, <1>4, <3>1 DEF WireInv, BufInv
      <3>2. CASE phase = "received"
        <4>1. TakenSoFar = 1..Len(L)
          BY <3>2 DEF TakenSoFar
        <4> QED BY <1>1, <3>2, <4>1 DEF WireInv, ObjInv
      <3> QED BY <3>1, <3>2
    <2>2. room \in Nat
      BY DEF WireInv, CallInv
    <2> HIDE DEF c
    <2> QED BY <1>2, <1>3, <2>1, <2>2 DEF InRoom, Cells
  <1>8. /\ c \in DOMAIN buf
        /\ (\A k \in PutSoFar : i < k => c \notin Cells(L[k]))
             => buf[c] = ByteAt(p, c)
    BY <1>1, <1>3, <1>4, <1>r DEF WireInv, BufInv
  <1>9. buf[c] = ByteAt(p, c)
    BY <1>4, <1>7, <1>8
  <1> QED BY <1>6, <1>8, <1>9 DEF m

-----------------------------------------------------------------------------
\* The type of the state: every byte written or read is one of a field of the
\* structure exchanged.
THEOREM WireTypes == Spec => []TypeOK
  <1>1. WireInv => TypeOK
    <2> SUFFICES ASSUME WireInv PROVE TypeOK
      OBVIOUS
    <2>1. /\ fmt \in Formats /\ {from, to} \subseteq Hosts /\ room \in Nat
          /\ phase \in {"call", "refused", "writing", "sent", "arrived",
                        "unread", "reading", "received", "overrun"}
          /\ step \in 1..(Len(Layout(fmt)) + 1)
      BY DEF WireInv, CallInv
    <2>2. ASSUME NEW a \in DOMAIN buf
          PROVE  \E p \in Pieces : buf[a] \in {p.field} \X Bytes(p)
      <3>1. PICK i \in PutSoFar :
              a \in Cells(Layout(fmt)[i]) /\ buf[a] = ByteAt(Layout(fmt)[i], a)
        BY DEF WireInv, BufInv
      <3>2. Layout(fmt)[i] \in Pieces
        BY SoFarInside, FieldIsPiece
      <3> DEFINE p == Layout(fmt)[i]
      <3>3. /\ p.at \in Nat /\ p.width \in Nat /\ p.unit \in Units
            /\ WholeWords(p)
        BY <3>2, PieceIsField
      <3>4. ByteAt(p, a) \in {p.field} \X Bytes(p)
        BY <2>1, <3>1, <3>3, CellHoldsByte
      <3> QED BY <3>1, <3>2, <3>4
    <2>3. ASSUME NEW n \in DOMAIN obj
          PROVE  \E p \in Pieces : n = p.field /\ DOMAIN obj[n] = Bytes(p)
      <3>1. PICK i \in TakenSoFar : /\ n = Layout(fmt)[i].field
                                    /\ DOMAIN obj[n] = Bytes(Layout(fmt)[i])
        BY DEF WireInv, ObjInv
      <3>2. Layout(fmt)[i] \in Pieces
        BY SoFarInside, FieldIsPiece
      <3> QED BY <3>1, <3>2
    <2> QED BY <2>1, <2>2, <2>3 DEF TypeOK
  <1> QED BY <1>1, WireInvariant, PTL

\* No function writes or reads past the buffer whose size it checked, but for
\* the two of a certificate, which ask for 68 bytes and take 83: those go past
\* every buffer of fewer, and return only from a larger one.  And when a
\* serializer returns, no byte of the size it checked is uninitialized.
THEOREM WireInBounds == Spec => []StaysInBuffer
  <1>1. WireInv => StaysInBuffer
    <2> SUFFICES ASSUME WireInv PROVE StaysInBuffer
      OBVIOUS
    <2>0. /\ fmt \in Formats /\ room \in Nat
          /\ Required(fmt) \in Nat /\ Extent(fmt) \in Nat
          /\ Required(fmt) <= Extent(fmt)
      BY LayoutFacts DEF WireInv, CallInv
    <2>1. ASSUME phase = "sent", NEW a \in 0..(Required(fmt) - 1)
          PROVE  a \in DOMAIN buf
      <3>1. a \in 0..(Extent(fmt) - 1)
        BY <2>0
      <3>2. PICK i \in 1..Len(Layout(fmt)) : a \in Cells(Layout(fmt)[i])
        BY <2>0, <3>1, LayoutFacts, LayoutsFit DEF Fitted
      <3>3. i \in PutSoFar
        BY <2>1 DEF PutSoFar
      <3>4. a < room
        BY <2>0, <2>1 DEF WireInv, CallInv, Fits
      <3> QED BY <2>1, <3>2, <3>3, <3>4 DEF WireInv, BufInv
    <2>2. CertificateBytes = 83
      BY DEF CertificateBytes, UINT256_SIZE, IPV6_SIZE
    <2>3. ASSUME phase \in {"sent", "received"}, fmt = "cert"
          PROVE  room >= CertificateBytes
      <3>1. /\ Len(Layout(fmt)) = 4
            /\ Layout(fmt)[4].at = 80 /\ Layout(fmt)[4].width = 3
        BY <2>3 DEF Layout, Certificate, Field, UINT256_SIZE, IPV6_SIZE
      <3>2. InRoom(Layout(fmt)[4])
        <4>1. 4 \in 1..Len(Layout(fmt))
          BY <3>1
        <4>2. CASE phase = "sent"
          BY <4>1, <4>2 DEF WireInv, BufInv, PutSoFar
        <4>3. CASE phase = "received"
          BY <4>1, <4>3 DEF WireInv, ObjInv, TakenSoFar
        <4> QED BY <2>3, <4>2, <4>3
      <3> QED BY <2>0, <2>2, <3>1, <3>2 DEF InRoom
    <2>4. /\ phase = "overrun" => fmt = "cert" /\ room < CertificateBytes
          /\ phase = "refused" => buf = <<>>
          /\ phase \in {"refused", "unread"} => obj = <<>>
      BY <2>2 DEF WireInv, CallInv
    <2> QED BY <2>1, <2>3, <2>4 DEF StaysInBuffer
  <1> QED BY <1>1, WireInvariant, PTL

\* No two fields of any structure are put over each other, but for the end of
\* a certificate that its CERT_SIZE does not count.
THEOREM WireKeepsFields == Spec => []OnlyCertificateEndIsLost
  <1>1. WireInv => OnlyCertificateEndIsLost
    <2> SUFFICES ASSUME WireInv, phase = "sent", NEW p \in Pieces,
                        NEW j \in Bytes(p), ~CertificateEnd(p, j)
                 PROVE  OnTheWire(p, j)
      BY DEF OnlyCertificateEndIsLost
    <2>1. from \in Hosts
      BY DEF WireInv, CallInv
    <2> DEFINE c == p.at + Flip(from, p.unit, j)
    <2>2. /\ c \in DOMAIN buf
          /\ buf[c] = <<p.field, Flip(from, p.unit, Flip(from, p.unit, j))>>
      BY <2>1, WhatIsInACell
    <2>3. Flip(from, p.unit, Flip(from, p.unit, j)) = j
      BY <2>1, PieceIsField, CellOfByte
    <2> HIDE DEF c
    <2>4. buf[c] = <<p.field, j>>
      BY <2>2, <2>3
    <2> QED BY <2>2, <2>4 DEF OnTheWire, Range
  <1> QED BY <1>1, WireInvariant, PTL

\* Fields of which one lies before the other share no byte.
LEMMA BeforeMeansApart ==
    ASSUME NEW p, NEW q, p.at \in Nat, p.width \in Nat, q.at \in Nat,
           q.width \in Nat, Before(p, q), NEW a \in Cells(p)
    PROVE  a \notin Cells(q)
  BY DEF Before, Cells

\* A byte beyond CERT_SIZE in the buffer is no certificate's: a later field
\* lies there, and over that one no other.
LEMMA WhatIsBeyond ==
    ASSUME WireInv, phase = "sent", NEW p \in Pieces, NEW j \in Bytes(p),
           CertificateEnd(p, j), NEW a \in DOMAIN buf
    PROVE  buf[a] # <<p.field, j>>
  <1> DEFINE L == Layout(fmt)
  <1>1. from \in Hosts /\ fmt \in Formats /\ PutSoFar = 1..Len(L)
    BY DEF WireInv, CallInv, PutSoFar
  <1>2. Fitted(L, Extent(fmt))
    BY <1>1, LayoutFacts, LayoutsFit
  <1>3. \A i \in 1..Len(L) : /\ L[i].at \in Nat /\ L[i].width \in Nat
                             /\ L[i].unit \in Units /\ WholeWords(L[i])
    BY <1>1, LayoutFacts
  <1>4. PICK n \in 1..Len(L) : p = L[n]
    BY PieceIsField
  <1>5. PICK i \in 1..Len(L) : a \in Cells(L[i]) /\ buf[a] = ByteAt(L[i], a)
    BY <1>1 DEF WireInv, BufInv
  <1>r. a < room
    <2>1. InRoom(L[i])
      BY <1>1, <1>5 DEF WireInv, BufInv
    <2>2. L[i].at \in Nat /\ L[i].width \in Nat /\ room \in Nat
      BY <1>3 DEF WireInv, CallInv
    <2> HIDE DEF L
    <2> QED BY <1>5, <2>1, <2>2 DEF InRoom, Cells
  <1>6. \A k \in 1..Len(L) :
           /\ a \in Cells(L[k])
           /\ \A l \in 1..Len(L) : k < l => a \notin Cells(L[l])
           => buf[a] = ByteAt(L[k], a)
    BY <1>1, <1>r DEF WireInv, BufInv
  <1> HIDE DEF L
  <1>7. \A k \in 1..Len(L) : a \in Cells(L[k]) =>
           ByteAt(L[k], a) \in {L[k].field} \X Bytes(L[k])
    BY <1>1, <1>3, CellHoldsByte
  <1> SUFFICES ASSUME buf[a] = <<p.field, j>> PROVE FALSE
    OBVIOUS
  <1>8. i = n
    <2>1. L[i].field = p.field
      BY <1>5, <1>7
    <2> QED BY <1>2, <1>4, <2>1 DEF Fitted
  <1>9. p.field[1] = "cert" /\ p.at + j >= CERT_SIZE
    BY DEF CertificateEnd
  <1>10. CERT_SIZE <= a
    <2>1. CASE p.unit = 1
      <3>1. a - p.at \in Bytes(p) /\ a = p.at + (a - p.at)
        BY <1>3, <1>4, <1>5, <1>8 DEF Cells, Bytes
      <3>2. ByteAt(p, a) = <<p.field, Flip(from, p.unit, a - p.at)>>
        BY <1>1, <1>3, <1>4, <3>1, ByteInCell
      <3>3. Flip(from, p.unit, a - p.at) = a - p.at
        BY <1>1, <1>3, <1>4, <2>1, <3>1, CellOfByte
      <3>4. j = a - p.at
        BY <1>4, <1>5, <1>8, <3>2, <3>3
      <3> QED BY <1>9, <3>1, <3>4
    <2>2. CASE p.unit # 1
      <3> DEFINE x == p.at + j
      <3>0. p.at \in Nat /\ p.width \in Nat /\ j \in 0..(p.width - 1)
        BY <1>3, <1>4 DEF Bytes
      <3>1. x \in Cells(p) /\ CERT_SIZE <= x
        BY <1>9, <3>0 DEF Cells
      <3> HIDE DEF x
      <3>2. PICK k \in 1..Len(L) : n < k /\ x \in Cells(L[k])
        BY <1>2, <1>4, <1>9, <3>1 DEF Fitted, EndCovered
      <3>3. ~Before(p, L[k])
        <4>1. L[k].at \in Nat /\ L[k].width \in Nat
          BY <1>3
        <4> QED BY <3>0, <3>1, <3>2, <4>1, BeforeMeansApart
      <3>4. LosesEnd(p, L[k])
        BY <1>2, <1>4, <3>2, <3>3 DEF Fitted
      <3> QED BY <1>3, <1>4, <1>9, <2>2, <3>4 DEF LosesEnd, Bytes
    <2> QED BY <2>1, <2>2
  <1>11. PICK k \in 1..Len(L) :
            n < k /\ a \in Cells(L[k]) /\ L[k].field[1] # "cert"
    BY <1>2, <1>4, <1>5, <1>8, <1>9, <1>10 DEF Fitted, EndCovered
  <1>12. ASSUME NEW l \in 1..Len(L), k < l PROVE a \notin Cells(L[l])
    <2>1. Before(L[k], L[l])
      BY <1>2, <1>11, <1>12 DEF Fitted, LosesEnd
    <2>2. /\ L[k].at \in Nat /\ L[k].width \in Nat
          /\ L[l].at \in Nat /\ L[l].width \in Nat
      BY <1>3
    <2> QED BY <1>11, <2>1, <2>2, BeforeMeansApart
  <1>13. L[k].field = p.field
    BY <1>6, <1>7, <1>11, <1>12
  <1> QED BY <1>9, <1>11, <1>13

\* No block or seed depends on the end of its certificate: what the run
\* wire_block shows of one exchange holds of each.
THEOREM WireLosesCertificateEnd == Spec => []CertificateEndIsLost
  <1>1. WireInv => CertificateEndIsLost
    BY WhatIsBeyond DEF CertificateEndIsLost, OnTheWire, Range
  <1> QED BY <1>1, WireInvariant, PTL

\* What one host reads is what the other wrote, with the same numeric value
\* whatever the byte orders of the two, for every field but that end.
THEOREM WireKeepsValues == Spec => []ValuesSurvive
  <1>1. WireInv => ValuesSurvive
    <2> SUFFICES ASSUME WireInv, phase = "received", NEW p \in Pieces,
                        NEW j \in Bytes(p), ~CertificateEnd(p, j)
                 PROVE  \E s \in Bytes(p) :
                          /\ obj[p.field][j] = <<p.field, s>>
                          /\ Weight(from, p, s) = Weight(to, p, j)
      BY DEF ValuesSurvive
    <2>1. from \in Hosts /\ to \in Hosts
      BY DEF WireInv, CallInv
    <2>2. /\ p.at \in Nat /\ p.width \in Nat /\ p.unit \in Units
          /\ WholeWords(p)
      BY PieceIsField
    <2> DEFINE m == Flip(to, p.unit, j)
               c == p.at + m
               s == Flip(from, p.unit, m)
    <2>3. m \in Bytes(p) /\ j \in Nat
      BY <2>1, <2>2, CellOfByte DEF Bytes
    <2>4. s \in Bytes(p)
      BY <2>1, <2>2, <2>3, CellOfByte
    <2>5. buf[c] = <<p.field, s>>
      BY <2>1, WhatIsInACell
    <2>6. PICK i \in 1..Len(Layout(fmt)) : p = Layout(fmt)[i]
      BY PieceIsField
    <2>7. i \in TakenSoFar
      BY DEF TakenSoFar
    <2>8. obj[p.field] = [k \in Bytes(p) |-> buf[Source(p, k)]]
      BY <2>6, <2>7 DEF WireInv, ObjInv
    <2>9. Source(p, j) = c
      <3>1. j \div p.unit \in Int /\ Reversed(to, p.unit, j % p.unit) \in Int
        BY <2>1, <2>2, <2>3 DEF Units, Hosts, Reversed
      <3>2. (p.at + (j \div p.unit) * p.unit) + Reversed(to, p.unit, j % p.unit)
              = p.at + ((j \div p.unit) * p.unit
                          + Reversed(to, p.unit, j % p.unit))
        BY <2>2, <3>1 DEF Units
      <3> QED BY <3>2 DEF Source, WireToHost, Flip
    <2>10. obj[p.field][j] = buf[c]
      BY <2>8, <2>9
    <2>11. Weight(from, p, s) = Weight(to, p, j)
      BY <2>1, <2>2, <2>3, WeightsAgree
    <2> QED BY <2>4, <2>5, <2>10, <2>11
  <1> QED BY <1>1, WireInvariant, PTL

=============================================================================
