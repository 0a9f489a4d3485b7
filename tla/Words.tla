------------------------------- MODULE Words -------------------------------
(***************************************************************************)
(* uint256 and uint512: an array of words, and what the operations on it   *)
(* mean for the integer that the words stand for ("little-endian word      *)
(* order"), on hosts of either byte order.  A host makes an integer from a *)
(* small one or from the bytes of a digest, changes its bits, joins two    *)
(* into a wide one, and sends it to the other host.                        *)
(*                                                                         *)
(* Widths are parameters: a uint256 is WordCount words of WordBytes bytes  *)
(* of ByteBits bits (4, 8 and 8 in the code), a uint512 twice as many      *)
(* words.                                                                  *)
(***************************************************************************)
EXTENDS Naturals, SequencesExt

CONSTANTS ByteBits, WordBytes, WordCount

ASSUME WordsAssumption == {ByteBits, WordBytes, WordCount} \subseteq Nat \ {0}

VARIABLES
    order,   \* the byte order of the host that holds the integer
    w,       \* its words
    digest,  \* history: the bytes hashed into w, <<>> once w is another value
    hasher   \* history: the byte order of the host that hashed

vars == <<order, w, digest, hasher>>

Orders == {"little", "big"}
WordBits == ByteBits * WordBytes
NarrowBits == WordCount * WordBits
Bits(x) == 0..(Len(x) * WordBits - 1)

Pow2[n \in Nat] == IF n = 0 THEN 1 ELSE 2 * Pow2[n - 1]

\* The i-th digit of n, from 0, where a digit has b bits.
Digit(b, i, n) == (n \div Pow2[i * b]) % Pow2[b]

\* The numbers that the first so many digits make, the least significant
\* first, and the one that all of them make.
Sums(b, digits) ==
    LET sum[k \in 0..Len(digits)] ==
            IF k = 0 THEN 0 ELSE sum[k - 1] + Pow2[(k - 1) * b] * digits[k]
    IN  sum

Number(b, digits) == Sums(b, digits)[Len(digits)]

\* How many of the width bits of n come before the first that is set.
Zeros(width, n) ==
    CHOOSE z \in 0..width :
        /\ n < Pow2[width - z]
        /\ z < width => n >= Pow2[width - z - 1]

Value(x) == Number(WordBits, x)

-----------------------------------------------------------------------------
(* Words and their bytes in the memory of a host.                          *)

InMemory(o, ds) == IF o = "little" THEN ds ELSE Reverse(ds)

WordOf(o, bytes) == Number(ByteBits, InMemory(o, bytes))

BytesOf(o, word) ==
    InMemory(o, [k \in 1..WordBytes |-> Digit(ByteBits, k - 1, word)])

\* The i-th word's bytes in a buffer.
Piece(buf, i) == [k \in 1..WordBytes |-> buf[(i - 1) * WordBytes + k]]

\* SHA256 writes its bytes over the words.
Hashed(o, bytes) == [i \in 1..WordCount |-> WordOf(o, Piece(bytes, i))]

\* htobe64 and be64toh.
Swapped(o, word) == WordOf(o, BytesOf("big", word))

Serialized(o, x) ==
    [n \in 1..(Len(x) * WordBytes) |->
        BytesOf(o, Swapped(o, x[((n - 1) \div WordBytes) + 1]))
            [((n - 1) % WordBytes) + 1]]

\* Mutant: a little-endian host leaves the bytes as they came.
UnswappedWords(o, buf) ==
    [i \in 1..(Len(buf) \div WordBytes) |-> WordOf(o, Piece(buf, i))]

Deserialized(o, buf) ==
    [i \in 1..(Len(buf) \div WordBytes) |->
        Swapped(o, WordOf(o, Piece(buf, i)))]

-----------------------------------------------------------------------------
(* The operations.                                                         *)

FromU64(x, v) == [i \in 1..Len(x) |-> IF i = 1 THEN v ELSE 0]

Zero(x) == [i \in 1..Len(x) |-> 0]

\* get_bit and set_bit do not check the bit: beyond the width they would reach
\* past the array, and to stay below it is up to their callers (Bits).
GetBit(x, bit) == Digit(1, bit % WordBits, x[(bit \div WordBits) + 1]) = 1

\* Mutant: the mask is added, not or'ed.
AddBit(x, bit, val) ==
    [x EXCEPT ![(bit \div WordBits) + 1] =
        IF val THEN @ + Pow2[bit % WordBits]
        ELSE @ - Pow2[bit % WordBits] * Digit(1, bit % WordBits, @)]

\* Mutant: a bit of every word but the first is looked up one word too low.
SetBitBelow(x, bit, val) ==
    [x EXCEPT ![IF bit < WordBits THEN 1 ELSE bit \div WordBits] =
        @ + Pow2[bit % WordBits] * ((IF val THEN 1 ELSE 0)
                                    - Digit(1, bit % WordBits, @))]

SetBit(x, bit, val) ==
    [x EXCEPT ![(bit \div WordBits) + 1] =
        @ + Pow2[bit % WordBits] * ((IF val THEN 1 ELSE 0)
                                    - Digit(1, bit % WordBits, @))]

Equal(x, y) == \A i \in DOMAIN x : x[i] = y[i]

\* The half that is named high goes to w[0], the least significant word.
FromTwo(high, low) == high \o low

\* Word by word from w[0], until one that is not zero.
First(x) ==
    CHOOSE i \in DOMAIN x : x[i] # 0 /\ \A j \in 1..(i - 1) : x[j] = 0

\* __builtin_clzll, which is for words that are not zero.
LeadingZeros(word) == Zeros(WordBits, word)

clz256(x) ==
    IF \A i \in DOMAIN x : x[i] = 0 THEN Len(x) * WordBits
    ELSE (First(x) - 1) * WordBits + LeadingZeros(x[First(x)])

-----------------------------------------------------------------------------
Bytes == 0..(Pow2[ByteBits] - 1)
Digests == [1..(WordCount * WordBytes) -> Bytes]
Word == 0..(Pow2[WordBits] - 1)
Narrow == [1..WordCount -> Word]
Wide == [1..(2 * WordCount) -> Word]

Init ==
    /\ order \in Orders
    /\ w = [i \in 1..WordCount |-> 0]
    /\ digest = <<>>
    /\ hasher = order

Becomes(x) ==
    /\ w' = x
    /\ digest' = <<>>
    /\ UNCHANGED <<order, hasher>>

Reset == Becomes(Zero(w))
Make(v) == Becomes(FromU64(w, v))
Change(bit, val) == Becomes(SetBit(w, bit, val))

Join(low) ==
    /\ Len(w) = WordCount
    /\ Becomes(FromTwo(w, low))

Hash(bytes) ==
    /\ Len(w) = WordCount
    /\ w' = Hashed(order, bytes)
    /\ digest' = bytes
    /\ hasher' = order
    /\ UNCHANGED order

Send ==
    /\ order' \in Orders
    /\ w' = Deserialized(order', Serialized(order, w))
    /\ UNCHANGED <<digest, hasher>>

Next ==
    \/ Reset \/ Send
    \/ \E v \in Word : Make(v)
    \/ \E bit \in Bits(w), val \in BOOLEAN : Change(bit, val)
    \/ \E low \in Narrow : Join(low)
    \/ \E bytes \in Digests : Hash(bytes)

Spec == Init /\ [][Next]_vars

-----------------------------------------------------------------------------
(* Properties.                                                             *)

\* The type of the state: words keep their width.
TypeOK ==
    /\ {order, hasher} \subseteq Orders
    /\ w \in Narrow \cup Wide
    /\ digest \in {<<>>} \cup Digests

\* Bit access is arithmetic on the whole integer, across words: get_bit reads
\* the bit of that weight, set_bit changes that one alone, and the result is
\* equal to what was there exactly when the bit already had that value.
BitAccessIsArithmetic ==
    \A bit \in Bits(w) : \A val \in BOOLEAN :
        LET x == SetBit(w, bit, val)
            old == Digit(1, bit, Value(w))
        IN  /\ GetBit(w, bit) <=> (old = 1)
            /\ Value(x) = Value(w) + Pow2[bit] * ((IF val THEN 1 ELSE 0) - old)
            /\ Equal(x, w) <=> (val = (old = 1))

\* The zeros that begin a digest.
DigestZeros == Zeros(NarrowBits, Number(ByteBits, Reverse(digest)))

\* The difficulty a digest meets does not change on its way to another host.
\* Hashed by a big-endian host, clz256 counts the leading zeros of the digest;
\* hashed by a little-endian one it still finds the same whole words of
\* zeros, but counts inside the first other word from its last byte.
DifficultyTravels ==
    digest # <<>> =>
        /\ hasher = "big" => clz256(w) = DigestZeros
        /\ clz256(w) = clz256(Hashed(hasher, digest))
        /\ clz256(w) \div WordBits = DigestZeros \div WordBits
=============================================================================
