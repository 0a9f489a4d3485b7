\* Bytes of one bit, words of three bytes: every value of an integer of two
\* words and of its double, on hosts of either byte order.
SPECIFICATION Spec
CONSTANTS
    ByteBits = 1
    WordBytes = 3
    WordCount = 2
INVARIANTS
    TypeOK BitAccessIsArithmetic DifficultyTravels
