---------------------------- MODULE LookupTables ----------------------------
(***************************************************************************)
(* The entries of the lookup tables the prover opens, as the tables         *)
(* themselves define them.  An index has 2 * N bits; a table of two         *)
(* operands reads it as two interleaved words, here the pair of them.       *)
(***************************************************************************)
EXTENDS JoltWord

Bit(a, i) == (a \div 2^i) % 2
Indicator(p) == IF p THEN 1 ELSE 0

(* Word by word, from the most significant bit: a bit of x is kept where y    *)
(* has one, so that a mask of leading ones shifts x right.                    *)
KeepMasked(x, y) ==
    LET entry[i \in 0 .. N] ==
            IF i = 0 THEN 0
            ELSE entry[i - 1] * (1 + Bit(y, N - i)) + Bit(x, N - i) * Bit(y, N - i)
    IN  entry[N]
SignFill(y) ==
    LET fill[i \in 0 .. N - 1] ==
            IF i = 0 THEN 0 ELSE fill[i - 1] + 2^i * (1 - Bit(y, N - 1 - i))
    IN  fill[N - 1]

(* One operand: the index itself *)

(* Mutant: the high word is kept. *)
RangeCheckUnreduced(index) == index
RangeCheck(index) == index % 2^N
SignExtendHalfWord(index) ==
    LET low == index % 2^Half
    IN  IF Bit(low, Half - 1) = 1 THEN low + (2^Half - 1) * 2^Half ELSE low
ShiftRightBitmaskEntry(index) ==
    LET shift == index % N IN (2^(N - shift) - 1) * 2^shift

IndexEntry(table, index) ==
    CASE table = "RangeCheck" -> RangeCheck(index)
      [] table = "RangeCheckAligned" -> (index % 2^N) - (index % 2)
      [] table = "UpperWord" -> index \div 2^N
      [] table = "LowerHalfWord" -> index % 2^Half
      [] table = "SignExtendHalfWord" -> SignExtendHalfWord(index)
      [] table = "Pow2" -> 2^(index % N)
      [] table = "Pow2W" -> 2^(index % Half)
      [] table = "ShiftRightBitmask" -> ShiftRightBitmaskEntry(index)
      [] table = "WordAlignment" -> Indicator(index % 4 = 0)
      [] table = "HalfwordAlignment" -> Indicator(index % 2 = 0)
      [] table = "MulUNoOverflow" -> Indicator(index \div 2^N = 0)

(* Two operands *)
ChangeDivisorEntry(dividend, divisor) ==
    IF Signed(dividend) = -(2^(N - 1)) /\ Signed(divisor) = -1 THEN 1 ELSE divisor
ChangeDivisorWEntry(dividend, divisor) ==
    IF SignedLow(dividend) = -(2^(Half - 1)) /\ SignedLow(divisor) = -1
    THEN 1 ELSE Wrap(SignedLow(divisor))

PairEntry(table, x, y) ==
    CASE table = "And" -> And[x, y]
      [] table = "Or" -> Or(x, y)
      [] table = "Xor" -> Xor(x, y)
      [] table = "Equal" -> Indicator(x = y)
      [] table = "NotEqual" -> Indicator(x # y)
      [] table = "SignedLessThan" -> Indicator(Signed(x) < Signed(y))
      [] table = "UnsignedLessThan" -> Indicator(x < y)
      [] table = "SignedGreaterThanEqual" -> Indicator(Signed(x) >= Signed(y))
      [] table = "UnsignedGreaterThanEqual" -> Indicator(x >= y)
      [] table = "LessThanEqual" -> Indicator(x <= y)
      [] table = "Movsign" -> IF Bit(x, N - 1) = 1 THEN AllOnes ELSE 0
      [] table = "ValidDiv0" -> Indicator(x = 0 => y = AllOnes)
      [] table = "ValidUnsignedRemainder" -> Indicator(y = 0 \/ x < y)
      [] table = "VirtualChangeDivisor" -> ChangeDivisorEntry(x, y)
      [] table = "VirtualChangeDivisorW" -> ChangeDivisorWEntry(x, y)
      [] table = "VirtualSRL" -> KeepMasked(x, y)
      [] table = "VirtualSRA" -> KeepMasked(x, y) + Bit(x, N - 1) * SignFill(y)

(* Without a table the output is 0. *)
Entry(table, interleaved, left, right) ==
    CASE table = "none" -> 0
      [] table # "none" /\ interleaved -> PairEntry(table, left, right)
      [] OTHER -> IndexEntry(table, right)
=============================================================================
