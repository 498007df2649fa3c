------------------------------ MODULE JoltWord ------------------------------
(***************************************************************************)
(* Registers hold words of N bits (64 in the code), kept as unsigned        *)
(* numbers; a word instruction works on the low half (32 in the code) and a *)
(* byte has ByteBits bits (8 in the code).  Every constant of the code that *)
(* stands for one of these widths is written in terms of them, so that the  *)
(* instances are small but every carry, sign and mask is still there.       *)
(***************************************************************************)
EXTENDS Integers

CONSTANTS N, ByteBits,
          RamStart          \* RAM_START_ADDRESS

ASSUME WidthAssumption == /\ N \in {4, 8, 16, 32, 64}     \* a power of two, as 64 is
                          /\ ByteBits \in Nat \ {0}
                          /\ RamStart \in Nat

Half == N \div 2
Word == 0 .. 2^N - 1
AllOnes == 2^N - 1
MostNegative == 2^(N - 1)

(* What a wrapping operation leaves of an integer *)
Wrap(n) == n % 2^N
Signed(a) == IF a >= MostNegative THEN a - 2^N ELSE a

(* as u32, as i32 as i64 *)
Low(a) == a % 2^Half
SignedLow(a) == IF Low(a) >= 2^(Half - 1) THEN Low(a) - 2^Half ELSE Low(a)
SignExtendWord(a) == Wrap(SignedLow(a))

And[a, b \in Nat] == IF a = 0 \/ b = 0 THEN 0
                    ELSE 2 * And[a \div 2, b \div 2] + (a % 2) * (b % 2)
Or(a, b) == a + b - And[a, b]
Xor(a, b) == a + b - 2 * And[a, b]

ShiftLeft(a, s) == Wrap(a * 2^s)
ShiftRight(a, s) == a \div 2^s
ShiftRightArith(a, s) == Wrap(Signed(a) \div 2^s)

TrailingZeros(a) ==
    IF a = 0 THEN N ELSE CHOOSE s \in 0 .. N - 1 : a % 2^s = 0 /\ (a \div 2^s) % 2 = 1

(* ((1 << (64 - s)) - 1) << s: the mask from which the virtual right shifts  *)
(* recover the amount s.                                                     *)
RightShiftBitmask(s) == (2^(N - s) - 1) * 2^s

(* wrapping_div and wrapping_rem of Rust round towards zero *)
Abs(n) == IF n < 0 THEN -n ELSE n
Sign(n) == IF n < 0 THEN -1 ELSE 1
TruncDiv(n, d) == Sign(n) * Sign(d) * (Abs(n) \div Abs(d))
TruncRem(n, d) == Sign(n) * (Abs(n) % Abs(d))

(* Numbers of the CSRs of machine mode *)
CsrMstatus == 768
CsrMtvec == 773
CsrMscratch == 832
CsrMepc == 833
CsrMcause == 834
CsrMtval == 835
(* The first bit of mstatus.MPP, 11 in the code, scaled like the word *)
MppBit == (11 * N) \div 64
CsrAddresses == {CsrMstatus, CsrMtvec, CsrMscratch, CsrMepc, CsrMcause, CsrMtval}
=============================================================================
