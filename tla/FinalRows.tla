----------------------------- MODULE FinalRows ------------------------------
(***************************************************************************)
(* What the rows of the final bytecode do to the emulated machine: its      *)
(* registers, the reserved and temporary ones included, its memory of       *)
(* aligned doublewords, and its program counter.  A row that fails an       *)
(* assertion, or accesses memory where it may not, panics; in the proof the *)
(* same rows are lookups and constraints that cannot be met.                *)
(***************************************************************************)
EXTENDS Expansion

(* What a temporary holds before an expansion has written it *)
Undefined == 2^N

(* An instruction at an address starts with the pc already past it. *)
Machine(x, mem, address, length) ==
    [x |-> x, mem |-> mem, address |-> address, pc |-> Wrap(address + length),
     advice |-> << >>, status |-> "ok"]

(* Rows that compute a register from two values *)

(* Mutant: MIN / -1 keeps its divisor. *)
ChangeDivisorKept(a, b) == b
ChangeDivisor(a, b) == IF a = MostNegative /\ b = AllOnes THEN 1 ELSE b
ChangeDivisorW(a, b) ==
    IF SignedLow(a) = -(2^(Half - 1)) /\ SignedLow(b) = -1 THEN 1 ELSE SignExtendWord(b)
Movsign(a) == IF a >= MostNegative THEN AllOnes ELSE 0
Less(p) == IF p THEN 1 ELSE 0
ByMask(mask) == TrailingZeros(mask) % N

Value(row, a, b, address) ==
    CASE row.k = "ADDI" -> Wrap(a + row.imm)
      [] row.k = "ADD" -> Wrap(a + b)
      [] row.k = "SUB" -> Wrap(a - b)
      [] row.k = "MUL" -> Wrap(a * b)
      [] row.k = "XOR" -> Xor(a, b)
      [] row.k = "AND" -> And[a, b]
      [] row.k = "OR" -> Or(a, b)
      [] row.k = "XORI" -> Xor(a, row.imm)
      [] row.k = "ANDI" -> And[a, row.imm]
      [] row.k = "ORI" -> Or(a, row.imm)
      [] row.k = "SLTI" -> Less(Signed(a) < Signed(row.imm))
      [] row.k = "SLTIU" -> Less(a < row.imm)
      [] row.k = "LUI" -> row.imm
      [] row.k = "VirtualMULI" -> Wrap(a * row.imm)
      [] row.k = "VirtualSRAI" -> ShiftRightArith(a, ByMask(row.imm))
      [] row.k = "VirtualSRLI" -> ShiftRight(a, ByMask(row.imm))
      [] row.k = "VirtualSRA" -> ShiftRightArith(a, ByMask(b))
      [] row.k = "VirtualSRL" -> ShiftRight(a, ByMask(b))
      [] row.k = "VirtualShiftRightBitmask" -> RightShiftBitmask(a % N)
      [] row.k = "VirtualPow2" -> 2^(a % N)
      [] row.k = "VirtualPow2W" -> 2^(a % Half)
      [] row.k = "VirtualSignExtendWord" -> SignExtendWord(a)
      [] row.k = "VirtualZeroExtendWord" -> Low(a)
      [] row.k = "VirtualMovsign" -> Movsign(a)
      [] row.k = "MULHU" -> (a * b) \div 2^N
      [] row.k = "SLT" -> Less(Signed(a) < Signed(b))
      [] row.k = "SLTU" -> Less(a < b)
      [] row.k = "VirtualChangeDivisor" -> ChangeDivisor(a, b)
      [] row.k = "VirtualChangeDivisorW" -> ChangeDivisorW(a, b)
      [] row.k = "AUIPC" -> Wrap(address + row.imm)

(* Rows that assert *)
AssertValidDiv0(divisor, quotient) == divisor = 0 => quotient = AllOnes
(* Mutant: the remainder may equal the divisor. *)
AssertValidUnsignedRemainderLoose(remainder, divisor) == divisor = 0 \/ remainder <= divisor
AssertValidUnsignedRemainder(remainder, divisor) == divisor = 0 \/ remainder < divisor
AssertMulUNoOverflow(a, b) == a * b <= AllOnes

Assertions == {"VirtualAssertEQ", "VirtualAssertLTE", "VirtualAssertValidDiv0",
               "VirtualAssertValidUnsignedRemainder", "VirtualAssertMulUNoOverflow",
               "VirtualAssertWordAlignment", "VirtualAssertHalfwordAlignment"}
Holds(row, a, b) ==
    CASE row.k = "VirtualAssertEQ" -> a = b
      [] row.k = "VirtualAssertLTE" -> a <= b
      [] row.k = "VirtualAssertValidDiv0" -> AssertValidDiv0(a, b)
      [] row.k = "VirtualAssertValidUnsignedRemainder" -> AssertValidUnsignedRemainder(a, b)
      [] row.k = "VirtualAssertMulUNoOverflow" -> AssertMulUNoOverflow(a, b)
      [] row.k = "VirtualAssertWordAlignment" -> Wrap(a + row.imm) % 4 = 0
      [] row.k = "VirtualAssertHalfwordAlignment" -> Wrap(a + row.imm) % 2 = 0

(* Rows that branch; their immediate is signed. *)
Branches == {"BEQ", "BNE", "BLT", "BGE", "BLTU", "BGEU"}
Taken(row, a, b) ==
    CASE row.k = "BEQ" -> a = b
      [] row.k = "BNE" -> a # b
      [] row.k = "BLT" -> Signed(a) < Signed(b)
      [] row.k = "BGE" -> Signed(a) >= Signed(b)
      [] row.k = "BLTU" -> a < b
      [] row.k = "BGEU" -> a >= b

(* write_register ignores x0 *)
WriteRegister(s, rd, v) == IF rd = 0 THEN s ELSE [s EXCEPT !.x[rd] = v]
Panic(s) == [s EXCEPT !.status = "panicked"]

LoadDoubleword(s, rd, address) ==
    IF address \in DOMAIN s.mem THEN WriteRegister(s, rd, s.mem[address]) ELSE Panic(s)
StoreDoubleword(s, address, v) ==
    IF address \in DOMAIN s.mem THEN [s EXCEPT !.mem[address] = v] ELSE Panic(s)

(* One row.  Reading a temporary the expansion has not written is recorded.  *)
Row(s, row) ==
    LET a == s.x[row.rs1]
        b == s.x[row.rs2]
    IN  CASE s.status # "ok" -> s
          [] s.status = "ok" /\ Undefined \in {a, b} -> [s EXCEPT !.status = "stale"]
          [] OTHER ->
               CASE row.k \in Assertions -> IF Holds(row, a, b) THEN s ELSE Panic(s)
                 [] row.k = "LD" -> LoadDoubleword(s, row.rd, Wrap(a + row.imm))
                 [] row.k = "SD" -> StoreDoubleword(s, Wrap(a + row.imm), b)
                 [] row.k = "VirtualAdvice" ->
                      [WriteRegister(s, row.rd, Head(s.advice)) EXCEPT !.advice = Tail(@)]
                 [] row.k = "JALR" ->
                      [WriteRegister(s, row.rd, s.pc) EXCEPT !.pc = 2 * (Wrap(a + row.imm) \div 2)]
                 [] row.k = "JAL" ->
                      [WriteRegister(s, row.rd, s.pc) EXCEPT !.pc = Wrap(s.address + row.imm)]
                 [] row.k \in Branches ->
                      IF Taken(row, a, b) THEN [s EXCEPT !.pc = Wrap(s.address + row.imm)] ELSE s
                 [] OTHER -> WriteRegister(s, row.rd, Value(row, a, b, s.address))

Run(s, rows) ==
    LET after[j \in 0 .. Len(rows)] == IF j = 0 THEN s ELSE Row(after[j - 1], rows[j])
    IN  after[Len(rows)]
=============================================================================
