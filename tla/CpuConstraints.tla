--------------------------- MODULE CpuConstraints ---------------------------
(***************************************************************************)
(* What the proof requires of one cycle: the flags of a bytecode row and    *)
(* the table it looks up, the columns derived from them, the 19 uniform     *)
(* constraints on the columns of a cycle, and the evaluators written by     *)
(* hand that the prover and the block checks use in their place.            *)
(*                                                                          *)
(* A bytecode row is a final row (k, rd, rs1, rs2, imm) with its address,   *)
(* the number of rows that remain in its sequence (NotInSequence if it is   *)
(* in none), whether it is the first, and whether it is compressed.         *)
(***************************************************************************)
EXTENDS LookupTables

NotInSequence == -1

AddOperands ==
    {"ADD", "ADDI", "AUIPC", "JAL", "JALR", "LUI", "VirtualPow2", "VirtualPow2W",
     "VirtualShiftRightBitmask", "VirtualSignExtendWord", "VirtualZeroExtendWord",
     "VirtualAssertWordAlignment", "VirtualAssertHalfwordAlignment"}
SubtractOperands == {"SUB"}
MultiplyOperands == {"MUL", "MULHU", "VirtualMULI", "VirtualAssertMulUNoOverflow"}
AdviceKinds == {"VirtualAdvice"}
Jumps == {"JAL", "JALR"}
BranchKinds == {"BEQ", "BNE", "BLT", "BGE", "BLTU", "BGEU"}
AssertKinds ==
    {"VirtualAssertEQ", "VirtualAssertLTE", "VirtualAssertValidDiv0",
     "VirtualAssertValidUnsignedRemainder", "VirtualAssertMulUNoOverflow",
     "VirtualAssertWordAlignment", "VirtualAssertHalfwordAlignment"}
NoLookupToRd == Jumps \cup BranchKinds \cup AssertKinds \cup {"LD", "SD", "NoOp"}

(* Circuit flags that come with the kind *)
KindFlags(k) ==
    { f \in {"AddOperands", "SubtractOperands", "MultiplyOperands", "Load", "Store", "Jump",
             "WriteLookupOutputToRD", "Assert", "Advice"} :
        CASE f = "AddOperands" -> k \in AddOperands
          [] f = "SubtractOperands" -> k \in SubtractOperands
          [] f = "MultiplyOperands" -> k \in MultiplyOperands
          [] f = "Load" -> k = "LD"
          [] f = "Store" -> k = "SD"
          [] f = "Jump" -> k \in Jumps
          [] f = "WriteLookupOutputToRD" -> k \notin NoLookupToRd
          [] f = "Assert" -> k \in AssertKinds
          [] f = "Advice" -> k \in AdviceKinds }

(* Mutant: only a JALR ends a sequence that may go elsewhere. *)
SequenceFlagsJalrOnly(row) ==
    (IF row.remaining # NotInSequence THEN {"VirtualInstruction"} ELSE {})
    \cup (IF row.remaining = 0 /\ row.k = "JALR" THEN {"IsLastInSequence"} ELSE {})
    \cup (IF row.remaining > 0 THEN {"DoNotUpdateUnexpandedPC"} ELSE {})
    \cup (IF row.compressed THEN {"IsCompressed"} ELSE {})
    \cup (IF row.first THEN {"IsFirstInSequence"} ELSE {})

(* Circuit flags that come with the place of the row in its sequence *)
SequenceFlags(row) ==
    (IF row.remaining # NotInSequence THEN {"VirtualInstruction"} ELSE {})
    \cup (IF row.remaining = 0 THEN {"IsLastInSequence"} ELSE {})
    \cup (IF row.remaining > 0 THEN {"DoNotUpdateUnexpandedPC"} ELSE {})
    \cup (IF row.compressed THEN {"IsCompressed"} ELSE {})
    \cup (IF row.first THEN {"IsFirstInSequence"} ELSE {})

CircuitFlags(row) ==
    IF row.k = "NoOp" THEN {"DoNotUpdateUnexpandedPC"}
    ELSE KindFlags(row.k) \cup SequenceFlags(row)

IsInterleaved(flags) ==
    flags \cap {"AddOperands", "SubtractOperands", "MultiplyOperands", "Advice"} = {}

(* Instruction flags: where the two operands come from *)

(* Mutant: a jump is taken from rs1. *)
LeftIsPCNotJal == {"AUIPC"}
LeftIsPC == {"AUIPC", "JAL"}
NoLeft == {"LUI", "LD", "SD", "VirtualAdvice", "NoOp"}
RightIsImm ==
    {"ADDI", "ANDI", "ORI", "XORI", "SLTI", "SLTIU", "LUI", "AUIPC", "JAL", "JALR",
     "VirtualMULI", "VirtualSRAI", "VirtualSRLI", "VirtualMovsign",
     "VirtualAssertWordAlignment", "VirtualAssertHalfwordAlignment"}
NoRight ==
    {"VirtualPow2", "VirtualPow2W", "VirtualShiftRightBitmask", "VirtualSignExtendWord",
     "VirtualZeroExtendWord", "LD", "SD", "VirtualAdvice", "NoOp"}

(* Loads, stores, branches and alignment checks keep the sign of their       *)
(* immediate; that of the other kinds has become a word.                      *)
SignedImmediates == BranchKinds \cup
    {"LD", "SD", "VirtualAssertWordAlignment", "VirtualAssertHalfwordAlignment"}
Imm(row) == IF row.k \in SignedImmediates THEN Signed(row.imm) ELSE row.imm

LeftInput(row, rs1) ==
    CASE row.k \in NoLeft -> 0
      [] row.k \in LeftIsPC -> row.address
      [] OTHER -> rs1
RightInput(row, rs2) ==
    CASE row.k \in NoRight -> 0
      [] row.k \in RightIsImm -> Imm(row)
      [] OTHER -> rs2

LookupTable(k) ==
    CASE k \in {"ADD", "ADDI", "AUIPC", "JAL", "LUI", "MUL", "SUB", "VirtualAdvice",
                "VirtualMULI"} -> "RangeCheck"
      [] k = "JALR" -> "RangeCheckAligned"
      [] k \in {"AND", "ANDI"} -> "And"
      [] k \in {"OR", "ORI"} -> "Or"
      [] k \in {"XOR", "XORI"} -> "Xor"
      [] k \in {"BEQ", "VirtualAssertEQ"} -> "Equal"
      [] k = "BNE" -> "NotEqual"
      [] k = "BGE" -> "SignedGreaterThanEqual"
      [] k = "BGEU" -> "UnsignedGreaterThanEqual"
      [] k \in {"BLT", "SLT", "SLTI"} -> "SignedLessThan"
      [] k \in {"BLTU", "SLTU", "SLTIU"} -> "UnsignedLessThan"
      [] k = "VirtualMovsign" -> "Movsign"
      [] k = "MULHU" -> "UpperWord"
      [] k = "VirtualAssertLTE" -> "LessThanEqual"
      [] k = "VirtualAssertValidUnsignedRemainder" -> "ValidUnsignedRemainder"
      [] k = "VirtualAssertValidDiv0" -> "ValidDiv0"
      [] k = "VirtualAssertHalfwordAlignment" -> "HalfwordAlignment"
      [] k = "VirtualAssertWordAlignment" -> "WordAlignment"
      [] k = "VirtualZeroExtendWord" -> "LowerHalfWord"
      [] k = "VirtualSignExtendWord" -> "SignExtendHalfWord"
      [] k = "VirtualPow2" -> "Pow2"
      [] k = "VirtualPow2W" -> "Pow2W"
      [] k = "VirtualShiftRightBitmask" -> "ShiftRightBitmask"
      [] k \in {"VirtualSRL", "VirtualSRLI"} -> "VirtualSRL"
      [] k \in {"VirtualSRA", "VirtualSRAI"} -> "VirtualSRA"
      [] k \in {"VirtualChangeDivisor", "VirtualChangeDivisorW"} -> k
      [] k = "VirtualAssertMulUNoOverflow" -> "MulUNoOverflow"
      [] k \in {"NoOp", "LD", "SD"} -> "none"

(* The operands of the lookup, as the cycle of an execution has them *)
LookupOperands(row, rs1, rs2, advice) ==
    LET left == LeftInput(row, rs1)
        right == RightInput(row, rs2)
    IN  CASE row.k \in AddOperands -> <<0, left + right>>
          [] row.k \in SubtractOperands -> <<0, left + (2^N - right)>>
          [] row.k \in MultiplyOperands -> <<0, left * right>>
          [] row.k \in AdviceKinds -> <<0, advice>>
          [] OTHER -> <<left, right>>
-----------------------------------------------------------------------------
(* Columns that the bytecode, the registers and the next cycle determine.  A  *)
(* product with the branch flag or with the jump flag decides where the pc    *)
(* goes; after the last cycle there is only padding.                          *)
AfterLast == [pc |-> 0, address |-> 0, noop |-> TRUE, virtual |-> FALSE, first |-> FALSE]
AsNext(row, pc) ==
    [pc |-> pc, address |-> row.address, noop |-> row.k = "NoOp",
     virtual |-> "VirtualInstruction" \in CircuitFlags(row), first |-> row.first]

Columns(row, pc, rs1, rs2, next, witness) ==
    LET left == LeftInput(row, rs1)
        right == RightInput(row, rs2)
        output == Entry(LookupTable(row.k), IsInterleaved(CircuitFlags(row)),
                        witness.leftLookup, witness.rightLookup)
    IN  [left |-> left, right |-> right, product |-> left * right,
         leftLookup |-> witness.leftLookup, rightLookup |-> witness.rightLookup,
         lookupOutput |-> output,
         rs1 |-> rs1, rs2 |-> rs2, rdWrite |-> witness.rdWrite,
         ramAddress |-> witness.ramAddress, ramRead |-> witness.ramRead,
         ramWrite |-> witness.ramWrite,
         pc |-> pc, nextPc |-> next.pc,
         unexpandedPc |-> row.address, nextUnexpandedPc |-> next.address,
         imm |-> Imm(row), flags |-> CircuitFlags(row),
         shouldJump |-> Indicator(row.k \in Jumps /\ ~next.noop),
         shouldBranch |-> Indicator(row.k \in BranchKinds) * output,
         nextIsVirtual |-> Indicator(next.virtual),
         nextIsFirst |-> Indicator(next.first)]

Flag(c, f) == Indicator(f \in c.flags)

(* A guard that is not 0 requires the two sides to be equal. *)
EqualIf(guard, left, right) == guard # 0 => left = right

RamConstraints(c) ==
    LET access == Flag(c, "Load") + Flag(c, "Store")
    IN  [RamAddrEqRs1PlusImmIfLoadStore |-> EqualIf(access, c.ramAddress, c.rs1 + c.imm),
         RamAddrEqZeroIfNotLoadStore |-> EqualIf(1 - access, c.ramAddress, 0),
         RamReadEqRamWriteIfLoad |-> EqualIf(Flag(c, "Load"), c.ramRead, c.ramWrite),
         Rs2EqRamWriteIfStore |-> EqualIf(Flag(c, "Store"), c.rs2, c.ramWrite)]

LookupConstraints(c) ==
    LET add == Flag(c, "AddOperands")
        sub == Flag(c, "SubtractOperands")
        mul == Flag(c, "MultiplyOperands")
    IN  [LeftLookupZeroUnlessAddSubMul |-> EqualIf(add + sub + mul, c.leftLookup, 0),
         LeftLookupEqLeftInputOtherwise |->
             EqualIf(1 - add - sub - mul, c.leftLookup, c.left),
         RightLookupAdd |-> EqualIf(add, c.rightLookup, c.left + c.right),
         RightLookupSub |-> EqualIf(sub, c.rightLookup, c.left - c.right + 2^N),
         RightLookupEqProductIfMul |-> EqualIf(mul, c.rightLookup, c.product),
         RightLookupEqRightInputOtherwise |->
             EqualIf(1 - add - sub - mul - Flag(c, "Advice"), c.rightLookup, c.right),
         AssertLookupOne |-> EqualIf(Flag(c, "Assert"), c.lookupOutput, 1)]

RdConstraints(c) ==
    [RamReadEqRdWriteIfLoad |-> EqualIf(Flag(c, "Load"), c.ramRead, c.rdWrite),
     RdWriteEqLookupIfWriteLookupToRd |->
         EqualIf(Flag(c, "WriteLookupOutputToRD"), c.rdWrite, c.lookupOutput),
     RdWriteEqPCPlusConstIfWritePCtoRD |->
         EqualIf(Flag(c, "Jump"), c.rdWrite, c.unexpandedPc + 4 - 2 * Flag(c, "IsCompressed"))]

(* Mutant: a sequence may be entered in its middle. *)
EntersMidSequenceNever(c) == 0
EntersMidSequence(c) == c.nextIsVirtual - c.nextIsFirst

PcConstraints(c) ==
    [NextUnexpPCEqLookupIfShouldJump |->
         EqualIf(c.shouldJump, c.nextUnexpandedPc, c.lookupOutput),
     NextUnexpPCEqPCPlusImmIfShouldBranch |->
         EqualIf(c.shouldBranch, c.nextUnexpandedPc, c.unexpandedPc + c.imm),
     NextUnexpPCUpdateOtherwise |->
         EqualIf(1 - c.shouldBranch - Flag(c, "Jump"), c.nextUnexpandedPc,
                 c.unexpandedPc + 4 - 4 * Flag(c, "DoNotUpdateUnexpandedPC")
                                    - 2 * Flag(c, "IsCompressed")),
     NextPCEqPCPlusOneIfInline |->
         EqualIf(Flag(c, "VirtualInstruction") - Flag(c, "IsLastInSequence"),
                 c.nextPc, c.pc + 1),
     MustStartSequenceFromBeginning |->
         EqualIf(EntersMidSequence(c), 1, Flag(c, "DoNotUpdateUnexpandedPC"))]

All(constraints) == \A label \in DOMAIN constraints : constraints[label]
Satisfied(c) ==
    /\ All(RamConstraints(c)) /\ All(LookupConstraints(c))
    /\ All(RdConstraints(c)) /\ All(PcConstraints(c))
-----------------------------------------------------------------------------
(* The evaluators: boolean guards (Az) and differences (Bz), in two groups,   *)
(* and the check of a row with them.  Sums of words wrap here.                *)

(* Mutant: advice is held to the right operand. *)
RightOperandAloneOrAdvice(c) ==
    c.flags \cap {"AddOperands", "SubtractOperands", "MultiplyOperands"} = {}
RightOperandAlone(c) ==
    c.flags \cap {"AddOperands", "SubtractOperands", "MultiplyOperands", "Advice"} = {}

EvaluatedFirstGroup(c) ==
    LET has(f) == f \in c.flags
        arithmetic == has("AddOperands") \/ has("SubtractOperands") \/ has("MultiplyOperands")
    IN  [RamAddrEqZeroIfNotLoadStore |-> ~(has("Load") \/ has("Store")) => c.ramAddress = 0,
         RamReadEqRamWriteIfLoad |-> has("Load") => c.ramRead - c.ramWrite = 0,
         RamReadEqRdWriteIfLoad |-> has("Load") => c.ramRead - c.rdWrite = 0,
         Rs2EqRamWriteIfStore |-> has("Store") => c.rs2 - c.ramWrite = 0,
         LeftLookupZeroUnlessAddSubMul |-> arithmetic => c.leftLookup = 0,
         LeftLookupEqLeftInputOtherwise |-> ~arithmetic => c.leftLookup - c.left = 0,
         AssertLookupOne |-> has("Assert") => c.lookupOutput - 1 = 0,
         NextUnexpPCEqLookupIfShouldJump |->
             c.shouldJump # 0 => c.nextUnexpandedPc - c.lookupOutput = 0,
         NextPCEqPCPlusOneIfInline |->
             has("VirtualInstruction") /\ ~has("IsLastInSequence")
                 => c.nextPc - Wrap(c.pc + 1) = 0,
         MustStartSequenceFromBeginning |->
             c.nextIsVirtual # 0 /\ c.nextIsFirst = 0 => has("DoNotUpdateUnexpandedPC")]

EvaluatedSecondGroup(c) ==
    LET has(f) == f \in c.flags
        instruction == 4 - (IF has("IsCompressed") THEN 2 ELSE 0)
        step == instruction - (IF has("DoNotUpdateUnexpandedPC") THEN 4 ELSE 0)
    IN  [RamAddrEqRs1PlusImmIfLoadStore |->
             has("Load") \/ has("Store") => c.ramAddress - (c.rs1 + c.imm) = 0,
         RightLookupAdd |-> has("AddOperands") => c.rightLookup - (c.left + c.right) = 0,
         RightLookupSub |->
             has("SubtractOperands") => c.rightLookup - (c.left - c.right + 2^N) = 0,
         RightLookupEqProductIfMul |-> has("MultiplyOperands") => c.rightLookup - c.product = 0,
         RightLookupEqRightInputOtherwise |->
             RightOperandAlone(c) => c.rightLookup - c.right = 0,
         RdWriteEqLookupIfWriteLookupToRd |->
             has("WriteLookupOutputToRD") => c.rdWrite - c.lookupOutput = 0,
         RdWriteEqPCPlusConstIfWritePCtoRD |->
             has("Jump") => c.rdWrite - Wrap(c.unexpandedPc + instruction) = 0,
         NextUnexpPCEqPCPlusImmIfShouldBranch |->
             c.shouldBranch # 0 => c.nextUnexpandedPc - (c.unexpandedPc + c.imm) = 0,
         NextUnexpPCUpdateOtherwise |->
             ~has("Jump") /\ c.shouldBranch = 0
                 => c.nextUnexpandedPc - Wrap(c.unexpandedPc + step) = 0]
=============================================================================
