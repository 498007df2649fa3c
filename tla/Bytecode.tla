------------------------------ MODULE Bytecode ------------------------------
(***************************************************************************)
(* The bytecode of a program as prover and verifier preprocess it, and the  *)
(* emulator that executes the program by its rows.                          *)
(***************************************************************************)
EXTENDS FinalRows, CpuConstraints

CONSTANTS Program,              \* sequence of [instr, address, compressed]
          EntryAddress          \* address of the first instruction

ASSUME ProgramAssumption ==
    /\ \A j \in DOMAIN Program : Program[j].address \in 1 .. AllOnes - 8
    /\ EntryAddress \in { Program[j].address : j \in DOMAIN Program }

Reserved == 32 .. 39

VARIABLE bytecode    \* the rows both sides have preprocessed
-----------------------------------------------------------------------------
(* Layout of the bytecode: a no-op, the rows of every instruction, and no-ops *)
(* up to a power of two.                                                      *)
NoOpRow ==
    [k |-> "NoOp", rd |-> 0, rs1 |-> 0, rs2 |-> 0, imm |-> 0, address |-> 0,
     remaining |-> NotInSequence, first |-> FALSE, compressed |-> FALSE]
(* Mutant: every row of a compressed instruction is marked compressed. *)
StampedAllCompressed(p) ==
    LET rows == ExpandSource[p.instr, {}].rows
        native == p.instr.k \notin SourceOnly
    IN  [j \in DOMAIN rows |->
            [k |-> rows[j].k, rd |-> rows[j].rd, rs1 |-> rows[j].rs1, rs2 |-> rows[j].rs2,
             imm |-> rows[j].imm, address |-> p.address,
             remaining |-> IF native THEN NotInSequence ELSE Len(rows) - j,
             first |-> ~native /\ j = 1,
             compressed |-> p.compressed]]
Stamped(p) ==
    LET rows == ExpandSource[p.instr, {}].rows
        native == p.instr.k \notin SourceOnly
    IN  [j \in DOMAIN rows |->
            [k |-> rows[j].k, rd |-> rows[j].rd, rs1 |-> rows[j].rs1, rs2 |-> rows[j].rs2,
             imm |-> rows[j].imm, address |-> p.address,
             remaining |-> IF native THEN NotInSequence ELSE Len(rows) - j,
             first |-> ~native /\ j = 1,
             compressed |-> p.compressed /\ j = Len(rows)]]

ProgramRows ==
    LET upTo[j \in 0 .. Len(Program)] ==
            IF j = 0 THEN << >> ELSE upTo[j - 1] \o Stamped(Program[j])
    IN  upTo[Len(Program)]
NextPowerOfTwo(n) == 2^(CHOOSE e \in 1 .. n : 2^e >= n /\ \A d \in 1 .. e - 1 : 2^d < n)

(* Preprocessing lays the bytecode out once; its indices start at 0. *)
Preprocessed ==
    LET rows == <<NoOpRow>> \o ProgramRows
    IN  rows \o [j \in 1 .. NextPowerOfTwo(Len(rows)) - Len(rows) |-> NoOpRow]
Indices == 0 .. Len(bytecode) - 1
RowAt(i) == bytecode[i + 1]
FirstIndex(address) ==
    CHOOSE i \in Indices :
        RowAt(i).address = address /\ \A j \in 0 .. i - 1 : RowAt(j).address # address
IsCode(address) == \E i \in Indices : address # 0 /\ RowAt(i).address = address

(* The registers a row reads and writes *)
NoRs1 == {"LUI", "AUIPC", "JAL", "VirtualAdvice", "NoOp"}
RFormat ==
    {"ADD", "SUB", "MUL", "XOR", "AND", "OR", "MULHU", "SLT", "SLTU", "VirtualSRA", "VirtualSRL",
     "VirtualChangeDivisor", "VirtualChangeDivisorW"}
HasRs1(row) == row.k \notin NoRs1
HasRs2(row) ==
    \/ row.k \in RFormat \cup Branches \cup {"SD"}
    \/ row.k \in Assertions \ {"VirtualAssertWordAlignment", "VirtualAssertHalfwordAlignment"}
HasRd(row) == row.k \notin NoDestination \cup {"NoOp"}
-----------------------------------------------------------------------------
(* The emulator: it executes all rows of an instruction, then fetches the     *)
(* next one at its pc.                                                        *)
InstructionLength(address) ==
    IF \E i \in Indices : RowAt(i).address = address /\ RowAt(i).compressed
    THEN 2 ELSE 4
EndsInstruction(row) == row.remaining \in {NotInSequence, 0}
Fetched(m) == Machine(m.x, m.mem, m.pc, InstructionLength(m.pc))
Execute(m, row, advice) == Row([m EXCEPT !.advice = <<advice>>], row)
(* Its machine and index after a row; an instruction that is not there is a   *)
(* fault.                                                                     *)
Emulate(m, i, advice) ==
    LET s == [Execute(m, RowAt(i), advice) EXCEPT !.advice = << >>]
    IN  CASE s.status = "ok" /\ EndsInstruction(RowAt(i)) /\ IsCode(s.pc) ->
               [machine |-> Fetched(s), at |-> FirstIndex(s.pc)]
          [] s.status = "ok" /\ EndsInstruction(RowAt(i)) /\ ~IsCode(s.pc) ->
               [machine |-> Panic(s), at |-> i]
          [] s.status = "ok" /\ ~EndsInstruction(RowAt(i)) -> [machine |-> s, at |-> i + 1]
          [] OTHER -> [machine |-> s, at |-> i]
=============================================================================
