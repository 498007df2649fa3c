-------------------------- MODULE MCTracedMachine ---------------------------
(* The families of programs of the traced machine.                           *)
EXTENDS TracedMachine, TLC

(* Operands: all distinct, the destination one of the sources, the sources   *)
(* the same register, and x0 in every place                                  *)
Operands == { <<3, 1, 2>>, <<1, 1, 2>>, <<2, 1, 2>>, <<1, 1, 1>>, <<0, 1, 2>>,
              <<3, 0, 2>>, <<3, 1, 0>> }
Regs(S) == [0 .. 3 -> S]
With(kinds, operands, imms) ==
    { Instr(k, o[1], o[2], o[3], Wrap(imm)) : k \in kinds, o \in operands, imm \in imms }

(* Division: the operands where signs and overflows are, every quotient      *)
DivisionInstructions ==
    With({"DIV", "REM", "DIVU", "REMU", "DIVW", "REMW", "DIVUW", "REMUW"},
         { <<1, 1, 2>>, <<2, 1, 2>> }, {0})
    \cup With({"DIV", "REMUW"}, { <<0, 1, 2>> }, {0})
DivisionRegisters == { r \in Regs({0, 1, 2, 7, 127, 128, 255}) : r[0] = 0 /\ r[3] = 0 }
Remainders == {0, 1, 2, 7, 127, 128, 255}
FewWords == {0, 1, 2, 255}
NoMemory == { [a \in {} |-> 0] }

(* Arithmetic and shifts, with the values where carries and signs change *)
ArithmeticInstructions ==
    With({"ADDW", "SUBW", "MULW", "MULH", "MULHSU", "SLL", "SRL", "SRA", "SLLW", "SRLW", "SRAW"},
         Operands, {0})
    \cup With({"ADDIW", "SLLI", "SRLI", "SRAI", "SLLIW", "SRLIW", "SRAIW"},
              { <<3, 1, 0>>, <<1, 1, 0>>, <<0, 1, 0>> }, {0, 1, 3, 5, 7, -1})
Boundary == {0, 1, 2, 7, 8, 9, 15, 16, 100, 127, 128, 136, 240, 248, 254, 255}
ArithmeticRegisters == { r \in Regs(Boundary) : r[0] = 0 /\ r[3] = 0 }

(* Loads, stores and atomics: an address, a value, a doubleword *)
MemoryInstructions ==
    With({"LB", "LBU", "LH", "LHU", "LW", "LWU", "LD"},
         { <<3, 1, 0>>, <<1, 1, 0>>, <<0, 1, 0>> }, {0, 1, -2})
    \cup With({"SB", "SH", "SW", "SD"}, { <<0, 1, 2>>, <<0, 1, 1>>, <<0, 1, 0>> }, {0, 1, -2})
    \cup With(AmoD \cup AmoW, { <<3, 1, 2>>, <<1, 1, 2>>, <<2, 1, 2>>, <<0, 1, 2>>, <<3, 1, 1>> },
              {0})
MemoryRegisters ==
    { r \in Regs({0} \cup 16 .. 24 \cup {5, 165, 250}) :
         r[0] = 0 /\ r[3] = 0 /\ r[1] \in 16 .. 24 /\ r[2] \in {0, 5, 165, 250} }
MemoryContents == { (16 :> v @@ 24 :> w) : v \in {0, 24, 90, 143, 255}, w \in {0, 163} }

(* Pairs of LR and SC over two doublewords of RAM and one below it *)
ReservationInstructions ==
    With({"LRW", "LRD", "SCW", "SCD"}, { <<3, 1, 2>>, <<0, 2, 1>>, <<1, 1, 2>> }, {0})
    \cup With({"SCW", "SCD"}, { <<3, 1, 1>> }, {0})
    \cup With({"SW", "SD"}, { <<0, 1, 2>> }, {0})
ReservationRegisters ==
    { r \in Regs({0, 16, 20, 24}) : r[0] = 0 /\ r[3] = 0 /\ r[1] # r[2] }
ReservationContents == { (0 :> 77 @@ 16 :> 0 @@ 24 :> 163) }

(* CSR accesses and traps, with addresses of instructions in the registers.  *)
(* The program only clears mstatus and reads it, and its handler is a direct *)
(* one: ECALL's rows know no interrupt bits and no vectored mode.            *)
TrapInstructions ==
    { Instr(k, o[1], o[2], 0, csr) : k \in {"CSRRW", "CSRRS"},
                                     o \in { <<3, 1>>, <<1, 1>>, <<0, 1>>, <<2, 0>> },
                                     csr \in {CsrMtvec, CsrMepc, CsrMscratch} }
    \cup { Instr(k, 2, 0, 0, CsrMstatus) : k \in {"CSRRW", "CSRRS"} }
    \cup With({"ECALL", "MRET", "EBREAK"}, { <<0, 0, 0>> }, {0})
TrapRegisters == { r \in Regs({0, 8, 36, 132}) : r[0] = 0 /\ r[3] = 0 }

Family(instructions, registers, memories, length) ==
    [instructions |-> instructions, registers |-> registers, memories |-> memories,
     forged |-> <<FewWords, FewWords>>, steps |-> length]
AllFamilies ==
    [arithmetic |-> Family(ArithmeticInstructions, ArithmeticRegisters, NoMemory, 1),
     memory |-> Family(MemoryInstructions, MemoryRegisters, MemoryContents, 1),
     reservations |-> Family(ReservationInstructions, ReservationRegisters,
                             ReservationContents, 4),
     traps |-> Family(TrapInstructions, TrapRegisters, NoMemory, 3),
     division |-> [Family(DivisionInstructions, DivisionRegisters, NoMemory, 1)
                      EXCEPT !.forged = <<Word, Remainders>>]]
=============================================================================
