-------------------------- MODULE ExpansionGrammar --------------------------
(***************************************************************************)
(* The language of expansion recipes: a sequence of rows over registers and *)
(* symbolic temporaries, and of the allocations and releases that bind the  *)
(* temporaries while the recipe is materialised.  A register operand is a   *)
(* number: a register if it is not negative, temporary n if it is -(n + 1). *)
(* A row or a source instruction names its kind, operands and immediate;    *)
(* an operand it does not have is x0.                                       *)
(***************************************************************************)
EXTENDS JoltWord, Sequences

TempId(n) == -(n + 1)

Instr(k, rd, rs1, rs2, imm) ==
    [k |-> k, rd |-> rd, rs1 |-> rs1, rs2 |-> rs2, imm |-> imm]
Rows == [k : STRING, rd : Int, rs1 : Int, rs2 : Int, imm : Int]

(* The operand formats of the builder: R, I, S, B or an assertion, U and J *)
FormR(k, rd, rs1, rs2) == Instr(k, rd, rs1, rs2, 0)
FormI(k, rd, rs1, imm) == Instr(k, rd, rs1, 0, Wrap(imm))
FormS(k, rs1, rs2, imm) == Instr(k, 0, rs1, rs2, Wrap(imm))
Check(k, rs1, rs2) == Instr(k, 0, rs1, rs2, 0)
FormU(k, rd, imm) == Instr(k, rd, 0, 0, Wrap(imm))

Allocate(temps) == [j \in DOMAIN temps |-> Instr("allocate", temps[j], 0, 0, 0)]
Release(temps) == [j \in DOMAIN temps |-> Instr("release", temps[j], 0, 0, 0)]

(* The rows every recipe is full of *)
Mov(rd, rs) == FormI("ADDI", rd, rs, 0)
Advice(rd) == FormU("VirtualAdvice", rd, 0)
Sext(rd, rs) == FormI("VirtualSignExtendWord", rd, rs, 0)
Zext(rd, rs) == FormI("VirtualZeroExtendWord", rd, rs, 0)
AssertEq(a, b) == Check("VirtualAssertEQ", a, b)
AssertLte(a, b) == Check("VirtualAssertLTE", a, b)

(* Registers of the allocator: those that hold state of the machine, then   *)
(* the temporaries, then those of registered inlines.                       *)
ReservationW == 32
ReservationD == 33
TrapHandler == 34
Mscratch == 35
Mepc == 36
Mcause == 37
Mtval == 38
Mstatus == 39
Temporaries == 40 .. 47

VirtualRegisterForCsr(csr) ==
    CASE csr = CsrMstatus -> Mstatus
      [] csr = CsrMtvec -> TrapHandler
      [] csr = CsrMscratch -> Mscratch
      [] csr = CsrMepc -> Mepc
      [] csr = CsrMcause -> Mcause
      [] csr = CsrMtval -> Mtval
=============================================================================
