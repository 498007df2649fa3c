---------------------------- MODULE MCProvedTrace ----------------------------
(* A program whose traces are proved.  An input says which of its two         *)
(* routines it jumps to.                                                      *)
EXTENDS ProvedTrace, TLC

At(address, instr) == [instr |-> instr, address |-> address, compressed |-> FALSE]
Compressed(address, instr) == [instr |-> instr, address |-> address, compressed |-> TRUE]

(* Words of memory: three inputs, the output, the panic and termination words *)
InputA == 8
InputB == 16
Output == 24
PanicWord == 32
TerminationWord == 40
Routine == 48
Memory(a, b, routine) ==
    InputA :> a @@ InputB :> b @@ Routine :> routine
    @@ Output :> 0 @@ PanicWord :> 0 @@ TerminationWord :> 0
Inputs ==
    { Memory(a, b, 100) : a \in {3, 200}, b \in {0, 7} }
    \cup { Memory(a, 0, 160) : a \in {3, 200} }

FewNumbers == {0, 1, 2, 28, 255, 256, 400}

Dispatch == <<
    At(92, FormI("LD", 1, 0, Routine)),
    At(96, FormI("JALR", 0, 1, 0)) >>

(* Divide the inputs in a subroutine; output the quotient, or panic if it is  *)
(* zero; end in a loop.                                                       *)
Division == <<
    At(100, FormI("LD", 1, 0, InputA)),
    At(104, FormI("LD", 2, 0, InputB)),
    Compressed(108, FormU("JAL", 3, 28)),
    At(110, FormI("ADDI", 4, 0, 1)),
    At(114, FormS("BEQ", 1, 0, 14)),
    At(118, FormS("SD", 0, 1, Output)),
    At(122, FormS("SD", 0, 4, TerminationWord)),
    Compressed(126, FormU("JAL", 0, 0)),
    At(128, FormS("SD", 0, 4, PanicWord)),
    At(132, FormU("JAL", 0, -6)),
    At(136, FormR("DIVU", 1, 1, 2)),
    Compressed(140, FormI("JALR", 0, 3, 0)) >>

(* Read a byte of the input and trap; the handler complements it and returns  *)
(* past the trap; store half a doubleword of it and end in a breakpoint.      *)
Trap == <<
    At(160, FormI("ADDI", 1, 0, 200)),
    At(164, Instr("CSRRW", 0, 1, 0, CsrMtvec)),
    At(168, FormI("LBU", 1, 0, InputA + 1)),
    At(172, FormU("ECALL", 0, 0)),
    At(176, FormS("SW", 0, 1, Output + 4)),
    Compressed(180, FormI("ADDIW", 2, 0, 1)),
    At(182, FormS("SD", 0, 2, TerminationWord)),
    At(186, FormU("EBREAK", 0, 0)),
    At(200, Instr("CSRRS", 2, 0, 0, CsrMepc)),
    Compressed(204, FormI("ADDI", 2, 2, 4)),
    At(206, Instr("CSRRW", 0, 2, 0, CsrMepc)),
    At(210, FormI("XORI", 1, 1, 1)),
    At(214, FormU("MRET", 0, 0)) >>

Routines == Dispatch \o Division \o Trap
=============================================================================
