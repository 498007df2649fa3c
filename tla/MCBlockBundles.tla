--------------------------- MODULE MCBlockBundles ----------------------------
(* A program whose trace is cut: it loads its input, computes in two rows,    *)
(* stores and loads the result, overwrites its input, and ends in a loop.     *)
EXTENDS BlockBundles, TLC

At(address, instr) == [instr |-> instr, address |-> address, compressed |-> FALSE]
Compressed(address, instr) == [instr |-> instr, address |-> address, compressed |-> TRUE]

Input == 8
Output == 16
Inputs == { Input :> a @@ Output :> 0 : a \in {3, 255} }

Store == <<
    At(100, FormI("LD", 1, 0, Input)),
    Compressed(104, FormI("ADDIW", 1, 1, 1)),
    At(106, FormS("SD", 0, 1, Output)),
    At(110, FormI("LD", 2, 0, Output)),
    At(114, FormS("SD", 0, 2, Input)),
    At(118, FormU("JAL", 1, 8)),
    Compressed(126, FormU("JAL", 0, 0)) >>
=============================================================================
