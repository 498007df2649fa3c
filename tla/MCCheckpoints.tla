---------------------------- MODULE MCCheckpoints ---------------------------
(***************************************************************************)
(* Guests whose data cells are read and written in several chunks, whose   *)
(* expansions have one to three rows, and one that loads from a cell it    *)
(* then overwrites.                                                        *)
(***************************************************************************)
EXTENDS Checkpoints

Words == 1..7

Ins(op, arg, rows) == [op |-> op, arg |-> arg, rows |-> rows]
Table ==
    << Ins("add", 6, 1), Ins("load", 6, 2), Ins("store", 6, 1),
       Ins("store", 7, 3), Ins("load", 7, 1), Ins("jump", 5, 1) >>

(* Four instructions; the fifth jumps to itself. *)
Guest(ops, data) ==
    [a \in 1..7 |-> IF a \in 1..4 THEN ops[a]
                    ELSE IF a = 5 THEN 6 ELSE data]

Guests ==
    { Guest(<<1, 3, 2, 4>>, 0), Guest(<<2, 1, 3, 2>>, 3),
      Guest(<<5, 3, 1, 2>>, 2), Guest(<<1, 6, 1, 1>>, 0) }
=============================================================================
