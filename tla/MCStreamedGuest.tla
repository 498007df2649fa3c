--------------------------- MODULE MCStreamedGuest --------------------------
(***************************************************************************)
(* The streaming pipeline on guests of up to five instructions over two    *)
(* data words, whose expansions have one to three rows, so that a block    *)
(* size of 1 to 4 falls on, just before and inside a tick; the release     *)
(* parameters agree with the block size or do not.                         *)
(***************************************************************************)
EXTENDS StreamedGuest

CONSTANTS register, ram

Kinds == {register, ram}

Words == 1..7

Ins(op, arg, rows) == [op |-> op, arg |-> arg, rows |-> rows]
Table ==
    << Ins("add", 6, 1), Ins("load", 6, 2), Ins("store", 6, 1),
       Ins("store", 7, 3), Ins("load", 7, 1), Ins("jump", 5, 1),
       Ins("jump", 4, 2) >>

(* A guest is its first four instructions; the fifth jumps to itself. *)
Guest(ops, data) ==
    [a \in 1..7 |-> IF a \in 1..4 THEN ops[a]
                    ELSE IF a = 5 THEN 6 ELSE data]

Guests ==
    { Guest(<<1, 3, 2, 4>>, 0), Guest(<<2, 1, 3, 5>>, 3),
      Guest(<<4, 4, 2, 1>>, 1), Guest(<<1, 1, 1, 1>>, 0),
      Guest(<<2, 2, 4, 3>>, 2), Guest(<<6, 1, 1, 1>>, 0),
      Guest(<<5, 7, 1, 7>>, 4), Guest(<<4, 1, 3, 2>>, 3),
      Guest(<<1, 6, 1, 1>>, 0) }

PaddedReceipt == {[digest |-> 1, zk |-> TRUE, traceLength |-> 16]}
=============================================================================
