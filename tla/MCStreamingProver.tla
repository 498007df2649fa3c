-------------------------- MODULE MCStreamingProver -------------------------
(***************************************************************************)
(* Arbitrary iterators for StreamingProver.  The blocks of one execution   *)
(* (target size 2; its third block ends terminated), a second way to go on *)
(* from its first block, and blocks that differ from one of them in one    *)
(* field, offered in any order.                                            *)
(***************************************************************************)
EXTENDS StreamingProver

CONSTANTS register, ram

Kinds == {register, ram}

Row(pc, i, to, reg, access) ==
    [at |-> <<pc, i>>, to |-> to, jump |-> FALSE, reg |-> reg, ram |-> access]
Jump(pc) == [Row(pc, 1, <<pc, 1>>, <<>>, <<>>) EXCEPT !.jump = TRUE]

State(cycle, pc, x, terminated) ==
    [globalCycle |-> cycle, pc |-> pc, x |-> x, terminated |-> terminated]

Block(index, start, s, e, rows) ==
    [index |-> index, start |-> start, active |-> Len(rows), target |-> 2,
     startState |-> s, endState |-> e, atBoundary |-> TRUE, cycles |-> rows]

(* add, store to cell 9; a load of two rows from cell 9; jump to itself. *)
B0 == Block(0, 0, State(0, 1, 0, FALSE), State(2, 3, 1, FALSE),
            << Row(1, 1, <<2, 1>>, <<0, 1>>, <<>>),
               Row(2, 1, <<3, 1>>, <<1, 1>>, <<9, 0, 1>>) >>)
B1 == Block(1, 2, State(2, 3, 1, FALSE), State(4, 4, 1, FALSE),
            << Row(3, 1, <<3, 2>>, <<>>, <<>>),
               Row(3, 2, <<4, 1>>, <<1, 1>>, <<9, 1, 1>>) >>)
B2 == Block(2, 4, State(4, 4, 1, FALSE), State(5, 4, 1, TRUE), << Jump(4) >>)

(* Another continuation: stores to cell 9 and to cell 8, terminates. *)
C1 == Block(1, 2, State(2, 3, 1, FALSE), State(5, 5, 1, TRUE),
            << Row(3, 1, <<3, 2>>, <<1, 1>>, <<9, 1, 1>>),
               Row(3, 2, <<5, 1>>, <<1, 1>>, <<8, 7, 1>>), Jump(5) >>)

Altered ==
    { [B0 EXCEPT !.endState.terminated = TRUE],
      [B2 EXCEPT !.endState.terminated = FALSE],
      [B0 EXCEPT !.target = 4], [B1 EXCEPT !.index = 2],
      [B1 EXCEPT !.start = 1], [B1 EXCEPT !.active = 1],
      [B1 EXCEPT !.atBoundary = FALSE],
      [B1 EXCEPT !.cycles = <<>>, !.active = 0, !.endState.globalCycle = 2],
      [B1 EXCEPT !.startState.x = 0, !.endState.x = 0],
      [B1 EXCEPT !.startState.pc = 7], [B1 EXCEPT !.endState.globalCycle = 5],
      [B1 EXCEPT !.endState.x = 2],
      [B1 EXCEPT !.cycles[1].at = <<7, 1>>],
      [B1 EXCEPT !.cycles[2].to = <<7, 1>>],
      [B1 EXCEPT !.cycles[2].reg = <<2, 1>>],
      [B1 EXCEPT !.cycles[2].ram = <<9, 0, 0>>],
      [B1 EXCEPT !.cycles[1].ram = <<9, 1, 3>>],
      [B2 EXCEPT !.cycles[1].ram = <<9, 0, 0>>],
      [B2 EXCEPT !.cycles[1].jump = FALSE] }

AnyBlock == {B0, B1, B2, C1} \cup Altered

AnyReceipt ==
    { None, [digest |-> 1, zk |-> FALSE, traceLength |-> 8],
      [digest |-> 1, zk |-> TRUE, traceLength |-> 8],
      [digest |-> 1, zk |-> TRUE, traceLength |-> 4] }
=============================================================================
