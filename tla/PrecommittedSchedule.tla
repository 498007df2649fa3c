--------------------------- MODULE PrecommittedSchedule ---------------------------
(***************************************************************************)
(* The schedule of the polynomials committed before the run: the advice,    *)
(* the chunks of the bytecode and the image of the program.  Their claims   *)
(* are reduced in the cycle rounds of stage 6b and the address rounds of    *)
(* stage 7, together with everything else, and must end at a point that     *)
(* lies in the one point at which stage 8 opens all commitments.  A         *)
(* polynomial is a matrix in the top left of the joint one; the schedule    *)
(* says in which round each of its variables is bound.                      *)
(*                                                                         *)
(* Rounds are numbered from the first cycle round on.  A shape is a record  *)
(* of layout, logT, logK and, in reference, the variables of the largest    *)
(* polynomial (zkvm/claim_reductions/precommitted.rs).                      *)
(***************************************************************************)
EXTENDS Integers, Sequences, SequencesExt

LOCAL Smaller(a, b) == IF a <= b THEN a ELSE b

Sigma(vars) == (vars + 1) \div 2
Nu(vars) == vars - Sigma(vars)

MainVars(s) == s.logT + s.logK
Dominated(s) == s.reference > MainVars(s)
CycleRounds(s) == s.reference - s.logK
(* The largest number of variables, of the main polynomials or a candidate    *)
Reference(logT, logK, candidates) ==
    CHOOSE v \in candidates \cup {logT + logK} : \A w \in candidates \cup {logT + logK} : w <= v

(* Where the polynomials of the trace lie in the joint matrix: the bit of the *)
(* index of an entry that holds a variable of its cycle or its address, the   *)
(* first variable first                                                       *)
ExtraVars(s) == s.reference - MainVars(s)
CycleBit(s, i) ==
    (IF s.layout = "AddressMajor" THEN ExtraVars(s) + s.logK ELSE 0) + s.logT - i
AddressBit(s, i) ==
    (IF s.layout = "AddressMajor" THEN ExtraVars(s) ELSE s.logT) + s.logK - i

LOCAL Descending(from, to) == [i \in 1 .. (to - from) |-> to - i]
(* A schedule that places the padding after the trace, whatever the layout *)
RoundOrderPaddingLast(s) ==
    LET cycle == CycleRounds(s)
        t == Smaller(s.logT, cycle)
        address == Descending(cycle, cycle + s.logK)
        dense == Descending(cycle - t, cycle)
    IN  (IF s.layout = "CycleMajor" THEN address \o dense ELSE dense \o address)
        \o Descending(0, cycle - t)
(* A schedule that forgets the layout *)
RoundOrderOneLayout(s) == Descending(0, CycleRounds(s) + s.logK)
(* The rounds that bind the variables of the joint point, the first variable  *)
(* first                                                                      *)
RoundOrder(s) ==
    LET cycle == CycleRounds(s)
        t == Smaller(s.logT, cycle)
        address == Descending(cycle, cycle + s.logK)
        prefix == Descending(0, cycle - t)
        dense == Descending(cycle - t, cycle)
    IN  IF Dominated(s)
        THEN IF s.layout = "CycleMajor" THEN prefix \o address \o dense ELSE dense \o address \o prefix
        ELSE IF s.layout = "CycleMajor" THEN address \o Descending(0, cycle)
             ELSE Descending(0, cycle) \o address

(* The last rows and the last columns of the joint matrix *)
LOCAL Final(seq, n) == SubSeq(seq, Len(seq) - n + 1, Len(seq))
Projected(seq, vars) ==
    LET rows == Nu(Len(seq))
    IN  Final(SubSeq(seq, 1, rows), Nu(vars)) \o Final(SubSeq(seq, rows + 1, Len(seq)), Sigma(vars))
PolynomialRounds(s, vars) == Projected(RoundOrder(s), vars)

InCycle(s, round) == round < CycleRounds(s)
HasAddressRounds(s, vars) ==
    \E round \in ToSet(PolynomialRounds(s, vars)) : ~InCycle(s, round)

(* The challenge of a round *)
Challenge(s, round) ==
    IF InCycle(s, round) THEN <<"cycle6", round>> ELSE <<"address7", round - CycleRounds(s)>>
(* After the cycle rounds: the active ones, the last one first *)
CyclePoint(s, vars) ==
    LET active == SelectSeq(PolynomialRounds(s, vars), LAMBDA r : InCycle(s, r))
        sorted == SortSeq(active, LAMBDA a, b : a > b)
    IN  [i \in 1 .. Len(sorted) |-> Challenge(s, sorted[i])]
FinalPoint(s, vars) ==
    IF HasAddressRounds(s, vars)
    THEN LET rounds == PolynomialRounds(s, vars) IN [i \in 1 .. vars |-> Challenge(s, rounds[i])]
    ELSE CyclePoint(s, vars)

(* The points of the main polynomials: their rounds are the last ones         *)
NativeCycle(s) == [i \in 1 .. s.logT |-> <<"cycle6", CycleRounds(s) - i>>]
NativeAddress(s) == [i \in 1 .. s.logK |-> <<"address7", s.logK - i>>]
=============================================================================
