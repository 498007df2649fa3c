----------------------------- MODULE MCNovaFold -----------------------------
(***************************************************************************)
(* A small universe of fold inputs for NovaFold: two honest executions cut *)
(* into blocks, one with and one without native openings, and blocks that  *)
(* differ from an honest one in a single field.                            *)
(***************************************************************************)
EXTENDS NovaFold, TLC

CONSTANTS register, ram   \* two of the four families of native claims

Kinds == {register, ram}

(* Block i of execution e starts in state 10 * e + i at cycle i. *)
Honest(e, i, w) ==
    [program |-> e, index |-> i, start |-> 2 * i, end |-> 2 * i + 2,
     active |-> 2, startState |-> 10 * e + i, endState |-> 10 * e + i + 1,
     startRegister |-> i, endRegister |-> i + 1,
     receipt |-> IF e = 0 THEN None ELSE e,
     opening |-> IF w = None THEN None ELSE e,
     witness |-> w, valid |-> TRUE, sealed |-> TRUE]

(* Three announced blocks that contribute 1, 2 and 3 to the register claim *)
(* and 0, 3 and 1 to the RAM claim, over a field of order 5.               *)
Aggregate(r, m) == (register :> r) @@ (ram :> m)
NativeWitness(i) ==
    [position |-> i, count |-> 3, challenge |-> 7, target |-> Aggregate(1, 4),
     aggregate |-> <<Aggregate(1, 0), Aggregate(2, 3), Aggregate(3, 1)>>[i + 1],
     shape |-> 0]

(* The execution forks: block i may start and end on either of two tracks, *)
(* and contribute r more than announced to the register claim.             *)
Forked(in, a, b) == [in EXCEPT !.startState = in.startState + 100 * a,
                               !.endState = in.endState + 100 * b]
Native == { Forked(Honest(1, i, [NativeWitness(i) EXCEPT
                                   !.aggregate[register] = (@ + r) % FieldOrder]),
                   a, b) : i \in 0..2, r \in {0, 1, 4}, a \in 0..1, b \in 0..1 }
Plain  == { Forked(Honest(0, i, None), a, b) :
              i \in 0..2, a \in 0..1, b \in 0..1 }
Middle == Honest(1, 1, NativeWitness(1))

(* The middle block of the native execution, altered in one field. *)
Altered ==
    { [Middle EXCEPT !.program = 0], [Middle EXCEPT !.index = 2],
      [Middle EXCEPT !.start = 1], [Middle EXCEPT !.active = 1],
      [Middle EXCEPT !.end = 5],
      [Middle EXCEPT !.startState = 12], [Middle EXCEPT !.endState = 13],
      [Middle EXCEPT !.startRegister = 0], [Middle EXCEPT !.endRegister = 0],
      [Middle EXCEPT !.receipt = 2], [Middle EXCEPT !.opening = 2],
      [Middle EXCEPT !.receipt = None], [Middle EXCEPT !.opening = None],
      [Middle EXCEPT !.witness = None], [Middle EXCEPT !.valid = FALSE],
      [Middle EXCEPT !.sealed = FALSE],
      [Middle EXCEPT !.witness.position = 0],
      [Middle EXCEPT !.witness.count = 2],
      [Middle EXCEPT !.witness.challenge = 8],
      [Middle EXCEPT !.witness.target = Aggregate(3, 3)],
      [Middle EXCEPT !.witness.aggregate = Aggregate(2, 4)],
      [Middle EXCEPT !.witness.shape = 1] }

(* Blocks past the end of the announced schedule, blocks that start a fold *)
(* in the middle of an execution, a schedule of one block, a schedule of   *)
(* no blocks, and a block of no cycles.                                    *)
Edges ==
    { Honest(1, 3, [NativeWitness(0) EXCEPT !.position = 3]),
      Honest(1, 1, [NativeWitness(1) EXCEPT !.position = 0]),
      Honest(1, 2, [NativeWitness(2) EXCEPT !.position = 1]),
      Honest(1, 0, [NativeWitness(0) EXCEPT !.count = 1, !.target = Aggregate(1, 0)]),
      Honest(1, 0, [NativeWitness(0) EXCEPT !.count = 0]),
      [Honest(0, 1, None) EXCEPT !.end = 2, !.active = 0],
      [Honest(0, 2, None) EXCEPT !.start = 2, !.active = 4] }

AllInputs == Native \cup Plain \cup Altered \cup Edges
=============================================================================
