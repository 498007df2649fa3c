--------------------------- MODULE FoldAccumulator ---------------------------
(***************************************************************************)
(* The metadata a folding backend keeps about the blocks it has absorbed   *)
(* (BlockFoldAccumulator in jolt-core/src/zkvm/block.rs), as operators:    *)
(* the empty accumulator, the conditions under which absorb accepts a fold *)
(* input, and the accumulator it leaves.                                   *)
(*                                                                         *)
(* Digests.  A SHA3 digest is the value it is taken of, that is, digests   *)
(* are injective.  So accumulator_digest, a hash chain over the fold       *)
(* inputs, is the sequence of the fold inputs, and the machine and         *)
(* register digests of a boundary are the boundary values themselves.      *)
(* An Option is a value or None.                                           *)
(***************************************************************************)
EXTENDS Integers, Sequences

CONSTANT None

(***************************************************************************)
(* The public part of the recursive opening witness, which a block has     *)
(* only when the original Jolt proof was verified with native openings.    *)
(***************************************************************************)
Challenges(in)     == IF in.witness = None THEN None ELSE in.witness.challenge
ClosureTargets(in) == IF in.witness = None THEN None ELSE in.witness.target
TotalBlocks(in)    == IF in.witness = None THEN None ELSE in.witness.count

EmptyAccumulator ==
    [program |-> None, absorbed |-> 0, first |-> None, last |-> None,
     cycleStart |-> None, cycleEnd |-> None,
     initialState |-> None, initialRegister |-> None,
     receipt |-> None, opening |-> None,
     challenge |-> None, target |-> None, total |-> None,
     latestState |-> None, latestRegister |-> None,
     active |-> 0, digest |-> <<>>]

(* What absorb requires of a block once the accumulator is not empty. *)
Continues(acc, in) ==
    /\ in.program = acc.program
    /\ in.index = acc.last + 1
    /\ in.start = acc.cycleEnd
    /\ in.startState = acc.latestState
    /\ in.startRegister = acc.latestRegister
    /\ in.receipt = acc.receipt
    /\ in.opening = acc.opening
    /\ Challenges(in) = acc.challenge
    /\ ClosureTargets(in) = acc.target
    /\ TotalBlocks(in) = acc.total

Accepts(acc, in) ==
    /\ in.sealed
    /\ acc.program # None => Continues(acc, in)

(* Mutant: the digest restarts with every block. *)
AbsorbedForgetting(acc, in) ==
    LET Fixed(old, new) == IF acc.program = None THEN new ELSE old
    IN  [program         |-> Fixed(acc.program, in.program),
         absorbed        |-> acc.absorbed + 1,
         first           |-> Fixed(acc.first, in.index),
         last            |-> in.index,
         cycleStart      |-> Fixed(acc.cycleStart, in.start),
         cycleEnd        |-> in.end,
         initialState    |-> Fixed(acc.initialState, in.startState),
         initialRegister |-> Fixed(acc.initialRegister, in.startRegister),
         receipt         |-> Fixed(acc.receipt, in.receipt),
         opening         |-> Fixed(acc.opening, in.opening),
         challenge       |-> Fixed(acc.challenge, Challenges(in)),
         target          |-> Fixed(acc.target, ClosureTargets(in)),
         total           |-> Fixed(acc.total, TotalBlocks(in)),
         latestState     |-> in.endState,
         latestRegister  |-> in.endRegister,
         active          |-> acc.active + in.active,
         digest          |-> <<in>>]

(* Mutant: the latest register digest is set by the first block only. *)
AbsorbedStaleRegister(acc, in) ==
    LET Fixed(old, new) == IF acc.program = None THEN new ELSE old
    IN  [program         |-> Fixed(acc.program, in.program),
         absorbed        |-> acc.absorbed + 1,
         first           |-> Fixed(acc.first, in.index),
         last            |-> in.index,
         cycleStart      |-> Fixed(acc.cycleStart, in.start),
         cycleEnd        |-> in.end,
         initialState    |-> Fixed(acc.initialState, in.startState),
         initialRegister |-> Fixed(acc.initialRegister, in.startRegister),
         receipt         |-> Fixed(acc.receipt, in.receipt),
         opening         |-> Fixed(acc.opening, in.opening),
         challenge       |-> Fixed(acc.challenge, Challenges(in)),
         target          |-> Fixed(acc.target, ClosureTargets(in)),
         total           |-> Fixed(acc.total, TotalBlocks(in)),
         latestState     |-> in.endState,
         latestRegister  |-> Fixed(acc.latestRegister, in.endRegister),
         active          |-> acc.active + in.active,
         digest          |-> Append(acc.digest, in)]

(* The first block fixes what every later block must agree with. *)
Absorbed(acc, in) ==
    LET Fixed(old, new) == IF acc.program = None THEN new ELSE old
    IN  [program         |-> Fixed(acc.program, in.program),
         absorbed        |-> acc.absorbed + 1,
         first           |-> Fixed(acc.first, in.index),
         last            |-> in.index,
         cycleStart      |-> Fixed(acc.cycleStart, in.start),
         cycleEnd        |-> in.end,
         initialState    |-> Fixed(acc.initialState, in.startState),
         initialRegister |-> Fixed(acc.initialRegister, in.startRegister),
         receipt         |-> Fixed(acc.receipt, in.receipt),
         opening         |-> Fixed(acc.opening, in.opening),
         challenge       |-> Fixed(acc.challenge, Challenges(in)),
         target          |-> Fixed(acc.target, ClosureTargets(in)),
         total           |-> Fixed(acc.total, TotalBlocks(in)),
         latestState     |-> in.endState,
         latestRegister  |-> in.endRegister,
         active          |-> acc.active + in.active,
         digest          |-> Append(acc.digest, in)]
=============================================================================
