--------------------------- MODULE StreamingProver --------------------------
(***************************************************************************)
(* prove_streaming_blocks_with_final_proof_and_profile, the production     *)
(* loop of jolt-core/src/zkvm/block/streaming.rs: it takes trace blocks    *)
(* from an iterator one ahead of the block it works on, checks each block  *)
(* against the next one and against what it remembers of the earlier ones, *)
(* and folds it with the backend of NovaFold.                              *)
(*                                                                         *)
(* A trace block is the record of TraceBlocks, its rows those of           *)
(* LazyTracer, but any iterator may supply it.  blocks and ended are the   *)
(* iterator's side: the blocks returned so far, and whether it has         *)
(* returned None.  The proof of a block relation is the relation itself.   *)
(* max_resident_trace_blocks, one plus whether there is a next block, can  *)
(* never exceed two, so its check is left out; BoundedLookahead states     *)
(* what it is for.                                                         *)
(***************************************************************************)
EXTENDS Integers, Sequences, SequencesExt

CONSTANTS None,          \* the absent value
          Program,       \* the program digest of the pipeline
          TargetSizes,   \* the block sizes the release parameters may name
          Receipts,      \* the receipts the pipeline may hold, or None
          Offered,       \* the blocks an arbitrary iterator may return
          ClaimKinds, FieldOrder   \* of NovaFold

(* What the loop ends with: the proof or an error.                         *)
Outcomes ==
    {"Proved", "InvalidReleaseParameters", "MissingVerifiedJoltReceipt",
     "ExpectedZkReceipt", "EmptyTrace", "BlockTargetSizeMismatch",
     "TraceContinuesAfterTermination", "UnterminatedTrace", "Cpu", "Register",
     "Ram", "RamContinuity", "NotContiguous", "Receipt"}

ASSUME AbsentAssumption == None \notin Offered /\ None \notin Outcomes
ASSUME CyclesAssumption == \A b \in Offered : b.cycles \in Seq(Range(b.cycles))

VARIABLES blocks, ended, prover, accumulator, instance

vars == <<blocks, ended, prover, accumulator, instance>>

Nova == INSTANCE NovaFold WITH Inputs <- {}

Fresh(size, receipt) ==
    [phase |-> "start", targetSize |-> size, receipt |-> receipt,
     taken |-> 0, current |-> None, next |-> None, previous |-> None,
     ram |-> <<>>, active |-> 0, outcome |-> None]

Init ==
    /\ blocks = <<>> /\ ended = FALSE
    /\ \E size \in TargetSizes, receipt \in Receipts :
          prover = Fresh(size, receipt)
    /\ Nova!Init

Fail(reason) ==
    /\ prover' = [prover EXCEPT !.phase = "done", !.outcome = reason]
    /\ UNCHANGED <<blocks, ended, accumulator, instance>>

-----------------------------------------------------------------------------
(* The iterator.                                                           *)

(* Mutant: the iterator is collected ahead of the loop. *)
WantsEagerly == prover.phase \in {"first", "next"} /\ ~ended

(* The prover has called next and the iterator has not answered. *)
Wants ==
    /\ prover.phase \in {"first", "next"}
    /\ Len(blocks) = prover.taken
    /\ ~ended

Offer(b) ==
    /\ Wants
    /\ blocks' = Append(blocks, b)
    /\ UNCHANGED <<ended, prover, accumulator, instance>>

EndOfBlocks ==
    /\ Wants
    /\ ended' = TRUE
    /\ UNCHANGED <<blocks, prover, accumulator, instance>>

Available == Len(blocks) > prover.taken

-----------------------------------------------------------------------------
(* The relations of one block.                                             *)

(* What follows the last row of the block: the first row of the next       *)
(* block, the NoOp of a terminated machine, or nothing.                    *)
Lookahead(b, next) ==
    IF next # None /\ next.cycles # <<>>
    THEN [kind |-> "row", at |-> next.cycles[1].at]
    ELSE [kind |-> IF b.endState.terminated THEN "noop" ELSE "none"]

(* Mutant: the last row of a block is not held against the lookahead. *)
CpuHoldsInside(b, ahead) ==
    \A i \in 1..(Len(b.cycles) - 1) : b.cycles[i + 1].at = b.cycles[i].to

(* validate_cpu_r1cs_block, as far as one row constrains the next: a jump  *)
(* need not reach its target when a NoOp follows.                          *)
CpuHolds(b, ahead) ==
    /\ \A i \in 1..(Len(b.cycles) - 1) : b.cycles[i + 1].at = b.cycles[i].to
    /\ b.cycles # <<>> =>
          CASE ahead.kind = "row"  -> ahead.at = Last(b.cycles).to
            [] ahead.kind = "noop" -> Last(b.cycles).jump
            [] OTHER               -> TRUE

(* validate_trace_block_shape and validate_shape. *)
ShapeHolds(b) ==
    /\ b.active = Len(b.cycles) /\ b.active # 0
    /\ b.atBoundary
    /\ b.start = b.startState.globalCycle
    /\ b.start + b.active = b.endState.globalCycle

(* The register after each row, from its value before the first. *)
RegisterAfter(rows, x) ==
    LET r[i \in 0..Len(rows)] ==
            IF i = 0 THEN x
            ELSE IF rows[i].reg = <<>> THEN r[i - 1] ELSE rows[i].reg[2]
    IN  r

(* validate_register_flow *)
RegisterFlows(b) ==
    LET r == RegisterAfter(b.cycles, b.startState.x)
    IN  /\ \A i \in 1..Len(b.cycles) :
              b.cycles[i].reg # <<>> => b.cycles[i].reg[1] = r[i - 1]
        /\ r[Len(b.cycles)] = b.endState.x

(* The accesses of the rows that access memory, in order.                  *)
Accesses(rows) ==
    FlattenSeq([i \in DOMAIN rows |->
                   IF rows[i].ram = <<>> THEN <<>> ELSE <<rows[i].ram>>])

(* Mutant: the value before the block's first access is remembered. *)
RamAfterFirst(ram, accesses) ==
    LET cell(a) == LET S == {i \in DOMAIN accesses : accesses[i][1] = a}
                   IN  IF S = {} THEN ram[a]
                       ELSE accesses[CHOOSE i \in S : \A j \in S : i <= j][2]
    IN  [a \in DOMAIN ram \cup {accesses[i][1] : i \in DOMAIN accesses}
            |-> cell(a)]

(* Memory as the accesses leave it, where ram is what is known before. *)
RamAfter(ram, accesses) ==
    LET cell(a) == LET S == {i \in DOMAIN accesses : accesses[i][1] = a}
                   IN  IF S = {} THEN ram[a]
                       ELSE accesses[CHOOSE i \in S : \A j \in S : j <= i][3]
    IN  [a \in DOMAIN ram \cup {accesses[i][1] : i \in DOMAIN accesses}
            |-> cell(a)]

(* Every access finds the value that is known before it, if one is. *)
RamFlows(ram, accesses) ==
    \A i \in DOMAIN accesses :
        LET known == RamAfter(ram, SubSeq(accesses, 1, i - 1))
        IN  accesses[i][1] \in DOMAIN known =>
                accesses[i][2] = known[accesses[i][1]]

(* BlockPublicInput::validate_contiguous_with, on whole boundary states. *)
ContiguousWith(a, b) ==
    /\ a.index + 1 = b.index
    /\ a.start + a.active = b.start
    /\ a.endState = b.startState

FoldInputOf(b, receipt) ==
    [program |-> Program, index |-> b.index, start |-> b.start,
     end |-> b.start + b.active, active |-> b.active,
     startState |-> b.startState, endState |-> b.endState,
     startRegister |-> b.startState.x, endRegister |-> b.endState.x,
     receipt |-> receipt.digest, opening |-> None, witness |-> None,
     valid |-> TRUE, sealed |-> TRUE]

-----------------------------------------------------------------------------
(* The loop.                                                               *)

(* The checks of one turn, in the order the code makes them; validate_     *)
(* ram_flow sees the block alone, absorb_streaming_ram_continuity the cells *)
(* of the blocks before it.                                                *)
Checks ==
    LET b     == prover.current
        ahead == Lookahead(b, prover.next)
    IN  << <<"BlockTargetSizeMismatch", b.target = prover.targetSize>>,
           <<"TraceContinuesAfterTermination",
             ~(b.endState.terminated /\ prover.next # None)>>,
           <<"UnterminatedTrace", ahead.kind # "none">>,
           <<"Cpu", ShapeHolds(b) /\ CpuHolds(b, ahead)>>,
           <<"Register", RegisterFlows(b)>>,
           <<"Ram", RamFlows(<<>>, Accesses(b.cycles))>>,
           <<"RamContinuity", RamFlows(prover.ram, Accesses(b.cycles))>>,
           <<"NotContiguous",
             prover.previous # None => ContiguousWith(prover.previous, b)>>,
           <<"Receipt", prover.receipt.traceLength >= b.start + b.active>> >>

Passes == \A i \in DOMAIN Checks : Checks[i][2]

PowerOfTwo(n) == \E k \in 0..(n - 1) : n = 2^k

(* Stage18ReleaseParameters::validate, and the receipt. *)
Start ==
    /\ prover.phase = "start"
    /\ IF ~PowerOfTwo(prover.targetSize)
       THEN Fail("InvalidReleaseParameters")
       ELSE IF prover.receipt = None THEN Fail("MissingVerifiedJoltReceipt")
       ELSE IF ~prover.receipt.zk THEN Fail("ExpectedZkReceipt")
       ELSE /\ prover' = [prover EXCEPT !.phase = "first"]
            /\ UNCHANGED <<blocks, ended, accumulator, instance>>

TakeFirst ==
    /\ prover.phase = "first"
    /\ \/ /\ Available
          /\ prover' = [prover EXCEPT !.phase = "next", !.taken = 1,
                                      !.current = blocks[1]]
          /\ UNCHANGED <<blocks, ended, accumulator, instance>>
       \/ ~Available /\ ended /\ Fail("EmptyTrace")

TakeNext ==
    /\ prover.phase = "next"
    /\ \/ /\ Available
          /\ prover' = [prover EXCEPT !.phase = "fold", !.taken = @ + 1,
                                      !.next = blocks[prover.taken + 1]]
       \/ /\ ~Available /\ ended
          /\ prover' = [prover EXCEPT !.phase = "fold", !.next = None]
    /\ UNCHANGED <<blocks, ended, accumulator, instance>>

(* Mutant: a failed check is reported and the loop goes on. *)
RejectRetrying ==
    /\ prover.phase = "fold"
    /\ ~Passes
    /\ UNCHANGED vars

Reject ==
    /\ prover.phase = "fold"
    /\ ~Passes
    /\ Fail(Checks[CHOOSE i \in DOMAIN Checks :
                      /\ ~Checks[i][2]
                      /\ \A j \in 1..(i - 1) : Checks[j][2]][1])

(* Mutant: the prefetched block is not moved to current. *)
FoldBlockInPlace ==
    /\ prover.phase = "fold"
    /\ Passes
    /\ Nova!Absorb(FoldInputOf(prover.current, prover.receipt))
    /\ prover' = [prover EXCEPT
                    !.phase = IF prover.next = None THEN "final" ELSE "next",
                    !.ram = RamAfter(@, Accesses(prover.current.cycles)),
                    !.previous = prover.current,
                    !.active = @ + prover.current.active,
                    !.next = None]
    /\ UNCHANGED <<blocks, ended>>

(* A backend that refused a block that has passed would leave no step.     *)
FoldBlock ==
    /\ prover.phase = "fold"
    /\ Passes
    /\ Nova!Absorb(FoldInputOf(prover.current, prover.receipt))
    /\ prover' = [prover EXCEPT
                    !.phase = IF prover.next = None THEN "final" ELSE "next",
                    !.ram = RamAfter(@, Accesses(prover.current.cycles)),
                    !.previous = prover.current,
                    !.active = @ + prover.current.active,
                    !.current = IF prover.next = None THEN @ ELSE prover.next,
                    !.next = None]
    /\ UNCHANGED <<blocks, ended>>

(* The final proof, and its own verification against the metrics; a last   *)
(* block that is not terminated was already refused for its lookahead.     *)
Finish ==
    /\ prover.phase = "final"
    /\ prover.current.endState.terminated
    /\ Nova!BuildFinalInstance
    /\ accumulator.metadata.absorbed = prover.taken
    /\ accumulator.metadata.active = prover.active
    /\ prover' = [prover EXCEPT !.phase = "done", !.outcome = "Proved"]
    /\ UNCHANGED <<blocks, ended>>

Prove == Start \/ TakeFirst \/ TakeNext \/ Reject \/ FoldBlock \/ Finish

Done == prover.phase = "done" /\ UNCHANGED vars

Next == (\E b \in Offered : Offer(b)) \/ EndOfBlocks \/ Prove \/ Done

(* The loop runs on, and its iterator answers every call. *)
Spec == Init /\ [][Next]_vars /\ WF_vars(Next)

-----------------------------------------------------------------------------
(* Properties.                                                             *)

(* The shape of the loop: what is held in each phase, and what has been    *)
(* folded by then.                                                         *)
TypeOK ==
    /\ prover.taken \in 0..Len(blocks) /\ Len(blocks) <= prover.taken + 1
    /\ prover.phase \in {"start", "first"} => prover.current = None
    /\ prover.phase \in {"next", "fold"} =>
          prover.current = blocks[accumulator.metadata.absorbed + 1]
    /\ prover.phase = "done" <=> prover.outcome # None
    /\ prover.outcome \in Outcomes \cup {None}
    /\ instance # None => prover.outcome = "Proved"
    /\ prover.outcome = "Proved" =>
          instance = [metadata |-> accumulator.metadata, z |-> accumulator.z]

(* A proof is of one unbroken execution, although every check sees one     *)
(* block, the row after it and the cells known so far: all blocks taken    *)
(* are folded, and their rows, put end to end, follow each other, carry    *)
(* the register from row to row, read from every cell what was last        *)
(* written there, and end with the jump of a terminated machine, which no  *)
(* earlier block is.                                                       *)
ProvedIsExecution ==
    prover.outcome = "Proved" =>
        LET rows == FlattenSeq([i \in DOMAIN blocks |-> blocks[i].cycles])
            r    == RegisterAfter(rows, blocks[1].startState.x)
        IN  /\ accumulator.metadata.absorbed = Len(blocks)
            /\ accumulator.metadata.active = Len(rows)
            /\ \A i \in 1..(Len(rows) - 1) : rows[i + 1].at = rows[i].to
            /\ \A i \in DOMAIN rows :
                  rows[i].reg # <<>> => rows[i].reg[1] = r[i - 1]
            /\ RamFlows(<<>>, Accesses(rows))
            /\ Last(rows).jump
            /\ \A i \in DOMAIN blocks :
                  blocks[i].endState.terminated <=> i = Len(blocks)

(* The memory bound of streaming: the iterator is never more than two      *)
(* blocks ahead of what has been folded (one when nothing more is wanted), *)
(* and the loop holds no blocks but these.                                 *)
BoundedLookahead ==
    /\ TypeOK
    /\ Len(blocks) - accumulator.metadata.absorbed <= 2
    /\ prover.outcome = "Proved" => Len(blocks) = accumulator.metadata.absorbed

(* The loop decides: no sequence of blocks keeps it going for ever.        *)
Decides == <>(prover.phase = "done")
=============================================================================
