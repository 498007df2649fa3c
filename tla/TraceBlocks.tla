----------------------------- MODULE TraceBlocks ----------------------------
(***************************************************************************)
(* TraceBlockIterator of tracer/src/lib.rs over a CheckpointingTracer: it  *)
(* cuts the lazy trace of a guest into blocks, only between two ticks.     *)
(*                                                                         *)
(* A call of next is a sequence of actions: Begin checks for the end and   *)
(* snapshots the start state, Pull is one turn of the loop that pulls      *)
(* rows, and Emit snapshots the end state and returns the block.           *)
(***************************************************************************)
EXTENDS GuestExecution

CONSTANT Targets   \* the target sizes that may be asked for

ASSUME TargetsAssumption == Targets \subseteq Nat \ {0}

VARIABLES image,     \* the memory the guest was loaded with
          tracer,    \* the CheckpointingTracer
          iter,      \* the TraceBlockIterator
          blocks     \* the blocks returned so far

vars == <<image, tracer, iter, blocks>>

(* Mutant: a drained buffer of rows is taken for the end of the guest. *)
BoundaryStateDrained(t, cycle) ==
    [globalCycle |-> cycle, pc |-> t.emu.pc, x |-> t.emu.x,
     terminated |-> AtTickBoundary(t)]

BoundaryState(t, cycle) ==
    [globalCycle |-> cycle, pc |-> t.emu.pc, x |-> t.emu.x,
     terminated |-> t.finished]

Init ==
    /\ image \in Images
    /\ tracer = NewTracer(image, Entry)
    /\ \E target \in Targets :
          iter = [target |-> target, index |-> 0, start |-> 0,
                  cycles |-> <<>>, startState |-> <<>>, phase |-> "idle"]
    /\ blocks = <<>>

(* next on a terminated tracer returns None, and does so again. *)
End ==
    /\ iter.phase \in {"idle", "done"}
    /\ tracer.finished
    /\ iter' = [iter EXCEPT !.phase = "done"]
    /\ UNCHANGED <<image, tracer, blocks>>

(* The assertion that a block starts at a tick boundary. *)
Begin ==
    /\ iter.phase = "idle"
    /\ ~tracer.finished
    /\ iter' = IF AtTickBoundary(tracer)
               THEN [iter EXCEPT
                       !.phase = "pulling", !.cycles = <<>>,
                       !.startState = BoundaryState(tracer, iter.start)]
               ELSE [iter EXCEPT !.phase = "panicked"]
    /\ UNCHANGED <<image, tracer, blocks>>

(* Mutant: the block is cut as soon as it has reached its target size. *)
WantsRowHardCut == Len(iter.cycles) < iter.target

WantsRow == Len(iter.cycles) < iter.target \/ ~AtTickBoundary(tracer)

(* Mutant: the loop skips a None of the tracer instead of leaving. *)
PullRetrying ==
    /\ iter.phase = "pulling"
    /\ WantsRow
    /\ CanStep(tracer)
    /\ tracer' = LazyStep(tracer)
    /\ iter' = [iter EXCEPT !.cycles = @ \o NextRow(tracer)]
    /\ UNCHANGED <<image, blocks>>

(* The first None ends the block; no rows at all end the iteration. *)
Pull ==
    /\ iter.phase = "pulling"
    /\ WantsRow
    /\ IF tracer.finished
       THEN iter' = [iter EXCEPT !.phase = "emitting"] /\ UNCHANGED tracer
       ELSE /\ CanStep(tracer)
            /\ tracer' = LazyStep(tracer)
            /\ iter' = IF NextRow(tracer) = <<>>
                       THEN [iter EXCEPT !.phase = "emitting"]
                       ELSE [iter EXCEPT !.cycles = @ \o NextRow(tracer)]
    /\ UNCHANGED <<image, blocks>>

Full ==
    /\ iter.phase = "pulling"
    /\ ~WantsRow
    /\ iter' = [iter EXCEPT !.phase = "emitting"]
    /\ UNCHANGED <<image, tracer, blocks>>

Block ==
    LET end == iter.start + Len(iter.cycles)
    IN  [index |-> iter.index, start |-> iter.start,
         active |-> Len(iter.cycles), target |-> iter.target,
         startState |-> iter.startState,
         endState |-> BoundaryState(tracer, end),
         atBoundary |-> AtTickBoundary(tracer) \/ tracer.finished,
         cycles |-> iter.cycles]

(* Mutant: the next block starts where a block of the target size ends. *)
EmitByTarget ==
    /\ iter.phase = "emitting"
    /\ IF iter.cycles = <<>>
       THEN iter' = [iter EXCEPT !.phase = "done"] /\ UNCHANGED blocks
       ELSE /\ blocks' = Append(blocks, Block)
            /\ iter' = [iter EXCEPT !.index = @ + 1, !.start = @ + iter.target,
                                    !.phase = "idle"]
    /\ UNCHANGED <<image, tracer>>

Emit ==
    /\ iter.phase = "emitting"
    /\ IF iter.cycles = <<>>
       THEN iter' = [iter EXCEPT !.phase = "done"] /\ UNCHANGED blocks
       ELSE /\ blocks' = Append(blocks, Block)
            /\ iter' = [iter EXCEPT !.index = @ + 1,
                                    !.start = @ + Len(iter.cycles),
                                    !.phase = "idle"]
    /\ UNCHANGED <<image, tracer>>

Next == End \/ Begin \/ Pull \/ Full \/ Emit

(* The caller asks for blocks until it gets None. *)
Spec == Init /\ [][Next]_vars /\ WF_vars(Next)
-----------------------------------------------------------------------------
(* Properties.                                                             *)

Boundary == [globalCycle : Nat, pc : Address, x : Nat, terminated : BOOLEAN]

TraceBlock ==
    [index : Nat, start : Nat, active : Nat, target : Targets,
     startState : Boundary, endState : Boundary, atBoundary : BOOLEAN,
     cycles : Seq(TraceRow) \ {<<>>}]

(* The types, and the assertion of next that never fails.                  *)
TypeOK ==
    /\ image \in Images
    /\ tracer.emu.mem \in [Address -> Nat]
    /\ tracer.emu.pc \in Address /\ tracer.prevPc \in Address \cup {0}
    /\ tracer.current \in Seq(TraceRow) /\ tracer.finished \in BOOLEAN
    /\ iter.phase \in {"idle", "pulling", "emitting", "done"}
    /\ iter.cycles \in Seq(TraceRow)
    /\ \A i \in DOMAIN blocks : blocks[i] \in TraceBlock

(* Block b is ticks j+1 to k of the guest, whole and unchanged, between    *)
(* the machine states before and after them; it grows past its target size *)
(* by less than its last tick and falls short of it only at the end.       *)
IsTicks(b, j, k) ==
    LET row(n)      == RowsUpTo(image, n)
        at(s, n)    == s.pc = After(image)[n].emu.pc
                       /\ s.x = After(image)[n].emu.x
                       /\ s.globalCycle = row(n)
    IN  /\ b.start = row(j) /\ b.active = row(k) - row(j)
        /\ b.cycles = SubSeq(FullTrace(image), row(j) + 1, row(k))
        /\ at(b.startState, j) /\ at(b.endState, k)
        /\ b.active >= b.target \/ row(k) = Len(FullTrace(image))
        /\ row(k - 1) - row(j) < b.target

BlocksAreWholeTicks ==
    \A i \in DOMAIN blocks :
        /\ \E j, k \in 0..MaxTicks : j < k /\ IsTicks(blocks[i], j, k)
        /\ blocks[i].index = i - 1
        /\ i > 1 => /\ blocks[i].start = blocks[i - 1].start + blocks[i - 1].active
                    /\ blocks[i].startState = blocks[i - 1].endState

(* When the iterator reports the end, its blocks hold every row.           *)
NothingLost ==
    iter.phase = "done" => iter.start = Len(FullTrace(image))

(* A block whose end state is terminated is the last, and any other block  *)
(* says that it ended between two ticks, as it did.                        *)
TerminatedIsLast ==
    \A i \in DOMAIN blocks :
        /\ blocks[i].endState.terminated => i = Len(blocks) /\ tracer.finished
        /\ blocks[i].atBoundary

(* What next promises, in one property: the blocks it returned are the     *)
(* guest's ticks, whole, once, in order and between the states that bound  *)
(* them, none is missing at the end, and only the last is terminated.      *)
BlocksTellTheTrace ==
    TypeOK /\ BlocksAreWholeTicks /\ NothingLost /\ TerminatedIsLast
=============================================================================
