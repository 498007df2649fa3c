---------------------------- MODULE StreamedGuest ---------------------------
(***************************************************************************)
(* The streaming pipeline end to end: the prover of StreamingProver over   *)
(* the TraceBlockIterator of TraceBlocks, which executes the guest only    *)
(* when the prover asks for a block.                                       *)
(***************************************************************************)
EXTENDS TraceBlocks

CONSTANTS None, Program, TargetSizes, Receipts, ClaimKinds, FieldOrder

VARIABLES prover, accumulator, instance

Stream == INSTANCE StreamingProver
              WITH ended <- iter.phase = "done", Offered <- {}

ASSUME AbsentAssumption == None \notin TraceBlock \cup Stream!Outcomes

pipelineVars == <<vars, prover, accumulator, instance>>

PipelineInit ==
    /\ Init
    /\ Stream!Nova!Init
    /\ \E size \in TargetSizes, receipt \in Receipts :
          prover = Stream!Fresh(size, receipt)

IteratorStep ==
    /\ Stream!Wants
    /\ Next
    /\ UNCHANGED <<prover, accumulator, instance>>

ProverStep ==
    /\ UNCHANGED <<image, tracer, iter>>
    /\ Stream!Prove

Finished == prover.phase = "done" /\ UNCHANGED pipelineVars

PipelineNext == IteratorStep \/ ProverStep \/ Finished

(* One thread calls the prover, which calls the iterator. *)
PipelineSpec ==
    PipelineInit /\ [][PipelineNext]_pipelineVars
                 /\ WF_pipelineVars(PipelineNext)
-----------------------------------------------------------------------------
(* Properties.                                                             *)

(* What is proved is what the guest did: the folded blocks are its trace,  *)
(* from its first row to its last.                                         *)
ProvedIsGuestTrace ==
    prover.outcome = "Proved" =>
        /\ FlattenSeq([i \in DOMAIN blocks |-> blocks[i].cycles])
               = FullTrace(image)
        /\ accumulator.metadata.absorbed = Len(blocks)
        /\ accumulator.metadata.cycleEnd = Len(FullTrace(image))

(* A guest that halts is proved, unless its last row completes a block: no *)
(* check of the loop refuses anything else the iterator makes.             *)
RefusedOnlyAtFullBlock ==
    prover.phase = "done" =>
        \/ prover.outcome = "Proved" /\ Last(blocks).active < iter.target
        \/ prover.outcome = "UnterminatedTrace"
           /\ Last(blocks).active >= iter.target
        \/ prover.outcome = "BlockTargetSizeMismatch"
           /\ prover.targetSize # iter.target

(* Every guest that halts is decided about.                                *)
PipelineDecides == <>(prover.phase = "done")

(* What the text of UnterminatedTrace says: the trace "ended ... without a *)
(* terminal machine state", that is, the guest had not jumped to itself.   *)
UnterminatedMeansRunning ==
    prover.outcome = "UnterminatedTrace" => tracer.prevPc # tracer.emu.pc
=============================================================================
