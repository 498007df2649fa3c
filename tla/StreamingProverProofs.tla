------------------------ MODULE StreamingProverProofs ------------------------
(***************************************************************************)
(* Proofs about the streaming prover, for any iterator, any set of blocks  *)
(* and any receipts: how far the iterator may run ahead, and what each     *)
(* single block of a proof satisfies and how it joins the next.            *)
(***************************************************************************)
EXTENDS StreamingProver, InductionLemmas

Phases == {"start", "first", "next", "fold", "final", "done"}
Folded == accumulator.metadata.absorbed

ProverRecord ==
    prover = [phase |-> prover.phase, targetSize |-> prover.targetSize,
              receipt |-> prover.receipt, taken |-> prover.taken,
              current |-> prover.current, next |-> prover.next,
              previous |-> prover.previous, ram |-> prover.ram,
              active |-> prover.active, outcome |-> prover.outcome]

Shaped ==
    /\ ProverRecord
    /\ prover.phase \in Phases
    /\ prover.taken \in Nat /\ Folded \in Nat
    /\ blocks \in Seq(Offered) /\ ended \in BOOLEAN

(* What has been taken and folded in each phase.                           *)
Progress ==
    /\ prover.phase = "start" => blocks = <<>> /\ ~ended
    /\ prover.phase \in {"start", "first"} =>
          /\ prover.taken = 0 /\ Folded = 0
          /\ prover.current = None /\ prover.previous = None
    /\ prover.phase = "next" =>
          prover.taken = Folded + 1 /\ prover.current = blocks[Folded + 1]
    /\ prover.phase = "fold" =>
          /\ prover.current = blocks[Folded + 1]
          /\ \/ /\ prover.next = None /\ ended
                /\ prover.taken = Folded + 1
             \/ /\ prover.next = blocks[Folded + 2] /\ prover.next # None
                /\ prover.taken = Folded + 2
    /\ prover.phase = "final" =>
          ended /\ prover.taken = Folded /\ Folded # 0
          /\ prover.current = blocks[Folded]
    /\ prover.phase = "done" => Len(blocks) <= Folded + 2
    /\ prover.taken <= Len(blocks) /\ Len(blocks) <= prover.taken + 1
    /\ prover.phase \in {"start", "fold", "final", "done"} \/ ended =>
          Len(blocks) = prover.taken

Outcome ==
    /\ prover.phase = "done" <=> prover.outcome # None
    /\ prover.outcome \in Outcomes \cup {None}
    /\ instance # None => prover.outcome = "Proved"
    /\ prover.outcome = "Proved" =>
          /\ instance = [metadata |-> accumulator.metadata, z |-> accumulator.z]
          /\ Len(blocks) = Folded /\ Folded # 0 /\ ended

(* What follows block i in the iterator's order.                           *)
Following(i) == IF i < Len(blocks) THEN blocks[i + 1] ELSE None

(* A folded block satisfies its own relations, fits the row that follows   *)
(* it and the block before it, and is terminated only if it is the last.   *)
BlockHolds(i) ==
    /\ blocks[i].target = prover.targetSize
    /\ ShapeHolds(blocks[i])
    /\ CpuHolds(blocks[i], Lookahead(blocks[i], Following(i)))
    /\ RegisterFlows(blocks[i])
    /\ RamFlows(<<>>, Accesses(blocks[i].cycles))
    /\ blocks[i].endState.terminated <=> i = Len(blocks)
    /\ i > 1 => ContiguousWith(blocks[i - 1], blocks[i])
    /\ prover.receipt.traceLength >= blocks[i].start + blocks[i].active

FoldedHold ==
    /\ \A i \in 1 .. Folded : BlockHolds(i)
    /\ prover.previous =
          IF Folded = 0 THEN None ELSE blocks[Folded]

IInv == Shaped /\ Progress /\ Outcome /\ FoldedHold

(* The blocks of a proof: each satisfies its relations and joins the next, *)
(* and the last one, and no other, is terminated.                          *)
ProvedBlocksHold ==
    prover.outcome = "Proved" =>
        Len(blocks) # 0 /\ \A i \in 1 .. Len(blocks) : BlockHolds(i)

-----------------------------------------------------------------------------
(* What a step may change.                                                 *)

(* An accepted absorb counts one block and publishes nothing.              *)
LEMMA AbsorbCounts ==
    ASSUME NEW in, Nova!Absorb(in)
    PROVE  Folded' = Folded + 1 /\ UNCHANGED instance
  BY DEF Nova!Absorb, Nova!Absorbed, Folded

(* A failure only ends the loop.                                           *)
LEMMA FailKeeps ==
    ASSUME IInv, NEW reason \in Outcomes \ {"Proved"}, Fail(reason),
           prover.phase # "done", prover.phase # "final",
           Len(blocks) <= Folded + 2, Len(blocks) = prover.taken
    PROVE  IInv'
  <1>1. Shaped'
    BY DEF IInv, Shaped, ProverRecord, Fail, Phases, Folded
  <1>2. Progress'
    BY DEF IInv, Shaped, ProverRecord, Progress, Fail, Folded
  <1>3. Outcome'
    BY AbsentAssumption DEF IInv, Shaped, ProverRecord, Outcome, Outcomes, Fail, Folded
  <1>4. FoldedHold'
    <2>1. /\ blocks' = blocks /\ Folded' = Folded
          /\ prover'.targetSize = prover.targetSize
          /\ prover'.receipt = prover.receipt
          /\ prover'.previous = prover.previous
      BY DEF IInv, Shaped, ProverRecord, Fail, Folded
    <2> QED  BY <2>1 DEF IInv, FoldedHold, BlockHolds, Following
  <1> QED  BY <1>1, <1>2, <1>3, <1>4 DEF IInv

-----------------------------------------------------------------------------
(* The loop begins with nothing taken, folded or decided.                   *)
LEMMA InitIInv == Init => IInv
  <1> SUFFICES ASSUME Init PROVE IInv
    OBVIOUS
  <1> USE DEF Init, Nova!Init, Nova!EmptyAccumulator, Fresh, Folded
  <1>1. Shaped
    <2>1. PICK size \in TargetSizes, receipt \in Receipts : prover = Fresh(size, receipt)
      OBVIOUS
    <2>2. ProverRecord
          /\ prover.phase = "start" /\ prover.taken = 0
      BY <2>1 DEF ProverRecord
    <2>3. blocks = <<>> /\ ended = FALSE /\ Folded = 0
      OBVIOUS
    <2>4. blocks \in Seq(Offered)
      BY <2>3
    <2>5. prover.phase \in Phases /\ prover.taken \in Nat
      BY <2>2 DEF Phases
    <2>6. Folded \in Nat /\ ended \in BOOLEAN
      BY <2>3
    <2> QED  BY Zenon, <2>2, <2>4, <2>5, <2>6 DEF Shaped
  <1>2. Progress   BY DEF Progress
  <1>3. Outcome
    <2>1. prover.phase = "start" /\ prover.outcome = None /\ instance = None
      OBVIOUS
    <2> HIDE DEF Init
    <2> QED  BY <2>1, AbsentAssumption DEF Outcome, Outcomes
  <1>4. FoldedHold BY DEF FoldedHold
  <1> QED  BY <1>1, <1>2, <1>3, <1>4 DEF IInv

(* A block that is offered follows those that are folded.                  *)
LEMMA OfferKeeps ==
    ASSUME IInv, NEW b \in Offered, Offer(b)
    PROVE  IInv'
  <1>1. /\ prover.phase \in {"first", "next"} /\ Len(blocks) = prover.taken
        /\ ~ended /\ blocks' = Append(blocks, b)
        /\ UNCHANGED <<ended, prover, accumulator, instance>>
    BY DEF Offer, Wants
  <1>2. blocks \in Seq(Offered) /\ Folded \in Nat /\ prover.taken \in Nat
    BY DEF IInv, Shaped, ProverRecord
  <1>3. /\ Len(blocks') = Len(blocks) + 1
        /\ \A i \in 1 .. Len(blocks) : blocks'[i] = blocks[i]
    BY <1>1, <1>2
  <1>4. \/ prover.phase = "first" /\ Folded = 0
        \/ prover.phase = "next" /\ Len(blocks) = Folded + 1
    BY <1>1 DEF IInv, Progress
  <1>5. Shaped'
    BY <1>1, <1>2 DEF IInv, Shaped, ProverRecord, Folded
  <1>6. Progress'
    BY <1>1, <1>2, <1>3, <1>4 DEF IInv, Progress, Folded
  <1>7. Outcome'
    BY <1>1, <1>2, AbsentAssumption DEF IInv, Outcome, Folded, Outcomes
  <1>8. FoldedHold'
    <2>1. Folded' = Folded
      BY <1>1 DEF Folded
    <2>2. ASSUME NEW i \in 1 .. Folded
          PROVE  BlockHolds(i)'
      <3>1. i \in 1 .. Len(blocks) - 1 /\ Len(blocks) = Folded + 1
        BY <1>2, <1>4, <2>2
      <3>2. blocks'[i] = blocks[i] /\ blocks'[i + 1] = blocks[i + 1]
        BY <1>2, <1>3, <3>1
      <3>3. i > 1 => blocks'[i - 1] = blocks[i - 1]
        BY <1>2, <1>3, <3>1
      <3>4. Following(i)' = Following(i)
        BY <1>2, <1>3, <3>1, <3>2 DEF Following
      <3>5. BlockHolds(i)
        BY <2>2 DEF IInv, FoldedHold
      <3>6. (i = Len(blocks))' = (i = Len(blocks))
        BY <1>2, <1>3, <3>1
      <3> QED  BY <1>1, <3>2, <3>3, <3>4, <3>5, <3>6 DEF BlockHolds
    <2>3. (prover.previous = IF Folded = 0 THEN None ELSE blocks[Folded])'
      <3>1. Folded # 0 => blocks'[Folded] = blocks[Folded]
        BY <1>2, <1>3, <1>4
      <3> QED  BY <1>1, <2>1, <3>1 DEF IInv, FoldedHold
    <2> QED  BY <2>1, <2>2, <2>3 DEF FoldedHold
  <1> QED  BY <1>5, <1>6, <1>7, <1>8 DEF IInv

(* The iterator ends only when it is asked.                                 *)
LEMMA EndKeeps ==
    ASSUME IInv, EndOfBlocks
    PROVE  IInv'
  <1>1. /\ prover.phase \in {"first", "next"} /\ Len(blocks) = prover.taken
        /\ ended' = TRUE /\ UNCHANGED <<blocks, prover, accumulator, instance>>
    BY DEF EndOfBlocks, Wants
  <1>2. Shaped'
    BY <1>1 DEF IInv, Shaped, ProverRecord, Folded
  <1>3. Progress'
    BY <1>1 DEF IInv, Progress, Folded
  <1>4. Outcome'
    BY <1>1 DEF IInv, Outcome, Folded
  <1>5. FoldedHold'
    BY <1>1 DEF IInv, FoldedHold, BlockHolds, Following, Folded
  <1> QED  BY <1>2, <1>3, <1>4, <1>5 DEF IInv

(* Steps that only move the loop on, from one phase to another.            *)
LEMMA MoveKeeps ==
    ASSUME IInv, Shaped', Progress',
           prover.phase # "done", prover'.phase # "done",
           prover'.outcome = prover.outcome,
           prover'.targetSize = prover.targetSize,
           prover'.receipt = prover.receipt,
           prover'.previous = prover.previous,
           UNCHANGED <<blocks, ended, accumulator, instance>>
    PROVE  IInv'
  <1>1. Outcome'
    <2>1. prover.outcome = None
      BY DEF IInv, Outcome
    <2> QED  BY <2>1, AbsentAssumption DEF IInv, Outcome, Outcomes
  <1>2. FoldedHold'
    BY DEF IInv, FoldedHold, BlockHolds, Following, Folded
  <1> QED  BY <1>1, <1>2 DEF IInv

(* The loop starts, or refuses its parameters or its receipt.               *)
LEMMA StartKeeps ==
    ASSUME IInv, Start
    PROVE  IInv'
  <1>1. prover.phase = "start" /\ Len(blocks) = 0 /\ Len(blocks) = prover.taken
        /\ Folded = 0
    BY DEF Start, IInv, Progress
  <1>2. CASE \E reason \in Outcomes \ {"Proved"} : Fail(reason)
    BY <1>1, <1>2, FailKeeps
  <1>3. CASE /\ prover' = [prover EXCEPT !.phase = "first"]
             /\ UNCHANGED <<blocks, ended, accumulator, instance>>
    <2>1. /\ prover'.phase = "first" /\ prover'.taken = prover.taken
          /\ prover'.current = prover.current
          /\ prover'.previous = prover.previous
          /\ prover'.outcome = prover.outcome
          /\ prover'.targetSize = prover.targetSize
          /\ prover'.receipt = prover.receipt
      BY <1>3 DEF IInv, Shaped, ProverRecord
    <2>2. Shaped'
      BY <1>3, <2>1 DEF IInv, Shaped, ProverRecord, Phases, Folded
    <2>3. Progress'
      BY <1>1, <1>3, <2>1 DEF IInv, Progress, Folded
    <2> QED  BY <1>1, <1>3, <2>1, <2>2, <2>3, MoveKeeps
  <1> QED  BY <1>2, <1>3 DEF Start, Outcomes

(* The first block is taken, or there is none.                              *)
LEMMA TakeFirstKeeps ==
    ASSUME IInv, TakeFirst
    PROVE  IInv'
  <1>1. prover.phase = "first" /\ prover.taken = 0 /\ Folded = 0
        /\ Len(blocks) <= 1 /\ Len(blocks) \in Nat
    BY DEF TakeFirst, IInv, Shaped, ProverRecord, Progress
  <1>2. CASE /\ Available
             /\ prover' = [prover EXCEPT !.phase = "next", !.taken = 1,
                                         !.current = blocks[1]]
             /\ UNCHANGED <<blocks, ended, accumulator, instance>>
    <2>1. /\ prover'.phase = "next" /\ prover'.taken = 1
          /\ prover'.current = blocks[1]
          /\ prover'.previous = prover.previous
          /\ prover'.outcome = prover.outcome
          /\ prover'.targetSize = prover.targetSize
          /\ prover'.receipt = prover.receipt
      BY <1>2 DEF IInv, Shaped, ProverRecord
    <2>2. Shaped'
      BY <1>2, <2>1 DEF IInv, Shaped, ProverRecord, Phases, Folded
    <2>3. Len(blocks) = 1
      <3>1. blocks \in Seq(Offered) /\ Len(blocks) > 0
        BY <1>1, <1>2 DEF Available, IInv, Shaped
      <3>2. Len(blocks) \in Nat /\ Len(blocks) <= 1
        BY Zenon, <1>1
      <3>3. \A n \in Nat : n > 0 /\ n <= 1 => n = 1
        OBVIOUS
      <3> QED  BY Zenon, <3>1, <3>2, <3>3
    <2>4. Progress'
      BY <1>1, <1>2, <2>1, <2>3 DEF IInv, Progress, Folded
    <2> QED  BY <1>1, <1>2, <2>1, <2>2, <2>4, MoveKeeps
  <1>3. CASE ~Available /\ ended /\ Fail("EmptyTrace")
    <2>1. Len(blocks) = prover.taken
      BY <1>1, <1>3 DEF Available
    <2> QED  BY <1>1, <1>3, <2>1, FailKeeps DEF Outcomes
  <1> QED  BY <1>2, <1>3 DEF TakeFirst

(* The block after the current one is taken, or there is none.              *)
LEMMA TakeNextKeeps ==
    ASSUME IInv, TakeNext
    PROVE  IInv'
  <1>1. /\ prover.phase = "next" /\ prover.taken = Folded + 1
        /\ prover.current = blocks[Folded + 1]
        /\ Len(blocks) <= prover.taken + 1 /\ prover.taken <= Len(blocks)
        /\ ended => Len(blocks) = prover.taken
        /\ Folded \in Nat /\ Len(blocks) \in Nat
        /\ UNCHANGED <<blocks, ended, accumulator, instance>>
    BY DEF TakeNext, IInv, Shaped, ProverRecord, Progress
  <1>2. CASE /\ Available
             /\ prover' = [prover EXCEPT !.phase = "fold", !.taken = @ + 1,
                                         !.next = blocks[prover.taken + 1]]
    <2>1. /\ prover'.phase = "fold" /\ prover'.taken = Folded + 2
          /\ prover'.next = blocks[Folded + 2]
          /\ prover'.current = prover.current
          /\ prover'.previous = prover.previous
          /\ prover'.outcome = prover.outcome
          /\ prover'.targetSize = prover.targetSize
          /\ prover'.receipt = prover.receipt
      BY <1>1, <1>2 DEF IInv, Shaped, ProverRecord
    <2>2. Shaped'
      <3>1. prover'.taken \in Nat
        BY <1>1, <2>1
      <3>2. prover'.phase \in Phases
        BY <2>1 DEF Phases
      <3>3. ProverRecord'
        BY <1>2 DEF IInv, Shaped, ProverRecord
      <3> QED  BY <1>1, <3>1, <3>2, <3>3 DEF IInv, Shaped, Folded
    <2>3. Len(blocks) = Folded + 2
      <3>1. Available
        BY <1>2
      <3> QED  BY <1>1, <3>1 DEF Available
    <2>4. blocks[Folded + 2] # None
      <3>1. blocks[Folded + 2] \in Offered
        BY <1>1, <2>3 DEF IInv, Shaped, ProverRecord
      <3> QED  BY <3>1, AbsentAssumption
    <2>5. Progress'
      BY <1>1, <2>1, <2>3, <2>4 DEF IInv, Progress, Folded
    <2> QED  BY <1>1, <2>1, <2>2, <2>5, MoveKeeps
  <1>3. CASE /\ ~Available /\ ended
             /\ prover' = [prover EXCEPT !.phase = "fold", !.next = None]
    <2>1. /\ prover'.phase = "fold" /\ prover'.taken = prover.taken
          /\ prover'.next = None
          /\ prover'.current = prover.current
          /\ prover'.previous = prover.previous
          /\ prover'.outcome = prover.outcome
          /\ prover'.targetSize = prover.targetSize
          /\ prover'.receipt = prover.receipt
      BY <1>3 DEF IInv, Shaped, ProverRecord
    <2>2. Shaped'
      BY <1>1, <1>3, <2>1 DEF IInv, Shaped, ProverRecord, Phases, Folded
    <2>3. Progress'
      BY <1>1, <1>3, <2>1 DEF IInv, Progress, Folded
    <2> QED  BY <1>1, <2>1, <2>2, <2>3, MoveKeeps
  <1> QED  BY <1>2, <1>3 DEF TakeNext

(* Of nine checks that do not all hold, one is the first that fails.       *)
LEMMA FirstOfNine ==
    ASSUME NEW ok, \E i \in 1 .. 9 : ~ok[i]
    PROVE  \E i \in 1 .. 9 : ~ok[i] /\ \A j \in 1 .. (i - 1) : ok[j]
  <1> SUFFICES ASSUME \A i \in 1 .. 9 : (\A j \in 1 .. (i - 1) : ok[j]) => ok[i]
               PROVE  FALSE
    OBVIOUS
  <1>1. ok[1]  OBVIOUS
  <1>2. ok[2]  BY <1>1
  <1>3. ok[3]  BY <1>1, <1>2
  <1>4. ok[4]  BY <1>1, <1>2, <1>3
  <1>5. ok[5]  BY <1>1, <1>2, <1>3, <1>4
  <1>6. ok[6]  BY <1>1, <1>2, <1>3, <1>4, <1>5
  <1>7. ok[7]  BY <1>1, <1>2, <1>3, <1>4, <1>5, <1>6
  <1>8. ok[8]  BY <1>1, <1>2, <1>3, <1>4, <1>5, <1>6, <1>7
  <1>9. ok[9]  BY <1>1, <1>2, <1>3, <1>4, <1>5, <1>6, <1>7, <1>8
  <1> QED  BY <1>1, <1>2, <1>3, <1>4, <1>5, <1>6, <1>7, <1>8, <1>9

(* The loop ends with the name of a check that fails.                       *)
LEMMA RejectNames ==
    ASSUME Reject
    PROVE  \E i \in DOMAIN Checks : ~Checks[i][2] /\ Fail(Checks[i][1])
  <1> DEFINE ok == [j \in 1 .. 9 |-> Checks[j][2]]
             First(j) == ~Checks[j][2] /\ \A k \in 1 .. (j - 1) : Checks[k][2]
  <1>1. DOMAIN Checks = 1 .. 9
    BY DEF Checks
  <1>2. \E j \in 1 .. 9 : ~ok[j]
    BY <1>1 DEF Reject, Passes
  <1>3. PICK j \in 1 .. 9 : ~ok[j] /\ \A k \in 1 .. (j - 1) : ok[k]
    <2> HIDE DEF ok
    <2> QED  BY <1>2, FirstOfNine
  <1>4. \E k \in DOMAIN Checks : First(k)
    BY <1>1, <1>3
  <1>5. Fail(Checks[CHOOSE k \in DOMAIN Checks : First(k)][1])
    BY DEF Reject
  <1> HIDE DEF First
  <1>6. First(CHOOSE k \in DOMAIN Checks : First(k))
    BY <1>4
  <1> QED  BY <1>4, <1>5, <1>6 DEF First

(* A block that is refused ends the loop with the name of a check.          *)
LEMMA RejectKeeps ==
    ASSUME IInv, Reject
    PROVE  IInv'
  <1>1. prover.phase = "fold" /\ ~Passes /\ Len(blocks) = prover.taken
        /\ prover.taken <= Folded + 2
    BY DEF Reject, IInv, Shaped, Progress
  <1>2. PICK i \in DOMAIN Checks : ~Checks[i][2] /\ Fail(Checks[i][1])
    BY RejectNames
  <1>3. Checks[i][1] \in Outcomes \ {"Proved"}
    <2>1. i \in 1 .. 9
      BY DEF Checks
    <2>2. CASE i = 1
      BY <2>2 DEF Checks, Outcomes
    <2>3. CASE i = 2
      BY <2>3 DEF Checks, Outcomes
    <2>4. CASE i = 3
      BY <2>4 DEF Checks, Outcomes
    <2>5. CASE i = 4
      BY <2>5 DEF Checks, Outcomes
    <2>6. CASE i = 5
      BY <2>6 DEF Checks, Outcomes
    <2>7. CASE i = 6
      BY <2>7 DEF Checks, Outcomes
    <2>8. CASE i = 7
      BY <2>8 DEF Checks, Outcomes
    <2>9. CASE i = 8
      BY <2>9 DEF Checks, Outcomes
    <2>10. CASE i = 9
      BY <2>10 DEF Checks, Outcomes
    <2> QED  BY <2>1, <2>2, <2>3, <2>4, <2>5, <2>6, <2>7, <2>8, <2>9, <2>10
  <1> QED  BY <1>1, <1>2, <1>3, FailKeeps

(* What a turn that passes has checked.                                    *)
LEMMA PassesChecks ==
    ASSUME Passes
    PROVE  LET b == prover.current
               ahead == Lookahead(b, prover.next)
           IN  /\ b.target = prover.targetSize
               /\ ~(b.endState.terminated /\ prover.next # None)
               /\ ahead.kind # "none"
               /\ ShapeHolds(b) /\ CpuHolds(b, ahead)
               /\ RegisterFlows(b)
               /\ RamFlows(<<>>, Accesses(b.cycles))
               /\ RamFlows(prover.ram, Accesses(b.cycles))
               /\ prover.previous # None => ContiguousWith(prover.previous, b)
               /\ prover.receipt.traceLength >= b.start + b.active
  <1>1. /\ Checks[1][2] /\ Checks[2][2] /\ Checks[3][2] /\ Checks[4][2]
        /\ Checks[5][2] /\ Checks[6][2] /\ Checks[7][2] /\ Checks[8][2]
        /\ Checks[9][2]
    BY DEF Passes, Checks
  <1> QED  BY <1>1 DEF Checks

(* A block that is folded holds, and is the one before the next.            *)
LEMMA FoldKeeps ==
    ASSUME IInv, FoldBlock
    PROVE  IInv'
  <1>1. /\ prover.phase = "fold" /\ Passes
        /\ Folded' = Folded + 1 /\ instance' = instance
        /\ UNCHANGED <<blocks, ended>>
    BY AbsorbCounts DEF FoldBlock
  <1>2. /\ prover'.phase = IF prover.next = None THEN "final" ELSE "next"
        /\ prover'.current = IF prover.next = None THEN prover.current ELSE prover.next
        /\ prover'.previous = prover.current
        /\ prover'.taken = prover.taken /\ prover'.outcome = prover.outcome
        /\ prover'.targetSize = prover.targetSize
        /\ prover'.receipt = prover.receipt
        /\ ProverRecord'
    BY DEF FoldBlock, IInv, Shaped, ProverRecord
  <1>3. /\ Folded \in Nat /\ Len(blocks) \in Nat /\ blocks \in Seq(Offered)
        /\ prover.taken \in Nat /\ Len(blocks) = prover.taken
        /\ prover.current = blocks[Folded + 1]
        /\ \/ prover.next = None /\ ended /\ Len(blocks) = Folded + 1
           \/ prover.next = blocks[Folded + 2] /\ prover.next # None
              /\ Len(blocks) = Folded + 2
    BY <1>1 DEF IInv, Shaped, Progress
  <1>4. Shaped'
    BY <1>1, <1>2, <1>3 DEF IInv, Shaped, Phases
  <1>5. Progress'
    BY <1>1, <1>2, <1>3 DEF IInv, Progress
  <1>6. Outcome'
    <2>1. prover.outcome = None /\ instance = None
      BY <1>1, AbsentAssumption DEF IInv, Outcome, Outcomes
    <2>2. prover'.phase # "done" /\ instance' = None /\ prover'.outcome = None
      BY <1>1, <1>2, <2>1
    <2> QED  BY <2>2, AbsentAssumption DEF Outcome, Outcomes
  <1>7. BlockHolds(Folded + 1)
    <2>1. prover.next = Following(Folded + 1)
      BY <1>3 DEF Following
    <2>2. blocks[Folded + 1].endState.terminated <=> Folded + 1 = Len(blocks)
      BY <1>1, <1>3, PassesChecks DEF Lookahead
    <2>3. Folded + 1 > 1 => ContiguousWith(blocks[Folded], blocks[Folded + 1])
      <3> SUFFICES ASSUME Folded # 0
                   PROVE  ContiguousWith(blocks[Folded], blocks[Folded + 1])
        BY <1>3
      <3>1. prover.previous = blocks[Folded] /\ blocks[Folded] \in Offered
        BY <1>3 DEF IInv, FoldedHold
      <3> QED  BY <1>1, <1>3, <3>1, PassesChecks, AbsentAssumption
    <2> QED  BY <1>1, <1>3, <2>1, <2>2, <2>3, PassesChecks DEF BlockHolds
  <1>8. FoldedHold'
    <2>1. ASSUME NEW i \in 1 .. Folded + 1
          PROVE  BlockHolds(i)
      BY <1>3, <1>7, <2>1 DEF IInv, FoldedHold
    <2>2. ASSUME NEW i \in 1 .. Folded + 1
          PROVE  BlockHolds(i)'
      BY <1>1, <1>2, <2>1, <2>2 DEF BlockHolds, Following
    <2> QED  BY <1>1, <1>2, <1>3, <2>2 DEF FoldedHold
  <1> QED  BY <1>4, <1>5, <1>6, <1>8 DEF IInv

(* The proof is made of all blocks.                                         *)
LEMMA FinishKeeps ==
    ASSUME IInv, Finish
    PROVE  IInv'
  <1>1. /\ prover.phase = "final" /\ UNCHANGED <<blocks, ended>>
        /\ accumulator' = accumulator
        /\ instance' = [metadata |-> accumulator.metadata, z |-> accumulator.z]
    BY DEF Finish, Nova!BuildFinalInstance
  <1>2. /\ prover'.phase = "done" /\ prover'.outcome = "Proved"
        /\ prover'.taken = prover.taken
        /\ prover'.previous = prover.previous
        /\ prover'.targetSize = prover.targetSize
        /\ prover'.receipt = prover.receipt
        /\ ProverRecord'
    BY DEF Finish, IInv, Shaped, ProverRecord
  <1>3. /\ Folded \in Nat /\ Folded # 0 /\ Len(blocks) = Folded
        /\ prover.taken = Folded /\ ended
    BY <1>1 DEF IInv, Shaped, Progress
  <1>4. Shaped'
    BY <1>1, <1>2 DEF IInv, Shaped, Phases, Folded
  <1>5. Progress'
    BY <1>1, <1>2, <1>3 DEF Progress, Folded
  <1>6. Outcome'
    BY <1>1, <1>2, <1>3, AbsentAssumption DEF Outcome, Outcomes, Folded
  <1>7. FoldedHold'
    BY <1>1, <1>2 DEF IInv, FoldedHold, BlockHolds, Following, Folded
  <1> QED  BY <1>4, <1>5, <1>6, <1>7 DEF IInv

(* Every step keeps the invariant.                                          *)
LEMMA StepKeeps == IInv /\ [Next]_vars => IInv'
  <1> SUFFICES ASSUME IInv, [Next]_vars PROVE IInv'
    OBVIOUS
  <1>1. CASE \E b \in Offered : Offer(b)
    BY <1>1, OfferKeeps
  <1>2. CASE EndOfBlocks
    BY <1>2, EndKeeps
  <1>3. CASE Start
    BY <1>3, StartKeeps
  <1>4. CASE TakeFirst
    BY <1>4, TakeFirstKeeps
  <1>5. CASE TakeNext
    BY <1>5, TakeNextKeeps
  <1>6. CASE Reject
    BY <1>6, RejectKeeps
  <1>7. CASE FoldBlock
    BY <1>7, FoldKeeps
  <1>8. CASE Finish
    BY <1>8, FinishKeeps
  <1>9. CASE Done \/ UNCHANGED vars
    <2>1. UNCHANGED <<blocks, ended, prover, accumulator, instance>>
      BY <1>9 DEF Done, vars
    <2>2. Shaped'
      BY <2>1 DEF IInv, Shaped, ProverRecord, Folded
    <2>3. Progress'
      BY <2>1 DEF IInv, Progress, Folded
    <2>4. Outcome'
      BY <2>1 DEF IInv, Outcome, Folded
    <2>5. FoldedHold'
      BY <2>1 DEF IInv, FoldedHold, BlockHolds, Following, Folded
    <2> QED  BY <2>2, <2>3, <2>4, <2>5 DEF IInv
  <1> QED
    BY <1>1, <1>2, <1>3, <1>4, <1>5, <1>6, <1>7, <1>8, <1>9 DEF Next, Prove

(* The invariant holds in every reachable state.                            *)
LEMMA Invariance == Spec => []IInv
  <1> QED  BY InitIInv, StepKeeps, PTL DEF Spec

-----------------------------------------------------------------------------
(* The loop is never more than two blocks ahead of what it has folded,     *)
(* whatever the iterator, and holds no block but these.                    *)
THEOREM LookaheadAlwaysBounded == Spec => []BoundedLookahead
  <1>1. IInv => BoundedLookahead
    <2> SUFFICES ASSUME IInv PROVE BoundedLookahead
      OBVIOUS
    <2>1. TypeOK
      BY DEF IInv, Shaped, Phases, Progress, Outcome, TypeOK, Folded
    <2>2. Len(blocks) - Folded <= 2
      BY DEF IInv, Shaped, Phases, Progress
    <2>3. prover.outcome = "Proved" => Len(blocks) = Folded
      BY DEF IInv, Outcome
    <2> QED  BY <2>1, <2>2, <2>3 DEF BoundedLookahead, Folded
  <1> QED  BY <1>1, Invariance, PTL

(* The blocks of a proof are each as they should be and follow one another *)
(* to a terminated end (what the checks of the loop are there for).        *)
THEOREM ProvedBlocksAlwaysHold == Spec => []ProvedBlocksHold
  <1>1. IInv => ProvedBlocksHold
    BY DEF IInv, Outcome, FoldedHold, ProvedBlocksHold
  <1> QED  BY <1>1, Invariance, PTL
-----------------------------------------------------------------------------
(* What one row after the other does to the register and to memory.        *)

(* The register after a row, from the row and the register before it.      *)
RegisterStep(row, x) == IF row.reg = <<>> THEN x ELSE row.reg[2]

(* r holds the register after each of the rows.                            *)
RegisterTrace(r, rows, x) ==
    /\ r[0] = x
    /\ \A i \in 1 .. Len(rows) : r[i] = RegisterStep(rows[i], r[i - 1])

(* RegisterAfter is the recursion over the rows.                            *)
LEMMA RegisterAfterTraces ==
    ASSUME NEW S, NEW rows \in Seq(S), NEW x
    PROVE  RegisterTrace(RegisterAfter(rows, x), rows, x)
  <1>0. PICK N \in Nat : N = Len(rows)
    OBVIOUS
  <1> DEFINE V == {x} \cup {rows[i].reg[2] : i \in 1 .. N}
             step == [n \in 1 .. N |-> [v \in V |-> RegisterStep(rows[n], v)]]
  <1>1. \A n \in 1 .. N : \A v \in V : RegisterStep(rows[n], v) \in V
    BY DEF RegisterStep
  <1>2. x \in V
    OBVIOUS
  <1> HIDE DEF V
  <1>3. /\ StepsWithin(step, N, V)
        /\ \A n \in 1 .. N : \A v \in V : step[n][v] = RegisterStep(rows[n], v)
    BY <1>1 DEF StepsWithin
  <1> HIDE DEF step
  <1>4. PICK f \in [0 .. N -> V] : Iterates(f, N, x, step)
    BY <1>2, <1>3, RecursionExists
  <1>5. f[0] = x /\ \A n \in 1 .. N : f[n] = RegisterStep(rows[n], f[n - 1])
    <2>1. f[0] = x
      BY <1>4 DEF Iterates
    <2>2. ASSUME NEW n \in 1 .. N
          PROVE  f[n] = RegisterStep(rows[n], f[n - 1])
      <3>1. f[n] = step[n][f[n - 1]]
        BY <1>4 DEF Iterates
      <3>2. f[n - 1] \in V
        BY <1>4
      <3> QED  BY <1>3, <3>1, <3>2
    <2> QED  BY <2>1, <2>2
  <1> DEFINE G(h) == h = [i \in 0 .. N |-> IF i = 0 THEN x
                                           ELSE RegisterStep(rows[i], h[i - 1])]
             s == CHOOSE h : G(h)
  <1>6. G(f)
    <2>1. \A i \in 0 .. N : f[i] = IF i = 0 THEN x
                                   ELSE RegisterStep(rows[i], f[i - 1])
      BY <1>5
    <2> QED  BY <1>4, <2>1
  <1>7. G(s)
    <2> HIDE DEF G
    <2> QED  BY <1>6, Zenon
  <1>8. RegisterAfter(rows, x) = s
    BY <1>0, Zenon DEF RegisterAfter, RegisterStep
  <1>9. s[0] = x /\ \A n \in 1 .. N : s[n] = RegisterStep(rows[n], s[n - 1])
    <2> HIDE DEF s
    <2> QED  BY <1>7
  <1> HIDE DEF s
  <1> QED  BY <1>0, <1>8, <1>9 DEF RegisterTrace

(* The register after a concatenation, in its two parts.                   *)
LEMMA RegisterAfterConcat ==
    ASSUME NEW S, NEW a \in Seq(S), NEW b \in Seq(S), NEW x
    PROVE  LET r == RegisterAfter(a, x)
               t == RegisterAfter(a \o b, x)
               u == RegisterAfter(b, r[Len(a)])
           IN  /\ \A i \in 0 .. Len(a) : t[i] = r[i]
               /\ \A j \in 0 .. Len(b) : t[Len(a) + j] = u[j]
  <1>0. PICK M \in Nat, N \in Nat : M = Len(a) /\ N = Len(b)
    OBVIOUS
  <1> DEFINE c == a \o b
             r == RegisterAfter(a, x)
             t == RegisterAfter(c, x)
             u == RegisterAfter(b, r[M])
             w == [j \in 0 .. N |-> t[M + j]]
  <1>1. /\ c \in Seq(S) /\ Len(c) = M + N
        /\ \A i \in 1 .. M : c[i] = a[i]
        /\ \A j \in 1 .. N : c[M + j] = b[j]
    BY <1>0
  <1>2. RegisterTrace(r, a, x) /\ RegisterTrace(u, b, r[M])
    BY RegisterAfterTraces
  <1>3. RegisterTrace(t, c, x)
    BY <1>1, RegisterAfterTraces
  <1> HIDE DEF c, r, t, u
  <1>4. GoOnAlike(t, r, M)
    BY <1>0, <1>1, <1>2, <1>3 DEF RegisterTrace, GoOnAlike
  <1>5. \A i \in 0 .. M : t[i] = r[i]
    BY <1>4, RecursionUnique
  <1>6. GoOnAlike(w, u, N)
    <2>1. w[0] = u[0]
      <3>1. w[0] = t[M + 0] /\ M + 0 = M /\ M \in 0 .. M
        OBVIOUS
      <3> HIDE DEF w
      <3> QED  BY <1>2, <1>5, <3>1 DEF RegisterTrace
    <2>2. ASSUME NEW n \in 1 .. N, w[n - 1] = u[n - 1]
          PROVE  w[n] = u[n]
      <3>1. w[n] = t[M + n] /\ w[n - 1] = t[(M + n) - 1]
        OBVIOUS
      <3>2. M + n \in 1 .. Len(c) /\ c[M + n] = b[n]
        BY <1>1
      <3>3. t[M + n] = RegisterStep(c[M + n], t[(M + n) - 1])
        BY <1>3, <3>2 DEF RegisterTrace
      <3>4. u[n] = RegisterStep(b[n], u[n - 1])
        BY <1>0, <1>2 DEF RegisterTrace
      <3> HIDE DEF w
      <3> QED  BY <2>2, <3>1, <3>2, <3>3, <3>4
    <2> HIDE DEF w
    <2> QED  BY <2>1, <2>2 DEF GoOnAlike
  <1>7. \A j \in 0 .. N : w[j] = u[j]
    <2> HIDE DEF w
    <2> QED  BY <1>6, RecursionUnique
  <1>8. \A j \in 0 .. N : t[M + j] = u[j]
    BY <1>7
  <1> QED  BY <1>0, <1>5, <1>8 DEF c, r, t, u

(* The access of a row, if it has one.                                     *)
AccessOf(row) == IF row.ram = <<>> THEN <<>> ELSE <<row.ram>>
Cells(S) == {row.ram : row \in S}

(* The accesses of rows put end to end are those of each, end to end.       *)
LEMMA AccessesConcat ==
    ASSUME NEW S, NEW a \in Seq(S), NEW b \in Seq(S)
    PROVE  /\ Accesses(a) \in Seq(Cells(S))
           /\ Accesses(a \o b) = Accesses(a) \o Accesses(b)
           /\ Accesses(<<>>) = <<>>
  <1> DEFINE Each(rows) == [i \in DOMAIN rows |-> AccessOf(rows[i])]
  <1>1. \A row \in S : AccessOf(row) \in Seq(Cells(S))
    <2> SUFFICES ASSUME NEW row \in S PROVE AccessOf(row) \in Seq(Cells(S))
      OBVIOUS
    <2>1. PICK Q : Q = Cells(S)
      OBVIOUS
    <2>2. row.ram \in Q
      BY <2>1 DEF Cells
    <2>3. <<>> \in Seq(Q) /\ <<row.ram>> \in Seq(Q)
      BY <2>2
    <2> QED  BY <2>1, <2>3 DEF AccessOf
  <1>2. ASSUME NEW rows \in Seq(S) PROVE Each(rows) \in Seq(Seq(Cells(S)))
    <2>1. \A i \in 1 .. Len(rows) : AccessOf(rows[i]) \in Seq(Cells(S))
      BY <1>1
    <2> QED  BY <2>1
  <1>3. \A rows : Accesses(rows) = FlattenSeq(Each(rows))
    BY Zenon DEF Accesses, AccessOf
  <1>4. Each(a \o b) = Each(a) \o Each(b)
    <2>1. PICK M \in Nat, N \in Nat : M = Len(a) /\ N = Len(b)
      OBVIOUS
    <2>2. PICK u \in Seq(Seq(Cells(S))), v \in Seq(Seq(Cells(S))),
               w \in Seq(Seq(Cells(S))) :
             u = Each(a) /\ v = Each(b) /\ w = Each(a \o b)
      <3>1. a \o b \in Seq(S)
        OBVIOUS
      <3> HIDE DEF Each
      <3> QED  BY <1>2, <3>1
    <2>3. /\ Len(u) = M /\ Len(v) = N /\ Len(w) = M + N
          /\ \A i \in 1 .. M : u[i] = AccessOf(a[i]) /\ w[i] = AccessOf(a[i])
          /\ \A i \in 1 .. N : v[i] = AccessOf(b[i]) /\ w[M + i] = AccessOf(b[i])
      BY <2>1, <2>2
    <2>4. PICK Q : Q = Seq(Cells(S))
      OBVIOUS
    <2>5. w = u \o v
      <3>1. u \in Seq(Q) /\ v \in Seq(Q) /\ w \in Seq(Q)
        BY <2>4
      <3>2. /\ Len(w) = Len(u) + Len(v)
            /\ \A i \in 1 .. Len(u) : w[i] = u[i]
            /\ \A i \in 1 .. Len(v) : w[Len(u) + i] = v[i]
        BY <2>3
      <3> QED  BY <3>1, <3>2, ConcatIs
    <2> QED  BY <2>2, <2>5
  <1>5. /\ Each(a) \in Seq(Seq(Cells(S))) /\ Each(b) \in Seq(Seq(Cells(S)))
        /\ Each(<<>>) = <<>>
    BY <1>2
  <1> HIDE DEF Each
  <1> QED  BY <1>3, <1>4, <1>5, FlattenTyped, FlattenConcat, FlattenNothing

(* t holds in each cell what the last of the accesses left, or else what   *)
(* ram held.                                                               *)
HoldsAfter(t, ram, acc) ==
    /\ DOMAIN t = DOMAIN ram \cup {acc[i][1] : i \in 1 .. Len(acc)}
    /\ t = [k \in DOMAIN t |-> t[k]]
    /\ \A k \in DOMAIN ram :
          (\A i \in 1 .. Len(acc) : acc[i][1] # k) => t[k] = ram[k]
    /\ \A i \in 1 .. Len(acc) :
          (\A j \in 1 .. Len(acc) : j > i => acc[j][1] # acc[i][1])
             => t[acc[i][1]] = acc[i][3]

(* A cell holds what the last access to it left.                            *)
LEMMA RamAfterCell ==
    ASSUME NEW ram, NEW S, NEW acc \in Seq(S)
    PROVE  HoldsAfter(RamAfter(ram, acc), ram, acc)
  <1> DEFINE t == RamAfter(ram, acc)
             At(k) == {i \in DOMAIN acc : acc[i][1] = k}
             cell(k) == IF At(k) = {} THEN ram[k]
                        ELSE acc[CHOOSE i \in At(k) : \A j \in At(k) : j <= i][3]
             D == DOMAIN ram \cup {acc[i][1] : i \in DOMAIN acc}
  <1>0. DOMAIN acc = 1 .. Len(acc) /\ Len(acc) \in Nat
    OBVIOUS
  <1>1. t = [k \in D |-> cell(k)]
    BY Zenon DEF RamAfter
  <1>2. ASSUME NEW k \in DOMAIN ram, \A i \in 1 .. Len(acc) : acc[i][1] # k
        PROVE  t[k] = ram[k]
    <2>1. At(k) = {} /\ k \in D
      BY <1>0, <1>2
    <2>2. t[k] = cell(k)
      <3> HIDE DEF cell, t, D
      <3> QED  BY <1>1, <2>1
    <2> QED  BY <2>1, <2>2
  <1>3. ASSUME NEW i \in 1 .. Len(acc),
               \A j \in 1 .. Len(acc) : j > i => acc[j][1] # acc[i][1]
        PROVE  t[acc[i][1]] = acc[i][3]
    <2> DEFINE k == acc[i][1]
               m == CHOOSE n \in At(k) : \A j \in At(k) : j <= n
    <2>1. i \in At(k) /\ k \in D
      BY <1>0
    <2>2. \A j \in At(k) : j <= i
      BY <1>0, <1>3
    <2>3. m \in At(k) /\ \A j \in At(k) : j <= m
      <3> HIDE DEF At
      <3> QED  BY <2>1, <2>2
    <2>4. m = i
      <3>1. m <= i /\ i <= m
        <4> HIDE DEF m, At
        <4> QED  BY <2>1, <2>2, <2>3
      <3>2. m \in Nat
        <4> HIDE DEF m
        <4> QED  BY <1>0, <2>3
      <3> HIDE DEF m
      <3> QED  BY <3>1, <3>2
    <2>5. t[k] = cell(k)
      <3> HIDE DEF cell, t, D, k
      <3> QED  BY <1>1, <2>1
    <2>6. cell(k) = acc[m][3]
      BY <2>1
    <2> HIDE DEF m, cell, t, At
    <2> QED  BY <2>4, <2>5, <2>6
  <1>4. DOMAIN t = D /\ t = [k \in D |-> t[k]]
    <2> HIDE DEF cell, D
    <2> QED  BY <1>1
  <1>5. D = DOMAIN ram \cup {acc[i][1] : i \in 1 .. Len(acc)}
    BY <1>0
  <1> HIDE DEF t, D
  <1> QED  BY <1>2, <1>3, <1>4, <1>5, Zenon DEF HoldsAfter, t

(* Every cell that is accessed has a last access.                          *)
LEMMA LastAccess ==
    ASSUME NEW S, NEW acc \in Seq(S), NEW i \in 1 .. Len(acc)
    PROVE  \E m \in 1 .. Len(acc) :
              /\ acc[m][1] = acc[i][1]
              /\ \A j \in 1 .. Len(acc) : j > m => acc[j][1] # acc[m][1]
  <1> DEFINE T == {j \in 1 .. Len(acc) : acc[j][1] = acc[i][1]}
  <1>1. Len(acc) \in Nat /\ T \in SUBSET (0 .. Len(acc)) /\ T # {}
    OBVIOUS
  <1>2. PICK m \in T : \A j \in T : j <= m
    <2> HIDE DEF T
    <2> QED  BY <1>1, GreatestNumber
  <1> QED  BY <1>1, <1>2

(* Memory after a concatenation.                                           *)
LEMMA RamAfterConcat ==
    ASSUME NEW ram, NEW S, NEW a \in Seq(S), NEW b \in Seq(S)
    PROVE  RamAfter(RamAfter(ram, a), b) = RamAfter(ram, a \o b)
  <1>0. PICK M \in Nat, N \in Nat : M = Len(a) /\ N = Len(b)
    OBVIOUS
  <1> DEFINE c == a \o b
             r == RamAfter(ram, a)
             t == RamAfter(r, b)
             u == RamAfter(ram, c)
  <1>1. /\ c \in Seq(S) /\ Len(c) = M + N
        /\ \A i \in 1 .. M : c[i] = a[i]
        /\ \A j \in 1 .. N : c[M + j] = b[j]
        /\ \A i \in 1 .. (M + N) : i \in 1 .. M \/ (i - M \in 1 .. N /\ M + (i - M) = i)
    BY <1>0
  <1>2. /\ DOMAIN r = DOMAIN ram \cup {a[i][1] : i \in 1 .. M}
        /\ \A k \in DOMAIN ram : (\A i \in 1 .. M : a[i][1] # k) => r[k] = ram[k]
        /\ \A i \in 1 .. M : (\A j \in 1 .. M : j > i => a[j][1] # a[i][1])
                                => r[a[i][1]] = a[i][3]
    <2>1. HoldsAfter(r, ram, a)
      BY RamAfterCell
    <2> HIDE DEF r
    <2> QED  BY <1>0, <2>1 DEF HoldsAfter
  <1>3. /\ DOMAIN t = DOMAIN r \cup {b[i][1] : i \in 1 .. N}
        /\ t = [k \in DOMAIN t |-> t[k]]
        /\ \A k \in DOMAIN r : (\A i \in 1 .. N : b[i][1] # k) => t[k] = r[k]
        /\ \A i \in 1 .. N : (\A j \in 1 .. N : j > i => b[j][1] # b[i][1])
                                => t[b[i][1]] = b[i][3]
    <2>1. HoldsAfter(t, r, b)
      BY RamAfterCell
    <2> HIDE DEF r, t
    <2> QED  BY <1>0, <2>1 DEF HoldsAfter
  <1> HIDE DEF c
  <1>4. /\ DOMAIN u = DOMAIN ram \cup {c[i][1] : i \in 1 .. (M + N)}
        /\ u = [k \in DOMAIN u |-> u[k]]
        /\ \A k \in DOMAIN ram : (\A i \in 1 .. (M + N) : c[i][1] # k) => u[k] = ram[k]
        /\ \A i \in 1 .. (M + N) : (\A j \in 1 .. (M + N) : j > i => c[j][1] # c[i][1])
                                => u[c[i][1]] = c[i][3]
    <2>1. HoldsAfter(u, ram, c)
      BY <1>1, RamAfterCell
    <2> HIDE DEF u
    <2> QED  BY <1>0, <1>1, <2>1 DEF HoldsAfter
  <1> HIDE DEF r, t, u
  <1>5. DOMAIN t = DOMAIN u
    <2>1. ASSUME NEW k \in DOMAIN u PROVE k \in DOMAIN t
      <3>1. CASE k \in DOMAIN ram
        BY <1>2, <1>3, <3>1
      <3>2. CASE k \notin DOMAIN ram
        <4>1. PICK i \in 1 .. (M + N) : k = c[i][1]
          BY <1>4, <3>2
        <4>2. CASE i \in 1 .. M
          BY <1>1, <1>2, <1>3, <4>1, <4>2
        <4>3. CASE i \notin 1 .. M
          <5>1. i - M \in 1 .. N /\ c[i] = b[i - M]
            BY <1>1, <4>3
          <5> QED  BY <1>3, <4>1, <5>1
        <4> QED  BY <4>2, <4>3
      <3> QED  BY <3>1, <3>2
    <2>2. ASSUME NEW k \in DOMAIN t PROVE k \in DOMAIN u
      <3>1. CASE k \in DOMAIN ram
        BY <1>4, <3>1
      <3>2. CASE \E i \in 1 .. M : k = a[i][1]
        <4>1. PICK i \in 1 .. M : k = a[i][1]
          BY <3>2
        <4>2. c[i] = a[i] /\ i \in 1 .. (M + N)
          BY <1>1
        <4> QED  BY <1>4, <4>1, <4>2
      <3>3. CASE \E i \in 1 .. N : k = b[i][1]
        <4>1. PICK i \in 1 .. N : k = b[i][1]
          BY <3>3
        <4>2. c[M + i] = b[i] /\ M + i \in 1 .. (M + N)
          BY <1>1
        <4> QED  BY <1>4, <4>1, <4>2
      <3> QED  BY <1>2, <1>3, <3>1, <3>2, <3>3
    <2> QED  BY <2>1, <2>2
  <1>6. ASSUME NEW k \in DOMAIN t
        PROVE  t[k] = u[k]
    <2>1. CASE \E i \in 1 .. N : b[i][1] = k
      <3>1. PICK m \in 1 .. N : /\ b[m][1] = k
                                /\ \A j \in 1 .. N : j > m => b[j][1] # b[m][1]
        <4>1. PICK i \in 1 .. N : b[i][1] = k
          BY <2>1
        <4>2. \E m \in 1 .. Len(b) :
                 /\ b[m][1] = b[i][1]
                 /\ \A j \in 1 .. Len(b) : j > m => b[j][1] # b[m][1]
          BY <1>0, LastAccess
        <4> QED  BY <1>0, <4>1, <4>2
      <3>2. t[k] = b[m][3]
        BY <1>3, <3>1
      <3>3. c[M + m] = b[m] /\ M + m \in 1 .. (M + N)
        BY <1>1
      <3>4. ASSUME NEW j \in 1 .. (M + N), j > M + m PROVE c[j][1] # c[M + m][1]
        <4>1. j - M \in 1 .. N /\ j - M > m /\ M + (j - M) = j
          BY <3>4
        <4>2. c[j] = b[j - M]
          BY <1>1, <4>1
        <4> QED  BY <3>1, <3>3, <4>1, <4>2
      <3> QED  BY <1>4, <3>1, <3>2, <3>3, <3>4
    <2>2. CASE ~ \E i \in 1 .. N : b[i][1] = k
      <3>1. k \in DOMAIN r /\ t[k] = r[k]
        BY <1>3, <2>2
      <3>2. CASE \E i \in 1 .. M : a[i][1] = k
        <4>1. PICK m \in 1 .. M : /\ a[m][1] = k
                                  /\ \A j \in 1 .. M : j > m => a[j][1] # a[m][1]
          <5>1. PICK i \in 1 .. M : a[i][1] = k
            BY <3>2
          <5>2. \E m \in 1 .. Len(a) :
                   /\ a[m][1] = a[i][1]
                   /\ \A j \in 1 .. Len(a) : j > m => a[j][1] # a[m][1]
            BY <1>0, LastAccess
          <5> QED  BY <1>0, <5>1, <5>2
        <4>2. r[k] = a[m][3]
          BY <1>2, <4>1
        <4>3. c[m] = a[m] /\ m \in 1 .. (M + N)
          BY <1>1
        <4>4. ASSUME NEW j \in 1 .. (M + N), j > m PROVE c[j][1] # c[m][1]
          <5>1. CASE j \in 1 .. M
            BY <1>1, <4>1, <4>3, <4>4, <5>1
          <5>2. CASE j \notin 1 .. M
            <6>1. j - M \in 1 .. N /\ c[j] = b[j - M]
              BY <1>1, <5>2
            <6> QED  BY <2>2, <4>1, <4>3, <6>1
          <5> QED  BY <5>1, <5>2
        <4> QED  BY <1>4, <3>1, <4>1, <4>2, <4>3, <4>4
      <3>3. CASE ~ \E i \in 1 .. M : a[i][1] = k
        <4>1. k \in DOMAIN ram /\ r[k] = ram[k]
          BY <1>2, <3>1, <3>3
        <4>2. ASSUME NEW i \in 1 .. (M + N) PROVE c[i][1] # k
          <5>1. CASE i \in 1 .. M
            BY <1>1, <3>3, <5>1
          <5>2. CASE i \notin 1 .. M
            <6>1. i - M \in 1 .. N /\ c[i] = b[i - M]
              BY <1>1, <5>2
            <6> QED  BY <2>2, <6>1
          <5> QED  BY <5>1, <5>2
        <4> QED  BY <1>4, <3>1, <4>1, <4>2
      <3> QED  BY <3>2, <3>3
    <2> QED  BY <2>1, <2>2
  <1>7. t = u
    BY <1>3, <1>4, <1>5, <1>6
  <1> QED  BY <1>7 DEF t, u, r, c

(* What flows through a and, from the memory a leaves, through b, flows    *)
(* through both.                                                           *)
LEMMA RamFlowsConcat ==
    ASSUME NEW ram, NEW S, NEW a \in Seq(S), NEW b \in Seq(S),
           RamFlows(ram, a), RamFlows(RamAfter(ram, a), b)
    PROVE  RamFlows(ram, a \o b)
  <1>0. PICK M \in Nat, N \in Nat : M = Len(a) /\ N = Len(b)
    OBVIOUS
  <1> DEFINE c == a \o b
             Known(i) == RamAfter(ram, SubSeq(c, 1, i - 1))
             Finds(known, access) ==
                access[1] \in DOMAIN known => access[2] = known[access[1]]
  <1>1. /\ c \in Seq(S) /\ Len(c) = M + N
        /\ \A i \in 1 .. M : c[i] = a[i]
        /\ \A j \in 1 .. N : c[M + j] = b[j]
        /\ DOMAIN a = 1 .. M /\ DOMAIN b = 1 .. N /\ DOMAIN c = 1 .. (M + N)
    BY <1>0
  <1>2. ASSUME NEW i \in 1 .. M PROVE Finds(Known(i), c[i])
    <2>1. SubSeq(c, 1, i - 1) = SubSeq(a, 1, i - 1)
      BY <1>0, <1>1
    <2>2. Finds(RamAfter(ram, SubSeq(a, 1, i - 1)), a[i])
      BY <1>1, Zenon DEF RamFlows
    <2> HIDE DEF Finds, c
    <2> QED  BY <1>1, <2>1, <2>2
  <1>3. ASSUME NEW j \in 1 .. N PROVE Finds(Known(M + j), c[M + j])
    <2>1. SubSeq(c, 1, (M + j) - 1) = a \o SubSeq(b, 1, j - 1)
      BY <1>0, <1>1
    <2>2. Finds(RamAfter(RamAfter(ram, a), SubSeq(b, 1, j - 1)), b[j])
      BY <1>1, Zenon DEF RamFlows
    <2>3. PICK front \in Seq(S) : front = SubSeq(b, 1, j - 1)
      <3>1. SubSeq(b, 1, j - 1) \in Seq(S)
        BY <1>0
      <3> QED  BY <3>1
    <2>4. RamAfter(RamAfter(ram, a), front) = RamAfter(ram, a \o front)
      BY RamAfterConcat
    <2>5. c[M + j] = b[j]
      BY <1>1
    <2> HIDE DEF Finds, c
    <2> QED  BY <2>1, <2>2, <2>3, <2>4, <2>5
  <1>4. ASSUME NEW i \in DOMAIN c PROVE Finds(Known(i), c[i])
    <2>1. i \in 1 .. M \/ (i - M \in 1 .. N /\ M + (i - M) = i)
      BY <1>1
    <2> HIDE DEF Finds, Known
    <2> QED  BY <1>2, <1>3, <2>1
  <1>5. RamFlows(ram, c)
    <2> HIDE DEF c
    <2> QED  BY <1>4, Zenon DEF RamFlows
  <1> QED  BY <1>5 DEF c

(* Rows that follow one another, and carry the register from x to y.       *)
RowsHold(rows, x, y) ==
    LET r == RegisterAfter(rows, x)
    IN  /\ \A i \in 1 .. (Len(rows) - 1) : rows[i + 1].at = rows[i].to
        /\ \A i \in 1 .. Len(rows) : rows[i].reg # <<>> => rows[i].reg[1] = r[i - 1]
        /\ r[Len(rows)] = y

(* Rows that join hold together if both parts do.                           *)
LEMMA RowsGoOn ==
    ASSUME NEW S, NEW a \in Seq(S), NEW b \in Seq(S), NEW x, NEW y, NEW z,
           RowsHold(a, x, y), RowsHold(b, y, z), b # <<>>,
           a # <<>> => b[1].at = a[Len(a)].to
    PROVE  /\ RowsHold(a \o b, x, z)
           /\ a \o b # <<>>
           /\ Last(a \o b) = Last(b)
  <1>0. PICK M \in Nat, N \in Nat : M = Len(a) /\ N = Len(b)
    OBVIOUS
  <1> DEFINE c == a \o b
             r == RegisterAfter(a, x)
             t == RegisterAfter(c, x)
             u == RegisterAfter(b, y)
  <1>1. /\ c \in Seq(S) /\ Len(c) = M + N /\ N # 0
        /\ \A i \in 1 .. M : c[i] = a[i]
        /\ \A j \in 1 .. N : c[M + j] = b[j]
    BY <1>0
  <1>2. /\ \A i \in 0 .. M : t[i] = r[i]
        /\ \A j \in 0 .. N : t[M + j] = u[j]
    BY <1>0, RegisterAfterConcat DEF RowsHold
  <1>3. /\ \A i \in 1 .. (M - 1) : a[i + 1].at = a[i].to
        /\ \A i \in 1 .. M : a[i].reg # <<>> => a[i].reg[1] = r[i - 1]
        /\ \A i \in 1 .. (N - 1) : b[i + 1].at = b[i].to
        /\ \A i \in 1 .. N : b[i].reg # <<>> => b[i].reg[1] = u[i - 1]
        /\ u[N] = z
    BY <1>0 DEF RowsHold
  <1> HIDE DEF c, r, t, u
  <1>4. ASSUME NEW i \in 1 .. (M + N - 1) PROVE c[i + 1].at = c[i].to
    <2>1. CASE i < M
      BY <1>1, <1>3, <2>1
    <2>2. CASE i = M
      <3>1. c[i + 1] = b[1] /\ c[i] = a[M] /\ a # <<>>
        BY <1>0, <1>1, <2>2
      <3> QED  BY <1>0, <3>1
    <2>3. CASE i > M
      <3>1. PICK j \in 1 .. (N - 1) : i = M + j
        BY <2>3
      <3>2. c[M + j] = b[j] /\ c[M + (j + 1)] = b[j + 1] /\ M + (j + 1) = i + 1
        BY <1>1, <3>1
      <3> QED  BY <1>3, <3>1, <3>2
    <2> QED  BY <2>1, <2>2, <2>3
  <1>5. ASSUME NEW i \in 1 .. (M + N), c[i].reg # <<>>
        PROVE  c[i].reg[1] = t[i - 1]
    <2>1. CASE i <= M
      BY <1>1, <1>2, <1>3, <1>5, <2>1
    <2>2. CASE i > M
      <3>1. PICK j \in 1 .. N : i = M + j
        BY <2>2
      <3>2. c[M + j] = b[j] /\ t[M + (j - 1)] = u[j - 1] /\ M + (j - 1) = i - 1
        BY <1>1, <1>2, <3>1
      <3> QED  BY <1>3, <1>5, <3>1, <3>2
    <2> QED  BY <2>1, <2>2
  <1>6. t[M + N] = z
    BY <1>2, <1>3
  <1>7. RowsHold(c, x, z)
    BY <1>1, <1>4, <1>5, <1>6 DEF RowsHold, t
  <1>8. c # <<>> /\ Last(c) = Last(b)
    BY <1>0, <1>1 DEF Last
  <1> QED  BY <1>7, <1>8 DEF c

-----------------------------------------------------------------------------
(* What the rows of one machine do: they hold, and know its memory.        *)

(* The cells that are known have the values they have in memory.           *)
Knows(ram, mem) ==
    /\ ram = [a \in DOMAIN ram |-> ram[a]]
    /\ \A a \in DOMAIN ram : a \in DOMAIN mem /\ ram[a] = mem[a]

(* An access to a cell takes memory from before to after.                  *)
CellMoves(cell, before, after) ==
    /\ DOMAIN after = DOMAIN before /\ cell[1] \in DOMAIN before
    /\ cell[2] = before[cell[1]] /\ cell[3] = after[cell[1]]
    /\ \A a \in DOMAIN before : a # cell[1] => after[a] = before[a]

(* The accesses of the rows take memory from before to after, whatever is  *)
(* known before them.                                                      *)
RowsKnow(rows, before, after) ==
    \A ram : Knows(ram, before) =>
                /\ RamFlows(ram, Accesses(rows))
                /\ Knows(RamAfter(ram, Accesses(rows)), after)

(* A sequence of one element.                                              *)
LEMMA OneElement ==
    ASSUME NEW e
    PROVE  <<e>> \in Seq({e}) /\ Len(<<e>>) = 1 /\ <<e>>[1] = e
  OBVIOUS

(* Without an access, what is known stays.                                 *)
LEMMA NoAccess ==
    ASSUME NEW ram, ram = [a \in DOMAIN ram |-> ram[a]]
    PROVE  RamFlows(ram, <<>>) /\ RamAfter(ram, <<>>) = ram
  <1> DEFINE t == RamAfter(ram, <<>>)
  <1>1. HoldsAfter(t, ram, <<>>)
    <2>1. <<>> \in Seq({})
      OBVIOUS
    <2> QED  BY <2>1, RamAfterCell
  <1> HIDE DEF t
  <1>2. DOMAIN t = DOMAIN ram /\ t = [a \in DOMAIN t |-> t[a]]
        /\ \A a \in DOMAIN ram : t[a] = ram[a]
    BY <1>1 DEF HoldsAfter
  <1>3. t = ram
    BY <1>2
  <1>4. RamFlows(ram, <<>>)
    BY DEF RamFlows
  <1> QED  BY <1>3, <1>4 DEF t

(* An access changes what is known of its cell.                            *)
LEMMA OneAccess ==
    ASSUME NEW before, NEW after, NEW cell, NEW ram, Knows(ram, before),
           CellMoves(cell, before, after)
    PROVE  RamFlows(ram, <<cell>>) /\ Knows(RamAfter(ram, <<cell>>), after)
  <1> DEFINE t == RamAfter(ram, <<cell>>)
  <1>0. PICK acc \in Seq({cell}) : acc = <<cell>> /\ Len(acc) = 1 /\ acc[1] = cell
    BY OneElement
  <1>1. HoldsAfter(t, ram, acc)
    BY <1>0, RamAfterCell
  <1> HIDE DEF t
  <1>2. /\ DOMAIN t = DOMAIN ram \cup {cell[1]}
        /\ t = [a \in DOMAIN t |-> t[a]]
        /\ \A a \in DOMAIN ram : cell[1] # a => t[a] = ram[a]
        /\ t[cell[1]] = cell[3]
    BY <1>0, <1>1 DEF HoldsAfter
  <1>3. Knows(t, after)
    BY <1>2 DEF Knows, CellMoves
  <1>4. RamFlows(ram, acc)
    <2>1. SUFFICES ASSUME NEW i \in DOMAIN acc
                   PROVE  acc[i][1] \in DOMAIN RamAfter(ram, SubSeq(acc, 1, i - 1))
                            => acc[i][2] = RamAfter(ram, SubSeq(acc, 1, i - 1))[acc[i][1]]
      BY Zenon DEF RamFlows
    <2>2. i = 1 /\ acc[i] = cell
      BY <1>0
    <2>3. SubSeq(acc, 1, i - 1) = <<>>
      BY <1>0, <2>2
    <2>4. RamAfter(ram, <<>>) = ram
      BY NoAccess DEF Knows
    <2>5. PICK known : known = RamAfter(ram, SubSeq(acc, 1, i - 1))
      OBVIOUS
    <2>6. known = ram
      BY Zenon, <2>3, <2>4, <2>5
    <2>7. acc[i][1] \in DOMAIN known => acc[i][2] = known[acc[i][1]]
      BY <2>2, <2>6 DEF Knows, CellMoves
    <2> QED  BY Zenon, <2>5, <2>7
  <1> QED  BY <1>0, <1>3, <1>4 DEF t

(* No rows hold, and know what is known.                                   *)
LEMMA NoRows ==
    ASSUME NEW x, NEW mem
    PROVE  RowsHold(<<>>, x, x) /\ RowsKnow(<<>>, mem, mem)
  <1>0. <<>> \in Seq({})
    OBVIOUS
  <1>1. RegisterTrace(RegisterAfter(<<>>, x), <<>>, x)
    BY <1>0, RegisterAfterTraces
  <1>2. RowsHold(<<>>, x, x)
    BY <1>1 DEF RegisterTrace, RowsHold
  <1>3. Accesses(<<>>) = <<>>
    BY <1>0, AccessesConcat
  <1>4. RowsKnow(<<>>, mem, mem)
    BY <1>3, NoAccess DEF RowsKnow, Knows
  <1> QED  BY <1>2, <1>4

(* One row steps the register, and makes its access.                       *)
LEMMA OneRow ==
    ASSUME NEW row, NEW x, row.reg # <<>> => row.reg[1] = x
    PROVE  RowsHold(<<row>>, x, RegisterStep(row, x)) /\ Accesses(<<row>>) = AccessOf(row)
  <1>0. PICK rows \in Seq({row}) : rows = <<row>> /\ Len(rows) = 1 /\ rows[1] = row
    BY OneElement
  <1> DEFINE r == RegisterAfter(rows, x)
  <1>1. RegisterTrace(r, rows, x)
    BY RegisterAfterTraces
  <1> HIDE DEF r
  <1>2. r[0] = x /\ r[1] = RegisterStep(row, x)
    BY <1>0, <1>1 DEF RegisterTrace
  <1>3. RowsHold(rows, x, RegisterStep(row, x))
    <2>1. \A i \in 1 .. 1 : i = 1 /\ i - 1 = 0
      OBVIOUS
    <2>2. 1 .. (1 - 1) = {}
      OBVIOUS
    <2> QED  BY <1>0, <1>2, <2>1, <2>2 DEF RowsHold, r
  <1>4. Accesses(rows) = FlattenSeq(<<AccessOf(row)>>)
    <2>1. [i \in DOMAIN rows |-> AccessOf(rows[i])] = <<AccessOf(row)>>
      BY <1>0
    <2> QED  BY <2>1, Zenon DEF Accesses, AccessOf
  <1>5. FlattenSeq(<<AccessOf(row)>>) = AccessOf(row)
    <2>1. PICK s : s = AccessOf(row)
      OBVIOUS
    <2>2. PICK Q : Q = {row.ram}
      OBVIOUS
    <2>3. s \in Seq(Q)
      <3>1. row.ram \in Q
        BY <2>2
      <3>2. <<>> \in Seq(Q) /\ <<row.ram>> \in Seq(Q)
        BY <3>1
      <3> QED  BY <2>1, <3>2 DEF AccessOf
    <2>4. Append(<<>>, s) = <<s>> /\ <<>> \in Seq(Seq(Q)) /\ <<>> \o s = s
      BY <2>3
    <2>5. FlattenSeq(Append(<<>>, s)) = FlattenSeq(<<>>) \o s
      BY <2>3, <2>4, FlattenAppend
    <2> QED  BY <2>1, <2>4, <2>5, FlattenNothing
  <1> QED  BY <1>0, <1>3, <1>4, <1>5

(* One row takes memory from before to after, if its access does.          *)
LEMMA OneRowKnows ==
    ASSUME NEW row, NEW x, row.reg # <<>> => row.reg[1] = x,
           NEW before, NEW after,
           IF row.ram = <<>> THEN after = before
                             ELSE CellMoves(row.ram, before, after)
    PROVE  RowsKnow(<<row>>, before, after)
  <1> SUFFICES ASSUME NEW ram, Knows(ram, before)
               PROVE  /\ RamFlows(ram, Accesses(<<row>>))
                      /\ Knows(RamAfter(ram, Accesses(<<row>>)), after)
    BY DEF RowsKnow
  <1>1. Accesses(<<row>>) = AccessOf(row)
    BY OneRow
  <1>2. CASE row.ram = <<>>
    <2>1. Accesses(<<row>>) = <<>>
      BY <1>1, <1>2 DEF AccessOf
    <2> QED  BY <1>2, <2>1, NoAccess DEF Knows
  <1>3. CASE row.ram # <<>>
    <2>1. PICK cell : cell = row.ram
      OBVIOUS
    <2>2. Accesses(<<row>>) = <<cell>>
      BY <1>1, <1>3, <2>1 DEF AccessOf
    <2>3. RamFlows(ram, <<cell>>) /\ Knows(RamAfter(ram, <<cell>>), after)
      BY <1>3, <2>1, OneAccess
    <2> QED  BY <2>2, <2>3
  <1> QED  BY <1>2, <1>3

(* Rows that join take memory from before the first to after the last.     *)
LEMMA KnowGoesOn ==
    ASSUME NEW S, NEW a \in Seq(S), NEW b \in Seq(S),
           NEW first, NEW middle, NEW last,
           RowsKnow(a, first, middle), RowsKnow(b, middle, last)
    PROVE  RowsKnow(a \o b, first, last)
  <1> SUFFICES ASSUME NEW ram, Knows(ram, first)
               PROVE  /\ RamFlows(ram, Accesses(a \o b))
                      /\ Knows(RamAfter(ram, Accesses(a \o b)), last)
    BY DEF RowsKnow
  <1>1. PICK u \in Seq(Cells(S)), v \in Seq(Cells(S)) :
           u = Accesses(a) /\ v = Accesses(b)
    BY AccessesConcat
  <1>2. Accesses(a \o b) = u \o v
    BY <1>1, AccessesConcat
  <1>3. RamFlows(ram, u) /\ Knows(RamAfter(ram, u), middle)
    BY <1>1 DEF RowsKnow
  <1>4. RamFlows(RamAfter(ram, u), v) /\ Knows(RamAfter(RamAfter(ram, u), v), last)
    BY <1>1, <1>3 DEF RowsKnow
  <1>5. RamFlows(ram, u \o v)
    BY <1>3, <1>4, RamFlowsConcat
  <1>6. RamAfter(RamAfter(ram, u), v) = RamAfter(ram, u \o v)
    BY RamAfterConcat
  <1> QED  BY <1>2, <1>4, <1>5, <1>6

(* Rows that only follow one another change nothing.                       *)
LEMMA QuietRows ==
    ASSUME NEW S, NEW rows \in Seq(S), NEW x, NEW mem,
           \A i \in 1 .. Len(rows) : rows[i].reg = <<>> /\ rows[i].ram = <<>>,
           \A i \in 1 .. (Len(rows) - 1) : rows[i + 1].at = rows[i].to
    PROVE  RowsHold(rows, x, x) /\ RowsKnow(rows, mem, mem)
  <1>0. PICK N \in Nat : N = Len(rows)
    OBVIOUS
  <1> DEFINE Beginning(n) == SubSeq(rows, 1, n)
             T == {n \in 0 .. N : /\ RowsHold(Beginning(n), x, x)
                                  /\ RowsKnow(Beginning(n), mem, mem)}
  <1>1. 0 \in T
    <2>1. Beginning(0) = <<>>
      BY <1>0
    <2> HIDE DEF Beginning
    <2> QED  BY <1>0, <2>1, NoRows
  <1>2. ASSUME NEW n \in 0 .. (N - 1), n \in T
        PROVE  n + 1 \in T
    <2>1. PICK a \in Seq(S) : a = Beginning(n) /\ Len(a) = n
                              /\ (n # 0 => a[n] = rows[n])
      <3>1. Beginning(n) \in Seq(S) /\ Len(Beginning(n)) = n
            /\ (n # 0 => Beginning(n)[n] = rows[n])
        BY <1>0
      <3> QED  BY <3>1
    <2>2. PICK row \in S : row = rows[n + 1]
      BY <1>0
    <2>3. /\ <<row>> \in Seq(S) /\ <<row>> # <<>> /\ <<row>>[1] = row
          /\ Len(<<row>>) = 1
      OBVIOUS
    <2>10. Beginning(n + 1) = a \o <<row>>
      <3>1. PICK b \in Seq(S) : b = <<row>>
        BY <2>3
      <3>2. PICK c \in Seq(S) : c = Beginning(n + 1)
        <4>1. Beginning(n + 1) \in Seq(S)
          BY <1>0
        <4> QED  BY <4>1
      <3>3. /\ Len(c) = Len(a) + Len(b)
            /\ \A i \in 1 .. Len(a) : c[i] = a[i]
            /\ \A i \in 1 .. Len(b) : c[Len(a) + i] = b[i]
        <4>1. Len(c) = n + 1 /\ Len(a) = n /\ Len(b) = 1
          BY <1>0, <2>1, <2>3, <3>1, <3>2
        <4>2. \A i \in 1 .. n : c[i] = rows[i] /\ a[i] = rows[i]
          BY <1>0, <2>1, <3>2
        <4>3. c[n + 1] = row /\ b[1] = row
          BY <1>0, <2>2, <2>3, <3>1, <3>2
        <4> QED  BY <4>1, <4>2, <4>3
      <3>4. c = a \o b
        BY <3>3, ConcatIs
      <3> QED  BY <3>1, <3>2, <3>4
    <2>11. n + 1 \in 0 .. N
      OBVIOUS
    <2>4. row.reg = <<>> /\ row.ram = <<>> /\ (n # 0 => row.at = rows[n].to)
      BY <1>0, <2>2
    <2>5. RowsHold(<<row>>, x, x)
      BY <2>4, OneRow DEF RegisterStep
    <2>6. RowsKnow(<<row>>, mem, mem)
      BY <2>4, OneRowKnows
    <2>7. RowsHold(a, x, x) /\ RowsKnow(a, mem, mem)
      BY <1>2, <2>1
    <2>8. a # <<>> => <<row>>[1].at = a[Len(a)].to
      BY <2>1, <2>3, <2>4
    <2>9. RowsHold(a \o <<row>>, x, x) /\ RowsKnow(a \o <<row>>, mem, mem)
      BY <2>3, <2>5, <2>6, <2>7, <2>8, RowsGoOn, KnowGoesOn
    <2> HIDE DEF Beginning
    <2> QED  BY <2>9, <2>10, <2>11
  <1>3. 0 .. N \subseteq T
    <2> HIDE DEF T
    <2> QED  BY <1>1, <1>2, IntervalInduction
  <1>4. N \in T
    BY <1>3
  <1>5. Beginning(N) = rows
    BY <1>0
  <1> QED  BY <1>4, <1>5

-----------------------------------------------------------------------------
(* What has been folded is the beginning of an execution.                  *)

RowSet == UNION {Range(b.cycles) : b \in Offered}

(* The rows of the folded blocks, put end to end.                          *)
FoldedRows == FlattenSeq([i \in 1 .. Folded |-> blocks[i].cycles])

Executed ==
    /\ Folded <= Len(blocks)
    /\ accumulator.metadata.active = Len(FoldedRows)
    /\ prover.ram = RamAfter(<<>>, Accesses(FoldedRows))
    /\ RamFlows(<<>>, Accesses(FoldedRows))
    /\ Folded # 0 =>
          /\ RowsHold(FoldedRows, blocks[1].startState.x, blocks[Folded].endState.x)
          /\ FoldedRows # <<>>
          /\ Last(FoldedRows) = Last(blocks[Folded].cycles)

(* The rows of an offered block are rows.                                   *)
LEMMA CyclesTyped ==
    ASSUME NEW b \in Offered
    PROVE  b.cycles \in Seq(RowSet)
  <1>1. b.cycles \in Seq(Range(b.cycles))
    BY CyclesAssumption
  <1>2. Range(b.cycles) \subseteq RowSet
    BY DEF RowSet
  <1> QED  BY <1>1, <1>2

(* The rows of the folded blocks, put end to end, are rows.                 *)
LEMMA RowsTyped ==
    ASSUME Shaped, Folded <= Len(blocks)
    PROVE  /\ [i \in 1 .. Folded |-> blocks[i].cycles] \in Seq(Seq(RowSet))
           /\ FoldedRows \in Seq(RowSet)
  <1>1. \A i \in 1 .. Folded : blocks[i].cycles \in Seq(RowSet)
    BY CyclesTyped DEF Shaped
  <1>2. [i \in 1 .. Folded |-> blocks[i].cycles] \in Seq(Seq(RowSet))
    BY <1>1 DEF Shaped
  <1> QED  BY <1>2, FlattenTyped DEF FoldedRows

(* A block that is folded goes on with the execution.                       *)
LEMMA FoldExecutes ==
    ASSUME IInv, Executed, FoldBlock, IInv'
    PROVE  Executed'
  <1> DEFINE b == prover.current
             k == Folded
             rows == FoldedRows
  <1>1. /\ prover.phase = "fold" /\ Passes /\ Folded' = k + 1 /\ blocks' = blocks
        /\ prover'.ram = RamAfter(prover.ram, Accesses(b.cycles))
        /\ accumulator'.metadata.active = accumulator.metadata.active + b.active
    <2>1. /\ prover.phase = "fold" /\ Passes /\ blocks' = blocks
          /\ Nova!Absorb(FoldInputOf(b, prover.receipt))
          /\ prover'.ram = RamAfter(prover.ram, Accesses(b.cycles))
      BY DEF FoldBlock, IInv, Shaped, ProverRecord
    <2>2. accumulator'.metadata.active = accumulator.metadata.active + b.active
      BY <2>1 DEF Nova!Absorb, Nova!Absorbed, FoldInputOf
    <2> QED  BY <2>1, <2>2, AbsorbCounts
  <1>2. /\ k \in Nat /\ blocks \in Seq(Offered) /\ k + 1 <= Len(blocks)
        /\ b = blocks[k + 1] /\ b \in Offered
    BY <1>1 DEF IInv, Shaped, Progress
  <1>3. /\ ShapeHolds(b) /\ RegisterFlows(b)
        /\ CpuHolds(b, Lookahead(b, prover.next))
        /\ RamFlows(prover.ram, Accesses(b.cycles))
        /\ prover.previous # None => ContiguousWith(prover.previous, b)
    BY <1>1, PassesChecks
  <1>4. /\ b.cycles \in Seq(RowSet) /\ rows \in Seq(RowSet)
        /\ Shaped
    BY <1>2, CyclesTyped, RowsTyped DEF IInv
  <1>5. b.active = Len(b.cycles) /\ b.cycles # <<>>
    BY <1>3, <1>4 DEF ShapeHolds
  <1>6. FoldedRows' = rows \o b.cycles
    <2> DEFINE ss == [i \in 1 .. k |-> blocks[i].cycles]
    <2>1. ss \in Seq(Seq(RowSet)) /\ Len(ss) = k
      BY <1>2, RowsTyped DEF IInv
    <2>2. [i \in 1 .. (k + 1) |-> blocks[i].cycles] = Append(ss, blocks[k + 1].cycles)
      BY <1>2, <2>1
    <2>3. FlattenSeq(Append(ss, b.cycles)) = FlattenSeq(ss) \o b.cycles
      <3> HIDE DEF ss
      <3> QED  BY <1>4, <2>1, FlattenAppend
    <2> QED  BY <1>1, <1>2, <2>2, <2>3 DEF FoldedRows
  <1>7. accumulator'.metadata.active = Len(FoldedRows')
    BY <1>1, <1>4, <1>5, <1>6 DEF Executed
  <1>8. /\ Accesses(rows) \in Seq(Cells(RowSet))
        /\ Accesses(b.cycles) \in Seq(Cells(RowSet))
        /\ Accesses(FoldedRows') = Accesses(rows) \o Accesses(b.cycles)
    BY <1>4, <1>6, AccessesConcat
  <1>9. prover'.ram = RamAfter(<<>>, Accesses(FoldedRows'))
    BY <1>1, <1>8, RamAfterConcat DEF Executed
  <1>10. RamFlows(<<>>, Accesses(FoldedRows'))
    BY <1>3, <1>8, RamFlowsConcat DEF Executed
  <1>11. RowsHold(b.cycles, b.startState.x, b.endState.x)
    BY <1>3, <1>5, <1>4 DEF RowsHold, RegisterFlows, CpuHolds
  <1>12. CASE k = 0
    <2>1. rows = <<>>
      <3>1. [i \in 1 .. k |-> blocks[i].cycles] = <<>>
        BY <1>12
      <3> QED  BY <3>1, FlattenNothing DEF FoldedRows
    <2>2. FoldedRows' = b.cycles
      <3> HIDE DEF rows
      <3> QED  BY <1>4, <1>6, <2>1
    <2>3. blocks'[1] = b /\ blocks'[Folded'] = b
      BY <1>1, <1>2, <1>12
    <2>4. Folded' <= Len(blocks')
      BY <1>1, <1>2
    <2> QED  BY <1>5, <1>7, <1>9, <1>10, <1>11, <2>2, <2>3, <2>4 DEF Executed
  <1>13. CASE k # 0
    <2> DEFINE a == blocks[k]
    <2>1. /\ a \in Offered /\ BlockHolds(k) /\ prover.previous = a /\ a # None
          /\ Following(k) = b
      BY <1>2, <1>13, AbsentAssumption DEF IInv, FoldedHold, Following
    <2>2. a.endState = b.startState
      BY <1>3, <2>1 DEF ContiguousWith
    <2>3. a.cycles \in Seq(RowSet) /\ a.cycles # <<>>
      <3>1. a.cycles \in Seq(RowSet)
        BY <2>1, CyclesTyped
      <3> QED  BY <2>1, <3>1 DEF BlockHolds, ShapeHolds
    <2>4. b.cycles[1].at = Last(a.cycles).to
      <3>1. CpuHolds(a, Lookahead(a, b))
        BY <2>1 DEF BlockHolds
      <3>2. Lookahead(a, b) = [kind |-> "row", at |-> b.cycles[1].at]
        BY <1>2, <1>5, AbsentAssumption DEF Lookahead
      <3>3. Lookahead(a, b).kind = "row" /\ Lookahead(a, b).at = b.cycles[1].at
        BY <3>2
      <3> QED  BY <2>3, <3>1, <3>3 DEF CpuHolds
    <2>5. /\ RowsHold(rows, blocks[1].startState.x, a.endState.x)
          /\ rows # <<>> /\ Last(rows) = Last(a.cycles)
      BY <1>13 DEF Executed
    <2> HIDE DEF rows, a, b
    <2>6. b.cycles[1].at = rows[Len(rows)].to
      BY <2>4, <2>5 DEF Last
    <2>7. /\ RowsHold(rows \o b.cycles, blocks[1].startState.x, b.endState.x)
          /\ rows \o b.cycles # <<>> /\ Last(rows \o b.cycles) = Last(b.cycles)
      BY <1>4, <1>5, <1>11, <2>2, <2>5, <2>6, RowsGoOn
    <2>8. blocks'[1] = blocks[1] /\ blocks'[Folded'] = b
      BY <1>1, <1>2
    <2>9. Folded' <= Len(blocks')
      BY <1>1, <1>2
    <2> QED  BY <1>6, <1>7, <1>9, <1>10, <2>7, <2>8, <2>9 DEF Executed
  <1> QED  BY <1>12, <1>13

(* Every step keeps what is folded an execution.                            *)
LEMMA StepExecutes == IInv /\ Executed /\ [Next]_vars => Executed'
  <1> SUFFICES ASSUME IInv, Executed, [Next]_vars PROVE Executed'
    OBVIOUS
  <1>1. CASE FoldBlock
    BY <1>1, FoldExecutes, StepKeeps DEF Next, Prove
  <1>2. CASE ~ FoldBlock
    <2>1. accumulator' = accumulator /\ prover'.ram = prover.ram
      <3>1. CASE Start \/ TakeFirst \/ TakeNext \/ Reject
        BY <3>1 DEF Start, TakeFirst, TakeNext, Reject, Fail, IInv, Shaped, ProverRecord
      <3>2. CASE Finish
        BY <3>2 DEF Finish, Nova!BuildFinalInstance, IInv, Shaped, ProverRecord
      <3>3. CASE EndOfBlocks \/ \E b \in Offered : Offer(b)
        BY <3>3 DEF EndOfBlocks, Offer
      <3>4. CASE Done \/ UNCHANGED vars
        BY <3>4 DEF Done, vars
      <3> QED  BY <1>2, <3>1, <3>2, <3>3, <3>4 DEF Next, Prove
    <2>2. /\ Folded' = Folded /\ Folded <= Len(blocks')
          /\ \A i \in 1 .. Folded : blocks'[i] = blocks[i]
      <3>1. Folded' = Folded
        BY <2>1 DEF Folded
      <3>2. blocks' = blocks \/ \E b \in Offered : blocks' = Append(blocks, b)
        <4>1. CASE Start \/ TakeFirst \/ TakeNext \/ Reject \/ Finish \/ EndOfBlocks
          BY <4>1 DEF Start, TakeFirst, TakeNext, Reject, Finish, EndOfBlocks, Fail
        <4>2. CASE \E b \in Offered : Offer(b)
          BY <4>2 DEF Offer
        <4>3. CASE Done \/ UNCHANGED vars
          BY <4>3 DEF Done, vars
        <4> QED  BY <1>2, <4>1, <4>2, <4>3 DEF Next, Prove
      <3>3. Folded \in Nat /\ Folded <= Len(blocks) /\ blocks \in Seq(Offered)
        BY DEF IInv, Shaped, Executed
      <3> QED  BY <3>1, <3>2, <3>3
    <2>3. FoldedRows' = FoldedRows
      <3>1. [i \in 1 .. Folded |-> blocks[i].cycles]'
               = [i \in 1 .. Folded |-> blocks[i].cycles]
        BY <2>2
      <3> QED  BY <3>1 DEF FoldedRows
    <2>4. Folded # 0 => 1 \in 1 .. Folded /\ Folded \in 1 .. Folded
      BY DEF IInv, Shaped
    <2> QED  BY <2>1, <2>2, <2>3, <2>4 DEF Executed
  <1> QED  BY <1>1, <1>2

(* What is folded when the loop proves is the execution promised.           *)
LEMMA ExecutedProves == IInv /\ Executed => ProvedIsExecution
  <1> SUFFICES ASSUME IInv, Executed, prover.outcome = "Proved"
               PROVE  ProvedIsExecution
    BY DEF ProvedIsExecution
  <1>1. Len(blocks) = Folded /\ Folded # 0 /\ Folded \in Nat /\ blocks \in Seq(Offered)
    BY DEF IInv, Outcome, Shaped
  <1>2. \A i \in 1 .. Folded : BlockHolds(i)
    BY DEF IInv, FoldedHold
  <1>3. FoldedRows \in Seq(RowSet)
    BY <1>1, RowsTyped DEF IInv
  <1>4. Last(FoldedRows).jump
    <2> DEFINE b == blocks[Folded]
    <2>1. BlockHolds(Folded) /\ Following(Folded) = None
      BY <1>1, <1>2 DEF Following
    <2>2. b.endState.terminated /\ CpuHolds(b, Lookahead(b, None)) /\ ShapeHolds(b)
      BY <1>1, <2>1 DEF BlockHolds
    <2>3. b.cycles # <<>>
      BY <2>2 DEF ShapeHolds
    <2>4. Lookahead(b, None).kind = "noop"
      BY <2>2 DEF Lookahead
    <2>5. Last(b.cycles).jump
      BY <2>2, <2>3, <2>4 DEF CpuHolds
    <2> QED  BY <1>1, <2>5 DEF Executed
  <1>5. /\ \A i \in 1 .. (Len(FoldedRows) - 1) : FoldedRows[i + 1].at = FoldedRows[i].to
        /\ \A i \in DOMAIN FoldedRows :
              FoldedRows[i].reg # <<>> =>
                 FoldedRows[i].reg[1]
                    = RegisterAfter(FoldedRows, blocks[1].startState.x)[i - 1]
    BY <1>1, <1>3 DEF Executed, RowsHold
  <1>6. \A i \in DOMAIN blocks : blocks[i].endState.terminated <=> i = Len(blocks)
    BY <1>1, <1>2 DEF BlockHolds
  <1>7. FlattenSeq([i \in DOMAIN blocks |-> blocks[i].cycles]) = FoldedRows
    <2>1. DOMAIN blocks = 1 .. Folded
      BY <1>1
    <2> QED  BY <2>1, Zenon DEF FoldedRows
  <1>8. /\ accumulator.metadata.active = Len(FoldedRows)
        /\ RamFlows(<<>>, Accesses(FoldedRows))
        /\ accumulator.metadata.absorbed = Len(blocks)
    BY <1>1 DEF Executed, Folded
  <1> QED  BY <1>4, <1>5, <1>6, <1>7, <1>8, Zenon DEF ProvedIsExecution

(* For any iterator: what is proved is one execution, row after row, from  *)
(* the first to the jump of a terminated machine, with the register and    *)
(* every memory cell carried across the blocks.                            *)
THEOREM ProvedAlwaysExecution == Spec => []ProvedIsExecution
  <1>1. Init => Executed
    <2> SUFFICES ASSUME Init PROVE Executed
      OBVIOUS
    <2>1. Folded = 0 /\ accumulator.metadata.active = 0 /\ prover.ram = <<>>
      BY DEF Init, Nova!Init, Nova!EmptyAccumulator, Fresh, Folded
    <2>2. FoldedRows = <<>>
      <3>1. [i \in 1 .. Folded |-> blocks[i].cycles] = <<>>
        BY <2>1
      <3> QED  BY <3>1, FlattenNothing DEF FoldedRows
    <2>3. Accesses(FoldedRows) = <<>>
      <3>1. <<>> \in Seq({})
        OBVIOUS
      <3> QED  BY <2>2, <3>1, AccessesConcat
    <2>4. RamAfter(<<>>, <<>>) = <<>>
      <3> DEFINE t == RamAfter(<<>>, <<>>)
      <3>1. HoldsAfter(t, <<>>, <<>>)
        <4>1. <<>> \in Seq({})
          OBVIOUS
        <4> QED  BY <4>1, RamAfterCell
      <3> HIDE DEF t
      <3>2. DOMAIN t = {} /\ t = [k \in DOMAIN t |-> t[k]]
        BY <3>1 DEF HoldsAfter
      <3>3. t = [k \in {} |-> t[k]]
        BY <3>2
      <3> QED  BY <3>2, <3>3 DEF t
    <2>5. RamFlows(<<>>, <<>>)
      BY DEF RamFlows
    <2> QED  BY <2>1, <2>2, <2>3, <2>4, <2>5 DEF Executed
  <1> QED  BY <1>1, StepExecutes, ExecutedProves, InitIInv, StepKeeps, PTL DEF Spec
==============================================================================
