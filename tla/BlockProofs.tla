---------------------------- MODULE BlockProofs ----------------------------
(***************************************************************************)
(* Proofs about what is done with the blocks of a trace: about folding      *)
(* them, for every set of fold inputs, every field order and every family   *)
(* of claims, and about proving them one by one, for every program, word    *)
(* width, target size and set of inputs, and any number of faults.          *)
(*                                                                         *)
(* For the fold, the inductive invariant IInv ties the metadata and the     *)
(* public state z to the sequence of blocks that was folded; TypeOK,        *)
(* BooksAgree and ScheduleExact are parts of it, and the step to the        *)
(* abstract BlockChain follows from it.  For the bundles, the work is in    *)
(* joining: what the checks of two blocks and of their joint say together   *)
(* is what the checks of the two as one block say.                          *)
(***************************************************************************)
EXTENDS NovaFold, BlockBundles, FiniteSetTheorems, InductionLemmas

(* An accumulator is empty altogether or not at all. *)
AllOrNothing ==
    IF accumulator.metadata.absorbed = 0
    THEN accumulator = [metadata |-> EmptyAccumulator, snark |-> None,
                        z |-> None, setup |-> <<>>]
    ELSE /\ accumulator.metadata.program # None
         /\ accumulator.metadata.first # None
         /\ accumulator.metadata.cycleStart # None
         /\ accumulator.z \in ZState
         /\ accumulator.snark \in Snark /\ accumulator.snark.i # 0

Typed == TypeOK /\ AllOrNothing

(* What the metadata says of the ends of the chain it was built from. *)
Anchored ==
    folded # <<>> =>
        LET m    == accumulator.metadata
            head == folded[1]
            tail == folded[Len(folded)]
        IN  /\ m.program = tail.program
            /\ m.first = head.index /\ m.cycleStart = head.start
            /\ m.last = tail.index /\ m.cycleEnd = tail.end
            /\ m.latestState = tail.endState
            /\ m.latestRegister = tail.endRegister
            /\ m.receipt = head.receipt /\ m.opening = head.opening
            /\ m.challenge = Challenges(head)
            /\ m.target = ClosureTargets(head)
            /\ m.total = TotalBlocks(head)

IInv == Typed /\ BooksAgree /\ ScheduleExact /\ Anchored

(* What z looks like when a block is offered. *)
CurrentZ(in) == IF accumulator.z = None THEN InitialZ(in) ELSE accumulator.z

-----------------------------------------------------------------------------
(* The types of the fields of a fold input.                                 *)
LEMMA InputFields ==
    ASSUME NEW in \in Inputs
    PROVE  /\ in \in FoldInput
           /\ in.program \in Nat /\ in.index \in Nat /\ in.start \in Nat
           /\ in.end \in Nat /\ in.active \in Nat
           /\ in.startState \in Nat /\ in.endState \in Nat
           /\ in.startRegister \in Nat /\ in.endRegister \in Nat
           /\ in.program \in OptNat /\ in.index \in OptNat
           /\ in.start \in OptNat /\ in.end \in OptNat
           /\ in.startState \in OptNat /\ in.endState \in OptNat
           /\ in.startRegister \in OptNat /\ in.endRegister \in OptNat
           /\ in.receipt \in OptNat /\ in.opening \in OptNat
           /\ in.witness = None \/ in.witness \in Witness
           /\ Challenges(in) \in OptNat
           /\ ClosureTargets(in) \in Claims \cup {None}
           /\ TotalBlocks(in) \in Field \cup {None}
           /\ Shape(in) \in OptNat
           /\ in.program # None
           /\ TotalBlocks(in) = None <=> in.witness = None
  <1>1. in \in FoldInput
    BY InputsAssumption
  <1>2. in.witness \in Witness => /\ in.witness.count \in Field
                                  /\ in.witness.challenge \in Nat
                                  /\ in.witness.shape \in Nat
                                  /\ in.witness.target \in Claims
    BY DEF Witness, Claims
  <1>3. Field \subseteq Nat /\ None \notin Field
    BY FieldAssumption, NoneAssumption DEF Field
  <1> QED
    BY <1>1, <1>2, <1>3, NoneAssumption
    DEF FoldInput, OptNat, Challenges, ClosureTargets, TotalBlocks, Shape

(* What absorbing a block leaves in the metadata, field by field. *)
LEMMA AbsorbedFields ==
    ASSUME NEW acc \in Metadata, NEW in \in Inputs
    PROVE  LET next == Absorbed(acc, in)
               fresh == acc.program = None
           IN  /\ next \in Metadata
               /\ next.digest = Append(acc.digest, in)
               /\ next.absorbed = acc.absorbed + 1
               /\ next.last = in.index /\ next.cycleEnd = in.end
               /\ next.latestState = in.endState
               /\ next.latestRegister = in.endRegister
               /\ next.active = acc.active + in.active
               /\ next.program # None
               /\ (fresh \/ acc.first # None) => next.first # None
               /\ (fresh \/ acc.cycleStart # None) => next.cycleStart # None
               /\ ~fresh => /\ next.program = acc.program
                           /\ next.first = acc.first
                           /\ next.cycleStart = acc.cycleStart
                           /\ next.initialState = acc.initialState
                           /\ next.initialRegister = acc.initialRegister
                           /\ next.receipt = acc.receipt
                           /\ next.opening = acc.opening
                           /\ next.challenge = acc.challenge
                           /\ next.target = acc.target
                           /\ next.total = acc.total
               /\ fresh  => /\ next.program = in.program
                           /\ next.first = in.index
                           /\ next.cycleStart = in.start
                           /\ next.initialState = in.startState
                           /\ next.initialRegister = in.startRegister
                           /\ next.receipt = in.receipt
                           /\ next.opening = in.opening
                           /\ next.challenge = Challenges(in)
                           /\ next.target = ClosureTargets(in)
                           /\ next.total = TotalBlocks(in)
  <1>1. Append(acc.digest, in) \in Seq(Inputs)
    BY DEF Metadata
  <1>2. acc.absorbed + 1 \in Nat /\ acc.active + in.active \in Nat
    BY InputFields DEF Metadata
  <1>3. Absorbed(acc, in) \in Metadata
    <2>1. CASE acc.program = None
      BY <1>1, <1>2, <2>1, InputFields DEF Absorbed, Metadata
    <2>2. CASE acc.program # None
      BY <1>1, <1>2, <2>2, InputFields DEF Absorbed, Metadata
    <2> QED BY <2>1, <2>2
  <1>4. /\ acc.program = None => Absorbed(acc, in).program = in.program
        /\ acc.program # None => Absorbed(acc, in).program = acc.program
        /\ acc.program = None => /\ Absorbed(acc, in).first = in.index
                                 /\ Absorbed(acc, in).cycleStart = in.start
        /\ acc.program # None => /\ Absorbed(acc, in).first = acc.first
                                 /\ Absorbed(acc, in).cycleStart = acc.cycleStart
    BY DEF Absorbed
  <1>5. in.index # None /\ in.start # None
    BY InputFields, NoneAssumption
  <1> QED
    BY <1>3, <1>4, <1>5, InputFields DEF Absorbed

(* The state the step circuit leaves, field by field. *)
LEMMA NextZFields ==
    ASSUME NEW z \in ZState, NEW in \in Inputs
    PROVE  LET next == NextZ(z, in)
           IN  /\ next \in ZState
               /\ next.nextIndex = z.nextIndex + 1
               /\ next.active = z.active + in.active
               /\ next.program = z.program
               /\ next.nextCycle = in.end
               /\ next.machine = in.endState
               /\ next.register = in.endRegister
               /\ next.receipt = z.receipt /\ next.opening = z.opening
               /\ next.challenge = z.challenge /\ next.target = z.target
               /\ in.witness = None => next.remaining = z.remaining
               /\ in.witness # None => next.remaining = Dec(z.remaining)
  <1>1. AddClaims(z.claims, in) \in Claims
    <2>1. CASE in.witness = None
      BY <2>1 DEF AddClaims, ZState
    <2>2. CASE in.witness # None
      <3>1. in.witness.aggregate \in [ClaimKinds -> Field]
        BY <2>2, InputFields DEF Witness
      <3>2. ASSUME NEW k \in ClaimKinds
            PROVE  Plus(z.claims[k], in.witness.aggregate[k]) \in Field
        BY <3>1, FieldAssumption DEF ZState, Claims, Field, Plus
      <3> QED BY <2>2, <3>2 DEF AddClaims, Claims
    <2> QED BY <2>1, <2>2
  <1>2. Dec(z.remaining) \in Field
    BY FieldAssumption DEF ZState, Field, Dec
  <1>3. /\ z.nextIndex + 1 \in Nat
        /\ z.active + in.active \in Nat
    BY InputFields DEF ZState
  <1> QED
    BY <1>1, <1>2, <1>3, InputFields DEF NextZ, ZState

(* The first z is a state, and the metadata give the same one.              *)
LEMMA InitialZTyped ==
    ASSUME NEW in \in Inputs
    PROVE  /\ InitialZ(in) \in ZState
           /\ InitialZFromMetadata(Absorbed(EmptyAccumulator, in)) = InitialZ(in)
  <1>1. NoClaims \in Claims
    BY FieldAssumption DEF NoClaims, Claims, Field
  <1>2. OrZero(ClosureTargets(in)) \in Claims
    BY <1>1, InputFields DEF OrZero
  <1>3. (IF in.witness = None THEN 0 ELSE in.witness.count) \in Field
    BY InputFields, FieldAssumption DEF TotalBlocks, Field
  <1>4. InitialZ(in) \in ZState
    BY <1>1, <1>2, <1>3, InputFields DEF InitialZ, ZState
  <1> DEFINE next == Absorbed(EmptyAccumulator, in)
  <1>5. /\ next.first = in.index /\ next.program = in.program
        /\ next.cycleStart = in.start /\ next.initialState = in.startState
        /\ next.initialRegister = in.startRegister
        /\ next.receipt = in.receipt /\ next.opening = in.opening
        /\ next.challenge = Challenges(in) /\ next.target = ClosureTargets(in)
        /\ next.total = TotalBlocks(in)
    BY DEF Absorbed, EmptyAccumulator
  <1>6. (IF next.total = None THEN 0 ELSE next.total)
           = (IF in.witness = None THEN 0 ELSE in.witness.count)
    BY <1>5, InputFields DEF TotalBlocks
  <1> HIDE DEF next
  <1>7. InitialZFromMetadata(next) = InitialZ(in)
    BY <1>5, <1>6 DEF InitialZFromMetadata, InitialZ
  <1> QED
    BY <1>4, <1>7 DEF next

(* Everything an accepted absorb establishes. The SNARK that verifies      *)
(* after the step shows that the circuit held on the z before the step.    *)
LEMMA AbsorbStep ==
    ASSUME Typed, BooksAgree, NEW in \in Inputs, Absorb(in)
    PROVE  LET z == CurrentZ(in)
               m == accumulator.metadata
               s == accumulator'.snark
           IN  /\ z \in ZState
               /\ accumulator'.metadata = Absorbed(m, in)
               /\ accumulator'.z = NextZ(z, in)
               /\ accumulator'.setup = <<Shape(in)>>
               /\ accumulator' = [metadata |-> accumulator'.metadata,
                     snark |-> s, z |-> accumulator'.z,
                     setup |-> accumulator'.setup]
               /\ Accepts(m, in)
               /\ CircuitSatisfied(z, in)
               /\ s \in Snark
               /\ s.zi = NextZ(z, in)
               /\ s.i = Absorbed(m, in).absorbed
               /\ s.z0 = InitialZFromMetadata(Absorbed(m, in))
               /\ s.satisfied
               /\ instance' = instance
  <1> DEFINE m == accumulator.metadata
             z == CurrentZ(in)
             next == Absorbed(m, in)
             z0 == InitialZFromMetadata(next)
             base == IF accumulator.snark = None THEN NewSnark(in, z0)
                                                 ELSE accumulator.snark
             s == ProveStep(base, in)
  <1>1. /\ accumulator' = [metadata |-> next, snark |-> s,
                           z |-> NextZ(z, in), setup |-> <<Shape(in)>>]
        /\ Accepts(m, in)
        /\ StepInputValid(z, in)
        /\ SnarkVerifies(s, Shape(in), next.absorbed, z0)
        /\ s.zi = NextZ(z, in)
        /\ instance' = instance
    BY DEF Absorb, CurrentZ
  <1>2. s.i = next.absorbed /\ s.z0 = z0 /\ s.satisfied
    BY <1>1 DEF SnarkVerifies
  <1>3. z \in ZState /\ s \in Snark /\ CircuitSatisfied(z, in)
    <2>1. CASE m.absorbed = 0
      <3>1. /\ m = EmptyAccumulator /\ accumulator.snark = None
            /\ accumulator.z = None
        BY <2>1 DEF Typed, AllOrNothing
      <3>2. z = InitialZ(in) /\ z0 = z /\ z \in ZState
        BY <3>1, InitialZTyped DEF CurrentZ
      <3>3. base = NewSnark(in, z)
        BY <3>1, <3>2
      <3> HIDE DEF z, z0, next
      <3>4. s = [params |-> Shape(in), z0 |-> z, i |-> 1, zi |-> NextZ(z, in),
                 satisfied |-> CircuitSatisfied(z, in)]
        BY <3>3 DEF NewSnark, ProveStep
      <3>5. CircuitSatisfied(z, in) \in BOOLEAN
        BY DEF CircuitSatisfied
      <3>6. s \in Snark
        BY <3>2, <3>4, <3>5, InputFields, NextZFields DEF Snark
      <3>7. s.satisfied = CircuitSatisfied(z, in)
        BY <3>4
      <3> QED
        BY <1>2, <3>2, <3>6, <3>7
    <2>2. CASE m.absorbed # 0
      <3>1. /\ accumulator.snark \in Snark /\ accumulator.z \in ZState
            /\ accumulator.snark.i # 0
        BY <2>2 DEF Typed, AllOrNothing
      <3>2. accumulator.z # None /\ accumulator.snark # None
        BY <3>1, NoneAssumption
      <3>3. z = accumulator.z /\ base = accumulator.snark
        BY <3>2 DEF CurrentZ
      <3>4. base \in Snark /\ base.i # 0 /\ base.zi = z /\ base.satisfied
        BY <3>1, <3>2, <3>3 DEF BooksAgree
      <3> HIDE DEF z, z0, next, base
      <3>5. s = [params |-> base.params, z0 |-> base.z0, i |-> base.i + 1,
                 zi |-> NextZ(z, in),
                 satisfied |-> base.satisfied /\ CircuitSatisfied(z, in)]
        BY <3>4 DEF ProveStep
      <3>6. z \in ZState /\ NextZ(z, in) \in ZState /\ base.i + 1 \in Nat
        BY <3>1, <3>3, <3>4, NextZFields DEF Snark
      <3>7. s \in Snark
        BY <3>4, <3>5, <3>6 DEF Snark
      <3>8. s.satisfied = (base.satisfied /\ CircuitSatisfied(z, in))
        BY <3>4, <3>5 DEF Snark
      <3>9. CircuitSatisfied(z, in)
        BY <1>2, <3>8
      <3> QED
        BY <3>6, <3>7, <3>9
    <2> QED BY <2>1, <2>2
  <1> QED
    BY <1>1, <1>2, <1>3 DEF CurrentZ

-----------------------------------------------------------------------------
(* Each part of the invariant is preserved by an accepted absorb.          *)

(* An absorb that succeeds keeps the types.                                 *)
LEMMA AbsorbTyped ==
    ASSUME Typed, BooksAgree, NEW in \in Inputs, Absorb(in)
    PROVE  Typed'
  <1> DEFINE m == accumulator.metadata
             z == CurrentZ(in)
             next == Absorbed(m, in)
  <1>1. m \in Metadata /\ m.absorbed = Len(m.digest)
    BY DEF Typed, TypeOK, folded
  <1>2. /\ next \in Metadata /\ next.program # None
        /\ next.digest = Append(m.digest, in)
        /\ next.absorbed = m.absorbed + 1
        /\ next.first # None /\ next.cycleStart # None
    <2>1. m.program # None => m.first # None /\ m.cycleStart # None
      BY DEF Typed, AllOrNothing, EmptyAccumulator
    <2> QED BY <1>1, <2>1, AbsorbedFields
  <1>3. next.absorbed = Len(next.digest) /\ next.absorbed # 0
    BY <1>1, <1>2 DEF Metadata
  <1>4. NextZ(z, in) \in ZState
    BY AbsorbStep, NextZFields
  <1>5. <<Shape(in)>> \in Seq(OptNat)
    BY InputFields
  <1>6. accumulator' = [metadata |-> next, snark |-> accumulator'.snark,
                        z |-> NextZ(z, in), setup |-> <<Shape(in)>>]
    BY AbsorbStep
  <1>7. /\ accumulator'.snark \in Snark /\ instance' = instance
        /\ accumulator'.snark.i = next.absorbed
    BY AbsorbStep
  <1> DEFINE sn == accumulator'.snark
             nz == NextZ(z, in)
             se == <<Shape(in)>>
  <1> HIDE DEF m, z, next, sn, nz, se
  <1>8. TypeOK'
    <2>1. accumulator' \in [metadata : Metadata, snark : Snark \cup {None},
                            z : ZState \cup {None}, setup : Seq(OptNat)]
      <3>1. accumulator' = [metadata |-> next, snark |-> sn, z |-> nz, setup |-> se]
        BY <1>6 DEF sn, nz, se
      <3>2. sn \in Snark /\ nz \in ZState /\ se \in Seq(OptNat)
        BY <1>4, <1>5, <1>7 DEF sn, nz, se
      <3> QED
        BY <1>2, <3>1, <3>2
    <2>2. accumulator'.metadata = next
      BY <1>6
    <2> QED
      BY <1>3, <1>7, <2>1, <2>2 DEF Typed, TypeOK, folded
  <1>9. AllOrNothing'
    BY <1>2, <1>3, <1>4, <1>6, <1>7 DEF AllOrNothing
  <1> QED
    BY <1>8, <1>9 DEF Typed

(* An absorb keeps metadata, z and SNARK in agreement.                      *)
LEMMA AbsorbBooks ==
    ASSUME Typed, BooksAgree, NEW in \in Inputs, Absorb(in)
    PROVE  BooksAgree'
  <1> DEFINE m == accumulator.metadata
             z == CurrentZ(in)
             next == Absorbed(m, in)
             nz == NextZ(z, in)
  <1>1. m \in Metadata /\ z \in ZState /\ CircuitSatisfied(z, in)
    BY AbsorbStep DEF Typed, TypeOK
  <1>2. /\ accumulator'.metadata = next /\ accumulator'.z = nz
        /\ accumulator'.snark.zi = nz
        /\ accumulator'.snark.i = next.absorbed
        /\ accumulator'.snark.z0 = InitialZFromMetadata(next)
        /\ accumulator'.snark.satisfied
    BY AbsorbStep
  <1>3. /\ z.nextIndex = in.index /\ z.nextCycle = in.start
        /\ in.start + in.active = in.end
        /\ z.program = in.program
        /\ z.receipt = in.receipt /\ z.opening = in.opening
    BY <1>1 DEF CircuitSatisfied, StepInputValid
  <1>4. /\ nz.nextIndex = z.nextIndex + 1 /\ nz.active = z.active + in.active
        /\ nz.program = z.program /\ nz.nextCycle = in.end
        /\ nz.machine = in.endState /\ nz.register = in.endRegister
        /\ nz.receipt = z.receipt /\ nz.opening = z.opening
        /\ nz.challenge = z.challenge /\ nz.target = z.target
    BY <1>1, NextZFields
  <1>5. /\ next.last = in.index /\ next.cycleEnd = in.end
        /\ next.latestState = in.endState
        /\ next.latestRegister = in.endRegister
        /\ next.active = m.active + in.active
        /\ next.absorbed = m.absorbed + 1
    BY <1>1, AbsorbedFields
  <1>6. /\ nz.program = next.program /\ nz.receipt = next.receipt
        /\ nz.opening = next.opening /\ nz.challenge = next.challenge
        /\ nz.target = OrZero(next.target)
        /\ nz.active = next.active
        /\ nz.nextIndex = next.first + next.absorbed
        /\ next.active = next.cycleEnd - next.cycleStart
    <2>1. CASE m.absorbed = 0
      <3>1. m = EmptyAccumulator /\ z = InitialZ(in)
        BY <2>1 DEF Typed, AllOrNothing, CurrentZ
      <3>2. m.program = None /\ m.active = 0
        BY <3>1 DEF EmptyAccumulator
      <3>3. /\ next.program = in.program /\ next.receipt = in.receipt
            /\ next.opening = in.opening
            /\ next.challenge = Challenges(in)
            /\ next.target = ClosureTargets(in)
            /\ next.first = in.index /\ next.cycleStart = in.start
        BY <1>1, <3>2, AbsorbedFields
      <3>4. /\ z.challenge = Challenges(in) /\ z.active = 0
            /\ z.target = OrZero(ClosureTargets(in))
        BY <3>1 DEF InitialZ
      <3> HIDE DEF m, z, next, nz
      <3> QED
        BY <1>3, <1>4, <1>5, <2>1, <3>2, <3>3, <3>4, InputFields
    <2>2. CASE m.absorbed # 0
      <3>1. m.program # None /\ accumulator.z \in ZState
        BY <2>2 DEF Typed, AllOrNothing
      <3>2. accumulator.z # None /\ z = accumulator.z
        BY <3>1, NoneAssumption DEF CurrentZ
      <3>3. /\ z.nextIndex = m.first + m.absorbed
            /\ z.nextCycle = m.cycleEnd /\ z.active = m.active
            /\ m.active = m.cycleEnd - m.cycleStart
            /\ z.program = m.program
            /\ z.receipt = m.receipt /\ z.opening = m.opening
            /\ z.challenge = m.challenge /\ z.target = OrZero(m.target)
            /\ z.nextIndex = m.last + 1
        BY <3>2 DEF BooksAgree
      <3>4. /\ next.program = m.program /\ next.receipt = m.receipt
            /\ next.opening = m.opening /\ next.challenge = m.challenge
            /\ next.target = m.target /\ next.first = m.first
            /\ next.cycleStart = m.cycleStart
        BY <1>1, <3>1, AbsorbedFields
      <3>5. m.first \in OptNat /\ m.cycleStart \in OptNat /\ m.absorbed \in Nat
        BY <1>1 DEF Metadata
      <3>6. m.first # None /\ m.cycleStart # None
        BY <2>2 DEF Typed, AllOrNothing
      <3> HIDE DEF m, z, next, nz
      <3> QED
        <4>1. m.first \in Nat /\ m.cycleStart \in Nat
          BY <3>5, <3>6 DEF OptNat
        <4>2. nz.active = next.active /\ next.active = in.end - next.cycleStart
          <5>1. m.active = in.start - m.cycleStart
            BY <1>3, <3>3
          <5>2. nz.active = next.active /\ next.active = m.active + in.active
            BY <1>4, <1>5, <3>3
          <5>3. (in.start - m.cycleStart) + in.active = in.end - m.cycleStart
            BY <1>3, <4>1, InputFields
          <5> QED
            BY <5>1, <5>2, <5>3, <3>4
        <4>3. nz.nextIndex = next.first + next.absorbed
          BY <1>4, <1>5, <3>3, <3>4, <3>5, <4>1
        <4> QED
          BY <1>4, <1>5, <3>3, <3>4, <4>2, <4>3
    <2> QED BY <2>1, <2>2
  <1>7. nz.nextIndex = next.last + 1 /\ nz.nextCycle = next.cycleEnd
        /\ nz.machine = next.latestState /\ nz.register = next.latestRegister
    BY <1>3, <1>4, <1>5
  <1> HIDE DEF m, z, next, nz
  <1> QED
    BY <1>2, <1>6, <1>7 DEF BooksAgree

(* The schedule seen by the block that is offered: what z has remaining    *)
(* and what was folded add up to the count its witness announces.          *)
LEMMA CurrentSchedule ==
    ASSUME Typed, BooksAgree, ScheduleExact, NEW in \in Inputs, Absorb(in)
    PROVE  /\ Len(folded) \in Nat
           /\ CurrentZ(in).remaining \in Field
           /\ in.witness = None => CurrentZ(in).remaining = 0
           /\ in.witness # None =>
                 /\ CurrentZ(in).remaining # 0
                 /\ CurrentZ(in).remaining + Len(folded) = in.witness.count
                 /\ in.witness.position = Len(folded)
                 /\ in.witness.position < in.witness.count
  <1> DEFINE m == accumulator.metadata
             z == CurrentZ(in)
  <1>1. z \in ZState /\ CircuitSatisfied(z, in) /\ Accepts(m, in)
    BY AbsorbStep
  <1>2. m \in Metadata /\ m.absorbed = Len(folded) /\ Len(folded) \in Nat
    BY DEF Typed, TypeOK, folded, Metadata
  <1>3. z.remaining \in Field
    BY <1>1 DEF ZState
  <1>4. IF in.witness = None THEN z.remaining = 0
        ELSE z.remaining + Len(folded) = in.witness.count
    <2>1. CASE m.absorbed = 0
      <3>1. z = InitialZ(in) /\ Len(folded) = 0
        BY <1>2, <2>1 DEF Typed, AllOrNothing, CurrentZ
      <3>2. z.remaining = IF in.witness = None THEN 0 ELSE in.witness.count
        BY <3>1 DEF InitialZ
      <3>3. in.witness # None => in.witness.count \in Nat
        BY InputFields, FieldAssumption DEF TotalBlocks, Field
      <3> HIDE DEF z
      <3> QED BY <3>1, <3>2, <3>3
    <2>2. CASE m.absorbed # 0
      <3>1. m.program # None /\ accumulator.z \in ZState
        BY <2>2 DEF Typed, AllOrNothing
      <3>2. accumulator.z # None /\ z = accumulator.z
        BY <3>1, NoneAssumption DEF CurrentZ
      <3>3. TotalBlocks(in) = m.total
        BY <1>1, <3>1 DEF Accepts, Continues
      <3>4. IF m.total = None THEN z.remaining = 0
            ELSE z.remaining + Len(folded) = m.total
        BY <3>2 DEF ScheduleExact
      <3>5. m.total = None <=> in.witness = None
        BY <3>3, InputFields
      <3>6. in.witness # None => m.total = in.witness.count
        BY <3>3 DEF TotalBlocks
      <3> HIDE DEF z, m
      <3> QED BY <3>4, <3>5, <3>6
    <2> QED BY <2>1, <2>2
  <1>5. ASSUME in.witness # None
        PROVE  /\ z.remaining # 0
               /\ in.witness.position = Len(folded)
               /\ in.witness.position < in.witness.count
    <2>1. /\ z.remaining # 0
          /\ Plus(z.remaining, in.witness.position) = in.witness.count
      BY <1>1, <1>5 DEF CircuitSatisfied, ScheduleSatisfied
    <2>2. in.witness.position \in Field /\ in.witness.count \in Field
      BY <1>5, InputFields DEF Witness
    <2> HIDE DEF z
    <2> QED
      BY <1>2, <1>3, <1>4, <1>5, <2>1, <2>2, FieldAssumption DEF Plus, Field
  <1> QED
    BY <1>2, <1>3, <1>4, <1>5

(* An absorb counts the announced blocks down by one.                       *)
LEMMA AbsorbSchedule ==
    ASSUME Typed, BooksAgree, ScheduleExact, NEW in \in Inputs, Absorb(in)
    PROVE  ScheduleExact'
  <1> DEFINE m == accumulator.metadata
             z == CurrentZ(in)
             next == Absorbed(m, in)
             nz == NextZ(z, in)
  <1>1. m \in Metadata /\ z \in ZState /\ Accepts(m, in)
    BY AbsorbStep DEF Typed, TypeOK
  <1>2. /\ accumulator'.metadata = next /\ accumulator'.z = nz
        /\ next.digest = Append(m.digest, in)
    BY <1>1, AbsorbStep, AbsorbedFields
  <1>3. Len(folded') = Len(folded) + 1
    BY <1>1, <1>2 DEF folded, Metadata
  <1>4. next.total = TotalBlocks(in)
    <2>1. m.program = None => next.total = TotalBlocks(in)
      BY <1>1, AbsorbedFields
    <2>2. m.program # None => next.total = m.total /\ m.total = TotalBlocks(in)
      BY <1>1, AbsorbedFields DEF Accepts, Continues
    <2> QED BY <2>1, <2>2
  <1>5. CASE in.witness = None
    <2>1. nz.remaining = 0
      BY <1>1, <1>5, NextZFields, CurrentSchedule
    <2>2. next.total = None
      BY <1>4, <1>5, InputFields
    <2> HIDE DEF nz, next
    <2> QED BY <1>2, <2>1, <2>2 DEF ScheduleExact
  <1>6. CASE in.witness # None
    <2>1. /\ nz.remaining = Dec(z.remaining)
          /\ z.remaining # 0 /\ z.remaining \in Field
          /\ z.remaining + Len(folded) = in.witness.count
          /\ Len(folded) \in Nat
      BY <1>1, <1>6, NextZFields, CurrentSchedule
    <2>2. next.total = in.witness.count /\ next.total # None
      BY <1>4, <1>6, InputFields DEF TotalBlocks
    <2> HIDE DEF nz, next, z
    <2>3. nz.remaining + Len(folded') = next.total
      BY <1>3, <2>1, <2>2, FieldAssumption DEF Dec, Field
    <2> QED BY <1>2, <2>2, <2>3 DEF ScheduleExact
  <1> QED BY <1>5, <1>6

(* An absorb leaves the first and the last block where the metadata say.    *)
LEMMA AbsorbAnchored ==
    ASSUME Typed, BooksAgree, Anchored, NEW in \in Inputs, Absorb(in)
    PROVE  Anchored'
  <1> DEFINE m == accumulator.metadata
             next == Absorbed(m, in)
  <1>1. m \in Metadata /\ Accepts(m, in) /\ m.absorbed = Len(folded)
    BY AbsorbStep DEF Typed, TypeOK
  <1>2. accumulator'.metadata = next /\ folded' = Append(folded, in)
    BY <1>1, AbsorbStep, AbsorbedFields DEF folded
  <1>3. folded \in Seq(Inputs)
    BY <1>1 DEF folded, Metadata
  <1>4. /\ folded'[Len(folded')] = in
        /\ folded # <<>> => folded'[1] = folded[1]
        /\ folded = <<>> => folded'[1] = in
    BY <1>2, <1>3
  <1>5. /\ next.last = in.index /\ next.cycleEnd = in.end
        /\ next.latestState = in.endState
        /\ next.latestRegister = in.endRegister
    BY <1>1, AbsorbedFields
  <1>6. CASE folded = <<>>
    <2>1. m.program = None
      BY <1>1, <1>6 DEF Typed, AllOrNothing, EmptyAccumulator
    <2>2. /\ next.program = in.program
          /\ next.first = in.index /\ next.cycleStart = in.start
          /\ next.receipt = in.receipt /\ next.opening = in.opening
          /\ next.challenge = Challenges(in)
          /\ next.target = ClosureTargets(in)
          /\ next.total = TotalBlocks(in)
      BY <1>1, <2>1, AbsorbedFields
    <2> HIDE DEF m, next
    <2> QED BY <1>2, <1>4, <1>5, <1>6, <2>2 DEF Anchored
  <1>7. CASE folded # <<>>
    <2>1. m.program # None
      <3>1. Len(folded) # 0
        BY <1>3, <1>7
      <3> QED BY <1>1, <3>1 DEF Typed, AllOrNothing
    <2>2. /\ next.program = m.program
          /\ next.first = m.first /\ next.cycleStart = m.cycleStart
          /\ next.receipt = m.receipt /\ next.opening = m.opening
          /\ next.challenge = m.challenge
          /\ next.target = m.target /\ next.total = m.total
      BY <1>1, <2>1, AbsorbedFields
    <2>3. m.program = in.program
      BY <1>1, <2>1 DEF Accepts, Continues
    <2>4. /\ m.first = folded[1].index /\ m.cycleStart = folded[1].start
          /\ m.receipt = folded[1].receipt /\ m.opening = folded[1].opening
          /\ m.challenge = Challenges(folded[1])
          /\ m.target = ClosureTargets(folded[1])
          /\ m.total = TotalBlocks(folded[1])
      BY <1>7 DEF Anchored
    <2> HIDE DEF m, next
    <2> QED BY <1>2, <1>4, <1>5, <1>7, <2>2, <2>3, <2>4 DEF Anchored
  <1> QED BY <1>6, <1>7

-----------------------------------------------------------------------------
(* The empty accumulator satisfies the invariant.                           *)
LEMMA InitInv == Init => IInv
  <1> SUFFICES ASSUME Init PROVE IInv
    OBVIOUS
  <1>1. EmptyAccumulator \in Metadata
    BY DEF EmptyAccumulator, Metadata, OptNat
  <1>2. /\ accumulator = [metadata |-> EmptyAccumulator, snark |-> None,
                          z |-> None, setup |-> <<>>]
        /\ instance = None
    BY DEF Init
  <1>3. EmptyAccumulator.absorbed = 0 /\ EmptyAccumulator.digest = <<>>
    BY DEF EmptyAccumulator
  <1>4. accumulator.metadata = EmptyAccumulator /\ folded = <<>>
    BY <1>2, <1>3 DEF folded
  <1>5. Typed
    BY <1>1, <1>2, <1>3, <1>4 DEF Typed, TypeOK, AllOrNothing
  <1> QED
    BY <1>2, <1>4, <1>5 DEF IInv, BooksAgree, ScheduleExact, Anchored

(* An instance that is built has its type.                                  *)
LEMMA BuildTyped ==
    ASSUME Typed, BuildFinalInstance
    PROVE  Typed' /\ accumulator' = accumulator
  <1>1. accumulator.metadata \in Metadata /\ accumulator.z \in ZState
    BY DEF BuildFinalInstance, Typed, TypeOK
  <1>2. instance' \in FinalInstance /\ accumulator' = accumulator
    BY <1>1 DEF BuildFinalInstance, FinalInstance
  <1> QED
    BY <1>2 DEF Typed, TypeOK, AllOrNothing, folded

(* Every step keeps the invariant.                                          *)
LEMMA StepInv == IInv /\ [Next]_vars => IInv'
  <1> SUFFICES ASSUME IInv, [Next]_vars PROVE IInv'
    OBVIOUS
  <1>1. ASSUME NEW in \in Inputs, Absorb(in) PROVE IInv'
    BY <1>1, AbsorbTyped, AbsorbBooks, AbsorbSchedule, AbsorbAnchored DEF IInv
  <1>2. CASE BuildFinalInstance
    BY <1>2, BuildTyped
    DEF IInv, BooksAgree, ScheduleExact, Anchored, folded
  <1>3. CASE UNCHANGED vars
    BY <1>3 DEF vars, IInv, Typed, TypeOK, AllOrNothing, BooksAgree,
                ScheduleExact, Anchored, folded
  <1> QED
    BY <1>1, <1>2, <1>3 DEF Next

(* The invariant holds in every reachable state.                            *)
LEMMA Invariance == Spec => []IInv
  <1> QED BY InitInv, StepInv, PTL DEF Spec

(* The accumulator and the published instance always have their type.      *)
THEOREM TypeCorrect == Spec => []TypeOK
  <1>1. IInv => TypeOK
    BY DEF IInv, Typed
  <1> QED BY <1>1, Invariance, PTL

(* For any inputs, the metadata, the circuit's public state and the        *)
(* recursive SNARK describe the same chain of blocks after every absorb.   *)
THEOREM BooksAlwaysAgree == Spec => []BooksAgree
  <1>1. IInv => BooksAgree
    BY DEF IInv
  <1> QED BY <1>1, Invariance, PTL

(* For any inputs and any field order, the remaining-block word of z       *)
(* counts down without wrapping, one announced block at a time.            *)
THEOREM ScheduleAlwaysExact == Spec => []ScheduleExact
  <1>1. IInv => ScheduleExact
    BY DEF IInv
  <1> QED BY <1>1, Invariance, PTL

-----------------------------------------------------------------------------
(* The backend implements the abstract chain.                              *)

publishedChain == IF instance = None THEN <<>> ELSE instance.metadata.digest

(* An absorb is a step of the abstract chain.                               *)
LEMMA AbsorbExtends ==
    ASSUME IInv, NEW in \in Inputs, Absorb(in)
    PROVE  Chain!Extend(in)
  <1> DEFINE m == accumulator.metadata
             z == CurrentZ(in)
  <1> USE DEF IInv
  <1>1. /\ m \in Metadata /\ Accepts(m, in) /\ m.absorbed = Len(folded)
        /\ CircuitSatisfied(z, in) /\ instance' = instance
    BY AbsorbStep DEF Typed, TypeOK
  <1>2. folded' = Append(folded, in)
    BY <1>1, AbsorbStep, AbsorbedFields DEF folded
  <1>3. in.end = in.start + in.active
    BY <1>1 DEF CircuitSatisfied, StepInputValid
  <1>4. in.witness # None => /\ in.witness.position = Len(folded)
                             /\ in.witness.position < in.witness.count
    BY CurrentSchedule
  <1>5. ASSUME folded # <<>>
        PROVE  /\ Chain!Follows(folded[Len(folded)], in)
               /\ Chain!SameProof(folded[1], in)
    <2> DEFINE head == folded[1]
               tail == folded[Len(folded)]
    <2>1. folded \in Seq(Inputs) /\ Len(folded) # 0
      BY <1>1, <1>5 DEF folded, Metadata
    <2>2. head \in Inputs
      BY <2>1
    <2>3. m.program # None
      BY <1>1, <2>1 DEF Typed, AllOrNothing
    <2>4. Continues(m, in)
      BY <1>1, <2>3 DEF Accepts
    <2>5. /\ m.program = tail.program
          /\ m.last = tail.index /\ m.cycleEnd = tail.end
          /\ m.latestState = tail.endState
          /\ m.latestRegister = tail.endRegister
          /\ m.receipt = head.receipt /\ m.opening = head.opening
          /\ m.challenge = Challenges(head)
          /\ m.target = ClosureTargets(head)
          /\ m.total = TotalBlocks(head)
      BY <1>5 DEF Anchored
    <2> HIDE DEF m, z, head, tail
    <2>6. Chain!Follows(tail, in)
      BY <2>4, <2>5 DEF Continues, Chain!Follows
    <2>7. /\ Challenges(in) = Challenges(head)
          /\ ClosureTargets(in) = ClosureTargets(head)
          /\ TotalBlocks(in) = TotalBlocks(head)
          /\ in.receipt = head.receipt /\ in.opening = head.opening
      BY <2>4, <2>5 DEF Continues
    <2>8. in.witness = None <=> head.witness = None
      BY <2>2, <2>7, InputFields
    <2>9. Chain!SameProof(head, in)
      <3>1. in.witness # None => /\ head.witness # None
                                 /\ in.witness.count = head.witness.count
                                 /\ in.witness.challenge = head.witness.challenge
                                 /\ in.witness.target = head.witness.target
        BY <2>7, <2>8 DEF Challenges, ClosureTargets, TotalBlocks
      <3> QED
        BY <2>7, <2>8, <3>1 DEF Chain!SameProof
    <2> QED
      BY <2>6, <2>9 DEF head, tail
  <1>6. publishedChain' = publishedChain
    BY <1>1 DEF publishedChain
  <1> QED
    BY <1>2, <1>3, <1>4, <1>5, <1>6 DEF Chain!Extend, publishedChain

(* A published instance is a published chain.                               *)
LEMMA BuildPublishes ==
    ASSUME IInv, BuildFinalInstance
    PROVE  Chain!Publish
  <1> DEFINE m == accumulator.metadata
  <1> USE DEF IInv
  <1>1. /\ m \in Metadata /\ m.absorbed = Len(folded) /\ m.absorbed # 0
        /\ FinalClosure(accumulator)
        /\ instance' = [metadata |-> m, z |-> accumulator.z]
        /\ accumulator' = accumulator
    BY DEF BuildFinalInstance, Typed, TypeOK
  <1>2. folded \in Seq(Inputs) /\ folded # <<>> /\ folded[1] \in Inputs
    <2>1. folded \in Seq(Inputs) /\ Len(folded) # 0
      BY <1>1 DEF folded, Metadata
    <2> QED BY <2>1
  <1>3. folded[1].witness # None => Len(folded) = folded[1].witness.count
    <2>1. m.total = TotalBlocks(folded[1])
      BY <1>2 DEF Anchored
    <2>2. m.total # None => m.total = m.absorbed
      BY <1>1 DEF FinalClosure
    <2>3. TotalBlocks(folded[1]) = None <=> folded[1].witness = None
      BY <1>2, InputFields
    <2> QED BY <1>1, <2>1, <2>2, <2>3 DEF TotalBlocks
  <1>4. Chain!Complete(folded)
    BY <1>2, <1>3 DEF Chain!Complete
  <1>5. publishedChain' = folded
    <2>1. instance' \in FinalInstance
      BY <1>1 DEF BuildFinalInstance, Typed, TypeOK, FinalInstance
    <2>2. instance' # None
      BY <2>1, NoneAssumption
    <2> QED BY <1>1, <2>2 DEF publishedChain, folded
  <1> QED
    BY <1>1, <1>4, <1>5 DEF Chain!Publish, publishedChain, folded

(* Every behaviour of the backend, whatever inputs it is offered, is a     *)
(* behaviour of the abstract chain: only the next block of the same        *)
(* execution is folded, and only a complete fold is published.             *)
THEOREM Refinement == Spec => ImplementsBlockChain
  <1>1. Init => Chain!Init
    BY DEF Init, Chain!Init, folded, EmptyAccumulator
  <1>2. IInv /\ [Next]_vars => [Chain!Next]_(Chain!vars)
    <2> SUFFICES ASSUME IInv, [Next]_vars PROVE [Chain!Next]_(Chain!vars)
      OBVIOUS
    <2>1. ASSUME NEW in \in Inputs, Absorb(in) PROVE Chain!Next
      BY <2>1, AbsorbExtends DEF Chain!Next
    <2>2. CASE BuildFinalInstance
      BY <2>2, BuildPublishes DEF Chain!Next
    <2>3. CASE UNCHANGED vars
      BY <2>3 DEF vars, Chain!vars, folded
    <2> QED
      BY <2>1, <2>2, <2>3 DEF Next
  <1> QED
    BY <1>1, <1>2, Invariance, PTL DEF Spec, Chain!Spec, ImplementsBlockChain
-----------------------------------------------------------------------------
(* The claims that z carries are the contributions of the folded blocks.   *)

(* Quotient and remainder of a number by the order of the field.            *)
LEMMA Division ==
    ASSUME NEW F \in Nat, F > 1, NEW s \in Nat
    PROVE  s = (s \div F) * F + (s % F) /\ s \div F \in Nat /\ s % F \in 0..(F - 1)
  OBVIOUS

(* A smaller number is what remains of it and any multiple.                 *)
LEMMA Remainder ==
    ASSUME NEW F \in Nat, F > 1, NEW q \in Nat, NEW r \in 0..(F - 1)
    PROVE  (q * F + r) % F = r
  OBVIOUS

(* Field addition is addition modulo the order of the field.               *)
LEMMA PlusIsModular ==
    ASSUME NEW s \in Nat, NEW b \in Field
    PROVE  Plus(s % FieldOrder, b) = (s + b) % FieldOrder
  <1> DEFINE F == FieldOrder
  <1>0. F \in Nat /\ F > 1 /\ b \in 0..(F - 1)
    BY FieldAssumption DEF Field
  <1>1. PICK q \in Nat, r \in 0..(F - 1) : s = q * F + r /\ r = s % F
    BY <1>0, Division
  <1> HIDE DEF F
  <1>2. CASE r + b < F
    <2>1. s + b = q * F + (r + b) /\ r + b \in 0..(F - 1)
      BY <1>0, <1>1, <1>2
    <2>2. (q * F + (r + b)) % F = r + b
      BY <1>0, <2>1, Remainder
    <2> QED  BY <1>1, <1>2, <2>1, <2>2 DEF Plus, F
  <1>3. CASE ~(r + b < F)
    <2>1. s + b = (q + 1) * F + (r + b - F)
      BY <1>0, <1>1
    <2>2. q + 1 \in Nat /\ r + b - F \in 0..(F - 1)
      BY <1>0, <1>3
    <2>3. ((q + 1) * F + (r + b - F)) % F = r + b - F
      BY <1>0, <2>2, Remainder
    <2> QED  BY <1>1, <1>3, <2>1, <2>3 DEF Plus, F
  <1> QED  BY <1>2, <1>3

(* Blocks that all carry an opening witness.                               *)
Witnessed(c) == \A i \in 1..Len(c) : c[i].witness # None

(* f holds the contributions of the prefixes of c to claim k.              *)
SumsUp(f, c, k) ==
    /\ f \in [0..Len(c) -> Nat]
    /\ f[0] = 0
    /\ \A n \in 1..Len(c) : f[n] = f[n - 1] + c[n].witness.aggregate[k]
    /\ f[Len(c)] = Contributed(c, k)

(* Contributed is the recursion that adds block after block.                *)
LEMMA ContributedSums ==
    ASSUME NEW c \in Seq(Inputs), Witnessed(c), NEW k \in ClaimKinds
    PROVE  \E f : SumsUp(f, c, k)
  <1>0. PICK L \in Nat : L = Len(c)
    OBVIOUS
  <1> DEFINE Def(v, n) == v + c[n].witness.aggregate[k]
             step == [n \in 1..L |-> [v \in Nat |-> Def(v, n)]]
  <1>1. \A n \in 1..L : c[n].witness.aggregate[k] \in Nat
    <2> SUFFICES ASSUME NEW n \in 1..L
                 PROVE  c[n].witness.aggregate[k] \in Nat
      OBVIOUS
    <2>1. c[n] \in Inputs /\ c[n].witness # None
      BY <1>0 DEF Witnessed
    <2>2. c[n].witness.aggregate \in [ClaimKinds -> Field]
      BY <2>1, InputFields DEF Witness
    <2> QED  BY <2>2, FieldAssumption DEF Field
  <1>2. \A n \in 1..L : \A v \in Nat : Def(v, n) \in Nat
    BY <1>1
  <1> HIDE DEF Def
  <1>3. /\ StepsWithin(step, L, Nat)
        /\ \A n \in 1..L : \A v \in Nat : step[n][v] = Def(v, n)
    BY <1>2 DEF StepsWithin
  <1> HIDE DEF step
  <1>4. PICK f \in [0..L -> Nat] : Iterates(f, L, 0, step)
    BY <1>3, RecursionExists
  <1>5. f[0] = 0 /\ \A n \in 1..L : f[n] = Def(f[n - 1], n)
    <2>1. f[0] = 0
      BY <1>4 DEF Iterates
    <2>2. ASSUME NEW n \in 1..L
          PROVE  f[n] = Def(f[n - 1], n)
      <3>1. f[n] = step[n][f[n - 1]]
        BY <1>4 DEF Iterates
      <3>2. f[n - 1] \in Nat
        BY <1>4
      <3> QED  BY <1>3, <3>1, <3>2
    <2> QED  BY <2>1, <2>2
  <1> DEFINE G(h) == h = [n \in 0..L |-> IF n = 0 THEN 0 ELSE Def(h[n - 1], n)]
             s == CHOOSE h : G(h)
  <1>6. G(f)
    <2>1. \A n \in 0..L : f[n] = IF n = 0 THEN 0 ELSE Def(f[n - 1], n)
      BY <1>5
    <2> QED  BY <1>4, <2>1
  <1>7. G(s)
    <2> HIDE DEF G
    <2> QED  BY <1>6, Zenon
  <1>8. Contributed(c, k) = s[L]
    BY <1>0, Zenon DEF Contributed, Def
  <1>9. /\ s[0] = 0
        /\ \A n \in 1..L : s[n] = Def(s[n - 1], n)
    <2> HIDE DEF s
    <2> QED  BY <1>7
  <1> HIDE DEF s
  <1>10. GoOnAlike(f, s, L)
    BY <1>5, <1>9 DEF GoOnAlike
  <1>11. f[L] = s[L]
    BY <1>10, RecursionUnique
  <1> QED  BY <1>0, <1>4, <1>5, <1>8, <1>11 DEF SumsUp, Def

(* No block contributes nothing.                                            *)
LEMMA ContributedNothing ==
    ASSUME NEW k \in ClaimKinds
    PROVE  Contributed(<<>>, k) = 0
  <1>1. PICK f : SumsUp(f, <<>>, k)
    <2>1. <<>> \in Seq(Inputs) /\ Witnessed(<<>>)
      BY DEF Witnessed
    <2> QED  BY <2>1, ContributedSums
  <1> QED  BY <1>1 DEF SumsUp

(* A further block adds its own contribution.                               *)
LEMMA ContributedAppend ==
    ASSUME NEW c \in Seq(Inputs), NEW in \in Inputs, NEW k \in ClaimKinds,
           Witnessed(c), in.witness # None
    PROVE  /\ Contributed(c, k) \in Nat
           /\ Contributed(Append(c, in), k)
                 = Contributed(c, k) + in.witness.aggregate[k]
  <1>0. PICK L \in Nat : L = Len(c)
    OBVIOUS
  <1> DEFINE d == Append(c, in)
  <1>1. /\ d \in Seq(Inputs) /\ Len(d) = L + 1
        /\ \A n \in 1..L : d[n] = c[n]
        /\ d[L + 1] = in
    BY <1>0
  <1> HIDE DEF d
  <1>2. Witnessed(d)
    <2> SUFFICES ASSUME NEW n \in 1..(L + 1) PROVE d[n].witness # None
      BY <1>1 DEF Witnessed
    <2>1. CASE n = L + 1
      BY <1>1, <2>1
    <2>2. CASE n # L + 1
      BY <1>0, <1>1, <2>2 DEF Witnessed
    <2> QED  BY <2>1, <2>2
  <1>3. PICK f : SumsUp(f, c, k)
    BY ContributedSums
  <1>4. PICK g : SumsUp(g, d, k)
    BY <1>1, <1>2, ContributedSums
  <1>5. GoOnAlike(f, g, L)
    <2>1. f[0] = g[0]
      BY <1>3, <1>4 DEF SumsUp
    <2>2. ASSUME NEW n \in 1..L, f[n - 1] = g[n - 1]
          PROVE  f[n] = g[n]
      <3>1. f[n] = f[n - 1] + c[n].witness.aggregate[k]
        BY <1>0, <1>3 DEF SumsUp
      <3>2. g[n] = g[n - 1] + d[n].witness.aggregate[k]
        BY <1>1, <1>4 DEF SumsUp
      <3> QED  BY <1>1, <2>2, <3>1, <3>2
    <2> QED  BY <2>1, <2>2 DEF GoOnAlike
  <1>6. f[L] = g[L]
    BY <1>5, RecursionUnique
  <1>7. /\ Contributed(d, k) = g[L + 1]
        /\ g[L + 1] = g[(L + 1) - 1] + in.witness.aggregate[k]
    BY <1>0, <1>1, <1>4 DEF SumsUp
  <1>8. (L + 1) - 1 = L /\ f[L] = Contributed(c, k) /\ f[L] \in Nat
    BY <1>0, <1>3 DEF SumsUp
  <1> QED  BY <1>6, <1>7, <1>8 DEF d

(* A fold with a target was built from blocks that carry their witness, in *)
(* the order of their positions, and z has summed what they contribute.    *)
ClaimsTracked ==
    (accumulator.z # None /\ accumulator.metadata.target # None) =>
        /\ Witnessed(folded)
        /\ \A i \in 1..Len(folded) : folded[i].witness.position = i - 1
        /\ \A k \in ClaimKinds :
              accumulator.z.claims[k] = Contributed(folded, k) % FieldOrder

(* An absorb adds what the block contributes to the claims of z.            *)
LEMMA AbsorbClaims ==
    ASSUME IInv, ClaimsTracked, NEW in \in Inputs, Absorb(in)
    PROVE  ClaimsTracked'
  <1> DEFINE m == accumulator.metadata
             z == CurrentZ(in)
             next == Absorbed(m, in)
             nz == NextZ(z, in)
  <1> USE DEF IInv
  <1>1. /\ m \in Metadata /\ z \in ZState /\ Accepts(m, in)
        /\ m.absorbed = Len(folded)
    BY AbsorbStep DEF Typed, TypeOK
  <1>2. /\ accumulator'.metadata = next /\ accumulator'.z = nz
        /\ folded' = Append(folded, in) /\ folded \in Seq(Inputs)
    <2>1. accumulator'.metadata = next /\ accumulator'.z = nz
      BY AbsorbStep
    <2>2. next.digest = Append(m.digest, in) /\ m.digest \in Seq(Inputs)
      BY <1>1, AbsorbedFields DEF Metadata
    <2> QED  BY <2>1, <2>2 DEF folded
  <1> SUFFICES ASSUME next.target # None
               PROVE  /\ Witnessed(folded')
                      /\ \A i \in 1..Len(folded') : folded'[i].witness.position = i - 1
                      /\ \A k \in ClaimKinds :
                            nz.claims[k] = Contributed(folded', k) % FieldOrder
    BY <1>2 DEF ClaimsTracked
  <1>3. next.target = ClosureTargets(in)
    <2>1. m.program = None => next.target = ClosureTargets(in)
      BY <1>1, AbsorbedFields
    <2>2. m.program # None => next.target = m.target /\ m.target = ClosureTargets(in)
      BY <1>1, AbsorbedFields DEF Accepts, Continues
    <2> QED  BY <2>1, <2>2
  <1>4. /\ in.witness # None /\ in.witness \in Witness
        /\ in.witness.aggregate \in [ClaimKinds -> Field]
        /\ in.witness.position = Len(folded)
    <2>1. in.witness # None
      BY <1>3 DEF ClosureTargets
    <2> QED  BY <2>1, CurrentSchedule, InputFields DEF Witness
  <1>5. /\ Witnessed(folded)
        /\ \A i \in 1..Len(folded) : folded[i].witness.position = i - 1
        /\ \A k \in ClaimKinds : z.claims[k] = Contributed(folded, k) % FieldOrder
    <2>1. CASE m.absorbed = 0
      <3>1. folded = <<>> /\ z = InitialZ(in)
        BY <1>1, <2>1 DEF Typed, AllOrNothing, CurrentZ, EmptyAccumulator, folded
      <3>2. \A k \in ClaimKinds : z.claims[k] = 0
        BY <3>1 DEF InitialZ, NoClaims
      <3>3. 0 % FieldOrder = 0
        BY FieldAssumption
      <3> HIDE DEF z
      <3> QED  BY <3>1, <3>2, <3>3, ContributedNothing DEF Witnessed
    <2>2. CASE m.absorbed # 0
      <3>1. m.program # None /\ accumulator.z \in ZState
        BY <2>2 DEF Typed, AllOrNothing
      <3>2. accumulator.z # None /\ z = accumulator.z
        BY <3>1, NoneAssumption DEF CurrentZ
      <3>3. m.target # None
        BY <1>1, <3>1, AbsorbedFields
      <3> QED  BY <3>2, <3>3 DEF ClaimsTracked
    <2> QED  BY <2>1, <2>2
  <1>6. ASSUME NEW k \in ClaimKinds
        PROVE  nz.claims[k] = Contributed(folded', k) % FieldOrder
    <2>1. nz.claims[k] = Plus(z.claims[k], in.witness.aggregate[k])
      BY <1>4 DEF NextZ, AddClaims
    <2>2. /\ Contributed(folded, k) \in Nat
          /\ Contributed(folded', k) = Contributed(folded, k) + in.witness.aggregate[k]
      BY <1>2, <1>4, <1>5, ContributedAppend
    <2>3. in.witness.aggregate[k] \in Field
      BY <1>4
    <2> QED  BY <1>5, <2>1, <2>2, <2>3, PlusIsModular
  <1>7. ASSUME NEW i \in 1..Len(folded')
        PROVE  folded'[i].witness # None /\ folded'[i].witness.position = i - 1
    <2>1. CASE i = Len(folded) + 1
      BY <1>2, <1>4, <2>1
    <2>2. CASE i # Len(folded) + 1
      <3>1. i \in 1..Len(folded) /\ folded'[i] = folded[i]
        BY <1>2, <2>2
      <3> QED  BY <1>5, <3>1 DEF Witnessed
    <2> QED  BY <2>1, <2>2
  <1> QED  BY <1>6, <1>7 DEF Witnessed

(* A chain that is closed has claims that reach their targets.              *)
LEMMA BuildCloses ==
    ASSUME IInv, ClaimsTracked, BuildFinalInstance
    PROVE  ClaimsTracked' /\ PublishedClaimsClose'
  <1> DEFINE m == accumulator.metadata
  <1>1. /\ accumulator' = accumulator /\ accumulator.z # None
        /\ FinalClosure(accumulator)
        /\ instance' = [metadata |-> m, z |-> accumulator.z]
    BY DEF BuildFinalInstance
  <1>2. ClaimsTracked'
    BY <1>1 DEF ClaimsTracked, folded
  <1>3. ASSUME m.target # None
        PROVE  /\ \A k \in ClaimKinds : Contributed(folded, k) % FieldOrder = m.target[k]
               /\ \A i \in 1..Len(folded) : folded[i].witness.position = i - 1
    <2>1. accumulator.z.claims = m.target
      BY <1>1, <1>3 DEF FinalClosure
    <2> QED  BY <1>1, <1>3, <2>1 DEF ClaimsTracked
  <1>4. instance'.metadata = m /\ m.digest = folded
    BY <1>1 DEF folded
  <1> HIDE DEF m
  <1> QED  BY <1>2, <1>3, <1>4 DEF PublishedClaimsClose

(* For every field order and whatever blocks are offered: what the blocks  *)
(* of a published fold contribute adds up to its authenticated target, in  *)
(* the field, and the blocks stand at the positions they announce.         *)
THEOREM ClaimsAlwaysClose == Spec => []PublishedClaimsClose
  <1> DEFINE J == ClaimsTracked /\ PublishedClaimsClose
  <1>1. Init => J
    BY DEF Init, ClaimsTracked, PublishedClaimsClose
  <1>2. IInv /\ J /\ [Next]_vars => J'
    <2> SUFFICES ASSUME IInv, J, [Next]_vars PROVE J'
      OBVIOUS
    <2>1. ASSUME NEW in \in Inputs, Absorb(in) PROVE J'
      <3>1. instance' = instance
        BY <2>1 DEF Absorb
      <3>2. PublishedClaimsClose'
        BY <3>1 DEF PublishedClaimsClose
      <3> QED  BY <2>1, <3>2, AbsorbClaims
    <2>2. CASE BuildFinalInstance
      BY <2>2, BuildCloses
    <2>3. CASE UNCHANGED vars
      BY <2>3 DEF vars, ClaimsTracked, PublishedClaimsClose, folded
    <2> QED  BY <2>1, <2>2, <2>3 DEF Next
  <1> QED  BY <1>1, <1>2, Invariance, PTL DEF Spec
-----------------------------------------------------------------------------
(* verify replays what absorb built.                                       *)

(* The metadata after one more block of a replay.                          *)
Replays(acc, in) ==
    IF acc = None \/ ~Accepts(acc, in) THEN None ELSE Absorbed(acc, in)

(* f holds the metadata, g the public state, after the prefixes of c.      *)
MetadataReplay(f, c) ==
    /\ f \in [0..Len(c) -> Metadata \cup {None}]
    /\ f[0] = EmptyAccumulator
    /\ \A n \in 1..Len(c) : f[n] = Replays(f[n - 1], c[n])
    /\ f[Len(c)] = ReplayedMetadata(c)
ZReplay(g, c) ==
    /\ g \in [0..Len(c) -> ZState]
    /\ g[0] = InitialZ(c[1])
    /\ \A n \in 1..Len(c) : g[n] = NextZ(g[n - 1], c[n])
    /\ g[Len(c)] = ReplayedZ(c)

(* ReplayedMetadata is the recursion over the fold inputs.                  *)
LEMMA MetadataReplays ==
    ASSUME NEW c \in Seq(Inputs)
    PROVE  \E f : MetadataReplay(f, c)
  <1>0. PICK L \in Nat : L = Len(c)
    OBVIOUS
  <1> DEFINE S == Metadata \cup {None}
             step == [n \in 1..L |-> [v \in S |-> Replays(v, c[n])]]
  <1>1. EmptyAccumulator \in S
    BY DEF EmptyAccumulator, Metadata, OptNat
  <1>2. ASSUME NEW n \in 1..L, NEW v \in S PROVE Replays(v, c[n]) \in S
    <2>1. c[n] \in Inputs
      BY <1>0
    <2> QED  BY <2>1, AbsorbedFields DEF Replays
  <1> HIDE DEF S
  <1>3. /\ StepsWithin(step, L, S)
        /\ \A n \in 1..L : \A v \in S : step[n][v] = Replays(v, c[n])
    BY <1>2 DEF StepsWithin
  <1> HIDE DEF step
  <1>4. PICK f \in [0..L -> S] : Iterates(f, L, EmptyAccumulator, step)
    BY <1>1, <1>3, RecursionExists
  <1>5. f[0] = EmptyAccumulator /\ \A n \in 1..L : f[n] = Replays(f[n - 1], c[n])
    <2>1. f[0] = EmptyAccumulator
      BY <1>4 DEF Iterates
    <2>2. ASSUME NEW n \in 1..L
          PROVE  f[n] = Replays(f[n - 1], c[n])
      <3>1. f[n] = step[n][f[n - 1]]
        BY <1>4 DEF Iterates
      <3>2. f[n - 1] \in S
        BY <1>4
      <3> QED  BY <1>3, <3>1, <3>2
    <2> QED  BY <2>1, <2>2
  <1> DEFINE G(h) == h = [n \in 0..L |-> IF n = 0 THEN EmptyAccumulator
                             ELSE Replays(h[n - 1], c[n])]
             s == CHOOSE h : G(h)
  <1>6. G(f)
    <2>1. \A n \in 0..L : f[n] = IF n = 0 THEN EmptyAccumulator
                                 ELSE Replays(f[n - 1], c[n])
      BY <1>5
    <2> QED  BY <1>4, <2>1
  <1>7. G(s)
    <2> HIDE DEF G
    <2> QED  BY <1>6, Zenon
  <1>8. ReplayedMetadata(c) = s[L]
    BY <1>0, Zenon DEF ReplayedMetadata, Replays
  <1>9. s[0] = EmptyAccumulator /\ \A n \in 1..L : s[n] = Replays(s[n - 1], c[n])
    <2> HIDE DEF s
    <2> QED  BY <1>7
  <1> HIDE DEF s
  <1>10. GoOnAlike(f, s, L)
    BY <1>5, <1>9 DEF GoOnAlike
  <1>11. f[L] = s[L]
    BY <1>10, RecursionUnique
  <1> QED  BY <1>0, <1>4, <1>5, <1>8, <1>11 DEF MetadataReplay, S

(* ReplayedZ is the recursion over the fold inputs.                         *)
LEMMA ZReplays ==
    ASSUME NEW c \in Seq(Inputs), c # <<>>
    PROVE  \E g : ZReplay(g, c)
  <1>0. PICK L \in Nat : L = Len(c)
    OBVIOUS
  <1> DEFINE step == [n \in 1..L |-> [v \in ZState |-> NextZ(v, c[n])]]
  <1>1. InitialZ(c[1]) \in ZState
    <2>1. c[1] \in Inputs
      OBVIOUS
    <2> QED  BY <2>1, InitialZTyped
  <1>2. ASSUME NEW n \in 1..L, NEW v \in ZState PROVE NextZ(v, c[n]) \in ZState
    <2>1. c[n] \in Inputs
      BY <1>0
    <2> QED  BY <2>1, NextZFields
  <1>3. /\ StepsWithin(step, L, ZState)
        /\ \A n \in 1..L : \A v \in ZState : step[n][v] = NextZ(v, c[n])
    BY <1>2 DEF StepsWithin
  <1> HIDE DEF step
  <1>4. PICK f \in [0..L -> ZState] : Iterates(f, L, InitialZ(c[1]), step)
    BY <1>1, <1>3, RecursionExists
  <1>5. f[0] = InitialZ(c[1]) /\ \A n \in 1..L : f[n] = NextZ(f[n - 1], c[n])
    <2>1. f[0] = InitialZ(c[1])
      BY <1>4 DEF Iterates
    <2>2. ASSUME NEW n \in 1..L
          PROVE  f[n] = NextZ(f[n - 1], c[n])
      <3>1. f[n] = step[n][f[n - 1]]
        BY <1>4 DEF Iterates
      <3>2. f[n - 1] \in ZState
        BY <1>4
      <3> QED  BY <1>3, <3>1, <3>2
    <2> QED  BY <2>1, <2>2
  <1> DEFINE G(h) == h = [n \in 0..L |-> IF n = 0 THEN InitialZ(c[1])
                             ELSE NextZ(h[n - 1], c[n])]
             s == CHOOSE h : G(h)
  <1>6. G(f)
    <2>1. \A n \in 0..L : f[n] = IF n = 0 THEN InitialZ(c[1])
                                 ELSE NextZ(f[n - 1], c[n])
      BY <1>5
    <2> QED  BY <1>4, <2>1
  <1>7. G(s)
    <2> HIDE DEF G
    <2> QED  BY <1>6, Zenon
  <1>8. ReplayedZ(c) = s[L]
    BY <1>0, Zenon DEF ReplayedZ
  <1>9. s[0] = InitialZ(c[1]) /\ \A n \in 1..L : s[n] = NextZ(s[n - 1], c[n])
    <2> HIDE DEF s
    <2> QED  BY <1>7
  <1> HIDE DEF s
  <1>10. GoOnAlike(f, s, L)
    BY <1>5, <1>9 DEF GoOnAlike
  <1>11. f[L] = s[L]
    BY <1>10, RecursionUnique
  <1> QED  BY <1>0, <1>4, <1>5, <1>8, <1>11 DEF ZReplay

(* The replay of no fold inputs is the empty accumulator.                   *)
LEMMA ReplayNothing == ReplayedMetadata(<<>>) = EmptyAccumulator
  <1>1. PICK f : MetadataReplay(f, <<>>)
    <2>1. <<>> \in Seq(Inputs)
      OBVIOUS
    <2> QED  BY <2>1, MetadataReplays
  <1> QED  BY <1>1 DEF MetadataReplay

(* The replay of one more fold input is one more absorb.                    *)
LEMMA ReplayAppend ==
    ASSUME NEW c \in Seq(Inputs), NEW in \in Inputs
    PROVE  /\ ReplayedMetadata(Append(c, in)) = Replays(ReplayedMetadata(c), in)
           /\ c # <<>> => ReplayedZ(Append(c, in)) = NextZ(ReplayedZ(c), in)
           /\ ReplayedZ(<<in>>) = NextZ(InitialZ(in), in)
  <1>0. PICK L \in Nat : L = Len(c)
    OBVIOUS
  <1> DEFINE d == Append(c, in)
  <1>1. /\ d \in Seq(Inputs) /\ Len(d) = L + 1
        /\ \A n \in 1..L : d[n] = c[n]
        /\ d[L + 1] = in /\ d # <<>>
        /\ (L + 1) - 1 = L
    BY <1>0
  <1> HIDE DEF d
  <1>2. ReplayedMetadata(d) = Replays(ReplayedMetadata(c), in)
    <2>1. PICK f : MetadataReplay(f, c)
      BY MetadataReplays
    <2>2. PICK g : MetadataReplay(g, d)
      BY <1>1, MetadataReplays
    <2>3. GoOnAlike(f, g, L)
      BY <1>0, <1>1, <2>1, <2>2 DEF MetadataReplay, GoOnAlike
    <2>4. f[L] = g[L]
      BY <2>3, RecursionUnique
    <2> QED  BY <1>0, <1>1, <2>1, <2>2, <2>4 DEF MetadataReplay
  <1>3. ASSUME c # <<>>
        PROVE  ReplayedZ(d) = NextZ(ReplayedZ(c), in)
    <2>1. PICK f : ZReplay(f, c)
      BY <1>3, ZReplays
    <2>2. PICK g : ZReplay(g, d)
      BY <1>1, ZReplays
    <2>3. d[1] = c[1]
      BY <1>0, <1>1, <1>3
    <2>4. GoOnAlike(f, g, L)
      BY <1>0, <1>1, <2>1, <2>2, <2>3 DEF ZReplay, GoOnAlike
    <2>5. f[L] = g[L]
      BY <2>4, RecursionUnique
    <2> QED  BY <1>0, <1>1, <2>1, <2>2, <2>5 DEF ZReplay
  <1>4. ReplayedZ(<<in>>) = NextZ(InitialZ(in), in)
    <2>1. PICK g : ZReplay(g, <<in>>)
      <3>1. <<in>> \in Seq(Inputs) /\ <<in>> # <<>>
        OBVIOUS
      <3> QED  BY <3>1, ZReplays
    <2> QED  BY <2>1 DEF ZReplay
  <1> QED  BY <1>2, <1>3, <1>4 DEF d

(* What verify computes from the folded blocks is what absorb has kept.    *)
Replayable ==
    /\ \A i \in 1..(Len(folded) - 1) : Contiguous(folded[i], folded[i + 1])
    /\ ReplayedMetadata(folded) = accumulator.metadata
    /\ folded # <<>> =>
          /\ ReplayedZ(folded) = accumulator.z
          /\ InitialZFromMetadata(accumulator.metadata) = InitialZ(folded[1])
          /\ accumulator.snark.params = accumulator.setup[1]

(* What an absorb leaves can be replayed from its fold inputs.              *)
LEMMA AbsorbReplayable ==
    ASSUME IInv, Replayable, NEW in \in Inputs, Absorb(in)
    PROVE  Replayable'
  <1> DEFINE m == accumulator.metadata
             z == CurrentZ(in)
             next == Absorbed(m, in)
             nz == NextZ(z, in)
  <1> USE DEF IInv
  <1>1. /\ m \in Metadata /\ z \in ZState /\ Accepts(m, in)
        /\ m.absorbed = Len(folded) /\ m # None
    BY AbsorbStep, NoneAssumption DEF Typed, TypeOK
  <1>2. /\ accumulator'.metadata = next /\ accumulator'.z = nz
        /\ folded' = Append(folded, in) /\ folded \in Seq(Inputs)
        /\ accumulator'.setup = <<Shape(in)>>
    <2>1. /\ accumulator'.metadata = next /\ accumulator'.z = nz
          /\ accumulator'.setup = <<Shape(in)>>
      BY AbsorbStep
    <2>2. next.digest = Append(m.digest, in) /\ m.digest \in Seq(Inputs)
      BY <1>1, AbsorbedFields DEF Metadata
    <2> QED  BY <2>1, <2>2 DEF folded
  <1>3. accumulator'.snark.params = accumulator'.setup[1]
    <2>1. accumulator'.snark.params = Shape(in)
      BY DEF Absorb, SnarkVerifies
    <2> QED  BY <1>2, <2>1
  <1>4. ReplayedMetadata(folded') = next
    <2>1. ReplayedMetadata(folded') = Replays(m, in)
      BY <1>2, ReplayAppend DEF Replayable
    <2> QED  BY <1>1, <2>1 DEF Replays
  <1>5. CASE folded = <<>>
    <2>1. m = EmptyAccumulator /\ z = InitialZ(in)
      BY <1>1, <1>5 DEF Typed, AllOrNothing, CurrentZ
    <2>2. folded' = <<in>>
      BY <1>2, <1>5
    <2>3. InitialZFromMetadata(next) = InitialZ(in)
      BY <2>1, InitialZTyped
    <2>4. ReplayedZ(folded') = nz
      BY <1>2, <2>1, <2>2, ReplayAppend
    <2>5. Len(folded') = 1 /\ folded'[1] = in
      BY <2>2
    <2> HIDE DEF m, z, next, nz
    <2> QED  BY <1>2, <1>3, <1>4, <2>3, <2>4, <2>5 DEF Replayable
  <1>6. CASE folded # <<>>
    <2>1. PICK L \in Nat : L = Len(folded) /\ L # 0
      BY <1>2, <1>6
    <2>2. m.program # None /\ accumulator.z # None /\ z = accumulator.z
      BY <1>1, <2>1, NoneAssumption DEF Typed, AllOrNothing, CurrentZ
    <2>3. ReplayedZ(folded') = nz
      BY <1>2, <1>6, <2>2, ReplayAppend DEF Replayable
    <2>4. InitialZFromMetadata(next) = InitialZFromMetadata(m)
      <3>1. /\ next.program = m.program /\ next.first = m.first
            /\ next.cycleStart = m.cycleStart
            /\ next.initialState = m.initialState
            /\ next.initialRegister = m.initialRegister
            /\ next.receipt = m.receipt /\ next.opening = m.opening
            /\ next.challenge = m.challenge /\ next.target = m.target
            /\ next.total = m.total
        BY <1>1, <2>2, AbsorbedFields
      <3> HIDE DEF m, next
      <3> QED  BY <3>1 DEF InitialZFromMetadata
    <2>5. /\ Len(folded') = L + 1 /\ folded'[L + 1] = in
          /\ \A i \in 1..L : folded'[i] = folded[i]
      BY <1>2, <2>1
    <2>6. Contiguous(folded[L], in)
      <3>1. /\ in.index = m.last + 1 /\ in.start = m.cycleEnd
            /\ in.startState = m.latestState
            /\ in.startRegister = m.latestRegister
        BY <1>1, <2>2 DEF Accepts, Continues
      <3>2. /\ m.last = folded[L].index /\ m.cycleEnd = folded[L].end
            /\ m.latestState = folded[L].endState
            /\ m.latestRegister = folded[L].endRegister
        BY <1>6, <2>1 DEF Anchored
      <3> HIDE DEF m
      <3> QED  BY <3>1, <3>2 DEF Contiguous
    <2>7. ASSUME NEW i \in 1..(Len(folded') - 1)
          PROVE  Contiguous(folded'[i], folded'[i + 1])
      <3>1. CASE i = L
        BY <2>1, <2>5, <2>6, <3>1
      <3>2. CASE i # L
        <4>1. i \in 1..(Len(folded) - 1) /\ i \in 1..L /\ i + 1 \in 1..L
          BY <2>1, <2>5, <3>2
        <4> QED  BY <2>5, <4>1 DEF Replayable
      <3> QED  BY <3>1, <3>2
    <2>8. folded'[1] = folded[1]
      BY <2>1, <2>5
    <2> HIDE DEF m, z, next, nz
    <2> QED  BY <1>2, <1>3, <1>4, <1>6, <2>3, <2>4, <2>7, <2>8 DEF Replayable, m
  <1> QED  BY <1>5, <1>6

(* What can be replayed is what verify accepts.                             *)
LEMMA ReplayableVerifies == IInv /\ Replayable => VerifyAcceptsFold
  <1> SUFFICES ASSUME IInv, Replayable PROVE Verifies(folded, accumulator)
    BY DEF VerifyAcceptsFold
  <1> DEFINE m == accumulator.metadata
  <1>1. m.absorbed = Len(folded) /\ folded \in Seq(Inputs)
    BY DEF IInv, Typed, TypeOK, Metadata, folded
  <1>2. CASE m.absorbed = 0
    <2>1. accumulator.snark = None /\ accumulator.z = None
      BY <1>2 DEF IInv, Typed, AllOrNothing
    <2> QED  BY <1>2, <2>1 DEF Replayable, Verifies
  <1>3. CASE m.absorbed # 0
    <2>1. /\ accumulator.snark # None /\ accumulator.z # None
      BY <1>3, NoneAssumption DEF IInv, Typed, AllOrNothing
    <2>2. folded # <<>>
      BY <1>1, <1>3
    <2>3. /\ accumulator.snark.zi = accumulator.z
          /\ accumulator.snark.i = m.absorbed
          /\ accumulator.snark.z0 = InitialZFromMetadata(m)
          /\ accumulator.snark.satisfied
      BY <2>1 DEF IInv, BooksAgree
    <2> QED  BY <1>3, <2>1, <2>2, <2>3 DEF Replayable, Verifies, SnarkVerifies
  <1> QED  BY <1>2, <1>3

(* For any inputs: what absorb has built, verify accepts with the very     *)
(* blocks it was built from, although the two compute the metadata and the *)
(* public state separately.                                                *)
THEOREM FoldAlwaysVerifies == Spec => []VerifyAcceptsFold
  <1>1. Init => Replayable
    <2> SUFFICES ASSUME Init PROVE Replayable
      OBVIOUS
    <2>1. folded = <<>> /\ accumulator.metadata = EmptyAccumulator
      BY DEF Init, folded, EmptyAccumulator
    <2> QED  BY <2>1, ReplayNothing DEF Replayable
  <1>2. IInv /\ Replayable /\ [Next]_vars => Replayable'
    <2> SUFFICES ASSUME IInv, Replayable, [Next]_vars PROVE Replayable'
      OBVIOUS
    <2>1. ASSUME NEW in \in Inputs, Absorb(in) PROVE Replayable'
      BY <2>1, AbsorbReplayable
    <2>2. CASE BuildFinalInstance
      BY <2>2 DEF BuildFinalInstance, Replayable, folded
    <2>3. CASE UNCHANGED vars
      BY <2>3 DEF vars, Replayable, folded
    <2> QED  BY <2>1, <2>2, <2>3 DEF Next
  <1> QED  BY <1>1, <1>2, ReplayableVerifies, Invariance, PTL DEF Spec

-----------------------------------------------------------------------------
(* The bundles of the blocks: BlockBundles                                  *)

(* Blocks whose cycles and registers are elements of X                      *)
StateOf(X) == [registers : X, cycle : Nat, pc : X, terminated : BOOLEAN]
BlockOf(X) ==
    [index : X, start : Nat, active : Nat, target : X, startState : StateOf(X),
     endState : StateOf(X), cycles : Seq(X), atBoundary : BOOLEAN]
OpenOf(X) == [state : StateOf(X), cycles : Seq(X)]

-----------------------------------------------------------------------------
(* The rows of a block, and of the blocks of a chain one after the other    *)
RowChecks(c, next) ==
    LET inputs == RowInputs(c, next)
    IN  All(EvaluatedFirstGroup(inputs)) /\ All(EvaluatedSecondGroup(inputs))
CpuHolds(cs, next) ==
    \A n \in DOMAIN cs : RowChecks(cs[n], IF n < Len(cs) THEN <<cs[n + 1]>> ELSE next)

(* The rows of two parts are those of the whole, if the first part is told  *)
(* the first cycle of the second.                                          *)
LEMMA CpuJoins ==
    ASSUME NEW X, NEW cs \in Seq(X), NEW ds \in Seq(X), ds # <<>>, NEW next
    PROVE  CpuHolds(cs \o ds, next) <=> CpuHolds(cs, <<ds[1]>>) /\ CpuHolds(ds, next)
  <1> DEFINE all == cs \o ds
             After(n) == IF n < Len(all) THEN <<all[n + 1]>> ELSE next
  <1>0. PICK k \in Nat, l \in Nat : k = Len(cs) /\ l = Len(ds)
    OBVIOUS
  <1>1. /\ all \in Seq(X) /\ Len(all) = k + l /\ l > 0
        /\ \A n \in 1 .. k : all[n] = cs[n]
        /\ \A n \in 1 .. l : all[k + n] = ds[n]
    BY <1>0
  <1> HIDE DEF all
  <1>2. ASSUME NEW n \in 1 .. k
        PROVE  /\ After(n) = IF n < k THEN <<cs[n + 1]>> ELSE <<ds[1]>>
               /\ n \in 1 .. k + l
    <2>1. n < k => all[n + 1] = cs[n + 1]
      BY <1>1
    <2>2. n = k => all[n + 1] = ds[1]
      BY <1>1
    <2> QED  BY <1>1, <2>1, <2>2
  <1>3. ASSUME NEW n \in 1 .. l
        PROVE  /\ After(k + n) = IF n < l THEN <<ds[n + 1]>> ELSE next
               /\ k + n \in 1 .. k + l
    <2>1. n < l => all[(k + n) + 1] = ds[n + 1]
      <3>1. (k + n) + 1 = k + (n + 1)
        OBVIOUS
      <3> QED  BY <1>1, <3>1
    <2> QED  BY <1>1, <2>1
  <1>4. ASSUME NEW n \in 1 .. k + l
        PROVE  n \in 1 .. k \/ (n - k \in 1 .. l /\ k + (n - k) = n)
    OBVIOUS
  <1>5. CpuHolds(all, next) <=> \A n \in 1 .. k + l : RowChecks(all[n], After(n))
    <2>1. DOMAIN all = 1 .. k + l
      BY <1>1
    <2> QED  BY <2>1, Zenon DEF CpuHolds
  <1>6. CpuHolds(cs, <<ds[1]>>)
          <=> \A n \in 1 .. k : RowChecks(cs[n], IF n < k THEN <<cs[n + 1]>> ELSE <<ds[1]>>)
    <2>1. DOMAIN cs = 1 .. k
      BY <1>0
    <2> QED  BY <1>0, <2>1, Zenon DEF CpuHolds
  <1>7. CpuHolds(ds, next)
          <=> \A n \in 1 .. l : RowChecks(ds[n], IF n < l THEN <<ds[n + 1]>> ELSE next)
    <2>1. DOMAIN ds = 1 .. l
      BY <1>0
    <2> QED  BY <1>0, <2>1, Zenon DEF CpuHolds
  <1> HIDE DEF After
  <1>8. CpuHolds(cs, <<ds[1]>>) <=> \A n \in 1 .. k : RowChecks(all[n], After(n))
    BY <1>1, <1>2, <1>6
  <1>9. CpuHolds(ds, next) <=> \A n \in 1 .. l : RowChecks(all[k + n], After(k + n))
    BY <1>1, <1>3, <1>7
  <1>10. ASSUME \A n \in 1 .. k : RowChecks(all[n], After(n)),
                \A n \in 1 .. l : RowChecks(all[k + n], After(k + n)),
                NEW n \in 1 .. k + l
         PROVE  RowChecks(all[n], After(n))
    <2>1. CASE n \in 1 .. k
      BY <1>10, <2>1
    <2>2. CASE n - k \in 1 .. l /\ k + (n - k) = n
      <3>1. PICK m \in 1 .. l : k + m = n
        BY <2>2
      <3> QED  BY <1>10, <3>1
    <2> QED  BY <1>4, <2>1, <2>2
  <1>11. CpuHolds(all, next) <=> CpuHolds(cs, <<ds[1]>>) /\ CpuHolds(ds, next)
    BY <1>2, <1>3, <1>5, <1>8, <1>9, <1>10
  <1> QED  BY <1>11 DEF all

-----------------------------------------------------------------------------
(* Registers: what one cycle leaves, and what a run through the cycles is   *)
RegisterStep(g, c) ==
    LET row == RowAt(c.at)
    IN  IF HasRd(row) THEN [g EXCEPT ![row.rd] = c.post] ELSE g
RegisterRun(f, g, cs) == f[0] = g /\ \A n \in 1 .. Len(cs) : f[n] = RegisterStep(f[n - 1], cs[n])
ReadsFrom(g, c) ==
    LET row == RowAt(c.at)
    IN  /\ HasRs1(row) => c.rs1 = g[row.rs1]
        /\ HasRs2(row) => c.rs2 = g[row.rs2]
        /\ HasRd(row) => c.pre = g[row.rd]
RegistersEnd(g, cs, e) == \E f : RegisterRun(f, g, cs) /\ f[Len(cs)] = e
RegistersFlow(g, cs, e) ==
    \E f : /\ RegisterRun(f, g, cs) /\ f[Len(cs)] = e
           /\ \A n \in 1 .. Len(cs) : ReadsFrom(f[n - 1], cs[n])

(* The cycles of a block can be run through from any registers.             *)
LEMMA RegisterRunExists ==
    ASSUME NEW X, NEW cs \in Seq(X), NEW g
    PROVE  \E f : f = [n \in 0 .. Len(cs) |-> f[n]] /\ RegisterRun(f, g, cs)
  <1>0. PICK k \in Nat : k = Len(cs)
    OBVIOUS
  <1> DEFINE Upto(n, f) == /\ f = [i \in 0 .. n |-> f[i]]
                           /\ f[0] = g
                           /\ \A i \in 1 .. n : f[i] = RegisterStep(f[i - 1], cs[i])
             Good == {n \in 0 .. k : \E f : Upto(n, f)}
  <1>1. 0 \in Good
    <2> DEFINE f == [i \in 0 .. 0 |-> g]
    <2>1. f = [i \in 0 .. 0 |-> f[i]] /\ f[0] = g
      OBVIOUS
    <2>2. Upto(0, f)
      <3> HIDE DEF f
      <3> QED  BY <2>1
    <2> HIDE DEF Upto
    <2> QED  BY <2>2
  <1>2. ASSUME NEW n \in 0 .. k - 1, n \in Good
        PROVE  n + 1 \in Good
    <2>1. PICK f : Upto(n, f)
      BY <1>2
    <2> DEFINE h == [i \in 0 .. (n + 1) |->
                        IF i = n + 1 THEN RegisterStep(f[n], cs[n + 1]) ELSE f[i]]
    <2>2. h = [i \in 0 .. (n + 1) |-> h[i]] /\ h[0] = g
      BY <2>1
    <2>3. ASSUME NEW i \in 1 .. (n + 1)
          PROVE  h[i] = RegisterStep(h[i - 1], cs[i])
      <3>1. CASE i = n + 1
        BY <2>1, <3>1
      <3>2. CASE i # n + 1
        <4>1. h[i] = f[i] /\ h[i - 1] = f[i - 1] /\ i \in 1 .. n
          BY <1>0, <2>1, <3>2
        <4> HIDE DEF h
        <4> QED  BY <2>1, <4>1
      <3> QED  BY <3>1, <3>2
    <2>4. Upto(n + 1, h)
      <3> HIDE DEF h
      <3> QED  BY <2>2, <2>3
    <2> HIDE DEF Upto, h
    <2> QED  BY <1>0, <2>4
  <1>3. k \in Good
    <2> HIDE DEF Good
    <2>1. 0 .. k \subseteq Good
      BY <1>0, <1>1, <1>2, IntervalInduction
    <2> QED  BY <1>0, <2>1
  <1> QED  BY <1>0, <1>3 DEF RegisterRun

(* RegistersAfter is that run.                                             *)
LEMMA RegistersAfterRuns ==
    ASSUME NEW X, NEW b, b.cycles \in Seq(X)
    PROVE  RegisterRun(RegistersAfter(b), b.startState.registers, b.cycles)
  <1> DEFINE cs == b.cycles
             g == b.startState.registers
             G(h) == h = [n \in 0 .. Len(cs) |->
                             IF n = 0 THEN g
                             ELSE LET row == RowAt(cs[n].at)
                                  IN  IF HasRd(row) THEN [h[n - 1] EXCEPT ![row.rd] = cs[n].post]
                                      ELSE h[n - 1]]
             r == CHOOSE h : G(h)
  <1>1. PICK f : f = [n \in 0 .. Len(cs) |-> f[n]] /\ RegisterRun(f, g, cs)
    BY RegisterRunExists
  <1>2. Len(cs) \in Nat
    OBVIOUS
  <1>3. G(f)
    <2>1. ASSUME NEW n \in 0 .. Len(cs)
          PROVE  f[n] = IF n = 0 THEN g
                        ELSE LET row == RowAt(cs[n].at)
                             IN  IF HasRd(row) THEN [f[n - 1] EXCEPT ![row.rd] = cs[n].post]
                                 ELSE f[n - 1]
      <3>1. n # 0 => n \in 1 .. Len(cs)
        BY <1>2
      <3> HIDE DEF cs, g
      <3>2. f[0] = g /\ \A m \in 1 .. Len(cs) : f[m] = RegisterStep(f[m - 1], cs[m])
        BY <1>1 DEF RegisterRun
      <3>3. CASE n = 0
        BY <3>2, <3>3
      <3>4. CASE n # 0
        <4>1. f[n] = RegisterStep(f[n - 1], cs[n])
          BY <3>1, <3>2, <3>4
        <4> QED  BY <3>4, <4>1, Zenon DEF RegisterStep
      <3> QED  BY <3>3, <3>4
    <2> QED  BY <1>1, <2>1, Zenon
  <1>4. G(r)
    <2> HIDE DEF G
    <2> QED  BY <1>3, Zenon
  <1>5. RegistersAfter(b) = r
    BY Zenon DEF RegistersAfter
  <1>6. RegisterRun(r, g, cs)
    <2> HIDE DEF r
    <2>1. r[0] = g
      BY <1>2, <1>4
    <2>2. ASSUME NEW n \in 1 .. Len(cs)
          PROVE  r[n] = RegisterStep(r[n - 1], cs[n])
      <3>1. n \in 0 .. Len(cs) /\ n # 0
        BY <1>2
      <3> QED  BY <1>4, <3>1, Zenon DEF RegisterStep
    <2> QED  BY <2>1, <2>2 DEF RegisterRun
  <1> QED  BY <1>5, <1>6

(* There is only one run.                                                  *)
LEMMA RegisterRunUnique ==
    ASSUME NEW X, NEW cs \in Seq(X), NEW g, NEW f, NEW h,
           RegisterRun(f, g, cs), RegisterRun(h, g, cs)
    PROVE  \A n \in 0 .. Len(cs) : f[n] = h[n]
  <1>1. GoOnAlike(f, h, Len(cs))
    BY DEF RegisterRun, GoOnAlike
  <1> QED  BY <1>1, RecursionUnique

(* Registers flow along a run whose reads are right.                        *)
LEMMA FlowOfRun ==
    ASSUME NEW X, NEW cs \in Seq(X), NEW g, NEW f, NEW e,
           RegisterRun(f, g, cs), f[Len(cs)] = e
    PROVE  RegistersFlow(g, cs, e) <=> \A n \in 1 .. Len(cs) : ReadsFrom(f[n - 1], cs[n])
  <1>1. ASSUME RegistersFlow(g, cs, e)
        PROVE  \A n \in 1 .. Len(cs) : ReadsFrom(f[n - 1], cs[n])
    <2>1. PICK h : /\ RegisterRun(h, g, cs)
                   /\ \A n \in 1 .. Len(cs) : ReadsFrom(h[n - 1], cs[n])
      BY <1>1 DEF RegistersFlow
    <2>2. \A n \in 0 .. Len(cs) : h[n] = f[n]
      BY <2>1, RegisterRunUnique
    <2>3. \A n \in 1 .. Len(cs) : n - 1 \in 0 .. Len(cs)
      OBVIOUS
    <2> QED  BY <2>1, <2>2, <2>3
  <1>2. (\A n \in 1 .. Len(cs) : ReadsFrom(f[n - 1], cs[n])) => RegistersFlow(g, cs, e)
    BY Zenon DEF RegistersFlow
  <1> QED  BY <1>1, <1>2

(* Registers flow through a block when they flow from its first to its last *)
(* state, and its end is right when the run ends there.                     *)
LEMMA FlowOfBlock ==
    ASSUME NEW X, NEW b, b.cycles \in Seq(X)
    PROVE  /\ ValidateRegisterFlow(b)
                <=> RegistersFlow(b.startState.registers, b.cycles, b.endState.registers)
           /\ RegistersAfter(b)[Len(b.cycles)] = b.endState.registers
                <=> RegistersEnd(b.startState.registers, b.cycles, b.endState.registers)
  <1> DEFINE cs == b.cycles
             g == b.startState.registers
             r == RegistersAfter(b)
  <1>1. RegisterRun(r, g, cs)
    BY RegistersAfterRuns
  <1>2. Len(cs) \in Nat /\ DOMAIN cs = 1 .. Len(cs)
    OBVIOUS
  <1>3. RegisterReads(b) <=> \A n \in 1 .. Len(cs) : ReadsFrom(r[n - 1], cs[n])
    BY <1>2, Zenon DEF RegisterReads, ReadsFrom
  <1>4. ASSUME RegistersEnd(g, cs, b.endState.registers)
        PROVE  r[Len(cs)] = b.endState.registers
    <2>1. PICK f : RegisterRun(f, g, cs) /\ f[Len(cs)] = b.endState.registers
      BY <1>4 DEF RegistersEnd
    <2>2. \A n \in 0 .. Len(cs) : f[n] = r[n]
      BY <1>1, <2>1, RegisterRunUnique
    <2> QED  BY <1>2, <2>1, <2>2
  <1>5. RegistersFlow(g, cs, b.endState.registers) => RegistersEnd(g, cs, b.endState.registers)
    BY Zenon DEF RegistersFlow, RegistersEnd
  <1> HIDE DEF r
  <1>6. r[Len(cs)] = b.endState.registers => RegistersEnd(g, cs, b.endState.registers)
    BY <1>1, Zenon DEF RegistersEnd
  <1>7. r[Len(cs)] = b.endState.registers =>
          (RegistersFlow(g, cs, b.endState.registers)
              <=> \A n \in 1 .. Len(cs) : ReadsFrom(r[n - 1], cs[n]))
    BY <1>1, FlowOfRun
  <1>8. ValidateRegisterFlow(b)
          <=> /\ \A n \in 1 .. Len(cs) : ReadsFrom(r[n - 1], cs[n])
              /\ r[Len(cs)] = b.endState.registers
    BY <1>3, Zenon DEF ValidateRegisterFlow, r
  <1> QED  BY <1>4, <1>5, <1>6, <1>7, <1>8 DEF r

(* Two runs, the second from where the first ends, are one.                 *)
LEMMA RunsJoin ==
    ASSUME NEW X, NEW cs \in Seq(X), NEW ds \in Seq(X), NEW g, NEW f, NEW h,
           RegisterRun(f, g, cs), RegisterRun(h, f[Len(cs)], ds)
    PROVE  \E j : /\ RegisterRun(j, g, cs \o ds)
                  /\ \A n \in 0 .. Len(cs) : j[n] = f[n]
                  /\ \A n \in 0 .. Len(ds) : j[Len(cs) + n] = h[n]
  <1>0. PICK k \in Nat, l \in Nat : k = Len(cs) /\ l = Len(ds)
    OBVIOUS
  <1> DEFINE all == cs \o ds
             j == [n \in 0 .. k + l |-> IF n <= k THEN f[n] ELSE h[n - k]]
  <1>1. /\ all \in Seq(X) /\ Len(all) = k + l
        /\ \A n \in 1 .. k : all[n] = cs[n]
        /\ \A n \in 1 .. l : all[k + n] = ds[n]
    BY <1>0
  <1> HIDE DEF all
  <1>2. /\ f[0] = g /\ \A n \in 1 .. k : f[n] = RegisterStep(f[n - 1], cs[n])
        /\ h[0] = f[k] /\ \A n \in 1 .. l : h[n] = RegisterStep(h[n - 1], ds[n])
    BY <1>0 DEF RegisterRun
  <1>3. /\ \A n \in 0 .. k : j[n] = f[n]
        /\ \A n \in 0 .. l : j[k + n] = h[n]
    <2>1. \A n \in 0 .. k : j[n] = f[n]
      OBVIOUS
    <2>2. ASSUME NEW n \in 0 .. l PROVE j[k + n] = h[n]
      <3>1. k + n \in 0 .. k + l /\ (k + n) - k = n
        OBVIOUS
      <3> QED  BY <1>2, <3>1
    <2> QED  BY <2>1, <2>2
  <1> HIDE DEF j
  <1>4. ASSUME NEW n \in 1 .. k + l
        PROVE  j[n] = RegisterStep(j[n - 1], all[n])
    <2>1. CASE n \in 1 .. k
      <3>1. n - 1 \in 0 .. k /\ n \in 0 .. k
        BY <2>1
      <3> QED  BY <1>1, <1>2, <1>3, <2>1, <3>1
    <2>2. CASE n \notin 1 .. k
      <3>1. PICK m \in 1 .. l : n = k + m
        <4>1. n - k \in 1 .. l /\ n = k + (n - k)
          BY <2>2
        <4> QED  BY <4>1
      <3>2. m - 1 \in 0 .. l /\ m \in 0 .. l /\ n - 1 = k + (m - 1)
        BY <3>1
      <3>3. j[n] = h[m] /\ j[n - 1] = h[m - 1] /\ all[n] = ds[m]
        BY <1>1, <1>3, <3>1, <3>2
      <3> QED  BY <1>2, <3>3
    <2> QED  BY <2>1, <2>2
  <1>5. RegisterRun(j, g, all)
    <2>1. j[0] = g
      BY <1>2, <1>3
    <2> QED  BY <1>1, <1>4, <2>1 DEF RegisterRun
  <1> QED  BY <1>0, <1>3, <1>5 DEF all

(* Where a run ends, and that its reads are right, joint by joint.          *)
LEMMA FlowsJoin ==
    ASSUME NEW X, NEW cs \in Seq(X), NEW ds \in Seq(X), NEW g, NEW m, NEW e,
           RegistersEnd(g, cs, m), RegistersEnd(m, ds, e)
    PROVE  /\ RegistersEnd(g, cs \o ds, e)
           /\ RegistersFlow(g, cs \o ds, e) <=> RegistersFlow(g, cs, m) /\ RegistersFlow(m, ds, e)
  <1>0. PICK k \in Nat, l \in Nat : k = Len(cs) /\ l = Len(ds)
    OBVIOUS
  <1> DEFINE all == cs \o ds
  <1>1. /\ all \in Seq(X) /\ Len(all) = k + l
        /\ \A n \in 1 .. k : all[n] = cs[n]
        /\ \A n \in 1 .. l : all[k + n] = ds[n]
    BY <1>0
  <1>2. PICK f : RegisterRun(f, g, cs) /\ f[k] = m
    BY <1>0 DEF RegistersEnd
  <1>3. PICK h : RegisterRun(h, m, ds) /\ h[l] = e
    BY <1>0 DEF RegistersEnd
  <1>4. PICK j : /\ RegisterRun(j, g, all)
                 /\ \A n \in 0 .. k : j[n] = f[n]
                 /\ \A n \in 0 .. l : j[k + n] = h[n]
    <2>1. RegisterRun(h, f[Len(cs)], ds)
      BY <1>0, <1>2, <1>3
    <2>2. \E j : /\ RegisterRun(j, g, cs \o ds)
                 /\ \A n \in 0 .. Len(cs) : j[n] = f[n]
                 /\ \A n \in 0 .. Len(ds) : j[Len(cs) + n] = h[n]
      BY <1>2, <2>1, RunsJoin
    <2> QED  BY <1>0, <2>2
  <1> HIDE DEF all
  <1>5. j[k + l] = e
    BY <1>3, <1>4
  <1> DEFINE ReadsAll == \A n \in 1 .. k + l : ReadsFrom(j[n - 1], all[n])
             ReadsC == \A n \in 1 .. k : ReadsFrom(f[n - 1], cs[n])
             ReadsD == \A n \in 1 .. l : ReadsFrom(h[n - 1], ds[n])
  <1>6. ASSUME NEW n \in 1 .. k
        PROVE  j[n - 1] = f[n - 1] /\ all[n] = cs[n] /\ n \in 1 .. k + l
    <2>1. n - 1 \in 0 .. k
      OBVIOUS
    <2> QED  BY <1>1, <1>4, <2>1
  <1>7. ASSUME NEW n \in 1 .. l
        PROVE  j[(k + n) - 1] = h[n - 1] /\ all[k + n] = ds[n] /\ k + n \in 1 .. k + l
    <2>1. n - 1 \in 0 .. l /\ (k + n) - 1 = k + (n - 1)
      OBVIOUS
    <2> QED  BY <1>1, <1>4, <2>1
  <1>8. ReadsAll <=> ReadsC /\ ReadsD
    <2>1. ASSUME ReadsAll PROVE ReadsC /\ ReadsD
      <3>1. ReadsC
        BY <1>6, <2>1
      <3>2. ReadsD
        BY <1>7, <2>1
      <3> QED  BY <3>1, <3>2
    <2>2. ASSUME ReadsC, ReadsD PROVE ReadsAll
      <3> SUFFICES ASSUME NEW n \in 1 .. k + l PROVE ReadsFrom(j[n - 1], all[n])
        OBVIOUS
      <3>1. CASE n \in 1 .. k
        BY <1>6, <2>2, <3>1
      <3>2. CASE n \notin 1 .. k
        <4>1. PICK i \in 1 .. l : n = k + i
          <5>1. n - k \in 1 .. l /\ n = k + (n - k)
            BY <3>2
          <5> QED  BY <5>1
        <4> QED  BY <1>7, <2>2, <4>1
      <3> QED  BY <3>1, <3>2
    <2> QED  BY <2>1, <2>2
  <1>9. RegistersFlow(g, all, e) <=> ReadsAll
    BY <1>1, <1>4, <1>5, FlowOfRun
  <1>10. RegistersFlow(g, cs, m) <=> ReadsC
    BY <1>0, <1>2, FlowOfRun
  <1>11. RegistersFlow(m, ds, e) <=> ReadsD
    BY <1>0, <1>3, FlowOfRun
  <1>12. RegistersEnd(g, all, e)
    BY <1>1, <1>4, <1>5 DEF RegistersEnd
  <1> HIDE DEF ReadsAll, ReadsC, ReadsD
  <1>13. RegistersFlow(g, all, e) <=> RegistersFlow(g, cs, m) /\ RegistersFlow(m, ds, e)
    BY <1>8, <1>9, <1>10, <1>11
  <1> QED  BY <1>12, <1>13 DEF all

-----------------------------------------------------------------------------
(* Memory: an access finds what the one before it left, and what a part     *)
(* leaves at an address, or first finds there                               *)
RamStepsAt(cs, n) ==
    \A k \in 1 .. n - 1 :
        cs[n].ram # 0 /\ cs[k].ram = cs[n].ram /\ (\A l \in k + 1 .. n - 1 : cs[l].ram # cs[n].ram)
            => cs[n].read = cs[k].write
RamSteps(cs) == \A n \in 1 .. Len(cs) : RamStepsAt(cs, n)
TouchesRam(cs, a) == \E n \in 1 .. Len(cs) : cs[n].ram = a
LeavesAt(cs, a, k) == k \in 1 .. Len(cs) /\ cs[k].ram = a /\ \A l \in k + 1 .. Len(cs) : cs[l].ram # a
FindsAt(cs, a, n) == n \in 1 .. Len(cs) /\ cs[n].ram = a /\ \A l \in 1 .. n - 1 : cs[l].ram # a
Leaves(cs, a, v) == \E k \in 1 .. Len(cs) : LeavesAt(cs, a, k) /\ v = cs[k].write
Finds(cs, a, v) == \E n \in 1 .. Len(cs) : FindsAt(cs, a, n) /\ v = cs[n].read
RamJoins(cs, ds) == \A a, v, w : a # 0 /\ Leaves(cs, a, v) /\ Finds(ds, a, w) => w = v

(* The greatest and the least of a set of positions                         *)
LEMMA GreatestIs ==
    ASSUME NEW k \in Nat, NEW T \in SUBSET (1 .. k), T # {}
    PROVE  LastOf(T) \in T /\ \A n \in T : n <= LastOf(T)
  <1>1. \E m \in T : \A n \in T : n <= m
    <2>1. T \in SUBSET (0 .. k)
      OBVIOUS
    <2> QED  BY <2>1, GreatestNumber
  <1> QED  BY <1>1, Zenon DEF LastOf
LEMMA LeastIs ==
    ASSUME NEW k \in Nat, NEW T \in SUBSET (1 .. k), T # {}
    PROVE  FirstOf(T) \in T /\ \A n \in T : FirstOf(T) <= n
  <1>1. \E m \in T : \A n \in T : m <= n
    <2>1. T \in SUBSET Nat
      OBVIOUS
    <2> QED  BY <2>1, LeastNumber
  <1> QED  BY <1>1, Zenon DEF FirstOf

(* Memory flows through a block when each access finds what was left.       *)
LEMMA RamFlowOfBlock ==
    ASSUME NEW X, NEW b, b.cycles \in Seq(X)
    PROVE  ValidateRamFlow(b) <=> RamSteps(b.cycles)
  <1> DEFINE cs == b.cycles
             Earlier(n) == { k \in 1 .. n - 1 : cs[k].ram = cs[n].ram }
             Answers(n) == cs[n].ram # 0 /\ Earlier(n) # {} => cs[n].read = cs[LastOf(Earlier(n))].write
  <1>0. PICK t \in Nat : t = Len(cs) /\ DOMAIN cs = 1 .. t
    OBVIOUS
  <1>1. ValidateRamFlow(b) <=> \A n \in 1 .. t : Answers(n)
    BY <1>0, Zenon DEF ValidateRamFlow
  <1>2. ASSUME NEW n \in 1 .. t
        PROVE  Answers(n) <=> RamStepsAt(cs, n)
    <2> HIDE DEF cs
    <2>1. n - 1 \in Nat /\ Earlier(n) \in SUBSET (1 .. n - 1)
      OBVIOUS
    <2>2. CASE Earlier(n) = {}
      <3>1. \A k \in 1 .. n - 1 : cs[k].ram # cs[n].ram
        BY <2>2
      <3> QED  BY <2>2, <3>1 DEF RamStepsAt
    <2>3. CASE Earlier(n) # {}
      <3>1. PICK m : m = LastOf(Earlier(n))
        OBVIOUS
      <3>2. m \in Earlier(n) /\ \A k \in Earlier(n) : k <= m
        BY <2>1, <2>3, <3>1, GreatestIs
      <3>3. /\ m \in 1 .. n - 1 /\ cs[m].ram = cs[n].ram
            /\ \A l \in m + 1 .. n - 1 : cs[l].ram # cs[n].ram
        <4>1. ASSUME NEW l \in m + 1 .. n - 1 PROVE cs[l].ram # cs[n].ram
          <5>1. m \in 1 .. n - 1
            BY <3>2
          <5>2. l \in 1 .. n - 1 /\ ~(l <= m)
            BY <5>1
          <5> QED  BY <3>2, <5>2
        <4> QED  BY <3>2, <4>1
      <3>4. ASSUME NEW k \in 1 .. n - 1, cs[k].ram = cs[n].ram,
                   \A l \in k + 1 .. n - 1 : cs[l].ram # cs[n].ram
            PROVE  k = m
        <4>1. k <= m
          BY <3>2, <3>4
        <4>2. ~(m \in k + 1 .. n - 1)
          BY <3>3, <3>4
        <4> QED  BY <3>3, <4>1, <4>2
      <3>5. RamStepsAt(cs, n) <=> (cs[n].ram # 0 => cs[n].read = cs[m].write)
        BY <3>3, <3>4 DEF RamStepsAt
      <3> HIDE DEF Earlier
      <3> QED  BY <2>3, <3>1, <3>5
    <2> QED  BY <2>2, <2>3
  <1> HIDE DEF Answers, cs
  <1>3. ValidateRamFlow(b) <=> RamSteps(cs)
    BY <1>0, <1>1, <1>2 DEF RamSteps
  <1> QED  BY <1>3 DEF cs

(* The accesses of two parts are those of the whole, if the second finds    *)
(* what the first leaves.                                                  *)
LEMMA RamStepsJoin ==
    ASSUME NEW X, NEW cs \in Seq(X), NEW ds \in Seq(X)
    PROVE  RamSteps(cs \o ds) <=> RamSteps(cs) /\ RamSteps(ds) /\ RamJoins(cs, ds)
  <1>0. PICK k \in Nat, l \in Nat : k = Len(cs) /\ l = Len(ds)
    OBVIOUS
  <1> DEFINE all == cs \o ds
             Meets(n) == \A p \in 1 .. k :
                            ds[n].ram # 0 /\ LeavesAt(cs, ds[n].ram, p) /\ FindsAt(ds, ds[n].ram, n)
                                => ds[n].read = cs[p].write
  <1>1. /\ all \in Seq(X) /\ Len(all) = k + l
        /\ \A n \in 1 .. k : all[n] = cs[n]
        /\ \A n \in 1 .. l : all[k + n] = ds[n]
    BY <1>0
  <1> HIDE DEF all
  <1>2. ASSUME NEW n \in 1 .. k
        PROVE  RamStepsAt(all, n) <=> RamStepsAt(cs, n)
    <2>1. /\ all[n] = cs[n]
          /\ \A p \in 1 .. n - 1 : all[p] = cs[p]
      BY <1>1
    <2>2. ASSUME NEW p \in 1 .. n - 1
          PROVE  (\A q \in p + 1 .. n - 1 : all[q].ram # all[n].ram)
                    <=> \A q \in p + 1 .. n - 1 : cs[q].ram # cs[n].ram
      <3>1. \A q \in p + 1 .. n - 1 : q \in 1 .. n - 1
        OBVIOUS
      <3> QED  BY <2>1, <3>1
    <2>3. RamStepsAt(all, n)
            <=> \A p \in 1 .. n - 1 :
                   cs[n].ram # 0 /\ cs[p].ram = cs[n].ram
                      /\ (\A q \in p + 1 .. n - 1 : all[q].ram # all[n].ram)
                      => cs[n].read = cs[p].write
      BY <2>1 DEF RamStepsAt
    <2> QED  BY <2>2, <2>3 DEF RamStepsAt
  <1>3. ASSUME NEW n \in 1 .. l
        PROVE  RamStepsAt(all, k + n) <=> RamStepsAt(ds, n) /\ Meets(n)
    <2>1. /\ all[k + n] = ds[n]
          /\ \A p \in 1 .. k : all[p] = cs[p]
          /\ \A p \in 1 .. n - 1 : all[k + p] = ds[p]
      BY <1>1
    <2>2. ASSUME RamStepsAt(all, k + n) PROVE RamStepsAt(ds, n)
      <3> SUFFICES ASSUME NEW p \in 1 .. n - 1,
                          ds[n].ram # 0, ds[p].ram = ds[n].ram,
                          \A q \in p + 1 .. n - 1 : ds[q].ram # ds[n].ram
                   PROVE  ds[n].read = ds[p].write
        BY DEF RamStepsAt
      <3>1. k + p \in 1 .. (k + n) - 1 /\ all[k + p] = ds[p]
        BY <2>1
      <3>2. ASSUME NEW q \in (k + p) + 1 .. (k + n) - 1
            PROVE  all[q].ram # all[k + n].ram
        <4>1. PICK i \in p + 1 .. n - 1 : q = k + i
          <5>1. q - k \in p + 1 .. n - 1 /\ q = k + (q - k)
            OBVIOUS
          <5> QED  BY <5>1
        <4>2. i \in 1 .. n - 1
          OBVIOUS
        <4> QED  BY <2>1, <4>1, <4>2
      <3>3. all[k + n].read = all[k + p].write
        BY <2>1, <2>2, <3>1, <3>2 DEF RamStepsAt
      <3> QED  BY <2>1, <3>1, <3>3
    <2>3. ASSUME RamStepsAt(all, k + n) PROVE Meets(n)
      <3> SUFFICES ASSUME NEW p \in 1 .. k, ds[n].ram # 0,
                          LeavesAt(cs, ds[n].ram, p), FindsAt(ds, ds[n].ram, n)
                   PROVE  ds[n].read = cs[p].write
        OBVIOUS
      <3>1. p \in 1 .. (k + n) - 1 /\ all[p] = cs[p]
        BY <2>1
      <3>2. ASSUME NEW q \in p + 1 .. (k + n) - 1
            PROVE  all[q].ram # all[k + n].ram
        <4>1. CASE q <= k
          <5>1. q \in 1 .. k /\ q \in p + 1 .. Len(cs)
            BY <1>0, <4>1
          <5> QED  BY <2>1, <5>1 DEF LeavesAt
        <4>2. CASE q > k
          <5>1. PICK i \in 1 .. n - 1 : q = k + i
            <6>1. q - k \in 1 .. n - 1 /\ q = k + (q - k)
              BY <4>2
            <6> QED  BY <6>1
          <5> QED  BY <2>1, <5>1 DEF FindsAt
        <4> QED  BY <4>1, <4>2
      <3>3. all[p].ram = all[k + n].ram
        BY <2>1 DEF LeavesAt
      <3>4. all[k + n].read = all[p].write
        BY <2>1, <2>3, <3>1, <3>2, <3>3 DEF RamStepsAt
      <3> QED  BY <2>1, <3>1, <3>4
    <2>4. ASSUME RamStepsAt(ds, n), Meets(n) PROVE RamStepsAt(all, k + n)
      <3> SUFFICES ASSUME NEW p \in 1 .. (k + n) - 1,
                          all[k + n].ram # 0, all[p].ram = all[k + n].ram,
                          \A q \in p + 1 .. (k + n) - 1 : all[q].ram # all[k + n].ram
                   PROVE  all[k + n].read = all[p].write
        BY DEF RamStepsAt
      <3>1. CASE p <= k
        <4>1. p \in 1 .. k /\ all[p] = cs[p]
          BY <2>1, <3>1
        <4>2. ASSUME NEW q \in p + 1 .. k PROVE cs[q].ram # ds[n].ram
          <5>1. q \in p + 1 .. (k + n) - 1 /\ q \in 1 .. k
            BY <4>1
          <5> QED  BY <2>1, <5>1
        <4>3. ASSUME NEW q \in 1 .. n - 1 PROVE ds[q].ram # ds[n].ram
          <5>1. k + q \in p + 1 .. (k + n) - 1
            BY <4>1
          <5> QED  BY <2>1, <5>1
        <4>4. LeavesAt(cs, ds[n].ram, p) /\ FindsAt(ds, ds[n].ram, n)
          BY <1>0, <2>1, <4>1, <4>2, <4>3 DEF LeavesAt, FindsAt
        <4> QED  BY <2>1, <2>4, <4>1, <4>4
      <3>2. CASE p > k
        <4>1. PICK i \in 1 .. n - 1 : p = k + i
          <5>1. p - k \in 1 .. n - 1 /\ p = k + (p - k)
            BY <3>2
          <5> QED  BY <5>1
        <4>2. ASSUME NEW q \in i + 1 .. n - 1 PROVE ds[q].ram # ds[n].ram
          <5>1. k + q \in p + 1 .. (k + n) - 1 /\ q \in 1 .. n - 1
            BY <4>1
          <5> QED  BY <2>1, <5>1
        <4> HIDE DEF Meets
        <4> QED  BY <2>1, <2>4, <4>1, <4>2 DEF RamStepsAt
      <3> QED  BY <3>1, <3>2
    <2> QED  BY <2>2, <2>3, <2>4
  <1>4. RamJoins(cs, ds) <=> \A n \in 1 .. l : Meets(n)
    <2>1. ASSUME RamJoins(cs, ds), NEW n \in 1 .. l PROVE Meets(n)
      <3> SUFFICES ASSUME NEW p \in 1 .. k, ds[n].ram # 0,
                          LeavesAt(cs, ds[n].ram, p), FindsAt(ds, ds[n].ram, n)
                   PROVE  ds[n].read = cs[p].write
        OBVIOUS
      <3>1. Leaves(cs, ds[n].ram, cs[p].write) /\ Finds(ds, ds[n].ram, ds[n].read)
        BY <1>0 DEF Leaves, Finds
      <3> QED  BY <2>1, <3>1 DEF RamJoins
    <2>2. ASSUME \A n \in 1 .. l : Meets(n) PROVE RamJoins(cs, ds)
      <3> SUFFICES ASSUME NEW a, NEW v, NEW w, a # 0, Leaves(cs, a, v), Finds(ds, a, w)
                   PROVE  w = v
        BY DEF RamJoins
      <3>1. PICK p \in 1 .. k : LeavesAt(cs, a, p) /\ v = cs[p].write
        BY <1>0 DEF Leaves
      <3>2. PICK n \in 1 .. l : FindsAt(ds, a, n) /\ w = ds[n].read
        BY <1>0 DEF Finds
      <3>3. ds[n].ram = a
        BY <3>2 DEF FindsAt
      <3> QED  BY <2>2, <3>1, <3>2, <3>3
    <2> QED  BY <2>1, <2>2
  <1> HIDE DEF Meets
  <1>5. ASSUME NEW n \in 1 .. k + l
        PROVE  n \in 1 .. k \/ \E m \in 1 .. l : n = k + m
    <2>1. n \notin 1 .. k => n - k \in 1 .. l /\ n = k + (n - k)
      OBVIOUS
    <2> QED  BY <2>1
  <1>6. /\ \A n \in 1 .. k : n \in 1 .. k + l
        /\ \A n \in 1 .. l : k + n \in 1 .. k + l
    OBVIOUS
  <1>7. RamSteps(all) <=> /\ \A n \in 1 .. k : RamStepsAt(all, n)
                          /\ \A n \in 1 .. l : RamStepsAt(all, k + n)
    BY <1>1, <1>5, <1>6 DEF RamSteps
  <1>8. RamSteps(all) <=> RamSteps(cs) /\ RamSteps(ds) /\ RamJoins(cs, ds)
    BY <1>0, <1>2, <1>3, <1>4, <1>7 DEF RamSteps
  <1> QED  BY <1>8 DEF all

(* What two parts leave at an address is what the second leaves there, or,  *)
(* if it does not touch it, what the first does.                           *)
LEMMA LeavesJoin ==
    ASSUME NEW X, NEW cs \in Seq(X), NEW ds \in Seq(X), NEW a, NEW v
    PROVE  Leaves(cs \o ds, a, v)
               <=> Leaves(ds, a, v) \/ (Leaves(cs, a, v) /\ ~TouchesRam(ds, a))
  <1>0. PICK k \in Nat, l \in Nat : k = Len(cs) /\ l = Len(ds)
    OBVIOUS
  <1> DEFINE all == cs \o ds
  <1>1. /\ all \in Seq(X) /\ Len(all) = k + l
        /\ \A n \in 1 .. k : all[n] = cs[n]
        /\ \A n \in 1 .. l : all[k + n] = ds[n]
    BY <1>0
  <1> HIDE DEF all
  <1>2. ASSUME NEW n \in 1 .. l
        PROVE  LeavesAt(all, a, k + n) <=> LeavesAt(ds, a, n)
    <2>1. k + n \in 1 .. k + l /\ all[k + n] = ds[n]
      BY <1>1
    <2>2. ASSUME LeavesAt(all, a, k + n), NEW q \in n + 1 .. l PROVE ds[q].ram # a
      <3>1. k + q \in (k + n) + 1 .. k + l /\ q \in 1 .. l
        OBVIOUS
      <3> QED  BY <1>1, <2>2, <3>1 DEF LeavesAt
    <2>3. ASSUME LeavesAt(ds, a, n), NEW q \in (k + n) + 1 .. k + l PROVE all[q].ram # a
      <3>1. PICK i \in n + 1 .. l : q = k + i
        <4>1. q - k \in n + 1 .. l /\ q = k + (q - k)
          OBVIOUS
        <4> QED  BY <4>1
      <3>2. i \in 1 .. l
        OBVIOUS
      <3> QED  BY <1>0, <1>1, <2>3, <3>1, <3>2 DEF LeavesAt
    <2> QED  BY <1>0, <1>1, <2>1, <2>2, <2>3 DEF LeavesAt
  <1>3. ASSUME NEW n \in 1 .. k
        PROVE  LeavesAt(all, a, n) <=> LeavesAt(cs, a, n) /\ ~TouchesRam(ds, a)
    <2>1. n \in 1 .. k + l /\ all[n] = cs[n]
      BY <1>1
    <2>2. ASSUME LeavesAt(all, a, n), NEW q \in n + 1 .. k PROVE cs[q].ram # a
      <3>1. q \in n + 1 .. k + l /\ q \in 1 .. k
        OBVIOUS
      <3> QED  BY <1>1, <2>2, <3>1 DEF LeavesAt
    <2>3. ASSUME LeavesAt(all, a, n), NEW q \in 1 .. l PROVE ds[q].ram # a
      <3>1. k + q \in n + 1 .. k + l
        OBVIOUS
      <3> QED  BY <1>1, <2>3, <3>1 DEF LeavesAt
    <2>4. ASSUME LeavesAt(cs, a, n), ~TouchesRam(ds, a), NEW q \in n + 1 .. k + l
          PROVE  all[q].ram # a
      <3>1. CASE q <= k
        <4>1. q \in n + 1 .. k /\ q \in 1 .. k
          BY <3>1
        <4> QED  BY <1>0, <1>1, <2>4, <4>1 DEF LeavesAt
      <3>2. CASE q > k
        <4>1. PICK i \in 1 .. l : q = k + i
          <5>1. q - k \in 1 .. l /\ q = k + (q - k)
            BY <3>2
          <5> QED  BY <5>1
        <4> QED  BY <1>0, <1>1, <2>4, <4>1 DEF TouchesRam
      <3> QED  BY <3>1, <3>2
    <2> QED  BY <1>0, <1>1, <2>1, <2>2, <2>3, <2>4 DEF LeavesAt, TouchesRam
  <1>4. ASSUME NEW n \in 1 .. k + l
        PROVE  n \in 1 .. k \/ \E m \in 1 .. l : n = k + m
    <2>1. n \notin 1 .. k => n - k \in 1 .. l /\ n = k + (n - k)
      OBVIOUS
    <2> QED  BY <2>1
  <1>5. /\ \A n \in 1 .. k : n \in 1 .. k + l
        /\ \A n \in 1 .. l : k + n \in 1 .. k + l
    OBVIOUS
  <1>6. Leaves(all, a, v)
          <=> \/ \E n \in 1 .. k : LeavesAt(all, a, n) /\ v = all[n].write
              \/ \E n \in 1 .. l : LeavesAt(all, a, k + n) /\ v = all[k + n].write
    <2> DEFINE L(n) == LeavesAt(all, a, n) /\ v = all[n].write
    <2>1. Leaves(all, a, v) <=> \E n \in 1 .. k + l : L(n)
      BY <1>1 DEF Leaves
    <2> HIDE DEF L
    <2>2. (\E n \in 1 .. k + l : L(n)) <=> (\E n \in 1 .. k : L(n)) \/ (\E n \in 1 .. l : L(k + n))
      BY <1>4, <1>5
    <2> QED  BY <2>1, <2>2 DEF L
  <1>7. Leaves(all, a, v) <=> Leaves(ds, a, v) \/ (Leaves(cs, a, v) /\ ~TouchesRam(ds, a))
    BY <1>0, <1>1, <1>2, <1>3, <1>6 DEF Leaves
  <1> QED  BY <1>7 DEF all

-----------------------------------------------------------------------------
(* What holds of the whole of 0 .. i, if it holds of no part and carries    *)
(* over to one part more exactly when that part is one of Q, holds of all   *)
(* when the parts are all of Q.                                            *)
CarriesOver(k, W, Q) == 0 \in W /\ \A i \in 0 .. k - 1 : i + 1 \in W <=> i \in W /\ i + 1 \in Q
LEMMA EveryPart ==
    ASSUME NEW k \in Nat, NEW W, NEW Q, CarriesOver(k, W, Q)
    PROVE  k \in W <=> \A i \in 1 .. k : i \in Q
  <1> DEFINE S == {i \in 0 .. k : i \in W <=> \A j \in 1 .. i : j \in Q}
  <1>1. 0 \in S
    BY DEF CarriesOver
  <1>2. ASSUME NEW i \in 0 .. k - 1, i \in S
        PROVE  i + 1 \in S
    <2>1. i + 1 \in W <=> i \in W /\ i + 1 \in Q
      BY DEF CarriesOver
    <2>2. (\A j \in 1 .. i + 1 : j \in Q) <=> (\A j \in 1 .. i : j \in Q) /\ i + 1 \in Q
      <3>1. /\ \A j \in 1 .. i + 1 : j \in 1 .. i \/ j = i + 1
            /\ \A j \in 1 .. i : j \in 1 .. i + 1
            /\ i + 1 \in 1 .. i + 1
        OBVIOUS
      <3> QED  BY <3>1
    <2>3. i \in W <=> \A j \in 1 .. i : j \in Q
      BY <1>2
    <2>4. i + 1 \in 0 .. k
      OBVIOUS
    <2> QED  BY <2>1, <2>2, <2>3, <2>4
  <1>3. k \in S
    <2> HIDE DEF S
    <2>1. 0 .. k \subseteq S
      BY <1>1, <1>2, IntervalInduction
    <2> QED  BY <2>1
  <1> QED  BY <1>3

(* The parts of a chain, put together one after the other                   *)
PutTogether(f, css, X) ==
    /\ f[0] = <<>> /\ f[Len(css)] = FlattenSeq(css)
    /\ \A i \in 0 .. Len(css) - 1 :
          f[i] \in Seq(X) /\ css[i + 1] \in Seq(X) /\ f[i + 1] = f[i] \o css[i + 1]
LEMMA PartsPutTogether ==
    ASSUME NEW X, NEW css \in Seq(Seq(X))
    PROVE  \E f : PutTogether(f, css, X)
  <1>1. PICK f : Flattens(f, css, X)
    BY FlattenIterates
  <1>2. ASSUME NEW i \in 0 .. Len(css) - 1
        PROVE  f[i] \in Seq(X) /\ css[i + 1] \in Seq(X) /\ f[i + 1] = f[i] \o css[i + 1]
    <2>1. i \in 0 .. Len(css) /\ i + 1 \in 1 .. Len(css) /\ (i + 1) - 1 = i
      OBVIOUS
    <2>2. f[i] \in Seq(X) /\ f[i + 1] = Cat(f[(i + 1) - 1], css[i + 1])
      BY <1>1, <2>1 DEF Flattens
    <2>3. css[i + 1] \in Seq(X)
      BY <2>1
    <2>4. f[i + 1] = Cat(f[i], css[i + 1])
      BY <2>1, <2>2, Zenon
    <2> QED  BY <2>2, <2>3, <2>4 DEF Cat
  <1>3. f[0] = <<>> /\ f[Len(css)] = FlattenSeq(css)
    BY <1>1 DEF Flattens
  <1> QED  BY <1>2, <1>3 DEF PutTogether

(* The rows of a chain of parts: each part is told the first cycle of the   *)
(* next.                                                                   *)
LookAhead(next, css) == \A i \in 1 .. Len(css) - 1 : next[i] = <<css[i + 1][1]>>
LEMMA CpuOfParts ==
    ASSUME NEW X, NEW css \in Seq(Seq(X)), NEW next,
           \A i \in 1 .. Len(css) : css[i] # <<>>, LookAhead(next, css)
    PROVE  CpuHolds(FlattenSeq(css), next[Len(css)])
               <=> \A i \in 1 .. Len(css) : CpuHolds(css[i], next[i])
  <1>0. PICK k \in Nat : k = Len(css)
    OBVIOUS
  <1>1. PICK f : PutTogether(f, css, X)
    BY PartsPutTogether
  <1> DEFINE W == {i \in 0 .. k : CpuHolds(f[i], next[i])}
             Q == {i \in 1 .. k : CpuHolds(css[i], next[i])}
  <1>2. \A z : CpuHolds(<<>>, z)
    BY DEF CpuHolds
  <1>3. 0 \in W
    BY <1>1, <1>2 DEF PutTogether
  <1>4. ASSUME NEW i \in 0 .. k - 1
        PROVE  i + 1 \in W <=> i \in W /\ i + 1 \in Q
    <2>1. /\ f[i + 1] = f[i] \o css[i + 1]
          /\ f[i] \in Seq(X) /\ css[i + 1] \in Seq(X)
      BY <1>0, <1>1 DEF PutTogether
    <2>2. i + 1 \in 1 .. k /\ i + 1 \in 0 .. k /\ i \in 0 .. k
      OBVIOUS
    <2>3. css[i + 1] # <<>>
      BY <1>0, <2>2
    <2>4. CpuHolds(f[i + 1], next[i + 1])
            <=> CpuHolds(f[i], <<css[i + 1][1]>>) /\ CpuHolds(css[i + 1], next[i + 1])
      BY <2>1, <2>3, CpuJoins
    <2>5. CpuHolds(f[i], <<css[i + 1][1]>>) <=> CpuHolds(f[i], next[i])
      <3>1. CASE i = 0
        BY <1>1, <1>2, <3>1 DEF PutTogether
      <3>2. CASE i # 0
        <4>1. next[i] = <<css[i + 1][1]>>
          BY <1>0, <3>2 DEF LookAhead
        <4> QED  BY <4>1
      <3> QED  BY <3>1, <3>2
    <2> QED  BY <2>2, <2>4, <2>5
  <1>5. k \in W <=> \A i \in 1 .. k : i \in Q
    <2> HIDE DEF W, Q
    <2>1. CarriesOver(k, W, Q)
      BY <1>3, <1>4 DEF CarriesOver
    <2> QED  BY <2>1, EveryPart
  <1>6. f[k] = FlattenSeq(css)
    BY <1>0, <1>1 DEF PutTogether
  <1>7. k \in W <=> CpuHolds(FlattenSeq(css), next[k])
    BY <1>6
  <1>8. (\A i \in 1 .. k : i \in Q) <=> \A i \in 1 .. k : CpuHolds(css[i], next[i])
    OBVIOUS
  <1> HIDE DEF W, Q
  <1> QED  BY <1>0, <1>5, <1>7, <1>8

(* The registers of a chain of parts that end where the next ones start     *)
EndsMeet(states, css) ==
    \A i \in 1 .. Len(css) : RegistersEnd(states[i], css[i], states[i + 1])
LEMMA RegistersOfParts ==
    ASSUME NEW X, NEW css \in Seq(Seq(X)), NEW states, EndsMeet(states, css)
    PROVE  /\ RegistersEnd(states[1], FlattenSeq(css), states[Len(css) + 1])
           /\ RegistersFlow(states[1], FlattenSeq(css), states[Len(css) + 1])
                  <=> \A i \in 1 .. Len(css) : RegistersFlow(states[i], css[i], states[i + 1])
  <1>0. PICK k \in Nat : k = Len(css)
    OBVIOUS
  <1>1. PICK f : PutTogether(f, css, X)
    BY PartsPutTogether
  <1> DEFINE S == {i \in 0 .. k : RegistersEnd(states[1], f[i], states[i + 1])}
             W == {i \in 0 .. k : RegistersFlow(states[1], f[i], states[i + 1])}
             Q == {i \in 1 .. k : RegistersFlow(states[i], css[i], states[i + 1])}
  <1>2. 0 \in S /\ 0 \in W
    <2>1. \E g : g = [n \in 0 .. 0 |-> states[1]]
      OBVIOUS
    <2>2. PICK g : g[0] = states[1]
      BY <2>1
    <2>3. RegisterRun(g, states[1], <<>>) /\ g[Len(<<>>)] = states[1]
      BY <2>2 DEF RegisterRun
    <2>4. RegistersEnd(states[1], <<>>, states[1])
      BY <2>3, Zenon DEF RegistersEnd
    <2>5. RegistersFlow(states[1], <<>>, states[1])
      <3>1. \A n \in 1 .. Len(<<>>) : ReadsFrom(g[n - 1], <<>>[n])
        OBVIOUS
      <3> QED  BY <2>3, <3>1, Zenon DEF RegistersFlow
    <2>6. f[0] = <<>> /\ 0 + 1 = 1 /\ 0 \in 0 .. k
      BY <1>1 DEF PutTogether
    <2> QED  BY <2>4, <2>5, <2>6
  <1>3. ASSUME NEW i \in 0 .. k - 1
        PROVE  /\ f[i + 1] = f[i] \o css[i + 1]
               /\ f[i] \in Seq(X) /\ css[i + 1] \in Seq(X)
               /\ i + 1 \in 1 .. k /\ i + 1 \in 0 .. k /\ i \in 0 .. k
               /\ RegistersEnd(states[i + 1], css[i + 1], states[(i + 1) + 1])
    <2>1. i + 1 \in 1 .. k /\ i + 1 \in 0 .. k /\ i \in 0 .. k
      OBVIOUS
    <2>2. RegistersEnd(states[i + 1], css[i + 1], states[(i + 1) + 1])
      BY <1>0, <2>1 DEF EndsMeet
    <2> QED  BY <1>0, <1>1, <2>1, <2>2 DEF PutTogether
  <1>4. 0 .. k \subseteq S
    <2>1. ASSUME NEW i \in 0 .. k - 1, i \in S
          PROVE  i + 1 \in S
      <3>1. RegistersEnd(states[1], f[i], states[i + 1])
        BY <2>1
      <3>2. RegistersEnd(states[1], f[i] \o css[i + 1], states[(i + 1) + 1])
        BY <1>3, <3>1, FlowsJoin
      <3> QED  BY <1>3, <3>2
    <2> HIDE DEF S
    <2> QED  BY <1>2, <2>1, IntervalInduction
  <1>5. ASSUME NEW i \in 0 .. k - 1
        PROVE  i + 1 \in W <=> i \in W /\ i + 1 \in Q
    <2>1. RegistersEnd(states[1], f[i], states[i + 1])
      BY <1>3, <1>4
    <2>2. RegistersFlow(states[1], f[i] \o css[i + 1], states[(i + 1) + 1])
                <=> /\ RegistersFlow(states[1], f[i], states[i + 1])
                    /\ RegistersFlow(states[i + 1], css[i + 1], states[(i + 1) + 1])
      <3>1. PICK m, e : m = states[i + 1] /\ e = states[(i + 1) + 1]
        OBVIOUS
      <3>2. /\ f[i] \in Seq(X) /\ css[i + 1] \in Seq(X)
            /\ RegistersEnd(states[1], f[i], m) /\ RegistersEnd(m, css[i + 1], e)
        BY <1>3, <2>1, <3>1
      <3>3. RegistersFlow(states[1], f[i] \o css[i + 1], e)
              <=> RegistersFlow(states[1], f[i], m) /\ RegistersFlow(m, css[i + 1], e)
        BY <3>2, FlowsJoin
      <3> QED  BY <3>1, <3>3
    <2> QED  BY <1>3, <2>2
  <1>6. k \in W <=> \A i \in 1 .. k : i \in Q
    <2> HIDE DEF W, Q
    <2>1. CarriesOver(k, W, Q)
      BY <1>2, <1>5 DEF CarriesOver
    <2> QED  BY <2>1, EveryPart
  <1>7. f[k] = FlattenSeq(css)
    BY <1>0, <1>1 DEF PutTogether
  <1>8. /\ k \in W <=> RegistersFlow(states[1], FlattenSeq(css), states[k + 1])
        /\ RegistersEnd(states[1], FlattenSeq(css), states[k + 1])
    <2>1. k \in 0 .. k
      OBVIOUS
    <2> QED  BY <1>4, <1>7, <2>1
  <1>9. (\A i \in 1 .. k : i \in Q)
          <=> \A i \in 1 .. k : RegistersFlow(states[i], css[i], states[i + 1])
    OBVIOUS
  <1> HIDE DEF W, Q
  <1> QED  BY <1>0, <1>6, <1>8, <1>9

(* The memory of a chain of parts: what a part first finds at an address is *)
(* what the last part before it that touches the address leaves there.      *)
PartMeets(css, j) ==
    \A i \in 1 .. j - 1 : \A a, v, w :
        /\ a # 0 /\ Leaves(css[i], a, v) /\ Finds(css[j], a, w)
        /\ \A m \in i + 1 .. j - 1 : ~TouchesRam(css[m], a)
        => w = v
LeftByParts(css, i, a, v) ==
    \E p \in 1 .. i : Leaves(css[p], a, v) /\ \A m \in p + 1 .. i : ~TouchesRam(css[m], a)

(* One part more                                                           *)
LEMMA LeftByOneMore ==
    ASSUME NEW i \in Nat, NEW css, NEW a, NEW v
    PROVE  LeftByParts(css, i + 1, a, v)
               <=> \/ Leaves(css[i + 1], a, v)
                   \/ LeftByParts(css, i, a, v) /\ ~TouchesRam(css[i + 1], a)
  <1>2. ASSUME LeftByParts(css, i + 1, a, v)
        PROVE  \/ Leaves(css[i + 1], a, v)
               \/ LeftByParts(css, i, a, v) /\ ~TouchesRam(css[i + 1], a)
    <2>1. PICK p \in 1 .. i + 1 : /\ Leaves(css[p], a, v)
                                  /\ \A m \in p + 1 .. i + 1 : ~TouchesRam(css[m], a)
      BY <1>2 DEF LeftByParts
    <2>2. CASE p = i + 1
      BY <2>1, <2>2
    <2>3. CASE p # i + 1
      <3>1. /\ p \in 1 .. i /\ i + 1 \in p + 1 .. i + 1
            /\ \A m \in p + 1 .. i : m \in p + 1 .. i + 1
        BY <2>3
      <3> QED  BY <2>1, <3>1 DEF LeftByParts
    <2> QED  BY <2>2, <2>3
  <1>3. ASSUME Leaves(css[i + 1], a, v)
        PROVE  LeftByParts(css, i + 1, a, v)
    <2>1. i + 1 \in 1 .. i + 1 /\ (i + 1) + 1 .. i + 1 = {}
      OBVIOUS
    <2> QED  BY <1>3, <2>1 DEF LeftByParts
  <1>4. ASSUME LeftByParts(css, i, a, v), ~TouchesRam(css[i + 1], a)
        PROVE  LeftByParts(css, i + 1, a, v)
    <2>1. PICK p \in 1 .. i : /\ Leaves(css[p], a, v)
                              /\ \A m \in p + 1 .. i : ~TouchesRam(css[m], a)
      BY <1>4 DEF LeftByParts
    <2>2. p \in 1 .. i + 1 /\ \A m \in p + 1 .. i + 1 : m \in p + 1 .. i \/ m = i + 1
      OBVIOUS
    <2> QED  BY <1>4, <2>1, <2>2 DEF LeftByParts
  <1> QED  BY <1>2, <1>3, <1>4

(* The memory of a chain flows when it flows in its parts and they meet.    *)
LEMMA RamOfParts ==
    ASSUME NEW X, NEW css \in Seq(Seq(X))
    PROVE  RamSteps(FlattenSeq(css))
               <=> \A j \in 1 .. Len(css) : RamSteps(css[j]) /\ PartMeets(css, j)
  <1>0. PICK k \in Nat : k = Len(css)
    OBVIOUS
  <1>1. PICK f : PutTogether(f, css, X)
    BY PartsPutTogether
  <1> DEFINE Left(i) == \A a, v : Leaves(f[i], a, v) <=> LeftByParts(css, i, a, v)
             S == {i \in 0 .. k : Left(i)}
             W == {i \in 0 .. k : RamSteps(f[i])}
             Q == {i \in 1 .. k : RamSteps(css[i]) /\ PartMeets(css, i)}
  <1>2. 0 \in S /\ 0 \in W
    <2>1. f[0] = <<>>
      BY <1>1 DEF PutTogether
    <2>2. RamSteps(f[0])
      BY <2>1 DEF RamSteps
    <2>3. Left(0)
      BY <2>1 DEF Leaves, LeftByParts
    <2> HIDE DEF Left
    <2> QED  BY <2>2, <2>3
  <1>3. ASSUME NEW i \in 0 .. k - 1
        PROVE  /\ f[i + 1] = f[i] \o css[i + 1]
               /\ f[i] \in Seq(X) /\ css[i + 1] \in Seq(X)
               /\ i + 1 \in 1 .. k /\ i + 1 \in 0 .. k /\ i \in 0 .. k
    <2>1. i + 1 \in 1 .. k /\ i + 1 \in 0 .. k /\ i \in 0 .. k
      OBVIOUS
    <2> QED  BY <1>0, <1>1, <2>1 DEF PutTogether
  <1>4. 0 .. k \subseteq S
    <2>1. ASSUME NEW i \in 0 .. k - 1, i \in S
          PROVE  i + 1 \in S
      <3>1. ASSUME NEW a, NEW v
            PROVE  Leaves(f[i + 1], a, v) <=> LeftByParts(css, i + 1, a, v)
        <4>1. Leaves(f[i], a, v) <=> LeftByParts(css, i, a, v)
          BY <2>1
        <4>2. Leaves(f[i] \o css[i + 1], a, v)
                <=> Leaves(css[i + 1], a, v) \/ (Leaves(f[i], a, v) /\ ~TouchesRam(css[i + 1], a))
          BY <1>3, LeavesJoin
        <4>3. i \in Nat
          OBVIOUS
        <4> QED  BY <1>3, <4>1, <4>2, <4>3, LeftByOneMore
      <3>2. Left(i + 1)
        BY <3>1
      <3> HIDE DEF Left
      <3> QED  BY <1>3, <3>2
    <2> HIDE DEF S
    <2> QED  BY <1>2, <2>1, IntervalInduction
  <1>5. ASSUME NEW i \in 0 .. k - 1
        PROVE  i + 1 \in W <=> i \in W /\ i + 1 \in Q
    <2>1. \A a, v : Leaves(f[i], a, v) <=> LeftByParts(css, i, a, v)
      BY <1>3, <1>4
    <2>2. RamJoins(f[i], css[i + 1]) <=> PartMeets(css, i + 1)
      <3>1. (i + 1) - 1 = i
        OBVIOUS
      <3> QED  BY <2>1, <3>1 DEF RamJoins, PartMeets, LeftByParts
    <2>3. RamSteps(f[i] \o css[i + 1])
            <=> RamSteps(f[i]) /\ RamSteps(css[i + 1]) /\ RamJoins(f[i], css[i + 1])
      BY <1>3, RamStepsJoin
    <2> QED  BY <1>3, <2>2, <2>3
  <1>6. k \in W <=> \A i \in 1 .. k : i \in Q
    <2> HIDE DEF W, Q
    <2>1. CarriesOver(k, W, Q)
      BY <1>2, <1>5 DEF CarriesOver
    <2> QED  BY <2>1, EveryPart
  <1>7. k \in W <=> RamSteps(FlattenSeq(css))
    BY <1>0, <1>1 DEF PutTogether
  <1>8. (\A i \in 1 .. k : i \in Q) <=> \A j \in 1 .. k : RamSteps(css[j]) /\ PartMeets(css, j)
    OBVIOUS
  <1> HIDE DEF W, Q
  <1> QED  BY <1>0, <1>6, <1>7, <1>8

-----------------------------------------------------------------------------
(* The summary of an address in the claims of a block holds what the block  *)
(* first finds there and what it leaves.                                   *)
LEMMA MemoryClaim ==
    ASSUME NEW c
    PROVE  /\ CycleClaims(c).ram # <<>> <=> c.ram # 0
           /\ c.ram # 0 => /\ CycleClaims(c).ram[2] = c.ram
                           /\ CycleClaims(c).ram[3] = c.read
                           /\ CycleClaims(c).ram[4] = c.write
  <1>1. CycleClaims(c).ram = IF c.ram # 0 THEN <<RowAt(c.at).k, c.ram, c.read, c.write>> ELSE <<>>
    BY Zenon DEF CycleClaims
  <1> QED  BY <1>1

SummaryIsRight(b, a) ==
    LET io == IoClaims(b)
    IN  /\ a \in Touched(io) <=> a # 0 /\ TouchesRam(b.cycles, a)
        /\ a \in Touched(io) =>
               \A v : /\ Finds(b.cycles, a, v) <=> v = RamSummaries(io)[a].first
                      /\ Leaves(b.cycles, a, v) <=> v = RamSummaries(io)[a].final
LEMMA SummariesAreRight ==
    ASSUME NEW X, NEW b, b.cycles \in Seq(X), NEW a
    PROVE  SummaryIsRight(b, a)
  <1> DEFINE cs == b.cycles
             io == IoClaims(b)
             T == Touching(io, a)
  <1>0. PICK k \in Nat : k = Len(cs) /\ DOMAIN cs = 1 .. k
    OBVIOUS
  <1>1. io.cycles = [n \in DOMAIN cs |-> CycleClaims(cs[n])]
    BY Zenon DEF IoClaims
  <1> HIDE DEF io, cs
  <1>2. /\ DOMAIN io.cycles = 1 .. k
        /\ \A n \in 1 .. k : /\ io.cycles[n].ram # <<>> <=> cs[n].ram # 0
                             /\ cs[n].ram # 0 => /\ io.cycles[n].ram[2] = cs[n].ram
                                                 /\ io.cycles[n].ram[3] = cs[n].read
                                                 /\ io.cycles[n].ram[4] = cs[n].write
    <2>1. DOMAIN io.cycles = 1 .. k /\ \A n \in 1 .. k : io.cycles[n] = CycleClaims(cs[n])
      BY <1>0, <1>1
    <2> QED  BY <2>1, MemoryClaim
  <1>3. T = { n \in 1 .. k : cs[n].ram # 0 /\ cs[n].ram = a }
    BY <1>2 DEF Touching
  <1>4. a \in Touched(io) <=> a # 0 /\ \E n \in 1 .. k : cs[n].ram = a
    <2>1. Touched(io) = { io.cycles[n].ram[2] : n \in { n \in 1 .. k : cs[n].ram # 0 } }
      BY <1>2 DEF Touched
    <2>2. a \in Touched(io) <=> \E n \in 1 .. k : cs[n].ram # 0 /\ a = io.cycles[n].ram[2]
      BY <2>1
    <2> QED  BY <1>2, <2>2
  <1>5. ASSUME a \in Touched(io), NEW v
        PROVE  /\ Finds(cs, a, v) <=> v = RamSummaries(io)[a].first
               /\ Leaves(cs, a, v) <=> v = RamSummaries(io)[a].final
    <2>1. a # 0 /\ T # {} /\ T \in SUBSET (1 .. k)
      BY <1>3, <1>4, <1>5
    <2>2. /\ RamSummaries(io)[a].first = io.cycles[FirstOf(T)].ram[3]
          /\ RamSummaries(io)[a].final = io.cycles[LastOf(T)].ram[4]
      BY <1>5 DEF RamSummaries
    <2> HIDE DEF T
    <2>3. PICK p, q : p = FirstOf(T) /\ q = LastOf(T)
      OBVIOUS
    <2>4. /\ p \in T /\ \A n \in T : p <= n
          /\ q \in T /\ \A n \in T : n <= q
      BY <2>1, <2>3, GreatestIs, LeastIs
    <2>5. RamSummaries(io)[a].first = cs[p].read /\ RamSummaries(io)[a].final = cs[q].write
      BY <1>2, <1>3, <2>2, <2>3, <2>4
    <2>6. ASSUME NEW n \in 1 .. k PROVE FindsAt(cs, a, n) <=> n = p
      <3>1. ASSUME FindsAt(cs, a, n) PROVE n = p
        <4>1. n \in T /\ p \in 1 .. k /\ cs[p].ram = a
          BY <1>3, <2>1, <2>4, <3>1 DEF FindsAt
        <4>2. p <= n /\ ~(p \in 1 .. n - 1)
          BY <2>4, <3>1, <4>1 DEF FindsAt
        <4> QED  BY <4>1, <4>2
      <3>2. FindsAt(cs, a, p)
        <4>1. p \in 1 .. k /\ cs[p].ram = a
          BY <1>3, <2>4
        <4>2. ASSUME NEW l \in 1 .. p - 1 PROVE cs[l].ram # a
          <5>1. l \in 1 .. k /\ ~(p <= l)
            BY <4>1
          <5>2. l \notin T
            BY <2>4, <5>1
          <5> QED  BY <1>3, <2>1, <5>1, <5>2
        <4> QED  BY <1>0, <4>1, <4>2 DEF FindsAt
      <3> QED  BY <3>1, <3>2
    <2>7. ASSUME NEW n \in 1 .. k PROVE LeavesAt(cs, a, n) <=> n = q
      <3>1. ASSUME LeavesAt(cs, a, n) PROVE n = q
        <4>1. n \in T /\ q \in 1 .. k /\ cs[q].ram = a
          BY <1>3, <2>1, <2>4, <3>1 DEF LeavesAt
        <4>2. n <= q /\ ~(q \in n + 1 .. k)
          BY <1>0, <2>4, <3>1, <4>1 DEF LeavesAt
        <4> QED  BY <4>1, <4>2
      <3>2. LeavesAt(cs, a, q)
        <4>1. q \in 1 .. k /\ cs[q].ram = a
          BY <1>3, <2>4
        <4>2. ASSUME NEW l \in q + 1 .. k PROVE cs[l].ram # a
          <5>1. l \in 1 .. k /\ ~(l <= q)
            BY <4>1
          <5>2. l \notin T
            BY <2>4, <5>1
          <5> QED  BY <1>3, <2>1, <5>1, <5>2
        <4> QED  BY <1>0, <4>1, <4>2 DEF LeavesAt
      <3> QED  BY <3>1, <3>2
    <2>8. p \in 1 .. k /\ q \in 1 .. k
      BY <2>1, <2>4
    <2> QED  BY <1>0, <2>5, <2>6, <2>7, <2>8 DEF Finds, Leaves
  <1>6. TouchesRam(cs, a) <=> \E n \in 1 .. k : cs[n].ram = a
    BY <1>0 DEF TouchesRam
  <1> QED  BY <1>4, <1>5, <1>6 DEF SummaryIsRight, cs, io

(* What blocks find and leave are claims that agree when the parts meet.    *)
CyclesOf(bs) == [i \in DOMAIN bs |-> bs[i].cycles]
IosOf(bs) == [i \in DOMAIN bs |-> IoClaims(bs[i])]
LEMMA ContinuityOfParts ==
    ASSUME NEW X, NEW bs \in Seq(BlockOf(X))
    PROVE  RamContinuity(IosOf(bs)) <=> \A j \in 1 .. Len(bs) : PartMeets(CyclesOf(bs), j)
  <1> DEFINE css == CyclesOf(bs)
             ios == IosOf(bs)
             Earlier(j, a) == { i \in 1 .. j - 1 : a \in Touched(ios[i]) }
  <1>0. PICK k \in Nat : k = Len(bs) /\ DOMAIN bs = 1 .. k
    OBVIOUS
  <1>1. /\ DOMAIN ios = 1 .. k
        /\ \A i \in 1 .. k : ios[i] = IoClaims(bs[i]) /\ css[i] = bs[i].cycles
    BY <1>0 DEF IosOf, CyclesOf
  <1> HIDE DEF css, ios
  <1>2. ASSUME NEW i \in 1 .. k, NEW a
        PROVE  /\ a \in Touched(ios[i]) <=> a # 0 /\ TouchesRam(css[i], a)
               /\ a \in Touched(ios[i]) =>
                      \A v : /\ Finds(css[i], a, v) <=> v = RamSummaries(ios[i])[a].first
                             /\ Leaves(css[i], a, v) <=> v = RamSummaries(ios[i])[a].final
    <2>1. bs[i].cycles \in Seq(X)
      <3>1. bs[i] \in BlockOf(X)
        BY <1>0
      <3> QED  BY <3>1 DEF BlockOf
    <2>2. SummaryIsRight(bs[i], a)
      BY <2>1, SummariesAreRight
    <2> QED  BY <1>1, <2>2 DEF SummaryIsRight
  <1>3. ASSUME NEW i \in 1 .. k, NEW a, a \in Touched(ios[i]), NEW v
        PROVE  /\ Finds(css[i], a, v) => v = RamSummaries(ios[i])[a].first
               /\ Leaves(css[i], a, v) => v = RamSummaries(ios[i])[a].final
    <2>1. \A u : /\ Finds(css[i], a, u) <=> u = RamSummaries(ios[i])[a].first
                 /\ Leaves(css[i], a, u) <=> u = RamSummaries(ios[i])[a].final
      BY <1>2, <1>3, Zenon
    <2> QED  BY <2>1, Zenon
  <1>4. ASSUME NEW i \in 1 .. k, NEW a, NEW v
        PROVE  /\ Finds(css[i], a, v) => TouchesRam(css[i], a)
               /\ Leaves(css[i], a, v) => TouchesRam(css[i], a)
    BY DEF Finds, FindsAt, Leaves, LeavesAt, TouchesRam
  <1> DEFINE Agrees(j, a) == Earlier(j, a) # {} =>
                RamSummaries(ios[j])[a].first = RamSummaries(ios[LastOf(Earlier(j, a))])[a].final
  <1>5. RamContinuity(ios) <=> \A j \in 1 .. k : \A a \in Touched(ios[j]) : Agrees(j, a)
    BY <1>1, Zenon DEF RamContinuity
  <1>6. ASSUME NEW j \in 1 .. k, NEW a, NEW p,
               Earlier(j, a) # {}, p = LastOf(Earlier(j, a))
        PROVE  /\ p \in 1 .. j - 1 /\ p \in 1 .. k /\ a \in Touched(ios[p])
               /\ \A m \in p + 1 .. j - 1 : a \notin Touched(ios[m])
    <2>1. j - 1 \in Nat /\ Earlier(j, a) \in SUBSET (1 .. j - 1)
      OBVIOUS
    <2>2. p \in Earlier(j, a) /\ \A n \in Earlier(j, a) : n <= p
      <3> HIDE DEF Earlier
      <3> QED  BY <1>6, <2>1, GreatestIs
    <2>3. p \in 1 .. j - 1 /\ a \in Touched(ios[p])
      BY <2>2
    <2>4. ASSUME NEW m \in p + 1 .. j - 1 PROVE a \notin Touched(ios[m])
      <3>1. m \in 1 .. j - 1 /\ ~(m <= p)
        BY <2>3
      <3> QED  BY <2>2, <3>1
    <2> QED  BY <2>3, <2>4
  <1>7. ASSUME NEW j \in 1 .. k, \A a \in Touched(ios[j]) : Agrees(j, a)
        PROVE  PartMeets(css, j)
    <2> SUFFICES ASSUME NEW i \in 1 .. j - 1, NEW a, NEW v, NEW w,
                        a # 0, Leaves(css[i], a, v), Finds(css[j], a, w),
                        \A m \in i + 1 .. j - 1 : ~TouchesRam(css[m], a)
                 PROVE  w = v
      BY DEF PartMeets
    <2>1. i \in 1 .. k
      OBVIOUS
    <2>2. a \in Touched(ios[i]) /\ a \in Touched(ios[j])
      BY <1>2, <1>4, <2>1
    <2>3. i \in Earlier(j, a)
      BY <2>2
    <2>4. PICK p : p = LastOf(Earlier(j, a))
      OBVIOUS
    <2>5. /\ p \in 1 .. j - 1 /\ p \in 1 .. k /\ a \in Touched(ios[p])
          /\ \A m \in p + 1 .. j - 1 : a \notin Touched(ios[m])
      <3> HIDE DEF Earlier
      <3> QED  BY <1>6, <2>3, <2>4
    <2>6. p = i
      <3>1. ~(i \in p + 1 .. j - 1)
        BY <2>2, <2>5
      <3>2. ~(p \in i + 1 .. j - 1)
        BY <1>2, <2>5
      <3> QED  BY <2>5, <3>1, <3>2
    <2>7. RamSummaries(ios[j])[a].first = RamSummaries(ios[i])[a].final
      <3> HIDE DEF Earlier
      <3> QED  BY <1>7, <2>2, <2>3, <2>4, <2>6
    <2>8. v = RamSummaries(ios[i])[a].final
      BY <1>3, <2>1, <2>2
    <2>9. w = RamSummaries(ios[j])[a].first
      BY <1>3, <2>2
    <2> QED  BY <2>7, <2>8, <2>9
  <1>8. ASSUME NEW j \in 1 .. k, PartMeets(css, j), NEW a \in Touched(ios[j]), Earlier(j, a) # {}
        PROVE  RamSummaries(ios[j])[a].first = RamSummaries(ios[LastOf(Earlier(j, a))])[a].final
    <2>1. PICK p : p = LastOf(Earlier(j, a))
      OBVIOUS
    <2>2. /\ p \in 1 .. j - 1 /\ p \in 1 .. k /\ a \in Touched(ios[p])
          /\ \A m \in p + 1 .. j - 1 : a \notin Touched(ios[m])
      <3> HIDE DEF Earlier
      <3> QED  BY <1>6, <1>8, <2>1
    <2>3. PICK v, w : v = RamSummaries(ios[p])[a].final /\ w = RamSummaries(ios[j])[a].first
      OBVIOUS
    <2>4. a # 0 /\ Leaves(css[p], a, v) /\ Finds(css[j], a, w)
      BY <1>2, <2>2, <2>3
    <2>5. \A m \in p + 1 .. j - 1 : ~TouchesRam(css[m], a)
      <3>1. \A m \in p + 1 .. j - 1 : m \in 1 .. k
        BY <2>2
      <3> QED  BY <1>2, <2>2, <2>4, <3>1
    <2>6. w = v
      BY <1>8, <2>2, <2>4, <2>5 DEF PartMeets
    <2> HIDE DEF Earlier
    <2> QED  BY <2>1, <2>3, <2>6
  <1> HIDE DEF Earlier
  <1>9. RamContinuity(ios) <=> \A j \in 1 .. k : PartMeets(css, j)
    <2>1. RamContinuity(ios) => \A j \in 1 .. k : PartMeets(css, j)
      BY <1>5, <1>7
    <2>2. (\A j \in 1 .. k : PartMeets(css, j)) => RamContinuity(ios)
      BY <1>5, <1>8
    <2> QED  BY <2>1, <2>2
  <1> QED  BY <1>0, <1>9 DEF css, ios

-----------------------------------------------------------------------------
(* What the checks of one block with its own bundle come to                 *)
BlockHolds(b, next) ==
    /\ ValidateTraceBlockShape(b)
    /\ CpuHolds(b.cycles, next)
    /\ RegistersFlow(b.startState.registers, b.cycles, b.endState.registers)
    /\ RamSteps(b.cycles)
LEMMA OwnBundleHolds ==
    ASSUME NEW X, NEW b, b.cycles \in Seq(X), NEW next
    PROVE  VerifyBundle(b, next, Bundle(b, next))
               <=> ValidateShape(PublicInput(b)) /\ BlockHolds(b, next)
  <1> DEFINE bundle == Bundle(b, next)
  <1>1. /\ bundle.public = PublicInput(b) /\ bundle.rows = Len(b.cycles)
        /\ bundle.lookahead = next /\ bundle.io = IoClaims(b)
        /\ bundle.register = RegisterClaim(b, IoClaims(b))
        /\ bundle.ram = RamClaim(b, IoClaims(b))
        /\ bundle.lookup = LookupClaim(b, IoClaims(b))
    BY DEF Bundle
  <1> HIDE DEF bundle
  <1>2. PublicInput(b).active = b.active
    BY DEF PublicInput
  <1>3. ValidateCpuR1csBlock(b, next) <=> CpuHolds(b.cycles, next)
    BY Zenon DEF ValidateCpuR1csBlock, CpuHolds, RowChecks
  <1>4. VerifyCpuWitness(b, next, bundle)
          <=> /\ ValidateShape(PublicInput(b)) /\ ValidateTraceBlockShape(b)
              /\ CpuHolds(b.cycles, next)
    <2>1. ValidateTraceBlockShape(b) => bundle.rows = bundle.public.active
      BY <1>1, <1>2 DEF ValidateTraceBlockShape
    <2> QED  BY <1>1, <1>3, <2>1, Zenon DEF VerifyCpuWitness
  <1>5. VerifyIoClaims(b, bundle.io)
          <=> /\ ValidateTraceBlockShape(b)
              /\ RegistersFlow(b.startState.registers, b.cycles, b.endState.registers)
              /\ RamSteps(b.cycles)
    BY <1>1, FlowOfBlock, RamFlowOfBlock, Zenon DEF VerifyIoClaims
  <1>6. VerifyBundle(b, next, bundle)
          <=> VerifyCpuWitness(b, next, bundle) /\ VerifyIoClaims(b, bundle.io)
    BY <1>1, Zenon DEF VerifyBundle
  <1>7. VerifyBundle(b, next, bundle) <=> ValidateShape(PublicInput(b)) /\ BlockHolds(b, next)
    BY <1>4, <1>5, <1>6, Zenon DEF BlockHolds
  <1> QED  BY <1>7 DEF bundle

(* What the checks of a chain with its own bundles come to                  *)
PublicsOf(bs) == [i \in DOMAIN bs |-> PublicInput(bs[i])]
ChainHolds(bs, external) ==
    /\ ValidateBlockChain(PublicsOf(bs))
    /\ \A i \in 1 .. Len(bs) : BlockHolds(bs[i], BlockLookahead(bs, external, i))
    /\ \A j \in 1 .. Len(bs) : PartMeets(CyclesOf(bs), j)
LEMMA ProvableHolds ==
    ASSUME NEW X, NEW bs \in Seq(BlockOf(X)), NEW external
    PROVE  Provable(bs, external) <=> ChainHolds(bs, external)
  <1> DEFINE ps == BundlesOf(bs, external)
  <1>0. PICK k \in Nat : k = Len(bs) /\ DOMAIN bs = 1 .. k
    OBVIOUS
  <1>1. /\ Len(ps) = k /\ DOMAIN ps = 1 .. k
        /\ \A i \in 1 .. k : ps[i] = Bundle(bs[i], BlockLookahead(bs, external, i))
    BY <1>0 DEF BundlesOf
  <1> HIDE DEF ps
  <1>2. ASSUME NEW i \in 1 .. k
        PROVE  /\ bs[i].cycles \in Seq(X)
               /\ ps[i].public = PublicInput(bs[i]) /\ ps[i].io = IoClaims(bs[i])
               /\ ps[i].register.startRegisters = bs[i].startState.registers
               /\ ps[i].register.endRegisters = bs[i].endState.registers
    <2>1. bs[i].cycles \in Seq(X)
      <3>1. bs[i] \in BlockOf(X)
        BY <1>0
      <3> QED  BY <3>1 DEF BlockOf
    <2>2. /\ ps[i].public = PublicInput(bs[i]) /\ ps[i].io = IoClaims(bs[i])
          /\ ps[i].register = RegisterClaim(bs[i], IoClaims(bs[i]))
      BY <1>1 DEF Bundle
    <2>3. /\ RegisterClaim(bs[i], IoClaims(bs[i])).startRegisters = bs[i].startState.registers
          /\ RegisterClaim(bs[i], IoClaims(bs[i])).endRegisters = bs[i].endState.registers
      BY DEF RegisterClaim
    <2> QED  BY <2>1, <2>2, <2>3
  <1>3. /\ [i \in DOMAIN ps |-> ps[i].public] = PublicsOf(bs)
        /\ [i \in DOMAIN ps |-> ps[i].io] = IosOf(bs)
    BY <1>0, <1>1, <1>2 DEF PublicsOf, IosOf
  <1>4. ASSUME ValidateBlockChain(PublicsOf(bs)), NEW i \in 1 .. k - 1
        PROVE  ps[i].register.endRegisters = ps[i + 1].register.startRegisters
    <2>1. Len(PublicsOf(bs)) = k /\ i \in 1 .. k /\ i + 1 \in 1 .. k
      BY <1>0 DEF PublicsOf
    <2>2. PublicsOf(bs)[i] = PublicInput(bs[i]) /\ PublicsOf(bs)[i + 1] = PublicInput(bs[i + 1])
      BY <1>0, <2>1 DEF PublicsOf
    <2>3. ValidateContiguous(PublicInput(bs[i]), PublicInput(bs[i + 1]))
      BY <1>4, <2>1, <2>2 DEF ValidateBlockChain
    <2>4. bs[i + 1].startState = bs[i].endState
      BY <2>3 DEF ValidateContiguous, PublicInput
    <2> QED  BY <1>2, <2>1, <2>4
  <1>5. ASSUME ValidateBlockChain(PublicsOf(bs)), NEW i \in 1 .. k
        PROVE  ValidateShape(PublicInput(bs[i]))
    <2>1. i \in DOMAIN PublicsOf(bs) /\ PublicsOf(bs)[i] = PublicInput(bs[i])
      BY <1>0 DEF PublicsOf
    <2> QED  BY <1>5, <2>1 DEF ValidateBlockChain
  <1>6. ASSUME NEW i \in 1 .. k
        PROVE  VerifyBundle(bs[i], BlockLookahead(bs, external, i), ps[i])
                 <=> /\ ValidateShape(PublicInput(bs[i]))
                     /\ BlockHolds(bs[i], BlockLookahead(bs, external, i))
    <2>1. PICK next : next = BlockLookahead(bs, external, i)
      OBVIOUS
    <2>2. ps[i] = Bundle(bs[i], next) /\ bs[i].cycles \in Seq(X)
      BY <1>1, <1>2, <2>1
    <2>3. VerifyBundle(bs[i], next, Bundle(bs[i], next))
            <=> ValidateShape(PublicInput(bs[i])) /\ BlockHolds(bs[i], next)
      BY <2>2, OwnBundleHolds
    <2> QED  BY <2>1, <2>2, <2>3, Zenon
  <1>7. RamContinuity(IosOf(bs)) <=> \A j \in 1 .. k : PartMeets(CyclesOf(bs), j)
    BY <1>0, ContinuityOfParts
  <1>8. VerifyChain(bs, external, ps)
          <=> /\ ValidateBlockChain(PublicsOf(bs))
              /\ \A i \in 1 .. k : VerifyBundle(bs[i], BlockLookahead(bs, external, i), ps[i])
              /\ \A i \in 1 .. k - 1 :
                    ps[i].register.endRegisters = ps[i + 1].register.startRegisters
              /\ RamContinuity(IosOf(bs))
    BY <1>0, <1>1, <1>3, Zenon DEF VerifyChain
  <1>9. VerifyChain(bs, external, ps) <=> ChainHolds(bs, external)
    BY <1>0, <1>4, <1>5, <1>6, <1>7, <1>8 DEF ChainHolds
  <1> QED  BY <1>9, Zenon DEF Provable, ps

(* Blocks that join: shapes right, each starting where the one before ends, *)
(* and the registers at each end those the cycles leave                     *)
BlocksJoin(bs) ==
    /\ ValidateBlockChain(PublicsOf(bs))
    /\ \A i \in 1 .. Len(bs) :
          /\ ValidateTraceBlockShape(bs[i])
          /\ RegistersEnd(bs[i].startState.registers, bs[i].cycles, bs[i].endState.registers)
WellJoined(bs, X) ==
    /\ \A i \in 1 .. Len(bs) :
          /\ bs[i] \in BlockOf(X) /\ bs[i].cycles \in Seq(X) /\ bs[i].cycles # <<>>
          /\ bs[i].start = bs[i].startState.cycle
          /\ bs[i].endState.cycle = bs[i].start + Len(bs[i].cycles)
          /\ bs[i].atBoundary
          /\ RegistersEnd(bs[i].startState.registers, bs[i].cycles, bs[i].endState.registers)
    /\ \A i \in 1 .. Len(bs) - 1 : bs[i + 1].startState = bs[i].endState
LEMMA JoiningBlocks ==
    ASSUME NEW X, NEW bs \in Seq(BlockOf(X)), BlocksJoin(bs)
    PROVE  WellJoined(bs, X)
  <1>0. PICK k \in Nat : k = Len(bs) /\ DOMAIN bs = 1 .. k
    OBVIOUS
  <1>1. /\ DOMAIN PublicsOf(bs) = 1 .. k /\ Len(PublicsOf(bs)) = k
        /\ \A i \in 1 .. k : PublicsOf(bs)[i] = PublicInput(bs[i])
    BY <1>0 DEF PublicsOf
  <1>2. ASSUME NEW i \in 1 .. k
        PROVE  /\ bs[i] \in BlockOf(X) /\ bs[i].cycles \in Seq(X) /\ bs[i].cycles # <<>>
               /\ bs[i].start = bs[i].startState.cycle
               /\ bs[i].endState.cycle = bs[i].start + Len(bs[i].cycles)
               /\ bs[i].atBoundary
    <2>1. bs[i] \in BlockOf(X)
      BY <1>0
    <2>2. bs[i].cycles \in Seq(X)
      BY <2>1 DEF BlockOf
    <2>3. ValidateShape(PublicInput(bs[i]))
      BY <1>1 DEF BlocksJoin, ValidateBlockChain
    <2>4. /\ bs[i].active # 0 /\ bs[i].start = bs[i].startState.cycle
          /\ bs[i].start + bs[i].active = bs[i].endState.cycle
      BY <2>3 DEF ValidateShape, PublicInput
    <2>5. bs[i].active = Len(bs[i].cycles) /\ bs[i].atBoundary
      BY <1>0 DEF BlocksJoin, ValidateTraceBlockShape
    <2>6. bs[i].cycles # <<>>
      BY <2>4, <2>5
    <2> QED  BY <2>1, <2>2, <2>4, <2>5, <2>6
  <1>3. ASSUME NEW i \in 1 .. k - 1
        PROVE  bs[i + 1].startState = bs[i].endState
    <2>1. i \in 1 .. k /\ i + 1 \in 1 .. k
      OBVIOUS
    <2>2. ValidateContiguous(PublicInput(bs[i]), PublicInput(bs[i + 1]))
      BY <1>1, <2>1 DEF BlocksJoin, ValidateBlockChain
    <2> QED  BY <2>2 DEF ValidateContiguous, PublicInput
  <1> QED  BY <1>0, <1>2, <1>3 DEF WellJoined, BlocksJoin

(* The cycle numbers of the blocks add up to that of the whole.             *)
LEMMA LengthsAddUp ==
    ASSUME NEW X, NEW bs \in Seq(BlockOf(X)), bs # <<>>, WellJoined(bs, X)
    PROVE  /\ CyclesOf(bs) \in Seq(Seq(X)) /\ Trace(bs) \in Seq(X)
           /\ Len(Trace(bs)) # 0
           /\ bs[1].start + Len(Trace(bs)) = bs[Len(bs)].endState.cycle
  <1> DEFINE css == CyclesOf(bs)
  <1>0. PICK k \in Nat : k = Len(bs) /\ DOMAIN bs = 1 .. k /\ k > 0
    OBVIOUS
  <1>1. css \in Seq(Seq(X)) /\ Len(css) = k /\ \A i \in 1 .. k : css[i] = bs[i].cycles
    <2>1. css = [i \in 1 .. k |-> bs[i].cycles]
      BY <1>0 DEF CyclesOf
    <2>2. \A i \in 1 .. k : bs[i].cycles \in Seq(X)
      BY <1>0 DEF WellJoined
    <2> HIDE DEF css
    <2> QED  BY <2>1, <2>2
  <1>2. Trace(bs) = FlattenSeq(css)
    BY Zenon DEF Trace, CyclesOf
  <1> HIDE DEF css
  <1>3. FlattenSeq(css) \in Seq(X)
    BY <1>1, FlattenTyped
  <1>4. PICK f : PutTogether(f, css, X)
    BY <1>1, PartsPutTogether
  <1> DEFINE End(i) == IF i = 0 THEN bs[1].start ELSE bs[i].endState.cycle
             S == {i \in 0 .. k : /\ bs[1].start + Len(f[i]) = End(i)
                                  /\ i # 0 => Len(f[i]) # 0}
  <1>5. \A i \in 1 .. k : bs[i].start \in Nat /\ bs[i].endState.cycle \in Nat
    <2>1. \A i \in 1 .. k : bs[i] \in BlockOf(X)
      BY <1>0
    <2> QED  BY <2>1 DEF BlockOf, StateOf
  <1>6. 0 \in S
    <2>1. Len(f[0]) = 0
      BY <1>4 DEF PutTogether
    <2> QED  BY <1>0, <1>5, <2>1
  <1>7. ASSUME NEW i \in 0 .. k - 1, i \in S
        PROVE  i + 1 \in S
    <2>1. i + 1 \in 1 .. k /\ i + 1 \in 0 .. k
      OBVIOUS
    <2>2. f[i] \in Seq(X) /\ css[i + 1] \in Seq(X) /\ f[i + 1] = f[i] \o css[i + 1]
      BY <1>1, <1>4 DEF PutTogether
    <2>3. Len(f[i + 1]) = Len(f[i]) + Len(css[i + 1]) /\ Len(f[i]) \in Nat
      BY <2>2
    <2>4. /\ css[i + 1] = bs[i + 1].cycles /\ css[i + 1] # <<>>
          /\ bs[i + 1].endState.cycle = bs[i + 1].start + Len(css[i + 1])
      BY <1>0, <1>1, <2>1 DEF WellJoined
    <2>5. Len(css[i + 1]) \in Nat /\ Len(css[i + 1]) # 0
      BY <2>2, <2>4
    <2>6. bs[i + 1].start = End(i)
      <3>1. CASE i = 0
        BY <3>1
      <3>2. CASE i # 0
        <4>1. i \in 1 .. k - 1
          BY <3>2
        <4>2. bs[i + 1].startState = bs[i].endState
          BY <1>0, <4>1 DEF WellJoined
        <4>3. bs[i + 1].start = bs[i + 1].startState.cycle
          BY <1>0, <2>1 DEF WellJoined
        <4> QED  BY <3>2, <4>2, <4>3
      <3> QED  BY <3>1, <3>2
    <2>7. bs[1].start + Len(f[i]) = End(i) /\ bs[1].start \in Nat
      BY <1>0, <1>5, <1>7
    <2>8. End(i + 1) = bs[i + 1].endState.cycle
      BY <2>1
    <2>9. PICK l \in Nat, m \in Nat, n \in Nat :
              l = Len(f[i]) /\ m = Len(css[i + 1]) /\ n = bs[1].start
      BY <2>3, <2>5, <2>7
    <2>10. Len(f[i + 1]) = l + m /\ m # 0 /\ End(i + 1) = (n + l) + m
      <3> HIDE DEF End
      <3> QED  BY <2>3, <2>4, <2>5, <2>6, <2>7, <2>8, <2>9
    <2>11. bs[1].start + Len(f[i + 1]) = End(i + 1) /\ Len(f[i + 1]) # 0
      <3>1. n + (l + m) = (n + l) + m /\ l + m # 0
        BY <2>10
      <3> HIDE DEF End
      <3> QED  BY <2>9, <2>10, <3>1, Zenon
    <2> QED  BY <2>1, <2>11
  <1>8. k \in S
    <2> HIDE DEF S
    <2>1. 0 .. k \subseteq S
      BY <1>6, <1>7, IntervalInduction
    <2> QED  BY <2>1
  <1>9. f[k] = FlattenSeq(css)
    BY <1>1, <1>4 DEF PutTogether
  <1>10. k # 0
    BY <1>0
  <1>11. bs[1].start + Len(FlattenSeq(css)) = bs[k].endState.cycle /\ Len(FlattenSeq(css)) # 0
    BY <1>8, <1>9, <1>10
  <1> QED  BY <1>0, <1>1, <1>2, <1>3, <1>11 DEF css

(* The block that blocks are joined to                                      *)
LEMMA JoinedBlock ==
    ASSUME NEW X, NEW bs \in Seq(BlockOf(X)), bs # <<>>, WellJoined(bs, X)
    PROVE  /\ <<Joined(bs)>> \in Seq(BlockOf(X))
           /\ Joined(bs).cycles = Trace(bs)
           /\ Joined(bs).startState = bs[1].startState
           /\ Joined(bs).endState = bs[Len(bs)].endState
           /\ ValidateTraceBlockShape(Joined(bs))
           /\ ValidateShape(PublicInput(Joined(bs)))
  <1> DEFINE J == Joined(bs)
             T == Trace(bs)
  <1>0. PICK k \in Nat : k = Len(bs) /\ DOMAIN bs = 1 .. k /\ k > 0
    OBVIOUS
  <1>1. /\ T \in Seq(X) /\ Len(T) # 0 /\ Len(T) \in Nat
        /\ bs[1].start + Len(T) = bs[k].endState.cycle
    BY <1>0, LengthsAddUp
  <1>2. bs[1] \in BlockOf(X) /\ bs[k] \in BlockOf(X)
    BY <1>0
  <1>3. \A i \in DOMAIN bs : bs[i].atBoundary
    BY <1>0 DEF WellJoined
  <1>4. bs[1].start = bs[1].startState.cycle
    BY <1>0 DEF WellJoined
  <1> HIDE DEF T
  <1>5. J = [bs[1] EXCEPT !.active = Len(T), !.endState = bs[k].endState, !.cycles = T,
                          !.atBoundary = \A i \in DOMAIN bs : bs[i].atBoundary]
    BY <1>0, Zenon DEF Joined, Last, T
  <1> HIDE DEF J
  <1>6. /\ J \in BlockOf(X) /\ J.cycles = T /\ J.active = Len(T) /\ J.start = bs[1].start
        /\ J.startState = bs[1].startState /\ J.endState = bs[k].endState /\ J.atBoundary
    <2>1. PICK z \in BOOLEAN : z = \A i \in DOMAIN bs : bs[i].atBoundary
      BY Zenon
    <2>2. z
      BY <1>3, <2>1
    <2>3. J = [bs[1] EXCEPT !.active = Len(T), !.endState = bs[k].endState, !.cycles = T,
                            !.atBoundary = z]
      BY <1>5, <2>1, Zenon
    <2> QED  BY <1>1, <1>2, <2>2, <2>3 DEF BlockOf
  <1>7. ValidateTraceBlockShape(J)
    BY <1>6 DEF ValidateTraceBlockShape
  <1>8. ValidateShape(PublicInput(J))
    BY <1>1, <1>4, <1>6 DEF ValidateShape, PublicInput
  <1>9. <<J>> \in Seq(BlockOf(X))
    BY <1>6
  <1> QED  BY <1>0, <1>6, <1>7, <1>8, <1>9 DEF J, T

(* A chain of one block needs no joints.                                    *)
LEMMA ChainOfOne ==
    ASSUME NEW b, NEW external, ValidateShape(PublicInput(b))
    PROVE  ChainHolds(<<b>>, external) <=> BlockHolds(b, BlockLookahead(<<b>>, external, 1))
  <1>1. /\ Len(<<b>>) = 1 /\ DOMAIN <<b>> = 1 .. 1 /\ <<b>>[1] = b
        /\ \A i \in 1 .. 1 : i = 1
        /\ 1 .. 1 - 1 = {}
    OBVIOUS
  <1>2. /\ DOMAIN PublicsOf(<<b>>) = 1 .. 1 /\ PublicsOf(<<b>>)[1] = PublicInput(b)
        /\ Len(PublicsOf(<<b>>)) = 1
    BY <1>1 DEF PublicsOf
  <1>3. ValidateBlockChain(PublicsOf(<<b>>))
    BY <1>1, <1>2 DEF ValidateBlockChain
  <1>4. \A j \in 1 .. 1 : PartMeets(CyclesOf(<<b>>), j)
    BY DEF PartMeets
  <1> QED  BY <1>1, <1>3, <1>4 DEF ChainHolds

(* The cycle after each of the blocks that join, and after the whole        *)
LEMMA LookaheadOfJoined ==
    ASSUME NEW X, NEW bs \in Seq(BlockOf(X)), bs # <<>>, WellJoined(bs, X), NEW external
    PROVE  /\ \A i \in 1 .. Len(bs) - 1 :
                 BlockLookahead(bs, external, i) = <<CyclesOf(bs)[i + 1][1]>>
           /\ BlockLookahead(<<Joined(bs)>>, external, 1)
                 = BlockLookahead(bs, external, Len(bs))
  <1>0. PICK k \in Nat : k = Len(bs) /\ DOMAIN bs = 1 .. k /\ k > 0
    OBVIOUS
  <1>1. ASSUME NEW i \in 1 .. k - 1
        PROVE  BlockLookahead(bs, external, i) = <<CyclesOf(bs)[i + 1][1]>>
    <2>1. i + 1 \in 1 .. k /\ i < k /\ i # k
      OBVIOUS
    <2>2. bs[i + 1].cycles # <<>>
      BY <1>0, <2>1 DEF WellJoined
    <2>3. CyclesOf(bs)[i + 1] = bs[i + 1].cycles
      BY <1>0, <2>1 DEF CyclesOf
    <2> QED  BY <1>0, <2>1, <2>2, <2>3 DEF BlockLookahead
  <1>2. BlockLookahead(<<Joined(bs)>>, external, 1) = BlockLookahead(bs, external, k)
    <2>1. Len(<<Joined(bs)>>) = 1 /\ <<Joined(bs)>>[1] = Joined(bs)
      OBVIOUS
    <2>2. Joined(bs).endState = bs[k].endState
      BY <1>0, JoinedBlock
    <2>3. bs[k].endState.terminated \in BOOLEAN
      <3>1. bs[k] \in BlockOf(X)
        BY <1>0
      <3> QED  BY <3>1 DEF BlockOf, StateOf
    <2>4. ~(k < k)
      OBVIOUS
    <2> QED  BY <1>0, <2>1, <2>2, <2>3, <2>4 DEF BlockLookahead
  <1> QED  BY <1>0, <1>1, <1>2

(* Blocks that join hold exactly when the whole does.                       *)
LEMMA JoinedHolds ==
    ASSUME NEW X, NEW bs \in Seq(BlockOf(X)), bs # <<>>, BlocksJoin(bs), NEW external
    PROVE  ChainHolds(bs, external) <=> ChainHolds(<<Joined(bs)>>, external)
  <1> DEFINE J == Joined(bs)
             css == CyclesOf(bs)
             next == [i \in 1 .. Len(bs) |-> BlockLookahead(bs, external, i)]
             states == [i \in 1 .. Len(bs) + 1 |->
                           IF i = Len(bs) + 1 THEN bs[Len(bs)].endState.registers
                           ELSE bs[i].startState.registers]
  <1>0. PICK k \in Nat : k = Len(bs) /\ DOMAIN bs = 1 .. k /\ k > 0
    OBVIOUS
  <1>1. WellJoined(bs, X)
    BY JoiningBlocks
  <1>2. /\ css \in Seq(Seq(X)) /\ Len(css) = k
        /\ \A i \in 1 .. k : css[i] = bs[i].cycles
        /\ Trace(bs) = FlattenSeq(css)
    <2>1. css \in Seq(Seq(X))
      BY <1>1, LengthsAddUp
    <2>2. Len(css) = k /\ \A i \in 1 .. k : css[i] = bs[i].cycles
      BY <1>0 DEF CyclesOf
    <2>3. Trace(bs) = FlattenSeq(css)
      BY Zenon DEF Trace, CyclesOf
    <2> QED  BY <2>1, <2>2, <2>3
  <1>3. /\ J.cycles = FlattenSeq(css)
        /\ J.startState = bs[1].startState /\ J.endState = bs[k].endState
        /\ ValidateTraceBlockShape(J) /\ ValidateShape(PublicInput(J))
    BY <1>0, <1>1, <1>2, JoinedBlock
  <1>4. /\ \A i \in 1 .. k : next[i] = BlockLookahead(bs, external, i)
        /\ LookAhead(next, css)
        /\ BlockLookahead(<<J>>, external, 1) = next[k]
    <2>1. \A i \in 1 .. k : next[i] = BlockLookahead(bs, external, i)
      BY <1>0
    <2>2. \A i \in 1 .. k - 1 : i \in 1 .. k
      OBVIOUS
    <2>3. \A i \in 1 .. k - 1 : BlockLookahead(bs, external, i) = <<css[i + 1][1]>>
      BY <1>0, <1>1, LookaheadOfJoined
    <2>4. BlockLookahead(<<J>>, external, 1) = BlockLookahead(bs, external, k)
      BY <1>0, <1>1, LookaheadOfJoined
    <2>5. k \in 1 .. k
      BY <1>0
    <2> HIDE DEF next, css, J
    <2> QED  BY <1>2, <2>1, <2>2, <2>3, <2>4, <2>5 DEF LookAhead
  <1>5. /\ states[1] = bs[1].startState.registers
        /\ states[k + 1] = bs[k].endState.registers
        /\ \A i \in 1 .. k : /\ states[i] = bs[i].startState.registers
                             /\ states[i + 1] = bs[i].endState.registers
    <2>1. \A i \in 1 .. k : states[i] = bs[i].startState.registers
      BY <1>0
    <2>2. states[k + 1] = bs[k].endState.registers
      BY <1>0
    <2>3. ASSUME NEW i \in 1 .. k PROVE states[i + 1] = bs[i].endState.registers
      <3>1. CASE i = k
        BY <2>2, <3>1
      <3>2. CASE i # k
        <4>1. i \in 1 .. k - 1 /\ i + 1 \in 1 .. k
          BY <3>2
        <4>2. bs[i + 1].startState = bs[i].endState
          BY <1>0, <1>1, <4>1 DEF WellJoined
        <4> HIDE DEF states
        <4> QED  BY <2>1, <4>1, <4>2
      <3> QED  BY <3>1, <3>2
    <2>4. 1 \in 1 .. k
      BY <1>0
    <2> HIDE DEF states
    <2> QED  BY <2>1, <2>2, <2>3, <2>4
  <1> HIDE DEF J, css, next, states
  <1>6. CpuHolds(J.cycles, next[k]) <=> \A i \in 1 .. k : CpuHolds(css[i], next[i])
    <2>1. \A i \in 1 .. k : css[i] # <<>>
      BY <1>0, <1>1, <1>2 DEF WellJoined
    <2> QED  BY <1>2, <1>3, <1>4, <2>1, CpuOfParts
  <1>7. RegistersFlow(J.startState.registers, J.cycles, J.endState.registers)
          <=> \A i \in 1 .. k : RegistersFlow(states[i], css[i], states[i + 1])
    <2>1. EndsMeet(states, css)
      BY <1>0, <1>1, <1>2, <1>5 DEF EndsMeet, WellJoined
    <2>2. RegistersFlow(states[1], FlattenSeq(css), states[Len(css) + 1])
            <=> \A i \in 1 .. Len(css) : RegistersFlow(states[i], css[i], states[i + 1])
      BY <1>2, <2>1, RegistersOfParts
    <2>3. /\ J.startState.registers = states[1] /\ J.endState.registers = states[Len(css) + 1]
          /\ J.cycles = FlattenSeq(css) /\ Len(css) = k
      BY <1>2, <1>3, <1>5
    <2> QED  BY <2>2, <2>3
  <1>8. RamSteps(J.cycles) <=> \A j \in 1 .. k : RamSteps(css[j]) /\ PartMeets(css, j)
    BY <1>2, <1>3, RamOfParts
  <1>9. ChainHolds(<<J>>, external)
          <=> /\ CpuHolds(J.cycles, next[k])
              /\ RegistersFlow(J.startState.registers, J.cycles, J.endState.registers)
              /\ RamSteps(J.cycles)
    BY <1>3, <1>4, ChainOfOne DEF BlockHolds
  <1>10. ChainHolds(bs, external)
          <=> /\ \A i \in 1 .. k : /\ CpuHolds(css[i], next[i])
                                   /\ RegistersFlow(states[i], css[i], states[i + 1])
                                   /\ RamSteps(css[i])
              /\ \A j \in 1 .. k : PartMeets(css, j)
    <2>1. ValidateBlockChain(PublicsOf(bs)) /\ \A i \in 1 .. k : ValidateTraceBlockShape(bs[i])
      BY <1>0 DEF BlocksJoin
    <2>2. ASSUME NEW i \in 1 .. k
          PROVE  BlockHolds(bs[i], BlockLookahead(bs, external, i))
                   <=> /\ CpuHolds(css[i], next[i])
                       /\ RegistersFlow(states[i], css[i], states[i + 1])
                       /\ RamSteps(css[i])
      BY <1>2, <1>4, <1>5, <2>1 DEF BlockHolds
    <2> QED  BY <1>0, <2>1, <2>2 DEF ChainHolds, css
  <1>11. ChainHolds(bs, external) <=> ChainHolds(<<J>>, external)
    BY <1>6, <1>7, <1>8, <1>9, <1>10
  <1> QED  BY <1>11 DEF J

(* Cutting neither loses a check nor adds one.                              *)
LEMMA CutsAddNothing ==
    ASSUME NEW X, NEW bs \in Seq(BlockOf(X)), bs # <<>>, NEW external
    PROVE  Provable(bs, external) <=> BlocksJoin(bs) /\ Provable(<<Joined(bs)>>, external)
  <1>1. Provable(bs, external) <=> ChainHolds(bs, external)
    BY ProvableHolds
  <1>2. ASSUME ChainHolds(bs, external) PROVE BlocksJoin(bs)
    <2>1. \A g, cs, e : RegistersFlow(g, cs, e) => RegistersEnd(g, cs, e)
      BY Zenon DEF RegistersFlow, RegistersEnd
    <2> QED  BY <1>2, <2>1 DEF ChainHolds, BlocksJoin, BlockHolds
  <1>3. ASSUME BlocksJoin(bs)
        PROVE  Provable(bs, external) <=> Provable(<<Joined(bs)>>, external)
    <2>1. <<Joined(bs)>> \in Seq(BlockOf(X))
      BY <1>3, JoiningBlocks, JoinedBlock
    <2>2. Provable(<<Joined(bs)>>, external) <=> ChainHolds(<<Joined(bs)>>, external)
      BY <2>1, ProvableHolds
    <2>3. ChainHolds(bs, external) <=> ChainHolds(<<Joined(bs)>>, external)
      BY <1>3, JoinedHolds
    <2> QED  BY <1>1, <2>2, <2>3
  <1> QED  BY <1>1, <1>2, <1>3

-----------------------------------------------------------------------------
(* The invariant: blocks are blocks, whatever has happened to them, and     *)
(* there are some once they are handed over.                               *)
BlocksAre(X) ==
    /\ open \in OpenOf(X)
    /\ blocks \in Seq(BlockOf(X)) /\ archive \in Seq(BlockOf(X))
    /\ verdict # "running" => blocks # <<>>
BundlesIInv == \E X : BlocksAre(X)

(* Blocks over X are blocks over more.                                      *)
LEMMA MoreValues ==
    ASSUME NEW X, NEW Y, X \subseteq Y
    PROVE  /\ StateOf(X) \subseteq StateOf(Y) /\ BlockOf(X) \subseteq BlockOf(Y)
           /\ OpenOf(X) \subseteq OpenOf(Y) /\ Seq(BlockOf(X)) \subseteq Seq(BlockOf(Y))
  <1>1. StateOf(X) \subseteq StateOf(Y)
    BY DEF StateOf
  <1>2. Seq(X) \subseteq Seq(Y)
    <2>1. ASSUME NEW s \in Seq(X) PROVE s \in Seq(Y)
      <3>1. \A i \in 1 .. Len(s) : s[i] \in Y
        OBVIOUS
      <3> QED  BY <3>1
    <2> QED  BY <2>1
  <1>3. BlockOf(X) \subseteq BlockOf(Y)
    BY <1>1, <1>2 DEF BlockOf
  <1>4. OpenOf(X) \subseteq OpenOf(Y)
    BY <1>1, <1>2 DEF OpenOf
  <1>5. Seq(BlockOf(X)) \subseteq Seq(BlockOf(Y))
    <2>1. ASSUME NEW s \in Seq(BlockOf(X)) PROVE s \in Seq(BlockOf(Y))
      <3>1. \A i \in 1 .. Len(s) : s[i] \in BlockOf(Y)
        BY <1>3
      <3> QED  BY <3>1
    <2> QED  BY <2>1
  <1> QED  BY <1>1, <1>3, <1>4, <1>5

(* One block replaced                                                      *)
LEMMA OneReplaced ==
    ASSUME NEW X, NEW Y, X \subseteq Y, NEW bs \in Seq(BlockOf(X)),
           NEW i \in DOMAIN bs, NEW b \in BlockOf(Y)
    PROVE  [bs EXCEPT ![i] = b] \in Seq(BlockOf(Y)) /\ [bs EXCEPT ![i] = b] # <<>>
  <1>1. bs \in Seq(BlockOf(Y))
    BY MoreValues
  <1> QED  BY <1>1

(* The trace is cut.                                                       *)
LEMMA CuttingKeepsBlocks ==
    ASSUME NEW X, BlocksAre(X), Pull \/ Cut \/ Again \/ HandOver
    PROVE  BundlesIInv'
  <1>1. CASE Pull
    <2>1. PICK c : c = Upcoming
      OBVIOUS
    <2>2. PICK Y : Y = X \cup {c}
      OBVIOUS
    <2>3. open \in OpenOf(Y) /\ blocks \in Seq(BlockOf(Y)) /\ archive \in Seq(BlockOf(Y))
      <3>1. X \subseteq Y
        BY <2>2
      <3> QED  BY <3>1, MoreValues DEF BlocksAre
    <2>4. open' = [open EXCEPT !.cycles = Append(@, c)]
      BY <1>1, <2>1 DEF Pull
    <2>5. blocks' = blocks /\ archive' = archive /\ verdict' = "running"
      BY <1>1 DEF Pull
    <2>6. open' \in OpenOf(Y)
      <3>1. open.cycles \in Seq(Y) /\ c \in Y
        BY <2>2, <2>3 DEF OpenOf
      <3>2. Append(open.cycles, c) \in Seq(Y)
        BY <3>1
      <3> QED  BY <2>3, <2>4, <3>2 DEF OpenOf
    <2>7. BlocksAre(Y)'
      BY <2>3, <2>5, <2>6 DEF BlocksAre
    <2> QED  BY <2>7 DEF BundlesIInv
  <1>2. CASE Cut
    <2> DEFINE end == BoundaryState(CyclesSoFar, WantsCycle /\ run.ended)
               b == [index |-> Len(blocks), start |-> open.state.cycle, active |-> Len(open.cycles),
                     target |-> target, startState |-> open.state, endState |-> end,
                     cycles |-> open.cycles, atBoundary |-> TRUE]
    <2>1. blocks' = Append(blocks, b) /\ open' = OpenAt(end) /\ archive' = archive
            /\ verdict' = "running"
      BY <1>2 DEF Cut
    <2>2. PICK Y : /\ X \subseteq Y /\ Len(blocks) \in Y /\ target \in Y
                   /\ run.machine.x \in Y /\ run.machine.address \in Y
      <3>1. PICK Y : Y = X \cup {Len(blocks), target, run.machine.x, run.machine.address}
        OBVIOUS
      <3> QED  BY <3>1
    <2>3. open \in OpenOf(Y) /\ blocks \in Seq(BlockOf(Y)) /\ archive \in Seq(BlockOf(Y))
      BY <2>2, MoreValues DEF BlocksAre
    <2>4. open.state \in StateOf(Y) /\ open.state.cycle \in Nat /\ open.cycles \in Seq(Y)
      BY <2>3 DEF OpenOf, StateOf
    <2>5. CyclesSoFar \in Nat /\ Len(open.cycles) \in Nat
      BY <2>4 DEF CyclesSoFar
    <2>6. end \in StateOf(Y)
      <3>1. (WantsCycle /\ run.ended) \in BOOLEAN
        BY Zenon
      <3>2. \A z \in BOOLEAN : BoundaryState(CyclesSoFar, z) \in StateOf(Y)
        BY <2>2, <2>5 DEF BoundaryState, StateOf
      <3> QED  BY <3>1, <3>2, Zenon
    <2> HIDE DEF end
    <2>7. b \in BlockOf(Y)
      BY <2>2, <2>4, <2>5, <2>6 DEF BlockOf
    <2>8. OpenAt(end) \in OpenOf(Y)
      BY <2>6 DEF OpenAt, OpenOf
    <2> HIDE DEF b
    <2>9. Append(blocks, b) \in Seq(BlockOf(Y))
      BY <2>3, <2>7
    <2>10. BlocksAre(Y)'
      BY <2>1, <2>3, <2>8, <2>9 DEF BlocksAre
    <2> QED  BY <2>10 DEF BundlesIInv
  <1>3. CASE Again
    <2> DEFINE Y == X \cup {StartState.registers, EntryAddress}
    <2>1. X \subseteq Y /\ StartState.registers \in Y /\ EntryAddress \in Y
      OBVIOUS
    <2> HIDE DEF Y
    <2>2. blocks \in Seq(BlockOf(Y))
      BY <2>1, MoreValues DEF BlocksAre
    <2>3. OpenAt(StartState) \in OpenOf(Y)
      BY <2>1 DEF OpenAt, OpenOf, StateOf, StartState
    <2>4. /\ open' = OpenAt(StartState) /\ blocks' = <<>> /\ archive' = blocks
          /\ verdict' = "running"
      BY <1>3 DEF Again
    <2>5. BlocksAre(Y)'
      BY <2>2, <2>3, <2>4 DEF BlocksAre
    <2> QED  BY <2>5 DEF BundlesIInv
  <1>4. CASE HandOver
    <2>1. BlocksAre(X)'
      BY <1>4 DEF HandOver, BlocksAre
    <2> QED  BY <2>1 DEF BundlesIInv
  <1> QED  BY <1>1, <1>2, <1>3, <1>4

(* Bundles are made, checked and mixed.                                     *)
LEMMA BundlingKeepsBlocks ==
    ASSUME NEW X, BlocksAre(X), Prove \/ Verify \/ MixLookahead \/ MixBundles
    PROVE  BundlesIInv'
  <1>1. blocks' = blocks /\ archive' = archive /\ open' = open /\ verdict # "running"
    BY DEF Prove, Verify, MixLookahead, MixBundles, Touch
  <1>2. BlocksAre(X)'
    BY <1>1 DEF BlocksAre
  <1> QED  BY <1>2 DEF BundlesIInv

(* Blocks are dropped, mixed and changed.                                   *)
LEMMA LosingKeepsBlocks ==
    ASSUME NEW X, BlocksAre(X), LoseBlock \/ MixBlocks
    PROVE  BundlesIInv'
  <1>1. /\ archive' = archive /\ open' = open /\ verdict' = verdict
    BY DEF LoseBlock, MixBlocks, Touch
  <1>2. blocks' \in Seq(BlockOf(X)) /\ blocks' # <<>>
    <2>1. CASE LoseBlock
      <3>1. PICK i \in DOMAIN blocks : Len(blocks) > 1 /\ blocks' = RemoveAt(blocks, i)
        BY <2>1 DEF LoseBlock
      <3>2. blocks \in Seq(BlockOf(X)) /\ i \in 1 .. Len(blocks)
        BY <3>1 DEF BlocksAre
      <3>3. /\ SubSeq(blocks, 1, i - 1) \in Seq(BlockOf(X))
            /\ SubSeq(blocks, i + 1, Len(blocks)) \in Seq(BlockOf(X))
            /\ Len(SubSeq(blocks, 1, i - 1)) = i - 1
            /\ Len(SubSeq(blocks, i + 1, Len(blocks))) = Len(blocks) - i
        BY <3>2
      <3>4. /\ RemoveAt(blocks, i) \in Seq(BlockOf(X))
            /\ Len(RemoveAt(blocks, i)) = Len(blocks) - 1
        <4>1. PICK s \in Seq(BlockOf(X)), u \in Seq(BlockOf(X)) :
                 s = SubSeq(blocks, 1, i - 1) /\ u = SubSeq(blocks, i + 1, Len(blocks))
          BY <3>3
        <4>2. RemoveAt(blocks, i) = s \o u
          BY <4>1 DEF RemoveAt
        <4>3. s \o u \in Seq(BlockOf(X)) /\ Len(s \o u) = Len(s) + Len(u)
          OBVIOUS
        <4>4. Len(s) = i - 1 /\ Len(u) = Len(blocks) - i /\ Len(blocks) \in Nat
          BY <3>2, <3>3, <4>1
        <4> QED  BY <3>2, <4>2, <4>3, <4>4
      <3> QED  BY <3>1, <3>4
    <2>2. CASE MixBlocks
      <3>1. PICK i \in DOMAIN blocks, b \in Range(blocks) \cup Range(archive) :
                blocks' = [blocks EXCEPT ![i] = b]
        BY <2>2 DEF MixBlocks
      <3>2. blocks \in Seq(BlockOf(X)) /\ archive \in Seq(BlockOf(X))
        BY DEF BlocksAre
      <3>3. b \in BlockOf(X)
        BY <3>2 DEF Range
      <3> QED  BY <3>1, <3>2, <3>3, OneReplaced
    <2> QED  BY <2>1, <2>2
  <1>3. BlocksAre(X)'
    BY <1>1, <1>2 DEF BlocksAre
  <1> QED  BY <1>3 DEF BundlesIInv
LEMMA AlteringKeepsBlocks ==
    ASSUME NEW X, BlocksAre(X), AlterCycle \/ Truncate
    PROVE  BundlesIInv'
  <1>1. /\ archive' = archive /\ open' = open /\ verdict' = verdict
    BY DEF AlterCycle, Truncate, Touch
  <1>2. \E i \in DOMAIN blocks : \E Y : \E b \in BlockOf(Y) :
            X \subseteq Y /\ blocks' = [blocks EXCEPT ![i] = b]
    <2>1. CASE AlterCycle
      <3>0. PICK i \in DOMAIN blocks :
              \E n \in DOMAIN blocks[i].cycles : \E c \in Altered(blocks[i].cycles[n]) :
              \E fit \in BOOLEAN :
              LET b == [blocks[i] EXCEPT !.cycles[n] = c]
              IN  blocks' = [blocks EXCEPT ![i] =
                     IF fit THEN [b EXCEPT !.endState.registers = RegistersAfter(b)[Len(b.cycles)]]
                     ELSE b]
        BY <2>1, Zenon DEF AlterCycle
      <3>1. PICK n \in DOMAIN blocks[i].cycles : \E c : \E fit \in BOOLEAN :
              LET b == [blocks[i] EXCEPT !.cycles[n] = c]
              IN  blocks' = [blocks EXCEPT ![i] =
                     IF fit THEN [b EXCEPT !.endState.registers = RegistersAfter(b)[Len(b.cycles)]]
                     ELSE b]
        BY <3>0, Zenon
      <3>2. PICK c, fit : fit \in BOOLEAN /\
              LET b == [blocks[i] EXCEPT !.cycles[n] = c]
              IN  blocks' = [blocks EXCEPT ![i] =
                     IF fit THEN [b EXCEPT !.endState.registers = RegistersAfter(b)[Len(b.cycles)]]
                     ELSE b]
        BY <3>1, Zenon
      <3> DEFINE b == [blocks[i] EXCEPT !.cycles[n] = c]
                 r == RegistersAfter(b)[Len(b.cycles)]
                 d == [b EXCEPT !.endState.registers = r]
                 Y == X \cup {c, r}
      <3>3. X \subseteq Y /\ c \in Y /\ r \in Y
        OBVIOUS
      <3>4. blocks' = [blocks EXCEPT ![i] = IF fit THEN d ELSE b]
        BY <3>2, Zenon
      <3> HIDE DEF Y, r
      <3>5. blocks[i] \in BlockOf(Y)
        <4>1. blocks[i] \in BlockOf(X)
          BY DEF BlocksAre
        <4> QED  BY <3>3, <4>1, MoreValues
      <3>6. b \in BlockOf(Y)
        <4>1. [blocks[i].cycles EXCEPT ![n] = c] \in Seq(Y)
          BY <3>3, <3>5 DEF BlockOf
        <4> QED  BY <3>5, <4>1 DEF BlockOf
      <3> HIDE DEF b
      <3>7. d \in BlockOf(Y)
        BY <3>3, <3>6 DEF BlockOf, StateOf
      <3> HIDE DEF d
      <3> QED  BY <3>3, <3>4, <3>6, <3>7
    <2>2. CASE Truncate
      <3> DEFINE b == Last(blocks)
                 left == Len(b.cycles) - 1
                 r == RegistersAfter(b)[left]
                 d == [b EXCEPT !.cycles = SubSeq(@, 1, left), !.active = left,
                                !.endState.cycle = b.start + left, !.endState.registers = r]
                 Y == X \cup {r}
      <3>1. left > 0 /\ blocks' = [blocks EXCEPT ![Len(blocks)] = d] /\ verdict # "running"
        BY <2>2, Zenon DEF Truncate, Touch
      <3>2. X \subseteq Y /\ r \in Y
        OBVIOUS
      <3> HIDE DEF Y, r
      <3>3. Len(blocks) \in DOMAIN blocks /\ b \in BlockOf(Y)
        <4>1. blocks \in Seq(BlockOf(X)) /\ blocks # <<>>
          BY <3>1 DEF BlocksAre
        <4>2. Len(blocks) \in DOMAIN blocks /\ b \in BlockOf(X)
          BY <4>1 DEF Last
        <4> QED  BY <3>2, <4>2, MoreValues
      <3> HIDE DEF b
      <3>4. b.cycles \in Seq(Y) /\ b.start \in Nat /\ b.endState \in StateOf(Y)
        BY <3>3 DEF BlockOf
      <3>5. left \in Nat /\ SubSeq(b.cycles, 1, left) \in Seq(Y)
        BY <3>1, <3>4
      <3> HIDE DEF left
      <3>6. d \in BlockOf(Y)
        <4>1. PICK cs \in Seq(Y), m \in Nat : cs = SubSeq(b.cycles, 1, left) /\ m = b.start + left
          <5>1. b.start + left \in Nat
            BY <3>4, <3>5
          <5> QED  BY <3>5, <5>1, Zenon
        <4>2. PICK e : e = [b.endState EXCEPT !.cycle = m, !.registers = r]
          OBVIOUS
        <4>3. e \in StateOf(Y)
          BY <3>2, <3>4, <4>2 DEF StateOf
        <4>4. d = [b EXCEPT !.cycles = cs, !.active = left, !.endState = e]
          BY <3>3, <3>4, <4>1, <4>2 DEF BlockOf, StateOf
        <4> HIDE DEF d
        <4> QED  BY <3>3, <3>5, <4>3, <4>4 DEF BlockOf
      <3> HIDE DEF d
      <3> QED  BY <3>1, <3>2, <3>3, <3>6
    <2> QED  BY <2>1, <2>2
  <1>3. PICK i \in DOMAIN blocks : \E Y : \E b \in BlockOf(Y) :
            X \subseteq Y /\ blocks' = [blocks EXCEPT ![i] = b]
    BY <1>2
  <1>4. PICK Y : \E b \in BlockOf(Y) : X \subseteq Y /\ blocks' = [blocks EXCEPT ![i] = b]
    BY <1>3
  <1>5. blocks' \in Seq(BlockOf(Y)) /\ blocks' # <<>>
    BY <1>4, OneReplaced DEF BlocksAre
  <1>6. open \in OpenOf(Y) /\ archive \in Seq(BlockOf(Y))
    BY <1>4, MoreValues DEF BlocksAre
  <1>7. BlocksAre(Y)'
    BY <1>1, <1>5, <1>6 DEF BlocksAre
  <1> QED  BY <1>7 DEF BundlesIInv
LEMMA AlteringStatesKeepsBlocks ==
    ASSUME NEW X, BlocksAre(X), AlterBoundary
    PROVE  BundlesIInv'
  <1>1. /\ archive' = archive /\ open' = open /\ verdict' = verdict /\ verdict # "running"
    BY DEF AlterBoundary, Touch
  <1>2. PICK i \in 0 .. Len(blocks), ends \in BOOLEAN, starts \in BOOLEAN :
            /\ ends => i > 0
            /\ starts => i < Len(blocks)
            /\ ends \/ starts
            /\ \E s \in AlteredState(IF ends THEN blocks[i].endState ELSE blocks[i + 1].startState) :
                  blocks' = [j \in DOMAIN blocks |->
                              CASE j = i /\ ends -> [blocks[j] EXCEPT !.endState = s]
                                [] j = i + 1 /\ starts -> [blocks[j] EXCEPT !.startState = s]
                                [] OTHER -> blocks[j]]
    BY DEF AlterBoundary
  <1> DEFINE t == IF ends THEN blocks[i].endState ELSE blocks[i + 1].startState
  <1>3. PICK s \in AlteredState(t) :
            blocks' = [j \in DOMAIN blocks |->
                        CASE j = i /\ ends -> [blocks[j] EXCEPT !.endState = s]
                          [] j = i + 1 /\ starts -> [blocks[j] EXCEPT !.startState = s]
                          [] OTHER -> blocks[j]]
    BY <1>2
  <1>4. t \in StateOf(X)
    <2>1. \A j \in 1 .. Len(blocks) : /\ blocks[j].endState \in StateOf(X)
                                      /\ blocks[j].startState \in StateOf(X)
      <3>1. \A j \in 1 .. Len(blocks) : blocks[j] \in BlockOf(X)
        BY DEF BlocksAre
      <3> QED  BY <3>1 DEF BlockOf
    <2>2. IF ends THEN i \in 1 .. Len(blocks) ELSE i + 1 \in 1 .. Len(blocks)
      <3>1. Len(blocks) \in Nat
        BY DEF BlocksAre
      <3> QED  BY <1>2, <3>1
    <2> QED  BY <2>1, <2>2
  <1> DEFINE Y == X \cup {s.registers, s.pc}
  <1>5. X \subseteq Y /\ s.registers \in Y /\ s.pc \in Y
    OBVIOUS
  <1> HIDE DEF Y, t
  <1>6. s \in StateOf(Y)
    <2>1. \/ \E r : s = [t EXCEPT !.registers = r]
          \/ \E z \in BOOLEAN : s = [t EXCEPT !.terminated = z]
          \/ \E z : s = [t EXCEPT !.pc = z]
      BY <1>4 DEF AlteredState, StateOf
    <2>2. t \in StateOf(Y)
      BY <1>4, <1>5, MoreValues
    <2>3. ASSUME NEW r, s = [t EXCEPT !.registers = r] PROVE s \in StateOf(Y)
      BY <1>5, <2>2, <2>3 DEF StateOf
    <2>4. ASSUME NEW z \in BOOLEAN, s = [t EXCEPT !.terminated = z] PROVE s \in StateOf(Y)
      BY <2>2, <2>4 DEF StateOf
    <2>5. ASSUME NEW z, s = [t EXCEPT !.pc = z] PROVE s \in StateOf(Y)
      BY <1>5, <2>2, <2>5 DEF StateOf
    <2> QED  BY <2>1, <2>3, <2>4, <2>5
  <1>7. blocks' \in Seq(BlockOf(Y)) /\ blocks' # <<>>
    <2>1. blocks \in Seq(BlockOf(Y)) /\ blocks # <<>>
      BY <1>1, <1>5, MoreValues DEF BlocksAre
    <2>2. PICK k \in Nat : k = Len(blocks) /\ DOMAIN blocks = 1 .. k /\ k # 0
      BY <2>1
    <2>3. ASSUME NEW j \in 1 .. k
          PROVE  /\ blocks[j] \in BlockOf(Y)
                 /\ [blocks[j] EXCEPT !.endState = s] \in BlockOf(Y)
                 /\ [blocks[j] EXCEPT !.startState = s] \in BlockOf(Y)
      <3>1. blocks[j] \in BlockOf(Y)
        BY <2>1, <2>2
      <3> QED  BY <1>6, <3>1 DEF BlockOf
    <2>4. \A j \in 1 .. k :
             (CASE j = i /\ ends -> [blocks[j] EXCEPT !.endState = s]
                [] j = i + 1 /\ starts -> [blocks[j] EXCEPT !.startState = s]
                [] OTHER -> blocks[j]) \in BlockOf(Y)
      BY <2>3
    <2>5. blocks' = [j \in 1 .. k |->
                        CASE j = i /\ ends -> [blocks[j] EXCEPT !.endState = s]
                          [] j = i + 1 /\ starts -> [blocks[j] EXCEPT !.startState = s]
                          [] OTHER -> blocks[j]]
      BY <1>3, <2>2
    <2>6. blocks' \in [1 .. k -> BlockOf(Y)]
      BY <2>4, <2>5
    <2> QED  BY <2>2, <2>6
  <1>8. open \in OpenOf(Y) /\ archive \in Seq(BlockOf(Y))
    BY <1>5, MoreValues DEF BlocksAre
  <1>9. BlocksAre(Y)'
    BY <1>1, <1>7, <1>8 DEF BlocksAre
  <1> QED  BY <1>9 DEF BundlesIInv

LEMMA BundlesInvariant == BundlesSpec => []BundlesIInv
  <1>1. BundlesInit => BundlesIInv
    <2> SUFFICES ASSUME BundlesInit PROVE BundlesIInv
      OBVIOUS
    <2> DEFINE Y == {StartState.registers, EntryAddress}
    <2>1. StartState.registers \in Y /\ EntryAddress \in Y
      OBVIOUS
    <2> HIDE DEF Y
    <2>2. OpenAt(StartState) \in OpenOf(Y)
      BY <2>1 DEF OpenAt, OpenOf, StateOf, StartState
    <2>3. BlocksAre(Y)
      BY <2>2 DEF BundlesInit, BlocksAre
    <2> QED  BY <2>3 DEF BundlesIInv
  <1>2. BundlesIInv /\ [BundlesNext]_bundleVars => BundlesIInv'
    <2> SUFFICES ASSUME NEW X, BlocksAre(X), [BundlesNext]_bundleVars PROVE BundlesIInv'
      BY DEF BundlesIInv
    <2>1. CASE UNCHANGED bundleVars
      <3>1. BlocksAre(X)'
        BY <2>1 DEF bundleVars, BlocksAre
      <3> QED  BY <3>1 DEF BundlesIInv
    <2>2. CASE BundlesNext
      BY <2>2, CuttingKeepsBlocks, BundlingKeepsBlocks, LosingKeepsBlocks, AlteringKeepsBlocks,
         AlteringStatesKeepsBlocks DEF BundlesNext
    <2> QED  BY <2>1, <2>2
  <1> QED  BY <1>1, <1>2, PTL DEF BundlesSpec

(* Cutting a trace into blocks neither loses a check nor adds one: a chain  *)
(* of any blocks can be proved exactly when its blocks join, the registers  *)
(* at the joints are those the cycles leave, and the whole can be proved as *)
(* one block.                                                              *)
THEOREM CutsNeverMatter == BundlesSpec => []CutsDoNotMatter
  <1>1. BundlesIInv => CutsDoNotMatter
    <2> SUFFICES ASSUME NEW X, BlocksAre(X), verdict = "offered"
                 PROVE  Provable(blocks, lookahead) <=>
                            /\ ValidateBlockChain([i \in DOMAIN blocks |-> PublicInput(blocks[i])])
                            /\ \A i \in DOMAIN blocks :
                                  /\ ValidateTraceBlockShape(blocks[i])
                                  /\ RegistersAfter(blocks[i])[Len(blocks[i].cycles)]
                                        = blocks[i].endState.registers
                            /\ Provable(<<Joined(blocks)>>, lookahead)
      BY Zenon DEF BundlesIInv, CutsDoNotMatter
    <2>1. blocks \in Seq(BlockOf(X)) /\ blocks # <<>>
      BY DEF BlocksAre
    <2>2. DOMAIN blocks = 1 .. Len(blocks)
      BY <2>1
    <2>3. ASSUME NEW i \in 1 .. Len(blocks)
          PROVE  RegistersAfter(blocks[i])[Len(blocks[i].cycles)] = blocks[i].endState.registers
                   <=> RegistersEnd(blocks[i].startState.registers, blocks[i].cycles,
                                    blocks[i].endState.registers)
      <3>1. blocks[i].cycles \in Seq(X)
        <4>1. blocks[i] \in BlockOf(X)
          BY <2>1
        <4> QED  BY <4>1 DEF BlockOf
      <3> QED  BY <3>1, FlowOfBlock
    <2>4. BlocksJoin(blocks)
            <=> /\ ValidateBlockChain([i \in DOMAIN blocks |-> PublicInput(blocks[i])])
                /\ \A i \in DOMAIN blocks :
                      /\ ValidateTraceBlockShape(blocks[i])
                      /\ RegistersAfter(blocks[i])[Len(blocks[i].cycles)]
                            = blocks[i].endState.registers
      BY <2>2, <2>3, Zenon DEF BlocksJoin, PublicsOf
    <2>5. Provable(blocks, lookahead)
            <=> BlocksJoin(blocks) /\ Provable(<<Joined(blocks)>>, lookahead)
      BY <2>1, CutsAddNothing
    <2> QED  BY <2>4, <2>5, Zenon
  <1> QED  BY <1>1, BundlesInvariant, PTL

-----------------------------------------------------------------------------
(* Bundles, whatever parts they have been mixed from                        *)
BundleOf(Z) ==
    [public : Z, rows : Z, lookahead : Z, io : Z, register : Z, ram : Z, lookup : Z]
BundlesAre(Z) == bundles \in Seq(BundleOf(Z))
BoundIInv == (\E Z : BundlesAre(Z)) /\ BundlesAreBound

(* A bundle that a block is verified with is the one made for the block.    *)
LEMMA VerifiedIsOwn ==
    ASSUME NEW Z, NEW b, NEW next, NEW bundle \in BundleOf(Z), VerifyBundle(b, next, bundle)
    PROVE  bundle = Bundle(b, next)
  <1>1. /\ bundle.public = PublicInput(b) /\ bundle.lookahead = next
        /\ bundle.rows = bundle.public.active
        /\ bundle.io = IoClaims(b)
        /\ bundle.register = RegisterClaim(b, bundle.io)
        /\ bundle.ram = RamClaim(b, bundle.io)
        /\ bundle.lookup = LookupClaim(b, bundle.io)
        /\ b.active = Len(b.cycles)
    BY Zenon DEF VerifyBundle, VerifyCpuWitness, VerifyIoClaims, ValidateTraceBlockShape
  <1>2. PublicInput(b).active = b.active
    BY DEF PublicInput
  <1>3. bundle.rows = Len(b.cycles)
    BY <1>1, <1>2
  <1>4. bundle = [public |-> bundle.public, rows |-> bundle.rows, lookahead |-> bundle.lookahead,
                  io |-> bundle.io, register |-> bundle.register, ram |-> bundle.ram,
                  lookup |-> bundle.lookup]
    BY DEF BundleOf
  <1> QED  BY <1>1, <1>3, <1>4, Zenon DEF Bundle

(* A chain is verified with the bundles made for it, and with no others.    *)
LEMMA VerifiedAreOwn ==
    ASSUME NEW X, NEW Z, NEW bs \in Seq(BlockOf(X)), NEW external, NEW ps \in Seq(BundleOf(Z)),
           VerifyChain(bs, external, ps)
    PROVE  ps = BundlesOf(bs, external)
  <1>0. PICK k \in Nat : k = Len(bs) /\ DOMAIN bs = 1 .. k
    OBVIOUS
  <1>1. Len(ps) = k /\ DOMAIN ps = 1 .. k
    BY <1>0 DEF VerifyChain
  <1>2. ASSUME NEW i \in 1 .. k
        PROVE  ps[i] = Bundle(bs[i], BlockLookahead(bs, external, i))
    <2>1. VerifyBundle(bs[i], BlockLookahead(bs, external, i), ps[i])
      BY <1>0 DEF VerifyChain
    <2>2. ps[i] \in BundleOf(Z)
      BY <1>1
    <2> QED  BY <2>1, <2>2, VerifiedIsOwn
  <1>3. ps = [i \in 1 .. k |-> ps[i]]
    BY <1>1
  <1>4. BundlesOf(bs, external) = [i \in 1 .. k |-> Bundle(bs[i], BlockLookahead(bs, external, i))]
    BY <1>0, Zenon DEF BundlesOf
  <1> QED  BY <1>2, <1>3, <1>4

(* The bundles made for a chain are bundles.                                *)
LEMMA OwnAreBundles ==
    ASSUME NEW X, NEW bs \in Seq(BlockOf(X)), NEW external
    PROVE  \E Z : BundlesOf(bs, external) \in Seq(BundleOf(Z))
  <1>0. PICK k \in Nat : k = Len(bs) /\ DOMAIN bs = 1 .. k
    OBVIOUS
  <1>1. PICK ps : ps = BundlesOf(bs, external)
    OBVIOUS
  <1>2. PICK Z : Z = UNION { {ps[i].public, ps[i].rows, ps[i].lookahead, ps[i].io,
                              ps[i].register, ps[i].ram, ps[i].lookup} : i \in 1 .. k }
    OBVIOUS
  <1>3. ps = [i \in 1 .. k |-> Bundle(bs[i], BlockLookahead(bs, external, i))]
    BY <1>0, <1>1, Zenon DEF BundlesOf
  <1>4. ASSUME NEW i \in 1 .. k
        PROVE  ps[i] \in BundleOf(Z)
    <2>1. ps[i] = Bundle(bs[i], BlockLookahead(bs, external, i))
      BY <1>3
    <2>2. ps[i] = [public |-> ps[i].public, rows |-> ps[i].rows, lookahead |-> ps[i].lookahead,
                   io |-> ps[i].io, register |-> ps[i].register, ram |-> ps[i].ram,
                   lookup |-> ps[i].lookup]
      BY <2>1 DEF Bundle
    <2>3. /\ ps[i].public \in Z /\ ps[i].rows \in Z /\ ps[i].lookahead \in Z /\ ps[i].io \in Z
          /\ ps[i].register \in Z /\ ps[i].ram \in Z /\ ps[i].lookup \in Z
      BY <1>2
    <2> QED  BY <2>2, <2>3 DEF BundleOf
  <1>5. ps \in [1 .. k -> BundleOf(Z)]
    BY <1>3, <1>4
  <1>6. ps \in Seq(BundleOf(Z))
    BY <1>5
  <1> QED  BY <1>1, <1>6

(* They stay the same while the blocks do.                                  *)
LEMMA OwnBundlesStay ==
    ASSUME bytecode' = bytecode, blocks' = blocks, lookahead' = lookahead
    PROVE  BundlesOf(blocks, lookahead)' = BundlesOf(blocks, lookahead)
  BY SMT DEF BundlesOf, Bundle, PublicInput, IoClaims, CycleClaims, RowAt, RegisterClaim,
             RamClaim, LookupClaim, BlockLookahead

(* A bundle is good for one block and one following cycle: whatever is done *)
(* to blocks, bundles and the cycle that follows, what a verifier accepts   *)
(* are the bundles that a prover makes for the very blocks it is given.     *)
THEOREM AcceptedBundlesAreBound == BundlesSpec => []BundlesAreBound
  <1>1. BundlesInit => BoundIInv
    BY DEF BundlesInit, BoundIInv, BundlesAre, BundlesAreBound
  <1>2. BundlesIInv /\ BoundIInv /\ [BundlesNext]_bundleVars => BoundIInv'
    <2> SUFFICES ASSUME BundlesIInv, BoundIInv, [BundlesNext]_bundleVars PROVE BoundIInv'
      OBVIOUS
    <2>1. PICK X : blocks \in Seq(BlockOf(X))
      BY DEF BundlesIInv, BlocksAre
    <2>2. PICK Z : bundles \in Seq(BundleOf(Z))
      BY DEF BoundIInv, BundlesAre
    <2>3. CASE UNCHANGED bundleVars
      <3>1. /\ bytecode' = bytecode /\ blocks' = blocks /\ lookahead' = lookahead
            /\ bundles' = bundles /\ verdict' = verdict
        BY <2>3 DEF bundleVars
      <3>2. BundlesOf(blocks, lookahead)' = BundlesOf(blocks, lookahead)
        BY <3>1, OwnBundlesStay
      <3>3. BundlesAreBound'
        BY <3>1, <3>2 DEF BoundIInv, BundlesAreBound
      <3>4. BundlesAre(Z)'
        BY <2>2, <3>1 DEF BundlesAre
      <3> QED  BY <3>3, <3>4 DEF BoundIInv
    <2>4. CASE Pull \/ Cut \/ Again \/ HandOver
      <3>1. bundles' = bundles /\ verdict' # "accepted"
        BY <2>4 DEF Pull, Cut, Again, HandOver
      <3>2. BundlesAre(Z)' /\ BundlesAreBound'
        BY <2>2, <3>1 DEF BundlesAre, BundlesAreBound
      <3> QED  BY <3>2 DEF BoundIInv
    <2>5. CASE Prove
      <3>1. (bundles' = BundlesOf(blocks, lookahead) \/ bundles' = <<>>) /\ verdict' # "accepted"
        BY <2>5 DEF Prove
      <3>2. \E Y : bundles' \in Seq(BundleOf(Y))
        <4>1. \E Y : BundlesOf(blocks, lookahead) \in Seq(BundleOf(Y))
          BY <2>1, OwnAreBundles
        <4>2. <<>> \in Seq(BundleOf(Z))
          OBVIOUS
        <4> QED  BY <3>1, <4>1, <4>2
      <3>3. PICK Y : BundlesAre(Y)'
        BY <3>2 DEF BundlesAre
      <3> QED  BY <3>1, <3>3 DEF BoundIInv, BundlesAreBound
    <2>6. CASE Verify
      <3>1. /\ bundles' = bundles /\ blocks' = blocks /\ lookahead' = lookahead
            /\ bytecode' = bytecode
            /\ verdict' = "accepted" => VerifyChain(blocks, lookahead, bundles)
        BY <2>6 DEF Verify
      <3>2. verdict' = "accepted" => bundles = BundlesOf(blocks, lookahead)
        BY <2>1, <2>2, <3>1, VerifiedAreOwn
      <3>3. BundlesOf(blocks, lookahead)' = BundlesOf(blocks, lookahead)
        BY <3>1, OwnBundlesStay
      <3>4. BundlesAreBound'
        BY <3>1, <3>2, <3>3 DEF BundlesAreBound
      <3>5. BundlesAre(Z)'
        BY <2>2, <3>1 DEF BundlesAre
      <3> QED  BY <3>4, <3>5 DEF BoundIInv
    <2>7. CASE LoseBlock \/ MixBlocks \/ AlterCycle \/ AlterBoundary \/ Truncate \/ MixLookahead
      <3>1. bundles' = bundles /\ verdict' # "accepted"
        BY <2>7 DEF LoseBlock, MixBlocks, AlterCycle, AlterBoundary, Truncate, MixLookahead, Touch
      <3>2. BundlesAre(Z)' /\ BundlesAreBound'
        BY <2>2, <3>1 DEF BundlesAre, BundlesAreBound
      <3> QED  BY <3>2 DEF BoundIInv
    <2>8. CASE MixBundles
      <3>1. verdict' # "accepted"
        BY <2>8 DEF MixBundles, Touch
      <3>2. PICK i \in DOMAIN bundles, j \in DOMAIN bundles,
                 part \in {"public", "lookahead", "io", "register", "ram", "lookup"} :
                bundles' = [bundles EXCEPT ![i] = [bundles[i] EXCEPT ![part] = bundles[j][part]]]
        BY <2>8 DEF MixBundles
      <3>3. bundles[i] \in BundleOf(Z) /\ bundles[j] \in BundleOf(Z)
        BY <2>2
      <3>4. [bundles[i] EXCEPT ![part] = bundles[j][part]] \in BundleOf(Z)
        BY <3>3 DEF BundleOf
      <3>5. BundlesAre(Z)'
        BY <2>2, <3>2, <3>4 DEF BundlesAre
      <3> QED  BY <3>1, <3>5 DEF BoundIInv, BundlesAreBound
    <2> QED  BY <2>3, <2>4, <2>5, <2>6, <2>7, <2>8 DEF BundlesNext
  <1>3. BoundIInv => BundlesAreBound
    BY DEF BoundIInv
  <1> QED  BY <1>1, <1>2, <1>3, BundlesInvariant, PTL DEF BundlesSpec
-----------------------------------------------------------------------------
(* 2^n is a natural number above 0: there are as many sets of n things.     *)
LEMMA PowerIsNat == ASSUME NEW n \in Nat PROVE 2^n \in Nat \ {0}
  <1>1. IsFiniteSet(1 .. n) /\ Cardinality(1 .. n) = n
    BY FS_Interval
  <1>2. Cardinality(SUBSET (1 .. n)) = 2^n /\ IsFiniteSet(SUBSET (1 .. n))
    BY <1>1, FS_SUBSET
  <1>3. Cardinality(SUBSET (1 .. n)) \in Nat
    BY <1>2, FS_CardinalityType
  <1>4. Cardinality(SUBSET (1 .. n)) # 0
    BY <1>2, FS_EmptySet
  <1> QED  BY <1>2, <1>3, <1>4

(* Columns of a cycle: numbers, with the flags of a row; only a branch row   *)
(* branches, and the rows that follow are as the bytecode has them: the first *)
(* row of a sequence is virtual.                                            *)
NumberColumns(c) ==
    /\ c.left \in Int /\ c.right \in Int /\ c.product \in Int
    /\ c.leftLookup \in Int /\ c.rightLookup \in Int /\ c.lookupOutput \in Int
    /\ c.rs1 \in Int /\ c.rs2 \in Int /\ c.rdWrite \in Int
    /\ c.ramAddress \in Int /\ c.ramRead \in Int /\ c.ramWrite \in Int
    /\ c.pc \in Int /\ c.nextPc \in Int
    /\ c.unexpandedPc \in Int /\ c.nextUnexpandedPc \in Int
    /\ c.imm \in Int
ColumnsOfRow(c, row) ==
    /\ NumberColumns(c)
    /\ c.flags = CircuitFlags(row)
    /\ c.shouldBranch \in {0, Indicator(row.k \in BranchKinds)}
    /\ c.nextIsVirtual \in {0, 1} /\ c.nextIsFirst \in {0, c.nextIsVirtual}
(* The sums that the evaluators take in machine words do not overflow.       *)
SumsFit(c) ==
    /\ c.pc + 1 \in Word
    /\ \A d \in {0, 2, 4} : c.unexpandedPc + d \in Word
    /\ "DoNotUpdateUnexpandedPC" \in c.flags /\ "IsCompressed" \in c.flags =>
           c.unexpandedPc - 2 \in Word

(* What the proof uses of the flags of a row                                *)
LEMMA FlagsOfRow ==
    ASSUME NEW row, NEW F, F = CircuitFlags(row)
    PROVE  /\ ~("Load" \in F /\ "Store" \in F)
           /\ "AddOperands" \in F => {"SubtractOperands", "MultiplyOperands", "Advice"} \cap F = {}
           /\ "SubtractOperands" \in F => {"MultiplyOperands", "Advice"} \cap F = {}
           /\ "MultiplyOperands" \in F => "Advice" \notin F
           /\ "IsLastInSequence" \in F => "VirtualInstruction" \in F
           /\ row.k \in BranchKinds => "Jump" \notin F
  <1> DEFINE K == KindFlags(row.k)
             S == SequenceFlags(row)
             Kinds == {"AddOperands", "SubtractOperands", "MultiplyOperands", "Load", "Store",
                       "Jump", "WriteLookupOutputToRD", "Assert", "Advice"}
  <1>1. /\ \A f \in Kinds : f \notin S
        /\ "IsLastInSequence" \in S => "VirtualInstruction" \in S
    BY DEF SequenceFlags, NotInSequence
  <1>2. "IsLastInSequence" \notin K
    BY DEF KindFlags
  <1>3. /\ "AddOperands" \in K <=> row.k \in AddOperands
        /\ "SubtractOperands" \in K <=> row.k \in SubtractOperands
        /\ "MultiplyOperands" \in K <=> row.k \in MultiplyOperands
    BY DEF KindFlags
  <1>4. /\ "Load" \in K <=> row.k = "LD"
        /\ "Store" \in K <=> row.k = "SD"
        /\ "Jump" \in K <=> row.k \in Jumps
        /\ "Advice" \in K <=> row.k \in AdviceKinds
    BY DEF KindFlags
  <1>5. CASE row.k = "NoOp"
    BY <1>5 DEF CircuitFlags, BranchKinds
  <1>6. CASE row.k # "NoOp"
    <2>1. F = K \cup S
      BY <1>6 DEF CircuitFlags
    <2>2. \A f \in Kinds : f \in F <=> f \in K
      BY <2>1, <1>1
    <2>3. /\ ~("Load" \in F /\ "Store" \in F)
          /\ row.k \in BranchKinds => "Jump" \notin F
      BY <2>2, <1>4 DEF BranchKinds, Jumps
    <2>4. /\ AddOperands \cap (SubtractOperands \cup MultiplyOperands \cup AdviceKinds) = {}
          /\ SubtractOperands \cap (MultiplyOperands \cup AdviceKinds) = {}
          /\ MultiplyOperands \cap AdviceKinds = {}
      BY DEF AddOperands, SubtractOperands, MultiplyOperands, AdviceKinds
    <2>5. /\ "AddOperands" \in F <=> row.k \in AddOperands
          /\ "SubtractOperands" \in F <=> row.k \in SubtractOperands
          /\ "MultiplyOperands" \in F <=> row.k \in MultiplyOperands
          /\ "Advice" \in F <=> row.k \in AdviceKinds
      BY <2>2, <1>3, <1>4
    <2>6. "IsLastInSequence" \in F => "VirtualInstruction" \in F
      BY <2>1, <1>1, <1>2
    <2> QED  BY <2>3, <2>4, <2>5, <2>6
  <1> QED  BY <1>5, <1>6

LEMMA FlagIsNumber ==
    ASSUME NEW c, NEW f
    PROVE  /\ Flag(c, f) \in {0, 1}
           /\ Flag(c, f) = 1 <=> f \in c.flags
           /\ Flag(c, f) = 0 <=> f \notin c.flags
  BY DEF Flag, Indicator

(* The constraints, one by one: each group is a record of formulas, all of   *)
(* which have to hold.                                                      *)
LEMMA ConstraintsOneByOne ==
    ASSUME NEW c
    PROVE  /\ All(RamConstraints(c)) <=>
                /\ EqualIf(Flag(c, "Load") + Flag(c, "Store"), c.ramAddress, c.rs1 + c.imm)
                /\ EqualIf(1 - (Flag(c, "Load") + Flag(c, "Store")), c.ramAddress, 0)
                /\ EqualIf(Flag(c, "Load"), c.ramRead, c.ramWrite)
                /\ EqualIf(Flag(c, "Store"), c.rs2, c.ramWrite)
           /\ All(RdConstraints(c)) <=>
                /\ EqualIf(Flag(c, "Load"), c.ramRead, c.rdWrite)
                /\ EqualIf(Flag(c, "WriteLookupOutputToRD"), c.rdWrite, c.lookupOutput)
                /\ EqualIf(Flag(c, "Jump"), c.rdWrite, c.unexpandedPc + 4 - 2 * Flag(c, "IsCompressed"))
           /\ All(LookupConstraints(c)) <=>
                /\ EqualIf(Flag(c, "AddOperands") + Flag(c, "SubtractOperands") + Flag(c, "MultiplyOperands"),
                           c.leftLookup, 0)
                /\ EqualIf(1 - Flag(c, "AddOperands") - Flag(c, "SubtractOperands") - Flag(c, "MultiplyOperands"),
                           c.leftLookup, c.left)
                /\ EqualIf(Flag(c, "AddOperands"), c.rightLookup, c.left + c.right)
                /\ EqualIf(Flag(c, "SubtractOperands"), c.rightLookup, c.left - c.right + 2^N)
                /\ EqualIf(Flag(c, "MultiplyOperands"), c.rightLookup, c.product)
                /\ EqualIf(1 - Flag(c, "AddOperands") - Flag(c, "SubtractOperands") - Flag(c, "MultiplyOperands")
                             - Flag(c, "Advice"), c.rightLookup, c.right)
                /\ EqualIf(Flag(c, "Assert"), c.lookupOutput, 1)
           /\ All(PcConstraints(c)) <=>
                /\ EqualIf(c.shouldJump, c.nextUnexpandedPc, c.lookupOutput)
                /\ EqualIf(c.shouldBranch, c.nextUnexpandedPc, c.unexpandedPc + c.imm)
                /\ EqualIf(1 - c.shouldBranch - Flag(c, "Jump"), c.nextUnexpandedPc,
                           c.unexpandedPc + 4 - 4 * Flag(c, "DoNotUpdateUnexpandedPC")
                                              - 2 * Flag(c, "IsCompressed"))
                /\ EqualIf(Flag(c, "VirtualInstruction") - Flag(c, "IsLastInSequence"),
                           c.nextPc, c.pc + 1)
                /\ EqualIf(EntersMidSequence(c), 1, Flag(c, "DoNotUpdateUnexpandedPC"))
  <1> DEFINE ram == RamConstraints(c)
             rd == RdConstraints(c)
             look == LookupConstraints(c)
             pc == PcConstraints(c)
  <1>1. All(ram) <=>
            /\ ram.RamAddrEqRs1PlusImmIfLoadStore
            /\ ram.RamAddrEqZeroIfNotLoadStore
            /\ ram.RamReadEqRamWriteIfLoad
            /\ ram.Rs2EqRamWriteIfStore
    BY DEF All, RamConstraints
  <1>2. /\ ram.RamAddrEqRs1PlusImmIfLoadStore = (EqualIf(Flag(c, "Load") + Flag(c, "Store"), c.ramAddress, c.rs1 + c.imm))
        /\ ram.RamAddrEqZeroIfNotLoadStore = (EqualIf(1 - (Flag(c, "Load") + Flag(c, "Store")), c.ramAddress, 0))
        /\ ram.RamReadEqRamWriteIfLoad = (EqualIf(Flag(c, "Load"), c.ramRead, c.ramWrite))
        /\ ram.Rs2EqRamWriteIfStore = (EqualIf(Flag(c, "Store"), c.rs2, c.ramWrite))
    BY DEF RamConstraints
  <1>3. All(rd) <=>
            /\ rd.RamReadEqRdWriteIfLoad
            /\ rd.RdWriteEqLookupIfWriteLookupToRd
            /\ rd.RdWriteEqPCPlusConstIfWritePCtoRD
    BY DEF All, RdConstraints
  <1>4. /\ rd.RamReadEqRdWriteIfLoad = (EqualIf(Flag(c, "Load"), c.ramRead, c.rdWrite))
        /\ rd.RdWriteEqLookupIfWriteLookupToRd = (EqualIf(Flag(c, "WriteLookupOutputToRD"), c.rdWrite, c.lookupOutput))
        /\ rd.RdWriteEqPCPlusConstIfWritePCtoRD = (EqualIf(Flag(c, "Jump"), c.rdWrite, c.unexpandedPc + 4 - 2 * Flag(c, "IsCompressed")))
    BY DEF RdConstraints
  <1>5. All(look) <=>
            /\ look.LeftLookupZeroUnlessAddSubMul
            /\ look.LeftLookupEqLeftInputOtherwise
            /\ look.RightLookupAdd
            /\ look.RightLookupSub
            /\ look.RightLookupEqProductIfMul
            /\ look.RightLookupEqRightInputOtherwise
            /\ look.AssertLookupOne
    BY DEF All, LookupConstraints
  <1>6. /\ look.LeftLookupZeroUnlessAddSubMul = (EqualIf(Flag(c, "AddOperands") + Flag(c, "SubtractOperands") + Flag(c, "MultiplyOperands"),
                           c.leftLookup, 0))
        /\ look.LeftLookupEqLeftInputOtherwise = (EqualIf(1 - Flag(c, "AddOperands") - Flag(c, "SubtractOperands") - Flag(c, "MultiplyOperands"),
                           c.leftLookup, c.left))
        /\ look.RightLookupAdd = (EqualIf(Flag(c, "AddOperands"), c.rightLookup, c.left + c.right))
        /\ look.RightLookupSub = (EqualIf(Flag(c, "SubtractOperands"), c.rightLookup, c.left - c.right + 2^N))
        /\ look.RightLookupEqProductIfMul = (EqualIf(Flag(c, "MultiplyOperands"), c.rightLookup, c.product))
        /\ look.RightLookupEqRightInputOtherwise = (EqualIf(1 - Flag(c, "AddOperands") - Flag(c, "SubtractOperands") - Flag(c, "MultiplyOperands")
                             - Flag(c, "Advice"), c.rightLookup, c.right))
        /\ look.AssertLookupOne = (EqualIf(Flag(c, "Assert"), c.lookupOutput, 1))
    BY DEF LookupConstraints
  <1>7. All(pc) <=>
            /\ pc.NextUnexpPCEqLookupIfShouldJump
            /\ pc.NextUnexpPCEqPCPlusImmIfShouldBranch
            /\ pc.NextUnexpPCUpdateOtherwise
            /\ pc.NextPCEqPCPlusOneIfInline
            /\ pc.MustStartSequenceFromBeginning
    BY DEF All, PcConstraints
  <1>8. /\ pc.NextUnexpPCEqLookupIfShouldJump = (EqualIf(c.shouldJump, c.nextUnexpandedPc, c.lookupOutput))
        /\ pc.NextUnexpPCEqPCPlusImmIfShouldBranch = (EqualIf(c.shouldBranch, c.nextUnexpandedPc, c.unexpandedPc + c.imm))
        /\ pc.NextUnexpPCUpdateOtherwise = (EqualIf(1 - c.shouldBranch - Flag(c, "Jump"), c.nextUnexpandedPc,
                           c.unexpandedPc + 4 - 4 * Flag(c, "DoNotUpdateUnexpandedPC")
                                              - 2 * Flag(c, "IsCompressed")))
        /\ pc.NextPCEqPCPlusOneIfInline = (EqualIf(Flag(c, "VirtualInstruction") - Flag(c, "IsLastInSequence"),
                           c.nextPc, c.pc + 1))
        /\ pc.MustStartSequenceFromBeginning = (EqualIf(EntersMidSequence(c), 1, Flag(c, "DoNotUpdateUnexpandedPC")))
    BY DEF PcConstraints
  <1> HIDE DEF ram, rd, look, pc
  <1>9. All(ram) <=>
            /\ EqualIf(Flag(c, "Load") + Flag(c, "Store"), c.ramAddress, c.rs1 + c.imm)
            /\ EqualIf(1 - (Flag(c, "Load") + Flag(c, "Store")), c.ramAddress, 0)
            /\ EqualIf(Flag(c, "Load"), c.ramRead, c.ramWrite)
            /\ EqualIf(Flag(c, "Store"), c.rs2, c.ramWrite)
    BY <1>1, <1>2, Zenon
  <1>10. All(rd) <=>
            /\ EqualIf(Flag(c, "Load"), c.ramRead, c.rdWrite)
            /\ EqualIf(Flag(c, "WriteLookupOutputToRD"), c.rdWrite, c.lookupOutput)
            /\ EqualIf(Flag(c, "Jump"), c.rdWrite, c.unexpandedPc + 4 - 2 * Flag(c, "IsCompressed"))
    BY <1>3, <1>4, Zenon
  <1>11. All(look) <=>
            /\ EqualIf(Flag(c, "AddOperands") + Flag(c, "SubtractOperands") + Flag(c, "MultiplyOperands"),
                           c.leftLookup, 0)
            /\ EqualIf(1 - Flag(c, "AddOperands") - Flag(c, "SubtractOperands") - Flag(c, "MultiplyOperands"),
                           c.leftLookup, c.left)
            /\ EqualIf(Flag(c, "AddOperands"), c.rightLookup, c.left + c.right)
            /\ EqualIf(Flag(c, "SubtractOperands"), c.rightLookup, c.left - c.right + 2^N)
            /\ EqualIf(Flag(c, "MultiplyOperands"), c.rightLookup, c.product)
            /\ EqualIf(1 - Flag(c, "AddOperands") - Flag(c, "SubtractOperands") - Flag(c, "MultiplyOperands")
                             - Flag(c, "Advice"), c.rightLookup, c.right)
            /\ EqualIf(Flag(c, "Assert"), c.lookupOutput, 1)
    BY <1>5, <1>6, Zenon
  <1>12. All(pc) <=>
            /\ EqualIf(c.shouldJump, c.nextUnexpandedPc, c.lookupOutput)
            /\ EqualIf(c.shouldBranch, c.nextUnexpandedPc, c.unexpandedPc + c.imm)
            /\ EqualIf(1 - c.shouldBranch - Flag(c, "Jump"), c.nextUnexpandedPc,
                           c.unexpandedPc + 4 - 4 * Flag(c, "DoNotUpdateUnexpandedPC")
                                              - 2 * Flag(c, "IsCompressed"))
            /\ EqualIf(Flag(c, "VirtualInstruction") - Flag(c, "IsLastInSequence"),
                           c.nextPc, c.pc + 1)
            /\ EqualIf(EntersMidSequence(c), 1, Flag(c, "DoNotUpdateUnexpandedPC"))
    BY <1>7, <1>8, Zenon
  <1> QED  BY <1>9, <1>10, <1>11, <1>12, Zenon DEF ram, rd, look, pc

(* The evaluators, one by one                                               *)
LEMMA EvaluatorsOneByOne ==
    ASSUME NEW c
    PROVE  /\ All(EvaluatedFirstGroup(c)) <=>
                /\ ~("Load" \in c.flags \/ "Store" \in c.flags) => c.ramAddress = 0
                /\ "Load" \in c.flags => c.ramRead - c.ramWrite = 0
                /\ "Load" \in c.flags => c.ramRead - c.rdWrite = 0
                /\ "Store" \in c.flags => c.rs2 - c.ramWrite = 0
                /\ ("AddOperands" \in c.flags \/ "SubtractOperands" \in c.flags
                    \/ "MultiplyOperands" \in c.flags) => c.leftLookup = 0
                /\ ~("AddOperands" \in c.flags \/ "SubtractOperands" \in c.flags
                    \/ "MultiplyOperands" \in c.flags) => c.leftLookup - c.left = 0
                /\ "Assert" \in c.flags => c.lookupOutput - 1 = 0
                /\ c.shouldJump # 0 => c.nextUnexpandedPc - c.lookupOutput = 0
                /\ "VirtualInstruction" \in c.flags /\ ~("IsLastInSequence" \in c.flags)
                    => c.nextPc - Wrap(c.pc + 1) = 0
                /\ c.nextIsVirtual # 0 /\ c.nextIsFirst = 0 => "DoNotUpdateUnexpandedPC" \in c.flags
           /\ All(EvaluatedSecondGroup(c)) <=>
                /\ "Load" \in c.flags \/ "Store" \in c.flags => c.ramAddress - (c.rs1 + c.imm) = 0
                /\ "AddOperands" \in c.flags => c.rightLookup - (c.left + c.right) = 0
                /\ "SubtractOperands" \in c.flags => c.rightLookup - (c.left - c.right + 2^N) = 0
                /\ "MultiplyOperands" \in c.flags => c.rightLookup - c.product = 0
                /\ RightOperandAlone(c) => c.rightLookup - c.right = 0
                /\ "WriteLookupOutputToRD" \in c.flags => c.rdWrite - c.lookupOutput = 0
                /\ "Jump" \in c.flags
                    => c.rdWrite - Wrap(c.unexpandedPc + (4 - (IF "IsCompressed" \in c.flags THEN 2 ELSE 0))) = 0
                /\ c.shouldBranch # 0 => c.nextUnexpandedPc - (c.unexpandedPc + c.imm) = 0
                /\ ~("Jump" \in c.flags) /\ c.shouldBranch = 0
                    => c.nextUnexpandedPc - Wrap(c.unexpandedPc + ((4 - (IF "IsCompressed" \in c.flags THEN 2 ELSE 0))
                               - (IF "DoNotUpdateUnexpandedPC" \in c.flags THEN 4 ELSE 0))) = 0
  <1> DEFINE one == EvaluatedFirstGroup(c)
             two == EvaluatedSecondGroup(c)
  <1>1. All(one) <=>
            /\ one.RamAddrEqZeroIfNotLoadStore
            /\ one.RamReadEqRamWriteIfLoad
            /\ one.RamReadEqRdWriteIfLoad
            /\ one.Rs2EqRamWriteIfStore
            /\ one.LeftLookupZeroUnlessAddSubMul
            /\ one.LeftLookupEqLeftInputOtherwise
            /\ one.AssertLookupOne
            /\ one.NextUnexpPCEqLookupIfShouldJump
            /\ one.NextPCEqPCPlusOneIfInline
            /\ one.MustStartSequenceFromBeginning
    BY DEF All, EvaluatedFirstGroup
  <1>2. /\ one.RamAddrEqZeroIfNotLoadStore = (~("Load" \in c.flags \/ "Store" \in c.flags) => c.ramAddress = 0)
        /\ one.RamReadEqRamWriteIfLoad = ("Load" \in c.flags => c.ramRead - c.ramWrite = 0)
        /\ one.RamReadEqRdWriteIfLoad = ("Load" \in c.flags => c.ramRead - c.rdWrite = 0)
        /\ one.Rs2EqRamWriteIfStore = ("Store" \in c.flags => c.rs2 - c.ramWrite = 0)
        /\ one.LeftLookupZeroUnlessAddSubMul = (("AddOperands" \in c.flags \/ "SubtractOperands" \in c.flags
                    \/ "MultiplyOperands" \in c.flags) => c.leftLookup = 0)
        /\ one.LeftLookupEqLeftInputOtherwise = (~("AddOperands" \in c.flags \/ "SubtractOperands" \in c.flags
                    \/ "MultiplyOperands" \in c.flags) => c.leftLookup - c.left = 0)
        /\ one.AssertLookupOne = ("Assert" \in c.flags => c.lookupOutput - 1 = 0)
        /\ one.NextUnexpPCEqLookupIfShouldJump = (c.shouldJump # 0 => c.nextUnexpandedPc - c.lookupOutput = 0)
        /\ one.NextPCEqPCPlusOneIfInline = ("VirtualInstruction" \in c.flags /\ ~("IsLastInSequence" \in c.flags)
                    => c.nextPc - Wrap(c.pc + 1) = 0)
        /\ one.MustStartSequenceFromBeginning = (c.nextIsVirtual # 0 /\ c.nextIsFirst = 0 => "DoNotUpdateUnexpandedPC" \in c.flags)
    BY DEF EvaluatedFirstGroup
  <1>3. All(two) <=>
            /\ two.RamAddrEqRs1PlusImmIfLoadStore
            /\ two.RightLookupAdd
            /\ two.RightLookupSub
            /\ two.RightLookupEqProductIfMul
            /\ two.RightLookupEqRightInputOtherwise
            /\ two.RdWriteEqLookupIfWriteLookupToRd
            /\ two.RdWriteEqPCPlusConstIfWritePCtoRD
            /\ two.NextUnexpPCEqPCPlusImmIfShouldBranch
            /\ two.NextUnexpPCUpdateOtherwise
    BY DEF All, EvaluatedSecondGroup
  <1>4. /\ two.RamAddrEqRs1PlusImmIfLoadStore = ("Load" \in c.flags \/ "Store" \in c.flags => c.ramAddress - (c.rs1 + c.imm) = 0)
        /\ two.RightLookupAdd = ("AddOperands" \in c.flags => c.rightLookup - (c.left + c.right) = 0)
        /\ two.RightLookupSub = ("SubtractOperands" \in c.flags => c.rightLookup - (c.left - c.right + 2^N) = 0)
        /\ two.RightLookupEqProductIfMul = ("MultiplyOperands" \in c.flags => c.rightLookup - c.product = 0)
        /\ two.RightLookupEqRightInputOtherwise = (RightOperandAlone(c) => c.rightLookup - c.right = 0)
        /\ two.RdWriteEqLookupIfWriteLookupToRd = ("WriteLookupOutputToRD" \in c.flags => c.rdWrite - c.lookupOutput = 0)
        /\ two.RdWriteEqPCPlusConstIfWritePCtoRD = ("Jump" \in c.flags
                    => c.rdWrite - Wrap(c.unexpandedPc + (4 - (IF "IsCompressed" \in c.flags THEN 2 ELSE 0))) = 0)
        /\ two.NextUnexpPCEqPCPlusImmIfShouldBranch = (c.shouldBranch # 0 => c.nextUnexpandedPc - (c.unexpandedPc + c.imm) = 0)
        /\ two.NextUnexpPCUpdateOtherwise = (~("Jump" \in c.flags) /\ c.shouldBranch = 0
                    => c.nextUnexpandedPc - Wrap(c.unexpandedPc + ((4 - (IF "IsCompressed" \in c.flags THEN 2 ELSE 0))
                               - (IF "DoNotUpdateUnexpandedPC" \in c.flags THEN 4 ELSE 0))) = 0)
    BY DEF EvaluatedSecondGroup
  <1> HIDE DEF one, two
  <1>5. All(one) <=>
            /\ ~("Load" \in c.flags \/ "Store" \in c.flags) => c.ramAddress = 0
            /\ "Load" \in c.flags => c.ramRead - c.ramWrite = 0
            /\ "Load" \in c.flags => c.ramRead - c.rdWrite = 0
            /\ "Store" \in c.flags => c.rs2 - c.ramWrite = 0
            /\ ("AddOperands" \in c.flags \/ "SubtractOperands" \in c.flags
                    \/ "MultiplyOperands" \in c.flags) => c.leftLookup = 0
            /\ ~("AddOperands" \in c.flags \/ "SubtractOperands" \in c.flags
                    \/ "MultiplyOperands" \in c.flags) => c.leftLookup - c.left = 0
            /\ "Assert" \in c.flags => c.lookupOutput - 1 = 0
            /\ c.shouldJump # 0 => c.nextUnexpandedPc - c.lookupOutput = 0
            /\ "VirtualInstruction" \in c.flags /\ ~("IsLastInSequence" \in c.flags)
                    => c.nextPc - Wrap(c.pc + 1) = 0
            /\ c.nextIsVirtual # 0 /\ c.nextIsFirst = 0 => "DoNotUpdateUnexpandedPC" \in c.flags
    BY <1>1, <1>2, Zenon
  <1>6. All(two) <=>
            /\ "Load" \in c.flags \/ "Store" \in c.flags => c.ramAddress - (c.rs1 + c.imm) = 0
            /\ "AddOperands" \in c.flags => c.rightLookup - (c.left + c.right) = 0
            /\ "SubtractOperands" \in c.flags => c.rightLookup - (c.left - c.right + 2^N) = 0
            /\ "MultiplyOperands" \in c.flags => c.rightLookup - c.product = 0
            /\ RightOperandAlone(c) => c.rightLookup - c.right = 0
            /\ "WriteLookupOutputToRD" \in c.flags => c.rdWrite - c.lookupOutput = 0
            /\ "Jump" \in c.flags
                    => c.rdWrite - Wrap(c.unexpandedPc + (4 - (IF "IsCompressed" \in c.flags THEN 2 ELSE 0))) = 0
            /\ c.shouldBranch # 0 => c.nextUnexpandedPc - (c.unexpandedPc + c.imm) = 0
            /\ ~("Jump" \in c.flags) /\ c.shouldBranch = 0
                    => c.nextUnexpandedPc - Wrap(c.unexpandedPc + ((4 - (IF "IsCompressed" \in c.flags THEN 2 ELSE 0))
                               - (IF "DoNotUpdateUnexpandedPC" \in c.flags THEN 4 ELSE 0))) = 0
    BY <1>3, <1>4, Zenon
  <1> QED  BY <1>5, <1>6, Zenon DEF one, two

(* The evaluators that the prover and the block checks use accept a cycle   *)
(* exactly when the nineteen constraints do.                                *)
THEOREM EvaluatorsAreTheConstraints ==
    ASSUME NEW row, NEW c, ColumnsOfRow(c, row), SumsFit(c)
    PROVE  Satisfied(c) <=> All(EvaluatedFirstGroup(c)) /\ All(EvaluatedSecondGroup(c))
  <1> DEFINE F == c.flags
             some == "AddOperands" \in F \/ "SubtractOperands" \in F \/ "MultiplyOperands" \in F
             alone == ~some /\ "Advice" \notin F
             length == 4 - (IF "IsCompressed" \in F THEN 2 ELSE 0)
             step == length - (IF "DoNotUpdateUnexpandedPC" \in F THEN 4 ELSE 0)
             inline == "VirtualInstruction" \in F /\ "IsLastInSequence" \notin F
             enters == c.nextIsVirtual # 0 /\ c.nextIsFirst = 0
  <1>1. NumberColumns(c) /\ F = CircuitFlags(row)
    BY DEF ColumnsOfRow
  <1>2. /\ ~("Load" \in F /\ "Store" \in F)
        /\ "AddOperands" \in F => {"SubtractOperands", "MultiplyOperands", "Advice"} \cap F = {}
        /\ "SubtractOperands" \in F => {"MultiplyOperands", "Advice"} \cap F = {}
        /\ "MultiplyOperands" \in F => "Advice" \notin F
        /\ "IsLastInSequence" \in F => "VirtualInstruction" \in F
        /\ row.k \in BranchKinds => "Jump" \notin F
    <2> HIDE DEF F
    <2> QED  BY <1>1, FlagsOfRow
  <1>3. \A f : /\ Flag(c, f) \in {0, 1}
               /\ Flag(c, f) = 1 <=> f \in F
               /\ Flag(c, f) = 0 <=> f \notin F
    BY FlagIsNumber
  <1>4. 2^N \in Int /\ \A n \in Word : Wrap(n) = n
    <2> PICK M : M = 2^N
      OBVIOUS
    <2>1. M \in Nat \ {0}
      BY PowerIsNat, WidthAssumption
    <2>2. \A n \in 0 .. M - 1 : n % M = n
      BY <2>1
    <2> QED  BY <2>1, <2>2 DEF Word, Wrap
  <1>5. /\ All(RamConstraints(c)) <=>
             /\ "Load" \in F \/ "Store" \in F => c.ramAddress = c.rs1 + c.imm
             /\ ~("Load" \in F \/ "Store" \in F) => c.ramAddress = 0
             /\ "Load" \in F => c.ramRead = c.ramWrite
             /\ "Store" \in F => c.rs2 = c.ramWrite
        /\ All(RdConstraints(c)) <=>
             /\ "Load" \in F => c.ramRead = c.rdWrite
             /\ "WriteLookupOutputToRD" \in F => c.rdWrite = c.lookupOutput
             /\ "Jump" \in F => c.rdWrite = c.unexpandedPc + length
    <2>1. c.unexpandedPc + 4 - 2 * Flag(c, "IsCompressed") = c.unexpandedPc + length
      BY <1>1, <1>3 DEF NumberColumns
    <2>2. /\ (Flag(c, "Load") + Flag(c, "Store") # 0) <=> "Load" \in F \/ "Store" \in F
          /\ (1 - (Flag(c, "Load") + Flag(c, "Store")) # 0) <=> ~("Load" \in F \/ "Store" \in F)
      BY <1>2, <1>3
    <2> HIDE DEF length, F
    <2> QED  BY <1>3, <2>1, <2>2, ConstraintsOneByOne DEF EqualIf
  <1>6. All(LookupConstraints(c)) <=>
            /\ some => c.leftLookup = 0
            /\ ~some => c.leftLookup = c.left
            /\ "AddOperands" \in F => c.rightLookup = c.left + c.right
            /\ "SubtractOperands" \in F => c.rightLookup = c.left - c.right + 2^N
            /\ "MultiplyOperands" \in F => c.rightLookup = c.product
            /\ alone => c.rightLookup = c.right
            /\ "Assert" \in F => c.lookupOutput = 1
    <2>1. /\ (Flag(c, "AddOperands") + Flag(c, "SubtractOperands") + Flag(c, "MultiplyOperands") # 0)
                <=> some
          /\ (1 - Flag(c, "AddOperands") - Flag(c, "SubtractOperands") - Flag(c, "MultiplyOperands") # 0)
                <=> ~some
          /\ (1 - Flag(c, "AddOperands") - Flag(c, "SubtractOperands") - Flag(c, "MultiplyOperands")
               - Flag(c, "Advice") # 0)
                <=> alone
      BY <1>2, <1>3
    <2>2. /\ (Flag(c, "AddOperands") # 0) <=> "AddOperands" \in F
          /\ (Flag(c, "SubtractOperands") # 0) <=> "SubtractOperands" \in F
          /\ (Flag(c, "MultiplyOperands") # 0) <=> "MultiplyOperands" \in F
          /\ (Flag(c, "Assert") # 0) <=> "Assert" \in F
      BY <1>3
    <2> HIDE DEF some, alone, F
    <2> QED  BY <2>1, <2>2, ConstraintsOneByOne DEF EqualIf
  <1>7. /\ c.unexpandedPc + length \in Word /\ c.unexpandedPc + step \in Word
        /\ length \in Int /\ step \in Int
    <2>1. /\ length \in {2, 4} /\ step \in {-2, 0, 2, 4}
          /\ step = -2 => "DoNotUpdateUnexpandedPC" \in F /\ "IsCompressed" \in F
      OBVIOUS
    <2>2. CASE step = -2
      <3>1. c.unexpandedPc + step = c.unexpandedPc - 2
        BY <1>1, <2>2 DEF NumberColumns
      <3> QED  BY <3>1, <2>2, <2>1 DEF SumsFit, F
    <2>3. CASE step # -2
      BY <2>3, <2>1 DEF SumsFit
    <2> QED  BY <2>1, <2>2, <2>3
  <1>8. All(PcConstraints(c)) <=>
            /\ c.shouldJump # 0 => c.nextUnexpandedPc = c.lookupOutput
            /\ c.shouldBranch # 0 => c.nextUnexpandedPc = c.unexpandedPc + c.imm
            /\ "Jump" \notin F /\ c.shouldBranch = 0 => c.nextUnexpandedPc = c.unexpandedPc + step
            /\ inline => c.nextPc = c.pc + 1
            /\ enters => "DoNotUpdateUnexpandedPC" \in F
    <2>1. c.unexpandedPc + 4 - 4 * Flag(c, "DoNotUpdateUnexpandedPC") - 2 * Flag(c, "IsCompressed")
            = c.unexpandedPc + step
      BY <1>1, <1>3 DEF NumberColumns
    <2>2. (1 - c.shouldBranch - Flag(c, "Jump") # 0) <=> "Jump" \notin F /\ c.shouldBranch = 0
      BY <1>2, <1>3 DEF ColumnsOfRow, Indicator
    <2>3. (Flag(c, "VirtualInstruction") - Flag(c, "IsLastInSequence") # 0) <=> inline
      BY <1>2, <1>3
    <2>4. (EntersMidSequence(c) # 0) <=> enters
      BY DEF EntersMidSequence, ColumnsOfRow
    <2>5. (1 = Flag(c, "DoNotUpdateUnexpandedPC")) <=> "DoNotUpdateUnexpandedPC" \in F
      BY <1>3
    <2> HIDE DEF step, inline, enters, F
    <2> QED  BY <2>1, <2>2, <2>3, <2>4, <2>5, ConstraintsOneByOne DEF EqualIf
  <1>9. All(EvaluatedFirstGroup(c)) <=>
            /\ ~("Load" \in F \/ "Store" \in F) => c.ramAddress = 0
            /\ "Load" \in F => c.ramRead = c.ramWrite
            /\ "Load" \in F => c.ramRead = c.rdWrite
            /\ "Store" \in F => c.rs2 = c.ramWrite
            /\ some => c.leftLookup = 0
            /\ ~some => c.leftLookup = c.left
            /\ "Assert" \in F => c.lookupOutput = 1
            /\ c.shouldJump # 0 => c.nextUnexpandedPc = c.lookupOutput
            /\ inline => c.nextPc = c.pc + 1
            /\ enters => "DoNotUpdateUnexpandedPC" \in F
    <2>1. Wrap(c.pc + 1) = c.pc + 1
      BY <1>4 DEF SumsFit
    <2>2. All(EvaluatedFirstGroup(c)) <=>
            /\ ~("Load" \in F \/ "Store" \in F) => c.ramAddress = 0
            /\ "Load" \in F => c.ramRead - c.ramWrite = 0
            /\ "Load" \in F => c.ramRead - c.rdWrite = 0
            /\ "Store" \in F => c.rs2 - c.ramWrite = 0
            /\ some => c.leftLookup = 0
            /\ ~some => c.leftLookup - c.left = 0
            /\ "Assert" \in F => c.lookupOutput - 1 = 0
            /\ c.shouldJump # 0 => c.nextUnexpandedPc - c.lookupOutput = 0
            /\ inline => c.nextPc - Wrap(c.pc + 1) = 0
            /\ enters => "DoNotUpdateUnexpandedPC" \in F
      BY EvaluatorsOneByOne
    <2> HIDE DEF some, inline, enters, F
    <2> QED  BY <1>1, <2>1, <2>2 DEF NumberColumns
  <1>10. All(EvaluatedSecondGroup(c)) <=>
            /\ "Load" \in F \/ "Store" \in F => c.ramAddress = c.rs1 + c.imm
            /\ "AddOperands" \in F => c.rightLookup = c.left + c.right
            /\ "SubtractOperands" \in F => c.rightLookup = c.left - c.right + 2^N
            /\ "MultiplyOperands" \in F => c.rightLookup = c.product
            /\ alone => c.rightLookup = c.right
            /\ "WriteLookupOutputToRD" \in F => c.rdWrite = c.lookupOutput
            /\ "Jump" \in F => c.rdWrite = c.unexpandedPc + length
            /\ c.shouldBranch # 0 => c.nextUnexpandedPc = c.unexpandedPc + c.imm
            /\ "Jump" \notin F /\ c.shouldBranch = 0 => c.nextUnexpandedPc = c.unexpandedPc + step
    <2>1. /\ Wrap(c.unexpandedPc + length) = c.unexpandedPc + length
          /\ Wrap(c.unexpandedPc + step) = c.unexpandedPc + step
      BY <1>4, <1>7
    <2>2. RightOperandAlone(c) <=> alone
      BY DEF RightOperandAlone
    <2>3. All(EvaluatedSecondGroup(c)) <=>
            /\ "Load" \in F \/ "Store" \in F => c.ramAddress - (c.rs1 + c.imm) = 0
            /\ "AddOperands" \in F => c.rightLookup - (c.left + c.right) = 0
            /\ "SubtractOperands" \in F => c.rightLookup - (c.left - c.right + 2^N) = 0
            /\ "MultiplyOperands" \in F => c.rightLookup - c.product = 0
            /\ alone => c.rightLookup - c.right = 0
            /\ "WriteLookupOutputToRD" \in F => c.rdWrite - c.lookupOutput = 0
            /\ "Jump" \in F => c.rdWrite - (c.unexpandedPc + length) = 0
            /\ c.shouldBranch # 0 => c.nextUnexpandedPc - (c.unexpandedPc + c.imm) = 0
            /\ "Jump" \notin F /\ c.shouldBranch = 0
                    => c.nextUnexpandedPc - (c.unexpandedPc + step) = 0
      <3>1. All(EvaluatedSecondGroup(c)) <=>
              /\ "Load" \in F \/ "Store" \in F => c.ramAddress - (c.rs1 + c.imm) = 0
              /\ "AddOperands" \in F => c.rightLookup - (c.left + c.right) = 0
              /\ "SubtractOperands" \in F => c.rightLookup - (c.left - c.right + 2^N) = 0
              /\ "MultiplyOperands" \in F => c.rightLookup - c.product = 0
              /\ RightOperandAlone(c) => c.rightLookup - c.right = 0
              /\ "WriteLookupOutputToRD" \in F => c.rdWrite - c.lookupOutput = 0
              /\ "Jump" \in F => c.rdWrite - Wrap(c.unexpandedPc + length) = 0
              /\ c.shouldBranch # 0 => c.nextUnexpandedPc - (c.unexpandedPc + c.imm) = 0
              /\ "Jump" \notin F /\ c.shouldBranch = 0
                      => c.nextUnexpandedPc - Wrap(c.unexpandedPc + step) = 0
        BY EvaluatorsOneByOne
      <3> HIDE DEF alone, length, step, F
      <3> QED  BY <3>1, <2>1, <2>2, Zenon
    <2> HIDE DEF alone, length, step, F
    <2> QED  BY <1>1, <1>4, <1>7, <2>3 DEF NumberColumns
  <1> HIDE DEF some, alone, length, step, inline, enters, F
  <1> QED  BY <1>5, <1>6, <1>8, <1>9, <1>10, Zenon DEF Satisfied
=============================================================================
