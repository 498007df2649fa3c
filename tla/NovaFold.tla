------------------------------ MODULE NovaFold ------------------------------
(***************************************************************************)
(* The Nova folding backend of jolt-core/src/zkvm/block.rs                 *)
(* (NovaFoldingBackend and the JoltNovaStepCircuit it folds with).  The    *)
(* accumulator keeps two books about the same blocks, the plain metadata   *)
(* of FoldAccumulator and the public state z that the step circuit carries *)
(* from step to step, together with the recursive SNARK that proves z.     *)
(* Any fold input may be offered at any time: in order, repeated, skipped, *)
(* taken from another execution or altered in one field.                   *)
(*                                                                         *)
(* A fold input is a record                                                *)
(*   program, index, start, end, active   identity and cycle range         *)
(*   startState, endState, startRegister, endRegister   boundary digests   *)
(*   receipt, opening   digests of the verified Jolt proof, or None        *)
(*   witness   None or the native opening witness: position, count,        *)
(*             challenge, target, aggregate, shape                         *)
(*   valid     the relations that mention this block alone hold            *)
(*   sealed    state_digest is the digest of the other fields              *)
(*                                                                         *)
(* Scalars of z are field elements, 0..FieldOrder-1.  The zero word that   *)
(* stands for an absent digest is None.  The four native claims (register, *)
(* RAM, lookup, CPU) are indexed by ClaimKinds.  The four fingerprint      *)
(* accumulators of z, which no guard reads, are left out.                  *)
(***************************************************************************)
EXTENDS FoldAccumulator

CONSTANTS ClaimKinds,   \* the families of native claims
          FieldOrder,   \* the order of the scalar field
          Inputs        \* the fold inputs that may be offered

Field == 0..(FieldOrder - 1)

OptNat == Nat \cup {None}
Claims == [ClaimKinds -> Field]

Witness ==
    [position : Field, count : Field, challenge : Nat,
     target : [ClaimKinds -> Field], aggregate : [ClaimKinds -> Field],
     shape : Nat]

FoldInput ==
    [program : Nat, index : Nat, start : Nat, end : Nat, active : Nat,
     startState : Nat, endState : Nat, startRegister : Nat, endRegister : Nat,
     receipt : OptNat, opening : OptNat,
     witness : Witness \cup {None}, valid : BOOLEAN, sealed : BOOLEAN]

Metadata ==
    [program : OptNat, absorbed : Nat, first : OptNat, last : OptNat,
     cycleStart : OptNat, cycleEnd : OptNat, initialState : OptNat,
     initialRegister : OptNat, receipt : OptNat, opening : OptNat,
     challenge : OptNat, target : Claims \cup {None},
     total : Field \cup {None}, latestState : OptNat, latestRegister : OptNat,
     active : Nat, digest : Seq(Inputs)]

ZState ==
    [nextIndex : Nat, active : Nat, program : Nat, nextCycle : Nat,
     machine : Nat, register : Nat, receipt : OptNat, opening : OptNat,
     claims : Claims, challenge : OptNat, target : Claims, remaining : Field]

Snark ==
    [params : OptNat, z0 : ZState, i : Nat, zi : ZState, satisfied : BOOLEAN]

FinalInstance == [metadata : Metadata, z : ZState]

ASSUME FieldAssumption == FieldOrder \in Nat /\ FieldOrder > 1
ASSUME NoneAssumption ==
    None \notin Nat \cup Witness \cup Claims \cup Metadata \cup ZState
                    \cup Snark \cup FinalInstance
ASSUME InputsAssumption == Inputs \subseteq FoldInput

VARIABLES accumulator,   \* NovaFoldAccumulator
          instance       \* the last FinalFoldedInstance built, or None

vars == <<accumulator, instance>>

-----------------------------------------------------------------------------
(* The public state z of the step relation.                                *)

NoClaims == [k \in ClaimKinds |-> 0]
OrZero(target) == IF target = None THEN NoClaims ELSE target

InitialZ(in) ==
    [nextIndex |-> in.index, active |-> 0, program |-> in.program,
     nextCycle |-> in.start, machine |-> in.startState,
     register |-> in.startRegister, receipt |-> in.receipt,
     opening |-> in.opening, claims |-> NoClaims,
     challenge |-> Challenges(in), target |-> OrZero(ClosureTargets(in)),
     remaining |-> IF in.witness = None THEN 0 ELSE in.witness.count]

InitialZFromMetadata(m) ==
    [nextIndex |-> m.first, active |-> 0, program |-> m.program,
     nextCycle |-> m.cycleStart, machine |-> m.initialState,
     register |-> m.initialRegister, receipt |-> m.receipt,
     opening |-> m.opening, claims |-> NoClaims,
     challenge |-> m.challenge, target |-> OrZero(m.target),
     remaining |-> IF m.total = None THEN 0 ELSE m.total]

(* Field addition, and the decrement, which wraps at zero. *)
Plus(a, b) == IF a + b < FieldOrder THEN a + b ELSE a + b - FieldOrder
Dec(a)     == IF a = 0 THEN FieldOrder - 1 ELSE a - 1

AddClaims(claims, in) ==
    IF in.witness = None THEN claims
    ELSE [k \in ClaimKinds |-> Plus(claims[k], in.witness.aggregate[k])]

NextZ(z, in) ==
    [nextIndex |-> z.nextIndex + 1, active |-> z.active + in.active,
     program |-> z.program, nextCycle |-> in.end, machine |-> in.endState,
     register |-> in.endRegister, receipt |-> z.receipt,
     opening |-> z.opening, claims |-> AddClaims(z.claims, in),
     challenge |-> z.challenge, target |-> z.target,
     remaining |-> IF in.witness = None THEN z.remaining
                   ELSE Dec(z.remaining)]

(* Mutant: the cycle count of the block is not checked. *)
StepInputValidAnyCount(z, in) ==
    /\ z.nextIndex = in.index
    /\ z.program = in.program
    /\ z.nextCycle = in.start
    /\ z.machine = in.startState
    /\ z.register = in.startRegister
    /\ z.receipt = in.receipt
    /\ z.opening = in.opening

(* validate_nova_step_relation_input: the host's check before it proves.   *)
StepInputValid(z, in) ==
    /\ z.nextIndex = in.index
    /\ z.program = in.program
    /\ z.nextCycle = in.start
    /\ z.machine = in.startState
    /\ z.register = in.startRegister
    /\ in.start + in.active = in.end
    /\ z.receipt = in.receipt
    /\ z.opening = in.opening

(* Mutant: a block is accepted when no announced block remains. *)
ScheduleSatisfiedAtZero(z, in) ==
    /\ in.opening # None
    /\ z.challenge = in.witness.challenge
    /\ z.target = in.witness.target
    /\ Plus(z.remaining, in.witness.position) = in.witness.count
    /\ z.remaining = 1 => AddClaims(z.claims, in) = z.target

(* Mutant: a block is accepted at any position of the schedule. *)
ScheduleSatisfiedAnywhere(z, in) ==
    /\ in.opening # None
    /\ z.challenge = in.witness.challenge
    /\ z.target = in.witness.target
    /\ z.remaining # 0
    /\ z.remaining = 1 => AddClaims(z.claims, in) = z.target

(* The native claim schedule, which only the circuit checks: the block is  *)
(* at its place, the schedule is not exhausted, and the last block of the  *)
(* schedule brings every accumulator to its public target.                 *)
ScheduleSatisfied(z, in) ==
    /\ in.opening # None
    /\ z.challenge = in.witness.challenge
    /\ z.target = in.witness.target
    /\ Plus(z.remaining, in.witness.position) = in.witness.count
    /\ z.remaining # 0
    /\ z.remaining = 1 => AddClaims(z.claims, in) = z.target

CircuitSatisfied(z, in) ==
    /\ in.valid
    /\ StepInputValid(z, in)
    /\ in.opening # None => in.receipt # None
    /\ in.witness # None => ScheduleSatisfied(z, in)

-----------------------------------------------------------------------------
(* The recursive SNARK (Nova/src/nova/mod.rs).  new already executes the   *)
(* first step; the first prove_step only counts it.                        *)

Shape(in) == IF in.witness = None THEN None ELSE in.witness.shape

NewSnark(in, z0) ==
    [params |-> Shape(in), z0 |-> z0, i |-> 0, zi |-> NextZ(z0, in),
     satisfied |-> CircuitSatisfied(z0, in)]

ProveStep(s, in) ==
    IF s.i = 0 THEN [s EXCEPT !.i = 1]
    ELSE [params |-> s.params, z0 |-> s.z0, i |-> s.i + 1,
          zi |-> NextZ(s.zi, in),
          satisfied |-> s.satisfied /\ CircuitSatisfied(s.zi, in)]

SnarkVerifies(s, params, steps, z0) ==
    s.params = params /\ steps # 0 /\ s.i = steps /\ s.z0 = z0 /\ s.satisfied

-----------------------------------------------------------------------------
Init ==
    /\ accumulator = [metadata |-> EmptyAccumulator, snark |-> None,
                      z |-> None, setup |-> <<>>]
    /\ instance = None

(* A failed absorb returns before the accumulator is assigned, so only the *)
(* absorb that succeeds is a step.                                         *)
Absorb(in) ==
    LET old   == accumulator
        z     == IF old.z = None THEN InitialZ(in) ELSE old.z
        next  == Absorbed(old.metadata, in)
        z0    == InitialZFromMetadata(next)
        snark == ProveStep(IF old.snark = None THEN NewSnark(in, z0)
                                               ELSE old.snark, in)
    IN  /\ old.setup # <<>> => old.setup[1] = Shape(in)
        /\ StepInputValid(z, in)
        /\ Accepts(old.metadata, in)
        /\ SnarkVerifies(snark, Shape(in), next.absorbed, z0)
        /\ snark.zi = NextZ(z, in)
        /\ accumulator' = [metadata |-> next, snark |-> snark,
                           z |-> NextZ(z, in), setup |-> <<Shape(in)>>]
        /\ UNCHANGED instance

(* jolt_lasso_final_binding *)
FinalBinding(a) ==
    /\ a.metadata.opening # None => a.metadata.receipt # None
    /\ a.z.receipt = a.metadata.receipt
    /\ a.z.opening = a.metadata.opening

(* verify_native_claim_final_closure *)
FinalClosure(a) ==
    \/ /\ <<a.metadata.challenge, a.metadata.target, a.metadata.total>>
             = <<None, None, None>>
       /\ a.z.claims = NoClaims /\ a.z.target = NoClaims
       /\ a.z.challenge = None /\ a.z.remaining = 0
    \/ /\ a.metadata.challenge # None /\ a.metadata.target # None
       /\ a.metadata.total # None
       /\ a.metadata.total # 0 /\ a.metadata.total = a.metadata.absorbed
       /\ a.z.remaining = 0
       /\ a.z.target = a.metadata.target
       /\ a.z.claims = a.metadata.target

BuildFinalInstance ==
    /\ accumulator.metadata.absorbed # 0
    /\ accumulator.z # None
    /\ FinalBinding(accumulator)
    /\ FinalClosure(accumulator)
    /\ instance' = [metadata |-> accumulator.metadata, z |-> accumulator.z]
    /\ UNCHANGED accumulator

Next == BuildFinalInstance \/ \E in \in Inputs : Absorb(in)

Spec == Init /\ [][Next]_vars

-----------------------------------------------------------------------------
(* verify: fold inputs that are replayed against a stored accumulator.     *)

(* Mutant: the end cycle is taken as inclusive. *)
ContiguousInclusive(a, b) ==
    /\ a.index + 1 = b.index
    /\ a.end + 1 = b.start
    /\ a.endState = b.startState
    /\ a.endRegister = b.startRegister

(* validate_contiguous_with on two fold inputs. *)
Contiguous(a, b) ==
    /\ a.index + 1 = b.index
    /\ a.end = b.start
    /\ a.endState = b.startState
    /\ a.endRegister = b.startRegister

(* The metadata of a fresh accumulator after each prefix; None once an     *)
(* absorb has failed.                                                      *)
ReplayedMetadata(ins) ==
    LET m[i \in 0..Len(ins)] ==
            IF i = 0 THEN EmptyAccumulator
            ELSE IF m[i - 1] = None \/ ~Accepts(m[i - 1], ins[i]) THEN None
            ELSE Absorbed(m[i - 1], ins[i])
    IN  m[Len(ins)]

ReplayedZ(ins) ==
    LET z[i \in 0..Len(ins)] ==
            IF i = 0 THEN InitialZ(ins[1]) ELSE NextZ(z[i - 1], ins[i])
    IN  z[Len(ins)]

Verifies(ins, a) ==
    /\ \A i \in 1..(Len(ins) - 1) : Contiguous(ins[i], ins[i + 1])
    /\ ReplayedMetadata(ins) = a.metadata
    /\ IF a.metadata.absorbed = 0
       THEN a.snark = None /\ a.z = None
       ELSE LET z0 == InitialZFromMetadata(a.metadata)
            IN  /\ z0 = InitialZ(ins[1])
                /\ a.z = ReplayedZ(ins)
                /\ a.snark # None
                /\ SnarkVerifies(a.snark, a.setup[1], a.metadata.absorbed, z0)
                /\ a.snark.zi = a.z

-----------------------------------------------------------------------------
(* Properties.                                                             *)

folded == accumulator.metadata.digest

(* The type of the accumulator and of the published instance.              *)
TypeOK ==
    /\ accumulator \in [metadata : Metadata, snark : Snark \cup {None},
                        z : ZState \cup {None}, setup : Seq(OptNat)]
    /\ accumulator.metadata.absorbed = Len(folded)
    /\ instance # None => instance \in FinalInstance

(* The two books never part: what the metadata says of the first and the   *)
(* last block, z says too, and the SNARK proves that z from that start.    *)
(* (NovaFoldingBackend::absorb updates the two by separate code.)          *)
BooksAgree ==
    accumulator.z # None =>
        LET m == accumulator.metadata
            z == accumulator.z
        IN  /\ z.nextIndex = m.last + 1
            /\ z.nextIndex = m.first + m.absorbed
            /\ z.nextCycle = m.cycleEnd
            /\ z.active = m.active
            /\ m.active = m.cycleEnd - m.cycleStart
            /\ z.program = m.program
            /\ z.machine = m.latestState
            /\ z.register = m.latestRegister
            /\ z.receipt = m.receipt /\ z.opening = m.opening
            /\ z.challenge = m.challenge /\ z.target = OrZero(m.target)
            /\ accumulator.snark.zi = z
            /\ accumulator.snark.i = m.absorbed
            /\ accumulator.snark.z0 = InitialZFromMetadata(m)
            /\ accumulator.snark.satisfied

(* With native openings the field element z.remaining is the number of     *)
(* announced blocks still missing: the schedule neither wraps around nor   *)
(* lets a block past its end.                                              *)
ScheduleExact ==
    accumulator.z # None =>
        IF accumulator.metadata.total = None THEN accumulator.z.remaining = 0
        ELSE accumulator.z.remaining + Len(folded) = accumulator.metadata.total

(* What the blocks of c contribute to claim k, in all.                     *)
Contributed(c, k) ==
    LET s[i \in 0..Len(c)] ==
            IF i = 0 THEN 0 ELSE s[i - 1] + c[i].witness.aggregate[k]
    IN  s[Len(c)]

(* A published instance with native openings carries claims that are the   *)
(* sum of its blocks' contributions and meet the authenticated target, so  *)
(* no contribution was dropped, repeated or replaced.                      *)
PublishedClaimsClose ==
    (instance # None /\ instance.metadata.target # None) =>
            LET c == instance.metadata.digest
            IN  \A k \in ClaimKinds :
                    /\ Contributed(c, k) % FieldOrder
                          = instance.metadata.target[k]
                    /\ \A i \in 1..Len(c) : c[i].witness.position = i - 1

(* Every accumulator that absorb can build, verify accepts with the blocks *)
(* it was built from: the two never disagree about what is foldable.       *)
VerifyAcceptsFold == Verifies(folded, accumulator)

(* The backend implements the abstract chain of blocks.                    *)
Chain == INSTANCE BlockChain
            WITH chain <- folded,
                 published <- IF instance = None THEN <<>>
                              ELSE instance.metadata.digest
ImplementsBlockChain == Chain!Spec
=============================================================================
