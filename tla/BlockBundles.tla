---------------------------- MODULE BlockBundles ----------------------------
(***************************************************************************)
(* Proofs of a trace cut into blocks.  An emulator runs the program and its *)
(* trace is cut between instructions; for each block a prover makes a       *)
(* bundle: what it claims of the block in public, the cycle that follows    *)
(* it, and claims of its register accesses, memory accesses and lookups;    *)
(* a verifier that is given the blocks checks bundle by bundle and the      *)
(* joints between them.  On the way blocks and bundles may be dropped,      *)
(* mixed with those of another run, or changed.                             *)
(*                                                                         *)
(* Digests stand for what is digested.  A cycle is a row of the bytecode    *)
(* with the values it read and wrote; that the rows are those of the        *)
(* program, and the memory the program starts with, are the openings'       *)
(* business and not checked here.                                           *)
(***************************************************************************)
EXTENDS Bytecode, SequencesExt

CONSTANTS Registers,            \* architectural registers of the instance
          InitialMemories,      \* inputs of the program, in its memory
          TargetSizes,          \* sizes a block is meant to reach
          MaxCycles,            \* bound on the length of a trace
          MaxFaults             \* bound on what happens to blocks and bundles

ASSUME BundleAssumption ==
    /\ \A m \in InitialMemories : 0 \notin DOMAIN m
    /\ TargetSizes \subseteq Nat \ {0}
    /\ MaxCycles \in Nat \ {0} /\ MaxFaults \in Nat

VARIABLES run,        \* the emulator: [machine, at, ended]
          target,     \* the target size of the blocks
          open,       \* the block being filled: [state, cycles]
          blocks,     \* the blocks cut so far, later those handed over
          archive,    \* blocks of an earlier run
          lookahead,  \* the external lookahead cycle, or none
          bundles,    \* the bundles proved
          faults,     \* how often blocks or bundles have been touched
          verdict     \* "running", "offered", "proved", "accepted" or "refused"

bundleVars == <<bytecode, run, target, open, blocks, archive, lookahead, bundles, faults, verdict>>

RegisterNumbers == Registers \cup Reserved \cup Temporaries
-----------------------------------------------------------------------------
(* The trace and its blocks *)

(* Address 0 stands for no memory access; one that reads leaves the value.    *)
NoOpCycle == [at |-> 0, rs1 |-> 0, rs2 |-> 0, pre |-> 0, post |-> 0, ram |-> 0, read |-> 0, write |-> 0]
CycleOf(row, i, before, after) ==
    LET a == IF row.k \in {"LD", "SD"} THEN Wrap(before.x[row.rs1] + row.imm) ELSE 0
    IN  [at |-> i,
         rs1 |-> IF HasRs1(row) THEN before.x[row.rs1] ELSE 0,
         rs2 |-> IF HasRs2(row) THEN before.x[row.rs2] ELSE 0,
         pre |-> IF HasRd(row) THEN before.x[row.rd] ELSE 0,
         post |-> IF HasRd(row) THEN after.x[row.rd] ELSE 0,
         ram |-> a,
         read |-> IF a = 0 THEN 0 ELSE before.mem[a],
         write |-> IF a = 0 THEN 0 ELSE after.mem[a]]
Upcoming ==
    CycleOf(RowAt(run.at), run.at, run.machine, Emulate(run.machine, run.at, 0).machine)

(* A boundary is reached between two instructions. *)
BoundaryState(cycle, terminated) ==
    [registers |-> run.machine.x, cycle |-> cycle, pc |-> run.machine.address,
     terminated |-> terminated]
AtBoundary == RowAt(run.at).remaining = NotInSequence \/ RowAt(run.at).first
CyclesSoFar == open.state.cycle + Len(open.cycles)

Start(m) ==
    LET machine == Machine([r \in RegisterNumbers |-> 0], m, EntryAddress,
                           InstructionLength(EntryAddress))
    IN  [machine |-> machine, at |-> FirstIndex(EntryAddress), ended |-> FALSE]
OpenAt(state) == [state |-> state, cycles |-> << >>]
StartState == [registers |-> [r \in RegisterNumbers |-> 0], cycle |-> 0, pc |-> EntryAddress,
               terminated |-> FALSE]

BundlesInit ==
    /\ bytecode = Preprocessed
    /\ \E m \in InitialMemories : run = Start(m)
    /\ target \in TargetSizes
    /\ open = OpenAt(StartState)
    /\ blocks = << >> /\ archive = << >> /\ lookahead = << >> /\ bundles = << >>
    /\ faults = 0
    /\ verdict = "running"

WantsCycle == Len(open.cycles) < target \/ ~AtBoundary

(* The run has ended when the pc stays where it was. *)
Pull ==
    LET e == Emulate(run.machine, run.at, 0)
    IN  /\ verdict = "running" /\ WantsCycle /\ ~run.ended
        /\ CyclesSoFar < MaxCycles
        /\ e.machine.status = "ok"
        /\ open' = [open EXCEPT !.cycles = Append(@, Upcoming)]
        /\ run' = [machine |-> e.machine, at |-> e.at,
                   ended |-> EndsInstruction(RowAt(run.at)) /\ e.machine.address = run.machine.address]
        /\ UNCHANGED <<bytecode, target, blocks, archive, lookahead, bundles, faults, verdict>>

(* A block is complete when it is full, or when the next cycle does not come; *)
(* only then has the end of the run been noticed.                             *)
Cut ==
    LET noticed == WantsCycle /\ run.ended
        end == BoundaryState(CyclesSoFar, noticed)
    IN  /\ verdict = "running" /\ open.cycles # << >>
        /\ ~WantsCycle \/ run.ended
        /\ blocks' = Append(blocks,
              [index |-> Len(blocks), start |-> open.state.cycle, active |-> Len(open.cycles),
               target |-> target, startState |-> open.state, endState |-> end,
               cycles |-> open.cycles, atBoundary |-> TRUE])
        /\ open' = OpenAt(end)
        /\ UNCHANGED <<bytecode, run, target, archive, lookahead, bundles, faults, verdict>>

(* The blocks are kept, and the program runs once more on another input. *)
Again ==
    /\ verdict = "running" /\ run.ended /\ open.cycles = << >> /\ archive = << >>
    /\ archive' = blocks
    /\ \E m \in InitialMemories : m[blocks[1].cycles[1].ram] # blocks[1].cycles[1].read /\ run' = Start(m)
    /\ open' = OpenAt(StartState)
    /\ blocks' = << >>
    /\ UNCHANGED <<bytecode, target, lookahead, bundles, faults, verdict>>

(* The blocks are handed over, and with them the cycle that follows, if the   *)
(* run goes on and the caller has it.                                         *)
HandOver ==
    /\ verdict = "running" /\ blocks # << >> /\ open.cycles = << >>
    /\ lookahead' \in {<< >>} \cup (IF run.ended THEN {} ELSE {<<Upcoming>>})
    /\ verdict' = "offered"
    /\ UNCHANGED <<bytecode, run, target, open, blocks, archive, bundles, faults>>
-----------------------------------------------------------------------------
(* What a block claims *)
PublicInput(b) ==
    [index |-> b.index, target |-> b.target, start |-> b.start, active |-> b.active,
     startState |-> b.startState, endState |-> b.endState]

(* Register accesses, memory access and lookup of a cycle *)
CycleClaims(c) ==
    LET row == RowAt(c.at)
        operands == LookupOperands(row, c.rs1, c.rs2, c.post)
    IN  [rs1 |-> IF HasRs1(row) THEN <<row.rs1, c.rs1>> ELSE << >>,
         rs2 |-> IF HasRs2(row) THEN <<row.rs2, c.rs2>> ELSE << >>,
         rd |-> IF HasRd(row) THEN <<row.rd, c.pre, c.post>> ELSE << >>,
         ram |-> IF c.ram # 0 THEN <<row.k, c.ram, c.read, c.write>> ELSE << >>,
         lookup |-> [left |-> LeftInput(row, c.rs1), right |-> RightInput(row, c.rs2),
                     operands |-> operands,
                     output |-> Entry(LookupTable(row.k), IsInterleaved(CircuitFlags(row)),
                                      operands[1], operands[2])]]
IoClaims(b) ==
    [index |-> b.index, start |-> b.start, active |-> b.active,
     cycles |-> [n \in DOMAIN b.cycles |-> CycleClaims(b.cycles[n])]]

RegisterClaim(b, io) ==
    [index |-> b.index, start |-> b.start, active |-> b.active,
     startRegisters |-> b.startState.registers, endRegisters |-> b.endState.registers,
     accesses |-> [n \in DOMAIN io.cycles |->
                      <<io.cycles[n].rs1, io.cycles[n].rs2, io.cycles[n].rd>>]]

(* First and last value of every address that is touched *)
Touching(io, a) == { n \in DOMAIN io.cycles : io.cycles[n].ram # << >> /\ io.cycles[n].ram[2] = a }
Touched(io) == { io.cycles[n].ram[2] : n \in { n \in DOMAIN io.cycles : io.cycles[n].ram # << >> } }
FirstOf(S) == CHOOSE n \in S : \A k \in S : n <= k
LastOf(S) == CHOOSE n \in S : \A k \in S : k <= n
RamSummaries(io) ==
    [a \in Touched(io) |->
        [first |-> io.cycles[FirstOf(Touching(io, a))].ram[3],
         final |-> io.cycles[LastOf(Touching(io, a))].ram[4],
         firstCycle |-> io.start + FirstOf(Touching(io, a)),
         lastCycle |-> io.start + LastOf(Touching(io, a)),
         accesses |-> Cardinality(Touching(io, a))]]
RamClaim(b, io) ==
    [index |-> b.index, start |-> b.start, active |-> b.active,
     accesses |-> [n \in DOMAIN io.cycles |-> io.cycles[n].ram], touched |-> RamSummaries(io)]

LookupClaim(b, io) ==
    [index |-> b.index, start |-> b.start, active |-> b.active,
     lookups |-> [n \in DOMAIN io.cycles |-> io.cycles[n].lookup]]
-----------------------------------------------------------------------------
(* Checks of one block *)
ValidateShape(p) ==
    /\ p.active # 0
    /\ p.start = p.startState.cycle
    /\ p.start + p.active = p.endState.cycle
ValidateTraceBlockShape(b) == b.active = Len(b.cycles) /\ b.atBoundary

(* Mutant: the end of the blocks is taken for the end of the run. *)
NextOfPadding(next) ==
    IF next = << >> THEN AfterLast ELSE AsNext(RowAt(next[1].at), next[1].at)
(* Without a next cycle the row ends in zeros, and jumps. *)
NextOf(next) ==
    IF next = << >> THEN [AfterLast EXCEPT !.noop = FALSE]
    ELSE AsNext(RowAt(next[1].at), next[1].at)
RowInputs(c, next) ==
    LET row == RowAt(c.at)
        operands == LookupOperands(row, c.rs1, c.rs2, c.post)
    IN  Columns(row, c.at, c.rs1, c.rs2, NextOf(next),
                [leftLookup |-> operands[1], rightLookup |-> operands[2], rdWrite |-> c.post,
                 ramAddress |-> c.ram, ramRead |-> c.read, ramWrite |-> c.write])
ValidateCpuR1csBlock(b, next) ==
    \A n \in DOMAIN b.cycles :
        LET c == RowInputs(b.cycles[n], IF n < Len(b.cycles) THEN <<b.cycles[n + 1]>> ELSE next)
        IN  All(EvaluatedFirstGroup(c)) /\ All(EvaluatedSecondGroup(c))

RegistersAfter(b) ==
    LET after[n \in 0 .. Len(b.cycles)] ==
            IF n = 0 THEN b.startState.registers
            ELSE LET row == RowAt(b.cycles[n].at)
                 IN  IF HasRd(row) THEN [after[n - 1] EXCEPT ![row.rd] = b.cycles[n].post]
                     ELSE after[n - 1]
    IN  after
RegisterReads(b) ==
    LET after == RegistersAfter(b)
    IN  \A n \in DOMAIN b.cycles :
            LET c == b.cycles[n]
                row == RowAt(c.at)
            IN  /\ HasRs1(row) => c.rs1 = after[n - 1][row.rs1]
                /\ HasRs2(row) => c.rs2 = after[n - 1][row.rs2]
                /\ HasRd(row) => c.pre = after[n - 1][row.rd]
(* Mutant: the end of the block is not looked at. *)
ValidateRegisterFlowOpenEnd(b) == RegisterReads(b)
ValidateRegisterFlow(b) ==
    /\ RegisterReads(b)
    /\ RegistersAfter(b)[Len(b.cycles)] = b.endState.registers

(* The first access of an address may read anything. *)
ValidateRamFlow(b) ==
    \A n \in DOMAIN b.cycles :
        LET c == b.cycles[n]
            earlier == { k \in 1 .. n - 1 : b.cycles[k].ram = c.ram }
        IN  c.ram # 0 /\ earlier # {} => c.read = b.cycles[LastOf(earlier)].write

VerifyIoClaims(b, io) ==
    /\ ValidateTraceBlockShape(b)
    /\ io = IoClaims(b)
    /\ ValidateRegisterFlow(b)
    /\ ValidateRamFlow(b)

(* Mutant: the cycle after the block is not compared with the proof's. *)
VerifyCpuWitnessAnyLookahead(b, next, proof) ==
    /\ ValidateShape(proof.public) /\ proof.rows = proof.public.active
    /\ ValidateTraceBlockShape(b)
    /\ proof.public = PublicInput(b)
    /\ ValidateCpuR1csBlock(b, next)
VerifyCpuWitness(b, next, proof) ==
    /\ ValidateShape(proof.public) /\ proof.rows = proof.public.active
    /\ ValidateTraceBlockShape(b)
    /\ proof.public = PublicInput(b)
    /\ proof.lookahead = next
    /\ ValidateCpuR1csBlock(b, next)

VerifyBundle(b, next, bundle) ==
    /\ VerifyCpuWitness(b, next, bundle)
    /\ VerifyIoClaims(b, bundle.io)
    /\ bundle.register = RegisterClaim(b, bundle.io)
    /\ bundle.ram = RamClaim(b, bundle.io)
    /\ bundle.lookup = LookupClaim(b, bundle.io)
-----------------------------------------------------------------------------
(* Checks of a chain of blocks *)
ValidateContiguous(p, q) ==
    /\ q.index = p.index + 1
    /\ q.start = p.start + p.active
    /\ q.startState = p.endState
ValidateBlockChain(ps) ==
    /\ \A i \in DOMAIN ps : ValidateShape(ps[i])
    /\ \A i \in 1 .. Len(ps) - 1 : ValidateContiguous(ps[i], ps[i + 1])

(* Mutant: the end of the run is not seen as one. *)
BlockLookaheadUnterminated(bs, external, i) ==
    CASE i < Len(bs) /\ bs[i + 1].cycles # << >> -> <<bs[i + 1].cycles[1]>>
      [] i = Len(bs) -> external
      [] OTHER -> << >>
(* The cycle after block i of a chain *)
BlockLookahead(bs, external, i) ==
    CASE i < Len(bs) /\ bs[i + 1].cycles # << >> -> <<bs[i + 1].cycles[1]>>
      [] (i = Len(bs) \/ bs[i + 1].cycles = << >>) /\ bs[i].endState.terminated -> <<NoOpCycle>>
      [] i = Len(bs) /\ ~bs[i].endState.terminated -> external
      [] OTHER -> << >>

(* Mutant: only the neighbouring block is looked at. *)
RamContinuityOfNeighbours(ios) ==
    \A j \in 2 .. Len(ios) :
        \A a \in Touched(ios[j]) \cap Touched(ios[j - 1]) :
            RamSummaries(ios[j])[a].first = RamSummaries(ios[j - 1])[a].final
(* What an address holds when a block ends is what the next block to touch it *)
(* finds there.                                                               *)
RamContinuity(ios) ==
    \A j \in DOMAIN ios : \A a \in Touched(ios[j]) :
        LET earlier == { i \in 1 .. j - 1 : a \in Touched(ios[i]) }
        IN  earlier # {} =>
                RamSummaries(ios[j])[a].first = RamSummaries(ios[LastOf(earlier)])[a].final

VerifyChain(bs, external, proofs) ==
    /\ Len(bs) = Len(proofs)
    /\ ValidateBlockChain([i \in DOMAIN proofs |-> proofs[i].public])
    /\ \A i \in DOMAIN bs : VerifyBundle(bs[i], BlockLookahead(bs, external, i), proofs[i])
    /\ \A i \in 1 .. Len(bs) - 1 :
          proofs[i].register.endRegisters = proofs[i + 1].register.startRegisters
    /\ RamContinuity([i \in DOMAIN proofs |-> proofs[i].io])

(* The bundle of a block *)
Bundle(b, next) ==
    LET io == IoClaims(b)
    IN  [public |-> PublicInput(b), rows |-> Len(b.cycles), lookahead |-> next, io |-> io,
         register |-> RegisterClaim(b, io), ram |-> RamClaim(b, io), lookup |-> LookupClaim(b, io)]
BundlesOf(bs, external) == [i \in DOMAIN bs |-> Bundle(bs[i], BlockLookahead(bs, external, i))]
Provable(bs, external) == VerifyChain(bs, external, BundlesOf(bs, external))

(* The prover checks its own chain before it gives it away. *)
Prove ==
    /\ verdict = "offered"
    /\ IF Provable(blocks, lookahead)
       THEN bundles' = BundlesOf(blocks, lookahead) /\ verdict' = "proved"
       ELSE bundles' = << >> /\ verdict' = "refused"
    /\ UNCHANGED <<bytecode, run, target, open, blocks, archive, lookahead, faults>>

Verify ==
    /\ verdict = "proved"
    /\ verdict' = IF VerifyChain(blocks, lookahead, bundles) THEN "accepted" ELSE "refused"
    /\ UNCHANGED <<bytecode, run, target, open, blocks, archive, lookahead, bundles, faults>>
-----------------------------------------------------------------------------
(* What happens to blocks and bundles on the way.  This is not in the code;   *)
(* it is what the checks are for.                                             *)
Touch == verdict \in {"offered", "proved"} /\ faults < MaxFaults /\ faults' = faults + 1

LoseBlock ==
    /\ Touch
    /\ \E i \in DOMAIN blocks : Len(blocks) > 1 /\ blocks' = RemoveAt(blocks, i)
    /\ UNCHANGED <<bytecode, run, target, open, archive, lookahead, bundles, verdict>>

MixBlocks ==
    /\ Touch
    /\ \E i \in DOMAIN blocks : \E b \in Range(blocks) \cup Range(archive) :
          b # blocks[i] /\ blocks' = [blocks EXCEPT ![i] = b]
    /\ UNCHANGED <<bytecode, run, target, open, archive, lookahead, bundles, verdict>>

(* A cycle with one value changed, or none left of it *)
Altered(c) ==
    LET row == RowAt(c.at)
    IN  {NoOpCycle}
        \cup {[c EXCEPT !.rs1 = Wrap(@ + 1)] : z \in IF HasRs1(row) THEN {0} ELSE {}}
        \cup {[c EXCEPT !.rs2 = Wrap(@ + 1)] : z \in IF HasRs2(row) THEN {0} ELSE {}}
        \cup {[c EXCEPT !.pre = Wrap(@ + 1)] : z \in IF HasRd(row) THEN {0} ELSE {}}
        \cup {[c EXCEPT !.post = Wrap(@ + 1)] : z \in IF HasRd(row) THEN {0} ELSE {}}
        \cup {[c EXCEPT !.read = Wrap(@ + 1)] : z \in IF row.k = "SD" THEN {0} ELSE {}}
        \cup {[c EXCEPT !.write = Wrap(@ + 1)] : z \in IF row.k = "SD" THEN {0} ELSE {}}
        \cup {[c EXCEPT !.read = Wrap(@ + 1), !.write = Wrap(@ + 1)] :
                  z \in IF row.k = "LD" THEN {0} ELSE {}}
(* ... and whoever changes it may make the end of the block fit. *)
AlterCycle ==
    /\ Touch
    /\ \E i \in DOMAIN blocks : \E n \in DOMAIN blocks[i].cycles :
       \E c \in Altered(blocks[i].cycles[n]) : \E fit \in BOOLEAN :
          LET b == [blocks[i] EXCEPT !.cycles[n] = c]
          IN  blocks' = [blocks EXCEPT ![i] =
                 IF fit THEN [b EXCEPT !.endState.registers = RegistersAfter(b)[Len(b.cycles)]] ELSE b]
    /\ UNCHANGED <<bytecode, run, target, open, archive, lookahead, bundles, verdict>>

(* The states on both sides of a joint, or on one, with something changed *)
AlteredState(s) ==
    {[s EXCEPT !.registers[r] = Wrap(@ + 1)] : r \in Registers \ {0}}
    \cup {[s EXCEPT !.terminated = ~@], [s EXCEPT !.pc = Wrap(@ + 4)]}
AlterBoundary ==
    /\ Touch
    /\ \E i \in 0 .. Len(blocks) : \E ends, starts \in BOOLEAN :
          /\ ends => i > 0
          /\ starts => i < Len(blocks)
          /\ ends \/ starts
          /\ \E s \in AlteredState(IF ends THEN blocks[i].endState ELSE blocks[i + 1].startState) :
                blocks' = [j \in DOMAIN blocks |->
                              CASE j = i /\ ends -> [blocks[j] EXCEPT !.endState = s]
                                [] j = i + 1 /\ starts -> [blocks[j] EXCEPT !.startState = s]
                                [] OTHER -> blocks[j]]
    /\ UNCHANGED <<bytecode, run, target, open, archive, lookahead, bundles, verdict>>

(* The last cycle is cut off. *)
Truncate ==
    /\ Touch
    /\ LET b == Last(blocks)
            left == Len(b.cycles) - 1
        IN  /\ left > 0
            /\ blocks' = [blocks EXCEPT ![Len(blocks)] =
                   [b EXCEPT !.cycles = SubSeq(@, 1, left), !.active = left,
                             !.endState.cycle = b.start + left,
                             !.endState.registers = RegistersAfter(b)[left]]]
    /\ UNCHANGED <<bytecode, run, target, open, archive, lookahead, bundles, verdict>>

MixLookahead ==
    /\ Touch
    /\ lookahead' \in {<< >>, <<NoOpCycle>>} \cup
          { <<c>> : c \in UNION { Range(b.cycles) : b \in Range(blocks) \cup Range(archive) } }
    /\ UNCHANGED <<bytecode, run, target, open, blocks, archive, bundles, verdict>>

MixBundles ==
    /\ Touch /\ verdict = "proved"
    /\ \E i, j \in DOMAIN bundles : \E part \in {"public", "lookahead", "io", "register", "ram", "lookup"} :
          bundles' = [bundles EXCEPT ![i] = [bundles[i] EXCEPT ![part] = bundles[j][part]]]
    /\ UNCHANGED <<bytecode, run, target, open, blocks, archive, lookahead, verdict>>

BundlesNext ==
    \/ Pull \/ Cut \/ Again \/ HandOver
    \/ Prove \/ Verify
    \/ LoseBlock \/ MixBlocks \/ AlterCycle \/ AlterBoundary \/ Truncate
    \/ MixLookahead \/ MixBundles

BundlesSpec == BundlesInit /\ [][BundlesNext]_bundleVars
-----------------------------------------------------------------------------
(* Types: blocks are made of rows of the bytecode, and registers hold words.  *)
BundlesTypeOK ==
    /\ verdict \in {"running", "offered", "proved", "accepted", "refused"}
    /\ faults \in 0 .. MaxFaults /\ target \in TargetSizes
    /\ \A i \in DOMAIN blocks : \A n \in DOMAIN blocks[i].cycles : blocks[i].cycles[n].at \in Indices
    /\ run.at \in Indices /\ \A r \in RegisterNumbers : run.machine.x[r] \in Word
    /\ bundles # << >> => verdict \in {"proved", "accepted", "refused"}

Trace(bs) == FlattenSeq([i \in DOMAIN bs |-> bs[i].cycles])

(* The cycles are what the machine does when it starts with these registers   *)
(* and some memory: no-ops only follow a last jump.                           *)
IsExecution(cycles, registers, final) ==
    LET accessed(a) == { n \in DOMAIN cycles : cycles[n].ram = a }
        initial == [a \in { cycles[n].ram : n \in DOMAIN cycles } \ {0} |->
                       cycles[FirstOf(accessed(a))].read]
        executed == { n \in DOMAIN cycles : RowAt(cycles[n].at).k # "NoOp" }
        length == Cardinality(executed)
        row(n) == RowAt(cycles[n].at)
        fetched(m, n) == Machine(m.x, m.mem, row(n).address, InstructionLength(row(n).address))
        after[n \in 0 .. length] ==
            IF n = 0 THEN [x |-> registers, mem |-> initial]
            ELSE Execute(fetched(after[n - 1], n), row(n), cycles[n].post)
        does(n) == cycles[n] = CycleOf(row(n), cycles[n].at, after[n - 1], after[n])
    IN  /\ executed = 1 .. length
        /\ \A n \in executed :
              /\ after[n].status = "ok"
              /\ does(n)
              /\ n < length => cycles[n + 1].at = IF EndsInstruction(row(n)) THEN FirstIndex(after[n].pc)
                                                  ELSE cycles[n].at + 1
        /\ length \in 1 .. Len(cycles) - 1 => row(length).k \in Jumps
        /\ length > 0 => final = after[length].x

(* What is accepted block by block is one execution of the program from one   *)
(* end to the other, whatever happened to the blocks: registers and memory go *)
(* through the joints, and no joint falls into the middle of an instruction.  *)
ChainIsExecution ==
    verdict = "accepted" =>
        IsExecution(Trace(blocks), blocks[1].startState.registers, Last(blocks).endState.registers)

(* An honest chain is only refused when nobody has told what comes next: the  *)
(* run goes on and the lookahead is missing, or it has ended on the last      *)
(* cycle of a full block, where the iterator does not notice.                 *)
HonestIsProvable ==
    faults = 0 /\ verdict = "refused" => lookahead = << >> /\ ~Last(blocks).endState.terminated

(* An accepted chain does not leave its last jump or step unexplained.        *)
LastRowIsChecked ==
    verdict = "accepted" /\ lookahead = << >> =>
        Last(blocks).endState.terminated \/ Last(Last(blocks).cycles) = NoOpCycle

(* A bundle is good for one block and one following cycle only.               *)
BundlesAreBound == verdict = "accepted" => bundles = BundlesOf(blocks, lookahead)

(* What the verifier of a chain of bundles promises of those it accepts: one  *)
(* execution, checked to its last row, by bundles made for these very blocks. *)
AcceptedIsExecution ==
    BundlesTypeOK /\ ChainIsExecution /\ LastRowIsChecked /\ BundlesAreBound

(* Cutting a trace into blocks neither loses a check nor adds one: a chain    *)
(* can be proved exactly when its blocks join, the registers at the joints    *)
(* are those the cycles leave, and the whole can be proved as one block.      *)
Joined(bs) ==
    [bs[1] EXCEPT !.active = Len(Trace(bs)), !.endState = Last(bs).endState, !.cycles = Trace(bs),
                  !.atBoundary = \A i \in DOMAIN bs : bs[i].atBoundary]
CutsDoNotMatter ==
    verdict = "offered" =>
        (Provable(blocks, lookahead) <=>
            /\ ValidateBlockChain([i \in DOMAIN blocks |-> PublicInput(blocks[i])])
            /\ \A i \in DOMAIN blocks :
                  /\ ValidateTraceBlockShape(blocks[i])
                  /\ RegistersAfter(blocks[i])[Len(blocks[i].cycles)] = blocks[i].endState.registers
            /\ Provable(<<Joined(blocks)>>, lookahead))
=============================================================================
