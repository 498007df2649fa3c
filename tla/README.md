# A TLA+ verification of block-wise proving in Jolt/Nova

This directory holds TLA+ specifications of the control of a zkVM: how an
instruction becomes rows of a trace, what a proof requires of the rows, how claims
flow through the stages of a proof, how a trace is cut into blocks, checked,
checkpointed, streamed and folded, and the shared state around it (the commitment
context, the advice tape, the trace file). TLC checks each on small instances.
TLAPS proves, for every value of the constants: the invariants of the folding
backend, that what it publishes closes and what it builds verifies, and that it
implements an abstract chain of blocks; that a chain of block bundles can be proved
exactly when its blocks, joined, can, and that accepted bundles are bound to their
blocks; that the iterator's blocks tell the guest's trace and that what the streaming
pipeline proves is that trace; that checkpoints replay faithfully; that the advice tape
gives back what was computed; that prover and verifier find every opening at the same
point through all stages of a proof; the safety of the threaded trace file writer; and that
the shared commitment context gives every session the matrix and the geometry it asked for.

Paths below are relative to `src/`; `block.rs` and `streaming.rs` are
`jolt/jolt-core/src/zkvm/block.rs` and `.../block/streaming.rs`, `lib.rs` is
`jolt/tracer/src/lib.rs`, `zkvm/` is `jolt/jolt-core/src/zkvm/`, and `expand/` is
`jolt/crates/jolt-program/src/expand/`.

    tlc -config MCNovaFold.cfg MCNovaFold      # and likewise for the other runs
    tlc -config MCDoryGlobals.cfg DoryGlobals  # so also MCTraceWriter, MCClaimFlow
    tlapm InductionLemmas.tla
    tlapm BlockProofs.tla
    tlapm TwoSidesProofs.tla
    tlapm StreamingProverProofs.tla
    tlapm GuestExecutionProofs.tla
    tlapm StreamedGuestProofs.tla
    tlapm CheckpointsProofs.tla
    tlapm DoryGlobalsProofs.tla

Three specifications need no instance module: their configurations give the
constants literally. A proof module is checked in one to ten minutes.

Contents: 1 the system, 2 the modules, 3 the runs, 4 fairness, 5 what is proved,
6 where code and text disagree, 7 abstractions, 8 what is not modelled, 9 plan.

## 1. The system

The repository is a zkVM (Jolt) with a block-wise front end and a Nova backend
(`Nova/`). A guest ELF image is preprocessed to a bytecode, in which every
instruction is expanded to one or more rows; the emulator executes the rows and
records a `Cycle` for each. A proof of the trace shows, in seven stages of batched
sumchecks, that each cycle meets uniform constraints and table lookups and that
registers and memory are consistent; stage 8 opens all commitments at one point.
In the block-wise front end the rows are cut into blocks; each block is shown to
satisfy the CPU, register, RAM and lookup relations against the boundary states
before and after it; and the blocks are folded one after the other into an
accumulator whose last state is published with the verified Jolt receipt.

    guest image --expand--> bytecode ----------------------+
        |                      |                           |
        |   advice tape        v                           v
    emulator --tick--> CheckpointingTracer --rows--> TraceBlockIterator
        |                      |         |                 | blocks, on demand
        |                 Checkpoint     |                 +----> block bundles
        |                 (replay)       |                 v
        |                                |       streaming prover (Stage 18)
        |                                v                 | fold inputs
        |               sumcheck stages 1-8 --receipt-->   v
        |               (commitments in the        NovaFoldingBackend
        |                Dory context)                     | final instance
        +--rows--> TraceBatchCollector                     v
                        | bounded channel         release / recursion (Stage 19)
                    writer thread --> file

| Component | State | Operations | Interacts with | Hard behaviour | What makes it correct |
|---|---|---|---|---|---|
| Folding backend (`block.rs`, `Nova/src/nova/mod.rs`) | metadata book, public state z, recursive SNARK, setup | `new_accumulator`, `absorb`, `build_final_folded_instance`, `verify` | called by the streaming loop and by the bundle prover | two books updated by separate code; field arithmetic on the block count; order and origin of inputs | the books agree; only one unbroken execution is folded; the announced schedule is exact; `verify` accepts what `absorb` built |
| Emulator step and lazy tracer (`lib.rs`, `emulator/`) | registers, memory, previous pc, buffered rows, row count, finished flag | `lazy_step_cycle`, `step_emulator`, `tick` | below both iterators | an instruction gives several rows; the end is only known one call later | rows are the guest's, none lost or repeated |
| Trace block iterator (`lib.rs`) | tracer, block index, next global cycle | `next` | pulled by the streaming loop | soft target size; end found in the middle of a call | blocks are contiguous, cut between ticks, and end |
| Checkpoints (`lib.rs`, `memory.rs`) | processor at chunk start, map of first accesses, rows since | `start_saving_checkpoints`, `save_checkpoint`, replay, `trace_checkpoints` | tracer, memory | chunks cut inside an instruction; chunk after the end; sparse memory | a checkpoint replays exactly its chunk |
| Streaming prover (`streaming.rs`) | current and next block, RAM known so far, accumulator, metrics | one loop with early returns | iterator, backend, receipt | one block behind the iterator; state carried between blocks; every check may end the run | what is proved is one unbroken, terminated execution; bounded residency; it decides |
| Trace writer (`trace_writer.rs`) | batch, channel, writer thread, file | `push`, `flush_batch`, `finalize`, drop; thread loop | tracer thread, OS | two threads, bounded channel, I/O errors, panics | the file is a prefix of the trace; Ok means complete; no thread waits for ever |
| Dory context (`dory_globals.rs`) | process-wide atomics and locks | initialise, enter and leave a context, getters | prover, verifier, preprocessing, pool threads | guards that save and restore, initialisation in steps, values that outlive a session | each commitment has the shape it was asked for; prover and verifier agree on the geometry; the context is restored |
| Inline expansion, virtual registers (`expand/`) | allocator of temporaries | `expand`, materialise, allocate, release | tracer, preprocessing | temporaries reused while others live; x0 and coinciding operands; advice | rows do what the instruction means, for every advice; the allocator is restored |
| Emulator: instructions, CSRs, LR/SC (`tracer/src/instruction/`) | registers, CSRs, memory, reservation | `exec`, `trace` | expansion | two copies of the reservation and of the CSRs | both copies agree |
| Lookup tables, constraints, bytecode (`zkvm/`) | rows of the bytecode | flags, lookups, uniform constraints | trace, verifier | sequences of rows, jumps into and stops inside them, padding | only the emulator's execution is provable, and it is |
| Bundle chain and block claims (`block.rs`) | claims, lookahead, bundles | `prove_blocks`, `verify_blocks` and the checks under them | iterator, backend | checks of a pair of rows that lie in two blocks | an accepted chain is one execution; cuts do not matter |
| Jolt prover and verifier stages, opening accumulators, claim reductions (`zkvm/prover.rs`, `verifier.rs`, `poly/opening_proof.rs`) | accumulators, transcripts | ten batches of sumchecks, stage 8 | every sumcheck | an order agreed in two files; points found as one goes; polynomials of different size | honest proofs are accepted; every claim is used; stage 8 opens where it was committed |
| Advice tape (`cpu.rs`, `jolt-sdk/`) | tape, read position | write in pass one, read in pass two | guest, checkpoints | nothing on the tape says what is what | each value read is the one computed |
| Stage-19 recursion and release | circuits, envelopes | synthesis, serialisation | backend | large constraint systems | not modelled |
| Polynomials, sumcheck, fields, curves, commitments; Nova's NIFS, Spartan; image decoding; MMU and devices | algebra, parsing | | | | not modelled |
| SDK beyond advice, guest runtime, inlines, examples, transpiler, extractors | | | | | not modelled |

`PROJECT.json` lists the same components with their status, every hazard of the
code with the line where it bites and the properties that cover it, and the map
from each definition to the lines it stands for.

## 2. The modules

Each specification module states its properties at its end. Definitions marked
`Mutant:` stand beside the definition they alter; they are never part of a
specification, and serve to see that a property can fail.

### The fold: BlockChain, FoldAccumulator, NovaFold

`BlockChain` is the abstract promise of a folding backend: `chain` is extended
only by the block that follows its last one in the same execution and belongs to
the same verified Jolt proof, and only a complete chain is published.

`NovaFold` is `NovaFoldingBackend`. `accumulator` is the `NovaFoldAccumulator`:
`metadata` (operators in `FoldAccumulator`: what is accepted, what is recorded),
`z` (the public state of `JoltNovaStepCircuit`), `snark` (Nova's
`RecursiveSNARK`, with its `i`, `z0`, `zi`) and `setup`. `instance` is the last
published instance. `Absorb(in)` is the whole of `absorb`: native step check,
metadata check, `RecursiveSNARK::new` for the first block, `prove_step` (which
only counts the first time, because `new` already executed the first step),
`verify`, the comparison of the state it returns, and the assignments. A failed
`absorb` returns before anything is assigned, so it is no step.
`BuildFinalInstance` is `build_final_folded_instance` with its two closing
checks. `Verifies` is `verify`, which replays the fold inputs with code of its
own. Fold inputs are arbitrary: the module says nothing about their order.

Scalars are residues below `FieldOrder`; `Plus` and `Dec` wrap, because the
circuit's arithmetic does. The schedule check (position, remaining count, closing
claims) is in `ScheduleSatisfied`, which only the circuit evaluates.

### The guest: LazyTracer, GuestExecution

`LazyTracer` gives operators for `Emulator::tick`, `step_emulator`,
`CheckpointingTracer::lazy_step_cycle`, saving of checkpoints, the first-access
map of `MemoryData`, and `Checkpoint`. Instructions are add, load, store and
jump over one register and a word memory that holds code as well as data; an
instruction expands to a given number of rows, the last of which has the effect.
The guest has ended when it jumped to itself (`prev_pc == pc`).

`GuestExecution` says what a guest does without any tracer (`After`,
`RowsOfTick`, `FullTrace`, rows of the set `TraceRow`); the tracers' properties
compare against it. A guest is such that it halts within `MaxTicks` ticks (`Halts`)
and until then fetches words that decode (`Runs`); TLC evaluates both for the guests
of each run.

### TraceBlocks

`TraceBlockIterator::next`, in steps: `End` (a finished tracer gives None, again
and again), `Begin` (the tick-boundary assertion and the snapshot of the start
state), `Pull` (one turn of the row loop), `Full` (the target is reached between
two ticks), `Emit` (end state, index and start of the next block, or None when no
row came). It is checked as part of `StreamedGuest`, whose property
`BlocksTellTheTrace` is about its blocks alone.

### StreamingProver and StreamedGuest

`StreamingProver` is `prove_streaming_blocks_with_final_proof_and_profile`.
`Start` is the validation of parameters and receipt; `TakeFirst` and `TakeNext`
are the two calls of the iterator; `Reject` and `FoldBlock` are one turn of the
loop. `Checks` lists the checks of a turn in the code's order with the error each
returns; the first that fails decides. `FoldBlock` absorbs into `NovaFold`
(INSTANCE), updates the RAM knowledge, remembers the block for the contiguity
check and moves the prefetched block up. `Finish` builds the final instance and
compares it with the metrics. The iterator is the environment: `Offer(b)` returns
any block of `Offered`, `EndOfBlocks` returns None, both only while the prover
waits (`Wants`). `Outcomes` are Ok and the errors.

`StreamedGuest` replaces that environment by `TraceBlocks`: the iterator takes a
step exactly while the prover waits for a block. This is the production pipeline
(`zkvm/prover.rs:4035`).

### Checkpoints

One specification, two callers. With `loop.interval = 0` it is any caller of the
public interface (`FreeCaller`), which steps, starts saving (at a row in
`StartRows`), saves and replays as it likes. With an interval it is the loop of
`trace_checkpoints`: drop `interval` rows, save, until the tracer has finished;
replays come afterwards. `checkpoints[k].first` and `.end` are ghost fields, the
rows the chunk stands for.

### TraceWriter

Two threads. The collector: `Push`, `Finalize`, `Send` (blocks on a full channel,
and fails when the receiver is gone; the failure is logged only), `Close` (drop of
the sender), `Join`; or `TracerPanics`, which drops the collector. The writer:
`Create`, `Receive`, `Write`, `Flush`; or `Fail`, any I/O error. `written` is what
the `BufWriter` was given, `file` what has reached the file: any prefix of it
until `flush`. `TypeOK` places every row: the offsets `at` say how many rows come
before each batch of the channel, so that the batches are stretches `Rows(a, b)` of
the trace that follow one another.

### DoryGlobals

The process-wide parameters of the commitment scheme, one variable per group of
atomics and locks. A session (`StartProve`, `StartVerify`, `StartCommit`) is the
sequence `todo` of the accesses that the prover, the verifier or the preprocessing
makes, in the order of its code, one step each: `SetParameter`, `SetMain`,
`SetLayout`, `SetMainContext`, `WithContext` (saves the context in the guard and
sets it), `DropGuard`, `Look` (stage 6 reads the geometry), `Check`, `Finish`.
`Fork` hands a commitment to the pool; every worker then does `LoadContext` and
`ReadParameter`, three times over, because each getter looks the current context up
again; `Join` waits for them. A verification may stop half-way. Values stay in the
globals from one session to the next.

### The instructions: JoltWord, ExpansionGrammar, ExpandArithmetic, ExpandDivision, ExpandMemory, Expansion, FinalRows, RiscvIsa, TracedMachine

`JoltWord` is a word of N bits and its operations. `ExpansionGrammar` is the
language of recipes: rows over registers and symbolic temporaries, and allocations
and releases. `ExpandArithmetic`, `ExpandDivision` and `ExpandMemory` hold a recipe
for every source-only instruction: one operator for each `expand_*` function.
`Expansion` dispatches (`ExpandSourceOnlyInstruction`), rewrites instructions whose
destination is x0, and materialises: temporaries are bound to the first free
register of the pool, nested source instructions are expanded on the spot with the
same pool. `FinalRows` is what the rows do (`Execute`), `RiscvIsa` what the
instruction means (the emulator's `exec`), written from different files.

`TracedMachine` runs both next to each other. `Trace(i, e)` is the emulator, which
fills the advice rows from its own machine; `Forge(i, e)` is a prover with any
advice. A family of programs is a set of instructions, registers and memories and a
number of steps.

### The proof of a trace: LookupTables, CpuConstraints, Bytecode, ProvedTrace

`LookupTables` has the entries of the tables. `CpuConstraints` has the flags of each
kind of row, the operands and the table of its lookup, the nineteen uniform
constraints, and the evaluators that the prover uses in their place
(`EvaluatedFirstGroup`, `EvaluatedSecondGroup`). `Bytecode` lays out the rows with
their addresses and sequence counters and gives the emulator over them.

In `ProvedTrace` a prover that need not be honest goes through the cycles: for
each it chooses operands, access, written value and next row, and `Continue`s when
the columns meet the constraints; `Finish` ends the trace at a jump with padding,
and asks for the output check. The emulator executes the same program with the
prover's advice, so that the two can be compared after each cycle.

### BlockBundles

A run of a program, cut into blocks by the iterator (`Pull`, `Cut`), for two runs
(`Again`); `HandOver` gives the blocks, and perhaps the cycle that follows them, to
the prover. `Prove` makes a bundle for each block, `Verify` checks the chain
(`VerifyChain`: each bundle against its block, the joints, the RAM of all blocks).
Between these, at most `MaxFaults` times, `LoseBlock`, `MixBlocks`, `AlterCycle`,
`AlterBoundary`, `Truncate`, `MixLookahead` and `MixBundles` do what a mistaken or a
dishonest caller might. They are the environment, not code.

### The flow of claims: PrecommittedSchedule, OpeningAccumulator, SumcheckStages, ClaimFlow

`OpeningAccumulator` is the prover's and the verifier's accumulator with their
aliases. `SumcheckStages` has one record for every sumcheck: the openings whose
points it needs, the claims it combines, whether it draws challenges when it is
constructed, and what it opens where. `PrecommittedSchedule` says in which round
each variable of advice, bytecode and program image is bound and where these
polynomials lie in the joint matrix. `ClaimFlow` is the two runs, batch by batch:
`Construct` sets the sumchecks up in the order of `prover.rs` or `verifier.rs`
(they differ), `RunSumchecks` runs them and appends what they open,
`OpenCommitments` is stage 8. The verifier stops at the first difference of the
transcripts. The batches themselves (`Sumchecks`), with what is appended between them
(`Between`), are functions of the configuration and of the points found so far.

### AdviceTape

`Compute` is a call of an advice function in the first pass: body, then write of the
result. `SecondPass` boots the second guest with the tape. `Trace` is the next row
that reads the tape: `AdviceReader` cuts a slice into words by what remains and by
the address (`Width`). `CloneCpu` clones the processor at any row, `RunClone` runs the
clone after it. A program is what `ProgramsAreAdvice` says: calls of advice functions, each
with one or more fields and the calls its body makes.

### The proofs

`StreamingProverProofs`, `StreamedGuestProofs` (which includes `TraceBlocks`),
`CheckpointsProofs` and `DoryGlobalsProofs` hold the theorems about the modules they are
named after (section 5). `BlockProofs` holds those about blocks once they are cut:
`NovaFold`, `BlockBundles` and the constraints of `ProvedTrace` under them.
`TwoSidesProofs` holds those about two sides that have to agree on an order: the trace
writer's two threads (`TraceWriter`), and prover and verifier (`ClaimFlow`).
`CheckpointsProofs` also holds those about `AdviceTape`: a clone of the processor is to the
tape what a checkpoint is to memory. The names of `BlockBundles`, `ClaimFlow` and
`AdviceTape` are chosen so that these modules can extend two specifications. `GuestExecutionProofs`
has what those about the tracers need of the reference execution, and
`InductionLemmas` the induction they all use.

The modules whose names begin with `MC` define the finite instances.

## 3. The runs

| Run (configuration) | Distinct states | Shows |
|---|---|---|
| `nova_fold` (`MCNovaFold.cfg`) | 490 | `TypeOK`, `BooksAgree`, `ScheduleExact`, `PublishedClaimsClose`, `VerifyAcceptsFold`, and the refinement `ImplementsBlockChain` |
| `trace_writer` (`MCTraceWriter.cfg`) | 936 | `TypeOK`, `FileIsPrefix`, `OkMeansComplete`, `BoundedBacklog`, `ThreadsEnd` |
| `streamed_guest` (`MCStreamedGuest.cfg`) | 1 256 | `BlocksTellTheTrace`, `ProvedIsGuestTrace`, `RefusedOnlyAtFullBlock`, `PipelineDecides` |
| `streamed_guest_terminal` | violation | `UnterminatedMeansRunning` (section 6) |
| `streaming_prover` (`MCStreamingProver.cfg`) | 10 930 | `ProvedIsExecution`, `BoundedLookahead`, `Decides`, against any iterator |
| `checkpoints` (`MCCheckpoints.cfg`) | 22 700 | `ReplayFaithful`, `ChunksCoverTrace`, `LoopEnds` |
| `dory_globals` (`MCDoryGlobals.cfg`) | 742 711 | `CommitShape`, `GeometryAgrees`, `ContextRestored` |
| `traced_machine` (`MCTracedMachine.cfg`) | 21 670 | `RowsAgreeWithIsa`, `HonestRunsPass`, `AllocatorRestored`, `ReservationMirrored` |
| `proved_trace` (`MCProvedTrace.cfg`) | 3 003 | `ProvedIsExecuted`, `AcceptedRunIsComplete`, `HonestCycleIsProvable`, `EvaluatorsAgree` |
| `block_bundles` (`MCBlockBundles.cfg`) | 503 104 | `AcceptedIsExecution`, `HonestIsProvable`, `CutsDoNotMatter` |
| `claim_flow` (`MCClaimFlow.cfg`) | 9 288 | `HonestProofAccepted`, `PointsAgree`, `AllOpenedWhereCommitted` |
| `advice_tape` (`MCAdviceTape.cfg`) | 16 819 | `AdviceIsWhatWasComputed`, `CloneReadsTheSame` |

`traced_machine` and `block_bundles` take about a minute and a half, `claim_flow`
about one, the others seconds.

Bounds, and why they are enough to meet the interesting cases:

* **`nova_fold`.** A field of order 5 and a schedule of three blocks, so that sums
  of contributions wrap around and a wrapped block count would be a small number
  again. Inputs: the three blocks of an execution with native openings and of one
  without; every combination of two start and two end states for each (a fork that
  leaves the execution and one that comes back); contributions off by 1 and by -1,
  so that a wrong sum and two errors that cancel both occur; the middle block
  altered in each of 22 ways; blocks past the end of the schedule, schedules of one
  and of no blocks, and folds that begin in the middle. The chain is bounded by the
  inputs: there are no more than four consecutive indices.
* **`streamed_guest`.** Nine guests over instructions of 1, 2 and 3 rows and target
  sizes 1 to 4: the target falls on the end of a tick, inside one, and past the end
  of the trace; one guest rewrites the word it loads; one jumps to a jump to itself
  and halts there. Release sizes 2 and 4 agree with the block size or do not; the
  receipt has a padded length of 16. `MaxTicks` bounds the reference execution, and
  `HaltsAssumption` makes TLC check that every guest has halted by then.
* **`streaming_prover`.** Three blocks are the least that distinguish adjacent from
  non-adjacent blocks (RAM knowledge is carried over a block that does not touch the
  cell). One alternative continuation, and each block altered in the fields a check
  reads, one at a time, plus an empty block; every order and repetition of them can
  be offered, up to the first refusal. Target sizes 0 and 3 are the invalid release
  parameters, 2 the valid one; receipts are missing, not zero-knowledge, long enough
  and too short.
* **`checkpoints`.** Guests whose chunks read, write, rewrite and fetch code; at most
  three checkpoints for the free caller, at every combination of rows, and one replay
  at a time (replays do not touch the tracer). Intervals 1 to 5 and 20: dividing the
  length of the trace or not, cutting inside a tick, longer than the trace. `StartRows`
  is {0}: the caller starts saving before the first row (section 6).
* **`trace_writer`.** Nine rows in batches of two through a channel of one batch: the
  channel fills while the writer holds a batch, the sender blocks, and the last
  batch is not full. In production the depth is 64 and a batch is millions of rows;
  no guard tells these sizes apart beyond full and not full, empty and not empty.
  `ChannelDepthAssumption` leaves out depth 0, a rendezvous channel, which no caller
  configures.
* **`dory_globals`.** Two sizes of K and of T, and matrices of K * T entries and of
  two and four times that, so that values left over from another session are both
  larger and smaller than those wanted, and both parities of the number of variables
  occur. Two workers are the least that can interleave.
* **`traced_machine`.** Words of 8 bits with bytes of one bit: a doubleword has eight
  bytes, a word four, a halfword two, as in the code, and every operand can be tried.
  The constants of the code that stand for a width (64, 32, 63, 31, 56, 48, the MPP
  bits) are written in terms of N and `ByteBits`. Operands coincide with each other and
  with the destination, and are x0. Arithmetic has the operands where carries and signs
  change; memory instructions have every address of two neighbouring doublewords.
  Load-reserved and store-conditional programs take four steps over two doublewords
  and one below RAM, because it takes a reservation, something that must clear it, and
  two conditional stores; trap programs take three. For the divisions the prover tries
  all 256 quotients, with the remainders and operands where signs and overflows are.
* **`proved_trace`.** The program dispatches on its input to two routines. One divides
  in a subroutine (a jump into and out of the neighbourhood of a sequence of rows with
  advice) and ends well or in a panic; the other sets a trap handler, traps, edits
  the return address and returns, with narrow loads and stores. Wherever the prover may
  choose, it has the values that some constraint asks for and seven numbers more
  (`Forged`: small ones, an address, the largest word, and two past the width of a
  word), and every row of the bytecode as the next one. `MaxCycles` = 60 is longer than
  any of these runs.
* **`block_bundles`.** A trace of at most ten cycles with a sequence of rows across which a
  target of 2 or 4 falls, a store that a later block loads, one that overwrites the
  input that an earlier block loaded, and the final loop. Two faults are the least
  that make two wrong parts fit each other (a changed cycle and a changed boundary, or a
  block of another run and its bundle).
* **`claim_flow`.** Every combination of both layouts, each kind of advice absent, of
  1 variable or of 6, bytecode and image committed or not, bytecode chunks of 5 or 7
  variables, and an address that chunks divide evenly or not: 216 configurations. The
  largest polynomial is in turn the trace, the advice and the bytecode, and advice is
  bound in one phase or in two. Two is the least number of one-hot polynomials, chunks
  and tables at which an order between them exists.
* **`advice_tape`.** Results of every size from 0 to 17 bytes (two words and a byte)
  read to every address modulo eight, so that every sequence of widths occurs; tuples
  and Vecs of several sizes; a body that calls another advice function.

`CHECK_DEADLOCK FALSE` stands only where the modelled system may stop: `nova_fold`
and `checkpoints` (the caller may make no further call), `trace_writer` (both threads
end), `traced_machine` (the program has run its steps), `proved_trace` (a trace ends,
and a prover may have no way on), `block_bundles` (a verdict ends it) and
`advice_tape` (the program ends). The other runs check for deadlock; a finished
`StreamingProver` repeats its last state by the action `Done`, a finished pipeline by
`Finished`, an accepted `ClaimFlow` by `Accepted`, and `DoryGlobals` starts a further
session.

What the properties say, beyond their formulas:

* `ProvedIsExecution` is the reason for the checks of the streaming loop. Each check
  sees one block, the row after it and the RAM known so far; the property speaks of
  the concatenation of all rows: program flow, register flow, every RAM read, the
  final jump. The offered blocks violate each part in turn.
* `RefusedOnlyAtFullBlock` is its converse over the real iterator: no honest guest is
  refused, with the one exception of section 6 (and a block size that the release
  parameters do not name).
* `ReplayFaithful` says that a memory of only the cells a chunk touched, with the
  values they had before the first access, is enough to replay the chunk, rows
  compared one by one.
* `OkMeansComplete` relates two threads and the file: a failed `send` is only logged,
  and it is `join` that turns it into an error, because the receiver goes only when
  the thread ends in error or the sender was dropped.
* `CommitShape` is about three lookups that a worker makes at different times, each
  under the context current at that moment: together they must be one matrix, the one
  asked for.
* `RowsAgreeWithIsa` quantifies over the advice: a quotient that passes the assertions
  is the quotient. `HonestRunsPass` is its converse: the emulator's advice passes, the
  pool suffices, and no row reads a temporary that was released or never written.
* `ReservationMirrored` relates the emulated processor's reservation, from which the
  advice of a store-conditional comes, to the two virtual registers that the rows
  check. Virtual registers are part of the register file, so a checkpoint between
  load-reserved and store-conditional copies them with the other registers.
* `ProvedIsExecuted` is soundness relative to the arguments under it: what the
  constraints let through is what the emulator does. `AcceptedRunIsComplete` says why
  padding after any jump does no harm, `HonestCycleIsProvable` that the constraints
  refuse no honest cycle, `EvaluatorsAgree` that the evaluators written by hand say the
  same as the table of constraints, on honest columns and on those changed in one place.
* `AcceptedIsExecution` says the same of a chain of bundles, where the checks are local
  to a block and its neighbour; `CutsDoNotMatter` compares the chain with the same
  cycles as a single block; `HonestIsProvable` names the honest chains that are
  refused.
* `PointsAgree` and `AllOpenedWhereCommitted` say that what a sumcheck leaves is, for
  prover and verifier, what a later one takes up, until stage 8 opens each committed
  polynomial once, at the entry of the joint matrix at which it was committed.
* `AdviceIsWhatWasComputed` holds for programs whose advice bodies call no advice
  functions (`BodiesCallNoAdvice`): a nested call writes to the tape in the first pass
  and is not made in the second (section 6).

## 4. Fairness

| Specification | Assumed | Because |
|---|---|---|
| `StreamingProver!Spec` | WF of the next step | the loop is one thread, and its iterator answers every call |
| `StreamedGuest!PipelineSpec` | WF of the next step | one thread runs prover, iterator and emulator |
| `Checkpoints!Spec` | WF of the loop (`Drop`, `SaveChunk`) | `trace_checkpoints` runs to its end; a free caller need do nothing, and nobody need ever replay |
| `TraceWriter!Spec` | WF of each thread (`Collect`, `WriterStep`) | the operating system schedules both; failures and panics are never forced |
| all others | none | only safety is stated: libraries called by others (`NovaFold`, `DoryGlobals`), or sequential programs whose steps are bounded by their input |

## 5. What is proved

Twenty-seven theorems, checked by TLAPS for every value of the constants that meets the
assumptions named. All but three are about properties that the runs check too; the three
are `ProvedBlocksAlwaysHold`, which is stated for the proof, `AcceptedBundlesAreBound`, a
conjunct of such a property, and `EvaluatorsAreTheConstraints`, which is about operators.

### Induction

The library states induction for an arbitrary predicate, which the installed provers
cannot instantiate. `InductionLemmas` states it for a *set* of numbers instead
(`SetInduction`, `IntervalInduction`: a set that holds 0 and the successors of its
numbers holds them all), from the theorem that the natural numbers are well-founded. A
predicate P is then the set `{n \in 0 .. N : P(n)}`. From this follow that a function
defined by recursion over `0 .. N` exists and satisfies its equation, and what
`FlattenSeq` does with the last of its sequences; everything below that sums, replays or
concatenates rests on it.

### The fold

`BlockProofs` proves, for every set of inputs, field order and set of claim
kinds, from `FieldAssumption` (the order is a natural number above 1),
`NoneAssumption` (the absent value is none of the others) and
`InputsAssumption` (the inputs are records of the type `FoldInput`):

* `TypeCorrect == Spec => []TypeOK`
* `BooksAlwaysAgree == Spec => []BooksAgree`
* `ScheduleAlwaysExact == Spec => []ScheduleExact`
* `ClaimsAlwaysClose == Spec => []PublishedClaimsClose`
* `FoldAlwaysVerifies == Spec => []VerifyAcceptsFold`
* `Refinement == Spec => ImplementsBlockChain`

None of these is inductive alone. The inductive invariant is

    IInv == Typed /\ BooksAgree /\ ScheduleExact /\ Anchored

`Typed` adds to `TypeOK` that the accumulator is empty altogether or not at all
(`AllOrNothing`): without it a step could find metadata without a z. `Anchored`
ties the metadata to the first and last block of the digest sequence; the
refinement needs it, because `BlockChain` compares a new block with the last block
of the chain and with its first, and the code never looks at either but at fields
it copied. `BooksAgree` needs `ScheduleExact` for nothing, but the refinement needs
both: `position = Len(chain)` follows from the circuit's equation
`remaining + position = count` in the field only because `remaining` has not
wrapped.

The argument. `AbsorbStep` collects what an accepted absorb establishes; the
important point is that Nova's `verify` after the step shows `satisfied`, hence
that the circuit held on the z *before* the step, which by `BooksAgree` is
`snark.zi`. `AbsorbTyped`, `AbsorbBooks`, `AbsorbSchedule` and `AbsorbAnchored`
then preserve one part each. For the schedule, the block is accepted only if
`remaining # 0` and `remaining + position = count` hold in the field, so the
decrement does not wrap (`CurrentSchedule`). `AbsorbExtends` and `BuildPublishes`
map the two actions to those of `BlockChain`.

Two properties speak of functions of the whole chain. `ClaimsAlwaysClose` adds to `IInv`
that z has summed, modulo the field order, what each block contributed, each at its
position (`ClaimsTracked`); the closing check of the circuit then makes the sum the
target. `FoldAlwaysVerifies` adds that replaying the fold inputs with the code of
`verify` gives the metadata and the z that `absorb` kept (`Replayable`). In both, a step
appends one block, and the lemmas say what the recursive function does with it.

### The block bundles

`BlockProofs` proves further, for every program and decoding, every set of inputs of the
guest, every word width among 4, 8, 16, 32 and 64 bits (`WidthAssumption`) and every target
size above 0 (`BundleAssumption`):

* `CutsNeverMatter == BundlesSpec => []CutsDoNotMatter`
* `AcceptedBundlesAreBound == BundlesSpec => []BundlesAreBound`

The specification has blocks cut from a run and any number of faults: lost or altered
blocks, altered boundary states, altered bundles. The first theorem says that none of it
matters: a chain, in whatever state, can be proved exactly when its blocks join (the
boundaries meet, and a block's cycles lead from its start state to its end state) and the
whole, put together as one block, can be proved. The invariant is only that the blocks are
blocks, of values from some set X, since altering may bring in any (`BundlesIInv`); the
work is that the checks of the parts, with those of the chain, are the checks of the whole:

* the rows (`CpuOfParts`): every check of a cycle concerns it and the one that follows, and
  at the end of a part the one that follows is given by the lookahead;
* the registers (`RegistersOfParts`): what a block checks is that its reads follow the run of the
  register file from its start state, a function of the cycles (`RegisterRun`), and runs
  that meet put together are a run (`RunsJoin`);
* memory (`RamOfParts`): a block claims of each cell the value it found first and the one
  it left last, and the chain compares a claim with the last block before that touched the cell,
  however many blocks lie between. For the whole, a read finds the last write before
  it, in whatever block that is. `MemoryClaim` shows that what a part claims is what
  its cycles say (`Leaves`, `Finds`), and `LeavesJoin` follows the last write through parts
  that do not touch the cell.

Each is shown for two parts and then by induction over the parts (`EveryPart`). The second
theorem says that what a verifier accepts are, component by component, the bundles that a prover would
make for the very blocks it is given and the very cycle that follows them
(`VerifiedIsOwn`): each check of a bundle fixes the component it is about, and together they leave
none open. `BoundIInv` adds the type of the bundles and that the verdict is forgotten
when anything is altered.

### The evaluators

`EvaluatorsAreTheConstraints` is about operators of `ProvedTrace`: for every row, word width and
columns that are integers, where the sums that the code computes in machine words do not
overflow (`SumsFit`), the two hand-written evaluators of `zkvm/r1cs/evaluation.rs` accept exactly
the cycles that the nineteen constraints of `zkvm/r1cs/constraints.rs` accept. It is what
`EvaluatorsAgree` says of the states of its run, without the run; that those columns do not
overflow stays with TLC.

### The trace writer

`TwoSidesProofs` proves, for every number of rows, batch size above 0 and channel
depth above 0 (`ItemsAssumption`, `BatchSizeAssumption`, `ChannelDepthAssumption`):

* `TypeCorrect == Spec => []TypeOK`
* `FileAlwaysPrefix == Spec => []FileIsPrefix`
* `OkAlwaysComplete == Spec => []OkMeansComplete`
* `BacklogAlwaysBounded == Spec => []BoundedBacklog`

The inductive invariant is

    IInv == TypeOK /\ CollectorShape /\ WriterShape /\ FileShape

`TypeOK` places the rows while the writer thread runs. It is stated by offsets
because the concatenation of the queued batches would need induction over a sequence
of sequences; with offsets, a send appends one offset (`Queued`), a receive drops the
first (`Taken`), and the bound `sent - at[k] <= (Places - k) * BatchSize` is carried
along instead of summed up, which gives `BoundedBacklog`. `CollectorShape` and
`WriterShape` say which phases of the two threads go together. They are needed for
`OkMeansComplete`: a send is refused only when the thread is gone, the thread ends
well only after the sender was dropped, and the collector drops the sender only after
its last send, so a refused send implies that the thread has failed, and `Join`
reports it. `FileShape` follows what the buffered writer may have spilled, also after
a failure, when nothing places the rows any more.

### The flow of claims

`TwoSidesProofs` proves further, for every set of layouts, trace lengths, memory sizes,
sizes of the two kinds of advice, of bytecode chunks and of the program image, and every
number of chunks (`SizeAssumption`) and of one-hot polynomials (`CountAssumption`):

* `PointsAlwaysAgree == ASSUME 0 \notin AdviceVars PROVE FlowSpec => []PointsAgree`

so that whatever is present, the verifier's openings and aliases are the prover's, every
sumcheck finds each point it starts from, the one the prover had, and the claims that it
folds into one are at one point. The hypothesis leaves out advice of a single word, for
which the statement is false (section 6).

The points of a proof are scattered over some thirty `cache_openings`, and the accumulators
only hold what was appended. The proof therefore starts from a table: `Where(k, id)` is, for
the configuration k, the point at which a name is opened if it ever is. An accumulator is
`Sound` when every opening is at its place in the table, an alias stands in one step for
an opening of the same polynomial at the same place, and no polynomial is opened twice at
one place. Then looking a point up gives the table's, aliases or not (`SoundKnows`).
Appending an opening that belongs where it is appended keeps an accumulator sound, whether it becomes
an opening or an alias. For each sumcheck a lemma (`FitsOuterUniSkip` to `FitsHammingWeight`)
shows that it opens everything where the table says and folds only claims that the table
puts at one point (`Fits`); `BatchFits` is the same for a batch. What a sumcheck folds must also
have been opened: `Complete(k, b, a)` names what batch b takes for granted without
looking it up, and `CompleteAfter` that batch b leaves what the next one needs.

The verifier starts with the claims of all openings and no points, so its accumulator
cannot be sound. It `Follows(k, v, p, last)`: it has the aliases of p, the openings of last, and
of these the points of exactly those that p has. Here p is the prover's accumulator at the same
place of its run and last the one at its end. Whether the verifier appends, finds an
opening that was given, or takes an alias is decided by other code than the prover's
(`VerifierAppends`, `ProverAppends`); that they decide alike is `VerifierAppendsAlike` for one
opening and `VerifierFollowsAll` for a batch. It needs that a polynomial
is at the empty point at most once (`EmptyAlone`), which is where single-word advice fails.

The prover's run is a function of the configuration: `History(k)[b]` is its accumulator before
batch b. The inductive invariant is

    FlowInv == FlowTyped /\ FlowsAt(c, who, batch, phase, acc, used)

While the prover runs, its accumulator is that of its history; while the verifier runs, the prover's
is the end of the history and the verifier's follows the history at its own batch. That
the history is sound is not assumed, and that no batch panics is not claimed: the invariant says that
the batches before this one worked (`Works`: their points were found, and nothing was appended
twice), since a state in a later batch exists only if they did, and `HistorySound` derives the rest
by induction over the batches. TLC has confirmed `FlowInv` in all states of the run; it
is not among its invariants, because evaluating histories in every state needs a larger stack.

### The streaming loop

`StreamingProverProofs` proves, for any iterator (`Offered` is any set), any release
parameters and receipts, from `AbsentAssumption` (the absent value is neither a block
nor an outcome) and `CyclesAssumption` (the cycles of a block are a sequence):

* `LookaheadAlwaysBounded == Spec => []BoundedLookahead`
* `ProvedBlocksAlwaysHold == Spec => []ProvedBlocksHold`
* `ProvedAlwaysExecution == Spec => []ProvedIsExecution`

The second says what the checks of the loop amount to when it answers Ok: each block
that was folded has the size and the shape it claims, meets the CPU relation together
with the block that follows it (`Following`), and the register and RAM relations; it
continues the one before; it is marked terminated exactly if it is the last; and the
receipt is long enough. The work is in the loop's being one block behind its
iterator: a check made in one turn speaks of a block that is only recorded as the
previous one in the next turn, and of a following block that may not have been there
when the turn began. The inductive invariant is

    IInv == Shaped /\ Progress /\ Outcome /\ FoldedHold

`Shaped` is the shape of the record and of the phases; `Progress` relates the blocks
taken from the iterator, those held and the number folded, phase by phase; `Outcome`
says with what the loop may end, and that it answers Ok only when the iterator has
ended; `FoldedHold` is the property for the blocks folded so far. `AbsorbCounts` is what
the proof uses of `NovaFold`: an accepted absorb counts one block.

The third goes from single blocks to the concatenation of their rows. `Executed` says of
the folded rows that each continues the one before, that the register is carried from
the start state of the first block to the end state of the last (`RowsHold`), that every
read finds what was last written (`RamFlows`), and that `prover.ram` is what they leave
of memory (`RamAfter`). One more block appends its rows: `RowsGoOn` joins two executions
that meet in a row and a register value, and the RAM lemmas do so for memory.

### The blocks and the pipeline

`StreamedGuestProofs` proves, for every set of guests, every decoding of words to
instructions (of any number of rows above 0) and every target size above 0, from
`HaltsAssumption` (`Halts` and `Runs`, section 2) and the type assumptions of the guest:

* `BlocksAlwaysTell == Spec => []BlocksTellTheTrace`
* `ProvedAlwaysGuestTrace == PipelineSpec => []ProvedIsGuestTrace`
* `GuestsRefusedOnlyAtFullBlock == ASSUME Releasable PROVE PipelineSpec => []RefusedOnlyAtFullBlock`

The invariant of the first is

    BlocksInv == Typed /\ Placed /\ Ends /\ Linked /\ BlocksAreWholeTicks /\ TerminatedIsLast

`Placed` is the heart: for some ticks j and n, the tracer has made n ticks, the current
block began after tick j, and what the guest traced up to j, the rows the block has so
far and the rows still buffered in the tracer are together what it traced up to n. A row
that is handed out moves from the buffer to the block (`HandsOut`); a tick of the emulator
increases n (`TicksOnce`); and the block was not yet full one tick ago, so that it is cut
at the first tick that fills it. `Ends` says when a block may be emitted and that the
iterator ends only with its tracer and at the end of the trace, `Linked` that the next
block starts where the last one ended. `GuestExecutionProofs` supplies that the ticks
make rows until the guest halts and none from then on.

The second composes: `PipelineInv == BlocksInv /\ Told /\ Loop!IInv /\ FoldedEnd`. `Told`
says that the blocks put end to end are the first `iter.start` rows of the trace, and
`Loop` is `StreamingProverProofs` with the iterator's blocks for what it may be offered
and the iterator's last phase for the end of blocks; each step of the pipeline is a step
of the loop or leaves it alone, so its invariant is reused, not proved again. When the
loop answers Ok the iterator has ended and all blocks are folded, and `Told` and `Ends`
give the full trace.

The third is the converse: every relation that the loop checks holds of what the iterator
returns, for any guest that halts. `Releasable` is what the loop asks for before its first
block (the block sizes are powers of two, there is a receipt, and it is of a proof with
zero knowledge), and that the trace length of the receipt, which is padded, is at least
that of the guest; the run's constants satisfy it. The argument is about the guest alone:
the rows of ticks j + 1 to k follow each other, carry the register, and take memory from
the machine after j to the machine after k, whatever cells a reader remembers
(`Carries`; `TickCarries` for one tick, `PartCarries` by induction). The invariant is

    GuestInv == PipelineInv /\ BlockEnds /\ RamKnown /\ ... /\ RefusedOnlyAtFullBlock

`RamKnown` says that the cells which the loop remembers have their values in the guest's
memory at the end of the last folded block, so that the next block's reads agree with
them. `BlockEnds` says that the tracer is found finished exactly when the block being
emitted is short of its target: only such a block is marked terminated, and it holds the
guest's last row, which is a jump. What is left to refuse (`GuestRejects`) is a last block
that is full, or a block size other than the one named.

### Checkpoints

`CheckpointsProofs` proves, for every guest, every interval above 0 and every bound on
the number of checkpoints, for callers that start saving before the first row:

* `ReplayAlwaysFaithful == ASSUME StartRows \subseteq {0} PROVE Spec => []ReplayFaithful`
* `ChunksAlwaysCover == ASSUME StartRows \subseteq {0} PROVE Spec => []ChunksCoverTrace`

The assumption is what the only caller does; without it the statement is false (late start
of saving, section 6). The invariant is

    CheckpointsInv == Shaped /\ Positioned /\ Saved /\ Replayed /\ Looped

`Positioned` says where the tracer is in the trace, and that the map of first accesses
holds every cell that the ticks since the last save have touched, with the value it had at
that save. `Saved` says of each checkpoint that it can replay the rows it stands for:
there is a tick at which its processor is the guest's, and its memory agrees with the
guest's on all cells that the ticks up to the end of the chunk touch. That is all a replay
reads (`TickSaving` and its companions), and a tick preserves the agreement, since it
writes only cells that it touches. A chunk may begin and end inside an instruction: the
rows that the tracer had buffered are part of the checkpoint. `Replayed` follows a replay
row by row, and `Looped` counts the chunks of `trace_checkpoints`.

### The advice tape

The end of `CheckpointsProofs` proves, for every set of programs of advice functions
(`ProgramsAssumption`: calls with one or more fields of any size, at any address, where the
contents of a Vec come after its length and capacity):

* `AdviceAlwaysComputed == AdviceSpec => []AdviceIsWhatWasComputed`
* `CloneAlwaysReadsTheSame == AdviceSpec => []CloneReadsTheSame`

Nothing on the tape marks where a result begins. So the invariant of the first theorem
does not speak of the position but of what is left of the tape:

    AdviceInv == AdviceTyped /\ (BodiesCallNoAdvice => AdviceWritten /\ AdviceRead)

`AdviceWritten` says of the first pass that the tape, followed by what the calls still to be
made would write, is what all calls of main write. `AdviceRead` says of the second
(`AdviceExact`) that what is left of the tape is the rest of the field being read, then
the remaining fields of the call, then the results of the calls that remain, and that the
fields already read are those computed. Each kind of step has a lemma: a slice begins with
the size that was written (`ExactBegins`), where a length read for a Vec identifies the call and
the field that it was written by (`LengthReadExact`); a read is aligned, never longer than
what remains of the field, and so never crosses into the next one (`WidthFits`, `TakenFrom`);
a slice ends with the field whole. The types need no such hypothesis: that stores are aligned
and the position stays on the tape holds with nested calls too, and a machine that finds the
tape exhausted panics.

The second theorem has no such hypothesis, and does not need the tape to be right. A
clone runs only when the original has stopped, and both are deterministic. `CloneInv` says
that there is a number of steps N that took the original from the saved processor to
where it stands (`RanTo`, with the machines h and the reads f after each step), and a
k up to N such that the clone is the k-th of these machines and has read f[k]. Since
reads are only appended, f[k] is a beginning of f[N], which is what the original has read
since the save; and a machine that has finished makes no further step, so a finished clone is
the N-th.

### The Dory globals

`DoryGlobalsProofs` proves, for any number of workers and any sizes
(`SizesAssumption`: sizes are natural numbers and the absent value is none), over any
sequence of proofs, verifications and commitments:

* `CommitAlwaysShaped == Spec => []CommitShape`
* `GeometryAlwaysAgrees == Spec => []GeometryAgrees`
* `ContextAlwaysRestored == Spec => []ContextRestored`

A session is a script, the sequence of accesses that its code makes, and everything
depends on where in the script it is: which parameters it has written so far, whether the
guard is live, and whether the workers are between a fork and its join. So the invariant
names the position:

    IInv == Geometry /\ Underway

`Underway` says that no session runs, or a prover, a verifier or a commitment is at some
position p of its script (`Proving(a, p)`, `Verifying(p)`, `Committing(c, p)`), or a
verification has been refused; each fixes the globals, the context, the guard and the
workers at that position. `Geometry` is the property itself, with the types. The scripts
are concatenations; `ProveOps`, `VerifyOps` and `AdviceOps` work out which access stands
where. `WorkerStep` is the concurrent part: while the workers compute, the session waits
at the join and changes nothing, so each lookup, whenever it is made, finds the context
and the matrix that were current at the fork (`Reading`). That the embedded T is T
stretched by the extra variables is arithmetic on the matrix that was just initialised
(`MatrixSides`), and holds whatever earlier sessions left, because `initialize_main`
writes every value that is read afterwards. TLC has confirmed `IInv` on a small instance.

### Proved, and only checked

Proved: the twenty-seven above. Only model-checked:

* `TracedMachine` and `ProvedTrace`, but for the evaluators: their properties say that the rows of
  some hundred recipes compute what the instruction means, which is arithmetic of
  words (division, shifts, remainders by powers of two), and the allocator's balance is an
  induction over the recipes, which nest.
* of `BlockBundles`, what relates bundles to the execution (`HonestIsProvable`, and of
  `AcceptedIsExecution` the conjuncts other than `BundlesAreBound`): they rest on `ProvedTrace`.
* of `ClaimFlow`, `HonestProofAccepted` and `AllOpenedWhereCommitted`: that no batch panics, and
  where the joint matrix has its polynomials, which are permutations of rounds that the model
  selects and sorts by recursive operators. Both are functions of the configuration, and the configurations of
  interest are checked.
* all liveness: fairness and ENABLED are out of reach of the provers used.

## 6. Where code and text disagree

**A halted guest refused as unterminated** (`streaming.rs:769`, run
`streamed_guest_terminal`). The tracer learns that the guest has halted only when
it is asked for a further row (`lib.rs:796`), and the iterator stops asking at the
target size. If the last row of a halted guest completes a block, its end state
is not marked terminated, the next call returns None, and the loop ends with
`UnterminatedTrace`, whose text says that the trace ended "without a terminal
machine state". `RefusedOnlyAtFullBlock` shows that this is the only way in which
an honest guest is refused, and `HonestIsProvable` that a chain of bundles without
lookahead is refused in the same case. The error is an early return; no wrong proof
comes of it. Another block size proves the same guest.

Noted while modelling, without a run of their own:

* **One checkpoint too many** (`lib.rs:226`). The test `test_checkpoints` asserts
  `len().div_ceil(n)` checkpoints. When n divides the length of the trace,
  `trace_checkpoints` returns one more, which replays no row. `ChunksCoverTrace` shows
  that nothing else is wrong with the chunks.
* **Late start of saving** (`lib.rs:684`). The comment of `save_checkpoint` promises
  the chunk since `start_saving_checkpoints`, which does not reset the row count. A
  caller that took rows before gets a checkpoint that replays too many. The only
  caller, `trace_checkpoints`, starts before the first row; with another row in
  `StartRows`, TLC finds `ReplayFaithful` violated.
* **Advice committed as a single entry** (`jolt/jolt-core/src/poly/opening_proof.rs:814`).
  A maximum advice size of one word is legal (`MemoryLayout::new` only aligns it;
  `program.rs:67` pads the image of the program, but nothing the advice, to two
  words). Such advice has no variable, so it is opened at the empty point, which the
  verifier's accumulator takes for an opening whose point has not been found yet: it
  appends the second opening anew where the prover, which compares points, only records an
  alias, and the transcripts part. With `AdviceVars = {0, 6}` TLC finds
  `HonestProofAccepted` violated, a complete proof being rejected in stage 7; no wrong
  proof comes of it. The configuration checked has `AdviceVars` without 0, and
  `PointsAlwaysAgree` is proved for `AdviceVars` without 0.
* **An advice function that calls another** (`jolt/jolt-sdk/macros/src/lib.rs:1490`).
  The inner result is written in the first pass and not read in the second, because
  the body does not run there; all later results are read from the wrong place.
  Nothing in the macro refuses such a body.
* The comment at `trace_writer.rs:13` gives about 2 GB for a channel whose depth and
  batch size make about 25 GB. `BoundedBacklog` holds: the number of batches is
  bounded as intended.

## 7. Abstractions

* A digest is the value it digests (digests are injective). The zero word that
  stands for an absent digest in z is `None`.
* The relations that a block satisfies alone (opening arithmetic, lookups, block
  claims) are the Boolean `valid` of a fold input; in `StreamingProver` the proof of
  the CPU, register and RAM relations is the relation itself. `BlockBundles` has the
  relations.
* The four fingerprint accumulators of z, which no guard reads, are left out.
* `RecursiveSNARK` is modelled by what it attests: `satisfied` is the conjunction of
  the step relation over the steps proved; `verify` checks parameters, count, z0 and
  that. The constants that the step circuit allocates to compare the remaining blocks
  with (`closure_zero`, `closure_one`) are the numbers 0 and 1. `Nova/src/nova/mod.rs` is followed for the counting of the first step.
* In the tracers and the streaming loop one register stands for the register file and
  four operations for the instruction set; only the number of rows of an expansion
  matters there. The real instructions are in `TracedMachine` and what builds on it.
* The check of `max_resident_trace_blocks` (one plus whether there is a next block)
  cannot fail by its own arithmetic and is left out; `BoundedLookahead` states what it
  is for.
* The profile sink, timing metrics, the release envelope and logging are left out. A
  panic of the writer thread is not modelled (an I/O error is).
* `DoryGlobals`: sessions do not overlap, because the tests that use the globals are
  serial and no caller starts a second session in one. Sizes are their logarithms.
* `TracedMachine`: an instruction is 4 bytes long; `mtvec` is in direct mode and
  `mstatus` is only cleared and read by the program, because the rows of ECALL know no
  more; `emit` and `expand` of the builder are one (a nested source instruction is
  expanded, a final one emitted). The recursion limit of 128 is never met by these
  recipes and is left out.
* `ProvedTrace`: registers and memory are read where they were last written, lookups
  give entries of their tables, and commitments bind: the soundness of the arguments
  is assumed. The last cycle of a trace sees a no-op after it, with next-row columns 0.
  An `LD` or `SD` at address 0 is excluded, because 0 stands for no access. The
  evaluators' wrap at 64 bits is not modelled, because their inputs are smaller.
* `BlockBundles`: LogUp sums are functions of the lookups they sum. A cycle is a row of
  the bytecode with the values read and written; that the rows are those of the program and
  that first reads find the initial memory is for the opening-aware verification, which is
  left out. The program digest is compared only when folding; pc and terminated of a
  boundary only between neighbours; `emulator_trace_len` is left out.
* `ClaimFlow`: the prover is honest, and a claim is its polynomial and point. A
  challenge is named by the sumcheck that draws it; a transcript is the sequence it took
  in. Before stage 6b one coordinate stands for all challenges of a chunk. The circuit
  flags other than those a sumcheck names are one opening. ZK mode is left out.
* `AdviceTape`: a byte is known by where it was computed. `bytes_remaining`, direct use of
  the readers by the guest and guest memory that cannot be read are left out.

## 8. What is not modelled, and why

* **Fields, curves, polynomials, sumcheck, commitments, Spartan, NIFS, the hash of the
  transcript.** Algebra over large domains. Where the control above depends on it, it
  appears as the relation it establishes.
* **Recursive circuits and release artefacts (Stage 19), the recursive relations of a
  block, the opening-aware verification.** Constraint synthesis and serialisation, and
  evaluations of polynomials at points of a large field.
* **MMU, devices, image decoding.** A guest starts with address translation off, and
  satp is not among the CSRs that a provable program can write; parsing is sequential
  and without state.
* **Inlines registered by other crates.** Their recipes are built by code in those
  crates with the builder modelled here.
* **The crate `jolt/crates/jolt-verifier`.** A second implementation of the proof
  verification ("standalone verifier model crate"), over the crates `jolt-claims`,
  `jolt-sumcheck`, `jolt-openings` and others; the prover and the folding do not use it.
  `ClaimFlow` follows the verifier of `jolt-core`, `zkvm/verifier.rs`, and says nothing
  of the other.
* **BlindFold and zero-knowledge openings.** Masking of the same claims.
* **SDK macros other than advice, guest libraries, examples, transpiler and extraction
  tools.** Offline code without state.

## 9. Plan

Done, in this order: the fold and its proofs; the tracers, blocks and checkpoints; the
streaming loop, alone and over the iterator; the trace writer and its proofs;
`DoryGlobals`; the expansions and `TracedMachine`; `ProvedTrace`; `BlockBundles`;
`ClaimFlow`; `AdviceTape`; the proofs about the streaming loop, the iterator, the
pipeline (in both directions), checkpoints, `DoryGlobals`, `AdviceTape`, the bundles, the
evaluators and the flow of claims.

Left:

1. `HonestProofAccepted` for every size: that no batch panics, so that `Works` need not be
   carried along, and that both transcripts take in the same.
2. `EvaluatorsAgree` in full, which needs that the columns of a cycle do not overflow.
3. Overlapping sessions in `DoryGlobals`, if a caller that runs two proofs in one
   process is added to the code.
4. A folding backend with opening-aware verification, over `BlockBundles` and
   `NovaFold`.
5. The recipes of the registered inlines (SHA-256, BLAKE, Keccak), as programs of
   `Expansion`.
