----------------------------- MODULE LazyTracer -----------------------------
(***************************************************************************)
(* The emulator and the two lazy tracers of tracer/src/lib.rs, as          *)
(* operators: CheckpointingTracer, which executes the guest, and           *)
(* Checkpoint, which replays a chunk of it from a saved processor state    *)
(* and the memory cells the chunk touched.                                 *)
(*                                                                         *)
(* Memory is a function from addresses to words; code and data share it.   *)
(* A word w at a program counter is the instruction Decode[w], a record    *)
(*   op     "add", "load", "store" or "jump"                               *)
(*   arg    the data address, or the target of a jump                      *)
(*   rows   the number of trace rows it expands to, at least one           *)
(* A trace row (Cycle) is a record                                         *)
(*   at, to   program counter and position in the expansion, of this row    *)
(*            and of the row that must come next                            *)
(*   jump     the row is a jump                                             *)
(*   reg      the register before and after, <<>> when it is not accessed   *)
(*   ram      the cell accessed, its value before and after, or <<>>        *)
(* A memory cell that was never written reads as zero, and the word zero   *)
(* decodes to nothing (the decoder panics).                                *)
(***************************************************************************)
EXTENDS Integers, Sequences, Functions

CONSTANTS Address,   \* word addresses of the guest memory
          Decode     \* the instructions, by word

ASSUME AddressAssumption == Address \subseteq Nat \ {0}
ASSUME DecodeAssumption ==
    /\ DOMAIN Decode \subseteq Nat \ {0}
    /\ \A w \in DOMAIN Decode :
          /\ Decode[w].op \in {"add", "load", "store", "jump"}
          /\ Decode[w].arg \in Address
          /\ Decode[w].rows \in Nat \ {0}

-----------------------------------------------------------------------------
(* The emulator: pc, one register x, memory, and the map of initial values *)
(* that memory keeps while checkpoints are being saved (<<>> when empty,   *)
(* not kept at all when saving is FALSE).                                  *)

Booted(image, entry) ==
    [pc |-> entry, x |-> 0, mem |-> image, saving |-> FALSE, touched |-> <<>>]

Decodable(e) == e.mem[e.pc] \in DOMAIN Decode

(* Mutant: a later access of the chunk overwrites the recorded value. *)
RecordedLatest(e, as) ==
    IF ~e.saving THEN e.touched
    ELSE [a \in DOMAIN e.touched \cup as |->
             IF a \in as THEN e.mem[a] ELSE e.touched[a]]

(* MemoryData::access_u64: the first access of a chunk is recorded, with   *)
(* the value the cell had before it.                                       *)
Recorded(e, as) ==
    IF ~e.saving THEN e.touched
    ELSE [a \in DOMAIN e.touched \cup as |->
             IF a \in DOMAIN e.touched THEN e.touched[a] ELSE e.mem[a]]

(* Emulator::tick with a trace: the machine after it and the rows of it.   *)
(* The last row of the expansion carries the effect.                       *)
Tick(e) ==
    LET ins  == Decode[e.mem[e.pc]]
        data == ins.op \in {"load", "store"}
        pc   == IF ins.op = "jump" THEN ins.arg ELSE e.pc + 1
        x    == CASE ins.op = "add"  -> e.x + 1
                  [] ins.op = "load" -> e.mem[ins.arg]
                  [] OTHER           -> e.x
        mem  == IF ins.op = "store" THEN [e.mem EXCEPT ![ins.arg] = e.x]
                                    ELSE e.mem
        row(i) ==
            LET last == i = ins.rows
            IN  [at   |-> <<e.pc, i>>,
                 to   |-> IF last THEN <<pc, 1>> ELSE <<e.pc, i + 1>>,
                 jump |-> last /\ ins.op = "jump",
                 reg  |-> IF last /\ ins.op # "jump" THEN <<e.x, x>> ELSE <<>>,
                 ram  |-> IF last /\ data
                          THEN <<ins.arg, e.mem[ins.arg], mem[ins.arg]>>
                          ELSE <<>>]
    IN  [emu  |-> [e EXCEPT !.pc = pc, !.x = x, !.mem = mem,
                     !.touched = Recorded(e, {e.pc} \cup
                                             (IF data THEN {ins.arg} ELSE {}))],
         rows |-> [i \in 1..ins.rows |-> row(i)]]

(* step_emulator: a guest that has jumped to itself is not ticked again.   *)
StepEmulator(e, prevPc) ==
    IF prevPc = e.pc THEN [emu |-> e, rows |-> <<>>] ELSE Tick(e)

-----------------------------------------------------------------------------
(* CheckpointingTracer.  saved is the processor state at the last call of  *)
(* start_saving_checkpoints or save_checkpoint.                            *)

Processor(t) == [pc |-> t.emu.pc, x |-> t.emu.x, prevPc |-> t.prevPc,
                 current |-> t.current]

(* Mutant: the tracer is built after the entry instruction was ticked.     *)
NewTracerPastEntry(image, entry) ==
    [emu |-> Tick(Booted(image, entry)).emu, prevPc |-> entry,
     current |-> <<>>, sinceCheckpoint |-> 0, finished |-> FALSE,
     saved |-> <<>>]

NewTracer(image, entry) ==
    [emu |-> Booted(image, entry), prevPc |-> 0, current |-> <<>>,
     sinceCheckpoint |-> 0, finished |-> FALSE, saved |-> <<>>]

AtTickBoundary(t) == t.current = <<>>

(* Mutant: the rows of a tick after the first are not buffered. *)
LazyStepDropping(t) ==
    LET stepped == StepEmulator(t.emu, t.prevPc)
    IN  IF stepped.rows = <<>>
        THEN [t EXCEPT !.finished = TRUE,
                       !.emu.mem = [a \in Address |-> 0]]
        ELSE [t EXCEPT !.emu = stepped.emu, !.prevPc = t.emu.pc,
                       !.sinceCheckpoint = @ + 1]

(* Mutant: the call that returns None is counted as a row. *)
LazyStepCountingEnd(t) ==
    LET stepped == StepEmulator(t.emu, t.prevPc)
    IN  IF t.current # <<>>
        THEN [t EXCEPT !.current = Tail(@), !.sinceCheckpoint = @ + 1]
        ELSE IF stepped.rows = <<>>
        THEN [t EXCEPT !.finished = TRUE, !.sinceCheckpoint = @ + 1,
                       !.emu.mem = [a \in Address |-> 0]]
        ELSE [t EXCEPT !.emu = stepped.emu, !.prevPc = t.emu.pc,
                       !.current = Tail(stepped.rows),
                       !.sinceCheckpoint = @ + 1]

(* Mutant: the end of the program is not remembered. *)
LazyStepUnfinished(t) ==
    LET stepped == StepEmulator(t.emu, t.prevPc)
    IN  IF t.current # <<>>
        THEN [t EXCEPT !.current = Tail(@), !.sinceCheckpoint = @ + 1]
        ELSE IF stepped.rows = <<>>
        THEN [t EXCEPT !.emu.mem = [a \in Address |-> 0]]
        ELSE [t EXCEPT !.emu = stepped.emu, !.prevPc = t.emu.pc,
                       !.current = Tail(stepped.rows),
                       !.sinceCheckpoint = @ + 1]

(* lazy_step_cycle: a buffered row, or a tick and its first row, or the    *)
(* end of the program, which gives the memory away.                        *)
LazyStep(t) ==
    LET stepped == StepEmulator(t.emu, t.prevPc)
    IN  IF t.current # <<>>
        THEN [t EXCEPT !.current = Tail(@), !.sinceCheckpoint = @ + 1]
        ELSE IF stepped.rows = <<>>
        THEN [t EXCEPT !.finished = TRUE,
                       !.emu.mem = [a \in Address |-> 0]]
        ELSE [t EXCEPT !.emu = stepped.emu, !.prevPc = t.emu.pc,
                       !.current = Tail(stepped.rows),
                       !.sinceCheckpoint = @ + 1]

(* The row lazy_step_cycle returns, as a sequence of at most one row.      *)
NextRow(t) ==
    IF t.current # <<>> THEN <<Head(t.current)>>
    ELSE LET rows == StepEmulator(t.emu, t.prevPc).rows
         IN  IF rows = <<>> THEN <<>> ELSE <<Head(rows)>>

(* The step is defined unless it would tick at a word that does not decode.*)
CanStep(t) == t.current # <<>> \/ t.prevPc = t.emu.pc \/ Decodable(t.emu)

StartSavingCheckpoints(t) ==
    [t EXCEPT !.saved = <<Processor(t)>>, !.emu.saving = TRUE]

(* Mutant: the count of rows goes on across checkpoints. *)
SaveCheckpointCountingOn(t) ==
    [t EXCEPT !.saved = <<Processor(t)>>, !.emu.touched = <<>>]

SaveCheckpoint(t) ==
    [t EXCEPT !.saved = <<Processor(t)>>, !.emu.touched = <<>>,
              !.sinceCheckpoint = 0]

(* The checkpoint save_checkpoint returns: the processor at the start of   *)
(* the chunk, and a memory of the cells the chunk touched.                 *)
CheckpointOf(t) ==
    [emu |-> [pc |-> t.saved[1].pc, x |-> t.saved[1].x,
              mem |-> [a \in Address |-> IF a \in DOMAIN t.emu.touched
                                         THEN t.emu.touched[a] ELSE 0],
              saving |-> FALSE, touched |-> <<>>],
     prevPc |-> t.saved[1].prevPc, current |-> t.saved[1].current,
     remaining |-> t.sinceCheckpoint]

-----------------------------------------------------------------------------
(* Checkpoint.  It has terminated when no step remains; a tick that gives  *)
(* no rows returns None and leaves the count alone.                        *)

ReplayStep(c) ==
    LET stepped == StepEmulator(c.emu, c.prevPc)
    IN  IF c.current # <<>>
        THEN [c EXCEPT !.current = Tail(@), !.remaining = @ - 1]
        ELSE IF stepped.rows = <<>> THEN c
        ELSE [emu |-> stepped.emu, prevPc |-> c.emu.pc,
              current |-> Tail(stepped.rows), remaining |-> c.remaining - 1]
=============================================================================
