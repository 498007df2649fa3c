----------------------------- MODULE AdviceTape -----------------------------
(***************************************************************************)
(* Runtime advice.  The guest is built twice and run twice: in the first   *)
(* pass an advice function executes its body and writes its result to the  *)
(* tape, in the second, the one that is proved, it reads the result from   *)
(* the tape (jolt-sdk/macros/src/lib.rs, jolt-sdk/src/lib.rs, AdviceTape in *)
(* tracer/src/emulator/cpu.rs).  Nothing on the tape says what is what: the *)
(* passes must write and read in the same order.                           *)
(*                                                                         *)
(* A program is a sequence of calls of advice functions: the fields of the *)
(* result, each with its size and the address modulo eight that it is read *)
(* to, and the calls that the body makes.  The contents of a Vec are the   *)
(* field after its length and capacity.  A byte is known by where it was   *)
(* computed: <<call, field, index>>.                                       *)
(***************************************************************************)
EXTENDS Integers, SequencesExt

CONSTANT Programs

(* Whatever has advice I/O has a field; the length of a Vec is two before. *)
AdviceField == [size : Nat, at : 0 .. 7, contents : BOOLEAN]
AdviceCalls(p) == [fields : Seq(AdviceField) \ {<<>>}, body : Seq(DOMAIN p)]
ProgramsAreAdvice ==
    \A p \in Programs :
        /\ p \in Seq(AdviceCalls(p))
        /\ \A i \in DOMAIN p : \A j \in DOMAIN p[i].fields :
              p[i].fields[j].contents => j > 2 /\ p[i].fields[j - 2].size = 8
ASSUME ProgramsAssumption == ProgramsAreAdvice

VARIABLES program,      \* the guest
          pass,         \* 1 or 2
          todo,         \* the calls that main has still to make in this pass
          tape,         \* what the first pass wrote
          cpu,          \* second pass: the processor, <<>> before
          reads,        \* the rows it has traced that read the tape
          saved,        \* a clone of the processor and how many reads it had seen, or <<>>
          rerun        \* the clone running, and its reads, or <<>>

adviceVars == <<program, pass, todo, tape, cpu, reads, saved, rerun>>

Bytes(c, j, size) == [n \in 1 .. size |-> <<c, j, n>>]
Result(c) == [j \in DOMAIN program[c].fields |-> Bytes(c, j, program[c].fields[j].size)]
CallsOfMain(p) ==
    FlattenSeq([i \in DOMAIN p |-> IF \E k \in DOMAIN p : i \in ToSet(p[k].body) THEN <<>> ELSE <<i>>])
-----------------------------------------------------------------------------
(* The first pass *)

(* Mutant: the contents of a Vec are written before its length. *)
WriteToAdviceTapeBackwards(t, cs) == t \o FlattenSeq([i \in DOMAIN cs |-> FlattenSeq(Reverse(Result(cs[i])))])
WriteToAdviceTape(t, cs) == t \o FlattenSeq([i \in DOMAIN cs |-> FlattenSeq(Result(cs[i]))])

(* The body runs, and with it the advice functions that it calls, which    *)
(* have written their results when it writes its own.                      *)
Compute ==
    /\ pass = 1 /\ todo # <<>>
    /\ tape' = WriteToAdviceTape(tape, Append(program[Head(todo)].body, Head(todo)))
    /\ todo' = Tail(todo)
    /\ UNCHANGED <<program, pass, cpu, reads, saved, rerun>>

(* Mutant: the tape is not handed over. *)
BootedWithoutTape(t) ==
    [tape |-> <<>>, position |-> 0, calls |-> CallsOfMain(program), values |-> <<>>, slice |-> <<>>,
     status |-> "running"]
BootedWithTape(t) ==
    [tape |-> t, position |-> 0, calls |-> CallsOfMain(program), values |-> <<>>, slice |-> <<>>,
     status |-> "running"]

(* The tape is taken from the first emulator, rewound and set in another.  *)
SecondPass ==
    /\ pass = 1 /\ todo = <<>>
    /\ pass' = 2
    /\ cpu' = BootedWithTape(tape)
    /\ UNCHANGED <<program, todo, tape, reads, saved, rerun>>
-----------------------------------------------------------------------------
(* The processor in the second pass: AdviceReader::read_slice, one read of *)
(* the tape at a time.  values are the fields read of the call it is in.   *)
Finished(m) == m.calls = <<>>
FieldOf(m) == program[Head(m.calls)].fields[Len(m.values) + 1]

(* A Vec is as long as its length says; a length that was never written as *)
(* one spoils the proof (check_advice).                                    *)
LengthRead(m) ==
    UNION {{program[c].fields[j].size : j \in
              {k \in DOMAIN program[c].fields :
                  /\ program[c].fields[k].contents
                  /\ m.values[Len(m.values) - 1] = Bytes(c, k - 2, 8)}} : c \in DOMAIN program}

BeginSlice(m) ==
    LET f == FieldOf(m)
        sizes == IF f.contents THEN LengthRead(m) ELSE {f.size}
        toEight == (8 - f.at) % 8
    IN  IF sizes = {} THEN [m EXCEPT !.status = "panicked"]
        ELSE LET size == CHOOSE s \in sizes : TRUE
             IN  [m EXCEPT !.slice = <<[at |-> f.at, remaining |-> size, got |-> <<>>,
                                        toAlign |-> IF toEight < size THEN toEight ELSE size]>>]

(* Mutant: the widest read that fits, wherever it goes. *)
WidthAnywhere(s) ==
    CHOOSE w \in {1, 2, 4, 8} :
        /\ w <= (IF s.toAlign > 0 THEN s.toAlign ELSE s.remaining)
        /\ 2 * w > (IF s.toAlign > 0 THEN s.toAlign ELSE s.remaining) \/ w = 8
(* Up to the boundary of eight the widest that fits and is aligned, then   *)
(* the widest that fits.                                                   *)
Width(s) ==
    IF s.toAlign = 0
    THEN CHOOSE w \in {1, 2, 4, 8} : w <= s.remaining /\ (2 * w > s.remaining \/ w = 8)
    ELSE IF s.toAlign >= 4 /\ s.at % 4 = 0 THEN 4
    ELSE IF s.toAlign >= 2 /\ s.at % 2 = 0 THEN 2
    ELSE 1

(* Mutant: the bytes of a read are put together the other way round. *)
ReadBigEndian(m, n) ==
    IF m.position + n > Len(m.tape) THEN <<>> ELSE <<Reverse(SubSeq(m.tape, m.position + 1, m.position + n))>>
(* AdviceTape::read: all or nothing. *)
Read(m, n) == IF m.position + n > Len(m.tape) THEN <<>> ELSE <<SubSeq(m.tape, m.position + 1, m.position + n)>>

ReadChunk(m) ==
    LET s == m.slice[1]
        w == Width(s)
        bytes == Read(m, w)
    IN  IF bytes = <<>> THEN [m EXCEPT !.status = "panicked"]
        ELSE [m EXCEPT !.position = @ + w,
                       !.slice = <<[at |-> (s.at + w) % 8, remaining |-> s.remaining - w, got |-> s.got \o bytes[1],
                                    toAlign |-> IF s.toAlign > 0 THEN s.toAlign - w ELSE 0]>>]
RowOf(m) ==
    [at |-> m.slice[1].at, width |-> Width(m.slice[1]), bytes |-> Read(m, Width(m.slice[1]))]

(* The call returns with its last field. *)
EndSlice(m) ==
    LET last == Len(m.values) + 1 = Len(program[Head(m.calls)].fields)
    IN  [m EXCEPT !.slice = <<>>,
                  !.values = IF last THEN <<>> ELSE Append(@, m.slice[1].got),
                  !.calls = IF last THEN Tail(@) ELSE @]

Reading(m) == m.slice # <<>> /\ m.slice[1].remaining > 0
ReadStep(m) ==
    IF m.slice = <<>> THEN BeginSlice(m) ELSE IF Reading(m) THEN ReadChunk(m) ELSE EndSlice(m)
RowsOf(m) == IF Reading(m) THEN <<RowOf(m)>> ELSE <<>>

Trace ==
    /\ pass = 2 /\ rerun = <<>> /\ cpu.status = "running" /\ ~Finished(cpu)
    /\ cpu' = ReadStep(cpu)
    /\ reads' = reads \o RowsOf(cpu)
    /\ UNCHANGED <<program, pass, todo, tape, saved, rerun>>

(* Mutant: the tape of the clone is rewound. *)
SaveStateRewound(m) == [m EXCEPT !.position = 0]
SaveState(m) == m

(* The iterator is cloned, or the processor saved for a checkpoint, at any *)
(* row; the clone runs later, when the first has read on.                  *)
CloneCpu ==
    /\ pass = 2 /\ saved = <<>> /\ cpu.status = "running"
    /\ saved' = <<[cpu |-> SaveState(cpu), seen |-> Len(reads)]>>
    /\ UNCHANGED <<program, pass, todo, tape, cpu, reads, rerun>>

RunClone ==
    /\ pass = 2 /\ saved # <<>>
    /\ cpu.status = "panicked" \/ Finished(cpu)
    /\ LET r == IF rerun = <<>> THEN [cpu |-> saved[1].cpu, reads |-> <<>>] ELSE rerun[1]
       IN  /\ r.cpu.status = "running" /\ ~Finished(r.cpu)
           /\ rerun' = <<[cpu |-> ReadStep(r.cpu), reads |-> r.reads \o RowsOf(r.cpu)]>>
    /\ UNCHANGED <<program, pass, todo, tape, cpu, reads, saved>>

AdviceInit ==
    /\ program \in Programs
    /\ pass = 1 /\ todo = CallsOfMain(program) /\ tape = <<>>
    /\ cpu = <<>> /\ reads = <<>> /\ saved = <<>> /\ rerun = <<>>

AdviceNext == Compute \/ SecondPass \/ Trace \/ CloneCpu \/ RunClone
AdviceSpec == AdviceInit /\ [][AdviceNext]_adviceVars
-----------------------------------------------------------------------------
(* The types: the tape holds bytes of results, the position is within it.  *)
AdviceTypeOK ==
    /\ program \in Programs /\ pass \in 1 .. 2
    /\ todo \in Seq(DOMAIN program)
    /\ ToSet(tape) \subseteq UNION {ToSet(FlattenSeq(Result(c))) : c \in DOMAIN program}
    /\ pass = 2 => /\ cpu.tape = tape /\ cpu.position \in 0 .. Len(tape)
                   /\ cpu.status \in {"running", "panicked"}

(* The body of an advice function does not run in the second pass.         *)
BodiesCallNoAdvice == \A i \in DOMAIN program : program[i].body = <<>>

(* An advice function returns in the second pass what it computed in the   *)
(* first, whatever came before it and wherever its result is put ("advice  *)
(* functions read from this tape in the same order", tracer/src/emulator/  *)
(* cpu.rs).                                                                *)
EachResultRead ==
    pass = 2 =>
        /\ cpu.status = "running"
        /\ ~Finished(cpu) =>
              \A j \in DOMAIN cpu.values : cpu.values[j] = Result(Head(cpu.calls))[j]
        /\ cpu.slice # <<>> =>
              IsPrefix(cpu.slice[1].got, Result(Head(cpu.calls))[Len(cpu.values) + 1])

(* What was written is read to the end, once.                              *)
TapeUsedUp ==
    pass = 2 /\ Finished(cpu) =>
        /\ FlattenSeq([i \in DOMAIN reads |-> reads[i].bytes[1]]) = tape
        /\ cpu.position = Len(tape)

(* Reading into a slice stores only aligned words ("Perform largest aligned *)
(* writes possible", jolt-sdk/src/lib.rs); a store that is not would be    *)
(* undefined in Rust and trapped by the emulator.                          *)
StoresAligned == \A i \in DOMAIN reads : reads[i].at % reads[i].width = 0

(* The second pass gets the advice of the first: each result by the call   *)
(* that asks for it, all of the tape, in accesses a guest may make; unless *)
(* the body of an advice function has called another, whose result it left *)
(* on the tape and the second pass does not ask for.                       *)
AdviceIsWhatWasComputed ==
    /\ AdviceTypeOK /\ StoresAligned
    /\ BodiesCallNoAdvice => EachResultRead /\ TapeUsedUp

(* A clone of the processor reads from the tape what the original read,    *)
(* although the original has read on since (save_state_with_empty_memory).  *)
CloneReadsTheSame ==
    rerun # <<>> =>
        LET rest == SubSeq(reads, saved[1].seen + 1, Len(reads))
        IN  /\ IsPrefix(rerun[1].reads, rest)
            /\ Finished(rerun[1].cpu) => rerun[1].reads = rest
=============================================================================
