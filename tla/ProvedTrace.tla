----------------------------- MODULE ProvedTrace -----------------------------
(***************************************************************************)
(* The traces a proof accepts, cycle by cycle, next to the emulator.  A     *)
(* prover that need not be honest chooses everything that is not forced on  *)
(* it: the operands of each lookup, the values written, the address of the  *)
(* memory access and the next row of the bytecode.  The registers and the   *)
(* memory are read where they were last written; the lookup argument, the   *)
(* memory checks and the commitments that establish this are taken to be    *)
(* sound.  The emulator executes the instructions of the program with the   *)
(* prover's advice.                                                         *)
(***************************************************************************)
EXTENDS Bytecode

CONSTANTS Registers,            \* architectural registers of the instance
          InitialMemories,      \* inputs of the program, in its memory
          PanicAddress, TerminationAddress,   \* words the program ends with
          Forged,               \* numbers a dishonest prover tries
          MaxCycles             \* bound on the length of a trace

ASSUME TraceAssumption ==
    /\ \A m \in InitialMemories : {PanicAddress, TerminationAddress} \subseteq DOMAIN m /\ 0 \notin DOMAIN m
    /\ Forged \subseteq Nat
    /\ MaxCycles \in Nat

VARIABLES at,          \* bytecode index of the cycle to prove
          x, mem,      \* registers and memory before it, as they are proved
          cycles,      \* cycles proved so far
          emulated,    \* the emulator's machine
          emulatedAt,  \* bytecode index of the row it executes next
          accepted     \* the trace has ended and the verifier accepts it

vars == <<bytecode, at, x, mem, cycles, emulated, emulatedAt, accepted>>
-----------------------------------------------------------------------------
Init ==
    /\ bytecode = Preprocessed
    /\ at = FirstIndex(EntryAddress)
    /\ x = [r \in Registers \cup Reserved \cup Temporaries |-> 0]
    /\ mem \in InitialMemories
    /\ cycles = 0
    /\ emulated = Machine(x, mem, EntryAddress, InstructionLength(EntryAddress))
    /\ emulatedAt = at
    /\ accepted = FALSE

(* The values a cycle may use: those that some constraint asks for, and the   *)
(* forged ones.  An index of interleaved operands is two words.               *)
Operands(row) ==
    LET left == LeftInput(row, x[row.rs1])
        right == RightInput(row, x[row.rs2])
        asked == {0, left, right, left + right, left - right + 2^N, left * right} \cup Forged
    IN  IF IsInterleaved(CircuitFlags(row))
        THEN (asked \cap Word) \X (asked \cap Word)
        ELSE {0} \X (asked \cap 0 .. 2^(2 * N) - 1)
(* An access reads what the memory holds; address 0 stands for no access.     *)
Accesses(row) ==
    { [address |-> a, read |-> mem[a], write |-> v] :
        a \in DOMAIN mem, v \in {mem[b] : b \in DOMAIN mem} \cup {x[row.rs2]} \cup (Forged \cap Word) }
    \cup { [address |-> 0, read |-> 0, write |-> 0] }
Written(row, access, operands) ==
    IF ~HasRd(row) THEN {0}
    ELSE {0, access.read, row.address + 4, row.address + 2,
          Entry(LookupTable(row.k), IsInterleaved(CircuitFlags(row)), operands[1], operands[2])}
         \cup (Forged \cap Word)

ColumnsOf(row, access, operands, rd, next) ==
    Columns(row, at, x[row.rs1], x[row.rs2], next,
            [leftLookup |-> operands[1], rightLookup |-> operands[2], rdWrite |-> rd,
             ramAddress |-> access.address, ramRead |-> access.read, ramWrite |-> access.write])

(* One cycle, up to the choice of the next one *)
Cycle(access, operands, rd) ==
    LET row == RowAt(at)
        c == ColumnsOf(row, access, operands, rd, AfterLast)
    IN  /\ ~accepted /\ cycles < MaxCycles
        /\ All(RamConstraints(c)) /\ All(LookupConstraints(c)) /\ All(RdConstraints(c))
        /\ UNCHANGED bytecode
        /\ cycles' = cycles + 1
        /\ x' = IF HasRd(row) THEN [x EXCEPT ![row.rd] = rd] ELSE x
        /\ mem' = IF access.address = 0 THEN mem ELSE [mem EXCEPT ![access.address] = access.write]
        /\ LET e == Emulate(emulated, emulatedAt, rd)
           IN  IF row.k = "NoOp" THEN UNCHANGED <<emulated, emulatedAt>>
               ELSE emulated' = e.machine /\ emulatedAt' = e.at

(* The trace goes on with some row of the bytecode. *)
Continue(access, operands, rd) ==
    /\ Cycle(access, operands, rd)
    /\ \E next \in Indices :
          /\ All(PcConstraints(ColumnsOf(RowAt(at), access, operands, rd,
                                        AsNext(RowAt(next), next))))
          /\ at' = next
    /\ UNCHANGED accepted

(* Mutant: the termination word is not looked at. *)
OutputCheckNoTermination(final, panicked) == final[PanicAddress] = Indicator(panicked)
(* The public words of the final memory: the outputs are whatever they are,   *)
(* but the program has either panicked or terminated.                         *)
OutputCheck(final, panicked) ==
    /\ final[PanicAddress] = Indicator(panicked)
    /\ final[TerminationAddress] = Indicator(~panicked)

(* The trace ends here. *)
Finish(access, operands, rd) ==
    /\ Cycle(access, operands, rd)
    /\ All(PcConstraints(ColumnsOf(RowAt(at), access, operands, rd, AfterLast)))
    /\ \E panicked \in BOOLEAN : OutputCheck(mem', panicked)
    /\ accepted' = TRUE
    /\ at' = 0

Next ==
    \E access \in Accesses(RowAt(at)) :
       /\ All(RamConstraints(ColumnsOf(RowAt(at), access, <<0, 0>>, 0, AfterLast)))
       /\ \E operands \in Operands(RowAt(at)) :
             \E rd \in Written(RowAt(at), access, operands) :
                Continue(access, operands, rd) \/ Finish(access, operands, rd)

Spec == Init /\ [][Next]_vars
-----------------------------------------------------------------------------
(* Types of the state: indices of the bytecode, words, and a bound.           *)
TypeOK ==
    /\ at \in Indices /\ emulatedAt \in Indices
    /\ \A r \in DOMAIN x : x[r] \in Word
    /\ \A a \in DOMAIN mem : mem[a] \in Word
    /\ cycles \in 0 .. MaxCycles
    /\ accepted \in BOOLEAN

(* Whatever the prover chose, the cycles proved so far are rows the emulator  *)
(* executed with the prover's advice: no assertion is skipped, no sequence    *)
(* entered in its middle or left before its end, no value made up.  Only      *)
(* after a jump may the trace stop, and then it stops for good.               *)
ProvedIsExecuted ==
    /\ TypeOK
    /\ emulated.status = "ok"
    /\ x = emulated.x /\ mem = emulated.mem
    /\ RowAt(at).k # "NoOp" => at = emulatedAt

(* What the emulator is about to do leaves everything as it is. *)
InFinalLoop ==
    LET after == Execute(emulated, RowAt(emulatedAt), 0)
    IN  after.pc = emulated.address /\ after.mem = emulated.mem

(* A trace that is accepted is a whole run: the prover may stop at any jump,  *)
(* but what it has to show of the final memory is only there once the program *)
(* has reached the loop it ends in.                                           *)
AcceptedRunIsComplete == accepted => InFinalLoop

(* The row the emulator executes satisfies the constraints, with the columns  *)
(* the honest prover derives from it.                                         *)
HonestOperands(row) == LookupOperands(row, x[row.rs1], x[row.rs2], 0)
HonestAccess(row, after) ==
    LET a == Wrap(x[row.rs1] + row.imm)
    IN  IF row.k \in {"LD", "SD"} THEN [address |-> a, read |-> mem[a], write |-> after.mem[a]]
        ELSE [address |-> 0, read |-> 0, write |-> 0]
HonestColumns ==
    LET row == RowAt(at)
        e == Emulate(emulated, at, 0)
        next == IF e.machine.address = emulated.address /\ EndsInstruction(row) THEN AfterLast
                ELSE AsNext(RowAt(e.at), e.at)
    IN  ColumnsOf(row, HonestAccess(row, e.machine), HonestOperands(row),
                  IF HasRd(row) THEN e.machine.x[row.rd] ELSE 0, next)
HonestlyRunning ==
    /\ ~accepted /\ RowAt(at).k # "NoOp"
    /\ Emulate(emulated, at, 0).machine.status = "ok"
HonestCycleIsProvable == HonestlyRunning => Satisfied(HonestColumns)

(* The evaluators written by hand accept the columns of a cycle exactly when  *)
(* the constraints do: on the columns of the honest prover, and on those with *)
(* one of them changed.                                                       *)
Changed(c) ==
    { [c EXCEPT ![f] = @ + d] :
        f \in {"left", "right", "product", "leftLookup", "rightLookup", "lookupOutput", "rs1",
               "rs2", "rdWrite", "ramAddress", "ramRead", "ramWrite", "pc", "nextPc",
               "unexpandedPc", "nextUnexpandedPc", "imm"},
        d \in {0, 1, 2, 4} }
    \cup { [c EXCEPT !.nextIsVirtual = 1, !.nextIsFirst = n] : n \in {0, 1} }
EvaluatorsAgree ==
    HonestlyRunning =>
        \A c \in Changed(HonestColumns) :
            Satisfied(c) <=> All(EvaluatedFirstGroup(c)) /\ All(EvaluatedSecondGroup(c))
=============================================================================
