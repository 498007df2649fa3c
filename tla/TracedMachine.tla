--------------------------- MODULE TracedMachine ----------------------------
(***************************************************************************)
(* A machine that runs the expansions of a program's instructions, next to  *)
(* the machine of the architecture that runs the instructions themselves.   *)
(* Trace is the emulator: it fills the advice rows itself.  Forge is a      *)
(* prover with advice of its own, which gets through only when no assertion *)
(* fails.  The allocator of temporaries is the one static expansion keeps   *)
(* for the whole program; the emulator starts each instruction with an      *)
(* empty one, and both have to produce the same rows.                       *)
(***************************************************************************)
EXTENDS FinalRows, RiscvIsa

CONSTANTS Registers,            \* architectural registers of the instance
          Families              \* families of programs of the instance

(* A family's programs are up to steps of its instructions, started with any *)
(* of its registers and memories; forged are the words a dishonest prover    *)
(* tries for the first and the second advice of an instruction.              *)
ASSUME MachineAssumption ==
    /\ 0 \in Registers /\ Registers \subseteq 0 .. 31
    /\ \A n \in DOMAIN Families :
          LET f == Families[n]
          IN  /\ f.registers \subseteq [Registers -> Word]
              /\ \A r \in f.registers : r[0] = 0
              /\ \A m \in f.memories : \A a \in DOMAIN m : a % 8 = 0 /\ m[a] \in Word
              /\ f.forged \in [1 .. 2 -> SUBSET Word]
              /\ f.steps \in Nat

VARIABLES family,        \* the family of the program
          x,             \* registers: architectural, reserved and temporary
          mem, pc,       \* memory and program counter the rows act on
          reservation,   \* the reservation of the emulated processor
          pool,          \* registers the allocator has given out
          isa,           \* the machine of the architecture
          left,          \* instructions the program may still run
          status         \* "ok", or how the run ended

vars == <<family, x, mem, pc, reservation, pool, isa, left, status>>

Reserved == 32 .. 39
InitialCsr == [c \in CsrAddresses |-> 0]
InitialPc == 4

Init ==
    /\ family \in DOMAIN Families
    /\ \E regs \in Families[family].registers, m \in Families[family].memories :
          /\ x = [r \in Registers \cup Reserved \cup Temporaries |->
                    CASE r \in Registers -> regs[r]
                      [] r \in Reserved -> 0
                      [] OTHER -> Undefined]
          /\ mem = m
          /\ isa = [x |-> regs, mem |-> m, csr |-> InitialCsr, pc |-> InitialPc,
                    reservation |-> NoReservation, fault |-> FALSE]
    /\ pc = InitialPc
    /\ reservation = NoReservation
    /\ pool = {}
    /\ left = Families[family].steps
    /\ status = "ok"

(* The emulator expands every instruction with an allocator of its own, the  *)
(* program is expanded with one for all.                                     *)
RuntimeExpansions ==
    {[family |-> c[1], of |-> c[2], rows |-> ExpandSource[c[2], {}]] :
        c \in UNION {{n} \X Families[n].instructions : n \in DOMAIN Families}}
StaticExpansion(r) == IF pool = {} THEN r.rows ELSE ExpandSource[r.of, pool]

(* Advice of the emulator *)
DivAdvice(i, a, b) ==
    CASE i.k \in {"DIV", "REM"} ->
           IF b = 0 THEN <<AllOnes, Abs(Signed(a))>>
           ELSE IF a = MostNegative /\ b = AllOnes THEN <<a, 0>>
           ELSE <<Wrap(TruncDiv(Signed(a), Signed(b))), Abs(TruncRem(Signed(a), Signed(b)))>>
      [] i.k \in {"DIVW", "REMW"} ->
           IF Low(b) = 0 THEN <<AllOnes, Abs(SignedLow(a))>>
           ELSE IF SignedLow(a) = -(2^(Half - 1)) /\ SignedLow(b) = -1
                THEN <<SignExtendWord(a), 0>>
           ELSE <<Wrap(TruncDiv(SignedLow(a), SignedLow(b))),
                  Abs(TruncRem(SignedLow(a), SignedLow(b)))>>
      [] i.k = "DIVU" -> <<IF b = 0 THEN AllOnes ELSE a \div b>>
      [] i.k = "REMU" -> <<IF b = 0 THEN AllOnes ELSE a \div b>>
      [] i.k \in {"DIVUW", "REMUW"} ->
           <<IF Low(b) = 0 THEN 2^Half - 1 ELSE Low(a) \div Low(b)>>
StoreConditionals == {"SCW", "SCD"}
Advised == {"DIV", "REM", "DIVW", "REMW", "DIVU", "REMU", "DIVUW", "REMUW"}
           \cup StoreConditionals
HonestAdvice(i) ==
    CASE i.k \in StoreConditionals ->
           <<IF /\ reservation.bytes >= Width[i.k]
                /\ reservation.address = x[i.rs1] THEN 1 ELSE 0>>
      [] i.k \in Advised \ StoreConditionals -> DivAdvice(i, x[i.rs1], x[i.rs2])
      [] OTHER -> << >>

AdviceRows(rows) == Cardinality({j \in DOMAIN rows : rows[j].k = "VirtualAdvice"})

(* Mutant: SC leaves the reservation of the processor. *)
NextReservationKept(i) ==
    IF i.k \in {"LRW", "LRD"} THEN [address |-> x[i.rs1], bytes |-> Width[i.k]]
    ELSE reservation

(* LR sets the reservation of the processor, SC clears it. *)
NextReservation(i) ==
    CASE i.k \in {"LRW", "LRD"} -> [address |-> x[i.rs1], bytes |-> Width[i.k]]
      [] i.k \in StoreConditionals -> NoReservation
      [] OTHER -> reservation
(* The rows have run; temporaries do not outlive them. *)
Became(s) ==
    /\ x' = [r \in DOMAIN s.x |-> IF r \in Temporaries THEN Undefined ELSE s.x[r]]
    /\ mem' = s.mem
    /\ pc' = s.pc

(* The emulator runs an instruction.  An expansion error or a failing        *)
(* assertion ends the run.                                                   *)
Trace(i, e) ==
    LET advice == IF AdviceRows(e.rows) = 0 THEN << >> ELSE HonestAdvice(i)
        s == Run([Machine(x, mem, pc, 4) EXCEPT !.advice = advice], e.rows)
    IN  /\ left' = left - 1
        /\ UNCHANGED family
        /\ Became(s)
        /\ reservation' = NextReservation(i)
        /\ pool' = e.pool
        /\ status' = IF e.ok THEN s.status ELSE "error"
        /\ isa' = Exec(isa, i, FALSE)

ForgedAdvice(count) ==
    LET words == Families[family].forged
    IN  IF count = 1 THEN {<<w>> : w \in words[1]} ELSE words[1] \X words[2]

(* A prover chooses the advice.  A store-conditional it fails is one that     *)
(* fails for no reason.                                                       *)
Forge(i, e) ==
        /\ e.ok /\ AdviceRows(e.rows) > 0
        /\ \E advice \in ForgedAdvice(AdviceRows(e.rows)) :
             LET s == Run([Machine(x, mem, pc, 4) EXCEPT !.advice = advice], e.rows)
             IN  /\ s.status = "ok"
                 /\ Became(s)
                 /\ isa' = Exec(isa, i, i.k \in StoreConditionals /\ advice[1] = 0)
        /\ left' = left - 1
        /\ reservation' = NextReservation(i)
        /\ pool' = e.pool
        /\ UNCHANGED <<family, status>>

Next ==
    /\ status = "ok" /\ left > 0
    /\ \E r \in RuntimeExpansions :
          /\ r.family = family
          /\ \E e \in {StaticExpansion(r)} : Trace(r.of, e) \/ Forge(r.of, e)
Spec == Init /\ [][Next]_vars
-----------------------------------------------------------------------------
(* Registers and memory hold words, temporaries are free between             *)
(* instructions.                                                             *)
TypeOK ==
    /\ \A r \in Registers \cup Reserved : x[r] \in Word
    /\ x[0] = 0
    /\ \A a \in DOMAIN mem : mem[a] \in Word
    /\ pc \in Word
    /\ pool \subseteq Temporaries
    /\ left \in Nat
    /\ status \in {"ok", "panicked", "stale", "error"}

(* Whatever advice was used, rows that went through did to registers, CSRs,  *)
(* memory and pc what the instruction means: in particular no advice proves  *)
(* a wrong quotient, and no store-conditional succeeds without a reservation *)
(* that covers it.                                                           *)
RowsAgreeWithIsa ==
    status = "ok" =>
        /\ ~isa.fault
        /\ \A r \in Registers : x[r] = isa.x[r]
        /\ \A c \in CsrAddresses : x[VirtualRegisterForCsr(c)] = isa.csr[c]
        /\ mem = isa.mem
        /\ pc = isa.pc

(* The emulator's own advice always passes the assertions, the expansion     *)
(* always fits the pool of temporaries, and no row reads a temporary that no *)
(* row of the same expansion has written, though temporaries are released    *)
(* and taken again while others are in use: a run only ends on an access the *)
(* architecture refuses.                                                     *)
HonestRunsPass ==
    /\ status = "panicked" => isa.fault
    /\ status \notin {"error", "stale"}

(* Every expansion gives back what it took: the program's allocator and the  *)
(* emulator's fresh ones number the temporaries alike.                       *)
AllocatorRestored == TypeOK /\ pool = {}

(* The two reservation registers say what the processor's reservation says.  *)
ReservationMirrored ==
    status = "ok" =>
        /\ x[ReservationW] = reservation.address
        /\ x[ReservationD] = IF reservation.bytes = 8 THEN reservation.address ELSE 0
=============================================================================
