----------------------------- MODULE Expansion ------------------------------
(***************************************************************************)
(* Expansion of a source instruction into final rows: the dispatch of the   *)
(* recipes, the rewriting of instructions whose destination is x0, and the  *)
(* materialiser, which binds the temporaries of a recipe to registers of a  *)
(* pool that nested expansions share with it.                               *)
(***************************************************************************)
EXTENDS ExpandArithmetic, ExpandDivision, ExpandMemory, FiniteSets

AmoOps == [AMOADDD |-> "ADD", AMOANDD |-> "AND", AMOORD |-> "OR", AMOXORD |-> "XOR",
           AMOADDW |-> "ADD", AMOANDW |-> "AND", AMOORW |-> "OR", AMOXORW |-> "XOR"]
AmoDs == {"AMOADDD", "AMOANDD", "AMOORD", "AMOXORD"}
AmoWs == {"AMOADDW", "AMOANDW", "AMOORW", "AMOXORW"}

(* The recipes of the source-only kinds *)
SourceOnly ==
    {"ADDIW", "ADDW", "SUBW", "MULH", "MULHSU", "MULW", "LB", "LBU", "LH", "LHU", "LW",
     "LWU", "AMOSWAPD", "AMOMAXD", "AMOMAXUD", "AMOMIND", "AMOMINUD", "AMOSWAPW",
     "AMOMAXW", "AMOMAXUW", "AMOMINW", "AMOMINUW", "LRD", "LRW", "DIV", "DIVU", "DIVW",
     "DIVUW", "REM", "REMU", "REMW", "REMUW", "SB", "SCD", "SCW", "SH", "SW", "CSRRW",
     "CSRRS", "EBREAK", "ECALL", "MRET", "SLL", "SLLI", "SLLW", "SLLIW", "SRL", "SRLI",
     "SRA", "SRAI", "SRLIW", "SRAIW", "SRLW", "SRAW"} \cup AmoDs \cup AmoWs

ExpandSourceOnlyInstruction(i) ==
    CASE i.k = "ADDIW" -> ExpandAddiw(i)
      [] i.k = "ADDW" -> ExpandWordOp(i, "ADD")
      [] i.k = "SUBW" -> ExpandWordOp(i, "SUB")
      [] i.k = "MULW" -> ExpandWordOp(i, "MUL")
      [] i.k = "MULH" -> ExpandMulh(i)
      [] i.k = "MULHSU" -> ExpandMulhsu(i)
      [] i.k = "SLL" -> ExpandSll(i)
      [] i.k = "SLLI" -> ExpandSlli(i)
      [] i.k = "SRL" -> ExpandRightShift(i, "VirtualSRL")
      [] i.k = "SRA" -> ExpandRightShift(i, "VirtualSRA")
      [] i.k = "SRLI" -> ExpandRightShiftImm(i, "VirtualSRLI")
      [] i.k = "SRAI" -> ExpandRightShiftImm(i, "VirtualSRAI")
      [] i.k = "SLLW" -> ExpandSllw(i)
      [] i.k = "SLLIW" -> ExpandSlliw(i)
      [] i.k = "SRLW" -> ExpandSrlw(i)
      [] i.k = "SRLIW" -> ExpandSrliw(i)
      [] i.k = "SRAW" -> ExpandSraw(i)
      [] i.k = "SRAIW" -> ExpandSraiw(i)
      [] i.k = "DIV" -> ExpandSignedDivRem(i, FALSE)
      [] i.k = "REM" -> ExpandSignedDivRem(i, TRUE)
      [] i.k = "DIVW" -> ExpandSignedDivRemW(i, FALSE)
      [] i.k = "REMW" -> ExpandSignedDivRemW(i, TRUE)
      [] i.k = "DIVU" -> ExpandDivu(i)
      [] i.k = "REMU" -> ExpandRemu(i)
      [] i.k = "DIVUW" -> ExpandUnsignedWordDivRem(i, FALSE)
      [] i.k = "REMUW" -> ExpandUnsignedWordDivRem(i, TRUE)
      [] i.k = "LB" -> ExpandLoad(i, 1, TRUE)
      [] i.k = "LBU" -> ExpandLoad(i, 1, FALSE)
      [] i.k = "LH" -> ExpandLoad(i, 2, TRUE)
      [] i.k = "LHU" -> ExpandLoad(i, 2, FALSE)
      [] i.k = "LW" -> ExpandLw(i)
      [] i.k = "LWU" -> ExpandLoad(i, 4, FALSE)
      [] i.k = "SB" -> ExpandNarrowStore(i, 1)
      [] i.k = "SH" -> ExpandNarrowStore(i, 2)
      [] i.k = "SW" -> ExpandSw(i)
      [] i.k \in AmoDs -> ExpandAmoD(i, AmoOps[i.k])
      [] i.k \in AmoWs -> ExpandAmoW(i, AmoOps[i.k])
      [] i.k = "AMOSWAPD" -> ExpandAmoswapD(i)
      [] i.k = "AMOSWAPW" -> ExpandAmoswapW(i)
      [] i.k = "AMOMAXD" -> ExpandAmoMinMaxD(i, "SLT", FALSE)
      [] i.k = "AMOMAXUD" -> ExpandAmoMinMaxD(i, "SLTU", FALSE)
      [] i.k = "AMOMIND" -> ExpandAmoMinMaxD(i, "SLT", TRUE)
      [] i.k = "AMOMINUD" -> ExpandAmoMinMaxD(i, "SLTU", TRUE)
      [] i.k = "AMOMAXW" -> ExpandAmoMinMaxW(i, "SLT", FALSE, TRUE)
      [] i.k = "AMOMAXUW" -> ExpandAmoMinMaxW(i, "SLTU", FALSE, FALSE)
      [] i.k = "AMOMINW" -> ExpandAmoMinMaxW(i, "SLT", TRUE, TRUE)
      [] i.k = "AMOMINUW" -> ExpandAmoMinMaxW(i, "SLTU", TRUE, FALSE)
      [] i.k = "LRW" -> ExpandLrw(i)
      [] i.k = "LRD" -> ExpandLrd(i)
      [] i.k = "SCW" -> ExpandScw(i)
      [] i.k = "SCD" -> ExpandScd(i)
      [] i.k = "CSRRW" -> ExpandCsrrw(i)
      [] i.k = "CSRRS" -> ExpandCsrrs(i)
      [] i.k = "ECALL" -> ExpandEcall(i)
      [] i.k = "MRET" -> ExpandMret(i)
      [] i.k = "EBREAK" -> ExpandEbreak(i)

(* Kinds without a destination, kinds that act on more than it, and kinds    *)
(* whose recipe knows what to do with x0.                                    *)
NoDestination ==
    {"SB", "SH", "SW", "SD", "BEQ", "BNE", "BLT", "BGE", "BLTU", "BGEU",
     "VirtualAssertEQ", "VirtualAssertLTE", "VirtualAssertValidDiv0",
     "VirtualAssertValidUnsignedRemainder", "VirtualAssertMulUNoOverflow",
     "VirtualAssertWordAlignment", "VirtualAssertHalfwordAlignment"}
HasSideEffects ==
    {"LB", "LBU", "LH", "LHU", "LW", "LWU", "LD", "LRW", "LRD", "SCW", "SCD", "JAL", "JALR",
     "AMOSWAPD", "AMOMAXD", "AMOMAXUD", "AMOMIND", "AMOMINUD", "AMOSWAPW", "AMOMAXW",
     "AMOMAXUW", "AMOMINW", "AMOMINUW"} \cup AmoDs \cup AmoWs
HandlesRdZeroInternally == {"ECALL", "MRET", "EBREAK", "CSRRW", "CSRRS"}

NoopFor(i) == Instr("ADDI", 0, 0, 0, 0)

(* A result is the rows, the pool after them, and whether there was no error. *)
Failed(pool) == [rows |-> << >>, pool |-> pool, ok |-> FALSE]

(* The lowest temporary that is free; 0 when there is none *)
AllocateRegister(pool) ==
    LET free == Temporaries \ pool
    IN  IF free = {} THEN 0 ELSE CHOOSE r \in free : \A s \in free : r <= s

Bound(bind, r) == r >= 0 \/ r \in DOMAIN bind
Resolve(bind, r) == IF r >= 0 THEN r ELSE bind[r]

(* One operation of a recipe, on the rows so far, the temporaries bound so   *)
(* far and the pool                                                          *)
MaterializeOp(m, op, expand) ==
    LET Fail == [m EXCEPT !.ok = FALSE]
    IN  CASE ~m.ok -> m
          [] m.ok /\ op.k = "allocate" ->
               LET r == AllocateRegister(m.pool)
               IN  IF r = 0 \/ op.rd \in DOMAIN m.bind THEN Fail
                   ELSE [m EXCEPT !.pool = @ \cup {r},
                                  !.bind = [t \in DOMAIN @ \cup {op.rd} |->
                                                IF t = op.rd THEN r ELSE @[t]]]
          [] m.ok /\ op.k = "release" ->
               IF op.rd \notin DOMAIN m.bind THEN Fail
               ELSE [m EXCEPT !.pool = @ \ {m.bind[op.rd]},
                              !.bind = [t \in DOMAIN @ \ {op.rd} |-> @[t]]]
          [] OTHER ->
               IF ~(Bound(m.bind, op.rd) /\ Bound(m.bind, op.rs1) /\ Bound(m.bind, op.rs2))
               THEN Fail
               ELSE LET row == Instr(op.k, Resolve(m.bind, op.rd), Resolve(m.bind, op.rs1),
                                     Resolve(m.bind, op.rs2), op.imm)
                        sub == expand[row, m.pool]
                    IN  [m EXCEPT !.rows = @ \o sub.rows, !.pool = sub.pool, !.ok = sub.ok]

Materialize(ops, pool, expand) ==
    LET after[j \in 0 .. Len(ops)] ==
            IF j = 0 THEN [rows |-> << >>, bind |-> << >>, pool |-> pool, ok |-> TRUE]
            ELSE MaterializeOp(after[j - 1], ops[j], expand)
        m == after[Len(ops)]
    IN  IF m.ok /\ m.bind = << >> /\ m.rows # << >> /\ Len(m.rows) <= 64
        THEN [rows |-> m.rows, pool |-> m.pool, ok |-> TRUE]
        ELSE Failed(m.pool)

(* Mutant: the temporary that stands in for x0 is not given back. *)
ExpandRdZeroHeld(i, pool, expand) ==
    LET r == AllocateRegister(pool)
    IN  CASE i.k \notin HasSideEffects ->
               [rows |-> << NoopFor(i) >>, pool |-> pool, ok |-> TRUE]
          [] i.k \in HasSideEffects /\ r = 0 -> Failed(pool)
          [] OTHER ->
               expand[[i EXCEPT !.rd = r], pool \cup {r}]

(* An instruction that writes x0 either writes a temporary instead, which is *)
(* held while it is expanded, or does nothing.                               *)
ExpandRdZero(i, pool, expand) ==
    LET r == AllocateRegister(pool)
    IN  CASE i.k \notin HasSideEffects ->
               [rows |-> << NoopFor(i) >>, pool |-> pool, ok |-> TRUE]
          [] i.k \in HasSideEffects /\ r = 0 -> Failed(pool)
          [] OTHER ->
               LET sub == expand[[i EXCEPT !.rd = r], pool \cup {r}]
               IN  [sub EXCEPT !.pool = @ \ {r}]

WritesX0(i) ==
    i.rd = 0 /\ i.k \notin NoDestination /\ i.k \notin HandlesRdZeroInternally

ExpandSource[i \in Rows, pool \in SUBSET Temporaries] ==
    CASE WritesX0(i) -> ExpandRdZero(i, pool, ExpandSource)
      [] ~WritesX0(i) /\ i.k \in SourceOnly ->
            Materialize(ExpandSourceOnlyInstruction(i), pool, ExpandSource)
      [] OTHER -> [rows |-> << i >>, pool |-> pool, ok |-> TRUE]
=============================================================================
