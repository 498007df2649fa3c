------------------------------ MODULE RiscvIsa -------------------------------
(***************************************************************************)
(* What a source instruction means: the exec functions of the emulator, on  *)
(* the architectural registers, the CSRs, the memory, the program counter   *)
(* and the reservation.  The traced machine never runs them for an          *)
(* instruction that is expanded; they are what its rows have to agree with. *)
(***************************************************************************)
EXTENDS JoltWord

(* Results that only depend on the operands *)
IsaDiv(a, b) ==
    CASE b = 0 -> AllOnes
      [] a = MostNegative /\ b = AllOnes -> a
      [] OTHER -> Wrap(TruncDiv(Signed(a), Signed(b)))
IsaRem(a, b) ==
    CASE b = 0 -> a
      [] a = MostNegative /\ b = AllOnes -> 0
      [] OTHER -> Wrap(TruncRem(Signed(a), Signed(b)))
IsaDivu(a, b) == IF b = 0 THEN AllOnes ELSE a \div b
IsaRemu(a, b) == IF b = 0 THEN a ELSE a % b
(* The word forms: wrapping_div of i32::MIN by -1 is i32::MIN again. *)
IsaDivw(a, b) == IF Low(b) = 0 THEN AllOnes
                 ELSE SignExtendWord(TruncDiv(SignedLow(a), SignedLow(b)))
IsaRemw(a, b) == IF Low(b) = 0 THEN SignExtendWord(a)
                 ELSE SignExtendWord(TruncRem(SignedLow(a), SignedLow(b)))
IsaDivuw(a, b) == IF Low(b) = 0 THEN AllOnes ELSE SignExtendWord(Low(a) \div Low(b))
IsaRemuw(a, b) == IF Low(b) = 0 THEN SignExtendWord(a) ELSE SignExtendWord(Low(a) % Low(b))

Computed == {"ADDW", "SUBW", "MULW", "ADDIW", "MULH", "MULHSU", "SLL", "SRL", "SRA", "SLLI",
             "SRLI", "SRAI", "SLLW", "SRLW", "SRAW", "SLLIW", "SRLIW", "SRAIW", "DIV", "REM",
             "DIVU", "REMU", "DIVW", "REMW", "DIVUW", "REMUW"}

Result(i, a, b) ==
    CASE i.k = "ADDW" -> SignExtendWord(a + b)
      [] i.k = "SUBW" -> SignExtendWord(a - b)
      [] i.k = "MULW" -> SignExtendWord(a * b)
      [] i.k = "ADDIW" -> SignExtendWord(a + i.imm)
      [] i.k = "MULH" -> Wrap((Signed(a) * Signed(b)) \div 2^N)
      [] i.k = "MULHSU" -> Wrap((Signed(a) * b) \div 2^N)
      [] i.k = "SLL" -> ShiftLeft(a, b % N)
      [] i.k = "SRL" -> ShiftRight(a, b % N)
      [] i.k = "SRA" -> ShiftRightArith(a, b % N)
      [] i.k = "SLLI" -> ShiftLeft(a, i.imm % N)
      [] i.k = "SRLI" -> ShiftRight(a, i.imm % N)
      [] i.k = "SRAI" -> ShiftRightArith(a, i.imm % N)
      [] i.k = "SLLW" -> SignExtendWord(Low(a) * 2^(b % Half))
      [] i.k = "SRLW" -> SignExtendWord(Low(a) \div 2^(b % Half))
      [] i.k = "SRAW" -> Wrap(SignedLow(a) \div 2^(b % Half))
      [] i.k = "SLLIW" -> SignExtendWord(Low(a) * 2^(i.imm % Half))
      [] i.k = "SRLIW" -> SignExtendWord(Low(a) \div 2^(i.imm % Half))
      [] i.k = "SRAIW" -> Wrap(SignedLow(a) \div 2^(i.imm % Half))
      [] i.k = "DIV" -> IsaDiv(a, b)
      [] i.k = "REM" -> IsaRem(a, b)
      [] i.k = "DIVU" -> IsaDivu(a, b)
      [] i.k = "REMU" -> IsaRemu(a, b)
      [] i.k = "DIVW" -> IsaDivw(a, b)
      [] i.k = "REMW" -> IsaRemw(a, b)
      [] i.k = "DIVUW" -> IsaDivuw(a, b)
      [] i.k = "REMUW" -> IsaRemuw(a, b)

(* Memory: aligned doublewords of 8 bytes, accessed by naturally aligned      *)
(* pieces.                                                                    *)
Dword(address) == address - (address % 8)
Accessible(s, address, bytes) == address % bytes = 0 /\ Dword(address) \in DOMAIN s.mem
BitOffset(address) == (address % 8) * ByteBits
LoadBytes(s, address, bytes) ==
    (s.mem[Dword(address)] \div 2^BitOffset(address)) % 2^(bytes * ByteBits)
LoadSigned(s, address, bytes) ==
    LET v == LoadBytes(s, address, bytes)
    IN  IF v >= 2^(bytes * ByteBits - 1) THEN Wrap(v - 2^(bytes * ByteBits)) ELSE v
StoreBytes(s, address, bytes, v) ==
    LET low == 2^BitOffset(address)
        size == 2^(bytes * ByteBits)
        old == LoadBytes(s, address, bytes)
    IN  [s EXCEPT !.mem[Dword(address)] = @ + ((v % size) - old) * low]

Write(s, rd, v) == IF rd = 0 THEN s ELSE [s EXCEPT !.x[rd] = v]
Fault(s) == [s EXCEPT !.fault = TRUE]

Width == [LB |-> 1, LBU |-> 1, LH |-> 2, LHU |-> 2, LW |-> 4, LWU |-> 4, LD |-> 8,
          SB |-> 1, SH |-> 2, SW |-> 4, SD |-> 8, LRW |-> 4, LRD |-> 8, SCW |-> 4, SCD |-> 8]
SignedLoads == {"LB", "LH", "LW", "LD"}
UnsignedLoads == {"LBU", "LHU", "LWU"}
Stores == {"SB", "SH", "SW", "SD"}

ExecLoad(s, i) ==
    LET address == Wrap(s.x[i.rs1] + i.imm)
        bytes == Width[i.k]
    IN  IF ~Accessible(s, address, bytes) THEN Fault(s)
        ELSE Write(s, i.rd, IF i.k \in SignedLoads THEN LoadSigned(s, address, bytes)
                            ELSE LoadBytes(s, address, bytes))
ExecStore(s, i) ==
    LET address == Wrap(s.x[i.rs1] + i.imm)
        bytes == Width[i.k]
    IN  IF ~Accessible(s, address, bytes) THEN Fault(s)
        ELSE StoreBytes(s, address, bytes, s.x[i.rs2])

(* Atomics: the old value to rd, a function of it and rs2 to memory *)
AmoD == {"AMOADDD", "AMOANDD", "AMOORD", "AMOXORD", "AMOSWAPD", "AMOMAXD", "AMOMAXUD",
         "AMOMIND", "AMOMINUD"}
AmoW == {"AMOADDW", "AMOANDW", "AMOORW", "AMOXORW", "AMOSWAPW", "AMOMAXW", "AMOMAXUW",
         "AMOMINW", "AMOMINUW"}
Sgn(v, bytes) == IF bytes = 8 THEN Signed(v) ELSE SignedLow(v)
Uns(v, bytes) == IF bytes = 8 THEN v ELSE Low(v)
NewValue(k, old, v, bytes) ==
    CASE k \in {"AMOADDD", "AMOADDW"} -> Wrap(old + v)
      [] k \in {"AMOANDD", "AMOANDW"} -> And[old, v]
      [] k \in {"AMOORD", "AMOORW"} -> Or(old, v)
      [] k \in {"AMOXORD", "AMOXORW"} -> Xor(old, v)
      [] k \in {"AMOSWAPD", "AMOSWAPW"} -> v
      [] k \in {"AMOMAXD", "AMOMAXW"} -> IF Sgn(old, bytes) >= Sgn(v, bytes) THEN old ELSE v
      [] k \in {"AMOMAXUD", "AMOMAXUW"} -> IF Uns(old, bytes) >= Uns(v, bytes) THEN old ELSE v
      [] k \in {"AMOMIND", "AMOMINW"} -> IF Sgn(old, bytes) <= Sgn(v, bytes) THEN old ELSE v
      [] k \in {"AMOMINUD", "AMOMINUW"} -> IF Uns(old, bytes) <= Uns(v, bytes) THEN old ELSE v
ExecAmo(s, i) ==
    LET address == s.x[i.rs1]
        bytes == IF i.k \in AmoD THEN 8 ELSE 4
        old == LoadSigned(s, address, bytes)
    IN  IF ~Accessible(s, address, bytes) THEN Fault(s)
        ELSE Write(StoreBytes(s, address, bytes, NewValue(i.k, old, s.x[i.rs2], bytes)),
                   i.rd, old)

(* The reservation: no width when there is none *)
NoReservation == [address |-> 0, bytes |-> 0]
ReservationCovers(s, address, bytes) ==
    s.reservation.address = address /\ s.reservation.bytes >= bytes

(* Only addresses of RAM can be reserved. *)
Reservable(s, address, bytes) == Accessible(s, address, bytes) /\ address >= RamStart
ExecLr(s, i) ==
    LET address == s.x[i.rs1]
        bytes == Width[i.k]
    IN  IF ~Reservable(s, address, bytes) THEN Fault(s)
        ELSE Write([s EXCEPT !.reservation = [address |-> address, bytes |-> bytes]],
                   i.rd, LoadSigned(s, address, bytes))
(* The architecture lets a store-conditional fail for no reason: spurious. *)
ExecSc(s, i, spurious) ==
    LET address == s.x[i.rs1]
        bytes == Width[i.k]
        cleared == [s EXCEPT !.reservation = NoReservation]
    IN  CASE ~Reservable(s, address, bytes) -> Fault(s)
          [] Reservable(s, address, bytes) /\ ReservationCovers(s, address, bytes) /\ ~spurious ->
                Write(StoreBytes(cleared, address, bytes, s.x[i.rs2]), i.rd, 0)
          [] OTHER -> Write(cleared, i.rd, 1)

(* CSRs and traps, in machine mode *)
ExecCsrrw(s, i) ==
    Write([s EXCEPT !.csr[i.imm] = s.x[i.rs1]], i.rd, s.csr[i.imm])
ExecCsrrs(s, i) ==
    Write([s EXCEPT !.csr[i.imm] = IF i.rs1 = 0 THEN @ ELSE Or(@, s.x[i.rs1])],
          i.rd, s.csr[i.imm])
(* A trap saves MIE (bit 3) in MPIE (bit 7), clears it, records machine mode *)
(* in both bits of MPP and leaves the other bits of mstatus alone.           *)
StatusOfTrap(status) ==
    LET kept == status - And[status, 2^3 + 2^7 + 3 * 2^MppBit]
    IN  kept + ((status \div 2^3) % 2) * 2^7 + 3 * 2^MppBit
TrapTarget(tvec, cause) == IF tvec % 4 = 0 THEN tvec ELSE tvec - (tvec % 4) + 4 * cause
EcallFromMmode == 11
ExecEcall(s, i) ==
    [s EXCEPT !.csr[CsrMepc] = s.pc, !.csr[CsrMcause] = EcallFromMmode, !.csr[CsrMtval] = 0,
              !.csr[CsrMstatus] = StatusOfTrap(@),
              !.pc = TrapTarget(s.csr[CsrMtvec], EcallFromMmode)]
ExecMret(s, i) == [s EXCEPT !.pc = s.csr[CsrMepc]]

Effect(s, i, spurious) ==
    CASE i.k \in Computed -> Write(s, i.rd, Result(i, s.x[i.rs1], s.x[i.rs2]))
      [] i.k \in SignedLoads \cup UnsignedLoads -> ExecLoad(s, i)
      [] i.k \in Stores -> ExecStore(s, i)
      [] i.k \in AmoD \cup AmoW -> ExecAmo(s, i)
      [] i.k \in {"LRW", "LRD"} -> ExecLr(s, i)
      [] i.k \in {"SCW", "SCD"} -> ExecSc(s, i, spurious)
      [] i.k = "CSRRW" -> ExecCsrrw(s, i)
      [] i.k = "CSRRS" -> ExecCsrrs(s, i)
      [] i.k = "ECALL" -> ExecEcall(s, i)
      [] i.k = "MRET" -> ExecMret(s, i)
      [] i.k = "EBREAK" -> s            \* the pc stays on the instruction

(* The other instructions, of 4 bytes, are followed by the next one. *)
SetsPc == {"ECALL", "MRET", "EBREAK"}
Exec(s, i, spurious) ==
    LET after == Effect(s, i, spurious)
    IN  IF i.k \in SetsPc THEN after ELSE [after EXCEPT !.pc = Wrap(@ + 4)]
=============================================================================
