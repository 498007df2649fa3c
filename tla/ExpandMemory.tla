---------------------------- MODULE ExpandMemory ----------------------------
(***************************************************************************)
(* Recipes of the narrow loads and stores, the atomics and the load-        *)
(* reserved / store-conditional pairs.  The final bytecode only reads and   *)
(* writes aligned doublewords of 8 bytes: everything narrower is shifted    *)
(* out of one, or merged into one.                                          *)
(***************************************************************************)
EXTENDS ExpansionGrammar

(* << 3 turns a byte offset into a bit offset: 8 is ByteBits here. *)
Log2(n) == CHOOSE k \in 0 .. n : 2^k = n
BytesToBits(rd, rs) == FormI("SLLI", rd, rs, Log2(ByteBits))

AlignWord(i) == << FormI("VirtualAssertWordAlignment", 0, i.rs1, i.imm) >>
(* Mutant: a halfword has to be aligned like a word. *)
AlignHalfwordAsWord(i) == AlignWord(i)
AlignHalfword(i) == << FormI("VirtualAssertHalfwordAlignment", 0, i.rs1, i.imm) >>

(* The doubleword that holds the effective address *)
Containing(i, address, aligned) ==
    << FormI("ADDI", address, i.rs1, i.imm), FormI("ANDI", aligned, address, -8) >>

(* LB, LBU, LH, LHU and LWU: the datum is shifted to the high end and back. *)
ExpandNarrowLoad(i, bytes, signed) ==
    LET v0 == TempId(0)
        v1 == TempId(1)
        shift == N - bytes * ByteBits
    IN  (CASE bytes = 1 -> << >>
           [] bytes = 2 -> AlignHalfword(i)
           [] bytes = 4 -> AlignWord(i))
        \o Containing(i, v0, v1)
        \o << FormI("LD", v1, v1, 0), FormI("XORI", v0, v0, 8 - bytes), BytesToBits(v0, v0),
              FormR("SLL", v1, v1, v0),
              FormI(IF signed THEN "SRAI" ELSE "SRLI", i.rd, v1, shift) >>
ExpandLoad(i, bytes, signed) ==
    LET temps == <<TempId(0), TempId(1)>>
    IN  Allocate(temps) \o ExpandNarrowLoad(i, bytes, signed) \o Release(temps)
ExpandLw(i) ==
    LET v0 == TempId(0)
        v1 == TempId(1)
    IN  Allocate(<<v0, v1>>) \o AlignWord(i) \o Containing(i, v0, v1)
        \o << FormI("LD", v1, v1, 0), BytesToBits(v0, v0), FormR("SRL", v1, v1, v0), Sext(i.rd, v1) >>
        \o Release(<<v0, v1>>)

(* old ^ ((old ^ new) & mask), both shifted to the place of the datum *)
ExpandNarrowStore(i, bytes) ==
    LET v0 == TempId(0)
        v1 == TempId(1)
        v2 == TempId(2)
        v3 == TempId(3)
    IN  Allocate(<<v0, v1, v2, v3>>)
        \o (IF bytes = 2 THEN AlignHalfword(i) ELSE << >>)
        \o Containing(i, v0, v1)
        \o << FormI("LD", v2, v1, 0), BytesToBits(v3, v0),
              FormU("LUI", v0, 2^(bytes * ByteBits) - 1),
              FormR("SLL", v0, v0, v3), FormR("SLL", v3, i.rs2, v3),
              FormR("XOR", v3, v2, v3), FormR("AND", v3, v3, v0), FormR("XOR", v2, v2, v3),
              FormS("SD", v1, v2, 0) >>
        \o Release(<<v0, v1, v2, v3>>)
ExpandSw(i) ==
    LET v0 == TempId(0)
        v1 == TempId(1)
        v2 == TempId(2)
        v3 == TempId(3)
    IN  Allocate(<<v0, v1, v2, v3>>) \o AlignWord(i) \o Containing(i, v0, v1)
        \o << FormI("LD", v2, v1, 0), BytesToBits(v0, v0),
              FormI("ORI", v3, 0, -1), FormI("SRLI", v3, v3, Half),
              FormR("SLL", v3, v3, v0), FormR("SLL", v0, i.rs2, v0),
              FormR("XOR", v0, v2, v0), FormR("AND", v0, v0, v3), FormR("XOR", v2, v2, v0),
              FormS("SD", v1, v2, 0) >>
        \o Release(<<v0, v1, v2, v3>>)

(* Mutant: the old value goes to rd before rs1 is used as the address. *)
ExpandAmoDEarly(i, op) ==
    LET new == TempId(0)
    IN  Allocate(<<new>>)
        \o << FormI("LD", new, i.rs1, 0), FormR(op, new, new, i.rs2), FormI("LD", i.rd, i.rs1, 0),
              FormS("SD", i.rs1, new, 0) >>
        \o Release(<<new>>)
(* Atomics on a doubleword *)
ExpandAmoD(i, op) ==
    LET new == TempId(0)
        old == TempId(1)
    IN  Allocate(<<new, old>>)
        \o << FormI("LD", old, i.rs1, 0), FormR(op, new, old, i.rs2), FormS("SD", i.rs1, new, 0),
              Mov(i.rd, old) >>
        \o Release(<<new, old>>)
ExpandAmoswapD(i) ==
    LET old == TempId(0)
    IN  Allocate(<<old>>)
        \o << FormI("LD", old, i.rs1, 0), FormS("SD", i.rs1, i.rs2, 0), Mov(i.rd, old) >>
        \o Release(<<old>>)

(* Minimum and maximum: old + (rs2 - old) * (rs2 wins) *)
Wins(cmp, isMin, t, value, old) ==
    IF isMin THEN FormR(cmp, t, value, old) ELSE FormR(cmp, t, old, value)
ExpandAmoMinMaxD(i, cmp, isMin) ==
    LET old == TempId(0)
        sel == TempId(1)
        tmp == TempId(2)
    IN  Allocate(<<old, sel, tmp>>)
        \o << FormI("LD", old, i.rs1, 0), Wins(cmp, isMin, sel, i.rs2, old),
              FormR("SUB", tmp, i.rs2, old), FormR("MUL", tmp, tmp, sel), FormR("ADD", sel, old, tmp),
              FormS("SD", i.rs1, sel, 0), Mov(i.rd, old) >>
        \o Release(<<old, sel, tmp>>)

(* Atomics on a word: the prelude extracts it, the postlude merges the new   *)
(* word into the doubleword and returns the old one.                         *)
AmoPre64(i, old, dword, shift) ==
    << FormI("VirtualAssertWordAlignment", 0, i.rs1, 0), FormI("ANDI", shift, i.rs1, -8),
       FormI("LD", dword, shift, 0), BytesToBits(shift, i.rs1), FormR("SRL", old, dword, shift) >>
AmoPost64(i, new, old, dword, shift, mask) ==
    << FormI("ORI", mask, 0, -1), FormI("SRLI", mask, mask, Half), FormR("SLL", mask, mask, shift),
       FormR("SLL", shift, new, shift), FormR("XOR", shift, dword, shift),
       FormR("AND", shift, shift, mask), FormR("XOR", dword, dword, shift),
       FormI("ANDI", mask, i.rs1, -8), FormS("SD", mask, dword, 0), Sext(i.rd, old) >>

ExpandAmoW(i, op) ==
    LET old == TempId(0)
        new == TempId(1)
        mask == TempId(2)
        dword == TempId(3)
        shift == TempId(4)
        temps == <<old, new, mask, dword, shift>>
    IN  Allocate(temps) \o AmoPre64(i, old, dword, shift)
        \o << FormR(op, new, old, i.rs2) >>
        \o AmoPost64(i, new, old, dword, shift, mask) \o Release(temps)
ExpandAmoswapW(i) ==
    LET mask == TempId(0)
        dword == TempId(1)
        shift == TempId(2)
        old == TempId(3)
        temps == <<mask, dword, shift, old>>
    IN  Allocate(temps) \o AmoPre64(i, old, dword, shift)
        \o AmoPost64(i, i.rs2, old, dword, shift, mask) \o Release(temps)
ExpandAmoMinMaxW(i, cmp, isMin, isSigned) ==
    LET old == TempId(0)
        dword == TempId(1)
        shift == TempId(2)
        new == TempId(3)
        v0 == TempId(4)
        Ext(rd, rs) == IF isSigned THEN Sext(rd, rs) ELSE Zext(rd, rs)
    IN  Allocate(<<old, dword, shift>>) \o AmoPre64(i, old, dword, shift)
        \o Allocate(<<new, v0>>)
        \o << Ext(new, i.rs2), Ext(v0, old), Wins(cmp, isMin, v0, new, v0),
              FormR("SUB", new, i.rs2, old), FormR("MUL", new, new, v0), FormR("ADD", new, new, old) >>
        \o AmoPost64(i, new, old, dword, shift, v0)
        \o Release(<<old, dword, shift, new, v0>>)

(* LR and SC.  The rows remember the reserved address in two registers, one  *)
(* per width; only addresses of RAM may be reserved, so a cleared register,  *)
(* which is 0, never matches.                                                *)
RamRegionAssertion(address, ramStart) ==
    Allocate(<<ramStart>>)
    \o << FormU("LUI", ramStart, RamStart), AssertLte(ramStart, address) >>
    \o Release(<<ramStart>>)
ExpandLrw(i) ==
    RamRegionAssertion(i.rs1, TempId(0))
    \o << Mov(ReservationW, i.rs1), Mov(ReservationD, 0), FormI("LW", i.rd, i.rs1, 0) >>

(* Mutant: the other register keeps what it held. *)
ExpandLrdKeepW(i) ==
    RamRegionAssertion(i.rs1, TempId(0))
    \o << Mov(ReservationD, i.rs1), FormI("LD", i.rd, i.rs1, 0) >>
ExpandLrd(i) ==
    RamRegionAssertion(i.rs1, TempId(0))
    \o << Mov(ReservationD, i.rs1), Mov(ReservationW, i.rs1), FormI("LD", i.rd, i.rs1, 0) >>

(* Mutant: the success bit is not tied to the reservation. *)
CheckedSuccessUntied(i, success, one, diff, reservation) ==
    Allocate(<<success>>) \o << Advice(success) >>
    \o Allocate(<<one>>)
    \o << FormI("ADDI", one, 0, 1), AssertLte(success, one) >>
    \o Release(<<one>>)

(* The success bit is advice; a successful SC needs a matching reservation. *)
CheckedSuccess(i, success, one, diff, reservation) ==
    Allocate(<<success>>) \o << Advice(success) >>
    \o Allocate(<<one>>)
    \o << FormI("ADDI", one, 0, 1), AssertLte(success, one) >>
    \o Release(<<one>>)
    \o Allocate(<<diff>>)
    \o << FormR("SUB", diff, reservation, i.rs1), FormR("MUL", diff, success, diff),
          AssertEq(diff, 0) >>
    \o Release(<<diff>>)
ExpandScw(i) ==
    LET success == TempId(1)
        mem == TempId(4)
        diff == TempId(5)
    IN  RamRegionAssertion(i.rs1, TempId(0))
        \o CheckedSuccess(i, success, TempId(2), TempId(3), ReservationW)
        \o << Mov(ReservationW, success) >> \o Release(<<success>>)
        \o Allocate(<<mem>>) \o << FormI("LW", mem, i.rs1, 0) >>
        \o Allocate(<<diff>>)
        \o << FormR("SUB", diff, i.rs2, mem), FormR("MUL", diff, diff, ReservationW),
              FormR("ADD", diff, mem, diff) >>
        \o Release(<<mem>>)
        \o << Mov(ReservationD, diff) >> \o Release(<<diff>>)
        \o << FormS("SW", i.rs1, ReservationD, 0), FormI("XORI", i.rd, ReservationW, 1),
              Mov(ReservationW, 0), Mov(ReservationD, 0) >>
ExpandScd(i) ==
    LET success == TempId(1)
        mem == TempId(4)
        diff == TempId(5)
    IN  RamRegionAssertion(i.rs1, TempId(0))
        \o CheckedSuccess(i, success, TempId(2), TempId(3), ReservationD)
        \o Allocate(<<mem>>) \o << FormI("LD", mem, i.rs1, 0) >>
        \o Allocate(<<diff>>)
        \o << FormR("SUB", diff, i.rs2, mem), FormR("MUL", diff, diff, success),
              FormR("ADD", diff, mem, diff) >>
        \o Release(<<mem>>)
        \o << FormS("SD", i.rs1, diff, 0) >> \o Release(<<diff>>)
        \o << Mov(ReservationD, 0), Mov(ReservationW, 0), FormI("XORI", i.rd, success, 1) >>
        \o Release(<<success>>)
=============================================================================
