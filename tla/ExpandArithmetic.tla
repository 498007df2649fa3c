-------------------------- MODULE ExpandArithmetic --------------------------
(***************************************************************************)
(* Recipes of the word arithmetic, the high multiplications, the shifts,    *)
(* the CSR accesses and the traps.                                          *)
(***************************************************************************)
EXTENDS ExpansionGrammar

(* ADDW, SUBW, MULW and ADDIW: the full-width operation, then the low word *)
ExpandWordOp(i, full) ==
    << FormR(full, i.rd, i.rs1, i.rs2), Sext(i.rd, i.rd) >>
ExpandAddiw(i) == << FormI("ADDI", i.rd, i.rs1, i.imm), Sext(i.rd, i.rd) >>

ExpandMulh(i) ==
    LET sx == TempId(0)
        sy == TempId(1)
        tmp == TempId(2)
    IN  Allocate(<<sx, sy, tmp>>)
        \o << FormI("VirtualMovsign", sx, i.rs1, 0), FormI("VirtualMovsign", sy, i.rs2, 0),
              FormR("MUL", sx, sx, i.rs2), FormR("MUL", sy, sy, i.rs1),
              FormR("MULHU", tmp, i.rs1, i.rs2),
              FormR("ADD", tmp, tmp, sx), FormR("ADD", i.rd, tmp, sy) >>
        \o Release(<<sx, sy, tmp>>)

(* |rs1| * rs2, negated in two words when rs1 is negative: the carry of the  *)
(* low word is found by comparing it with what was added to it.              *)
ExpandMulhsu(i) ==
    LET sx == TempId(0)
        bit == TempId(1)
        abs == TempId(2)
        hi == TempId(3)
    IN  Allocate(<<sx, bit, abs, hi>>)
        \o << FormI("VirtualMovsign", sx, i.rs1, 0), FormI("ANDI", bit, sx, 1),
              FormR("XOR", abs, i.rs1, sx), FormR("ADD", abs, abs, bit),
              FormR("MULHU", hi, abs, i.rs2), FormR("MUL", abs, abs, i.rs2),
              FormR("XOR", hi, hi, sx), FormR("XOR", abs, abs, sx),
              FormR("ADD", sx, abs, bit), FormR("SLTU", sx, sx, abs),
              FormR("ADD", i.rd, hi, sx) >>
        \o Release(<<sx, bit, abs, hi>>)

(* Shifts: a left shift is a multiplication by a power of two, a right shift *)
(* takes its amount as a mask.                                               *)
ExpandSll(i) ==
    LET pow2 == TempId(0)
    IN  Allocate(<<pow2>>)
        \o << FormI("VirtualPow2", pow2, i.rs2, 0), FormR("MUL", i.rd, i.rs1, pow2) >>
        \o Release(<<pow2>>)
ExpandSlli(i) == << FormI("VirtualMULI", i.rd, i.rs1, 2^(i.imm % N)) >>

ExpandRightShift(i, virtual) ==
    LET mask == TempId(0)
    IN  Allocate(<<mask>>)
        \o << FormI("VirtualShiftRightBitmask", mask, i.rs2, 0), FormR(virtual, i.rd, i.rs1, mask) >>
        \o Release(<<mask>>)
ExpandRightShiftImm(i, virtual) ==
    << FormI(virtual, i.rd, i.rs1, RightShiftBitmask(i.imm % N)) >>

ExpandSllw(i) ==
    LET pow2 == TempId(0)
    IN  Allocate(<<pow2>>)
        \o << FormI("VirtualPow2W", pow2, i.rs2, 0), FormR("MUL", i.rd, i.rs1, pow2), Sext(i.rd, i.rd) >>
        \o Release(<<pow2>>)
ExpandSlliw(i) == << FormI("VirtualMULI", i.rd, i.rs1, 2^(i.imm % Half)), Sext(i.rd, i.rd) >>

(* Mutant: the amount keeps its own high bits instead of getting half a      *)
(* register added.                                                           *)
ExpandSrlwNoHalf(i) ==
    LET mask == TempId(0)
        word == TempId(1)
    IN  Allocate(<<mask, word>>)
        \o << Zext(word, i.rs1),
              FormI("VirtualShiftRightBitmask", mask, i.rs2, 0),
              FormR("VirtualSRL", i.rd, word, mask), Sext(i.rd, i.rd) >>
        \o Release(<<mask, word>>)
(* SRLW moves the word to the high half and shifts it back, by half a        *)
(* register more.                                                            *)
ExpandSrlw(i) ==
    LET mask == TempId(0)
        word == TempId(1)
    IN  Allocate(<<mask, word>>)
        \o << FormI("VirtualMULI", word, i.rs1, 2^Half), FormI("ORI", mask, i.rs2, Half),
              FormI("VirtualShiftRightBitmask", mask, mask, 0),
              FormR("VirtualSRL", i.rd, word, mask), Sext(i.rd, i.rd) >>
        \o Release(<<mask, word>>)
ExpandSrliw(i) ==
    LET word == TempId(0)
    IN  Allocate(<<word>>)
        \o << FormI("VirtualMULI", word, i.rs1, 2^Half),
              FormI("VirtualSRLI", i.rd, word, RightShiftBitmask((i.imm % Half) + Half)),
              Sext(i.rd, i.rd) >>
        \o Release(<<word>>)
ExpandSraw(i) ==
    LET word == TempId(0)
        mask == TempId(1)
    IN  Allocate(<<word, mask>>)
        \o << Sext(word, i.rs1), FormI("ANDI", mask, i.rs2, Half - 1),
              FormI("VirtualShiftRightBitmask", mask, mask, 0),
              FormR("VirtualSRA", i.rd, word, mask), Sext(i.rd, i.rd) >>
        \o Release(<<word, mask>>)
ExpandSraiw(i) ==
    LET word == TempId(0)
    IN  Allocate(<<word>>)
        \o << Sext(word, i.rs1), FormI("VirtualSRAI", i.rd, word, RightShiftBitmask(i.imm % Half)),
              Sext(i.rd, i.rd) >>
        \o Release(<<word>>)

(* CSRs live in reserved registers.  When the destination is also the source *)
(* the new value has to be saved before the old one is written to it; update *)
(* takes it from there.                                                      *)
SaveSource(i, vr, update) ==
    LET temp == TempId(0)
    IN  Allocate(<<temp>>)
        \o << Mov(temp, i.rs1), Mov(i.rd, vr), update >>
        \o Release(<<temp>>)

ExpandCsrrw(i) ==
    LET vr == VirtualRegisterForCsr(i.imm)
        Write(from) == Mov(vr, from)
    IN  CASE i.rd = 0 -> << Write(i.rs1) >>
          [] i.rd # 0 /\ i.rd = i.rs1 -> SaveSource(i, vr, Write(TempId(0)))
          [] OTHER -> << Mov(i.rd, vr), Write(i.rs1) >>

(* Mutant: the source is not saved when the destination overwrites it. *)
ExpandCsrrsUnsaved(i) ==
    LET vr == VirtualRegisterForCsr(i.imm)
    IN  IF i.rs1 = 0 THEN << Mov(i.rd, vr) >>
        ELSE IF i.rd = 0 THEN << FormR("OR", vr, vr, i.rs1) >>
        ELSE << Mov(i.rd, vr), FormR("OR", vr, vr, i.rs1) >>

ExpandCsrrs(i) ==
    LET vr == VirtualRegisterForCsr(i.imm)
        SetBits(from) == FormR("OR", vr, vr, from)
    IN  CASE i.rs1 = 0 -> << Mov(i.rd, vr) >>
          [] i.rs1 # 0 /\ i.rd = 0 -> << SetBits(i.rs1) >>
          [] i.rs1 # 0 /\ i.rd = i.rs1 -> SaveSource(i, vr, SetBits(TempId(0)))
          [] OTHER -> << Mov(i.rd, vr), SetBits(i.rs1) >>
McauseEcallFromMmode == 11

ExpandEcall(i) ==
    LET here == TempId(0)
        three == TempId(1)
        link == TempId(2)
    IN  Allocate(<<here>>) \o << FormU("AUIPC", here, 0), Mov(Mepc, here) >> \o Release(<<here>>)
        \o << FormI("ADDI", Mcause, 0, McauseEcallFromMmode), FormI("ADDI", Mtval, 0, 0) >>
        \o Allocate(<<three>>)
        \o << FormI("ADDI", three, 0, 3), FormI("SLLI", Mstatus, three, MppBit) >>
        \o Release(<<three>>)
        \o Allocate(<<link>>) \o << FormI("JALR", link, TrapHandler, 0) >> \o Release(<<link>>)

ExpandMret(i) ==
    LET link == TempId(0)
    IN  Allocate(<<link>>) \o << FormI("JALR", link, Mepc, 0) >> \o Release(<<link>>)
ExpandEbreak(i) ==
    LET link == TempId(0)
    IN  Allocate(<<link>>) \o << FormU("JAL", link, 0) >> \o Release(<<link>>)
=============================================================================
