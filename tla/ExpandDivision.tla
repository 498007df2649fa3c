--------------------------- MODULE ExpandDivision ---------------------------
(***************************************************************************)
(* Recipes of the divisions: quotient, and for the signed ones also the     *)
(* remainder, come as advice, and the rows check that the advice is the     *)
(* only one the architecture allows.                                        *)
(***************************************************************************)
EXTENDS ExpansionGrammar

(* DIV and REM.  The temporaries t2 and t3 are released and allocated again  *)
(* half-way, and the product is still read from t2 afterwards: the two pairs *)
(* of ids have to end up in the same registers.                              *)
ExpandSignedDivRem(i, isRem) ==
    LET a2 == TempId(0)
        a3 == TempId(1)
        t0 == TempId(2)
        t1 == TempId(3)
        prod == TempId(4)
        sign == TempId(5)
        t2 == TempId(6)
        t3 == TempId(7)
        abs == IF isRem THEN t2 ELSE t3
    IN  Allocate(<<a2, a3, t0, t1>>)
        \o << Advice(a2), Advice(a3),
              Check("VirtualAssertValidDiv0", i.rs2, a2),
              FormR("VirtualChangeDivisor", t0, i.rs1, i.rs2),
              FormR("MULH", t1, a2, t0) >>
        \o Allocate(<<prod, sign>>)
        \o << FormR("MUL", prod, a2, t0), FormI("SRAI", sign, prod, N - 1), AssertEq(t1, sign) >>
        \o Release(<<prod, sign>>)
        \o Allocate(<<t2, t3>>)
        \o << FormI("SRAI", t1, i.rs1, N - 1), FormR("XOR", t3, a3, t1), FormR("SUB", t3, t3, t1),
              FormR("ADD", t2, t2, t3), AssertEq(t2, i.rs1),
              FormI("SRAI", t1, t0, N - 1), FormR("XOR", abs, t0, t1), FormR("SUB", abs, abs, t1),
              Check("VirtualAssertValidUnsignedRemainder", a3, abs),
              Mov(i.rd, IF isRem THEN t3 ELSE a2) >>
        \o Release(<<t2, t3>>) \o Release(<<a2, a3, t0, t1>>)
(* DIVW and REMW: the quotient has to be a sign-extended word and the        *)
(* remainder to fit in one, and then no product overflows.                   *)
ExpandSignedDivRemW(i, isRem) ==
    LET a2 == TempId(0)
        a3 == TempId(1)
        t0 == TempId(2)
        t1 == TempId(3)
        t2 == TempId(4)
        t3 == TempId(5)
        dividend == TempId(6)
        divisor == t3
    IN  Allocate(<<a2, a3, t0, t1, t2, t3, dividend>>)
        \o << Advice(a2), Advice(a3), Sext(dividend, i.rs1), Sext(divisor, i.rs2),
              Check("VirtualAssertValidDiv0", divisor, a2),
              FormR("VirtualChangeDivisorW", t0, dividend, divisor),
              Sext(t1, a2), AssertEq(t1, a2),
              FormI("SRAI", t2, a3, Half), AssertEq(t2, 0),
              FormI("SRAI", t2, dividend, Half - 1),
              FormR("XOR", t3, a3, t2), FormR("SUB", t3, t3, t2),
              FormR("MUL", t1, a2, t0), FormR("ADD", t1, t1, t3), AssertEq(t1, dividend),
              FormI("SRAI", t2, t0, Half - 1), FormR("XOR", t1, t0, t2), FormR("SUB", t1, t1, t2),
              Check("VirtualAssertValidUnsignedRemainder", a3, t1),
              Sext(i.rd, IF isRem THEN t3 ELSE a2) >>
        \o Release(<<t2, t3>>) \o Release(<<a2, a3, t0, t1>>) \o Release(<<dividend>>)

ExpandDivu(i) ==
    LET q == TempId(0)
        r == TempId(1)
    IN  Allocate(<<q, r>>)
        \o << Advice(q), Check("VirtualAssertValidDiv0", i.rs2, q),
              Check("VirtualAssertMulUNoOverflow", q, i.rs2),
              FormR("MUL", r, q, i.rs2), AssertLte(r, i.rs1), FormR("SUB", r, i.rs1, r),
              Check("VirtualAssertValidUnsignedRemainder", r, i.rs2),
              Mov(i.rd, q) >>
        \o Release(<<q, r>>)
ExpandRemu(i) ==
    LET q == TempId(0)
    IN  Allocate(<<q>>)
        \o << Advice(q), Check("VirtualAssertMulUNoOverflow", q, i.rs2),
              FormR("MUL", q, q, i.rs2), AssertLte(q, i.rs1), FormR("SUB", q, i.rs1, q),
              Check("VirtualAssertValidUnsignedRemainder", q, i.rs2),
              Mov(i.rd, q) >>
        \o Release(<<q>>)

(* DIVUW and REMUW: both operands are zero-extended first. *)
ExpandUnsignedWordDivRem(i, isRem) ==
    LET dividend == TempId(0)
        divisor == TempId(1)
        q == TempId(2)
        tmp == IF isRem THEN q ELSE TempId(3)
        temps == <<dividend, divisor, q>> \o IF isRem THEN << >> ELSE <<tmp>>
    IN  Allocate(temps)
        \o << Zext(dividend, i.rs1), Zext(divisor, i.rs2), Advice(q),
              Check("VirtualAssertMulUNoOverflow", q, divisor),
              FormR("MUL", tmp, q, divisor), AssertLte(tmp, dividend),
              FormR("SUB", tmp, dividend, tmp),
              Check("VirtualAssertValidUnsignedRemainder", tmp, divisor) >>
        \o (IF isRem THEN << Sext(i.rd, tmp) >>
            ELSE << Sext(tmp, q), Check("VirtualAssertValidDiv0", divisor, tmp),
                    Mov(i.rd, tmp) >>)
        \o Release(temps)
=============================================================================
