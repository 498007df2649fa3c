---------------------------- MODULE SumcheckStages ----------------------------
(***************************************************************************)
(* The sumchecks of a proof: for each the openings whose points it starts   *)
(* from, the claims it combines into its input claim, whether it draws a    *)
(* challenge when it is set up, and the openings it leaves.  All sumchecks  *)
(* of a batch share their challenges; a short one takes the last rounds.    *)
(*                                                                         *)
(* Before stage 6b a coordinate of a point stands for all the challenges of *)
(* a chunk of the address or of the cycle; from then on it is one           *)
(* challenge.  A configuration c says what is committed beside the trace:   *)
(* c.trusted, c.untrusted and c.image are numbers of variables, or Absent.  *)
(***************************************************************************)
EXTENDS PrecommittedSchedule, OpeningAccumulator

CONSTANTS InstructionD, RasPerVirtual, BytecodeD, RamD,    \* numbers of one-hot polynomials
          LookupTables                                     \* number of lookup tables

ASSUME CountAssumption ==
    {InstructionD, RasPerVirtual, BytecodeD, RamD, LookupTables} \subseteq Nat \ {0}

Absent == -1
Committed(c) == c.image # Absent
Shape(c) ==
    [layout |-> c.layout, logT |-> c.logT, logK |-> c.logK,
     reference |-> Reference(c.logT, c.logK,
        {v \in {c.trusted, c.untrusted, c.image, IF Committed(c) THEN c.chunkVars ELSE Absent} : v # Absent})]

(* Names of openings: virtual and committed polynomials, and the sumcheck     *)
V(name, at) == [poly |-> <<"virtual", name, 0>>, at |-> at]
VNth(name, i, at) == [poly |-> <<"virtual", name, i>>, at |-> at]
C(name, at) == [poly |-> <<"committed", name, 0>>, at |-> at]
CNth(name, i, at) == [poly |-> <<"committed", name, i>>, at |-> at]
Vs(names, at) == [i \in DOMAIN names |-> V(names[i], at)]
VEach(name, n, at) == [i \in 1 .. n |-> VNth(name, i - 1, at)]
CEach(name, n, at) == [i \in 1 .. n |-> CNth(name, i - 1, at)]

(* A sumcheck; alike are openings it takes to share a part of their points    *)
Plain(name) ==
    [name |-> name, draws |-> FALSE, needs |-> <<>>, reads |-> <<>>, same |-> {}, alike |-> <<>>,
     opens |-> <<>>]
Alike(part, ids) == [part |-> part, ids |-> ToSet(ids)]
Open(ids, point) == [i \in DOMAIN ids |-> [id |-> ids[i], point |-> point]]
OpenEach(ids, PointAt(_)) == [i \in DOMAIN ids |-> [id |-> ids[i], point |-> PointAt(i)]]

Fresh(name) == <<<<name, 0>>>>
Chunked(name, n) == [i \in 1 .. n |-> <<name, i>>]
-----------------------------------------------------------------------------
(* Stage 1 *)
OpFlags == <<"Jump", "WriteLookupOutputToRD", "VirtualInstruction", "IsFirstInSequence", "OtherFlags">>
R1csInputs ==
    <<"LeftInstructionInput", "RightInstructionInput", "Product", "ShouldBranch", "PC", "UnexpandedPC",
      "Imm", "RamAddress", "Rs1Value", "Rs2Value", "RdWriteValue", "RamReadValue", "RamWriteValue",
      "LeftLookupOperand", "RightLookupOperand", "NextUnexpandedPC", "NextPC", "NextIsVirtual",
      "NextIsFirstInSequence", "LookupOutput", "ShouldJump">> \o OpFlags

OuterUniSkip ==
    [Plain("OuterUniSkip") EXCEPT
        !.draws = TRUE,
        !.opens = Open(<<V("UnivariateSkip", "SpartanOuter")>>, Point(<<>>, Fresh("skip1")))]
OuterRemaining ==
    [Plain("SpartanOuter") EXCEPT
        !.needs = <<V("UnivariateSkip", "SpartanOuter")>>,
        !.reads = <<V("UnivariateSkip", "SpartanOuter")>>,
        !.opens = Open(Vs(R1csInputs, "SpartanOuter"), Point(<<>>, Fresh("cycle1")))]
-----------------------------------------------------------------------------
(* Stage 2: the sumchecks over RAM bind the address in the same rounds, after *)
(* the first cycle rounds of read-write checking                              *)
ProductFactors ==
    <<"LeftInstructionInput", "RightInstructionInput", "Jump", "WriteLookupOutputToRD", "LookupOutput",
      "Branch", "NextIsNoop", "VirtualInstruction">>
Lookup ==
    <<"LookupOutput", "LeftLookupOperand", "RightLookupOperand", "LeftInstructionInput",
      "RightInstructionInput">>
RamAddressRounds == Chunked("ram2", RamD)
LastCycleRounds2 == Fresh("cycle2")
(* The rounds of a sumcheck that is not shifted to those of the address *)
RafAddressRoundsUnaligned == Chunked("raf2", RamD)
RafAddressRounds == RamAddressRounds
OutputAddressRounds == RamAddressRounds

ProductUniSkip ==
    [Plain("ProductUniSkip") EXCEPT
        !.draws = TRUE,
        !.needs = <<V("Product", "SpartanOuter")>>,
        !.reads = Vs(<<"Product", "ShouldBranch", "ShouldJump">>, "SpartanOuter"),
        !.opens = Open(<<V("UnivariateSkip", "SpartanProductVirtualization")>>, Point(<<>>, Fresh("skip2")))]
RamReadWriteChecking ==
    LET point == Point(RamAddressRounds, Fresh("ramcycle2"))
    IN  [Plain("RamReadWriteChecking") EXCEPT
            !.draws = TRUE,
            !.needs = <<V("RamReadValue", "SpartanOuter")>>,
            !.reads = Vs(<<"RamReadValue", "RamWriteValue">>, "SpartanOuter"),
            !.alike = <<Alike("cycle", Vs(<<"RamReadValue", "RamWriteValue">>, "SpartanOuter"))>>,
            !.opens = Open(Vs(<<"RamVal", "RamRa">>, "RamReadWriteChecking"), point)
                      \o Open(<<C("RamInc", "RamReadWriteChecking")>>, Point(<<>>, point.cycle))]
ProductRemainder ==
    [Plain("SpartanProductVirtualization") EXCEPT
        !.needs = <<V("UnivariateSkip", "SpartanProductVirtualization")>>,
        !.reads = <<V("UnivariateSkip", "SpartanProductVirtualization")>>,
        !.opens = Open(Vs(ProductFactors, "SpartanProductVirtualization"), Point(<<>>, LastCycleRounds2))]
InstructionClaimReduction ==
    [Plain("InstructionClaimReduction") EXCEPT
        !.draws = TRUE,
        !.needs = <<V("LookupOutput", "SpartanOuter")>>,
        !.reads = Vs(Lookup, "SpartanOuter"),
        !.alike = <<Alike("cycle", Vs(Lookup, "SpartanOuter"))>>,
        !.opens = Open(Vs(Lookup, "InstructionClaimReduction"), Point(<<>>, LastCycleRounds2))]
RamRafEvaluation(a) ==
    [Plain("RamRafEvaluation") EXCEPT
        !.needs = <<V("RamAddress", "SpartanOuter")>>,
        !.reads = <<V("RamAddress", "SpartanOuter")>>,
        !.opens = Open(<<V("RamRa", "RamRafEvaluation")>>,
                       Point(RafAddressRounds, PointOf(a, V("RamAddress", "SpartanOuter")).cycle))]
RamOutputCheck ==
    [Plain("RamOutputCheck") EXCEPT
        !.draws = TRUE,
        !.opens = Open(<<V("RamValFinal", "RamOutputCheck")>>, Point(OutputAddressRounds, <<>>))]
-----------------------------------------------------------------------------
(* Stage 3 *)
Operands == <<"LeftInstructionInput", "RightInstructionInput">>
RegisterValues == <<"RdWriteValue", "Rs1Value", "Rs2Value">>
InputFlags ==
    <<"LeftIsRs1", "Rs1Value", "LeftIsPC", "UnexpandedPC", "RightIsRs2", "Rs2Value", "RightIsImm", "Imm">>
Shifted == <<"UnexpandedPC", "PC", "VirtualInstruction", "IsFirstInSequence", "IsNoop">>
Point3 == Point(<<>>, Fresh("cycle3"))

SpartanShift ==
    LET next == Vs(<<"NextPC", "NextUnexpandedPC", "NextIsVirtual", "NextIsFirstInSequence">>, "SpartanOuter")
        noop == V("NextIsNoop", "SpartanProductVirtualization")
    IN  [Plain("SpartanShift") EXCEPT
            !.draws = TRUE,
            !.needs = <<V("NextPC", "SpartanOuter"), noop>>,
            !.reads = Append(next, noop),
            !.alike = <<Alike("cycle", next)>>,
            !.opens = Open(Vs(Shifted, "SpartanShift"), Point3)]
InstructionInputVirtualization ==
    LET reduced == Vs(Operands, "InstructionClaimReduction")
        product == Vs(Operands, "SpartanProductVirtualization")
    IN  [Plain("InstructionInputVirtualization") EXCEPT
            !.draws = TRUE,
            !.needs = <<product[1]>>,
            !.reads = reduced \o product,
            !.same = {<<reduced[i], product[i]>> : i \in DOMAIN Operands},
            !.alike = <<Alike("cycle", product)>>,
            !.opens = Open(Vs(InputFlags, "InstructionInputVirtualization"), Point3)]
RegistersClaimReduction ==
    [Plain("RegistersClaimReduction") EXCEPT
        !.draws = TRUE,
        !.needs = <<V("LookupOutput", "SpartanOuter")>>,
        !.reads = Vs(RegisterValues, "SpartanOuter"),
        !.alike = <<Alike("cycle", Vs(<<"LookupOutput">> \o RegisterValues, "SpartanOuter"))>>,
        !.opens = Open(Vs(RegisterValues, "RegistersClaimReduction"), Point3)]
-----------------------------------------------------------------------------
(* Stage 4, with the claims about the parts of the initial memory that are    *)
(* committed, at the address of read-write checking                           *)
RamValue == V("RamVal", "RamReadWriteChecking")
Advice(kind, at) == C(kind, at)
ImageContribution == V("ProgramImageInitContributionRw", "RamValCheck")
MemoryTail(vars) == IF vars = 0 THEN <<>> ELSE <<<<"tail of ram2", vars>>>>
AccumulatedAdvice(c) ==
    (IF c.untrusted = Absent THEN <<>>
     ELSE Open(<<Advice("UntrustedAdvice", "RamValCheck")>>, Point(MemoryTail(c.untrusted), <<>>)))
    \o (IF c.trusted = Absent THEN <<>>
        ELSE Open(<<Advice("TrustedAdvice", "RamValCheck")>>, Point(MemoryTail(c.trusted), <<>>)))
AccumulatedImage(c, a) ==
    IF Committed(c) THEN Open(<<ImageContribution>>, Point(PointOf(a, RamValue).address, <<>>)) ELSE <<>>
InitialMemory(c, a) == AccumulatedAdvice(c) \o AccumulatedImage(c, a)

RegistersReadWriteChecking ==
    LET reduced == Vs(RegisterValues, "RegistersClaimReduction")
        inputs == Vs(<<"RdWriteValue", "Rs1Value", "Rs2Value">>, "InstructionInputVirtualization")
        point == Point(Fresh("register4"), Fresh("registercycle4"))
    IN  [Plain("RegistersReadWriteChecking") EXCEPT
            !.draws = TRUE,
            !.needs = <<reduced[1]>>,
            !.reads = reduced \o Tail(inputs),
            !.same = {<<reduced[i], inputs[i]>> : i \in 2 .. 3},
            !.alike = <<Alike("cycle", reduced)>>,
            !.opens = Open(Vs(<<"RegistersVal", "Rs1Ra", "Rs2Ra", "RdWa">>, "RegistersReadWriteChecking"), point)
                      \o Open(<<C("RdInc", "RegistersReadWriteChecking")>>, Point(<<>>, point.cycle))]
RamValCheck(c, a) ==
    LET final == V("RamValFinal", "RamOutputCheck")
        initial == [i \in DOMAIN InitialMemory(c, a) |-> InitialMemory(c, a)[i].id]
        cycle == Fresh("cycle4")
    IN  [Plain("RamValCheck") EXCEPT
            !.draws = TRUE,
            !.needs = <<RamValue, final>>,
            !.reads = <<RamValue, final>> \o initial,
            !.alike = <<Alike("address", <<RamValue, final>>)>>,
            !.opens = Open(<<V("RamRa", "RamValCheck")>>, Point(PointOf(a, RamValue).address, cycle))
                      \o Open(<<C("RamInc", "RamValCheck")>>, Point(<<>>, cycle))]
-----------------------------------------------------------------------------
(* Stage 5 *)
VirtualRas == InstructionD \div RasPerVirtual
Cycle5 == Fresh("cycle5")
LookupClaims == Vs(<<"LookupOutput", "LeftLookupOperand", "RightLookupOperand">>, "InstructionClaimReduction")
RamAccesses == <<V("RamRa", "RamRafEvaluation"), V("RamRa", "RamReadWriteChecking"), V("RamRa", "RamValCheck")>>

InstructionReadRaf ==
    LET output == V("LookupOutput", "SpartanProductVirtualization")
    IN  [Plain("InstructionReadRaf") EXCEPT
            !.draws = TRUE,
            !.needs = <<LookupClaims[1]>>,
            !.reads = Append(LookupClaims, output),
            !.same = {<<LookupClaims[1], output>>},
            !.alike = <<Alike("cycle", LookupClaims)>>,
            !.opens = Open(VEach("LookupTableFlag", LookupTables, "InstructionReadRaf"), Point(<<>>, Cycle5))
                      \o OpenEach(VEach("InstructionRa", VirtualRas, "InstructionReadRaf"),
                                  LAMBDA i : Point(<<<<"lookup5", i>>>>, Cycle5))
                      \o Open(<<V("InstructionRafFlag", "InstructionReadRaf")>>, Point(<<>>, Cycle5))]
RamRaClaimReduction(a) ==
    [Plain("RamRaClaimReduction") EXCEPT
        !.draws = TRUE,
        !.needs = RamAccesses,
        !.reads = RamAccesses,
        !.alike = <<Alike("address", RamAccesses)>>,
        !.opens = Open(<<V("RamRa", "RamRaClaimReduction")>>, Point(PointOf(a, RamAccesses[1]).address, Cycle5))]
RegistersValEvaluation(a) ==
    LET value == V("RegistersVal", "RegistersReadWriteChecking")
    IN  [Plain("RegistersValEvaluation") EXCEPT
            !.needs = <<value>>,
            !.reads = <<value>>,
            !.opens = Open(<<C("RdInc", "RegistersValEvaluation")>>, Point(<<>>, Cycle5))
                      \o Open(<<V("RdWa", "RegistersValEvaluation")>>, Point(PointOf(a, value).address, Cycle5))]
-----------------------------------------------------------------------------
(* Stage 6a binds the addresses.  Booleanity has the last rounds; the chunks  *)
(* of the bytecode address end there only when they divide it evenly.         *)
BytecodeStages == 5
BytecodeAddress == Chunked("bytecode6", BytecodeD)
BooleanityAddress6(c) == IF c.aligned THEN <<BytecodeAddress[1]>> ELSE Fresh("boolean6")
AddressClaim == V("BytecodeReadRafAddrClaim", "BytecodeReadRafAddressPhase")
BytecodeVals == VEach("BytecodeValStage", BytecodeStages, "BytecodeReadRafAddressPhase")
BooleanityClaim == V("BooleanityAddrClaim", "BooleanityAddressPhase")

BytecodeReadRafAddress(c) ==
    LET outer == Vs(<<"UnexpandedPC", "Imm">> \o OpFlags, "SpartanOuter")
        product == Vs(<<"Jump", "Branch", "WriteLookupOutputToRD", "VirtualInstruction">>,
                      "SpartanProductVirtualization")
        input == Vs(<<"Imm", "UnexpandedPC", "LeftIsRs1", "LeftIsPC", "RightIsRs2", "RightIsImm">>,
                    "InstructionInputVirtualization")
        shift == Vs(<<"UnexpandedPC", "IsNoop", "VirtualInstruction", "IsFirstInSequence">>, "SpartanShift")
        registers == Vs(<<"RdWa", "Rs1Ra", "Rs2Ra">>, "RegistersReadWriteChecking")
        written == V("RdWa", "RegistersValEvaluation")
        lookups == <<V("InstructionRafFlag", "InstructionReadRaf")>>
                   \o VEach("LookupTableFlag", LookupTables, "InstructionReadRaf")
        pcs == <<V("PC", "SpartanOuter"), V("PC", "SpartanShift")>>
    IN  [Plain("BytecodeReadRafAddressPhase") EXCEPT
            !.draws = TRUE,
            !.needs = <<outer[2], product[1], shift[1], registers[1], written>>,
            !.reads = outer \o product \o input \o shift \o registers \o <<written>> \o lookups \o pcs,
            !.same = {<<input[2], shift[1]>>},
            !.alike = <<Alike("cycle", Append(outer, pcs[1])), Alike("cycle", product),
                        Alike("cycle", input \o Append(shift, pcs[2])), Alike("cycle", registers),
                        Alike("address", Append(registers, written)), Alike("cycle", Append(lookups, written))>>,
            !.opens = Open(<<AddressClaim>> \o (IF Committed(c) THEN BytecodeVals ELSE <<>>),
                           Point(BytecodeAddress, <<>>))]
BooleanityAddress(c) ==
    [Plain("BooleanityAddressPhase") EXCEPT
        !.draws = TRUE,
        !.needs = <<VNth("InstructionRa", 0, "InstructionReadRaf")>>,
        !.opens = Open(<<BooleanityClaim>>, Point(BooleanityAddress6(c), <<>>))]
-----------------------------------------------------------------------------
(* Stage 6b binds the cycle, last rounds last, and of the precommitted        *)
(* polynomials what their schedules say                                       *)
RamIncsOfReadWrite == <<C("RamInc", "RamReadWriteChecking")>>
RamIncs == <<C("RamInc", "RamReadWriteChecking"), C("RamInc", "RamValCheck")>>
RdIncs == <<C("RdInc", "RegistersReadWriteChecking"), C("RdInc", "RegistersValEvaluation")>>
OneHot(at) ==
    CEach("InstructionRa", InstructionD, at) \o CEach("BytecodeRa", BytecodeD, at)
    \o CEach("RamRa", RamD, at)
LastCycleRounds6(c) == NativeCycle(Shape(c))

BytecodeReadRafCycle(c, a) ==
    [Plain("BytecodeReadRaf") EXCEPT
        !.needs = <<AddressClaim>>,
        !.reads = <<AddressClaim>> \o (IF Committed(c) THEN BytecodeVals ELSE <<>>),
        !.opens = OpenEach(CEach("BytecodeRa", BytecodeD, "BytecodeReadRaf"),
                           LAMBDA i : Point(<<PointOf(a, AddressClaim).address[i]>>, LastCycleRounds6(c)))]
BooleanityCycle(c, a) ==
    [Plain("Booleanity") EXCEPT
        !.needs = <<BooleanityClaim>>,
        !.reads = <<BooleanityClaim>>,
        !.opens = Open(OneHot("Booleanity"), Point(PointOf(a, BooleanityClaim).address, LastCycleRounds6(c)))]
HammingBooleanity(c) ==
    [Plain("RamHammingBooleanity") EXCEPT
        !.needs = <<V("LookupOutput", "SpartanOuter")>>,
        !.opens = Open(<<V("RamHammingWeight", "RamHammingBooleanity")>>, Point(<<>>, LastCycleRounds6(c)))]
RamRaVirtual(c, a) ==
    LET ra == V("RamRa", "RamRaClaimReduction")
    IN  [Plain("RamRaVirtualization") EXCEPT
            !.needs = <<ra>>,
            !.reads = <<ra>>,
            !.opens = OpenEach(CEach("RamRa", RamD, "RamRaVirtualization"),
                               LAMBDA i : Point(<<PointOf(a, ra).address[i]>>, LastCycleRounds6(c)))]
InstructionRaVirtual(c) ==
    LET ras == VEach("InstructionRa", VirtualRas, "InstructionReadRaf")
    IN  [Plain("InstructionRaVirtualization") EXCEPT
            !.draws = TRUE,
            !.needs = ras,
            !.reads = ras,
            !.alike = <<Alike("cycle", ras)>>,
            !.opens = OpenEach(CEach("InstructionRa", InstructionD, "InstructionRaVirtualization"),
                               LAMBDA i : Point(<<<<"chunk of lookup5", i>>>>, LastCycleRounds6(c)))]
IncClaimReduction(c) ==
    [Plain("IncClaimReduction") EXCEPT
        !.draws = TRUE,
        !.needs = RamIncs \o RdIncs,
        !.reads = RamIncs \o RdIncs,
        !.opens = Open(<<C("RamInc", "IncClaimReduction"), C("RdInc", "IncClaimReduction")>>,
                       Point(<<>>, LastCycleRounds6(c)))]

(* The reduction of a precommitted polynomial, in two phases if some of its   *)
(* variables are bound in the address rounds                                  *)
TwoPhases(c, vars) == HasAddressRounds(Shape(c), vars)
CyclePhase(name, c, vars, reads, middle, final) ==
    [Plain(name) EXCEPT
        !.needs = <<reads[1]>>,
        !.reads = reads,
        !.alike = <<Alike("address", reads)>>,
        !.opens = IF TwoPhases(c, vars) THEN Open(<<middle>>, Point(CyclePoint(Shape(c), vars), <<>>))
                  ELSE Open(final, Point(FinalPoint(Shape(c), vars), <<>>))]
AddressPhase(name, c, vars, middle, final) ==
    [Plain(name) EXCEPT
        !.reads = <<middle>>,
        !.opens = Open(final, Point(FinalPoint(Shape(c), vars), <<>>))]

AdviceCycle(c, kind, vars) ==
    CyclePhase(kind, c, vars, <<Advice(kind, "RamValCheck")>>,
               Advice(kind, "AdviceClaimReductionCyclePhase"), <<Advice(kind, "AdviceClaimReduction")>>)
AdviceAddress(c, kind, vars) ==
    AddressPhase(kind, c, vars, Advice(kind, "AdviceClaimReductionCyclePhase"),
                 <<Advice(kind, "AdviceClaimReduction")>>)
BytecodeIntermediate == V("BytecodeClaimReductionIntermediate", "BytecodeClaimReductionCyclePhase")
BytecodeChunks(c) == CEach("BytecodeChunk", c.chunks, "BytecodeClaimReduction")
BytecodeCycle(c) ==
    [CyclePhase("BytecodeClaimReduction", c, c.chunkVars, BytecodeVals, BytecodeIntermediate, BytecodeChunks(c))
        EXCEPT !.draws = TRUE]
BytecodeAddressPhase(c) ==
    AddressPhase("BytecodeClaimReduction", c, c.chunkVars, BytecodeIntermediate, BytecodeChunks(c))
ProgramImage(at) == C("ProgramImageInit", at)
ImageCycle(c) ==
    CyclePhase("ProgramImageClaimReduction", c, c.image, <<ImageContribution>>,
               ProgramImage("ProgramImageClaimReductionCyclePhase"),
               <<ProgramImage("ProgramImageClaimReduction")>>)
ImageAddress(c) ==
    AddressPhase("ProgramImageClaimReduction", c, c.image,
                 ProgramImage("ProgramImageClaimReductionCyclePhase"),
                 <<ProgramImage("ProgramImageClaimReduction")>>)
-----------------------------------------------------------------------------
(* Stage 7 binds the address of the one-hot polynomials and what is left of   *)
(* the precommitted ones; stage 8 opens                                       *)
HammingWeight(c, a) ==
    LET booleanity == OneHot("Booleanity")
        virtualized == CEach("InstructionRa", InstructionD, "InstructionRaVirtualization")
                       \o CEach("BytecodeRa", BytecodeD, "BytecodeReadRaf")
                       \o CEach("RamRa", RamD, "RamRaVirtualization")
        weight == V("RamHammingWeight", "RamHammingBooleanity")
    IN  [Plain("HammingWeightClaimReduction") EXCEPT
            !.draws = TRUE,
            !.needs = booleanity \o virtualized,
            !.reads = booleanity \o virtualized \o <<weight>>,
            !.alike = <<Alike("cycle", booleanity \o virtualized \o <<weight>>), Alike("address", booleanity)>>,
            !.opens = Open(OneHot("HammingWeightClaimReduction"),
                           Point(NativeAddress(Shape(c)), PointOf(a, booleanity[1]).cycle))]

(* The increments of registers are forgotten. *)
Stage8OpeningIdsWithoutRd(c) ==
    <<C("RamInc", "IncClaimReduction")>> \o OneHot("HammingWeightClaimReduction")
Stage8OpeningIds(c) ==
    <<C("RamInc", "IncClaimReduction"), C("RdInc", "IncClaimReduction")>>
    \o OneHot("HammingWeightClaimReduction")
    \o (IF c.trusted # Absent THEN <<Advice("TrustedAdvice", "AdviceClaimReduction")>> ELSE <<>>)
    \o (IF c.untrusted # Absent THEN <<Advice("UntrustedAdvice", "AdviceClaimReduction")>> ELSE <<>>)
    \o (IF Committed(c) THEN Append(BytecodeChunks(c), ProgramImage("ProgramImageClaimReduction")) ELSE <<>>)

Coordinates(point) == point.address \o point.cycle
(* The point of the largest precommitted polynomial, or that of the trace     *)
JointOpeningPoint(c, a) ==
    LET hamming == PointOf(a, CNth("InstructionRa", 0, "HammingWeightClaimReduction"))
        cycle == PointOf(a, C("RamInc", "IncClaimReduction")).cycle
        candidates == {Coordinates(PointOf(a, Stage8OpeningIds(c)[i])) :
                          i \in Len(OneHot("Stage8")) + 3 .. Len(Stage8OpeningIds(c))}
        longest == {p \in candidates : Len(p) > c.logT + c.logK /\ \A q \in candidates : Len(q) <= Len(p)}
    IN  IF longest # {} THEN longest
        ELSE {IF c.layout = "AddressMajor" THEN cycle \o hamming.address ELSE hamming.address \o cycle}
-----------------------------------------------------------------------------
(* The batches, in order *)
Present(cond, seq) == IF cond THEN seq ELSE <<>>

Stage6b(c, a) ==
    <<BytecodeReadRafCycle(c, a), BooleanityCycle(c, a), HammingBooleanity(c), RamRaVirtual(c, a),
      InstructionRaVirtual(c), IncClaimReduction(c)>>
    \o Present(c.trusted # Absent, <<AdviceCycle(c, "TrustedAdvice", c.trusted)>>)
    \o Present(c.untrusted # Absent, <<AdviceCycle(c, "UntrustedAdvice", c.untrusted)>>)
    \o Present(Committed(c), <<BytecodeCycle(c), ImageCycle(c)>>)
Stage7(c, a) ==
    <<HammingWeight(c, a)>>
    \o Present(c.trusted # Absent /\ TwoPhases(c, c.trusted), <<AdviceAddress(c, "TrustedAdvice", c.trusted)>>)
    \o Present(c.untrusted # Absent /\ TwoPhases(c, c.untrusted),
               <<AdviceAddress(c, "UntrustedAdvice", c.untrusted)>>)
    \o Present(Committed(c) /\ TwoPhases(c, c.chunkVars), <<BytecodeAddressPhase(c)>>)
    \o Present(Committed(c) /\ TwoPhases(c, c.image), <<ImageAddress(c)>>)

LastBatch == 11
Sumchecks(c, b, a) ==
    CASE b = 1 -> <<OuterUniSkip>>
      [] b = 2 -> <<OuterRemaining>>
      [] b = 3 -> <<ProductUniSkip>>
      [] b = 4 -> <<RamReadWriteChecking, ProductRemainder, InstructionClaimReduction,
                        RamRafEvaluation(a), RamOutputCheck>>
      [] b = 5 -> <<SpartanShift, InstructionInputVirtualization, RegistersClaimReduction>>
      [] b = 6 -> <<RegistersReadWriteChecking, RamValCheck(c, a)>>
      [] b = 7 -> <<InstructionReadRaf, RamRaClaimReduction(a), RegistersValEvaluation(a)>>
      [] b = 8 -> <<BytecodeReadRafAddress(c), BooleanityAddress(c)>>
      [] b = 9 -> Stage6b(c, a)
      [] b = 10 -> Stage7(c, a)
(* The first sumcheck of stage 4 is followed by the claims about the initial  *)
(* memory, which start from the address of read-write checking.               *)
Between(c, b, a) == IF b = 6 THEN InitialMemory(c, a) ELSE <<>>
StartOf(b) == IF b = 6 THEN <<RamValue>> ELSE <<>>
=============================================================================
