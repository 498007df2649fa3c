SPECIFICATION Spec
CONSTANTS
    N = 8
    ByteBits = 1
    RamStart = 8
    Program <- Routines
    EntryAddress = 92
    Registers = {0, 1, 2, 3, 4}
    InitialMemories <- Inputs
    PanicAddress <- PanicWord
    TerminationAddress <- TerminationWord
    Forged <- FewNumbers
    MaxCycles = 60
INVARIANTS
    ProvedIsExecuted
    AcceptedRunIsComplete
    HonestCycleIsProvable
    EvaluatorsAgree
CHECK_DEADLOCK FALSE
