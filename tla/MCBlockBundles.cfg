SPECIFICATION BundlesSpec
CONSTANTS
    N = 8
    ByteBits = 1
    RamStart = 8
    Program <- Store
    EntryAddress = 100
    Registers = {0, 1, 2}
    InitialMemories <- Inputs
    TargetSizes = {2, 4}
    MaxCycles = 10
    MaxFaults = 2
INVARIANTS
    AcceptedIsExecution
    HonestIsProvable
    CutsDoNotMatter
CHECK_DEADLOCK FALSE
