SPECIFICATION FlowSpec
CONSTANTS
    InstructionD = 2
    RasPerVirtual = 1
    BytecodeD = 2
    RamD = 2
    LookupTables = 2
    Layouts = {"CycleMajor", "AddressMajor"}
    LogTs = {3}
    LogKs = {1, 2}
    AdviceVars = {1, 6}
    ChunkVars = {5, 7}
    ImageVars = {3}
    Chunks = 2
INVARIANTS
    HonestProofAccepted
    PointsAgree
    AllOpenedWhereCommitted
