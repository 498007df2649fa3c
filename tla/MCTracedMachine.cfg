SPECIFICATION Spec
CONSTANTS
    N = 8
    ByteBits = 1
    RamStart = 16
    Registers = {0, 1, 2, 3}
    Families <- AllFamilies
INVARIANTS
    RowsAgreeWithIsa
    HonestRunsPass
    AllocatorRestored
    ReservationMirrored
CHECK_DEADLOCK FALSE
