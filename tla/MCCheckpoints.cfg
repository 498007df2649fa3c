SPECIFICATION Spec
CONSTANTS
    Address <- Words
    Decode <- Table
    Images <- Guests
    Entry = 1
    MaxTicks = 6
    StartRows = {0}
    Intervals = {1, 2, 3, 4, 5, 20}
    MaxCheckpoints = 3
CHECK_DEADLOCK FALSE
INVARIANTS
    ReplayFaithful
    ChunksCoverTrace
PROPERTY
    LoopEnds
