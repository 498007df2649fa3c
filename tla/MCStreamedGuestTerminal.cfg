SPECIFICATION PipelineSpec
CONSTANTS
    Address <- Words
    Decode <- Table
    Images <- Guests
    Entry = 1
    MaxTicks = 8
    Targets = {1, 2, 3, 4}
    None = None
    register = register
    ram = ram
    ClaimKinds <- Kinds
    FieldOrder = 5
    Program = 0
    TargetSizes = {2, 4}
    Receipts <- PaddedReceipt
INVARIANT
    UnterminatedMeansRunning
