SPECIFICATION Spec
CONSTANTS
    None = None
    register = register
    ram = ram
    ClaimKinds <- Kinds
    FieldOrder = 5
    Program = 0
    TargetSizes = {0, 2, 3}
    Receipts <- AnyReceipt
    Offered <- AnyBlock
INVARIANTS
    ProvedIsExecution
    BoundedLookahead
PROPERTY
    Decides
