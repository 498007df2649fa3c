SPECIFICATION Spec
CONSTANTS
    None = None
    register = register
    ram = ram
    ClaimKinds <- Kinds
    FieldOrder = 5
    Inputs <- AllInputs
CHECK_DEADLOCK FALSE
INVARIANTS
    TypeOK
    BooksAgree
    ScheduleExact
    PublishedClaimsClose
    VerifyAcceptsFold
PROPERTY
    ImplementsBlockChain
