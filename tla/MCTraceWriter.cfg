SPECIFICATION Spec
CONSTANTS
    Items = 9
    BatchSize = 2
    ChannelDepth = 1
CHECK_DEADLOCK FALSE
INVARIANTS
    TypeOK
    FileIsPrefix
    OkMeansComplete
    BoundedBacklog
PROPERTY
    ThreadsEnd
