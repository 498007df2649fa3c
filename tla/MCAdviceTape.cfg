CONSTANT Programs <- Guests
SPECIFICATION AdviceSpec
INVARIANTS
    AdviceIsWhatWasComputed
    CloneReadsTheSame
CHECK_DEADLOCK FALSE
