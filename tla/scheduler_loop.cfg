SPECIFICATION ObservedSpec
CONSTANTS
    Tables <- MixedTables
    TaskLimit = 3
    TickModulus = 6
    CounterMax = 2
    ErrorStatus = {"INTERNAL_ERROR", "BUSY"}
    MaxGap = 7
    MaxClock = 7
INVARIANTS
    TypeOK
    TimeConserved
    WrapInvisible
    ErrorsWithinRuns
    RoundInOrder
    RoundServesDue
    FirstErrorReported
    
