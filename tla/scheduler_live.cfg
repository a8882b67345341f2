SPECIFICATION FairSpec
CONSTANTS
    Tables <- LivenessTables
    TaskLimit = 2
    TickModulus = 6
    CounterMax = 1
    ErrorStatus = {"INTERNAL_ERROR"}
PROPERTY NoTaskStarves
