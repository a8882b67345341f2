SPECIFICATION FairSpec
CONSTANT Tables <- SortTables
INVARIANTS
    SortsSlots
PROPERTY SortTerminates
CHECK_DEADLOCK FALSE
