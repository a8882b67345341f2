SPECIFICATION Spec
CONSTANTS
    Task = {t1, t2}
    None = None
    Subjects = {"mutex"}
    Element = {"a", "b"}
    Capacity = 2
    Batches <- PushBatches
    Masks <- SetMasks
    Requests <- WaitRequests
    Maximum = 2
    PoolCapacity = 4
    MaxSequence = 4
    CounterMax = 3
    FloatLimit = 12
    PidConfigs <- ControllerConfigs
    Readings <- Values
    TimeSteps = {0, 2}
    IntMax = 31
    Precision = 3
    FloatMax = 56
    Registries <- Tables
    MaxGroups = 2
    MaxParameters = 3
    Contexts = {"a", "b", "c"}
    Held <- OwnerValues
    StepCounts <- Counts
INVARIANTS
    MutualExclusion
