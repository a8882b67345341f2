SPECIFICATION Spec
CONSTANTS
    IntMax = 31
    Precision = 3
    FloatMax = 56
    MenuId = {"display", "bluetooth"}
    Descriptor <- Registered
    Commands = {1, 2}
    OwnerValue = {0, 1, 2, 3, 4}
    Configs <- Named
    Devices <- AllDevices
    Failure = {"BUSY"}
    TimeModulus = 8
    SequenceModulus = 2
    VisibleCounts = {1, 2, 3, 4}
    None = None
INVARIANTS
    TargetMatchesState
    DraftCommittable
    ViewShowsSelection
    FeedbackTimely
PROPERTIES
    ImplementsEditors
    CommandRunsAsConfirmed
