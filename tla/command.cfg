SPECIFICATION Spec
CONSTANTS
    Registries <- SmallRegistries
    CommandId = {1, 2, 3, 4}
    HandlerStatus = {"OK", "BUSY"}
    MaxGroups = 2
    MaxCommands = 3
    SequenceModulus = 4
INVARIANTS
    PollNoticesEveryExecution
    ExactlySoundRegistriesAccepted
