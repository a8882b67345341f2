SPECIFICATION FairSpec
CONSTANTS
    Byte = {0, 1}
    StorageSize = 4
    SizeModulus = 16
    WriteSizes = {0, 1, 2}
    ReadSizes = {0, 1, 2}
    ReloadIndex = FALSE
INVARIANTS
    TypeOK
    WriteNeverOverwritesUnread
    ReadOnlyPublished
PROPERTIES
    ImplementsByteQueue
    BothKeepSucceeding
