SPECIFICATION Spec
CONSTANTS
    Byte = {0, 1}
    StorageSize = 4
    SizeModulus = 16
    WriteSizes = {1, 2, 3}
    ReadSizes = {1, 2, 3}
    ReloadIndex = TRUE
INVARIANT WriteNeverOverwritesUnread
