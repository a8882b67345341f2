SPECIFICATION EditSpec
CONSTANTS
    IntMax = 31
    Precision = 3
    FloatMax = 56
    Descriptors <- FloatDescriptors
    Counts <- StepCounts
INVARIANT StepStaysScalable
