SPECIFICATION EditSpec
CONSTANTS
    IntMax = 31
    Precision = 3
    FloatMax = 56
    Descriptors <- AllDescriptors
    Counts <- StepCounts
INVARIANTS
    DraftStaysCommittable
    AdjustmentIsExact
    StepStaysScalable
