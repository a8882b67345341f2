SPECIFICATION Spec
CONSTANTS
    Source = {1, 2, 3, 4}
    Fault = {"BUSY", "OVERFLOW"}
    RecordCount = 3
INVARIANTS
    QueriesAgree
PROPERTY ImplementsStatusBoard
