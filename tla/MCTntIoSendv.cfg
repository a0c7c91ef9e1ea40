CONSTANTS
    Vectors <- MCVectors
    UseTxv = TRUE
    IovMax = 2
SPECIFICATION Spec
INVARIANTS RestIsSuffix AlwaysSomethingToSend
CHECK_DEADLOCK FALSE
