CONSTANTS
    RBufSizes = {0, 3}
    ReadSizes = {1, 2, 4}
    RecvTmout = TRUE
    MaxBytes = 5
    MaxRead = 6
SPECIFICATION FairSpec
INVARIANTS BufferInBounds InOrder CurrentConnectionOnly NothingDropped
PROPERTIES ExactSize ReadReturns StreamSpec
