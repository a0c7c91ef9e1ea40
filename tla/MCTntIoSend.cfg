CONSTANTS
    SBufSizes = {0, 4}
    WriteSizes = {1, 2, 3, 5}
    SendTmout = TRUE
    MaxBytes = 9
    MaxWire = 9
SPECIFICATION FairSpec
INVARIANTS BufferInBounds InOrder
PROPERTIES FlushComplete CallReturns StreamSpec
