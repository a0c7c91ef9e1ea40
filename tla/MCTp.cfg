SPECIFICATION TpSpec
CONSTANTS
    Sizes = {20, 40}
    MaxRequests = 2
    MaxPieces = 2
    MaxBehind = 2
INVARIANTS RequestsIntact InBounds WholeReply CursorsAgree
CHECK_DEADLOCK FALSE
