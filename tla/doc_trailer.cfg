SPECIFICATION Spec
CONSTANTS
    Byte <- MCByte
    Requests <- MCRequests
    PieceSizes = {1, 2, 5}
    MaxBurst = 2
    MaxFailures = 1
INVARIANT
    TrailerConsumed
