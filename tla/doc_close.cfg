SPECIFICATION Spec
CONSTANTS
    Sessions <- MCSessions
    PieceSizes = {4, 9}
    MemoryCap = 100
    MaxBurst = 1
    MaxFailures = 1
    MaxPending = 1
PROPERTY
    CloseFrameSent
