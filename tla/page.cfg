SPECIFICATION Spec
CONSTANTS
    Pages <- MCPages
    Ranges <- MCRanges
    Window = 8
    ReadSizes = {2, 7}
    SeekBlock = 3
    Whole = Whole
    Chunked = Chunked
    Eof = Eof
INVARIANTS
    SizeExact
    SentExact
PROPERTY
    ResponseEnds
CHECK_DEADLOCK FALSE
