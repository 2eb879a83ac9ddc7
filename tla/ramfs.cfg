SPECIFICATION Spec
CONSTANTS
    Handles = {h1, h2}
    Names = {n1, n2}
    Defs = {d1, d2, d3}
    NoDef = NoDef
    NoName = NoName
    Pieces <- MCPieces
    MaxPieces = 2
    MaxRead = 3
SYMMETRY Symmetry
INVARIANTS
    HandlesCounted
    ListSound
    ReadsMatch
PROPERTIES
    ImplementsStore
CHECK_DEADLOCK FALSE
