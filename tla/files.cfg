SPECIFICATION Spec
CONSTANTS
    Clients = {c1, c2}
    Defs = {1, 2, 3}
    NoDef = NoDef
    Pieces <- MCPieces
    MaxPieces = 1
    MaxFiles = 1
    Shared = TRUE
SYMMETRY Symmetry
INVARIANTS
    RequestIntact
    EveryFileOwned
    OnlySharingLoses
CHECK_DEADLOCK FALSE
