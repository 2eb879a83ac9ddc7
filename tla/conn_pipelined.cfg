\* Two requests without a body, the second already on the socket.
SPECIFICATION Spec
CONSTANTS
    Infinite = Infinite
    Timeout = 2
    MaxTx = 2
    MaxIn = 2
    MaxHeader = 1
    BufUnits = 2
    MaxBody = 1
    Heads = {"get"}
INVARIANTS
    NothingLeftBehind
    OneResponse
    ControllerOnce
    ResourceOwnership
PROPERTIES
    ServedExactlyOnce
    ImplementsCycle
