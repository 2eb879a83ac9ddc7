\* The comment on an unavailable websocket service.
SPECIFICATION Spec
CONSTANTS
    Infinite = Infinite
    Timeout = 2
    MaxTx = 1
    MaxIn = 1
    MaxHeader = 0
    BufUnits = 2
    MaxBody = 1
    Heads = {"upgrade"}
INVARIANTS
    WebsocketAfterHandshake
