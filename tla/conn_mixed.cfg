\* Requests with a chunked body and requests with an expectation.
SPECIFICATION Spec
CONSTANTS
    Infinite = Infinite
    Timeout = 2
    MaxTx = 2
    MaxIn = 1
    MaxHeader = 0
    BufUnits = 2
    MaxBody = 1
    Heads = {"chunked", "expect"}
INVARIANTS
    ExpectationAnswered
    ReuseAfterWholeRequest
    ReuseAfterWholeResponse
PROPERTIES
    ControllerSeesWholeRequest
