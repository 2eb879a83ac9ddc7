\* Requests for a websocket, refused or not, under the fairness of the server loop.
SPECIFICATION FairSpec
CONSTANTS
    Infinite = Infinite
    Timeout = 2
    MaxTx = 1
    MaxIn = 1
    MaxHeader = 0
    BufUnits = 2
    MaxBody = 1
    Heads = {"upgrade"}
INVARIANTS
    NothingLeaked
    NeverUnattended
PROPERTIES
    AnswerEnds
    SlotReleased
