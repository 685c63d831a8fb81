\* Two Sets one after the other, of which one may fail half-way.
SPECIFICATION Spec
CONSTANTS
    x = x
    y = y
    Leaf = {x, y}
    SetRpc = {r1, r2}
    GetRpc = {}
    Peer = {}
    Boot = Boot
    SetRequest <- FailingRequests
    GetRequest <- OnePath
    Faults = {}
    MaxInFlight = 1
INVARIANT SetIsTransaction
CHECK_DEADLOCK FALSE
