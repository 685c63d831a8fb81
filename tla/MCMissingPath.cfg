\* Requests that may hold an Update without path.
SPECIFICATION Spec
CONSTANTS
    x = x
    y = y
    Leaf = {x, y}
    SetRpc = {r1, r2}
    GetRpc = {}
    Peer = {}
    Boot = Boot
    SetRequest <- MixedRequests
    GetRequest <- OnePath
    Faults = {}
    MaxInFlight = 1
INVARIANT OkMeansApplied
CHECK_DEADLOCK FALSE
