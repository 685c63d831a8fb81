\* One Get of two paths while another sysrepo client commits.
SPECIFICATION Spec
CONSTANTS
    x = x
    y = y
    Leaf = {x, y}
    SetRpc = {}
    GetRpc = {g1}
    Peer = {p1}
    Boot = Boot
    SetRequest <- GoodRequests
    GetRequest <- TwoPaths
    Faults = {}
    MaxInFlight = 1
INVARIANT GetIsSnapshot
CHECK_DEADLOCK FALSE
