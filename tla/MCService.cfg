\* Two Sets and a Get of two paths at once, and another sysrepo client. Every RPC is served once: the system stops.
SPECIFICATION Spec
CONSTANTS
    x = x
    y = y
    Leaf = {x, y}
    SetRpc = {r1, r2}
    GetRpc = {g1}
    Peer = {p1}
    Boot = Boot
    SetRequest <- MixedRequests
    GetRequest <- TwoPaths
    Faults = {"item", "commit", "refresh", "read"}
    MaxInFlight = 3
INVARIANTS
    TypeOK
    OkLeavesNoEdits
    UncontendedSetTakesEffect
    GetReadsForward
CHECK_DEADLOCK FALSE
