\* RPCs one after the other, requests that are refused early or carried out. Every RPC is served once: the system stops.
SPECIFICATION Spec
CONSTANTS
    x = x
    y = y
    Leaf = {x, y}
    SetRpc = {r1, r2, r3}
    GetRpc = {g1}
    Peer = {p1}
    Boot = Boot
    SetRequest <- GoodRequests
    GetRequest <- OnePath
    Faults = {"refresh", "read"}
    MaxInFlight = 1
PROPERTY SetsAreTransactions
CHECK_DEADLOCK FALSE
