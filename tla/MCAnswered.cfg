\* Two Sets, a Get, a subscription and another client; every call that can fail may fail. Every RPC is served once: the system may stop.
SPECIFICATION FairStreamSpec
CONSTANTS
    x = x
    y = y
    Leaf = {x, y}
    SetRpc = {r1}
    GetRpc = {g1}
    Peer = {p1}
    Boot = Boot
    Stream = {s1}
    Sampled <- SamplesAll
    SetRequest <- FailingRequests
    GetRequest <- GetShapes
    Faults = {"item", "commit", "refresh", "read"}
    MaxInFlight = 3
INVARIANTS
    SamplesFresh
PROPERTIES
    RpcsAnswered
    StreamsFollow
CHECK_DEADLOCK FALSE
