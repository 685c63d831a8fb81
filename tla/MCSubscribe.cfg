\* Every mode, and requests that are turned down. A call may end: the system stops.
SPECIFICATION FairSpec
CONSTANTS
    FirstMessage <- EveryCall
    Failing = TRUE
    LoopPeriod = 2
    MaxWork = 1
    MaxIteration = 2
    MaxStep = 0
    MaxInterval = 20
    Horizon = 16
INVARIANT TypeOK
PROPERTIES
    KeepsProtocol
    SamplesConverge
    CancelledCallEnds
CHECK_DEADLOCK FALSE
