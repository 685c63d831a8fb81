\* Two rates; an iteration may work longer than the loop's period. A call may end: the system stops.
SPECIFICATION Spec
CONSTANTS
    FirstMessage <- Rates
    Failing = FALSE
    LoopPeriod = 2
    MaxWork = 3
    MaxIteration = 4
    MaxStep = 2
    MaxInterval = 20
    Horizon = 20
INVARIANT SamplesNeverLate
PROPERTY SamplesNeverEarly
CHECK_DEADLOCK FALSE
