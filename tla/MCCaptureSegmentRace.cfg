SPECIFICATION SegmentSpec
CONSTANTS
    Limits = {"tcp_flows"}
    TargetBytes = 3
    TargetFlows = 1
    IdleSeconds = 2
    IdleRate = 1
    FinishTimeout = 4
    Intervals <- MCIntervals
    MaxFlows = 2
    None = None
    Torn = Torn
INVARIANTS NeverCutsAFlow
CHECK_DEADLOCK FALSE
