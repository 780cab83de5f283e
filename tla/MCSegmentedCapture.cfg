SPECIFICATION FairSpec
CONSTANTS
    Limits = {"bytes", "tcp_flows", "udp_conversations"}
    TargetBytes = 2
    TargetFlows = 1
    IdleSeconds = 2
    IdleRate = 1
    FinishTimeout = 4
    Intervals <- MCIntervals
    MaxFlows = 2
    None = None
    Torn = Torn
    SegmentCount = 2
INVARIANTS SeriesTypeOK  IdleMeansCalm AcceptedSegmentIsWhole
PROPERTIES OneCaptureAtATime KeepsPromise SeriesEnds
CHECK_DEADLOCK FALSE
