SPECIFICATION FairTimedSpec
CONSTANTS
    Limits = {"tcp_flows", "udp_conversations"}
    TargetBytes = 1
    TargetFlows = 1
    IdleSeconds = 4
    IdleRate = 1
    FinishTimeout = 4
    Intervals <- MCIntervals
    MaxFlows = 2
    None = None
    Torn = Torn
    Count = 2
    Duration = 3
    Slack = 1
 
PROPERTIES OneTimedCaptureAtATime TimedSeriesEnds
CHECK_DEADLOCK FALSE
