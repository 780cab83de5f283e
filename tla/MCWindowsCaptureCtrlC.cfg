SPECIFICATION Spec
CONSTANTS
    c1 = c1
    c2 = c2
    isn1 = isn1
    isn2 = isn2
    None = None
    Conversations = {c1, c2}
    IPv6 = {c2}
    Udp443 = {c2}
    SequenceNumbers = {isn1, isn2}
    Packets <- MCPackets
    SegmentCount = 2
    TargetFlows = 1
    IdleSeconds = 1
    IdleRate = 1
    Intervals <- MCIntervals
    PacketSizes <- MCPacketSizes
    MaxRecords = 2
INVARIANTS OneInterruptIsUndone
CHECK_DEADLOCK FALSE
