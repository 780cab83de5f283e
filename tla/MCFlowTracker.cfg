\* Four records: a start, a reuse of its tuple, late packets, and the other
\* conversation; flows count when the peer has accepted.  The reader is fair,
\* the writer may stop at any point.
SPECIFICATION FairSpec
CONSTANTS
    c1 = c1
    c2 = c2
    isn1 = isn1
    isn2 = isn2
    NotTcp = NotTcp
    Conversations = {c1, c2}
    IPv6 = {c2}
    SequenceNumbers = {isn1, isn2}
    Packets <- MCPackets
    CountMode = "established"
    MaxRecords = 4
INVARIANTS TypeOK IndexConsistent MatchesTrace ReportMatchesTrace
PROPERTIES PollIsCurrent FlowsOnlyProgress ReportsImplementFlowCount EveryRecordIsRead
CHECK_DEADLOCK FALSE
