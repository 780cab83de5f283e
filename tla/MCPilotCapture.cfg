SPECIFICATION FairSpec
CONSTANTS
    Attempts = 3
    MaxInbox = 2
    MaxPackets = 2
    None = None
    Torn = Torn
INVARIANTS PilotTypeOK AcceptedIsWhole ReturnedIsAccepted
PROPERTIES OkMeansFreshEcho PilotEnds
CHECK_DEADLOCK FALSE
