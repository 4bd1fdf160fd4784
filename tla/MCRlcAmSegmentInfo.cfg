\* SDUs sent whole or in segments, with losses.
CONSTANTS
    Window = 2
    SduLen = 2
    NackRangeMod = 256
    NackSnSize = 2
    StatusProhibit = TRUE
    HeadMin = 1
    HeadMax = 2
    Grants = {2, 3}
    PollPdu = 2
    PollByte = 0
    MaxRetxThresh = 1
    QueueSize = 2
    MaxSdus = 2
    MayDiscard = {}
    ChannelSize = 2
    Faults = {"lose_data", "lose_status", "duplicate"}
    StatusGrants = {9}
    StatusChannelSize = 1
    Calm = {FALSE}
    MaxRetxQueue = 2
SPECIFICATION LinkSpec
CHECK_DEADLOCK FALSE
INVARIANTS
    SegmentInfoTruthful
