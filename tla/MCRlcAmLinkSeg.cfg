\* SDUs sent whole or in two segments; PDUs are lost or arrive again, STATUS PDUs overtake
\* each other; polls by bytes.
CONSTANTS
    Window = 2
    SduLen = 2
    NackRangeMod = 256
    NackSnSize = 2
    StatusProhibit = FALSE
    HeadMin = 1
    HeadMax = 2
    Grants = {2, 3}
    PollPdu = 0
    PollByte = 2
    MaxRetxThresh = 1
    QueueSize = 2
    MaxSdus = 2
    MayDiscard = {}
    ChannelSize = 1
    Faults = {"lose_data", "duplicate", "reorder"}
    StatusGrants = {9}
    StatusChannelSize = 2
    Calm = {FALSE}
    MaxRetxQueue = 1
SPECIFICATION LinkSpec
CHECK_DEADLOCK FALSE
INVARIANTS
    NoAssert
    SegmentationInProgress
