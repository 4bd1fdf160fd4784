\* SDUs sent whole or in segments over a calm bearer that loses data PDUs.
CONSTANTS
    Window = 2
    SduLen = 2
    NackRangeMod = 256
    NackSnSize = 2
    StatusProhibit = FALSE
    HeadMin = 1
    HeadMax = 2
    Grants = {2, 3}
    PollPdu = 1
    PollByte = 0
    MaxRetxThresh = 1
    QueueSize = 2
    MaxSdus = 3
    MayDiscard = {}
    ChannelSize = 1
    Faults = {"lose_data"}
    StatusGrants = {9}
    StatusChannelSize = 1
    Calm = {TRUE}
    MaxRetxQueue = 1
SPECIFICATION LinkSpec
CHECK_DEADLOCK FALSE
INVARIANTS
    UnackedIsRetransmitted
