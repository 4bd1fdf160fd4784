\* Whole SDUs only, enough of them for the SN space to wrap around.
\* The bearer stops once all SDUs are acknowledged.
CONSTANTS
    Window = 2
    SduLen = 2
    NackRangeMod = 256
    NackSnSize = 2
    StatusProhibit = TRUE
    HeadMin = 1
    HeadMax = 2
    Grants = {3}
    PollPdu = 2
    PollByte = 0
    MaxRetxThresh = 1
    QueueSize = 2
    MaxSdus = 5
    MayDiscard = {2}
    ChannelSize = 2
    Faults = {"lose_data", "lose_status", "duplicate"}
    StatusGrants = {3, 9}
    StatusChannelSize = 1
    Calm = {TRUE, FALSE}
    MaxRetxQueue = 2
SPECIFICATION LinkSpec
CHECK_DEADLOCK FALSE
INVARIANTS
    IntactOnce
    ConfirmedIsReceived
    WindowContiguous
    NoAssert
    NoSilentStall
PROPERTIES
    ServiceSpec
