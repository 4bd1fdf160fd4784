SPECIFICATION FairSpec
CONSTANTS
    NofHarqs = 2
    SlotMod = 10
    StartSlot = 6
    MaxAckWait = 2
    ShortAckWait = 1
    MaxRetxs = 1
    Delays = {1, 2}
    DaiMod = 2
    UciCapacity = 2
    ReportWindow = 1
    MaxPdus = 2
    MaxQueued = 1
    MaxGrants = 3
    MaxStarved = 2
    PuschSymbols = 14
    Uninitialised = {0, 14}
    NoHarq = NoHarq
INVARIANTS
    FeedbackReachesItsHarq
PROPERTIES
    DiscardJustified
    WaitEndsOnTime
    RemovalCompletes
