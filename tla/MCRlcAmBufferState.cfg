\* Buffer states that stay below MAX_DL_PDU_LENGTH.
CONSTANTS
    Capacity = 3
    Large = 3
    DeferMayFail = FALSE
    MaxTasks = 2
SPECIFICATION FairBsSpec
INVARIANTS
    MacWillKnow
PROPERTIES
    EventuallyServed
