SPECIFICATION FairSpec
CHECK_DEADLOCK FALSE
CONSTANTS
    None = None
    Uninitialised = Uninitialised
    Indexes = {10, 11}
    Ues = {1, 2}
    MaxConsecutiveKos = 1
    MaxReports = 1
    MaxTriggers = 1
    MaxSetups = 1
INVARIANTS ContextsNested RlfNotifierOutlivesTask DuAssertionsHold ResponseAwaited
PROPERTIES RemovalEnds
