\* More SDUs than SNs.  The bearer stops when all SDUs are sent and settled.
SPECIFICATION Spec
CHECK_DEADLOCK FALSE
CONSTANTS
    None = None
    SnBits = 2
    SduLens = {2}
    QueueSize = 1
    ReorderDepth = 2
    TimerSpan = 1
    MaxSdus = 7
INVARIANTS
    SegmentsOfOneSdu
    WindowSound
    StoredIsConsidered
