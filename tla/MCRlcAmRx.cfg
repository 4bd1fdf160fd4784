\* Window of 2 SNs out of 4, so that the SN space wraps around; SDUs of three bytes:
\* first, middle and last segments with every overlap.
CONSTANTS
    Window = 2
    SduLen = 3
    NackRangeMod = 256
    NackSnSize = 2
    StatusProhibit = TRUE
SPECIFICATION MCSpec
INVARIANTS
    RxInv
    SegmentsDisjoint
    ReportExact
    NackListExact
    TrimSound
PROPERTIES
    EdgesAdvance
    BytesNeverLost
