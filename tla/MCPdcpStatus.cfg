\* The bearers of MCPdcpLink.cfg, for what status reports do to an SDU.
CONSTANTS
    SnMod = 8
    HfnMod = 3
    TxNotify = 20
    TxHard = 22
    RxNotify = 20
    RxHard = 21
    MaxReportBits = 2
    Configs <- AllConfigs
    RlcQueueSize = 2
    Starts = {0, 6, 20, 21}
    MaxNewSdus = 3
    MaxOutstanding = 3
    MaxRestarts = 1
SPECIFICATION LinkSpec
CHECK_DEADLOCK FALSE
INVARIANTS
    ReportsLoseNothing
