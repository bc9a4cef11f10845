SPECIFICATION Spec
CONSTANTS
    Traffic = {"command", "heartbeat"}
    MaxSeq = 4
    Window = 2
    GapCap = 1
    LedgerCap = 2
    MaxRetries = 1
    MaxPerPass = 1
    MaxUp = 2
    MaxDown = 1
    ToServer = TRUE
INVARIANT AckedMeansDelivered
CHECK_DEADLOCK FALSE
