SPECIFICATION MCSpec
CONSTANTS
    NLayers = 2
    PerLayer = 1
    MaxVal = 0
    Interval <- EveryTickAndOnChange
    OnChange <- OnChangeInterval
    Resync <- Resync32
    ConfirmAge = 2
    Cooldown = 2
    RingCap = 2
    Eps = 0
    MaxDelta = 2
    MaxTick = 3
    MaxChanges = 9
    MaxDelay = 2
    MaxReports = 1
    Ordered = TRUE
    Prompt = FALSE
    Traffic = {"command", "state"}
    MaxSeq = 4
    Window = 2
    GapCap = 1
    LedgerCap = 2
    MaxRetries = 1
    MaxPerPass = 1
    MaxUp = 1
    MaxDown = 1
    ToServer = FALSE
INVARIANT UndisturbedNeverStalls
INVARIANT ConfirmedIsHeld
INVARIANT CalmHeals
INVARIANT MarkIsTruthful
INVARIANT AtMostOnce
INVARIANT HeadersSound
PROPERTY ImplementsReplica
PROPERTY RetireOnlyDelivered
CHECK_DEADLOCK FALSE
