SPECIFICATION MCSpec
CONSTANTS
    Traffic = {"command", "heartbeat", "heartbeatAck"}
    MaxSeq = 3
    Window = 2
    GapCap = 3
    LedgerCap = 2
    MaxRetries = 1
    MaxPerPass = 1
    MaxUp = 1
    MaxDown = 1
    ToServer = TRUE
    Width = 2
    MaxNumber = 10
    MaxInputs = 3
    BoundKinds = {"accept"}
    MaxConnSeq = 3
    MaxUnbound = 1
    MaxRuns = 2
    MaxConns = 1
    MaxInFlight = 2
    Types = {"full", "event"}
    Sizes = {3}
    Modulus = 8
    MaxId = 3
    MaxJump = 3
    Ttl = 1
    MaxGroups = 2
    MaxBuffered = 3
    MaxLag = 2
    MaxWire = 3
    MaxSessions = 1
PROPERTY ImplementsDelivery
PROPERTY LedgerDrains
INVARIANT NothingTwice
PROPERTY ImplementsReplayWindow
PROPERTY AcceptGetsThrough
INVARIANT BudgetKept
INVARIANT Hears
PROPERTY DeliveredOnce
CHECK_DEADLOCK FALSE
