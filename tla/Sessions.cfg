SPECIFICATION MCSpec
CONSTANTS
    Interval = 5
    Timeout = 15
    TTL = 24
    Burst = 4
    MaxResends = 2
    Settings <- Served
    Addrs = {"a1"}
    MaxId = 2
    MaxConnections = 2
    EventCap = 6
INVARIANT MappingIsCurrent
INVARIANT EndsAreSettled
INVARIANT SessionsMatch
INVARIANT GetsIn
PROPERTY OrphanEnds
PROPERTY ImplementsDirectory
CHECK_DEADLOCK FALSE
