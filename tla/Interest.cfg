SPECIFICATION MCSpec
CONSTANTS
    Clients = {"c1"}
    NShips = 2
    Shells = {"b1"}
    Far = 2
    Spacing = 1
    ShipRadius = 1
    ShellRadius = 1
    Budget = 1
    QueueCap = 1
    MaxChanges = 2
    Ids = {1, 2, 3}
    Extent = 3
    CellSize = 2
    CellCap = 1
    Factor = 1
    Slack = 0
INVARIANT GridIsAMap
INVARIANT StampIsHonest
INVARIANT ViewHasOwnShip
PROPERTY RefreshIsExact
PROPERTY EveryoneIsServed
