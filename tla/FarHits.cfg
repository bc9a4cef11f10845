SPECIFICATION Spec
CONSTANTS
    Clients = {"c1"}
    NShips = 3
    Shells = {"b1"}
    Far = 2
    Spacing = 1
    ShipRadius = 1
    ShellRadius = 1
    Budget = 1
    QueueCap = 1
    MaxChanges = 2
INVARIANT HitsFollowInterest
