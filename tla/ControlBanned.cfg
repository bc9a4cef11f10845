SPECIFICATION Spec
CONSTANTS
    Doors = {d1, d2}
    Peers <- MCPeers
    Targets <- MCTargets
    Delays = {0, 2}
    Thresholds = {2, 1}
    QueueCap = 1
    MaxOrders = 2
    MaxRuns = 1
PROPERTY BannedStaysOut
CHECK_DEADLOCK FALSE
