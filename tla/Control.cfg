SPECIFICATION FairSpec
CONSTANTS
    Doors = {d1, d2}
    Peers <- MCPeer
    Targets <- MCTargets
    Delays = {0, 2}
    Thresholds = {2, 1}
    QueueCap = 1
    MaxOrders = 2
    MaxRuns = 2
INVARIANT FileHoldsTheList
INVARIANT WarnedBeforeTheEnd
PROPERTY StopEnds
PROPERTY NoCommandHangs
CHECK_DEADLOCK FALSE
