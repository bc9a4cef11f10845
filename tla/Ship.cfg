SPECIFICATION MCSpec
CONSTANTS
    Guns = {"g1"}
    Players = {"p1"}
    Low = 0
    High = 2
    Bearings = {1, 3}
    Rounds = 2
    Cycle = 2
    Rest = 1
    Health = 2
    Patience = 2
    Ammo = {0, 1}
    MaxOrders = 3
    Compartments = {1, 2, 3}
    Pumped = {2}
    Doors <- MCDoors
    Depth = 2
    Intake = 1
    PumpOut = 1
    Ships = {"s1", "s2", "s3"}
    Shells = {"b1", "b2"}
    Explosive = {"b2"}
    HullHealth = 1
    SinkTicks = 2
    MaxRicochets = 1
INVARIANT OneShellPerOrder
INVARIANT LossRunsItsCourse
PROPERTY WaterOnlyThroughBreaches
PROPERTY BookingEnds
