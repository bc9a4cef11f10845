SPECIFICATION GunSpec
CONSTANTS
    Guns = {"g1"}
    Players = {"p1"}
    Low = 0
    High = 1
    Bearings = {1}
    Rounds = 2
    Cycle = 2
    Rest = 1
    Health = 1
    Patience = 2
    Ammo = {0, 1}
    MaxOrders = 2
INVARIANT AckedReloadLoads
