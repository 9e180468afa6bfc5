SPECIFICATION FairSpec
CONSTANTS
    Sessions <- MCSessions
    Packets <- MCPackets
    MaxPowerLosses = 2
    MaxReconnects = 1
    Erased = Erased
    Mixed = Mixed
    Factory = Factory
    Bad = Bad
INVARIANTS TypeOK ConfirmedIsStored ActiveIsWhole DoneMeansActive
PROPERTY UpdateEnds
CHECK_DEADLOCK FALSE
