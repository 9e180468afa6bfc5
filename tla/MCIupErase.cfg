SPECIFICATION Spec
CONSTANTS
    Sessions <- MCSessions
    Packets <- MCPackets
    MaxPowerLosses = 2
    MaxReconnects = 1
    Erased = Erased
    Mixed = Mixed
    Factory = Factory
    Bad = Bad
INVARIANT NoMorePacketsMeansStored
CHECK_DEADLOCK FALSE
