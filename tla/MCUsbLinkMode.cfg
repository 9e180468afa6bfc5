SPECIFICATION Spec
CONSTANTS
    Down = {1}
    MaxUp = 2
    SeqMask = 7
    MaxUidRetries = 1
    MaxStatusRetries = 1
    MaxBuffers = 3
    Chunk = 2
    MultipleMips = TRUE
    MaxDownlink = 1
    MaxUplink = 2
    MaxFaults = 1
    None = None
INVARIANT ReadyMeansLayer2
CHECK_DEADLOCK FALSE
