SPECIFICATION FairSpec
CONSTANTS
    v1 = v1
    v2 = v2
    factory = factory
    Value <- MCValue
    Default <- factory
    AppData = {TRUE, FALSE}
    MaxErrors = 1
    MaxCrashes = 2
    Torn = Torn
    Lost = Lost
INVARIANTS
    UnmarkedIsStored
PROPERTIES
    ImplementsDurableStore
    ResetIsCarriedOut
