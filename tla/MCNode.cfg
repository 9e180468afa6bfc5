SPECIFICATION FairSpec
CONSTANTS
    Domains = {0, 1}
    Values = {0, 1}
    Received <- MCReceived
    MaxCommands = 3
    MaxRestarts = 1
    None = None
INVARIANTS
    TypeOK
    ConfigurationIsChecked
    ImageIsCurrent
PROPERTIES
    StaysLocked
    DamageIsFound
CHECK_DEADLOCK FALSE
