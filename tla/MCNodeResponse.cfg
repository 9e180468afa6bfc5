SPECIFICATION Spec
CONSTANTS
    Domains = {0, 1}
    Values = {0, 1}
    Received <- MCReceived
    MaxCommands = 3
    MaxRestarts = 1
    None = None
INVARIANT ResponseIsTrue
CHECK_DEADLOCK FALSE
