SPECIFICATION Spec
CONSTANTS
    Domains = {0, 1}
    Values = {0, 1}
    Received <- MCReceived
    MaxCommands = 3
    MaxRestarts = 1
    None = None
PROPERTY UnconfiguredIsKept
CHECK_DEADLOCK FALSE
