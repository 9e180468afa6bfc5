SPECIFICATION Spec
CONSTANTS
    Nv <- MCNv
    Message <- MCMessage
    Incoming <- MCIncoming
    NvOutCnt = 5
    NvInCnt = 50
    QueueCnt = 8
    MaxLoad = 3
    MaxChanges = 0
    RunUnconfig = FALSE
    None = None
INVARIANT EventSaysSuccess
CHECK_DEADLOCK FALSE
