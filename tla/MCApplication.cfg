SPECIFICATION FairSpec
CONSTANTS
    Nv <- MCNv
    Message <- MCMessage
    Incoming <- MCIncoming
    NvOutCnt = 8
    NvInCnt = 50
    QueueCnt = 8
    MaxLoad = 3
    MaxChanges = 1
    RunUnconfig = FALSE
    None = None
PROPERTY EveryCallCompletes
INVARIANTS
    TypeOK
    CompletionIsForItsCall
    UpdateStatusIsTrue
    PollSuccessMeansUpdated
    AnsweredAndCompletedOnce
CHECK_DEADLOCK FALSE
