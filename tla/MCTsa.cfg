SPECIFICATION FairSpec
CONSTANTS
    nodeA = nodeA
    nodeB = nodeB
    nodeC = nodeC
    pri = pri
    nonpri = nonpri
    contents = contents
    n1 = n1
    goodKey = goodKey
    badKey = badKey
    QueueCnt = 3
    AppInCnt = 2
    AppCeRspCnt = 2
    Node <- MCTwoNodes
    Priority <- MCNonPri
    Pri = pri
    Message <- MCTwoRequests
    Retries = 1
    MaxTid = 15
    MaxReqId = 4
    RecvRecCnt = 2
    Cnt <- MCCnt
    Nonce = {n1}
    Key <- MCKey
    NullResponse = {TRUE, FALSE}
    ResetNodes <- MCSender
    ResetKinds = {"powerup"}
    MaxResets = 1
    FrameLife = 400
    ReceiveTimer = 1536
    ResetDelay = 2000
    NoNode = NoNode
    NoMsg = NoMsg
    NoNonce = NoNonce
INVARIANTS
    TypeOK
    RecordsAreUnambiguous
    ResponseIsForItsRequest
    NewMessageIsNotARepeat
    NumbersAreFresh
PROPERTIES
    ImplementsMessageService
    MessageIsCompleted
CHECK_DEADLOCK FALSE
