SPECIFICATION Spec
CONSTANTS
    nodeA = nodeA
    nodeB = nodeB
    nodeC = nodeC
    pri = pri
    nonpri = nonpri
    contents = contents
    n1 = n1
    goodKey = goodKey
    badKey = badKey
    QueueCnt = 2
    AppInCnt = 3
    AppCeRspCnt = 6
    Node <- MCThreeNodes
    Priority <- MCBoth
    Pri = pri
    Message <- MCAuthenticated
    Retries = 1
    MaxTid = 15
    MaxReqId = 3
    RecvRecCnt = 1
    Cnt <- MCCnt
    Nonce = {n1}
    Key <- MCKey
    NullResponse = {TRUE, FALSE}
    ResetNodes <- MCSender
    ResetKinds = {}
    MaxResets = 0
    FrameLife = 400
    ReceiveTimer = 1536
    ResetDelay = 2000
    NoNode = NoNode
    NoMsg = NoMsg
    NoNonce = NoNonce
INVARIANT AuthenticatedOnlyWithKey
PROPERTY ImplementsMessageService
CHECK_DEADLOCK FALSE
