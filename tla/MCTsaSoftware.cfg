SPECIFICATION Spec
CONSTANTS
    nodeA = nodeA
    nodeB = nodeB
    nodeC = nodeC
    pri = pri
    nonpri = nonpri
    contents = contents
    n1 = n1
    goodKey = goodKey
    badKey = badKey
    QueueCnt = 3
    AppInCnt = 3
    AppCeRspCnt = 6
    Node <- MCTwoNodes
    Priority <- MCNonPri
    Pri = pri
    Message <- MCThreeAckd
    Retries = 1
    MaxTid = 15
    MaxReqId = 4
    RecvRecCnt = 2
    Cnt <- MCCnt
    Nonce = {n1}
    Key <- MCKey
    NullResponse = {TRUE, FALSE}
    ResetNodes <- MCSender
    ResetKinds = {"reset"}
    MaxResets = 1
    FrameLife = 400
    ReceiveTimer = 1536
    ResetDelay = 2000
    NoNode = NoNode
    NoMsg = NoMsg
    NoNonce = NoNonce
INVARIANT NewMessageIsNotARepeat
CHECK_DEADLOCK FALSE
