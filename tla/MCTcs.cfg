SPECIFICATION FairSpec
CONSTANTS
    nonpri = nonpri
    dmnA = dmnA
    dmnB = dmnB
    a1 = a1
    a2 = a2
    LenA = 1
    LenB = 3
    Priority <- MCPriority
    Dest <- MCDest
    DomainLen <- MCDomainLen
    MaxTid = 3
    TableSize = 2
    MinTableTime = 2
    InheritedTids = {2}
    NoDest = NoDest
INVARIANTS
    TypeOK
    TidDiffersFromPrevious
PROPERTY
    WaitingMessageIsServed
