CONSTANTS
    w1 = w1
    w2 = w2
    Writers <- MCOneWriter
    NoDeadline = NoDeadline
    NStart <- MCNStart
    SemCap <- MCSemCap
    AckTimeout <- MCAckTimeout
    MaxRetransmit <- MCMaxRetransmit
    InitMsgID <- MCInitMsgID
    PeerOffsets <- MCPeerOffsets
    Deadlines <- MCDeadlinesUnbounded
    MaxAlloc <- MCMaxAlloc
    MaxPeerCons <- MCMaxPeerCons
SPECIFICATION Spec
PROPERTIES
    WaiterReturns
CHECK_DEADLOCK FALSE
