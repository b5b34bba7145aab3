CONSTANTS
    w1 = w1
    w2 = w2
    Writers <- MCOneWriter
    NoDeadline = NoDeadline
    NStart <- MCNStart
    SemCap <- MCSemCap
    AckTimeout <- MCAckTimeout
    MaxRetransmit <- MCMaxRetransmit
    InitMsgID <- MCInitMsgID
    PeerOffsets <- MCPeerOffsets
    Deadlines <- MCDeadlines
    MaxAlloc <- MCMaxAlloc
    MaxPeerCons <- MCMaxPeerConsTwo
SPECIFICATION Spec
INVARIANTS
    NoEarlyMIDReuse
CHECK_DEADLOCK FALSE
