CONSTANTS
    w1 = w1
    w2 = w2
    Writers <- MCTwoWriters
    NoDeadline = NoDeadline
    NStart <- MCNStart
    SemCap <- MCSemCap
    AckTimeout <- MCAckTimeout
    MaxRetransmit <- MCMaxRetransmit
    InitMsgID <- MCInitMsgID
    PeerOffsets <- MCPeerOffsetsOurs
    Deadlines <- MCDeadlines
    MaxAlloc <- MCMaxAllocTwo
    MaxPeerCons <- MCMaxPeerCons
SPECIFICATION Spec
INVARIANTS
    TypeOK
    NStartBound
    RetransmitBudget
PROPERTIES
    EntriesLeave
CHECK_DEADLOCK FALSE
