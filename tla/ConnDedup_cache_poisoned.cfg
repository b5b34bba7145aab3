CONSTANTS
    r1 = r1
    r2 = r2
    m1 = m1
    m2 = m2
    Readers <- MCReaders
    MIDs <- MCMIDs
    ReqTypes <- MCReqTypes
    Outcomes <- MCCachedOutcomes
    MaxCopies <- MCMaxCopies
    QueueSize <- MCQueueSize
    Keyed = TRUE
    NoKey = NoKey
    ServerKey = ServerKey
    NoReader = NoReader
    NoReply = NoReply
    Garbage = Garbage
SYMMETRY MCReaderSymmetry
SPECIFICATION Spec
INVARIANT CacheReplayIntact
CHECK_DEADLOCK FALSE
