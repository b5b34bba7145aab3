CONSTANTS
    NoKey = NoKey
    Requests <- MCRequests
    MaxRetransmit <- MCMaxRetransmit
    MaxHellos <- MCMaxHellos
    QueueSize <- MCQueueSize
    Faults <- MCLossy
SPECIFICATION Spec
INVARIANT ServerDecodesUnderSenderKey
CHECK_DEADLOCK FALSE
