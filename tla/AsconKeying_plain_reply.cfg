\* Handshake and requests over a network that reorders and loses datagrams:
\* a reply written after the one-shot must leave sealed.
CONSTANTS
    NoKey = NoKey
    Requests <- MCRequests
    MaxRetransmit <- MCMaxRetransmit
    MaxHellos <- MCMaxHellos
    QueueSize <- MCQueueSize
    Faults <- MCLossy
SPECIFICATION Spec
PROPERTY ServerRepliesSealed
\* the client finishes its requests or its connection ends: the program stops
CHECK_DEADLOCK FALSE
