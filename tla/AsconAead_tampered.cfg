CONSTANTS
    Keys <- MCKeys
    Nonces <- MCNonces
    Messages <- MCMessages
    Truncations <- MCTruncations
    Flips <- MCFlips
SPECIFICATION Spec
INVARIANT DecodeRejectsTampered
\* one datagram is encoded and decoded: the behaviour ends
CHECK_DEADLOCK FALSE
