CONSTANTS
    TestBlocks <- MCSingleBitBlocks
    Amounts <- MCDiffusionAmounts
SPECIFICATION Spec
INVARIANT RotateIsRotation
CHECK_DEADLOCK FALSE
