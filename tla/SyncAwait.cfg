\* A chain of four tasks that may suspend and throw.
SPECIFICATION Spec
CONSTANTS
    Depth = 4
    MayThrow = TRUE
CHECK_DEADLOCK FALSE
INVARIANT AwaitInv
PROPERTIES ValueReturns
