\* One task that may throw: does sync_await return when it has finished?
SPECIFICATION Spec
CONSTANTS
    Depth = 1
    MayThrow = TRUE
CHECK_DEADLOCK FALSE
PROPERTIES FinishedReturns
