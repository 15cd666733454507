\* Three children, any of which may suspend.
SPECIFICATION Spec
CONSTANTS
    N = 3
    Async = {1, 2, 3}
CHECK_DEADLOCK FALSE
INVARIANT WhenAllInv
PROPERTIES ImplementsGather CompletesUnlessBetween
