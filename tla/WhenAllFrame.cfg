\* Two children of which one suspends: is its wrapper over when it is destroyed?
SPECIFICATION Spec
CONSTANTS
    N = 2
    Async = {2}
CHECK_DEADLOCK FALSE
INVARIANTS FrameSafe
