\* Two children of which one suspends: does when_all complete?
SPECIFICATION Spec
CONSTANTS
    N = 2
    Async = {2}
CHECK_DEADLOCK FALSE
PROPERTIES WhenAllCompletes
