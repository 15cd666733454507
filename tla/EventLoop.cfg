\* Two posters, three tasks, two calls of run().
SPECIFICATION LoopSpec
CONSTANTS
    Tasks = {t1, t2, t3}
    Posters = {p1, p2}
    MayStop = TRUE
    MaxRuns = 2
CHECK_DEADLOCK FALSE
INVARIANT LoopInv
PROPERTIES StopEndsRun PostedRuns
