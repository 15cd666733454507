\* Two workers and nothing to do: does the destructor return?
SPECIFICATION Spec
CONSTANTS
    Workers = {w1, w2}
    Clients = {c1}
    Tasks = {t1}
    NoTask = NoTask
    Free = Free
CHECK_DEADLOCK FALSE
PROPERTIES DestructorReturns
