\* Two workers, two clients and two tasks.
SPECIFICATION Spec
CONSTANTS
    Workers = {w1, w2}
    Clients = {c1, c2}
    Tasks = {t1, t2}
    NoTask = NoTask
    Free = Free
CHECK_DEADLOCK FALSE
INVARIANTS TypeOK Conservation DestroyedMeansResolved LateTasks SomeoneAwake
PROPERTIES ImplementsTaskPool QueueDrains ShutdownPastCheck
