\* Two workers, two publishers, two events.
SPECIFICATION Spec
CONSTANTS
    Workers = {w1, w2}
    Publishers = {p1, p2}
    Events = {e1, e2}
    Delays = {1, 2}
    NoEvent = NoEvent
    MaxTime = 2
CHECK_DEADLOCK FALSE
INVARIANT BusInv
PROPERTIES AcceptedIsDelivered DelayedFires StopReturnsPastWait
