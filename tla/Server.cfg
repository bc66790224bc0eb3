\* One connection (and again), two signals or failures: up to three processes.
SPECIFICATION Spec
CONSTANTS
    c1 = c1
    Conns = {c1}
    MaxEvents = 2
INVARIANTS
    AlwaysServing
    LeavesNothing
PROPERTIES
    TermEnds
    QueuedIsServed
CHECK_DEADLOCK FALSE
