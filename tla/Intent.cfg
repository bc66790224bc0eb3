\* Two intents with a pre-intent worker each, one late registration; no
\* symmetry, liveness is checked.
CONSTANTS
    i1 = i1
    i2 = i2
    w1 = w1
    notify = notify
    l1 = l1
    Intent = {i1, i2}
    PreWorker = {w1}
    Notify = notify
    Latecomer = {l1}
    Deadline = TRUE
SPECIFICATION IntentFairSpec
INVARIANTS
    RegisteredAreRun
PROPERTIES
    OnlyCollectorsLeft
CHECK_DEADLOCK FALSE
