\* Three requests, two processes, two configured keys.
SPECIFICATION Spec
CONSTANTS
    r1 = r1
    r2 = r2
    r3 = r3
    Requests = {r1, r2, r3}
    MaxProcs = 2
    MaxKeys = 2
    Configured = TRUE
INVARIANTS
    CompleteEntities
    CreatedOnce
    ChangeIsKept
    TransactionsEnd
PROPERTIES
    SessionKept
    RequestAnswered
CHECK_DEADLOCK FALSE
