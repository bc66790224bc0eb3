\* A read-only database of its own, lock errors, more requests than connections;
\* no symmetry, liveness is checked.
CONSTANTS
    p1 = p1
    p2 = p2
    p3 = p3
    t1 = t1
    b1 = b1
    PaymentRequest = {p1, p2, p3}
    TokenRequest = {t1}
    Background = {b1}
    MaxOpenConns = 2
    TransactionMaxRetries = 2
    ReadOnlyDB = TRUE
    LockErrors = TRUE
SPECIFICATION FairSpec
INVARIANTS
    PoolRestored
    AdmittedCanBegin
PROPERTIES
    RequestsReturn
CHECK_DEADLOCK FALSE
