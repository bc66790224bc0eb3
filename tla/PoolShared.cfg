\* No read-only database: both pools are one.
CONSTANTS
    p1 = p1
    p2 = p2
    PaymentRequest = {p1, p2}
    TokenRequest = {}
    Background = {}
    MaxOpenConns = 2
    TransactionMaxRetries = 1
    ReadOnlyDB = FALSE
    LockErrors = FALSE
SPECIFICATION FairSpec
PROPERTIES
    RequestsReturn
CHECK_DEADLOCK FALSE
