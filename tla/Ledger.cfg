\* Three requests, primary database only.
CONSTANTS
    r1 = r1
    r2 = r2
    r3 = r3
    Request = {r1, r2, r3}
    TransactionMaxRetries = 2
    MaxTime = 4
    Replicated = FALSE
    Providers = {"paypal_rest"}
SYMMETRY RequestSymmetry
SPECIFICATION Spec
INVARIANTS
    TypeOK
    OpenFirst
    EndsOnce
    NotifiedOnce
    NotificationHasTransaction
    NotificationStatus
CHECK_DEADLOCK FALSE
