\* Two requests with either provider and a lagging read-only replica; no
\* symmetry, liveness is checked.
CONSTANTS
    r1 = r1
    r2 = r2
    Request = {r1, r2}
    TransactionMaxRetries = 2
    MaxTime = 2
    Replicated = TRUE
    Providers = {"paypal_rest", "fritzpay"}
SPECIFICATION FairSpec
PROPERTIES
    RequestsTerminate
CHECK_DEADLOCK FALSE
