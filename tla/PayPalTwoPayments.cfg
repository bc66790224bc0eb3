\* Two payment requests at once create two PayPal payments; no faults, no
\* symmetry, liveness is checked.
CONSTANTS
    p1 = p1
    p2 = p2
    b1 = b1
    c1 = c1
    Payer = {p1, p2}
    Returner = {b1}
    Canceller = {c1}
    Request = {p1, p2, b1, c1}
    TransactionMaxRetries = 1
    MaxTime = 8
    Replicated = FALSE
    Providers = {"paypal_rest"}
    Intent = "authorize"
    Faults = FALSE
SPECIFICATION FairDriverSpec
PROPERTIES
    PollEnds
CHECK_DEADLOCK FALSE
