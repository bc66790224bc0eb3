\* One customer, two returns and a cancel, with faults.
CONSTANTS
    p1 = p1
    b1 = b1
    b2 = b2
    c1 = c1
    Payer = {p1}
    Returner = {b1, b2}
    Canceller = {c1}
    Request = {p1, b1, b2, c1}
    TransactionMaxRetries = 1
    MaxTime = 6
    Replicated = FALSE
    Providers = {"paypal_rest"}
    Intent = "sale"
    Faults = TRUE
SYMMETRY DriverSymmetry
SPECIFICATION DriverSpec
INVARIANTS
    PaidWasExecuted
    TablesAgree
    ExecutesOnce
    CancelledNotExecuted
CHECK_DEADLOCK FALSE
