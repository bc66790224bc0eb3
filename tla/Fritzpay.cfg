\* Two requests served by the fritzpay driver, each with worker and callback.
CONSTANTS
    r1 = r1
    r2 = r2
    Request = {r1, r2}
    TransactionMaxRetries = 2
    MaxTime = 3
    Replicated = FALSE
    Providers = {"fritzpay"}
SYMMETRY RequestSymmetry
SPECIFICATION FritzpaySpec
INVARIANTS
    ProviderAfterPending
    DoneMeansOpen
    OpensOnce
CHECK_DEADLOCK FALSE
