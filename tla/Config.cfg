\* Two overlapping requests and two methods; the clock may stand still.
CONSTANTS
    h1 = h1
    h2 = h2
    m1 = m1
    m2 = m2
    NoMethod = NoMethod
    Handler = {h1, h2}
    Method = {m1, m2}
    MaxTime = 4
    TransactionMaxRetries = 2
SYMMETRY ConfigurationSymmetry
SPECIFICATION Spec
INVARIANTS
    MerchantDataKept
    MetadataWhole
PROPERTIES
    MethodStays
CHECK_DEADLOCK FALSE
