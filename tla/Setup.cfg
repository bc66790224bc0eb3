\* Two calls for the same ident or for two, as many tokens as payments,
\* two customers; no symmetry, liveness is checked.
CONSTANTS
    r1 = r1
    r2 = r2
    c1 = c1
    c2 = c2
    a = a
    b = b
    t1 = t1
    t2 = t2
    NoToken = NoToken
    Request = {r1, r2}
    Customer = {c1, c2}
    Ident = {a, b}
    TokenName = {t1, t2}
    MaxPaymentId = 2
    TransactionMaxRetries = 2
    Width = 4
    IDEncKey <- SmallKey
SPECIFICATION FairSpec
INVARIANTS
    OneTimeToken
    AnswerCanBeLookedUp
    IdsRoundTrip
PROPERTIES
    ImplementsRegistry
    InitAnswered
CHECK_DEADLOCK FALSE
