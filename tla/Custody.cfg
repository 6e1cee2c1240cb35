\* Two customers, a token and an NFT, limits, a midnight and the admin's
\* settings.
SPECIFICATION Spec
CONSTANTS
    MaxCustomer = 2
    CustomerId = {i1, i2}
    Token = {t1}
    NFT = {n1}
    Operator = {o1}
    Supply = 1
    Limits = {0, 1}
    Insurers = {z1}
    SignatureCounts = {1}
    DayLength = 1
    MaxTime = 1
    MaxRegistrations = 2
INVARIANTS
    OwedCovered
    CounterMatchesDay
    RecordsCovered
    ActiveIdsResolve
PROPERTIES
    DayWithinLimit
    ImplementsVaults
CHECK_DEADLOCK FALSE
