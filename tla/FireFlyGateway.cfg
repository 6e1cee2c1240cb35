\* Three operations, one of which creates a pool, and two polls at once.
SPECIFICATION GatewaySpec
CONSTANTS
    Request = {r1, r2, r3}
    PoolRequest = {r3}
    Poll = {q1, q2}
INVARIANTS
    GatewayTypeOK
    TrailIsTrue
PROPERTIES
    ImplementsFeed
    EventsDrain
    RequestsEnd
