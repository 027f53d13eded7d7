\* Two private requests with one idempotency key.
SPECIFICATION ServiceSpec
CONSTANTS
    c1 = c1  c2 = c2  b1 = b1  b2 = b2  k1 = k1  k2 = k2
    NoRequest = NoRequest
    Caller = {c1}
    Client = {b1}
    Request <- SomeBodies
    Deployment <- Private
    MaxAsked = 2
    MaxBoot = 0
INVARIANTS
    SentOnce
CHECK_DEADLOCK FALSE
