\* Two requests at a time, one redeployment, all settings but one switched on.
SPECIFICATION ServiceSpec
CONSTANTS
    c1 = c1  c2 = c2  b1 = b1  b2 = b2  k1 = k1  k2 = k2
    NoRequest = NoRequest
    Caller = {c1, c2}
    Client = {b1, b2}
    Request <- SomeBodies
    Deployment <- SomeDeployments
    MaxAsked = 2
    MaxBoot = 1
INVARIANTS
    BusinessTypeOK
    CanaryTypeOK
    OneCall
    EvidenceIsReal
    LogAgreesWithClaim
    ReceiptBacked
PROPERTIES
    MailIsAuthorized
    EffectsNeedOptIn
SYMMETRY RequestSymmetry
CHECK_DEADLOCK FALSE
