\* Two callers race on the warrants of two events, one of an unknown case.
SPECIFICATION Spec
CONSTANTS
    c1 = c1  c2 = c2  ev1 = ev1  ev2 = ev2
    NoUse = NoUse
    Caller = {c1, c2}
    Event = {ev1, ev2}
    KnownCase = {ev1}
    Transition = {"triaged", "resolution_prepared", "refunded"}
    Allowed = {"triaged", "resolution_prepared"}
    TTL = 2
    MaxTime = 2
INVARIANTS
    TypeOK
    OneUse
    Authorized
    TimelyUse
PROPERTIES
    ReplayDenied
SYMMETRY CallerSymmetry
