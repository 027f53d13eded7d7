\* Two callers, three known events and an unknown one, kill switches, expiry,
\* and a release report in the making.
SPECIFICATION ServerSpec
CONSTANTS
    c1 = c1  c2 = c2  ev1 = ev1  ev2 = ev2  ev3 = ev3  ghost = ghost  id1 = id1  id2 = id2
    NoUse = NoUse  NoJob = NoJob  NoWarrant = NoWarrant
    NoTime = NoTime  NoReport = NoReport
    Caller = {c1, c2}
    Event = {ev1, ev2, ev3, ghost}
    KnownCase = {ev1, ev2, ev3}
    EventId <- SharedId
    Transition = {"resolution_prepared", "refunded"}
    Allowed = {"resolution_prepared"}
    TTL = 1
    MaxTime = 1
    DemoEvent = ev1
    UnknownEvent = ghost
    Prepared = "resolution_prepared"
    Triaged = "resolution_prepared"
INVARIANTS
    LoopTypeOK
    OneActionPerEvent
    ReceiptsAgree
    EarnedByWork
    TimelineSound
    ReportsHold
PROPERTIES
    KillSwitchStopsNewWork
    LoopUsesGateway
    AnswersAsAlone
CONSTRAINT Apart
SYMMETRY CallerSymmetry
