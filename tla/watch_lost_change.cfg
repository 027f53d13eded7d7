\* The brief provider may fail after the snapshot is stored.
SPECIFICATION Spec
CONSTANTS
    w1 = w1  w2 = w2
    e1 = e1  e2 = e2  e3 = e3  e4 = e4  bad = bad
    s1 = s1  s2 = s2
    A = A  B = B  C = C
    html = html  text = text
    title = title  rule = rule  ended = ended  added = added  also = also
    NoEvent = NoEvent  NoSnapshot = NoSnapshot  NoRun = NoRun  NoStatus = NoStatus
    Worker = {w1}
    Event = {e1, e2, e3}
    Source = {s1}
    EventSource <- OneSource
    Evidence = {A, B}
    Norm = {html}
    Revision <- NewRevision
    LastVersion = 2
    Fault = {"brief"}
    Sentence = {title, rule, ended, added, also}
    Text <- ServedPages
    Short = {title}
    MaxSegments = 4
    MaxShown = 2
    Size <- Sizes
    MaxSize = 2
    MaxText = 3
    StoreKind = "firestore"
INVARIANTS
    EveryChangeQueued
