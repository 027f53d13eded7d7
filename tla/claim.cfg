\* Three threads on the Firestore store, one of them on the store in memory.
SPECIFICATION Spec
CONSTANTS
    c1 = c1  c2 = c2  c3 = c3  k1 = k1  k2 = k2  r1 = r1  r2 = r2
    NoRecord = NoRecord
    Caller = {c1, c2, c3}
    Key = {k1, k2}
    Record = {r1, r2}
    StoreOf <- TwoStores
    Asks <- OneThread
    MaxAttempts = 2
INVARIANTS
    TypeOK
    OneWinner
PROPERTIES
    KeepsClaimOnce
