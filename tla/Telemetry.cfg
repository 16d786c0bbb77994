SPECIFICATION FairSpec
CONSTANTS
    p1 = p1
    p2 = p2
    a1 = a1
    s1 = s1
    m1 = m1
    Process = {p1, p2}
    Artifact = {a1}
    Snapshot = {s1}
    File = {m1}
    PartsOf <- Parts
    Rank <- Ranks
    Relation <- Paths
    MaxLedger = 3
    MaxFaults = 1
INVARIANTS
    LedgerOrder
    CompleteWhenFinished
PROPERTIES
    RaisesOnlyOverDamage
    RecordsReachMirror
CHECK_DEADLOCK FALSE
