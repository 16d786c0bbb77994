SPECIFICATION FairSpec
CONSTANTS
    p1 = p1
    p2 = p2
    j1 = j1
    j2 = j2
    j3 = j3
    s1 = s1
    s2 = s2
    s3 = s3
    Process = {p1, p2}
    Job = {j1, j2}
    Snapshot = {s1, s2, s3}
    NoProcess = NoProcess
    NoJob = NoJob
    MaxCrashes = 1
    MaxCalls = 3
INVARIANTS
    PromotedMeansLanded
PROPERTIES
    PromotionEnds
    ImplementsRegister
CHECK_DEADLOCK FALSE
