SPECIFICATION Spec
CONSTANTS
    a1 = a1
    a2 = a2
    l1 = l1
    l2 = l2
    c1 = c1
    c2 = c2
    CellId = {c1, c2}
    Root = c1
    KidsOf <- Shape
    Auth = {a1, a2}
    Lineage = {l1, l2}
    Configured = {"implementer", "reviewer"}
    NoJob = NoJob
    Start = Start
    MaxCalls = 4
    MaxCrashes = 1
    MaxRevisions = 1
INVARIANTS
    HarnessRunsOnce
    JobsFollowTheLedger
    ChargesMatchJobs
    IndependentReview
    ReviewSeesCandidate
PROPERTIES
    CompletedJobsStay
CHECK_DEADLOCK FALSE
