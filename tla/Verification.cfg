SPECIFICATION FairSpec
CONSTANTS
    Pipe = 1
    Limit = 1
    Output = 3
    Request = {0, 2}
    MaxFaults = 1
    Commands = 2
    MaxAttempts = 2
INVARIANTS
    EndsClean
    VerifiedMeansAllPassed
PROPERTIES
    ReportIsFinal
    ReturnsUnlessBlockedOnInput
CHECK_DEADLOCK FALSE
