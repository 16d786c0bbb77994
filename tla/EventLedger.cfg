SPECIFICATION FairSpec
CONSTANTS
    p1 = p1
    p2 = p2
    p3 = p3
    e1 = e1
    e2 = e2
    x1 = x1
    x2 = x2
    Process = {p1, p2, p3}
    EventId = {e1, e2}
    Content = {x1, x2}
    NoRequest = NoRequest
    NoProcess = NoProcess
    MaxCalls = 3
    MaxCrashes = 2
INVARIANTS
    OneValidOrder
    NoSpuriousIntegrityError
PROPERTIES
    EarlierRecordsStay
    ImplementsLog
    CallsReturn
CHECK_DEADLOCK FALSE
