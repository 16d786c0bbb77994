SPECIFICATION Spec
CONSTANTS
    c0 = c0
    x1 = x1
    t1 = t1
    spec = spec
    other = other
    Cell = {c0}
    Root = c0
    Composite = {}
    Raw = {x1}
    Tree = {t1}
    Template <- Templates
    Request <- Requests
    Specification = spec
    MaxRevision = 2
    MaxFaults = 2
INVARIANTS
    CustodyHolds
    MemoryIsLedgers
PROPERTIES
    GreenOnCurrentEvidence
CHECK_DEADLOCK FALSE
