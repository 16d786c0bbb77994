SPECIFICATION Spec
CONSTANTS
    c1 = c1
    c2 = c2
    c3 = c3
    o1 = o1
    o2 = o2
    b1 = b1
    b2 = b2
    k1 = k1
    r1 = r1
    CellId = {c1, c2, c3}
    Root = c1
    NoCell = NoCell
    Obligation = {o1, o2}
    Basis = {b1, b2}
    NoBasis = NoBasis
    Claim = {k1}
    Reviewer = {r1}
    MaxRevision <- RevisionBound
    rootMax = 11
    cellMax = 9
    MaxDirect = 1
INVARIANTS
    ExactPartition
    ClosedHasEvidence
    EvidenceInOrder
    ClosedRootMeansEveryFrontierVerified
PROPERTIES
    MaterialChangeBumpsRevision
    ClosesOnCurrentIntegration
SYMMETRY Symmetry
VIEW View
CHECK_DEADLOCK FALSE
