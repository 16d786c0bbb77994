SPECIFICATION CGSpec
CONSTANTS
    a = a
    b = b
    c = c
    d = d
    s = s
    t = t
    CellId = {a, b, c, d}
    Schema = {s, t}
    CompositeId = {1, 2, 3}
    None = None
    top = top
    FirstDraft <- Base
    Revisions <- Edits
    MaxEdits = 2
    RootName <- RootNames
    Obligation = {1, 2}
INVARIANTS
    ConnectionsHoldToTheBottom
    StuckOverSharedMember
CHECK_DEADLOCK FALSE
