SPECIFICATION FairSpec
CONSTANTS
    a1 = a1
    a2 = a2
    CellId = {1, 2, 3}
    Root = 1
    KidsOf <- Shape
    Answer = {a1, a2}
    FirstAnswer = {a1}
    NoAnswer = NoAnswer
    Run = Run
    MaxCrashes = 1
    MaxRefusals = 1
    MaxStops = 1
    MaxNotes = 1
    MaxLedger = 58
INVARIANTS
    ReplayAgrees
    LedgerExplainsCheckpoint
    EveryOtherCrashIsHarmless
PROPERTIES
    Completes
CHECK_DEADLOCK FALSE
