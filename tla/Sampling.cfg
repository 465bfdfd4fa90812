SPECIFICATION Spec
CONSTANTS
    MaxGens = 2
    MaxCount = 2
    MaxScans = 3
INVARIANTS
    TypeOK
    GrowthCountedOnce
    ExitedAreGone
    TornIsLast
    InversionNeedsReuseOrEnding
CHECK_DEADLOCK FALSE
