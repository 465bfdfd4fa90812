SPECIFICATION Spec
CONSTANTS
    Runs = {r1, r2}
    MaxNum = 2
    MaxRows = 3
    MaxEvents = 1
    MaxRaises = 1
SYMMETRY RunSymmetry
INVARIANTS
    OnlyRacingRunsShare
    NoRowSkipped
    FinishedRunReplaysWhole
    EventsComeWithContext
PROPERTY
    RawIsAppendOnly
CHECK_DEADLOCK FALSE
