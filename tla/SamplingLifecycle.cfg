SPECIFICATION Spec
CONSTANTS
    MaxGens = 2
    MaxCount = 2
    MaxScans = 3
INVARIANT
    ExitAfterFirstSample
CHECK_DEADLOCK FALSE
