SPECIFICATION Spec
CONSTANTS
    Workloads = {w1, w2}
    Duration = 2
    TaskBreaker = 2
    SysBreaker = 2
    PsiBreaker = 1
SYMMETRY WorkloadSymmetry
INVARIANTS
    TypeOK
    NoSilentPass
    PassIsAuthoritative
    JudgedRowsAreOnDisk
    RunningAreRecorded
    SurvivorsWereKilled
    StatusCommits
    SwapIsNeverSilent
CHECK_DEADLOCK FALSE
