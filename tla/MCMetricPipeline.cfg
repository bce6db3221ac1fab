CONSTANTS
    p1 = p1
    p2 = p2
    rising = rising
    falling = falling
    closed = closed
    Procs <- MCProcs
    Configs <- MCConfigs
    Initial = initial
    Threshold <- MCThreshold
    Values <- MCValues
    HistoryLimit = 2
    MaxRuns = 3
    MaxEdits = 1
    MaxCrashes = 1
SPECIFICATION Spec
SYMMETRY MCSymmetry
INVARIANTS
    TypeOK
    StateFileIntact
    RollbackChanges
    HistoryKept
    StampDeterminesRag
