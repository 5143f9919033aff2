SPECIFICATION Spec
CONSTANTS
    k1 = k1
    k2 = k2
    v1 = v1
    v2 = v2
    None = None
    Keys = {k1, k2}
    Values = {v1, v2}
    TicksPerSecond = 2
    Seconds <- MCSeconds
    MaxTime = 5
    ClockRuns = TRUE
SYMMETRY MCSymmetry
INVARIANT TypeOK DeadlineHasData
PROPERTY RefinesIdeal NoEarlyLoss NoEarlyPersist
