SPECIFICATION FairSpec
CONSTANTS
    k1 = k1
    k2 = k2
    v1 = v1
    None = None
    Keys = {k1, k2}
    Values = {v1}
    TicksPerSecond = 1
    Seconds <- MCSeconds
    MaxTime = 1
    MaxLog = 2
    ClockRuns = TRUE
    Faults = TRUE
INVARIANT TypeOK DeadlineHasData IInv ServesExpected
PROPERTY EndsWhatItBegins
