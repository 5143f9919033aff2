SPECIFICATION Spec
CONSTANTS
    k1 = k1
    v1 = v1
    None = None
    Keys = {k1}
    Values = {v1}
    TicksPerSecond = 1
    Seconds <- MCSeconds
    MaxTime = 1
    MaxLog = 2
    ClockRuns = FALSE
    Faults = TRUE
PROPERTY PartialRecordDetected
