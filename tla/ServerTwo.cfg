SPECIFICATION FairSpec
CONSTANTS
    Conns = {1, 2}
    Patient = {1}
    Kinds <- MCKinds
    FirstKinds = {"write", "raising"}
    First = 2
    MaxRequests <- MCRequests
    OutLimit = 0
    Faults = TRUE
    ShutdownSnapshot = TRUE
    WaitsForClients = FALSE
CHECK_DEADLOCK FALSE
INVARIANT AcknowledgedIsOnFile
PROPERTY Progress ShutdownEnds
