SPECIFICATION FairSpec
CONSTANTS
    Conns = {1}
    Patient = {1}
    Kinds <- MCKinds
    FirstKinds = {"plain", "raising", "malformed"}
    First = 3
    MaxRequests <- MCRequests
    OutLimit = 1
    Faults = FALSE
    ShutdownSnapshot = FALSE
    WaitsForClients = TRUE
CHECK_DEADLOCK FALSE
INVARIANT TypeOK NothingLostOrTwice InOrder
PROPERTY Progress ShutdownEndsAfterClients
