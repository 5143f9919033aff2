SPECIFICATION Spec
CONSTANTS
    Conns = {1}
    Patient = {1}
    Kinds <- MCKinds
    FirstKinds = {"write", "plain", "raising", "malformed"}
    First = 1
    MaxRequests <- MCRequests
    OutLimit = 1
    Faults = FALSE
    ShutdownSnapshot = TRUE
    WaitsForClients = TRUE
CHECK_DEADLOCK FALSE
PROPERTY UnknownCommandAnswered
