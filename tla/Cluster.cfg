SPECIFICATION FairSpec
CONSTANTS
    a1 = a1  a2 = a2  a3 = a3
    Procs = {1, 2}
    Self <- MCSelf
    Lists <- MCLists
    Keys = {k1, k2}
    Values = {v1, v2}
    None = None
    Slot <- MCSlot
    Clients = {c1, c2}
    Calls <- MCCalls
    MaxHops = 2
INVARIANT TypeOK OneOwner
PROPERTY ReadsLatest AnsweredIfAgreed
