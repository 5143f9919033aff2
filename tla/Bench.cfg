SPECIFICATION Spec
CONSTANTS
    Requests = {r1, r2}
    Warmups = {0, 1}
    Counts = {0, 1}
    Indices = {1, 2}
    MaxDocs = 2
    MaxLate = 1
SYMMETRY MCSymmetry
INVARIANT GetsHit CleanupIsComplete StoresCompared
