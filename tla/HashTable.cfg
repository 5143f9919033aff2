SPECIFICATION FairSpec
CONSTANTS
    Keys = {0, 4, 5, 13}
    Values = {v1, v2}
    None = None
    MinCapacity = 2
    Hash <- MCHash
INVARIANT TypeOK EveryKeyAtHome LoadIsBounded
PROPERTY IsADict ResizeEnds
