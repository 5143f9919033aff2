SPECIFICATION Spec
CONSTANTS
    Bytes <- MCBytes
    Before <- MCBefore
    Commands <- MCCommands
    MaxSent = 2
    Alphabet = {"*", "$", "1", "2", "-", "ff", "cr", "lf"}
    MaxLen = 12
    MaxLine = 4
    MaxCount = 2
CHECK_DEADLOCK FALSE
INVARIANT ParsesLikeAScan DecodesWhatWasSent ClientSeesAMap
PROPERTY EveryCommandReturns
