SPECIFICATION FairSpec
CONSTANTS
    HALF = 4
    RESET = 2
    BITS = 2
    LENGTH = 3
    DEPTH = 2
    MaxHalts = 4
INVARIANTS TypeOK BitsUsedOnce OnlyTimeoutsSpoil
PROPERTIES ReadEnds
