SPECIFICATION FairSpec
CONSTANTS
    RING_BYTES = 8
    POOL_BYTES = 8
    CHUNK = 3
    RAW_BYTES = 2
    RCT_BYTES = 2
    STARTUP_BYTES = 4
    OUT_BYTES = 2
    MaxAsked = 3
INVARIANTS TypeOK AnswerIsGood
PROPERTIES ImplementsPath CallReturns
