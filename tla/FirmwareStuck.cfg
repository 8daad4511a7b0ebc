CONSTANTS
    RING_BYTES = 16
    POOL_BYTES = 16
    CHUNK = 4
    RAW_BYTES = 2
    RCT_BYTES = 2
    STARTUP_BYTES = 10
    PAGES = 1
    SECTOR_PAGES = 1
    IMAGE_PAGES = 1
    HostCommands = {"STATUS", "GET_RANDOM"}
    MaxFrames = 3
    MaxBlocks = 2
    OFFSETS = 2
    ChipMayBeLate = FALSE
    DATA_PAGES = 0
    LONG_PAGES = 1
    HeaderMayWrap = FALSE
    PowerMayFail = FALSE
    SourceMayDie = TRUE
SPECIFICATION Spec
INVARIANT NoStuckBlockEmitted
