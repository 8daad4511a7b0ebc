CONSTANTS
    RING_BYTES = 4
    POOL_BYTES = 4
    CHUNK = 2
    RAW_BYTES = 1
    RCT_BYTES = 1
    STARTUP_BYTES = 2
    PAGES = 4
    SECTOR_PAGES = 2
    IMAGE_PAGES = 3
    HostCommands = {"STATUS", "GET_RANDOM", "FLASH_BEGIN", "FLASH_DATA", "FLASH_END"}
    MaxFrames = 1
    MaxBlocks = 1
    OFFSETS = 8
    ChipMayBeLate = FALSE
    DATA_PAGES = 2
    LONG_PAGES = 3
    HeaderMayWrap = FALSE
    PowerMayFail = FALSE
    SourceMayDie = FALSE
SPECIFICATION Spec
INVARIANT AttachedMeansInitialised
