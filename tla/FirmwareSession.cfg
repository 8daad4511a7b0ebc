CONSTANTS
    RING_BYTES = 2
    POOL_BYTES = 2
    CHUNK = 1
    RAW_BYTES = 1
    RCT_BYTES = 1
    STARTUP_BYTES = 1
    PAGES = 3
    SECTOR_PAGES = 2
    IMAGE_PAGES = 2
    HostCommands = {"GET_RANDOM", "FLASH_BEGIN", "FLASH_DATA", "FLASH_END", "REBOOT_BOOTLOADER"}
    MaxFrames = 1
    MaxBlocks = 1
    OFFSETS = 6
    ChipMayBeLate = TRUE
    DATA_PAGES = 1
    LONG_PAGES = 2
    HeaderMayWrap = TRUE
    PowerMayFail = TRUE
    SourceMayDie = TRUE
SPECIFICATION FairSpec
INVARIANTS
    TypeOK
    SamplingIsSafe
    ProgrammingIsSafe
    ConfiguringIsSafe
    BeginOkMeansErased
    EndOkMeansRunning
    RandomOkMeansHealthy
    PausedIsSignalled
    IdleMeansReady
PROPERTIES
    FlashChangesOnlyWhenOwned
    ErrorSticks
    LoopReturns
    FailureSticks
