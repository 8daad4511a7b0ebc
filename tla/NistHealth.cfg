CONSTANTS
    RCT_CUTOFF = 4
    APT_WINDOW = 5
    APT_CUTOFF = 4
    STARTUP_BITS = 6
    MaxBits = 12
SPECIFICATION Spec
INVARIANTS TypeOK CountersTrack StatsExact
PROPERTY Implements90B
