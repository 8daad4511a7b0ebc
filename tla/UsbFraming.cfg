CONSTANTS
    RX_BUF_BYTES = 4
    FIFO_BYTES = 3
    U16 = 8
    Announced = {0, 2, 3, 6}
    Payload = {0, 5}
    MaxSent = 3
SPECIFICATION FairSpec
INVARIANT TypeOK
PROPERTY DispatchesFrames
