SPECIFICATION FairSpec
CONSTANTS
    Images = {"A", "B"}
    CHUNKS = 2
    FIFO_BYTES = 5
    PACKET = 5
    RX_FRAMES = 1
    ASKED = 1
    Entropy = {0, 2}
    MaxTools = 4
INVARIANTS TypeOK ToldOkIsTrue UndisturbedSucceeds UndisturbedIsTold
PROPERTIES ToolReturns
