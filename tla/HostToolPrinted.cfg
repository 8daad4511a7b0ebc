SPECIFICATION Spec
CONSTANTS
    Images = {"A", "B"}
    CHUNKS = 2
    FIFO_BYTES = 5
    PACKET = 4
    RX_FRAMES = 1
    ASKED = 1
    Entropy = {0, 2}
    MaxTools = 4
INVARIANT PrintedIsRandom
