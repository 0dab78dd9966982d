SPECIFICATION RingSpec
CONSTANTS
    Half = 1024
    BufferBlocks = 3
    Blocks = {2, 4}
    MaxBlock = 4
    DataShorts = 10
    ReadCap = 12
    PlayCap = 2
    ResizeCap = 0
INVARIANT ReadsCounted
CHECK_DEADLOCK FALSE
