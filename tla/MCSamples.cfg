SPECIFICATION SamplesSpec
CONSTANTS
    Prime = 17
    Generator = 3
    MaxBits = 4
    Signals <- MCSignals
    Field = 5
    Gain = 2
    Samples = {0, 1}
    ReverbBlocks = {1, 2, 3, 4}
    Positions = 4
    StreamCap = 8
    ConvBlocks = {1, 2, 5, 8}
    ConvParams = {1, 2, 4, 5, 8, 9, 20}
    Half = 32
    BufferBlocks = 3
    Blocks = {2, 3, 4, 8}
    MaxBlock = 8
    DataShorts = 10
    ReadCap = 70
    PlayCap = 18
    ResizeCap = 2
    Callers = {old, new}
    Sizes = {2, 4}
    MaxBin = 2
    Addresses = {a1, a2, a3}
SYMMETRY MCSymmetry
INVARIANTS FftIsDft ReverbIsFilter ThrowsOnlyAtOverflow RoundAfterRound RefusedOnlyResized
    SafeUnlessRaced EnabledIsInitialized OwnSpectrum PlannedThreads
CHECK_DEADLOCK FALSE
