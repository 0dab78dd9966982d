SPECIFICATION Spec
CONSTANTS
    Phase1 <- MCPhase1
    Phase2 <- MCPhase2
    BlockSizes <- MCBlockSizes
    LiveBlocks = {1, 32, 128}
    Tables = 16
    MaxFft = 64
    DefaultBlock = 64
    MaxParam = 32
    Doubles <- MCDoubles
INVARIANTS PerformsAsLaunched FailsOnlyBeyond HeardOnce
CHECK_DEADLOCK FALSE
