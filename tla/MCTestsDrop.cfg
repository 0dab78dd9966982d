SPECIFICATION TestsSpec
CONSTANTS
    Clients = {"ui", "ctl"}
    Owner = "ui"
    Sources = {"WAV"}
    Configs <- MCConfigs
    Block <- MCBlock
    MaxDspCycles = 2
    MaxTasks = 2
    TickCap = 3
    MaxParam = 4
    Doubles <- MCDoubles
    Phase1 <- MCPhase1
    Phase2 <- MCPhase2
    BlockSizes <- MCTwoBlocks
    TableAlgs <- MCTableAlgs
    Tables = 2
    MayAbort = TRUE
    Prompt = TRUE
INVARIANT NoUseAfterDrop
CHECK_DEADLOCK FALSE
