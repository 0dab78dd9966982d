SPECIFICATION TestsSpec
CONSTANTS
    Clients = {"ui", "ctl"}
    Owner = "ui"
    Sources = {"WAV"}
    Configs <- MCConfigs
    Block <- MCBlock
    MaxDspCycles = 2
    MaxTasks = 2
    TickCap = 3
    MaxParam = 4
    Doubles <- MCDoubles
    Phase1 <- MCPhase1
    Phase2 <- MCPhase2
    BlockSizes <- MCTwoBlocks
    TableAlgs <- MCTableAlgs
    Tables = 2
    MayAbort = FALSE
    Prompt = TRUE
INVARIANTS TestsTypeOK RowsFaithful WithinMaxCycles OnlyKnownThrows TasksHeld
PROPERTIES AllStored CleanEnd ConfiguredAtRest
CHECK_DEADLOCK FALSE
