SPECIFICATION TestsSpec
CONSTANTS
    Clients = {"ui", "ctl"}
    Owner = "ui"
    Sources = {"WAV"}
    Configs <- MCConfigs
    Block <- MCBlock
    MaxDspCycles = 1
    MaxTasks = 1
    TickCap = 2
    MaxParam = 4
    Doubles <- MCDoubles
    Phase1 <- MCPhase1
    Phase2 <- MCTableOnly
    BlockSizes <- MCOneBlock
    TableAlgs <- MCTableAlgs
    Tables = 2
    MayAbort = TRUE
    Prompt = FALSE
INVARIANTS Handshake RowsInOrder
PROPERTY ImplementsPlan
VIEW MCView
CHECK_DEADLOCK FALSE
