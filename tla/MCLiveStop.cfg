SPECIFICATION LiveSpec
CONSTANTS
    Clients = {"ui"}
    Owner = "ui"
    Sources = {"WAV", "MIC"}
    Configs = {16, 32}
    Block <- MCBlock
    MaxDspCycles = 0
    MaxTasks = 1
    TickCap = 2

PROPERTY StopKills
CHECK_DEADLOCK FALSE
