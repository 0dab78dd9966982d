SPECIFICATION Spec
CONSTANTS
    Clients = {"ui", "ctl"}
    Owner = "ui"
    Sources = {"WAV", "MIC"}
    Configs = {16, 32}
    Block <- MCBlock
    MaxDspCycles = 1
    MaxTasks = 1
    TickCap = 1
INVARIANTS TypeOK ParkedStopReleases CallbackAfterSetup
CHECK_DEADLOCK FALSE
