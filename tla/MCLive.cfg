SPECIFICATION LiveSpec
CONSTANTS
    Clients = {"ui"}
    Owner = "ui"
    Sources = {"WAV", "MIC"}
    Configs = {8, 16}
    Block <- MCBlock
    MaxDspCycles = 0
    MaxTasks = 1
    TickCap = 2
INVARIANTS ToggleNeverCrashes RunsUntilStopped
PROPERTIES ParkedStopKills Plays
CHECK_DEADLOCK FALSE
