SPECIFICATION Spec
CONSTANTS
    Modes = {"single_link_wifi", "adaptive", "redundant"}
    InitialMode = "redundant"
    MaxSession = 1
    Window = 1
    RttScores = {20, 100}
    WRtt = 35
    WAvail = 65
    Hysteresis = 1500
    WinStreak = 1
    HoldTime = 1
    FailoverFailures = 2
PROPERTY SingleModeUsesOneLink
