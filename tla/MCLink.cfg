SPECIFICATION FairSpec
CONSTANTS
    Modes = {"single_link_wifi", "single_link_lte", "adaptive", "redundant"}
    InitialMode = "adaptive"
    MaxSession = 2
    Window = 2
    RttScores = {20, 100}
    WRtt = 35
    WAvail = 65
    Hysteresis = 1500
    WinStreak = 3
    HoldTime = 3
    FailoverFailures = 2
INVARIANTS TypeOK KernelWithinRecord ReasonFitsMode
PROPERTIES LinkChosenWhenAnyUp ImplementsService NoFlapping AdaptiveConverges
