SPECIFICATION FairSpec
CONSTANTS
    Modes = {"single_link_wifi", "redundant"}
    InitialMode = "single_link_wifi"
    MaxSession = 2
    MaxMessages = 3
    StatusMessages = {2}
    MaxFaults = 2
INVARIANTS TypeOK NoLostWakeup NoMessageLost CountersBracketAccepted
PROPERTIES ImplementsHandOver Drains
CHECK_DEADLOCK TRUE
