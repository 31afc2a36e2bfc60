SPECIFICATION Spec
CONSTANTS
    Modes = {"single_link_wifi", "redundant"}
    InitialMode = "redundant"
    Sessions = {0, 1}
    MaxSession = 1
    UsedLinks = {"wifi"}
    Packets = {1}
    Emulations = {clean}
    Reports <- MCReports
    Counts <- MCCounts
    MaxSwitchEvents = 0
    MaxOverflows = 1
    MaxReceived = 2
    MemWindow = 1
    MaxWire = 2
    MaxCounters = 0
    MaxFaults = 0
INVARIANT OwnPacketsOnly
