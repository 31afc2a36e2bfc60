SPECIFICATION StoreSpec
CONSTANTS
    Modes = {"single_link_wifi", "redundant"}
    Sessions = {s1, s2}
    Packets = {p1, p2}
    Emulations = {clean}
    Reports <- MCReports
    MaxSwitchEvents = 1
    Counts <- MCCounts
    MaxOverflows = 1
    MaxReceived = 3
    MemWindow = 1
INVARIANTS StoreTypeOK DiscardedIsSaved RunAccount BucketsPartitionTraffic
SYMMETRY PacketSymmetry
