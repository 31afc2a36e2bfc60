SPECIFICATION FairSpec
CONSTANTS
    MaxConns = 3
    MaxStalls = 1
    MaxReports = 2
    MaxCommands = 2
INVARIANTS TypeOK NoOrphan
PROPERTIES ReportsInOrder CommandsInOrder CommandsAnswered Reconnected
CHECK_DEADLOCK FALSE
