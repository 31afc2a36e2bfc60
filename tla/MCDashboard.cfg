SPECIFICATION FairSpec
CONSTANTS
    MaxSession = 2
    MaxRows <- MCMaxRows
    MaxBreaks = 1
    MaxLoads = 1
    SnapshotRows = 1
    LoadRows = 2
    BufferRows = 3
 
PROPERTY ViewConverges
CHECK_DEADLOCK FALSE
