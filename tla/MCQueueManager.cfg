SPECIFICATION FairSpec
CONSTANTS
    MaxSize = 4
    MaxAccepted = 8
    MaxDropped = 2
INVARIANTS TypeOK PausedOnlyUnderBacklog TelemetryCap UnfinishedAccount
PROPERTY CollectionResumes
CHECK_DEADLOCK FALSE
