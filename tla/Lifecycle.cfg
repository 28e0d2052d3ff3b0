SPECIFICATION FairSpec
CONSTANTS
    Operations <- AllOperations
    MaxUpdates = 2
    MaxGenerations = 3
    MaxSaves = 2
    MaxBotRestarts = 1
INVARIANTS
    TypeOK
    DeafOnlyAfterRewind
    AckedMeansSeen
    DiskIsCurrent
    NoStuckPoll
PROPERTIES
    EveryUpdateSeen
