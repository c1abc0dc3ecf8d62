SPECIFICATION SIEMFairSpec
CONSTANTS
    Actors <- MCActors
    Sessions = {s1}
    MaxSignalAttempts = 2
    SinkBatch = 1
    MaxEntries = 1
    MaxBatches = 2
    MaxTests = 0
PROPERTIES
    EveryEntryShipped
CHECK_DEADLOCK FALSE
