SPECIFICATION ExportSpec
CONSTANTS
    Actors <- MCActors
    Sessions = {s1}
    MaxLog = 2
    MaxStamp = 2
    MaxExports = 1
    IncidentEvents = {}
INVARIANTS
    IntactChainExports
CHECK_DEADLOCK FALSE
