SPECIFICATION EvidenceSpec
CONSTANTS
    Actors <- MCActors
    Sessions = {s1, s2}
    Legacy = {1}
    Operations = {2}
    Retentions = {3, 4}
    Anchorings = {5}
    Workers = {s1, s2}
    Nobody = Nobody
    BatchLimit = 1
    RetentionLimit = 2
    MaxRollbacks = 1
    MaxCaptures = 2
    MaxReleases = 2
    PolicyKeys <- MCPolicyKeys
    Bodies <- MCBodies
    PassLimit = 1
    j1 = j1
    j2 = j2
    ch = ch
    Jobs = {j1, j2}
    Objects <- MCObjects
    Failures <- MCFailures
    JobKinds <- MCJobKinds
    ScanPage = 1
    MaxSignalAttempts = 2
    SinkBatch = 2
    MaxEntries = 2
    MaxBatches = 2
    MaxTests = 1
    Channels = {ch}
    RuleComparators = {">="}
    Threshold = 1
    MetricValues = {0, 1}
    Window = 0
    MaxFirings = 2
SYMMETRY EvidenceSymmetry
INVARIANTS
    EvidenceTypeOK
    ChainSound
    LiveEventsEvidenced
    AnsweredIsDurable
    RoutedOncePerKey
    GoneWasDue
    RecoveredOnce
    
    AlertsConsistent
PROPERTIES
    RefusedOnlyForLegacy
    ShipsTheLog
    TransitionsNotified
CHECK_DEADLOCK FALSE
