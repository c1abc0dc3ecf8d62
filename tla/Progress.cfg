SPECIFICATION ProgressSpec
CONSTANTS
    Actors <- MCActors
    Sessions = {s1}
    Legacy = {1, 2}
    Operations = {3}
    Retentions = {4}
    Anchorings = {}
    Workers = {w1, w2}
    Nobody = Nobody
    BatchLimit = 1
    RetentionLimit = 1
    MaxRollbacks = 1
    PolicyKeys <- MCPolicyKeys
    Bodies <- MCBodies
    PassLimit = 2
    Channels = {}
    MaxSignalAttempts = 1
    RuleComparators = {">="}
    Threshold = 1
    MetricValues = {0, 1}
    Window = 0
    MaxFirings = 2
PROPERTIES
    ChainCatchesUp
    EveryTransactionEnds
    EveryDueBodyRetired
    
CHECK_DEADLOCK FALSE
