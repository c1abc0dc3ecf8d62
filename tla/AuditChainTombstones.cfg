SPECIFICATION Spec
CONSTANTS
    Legacy = {1}
    Operations = {}
    Retentions = {2}
    Anchorings = {}
    Workers = {w1}
    Nobody = Nobody
    BatchLimit = 1
    RetentionLimit = 1
    MaxRollbacks = 1
INVARIANTS
    TombstonedBeforeDeleted
CHECK_DEADLOCK FALSE
