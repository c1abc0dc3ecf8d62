SPECIFICATION ControlSpec
CONSTANTS
    Actors <- MCActors
    Sessions = {s1, s2}
    Rows = {1, 2, 3, 4}
    TenantIds = {1, 2}
    Classes = {0, 1}
    MaxTime = 1
    Limits = {1, 2}
    MaxConfigVersion = 3
    MaxTransformationVersion = 2
    MaxRouteVersion = 2
    PolicyNames = {"p", "q"}
    Delays = {1, 2}
    MaxPolicies = 2
    SchemaVersions = {0, 3}
    MaxSchemaChanges = 3
    MaxProducerSecrets = 3
    MaxProducerTokens = 2
    MaxLogins = 2
    MaxBindings = 2
    MaxRules = 2
    MaxAdapterVersions = 2
    MaxReviews = 4
    l1 = l1
    l2 = l2
    DeadLetterEntries = {l1, l2}
    Governs <- MCGoverns
    MaxReplays = 3
    MaxLog = 3
    MaxStamp = 2
    MaxExports = 1
    IncidentEvents = {i1}
SYMMETRY SessionSymmetry
INVARIANTS
    ControlTypeOK
    ClaimsExactlyFair
    VersionsInStep
    RoutesReproducible
    CatalogVersioned
    
    
    ActiveWasReviewed
    ReleasedOnce
    GatedIffGoverned
    
PROPERTIES
    RotationOverlaps
CHECK_DEADLOCK FALSE
