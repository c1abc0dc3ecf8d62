SPECIFICATION Spec
CONSTANTS
    d1 = d1
    d2 = d2
    e1 = e1
    t1 = t1
    t2 = t2
    p1 = p1
    Deliveries = {d1}
    Endpoints = {e1}
    EndpointOf <- MCEndpointOf
    Tenants = {t1, t2}
    TenantOf <- MCTenantOf
    ReplayDeliveries = {}
    Policies = {p1}
    PolicyOf <- MCPolicyOf
    NoPolicy = NoPolicy
    Workers = {w1, w2}
    NoWorker = NoWorker
    NoDelivery = NoDelivery
    MaxAttempts = 2
    BatchLimit = 2
    CircuitThreshold = 2
    Budget <- StallBudget
INVARIANTS
    AttemptRecordingIdempotent
CHECK_DEADLOCK FALSE
