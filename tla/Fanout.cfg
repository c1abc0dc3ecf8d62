SPECIFICATION ScenarioSpec
CONSTANTS
    e1 = e1
    e2 = e2
    j1 = j1
    a = a
    b = b
    u1 = u1
    u2 = u2
    t1 = t1
    t2 = t2
    Events = {e1, e2}
    Unverified = {e2}
    Recovered = {}
    Jobs = {j1}
    EventOf <- MCEventOf
    Targets = {a, b}
    Users = {u1, u2}
    NoUser = NoUser
    Tenants = {t1, t2}
    TenantOf <- MCTenantOf
    Workers = {w1, w2}
    NoItem = NoItem
    BatchLimit = 2
    Budget <- FaultBudget
INVARIANTS
    ReplayNeedsApproval
    ReplayFansOutOnce
    DuplicatesNeedReclaim
    CompletedMeansRouted
PROPERTIES
    EventsGetRouted
    ReplaysFinish
CHECK_DEADLOCK FALSE
