SPECIFICATION FairSpec
CONSTANTS
    e1 = e1
    e2 = e2
    j1 = j1
    a = a
    b = b
    u1 = u1
    u2 = u2
    t1 = t1
    t2 = t2
    Events = {e1}
    Unverified = {}
    Recovered = {}
    Jobs = {j1}
    EventOf <- MCEventOf
    Targets = {a}
    Users = {u1, u2}
    NoUser = NoUser
    Tenants = {t1, t2}
    TenantOf <- MCTenantOf
    Workers = {w1}
    NoItem = NoItem
    BatchLimit = 1
    Budget <- CrashBudget
PROPERTIES
    ReplaysFinish
CHECK_DEADLOCK FALSE
