----------------------------- MODULE MCDelivery -----------------------------
(***************************************************************************)
(* Small instances of Delivery for TLC.                                    *)
(***************************************************************************)
EXTENDS Delivery, TLC

CONSTANTS d1, d2, e1, t1, t2, p1

\* d1 is live and uses the retry policy p1; d2, a replay where the .cfg says
\* so, has the default policy.  They belong to different tenants.
MCEndpointOf == [d \in Deliveries |-> e1]
MCTenantOf == [d \in Deliveries |-> IF d = d1 THEN t1 ELSE t2]
MCPolicyOf == [d \in Deliveries |-> IF d = d1 THEN p1 ELSE NoPolicy]

\* Nothing tells one worker from another.
WorkerSymmetry == Permutations(Workers)

Only(kinds) == [k \in Disruptions |-> IF k \in kinds THEN 1 ELSE 0]

\* A worker that is too slow, and an operator: both take a row from it.
TakeoverBudget == Only({"stall", "operator"})
\* A worker that dies, and an operator.
CrashBudget == Only({"crash", "operator"})
\* One of everything that changes what a row depends on.
ConfigBudget == Only({"operator", "endpoint", "policy", "retention"})
\* Disruptions from which every delivery recovers.
RecoverableBudget == Only({"crash", "stall", "endpoint"})
PolicyBudget == Only({"policy"})
StallBudget == Only({"stall"})
=============================================================================
