------------------------------ MODULE MCFanout ------------------------------
(* Small instances of Fanout for TLC.                                      *)
EXTENDS Fanout

CONSTANTS e1, e2, j1, a, b, u1, u2, t1, t2

\* e1 is verified and e2 is not.
MCEventOf == [j \in Jobs |-> e1]
MCTenantOf == [i \in Items |-> IF i = e2 THEN t2 ELSE t1]

Only(kinds) == [k \in Disruptions |-> IF k \in kinds THEN 1 ELSE 0]

\* One of everything that takes an outbox row from a worker.
FaultBudget == Only({"crash", "stall", "error"})
\* A lapsed lease, and time to pause and resume.
ResumeBudget == [Only({"stall", "operator"}) EXCEPT !["operator"] = 2]
CrashBudget == Only({"crash"})
=============================================================================
