------------------------- MODULE DeliveryScenarios --------------------------
(* Three scenarios of Delivery in one state space: the disruptions that    *)
(* take rows from workers, by a stall or by a crash, or those that change  *)
(* what rows depend on.                                                    *)
EXTENDS MCDelivery

With(b) == INSTANCE Delivery WITH Budget <- b

ScenarioInit == \E b \in {TakeoverBudget, CrashBudget, ConfigBudget} : With(b)!Init

ScenarioSpec == ScenarioInit /\ [][Next]_vars
=============================================================================
