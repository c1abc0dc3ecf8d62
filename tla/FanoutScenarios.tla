-------------------------- MODULE FanoutScenarios ---------------------------
(* Two scenarios of Fanout in one state space.  In "events" two events to  *)
(* two targets meet a stall and a crash or an error, which drop a batch     *)
(* alike, and nothing is replayed; in "replay" one event and a job that     *)
(* replays it, with one target, meet operators and a stall.  Users are      *)
(* interchangeable, so u1 creates the job.                                  *)
EXTENDS MCFanout

VARIABLE scenario

Scenarios == {"events", "replay"}
Absent == [events |-> {j1}, replay |-> {e2}]
Matching == [events |-> Targets, replay |-> {a}]
BudgetIn == [events |-> FaultBudget, replay |-> ResumeBudget]

With(budgets) == INSTANCE Fanout WITH Budget <- budgets

ScenarioInit ==
    \E s \in Scenarios : scenario = s /\ With(BudgetIn[s])!Init

ScenarioNext ==
    /\ Next
    /\ \A i \in Absent[scenario] : row'[i] = "absent"
    /\ scenario = "events" => job' = job /\ budget'["crash"] + budget'["error"] >= 1
    /\ createdBy'[j1] # u2
    /\ \A w \in Workers : \A x \in todo'[w] : x[1] \in Matching[scenario]
    /\ UNCHANGED scenario

ScenarioSpec == ScenarioInit /\ [][ScenarioNext]_<<vars, scenario>> /\ Fairness
=============================================================================
