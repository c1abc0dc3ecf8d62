----------------------------- MODULE MCProgress -----------------------------
(***************************************************************************)
(* Small instances of the components whose progress is checked beside that *)
(* of deliveries and of fan-out: the audit chain, retention and alerts.    *)
(* They share no state, so a behaviour works on one of them: its focus.    *)
(***************************************************************************)
EXTENDS AuditChain, Retention, Alerts

VARIABLE focus

MCActors == {[id |-> r, role |-> r, scopes |-> {}] : r \in {"owner", "admin"}}

\* A policy of each of two types, and a body of each, one of them not in the
\* object store.
MCPolicyKeys == {[type |-> t, source |-> ""] : t \in {"raw_payload", "delivery_payload"}}
MCBodies ==
    {[id |-> 1, type |-> "raw_payload", source |-> "a", object |-> TRUE],
     [id |-> 2, type |-> "delivery_payload", source |-> "a", object |-> FALSE]}

progressVars == <<focus, vars, retentionVars, alertVars>>

ProgressInit ==
    /\ focus \in {"audit", "retention", "firing"}
    /\ Init /\ RetentionInit /\ AlertInit

\* A disabled policy is off whether it is on hold or not.
OnRetention ==
    /\ focus = "retention" /\ RetentionSteps
    /\ \A k \in PolicyKeys : rpolicy'[k].hold => rpolicy'[k].state = "active"
    /\ poltx' # Idle /\ poltx'.new.hold => poltx'.new.state = "active"
    /\ UNCHANGED <<vars, alertVars>>

ProgressNext ==
    /\ \/ focus = "audit" /\ Next /\ UNCHANGED <<retentionVars, alertVars>>
       \/ OnRetention
       \/ focus = "firing" /\ FiringSteps /\ UNCHANGED <<vars, retentionVars>>
    /\ UNCHANGED focus

\* The fairness of FairSpec, RetentionFairSpec and FiringFairSpec, each of the
\* component in focus.
ProgressFairness ==
    /\ \A t \in Txs : WF_vars(focus = "audit" /\ Proceed(t))
    /\ \A t \in Txs : SF_vars(focus = "audit" /\ LockHead(t))
    /\ \A w \in Workers : WF_vars(focus = "audit" /\ AcquireLease(w))
    /\ WF_vars(focus = "audit" /\ LeaseExpires)
    /\ \A w \in Sessions : WF_retentionVars(focus = "retention" /\ RunSteps(w))
    /\ \A w \in Sessions : WF_alertVars(focus = "firing" /\ Evaluates(w))

ProgressSpec == ProgressInit /\ [][ProgressNext]_progressVars /\ ProgressFairness

\* Where the chain is at work, every event that was stored before the chain
\* existed, or recorded since, is chained or deleted (backfillAuditChain).
ChainCatchesUp == focus = "audit" => EveryEventChained
=============================================================================
