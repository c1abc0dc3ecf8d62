----------------------------- MODULE MCEvidence -----------------------------
(***************************************************************************)
(* A small instance of each component that records, keeps or passes on     *)
(* evidence, for TLC: capture, the audit chain, retention, reconciliation, *)
(* the SIEM stream and alerts.  The components share no state that their    *)
(* properties read, so a behaviour works on one of them: its focus.         *)
(***************************************************************************)
EXTENDS AuditChain, Ingest, Retention, Recovery, SIEM, Alerts, TLC

VARIABLE focus

CONSTANT j1, j2, ch

MCActors == {[id |-> r, role |-> r, scopes |-> {}] : r \in {"owner", "admin"}}

\* A policy of every source or of source a; a body of a, in the
\* object store, and one of b, which is not.
MCPolicyKeys == {[type |-> "raw_payload", source |-> s] : s \in {"", "a"}}
MCBodies ==
    {[id |-> 1, type |-> "raw_payload", source |-> "a", object |-> TRUE],
     [id |-> 2, type |-> "raw_payload", source |-> "b", object |-> FALSE]}

\* An object the provider failed to deliver, with its payload.
MCObjects == <<[id |-> 1, failed |-> TRUE, payload |-> TRUE]>>
MCFailures == SelectSeq(MCObjects, LAMBDA o : o.failed)
MCJobKinds ==
    {[capture |-> TRUE, route |-> TRUE, redeliver |-> FALSE, scope |-> Unscoped],
     [capture |-> TRUE, route |-> FALSE, redeliver |-> TRUE, scope |-> Unscoped]}

\* Nothing tells one session (or worker: they are the same) or one job from another.
EvidenceSymmetry == Permutations(Sessions) \cup Permutations(Jobs)

Foci == {"audit", "ingest", "retention", "recovery", "siem", "sink", "firing", "notification"}

EvidenceInit ==
    /\ focus \in Foci
    /\ Init /\ IngestInit /\ RetentionInit /\ RecoveryInit /\ SIEMInit /\ AlertInit
    /\ conn.source
    /\ conn.provider \in IF focus = "recovery" THEN {"stripe", "github", "slack"} ELSE {"slack"}

chainVars == vars

OnChain ==
    /\ focus = "audit" /\ Next
    /\ UNCHANGED <<ingestVars, retentionVars, recoveryVars, siemVars, alertVars>>

OnIngest ==
    /\ focus = "ingest" /\ IngestNext
    /\ UNCHANGED <<chainVars, retentionVars, recoveryVars, siemVars, alertVars>>

\* Workers pass over one policy, which may be given the other source; while they
\* rest, an update may find that source taken by a second one.  A disabled policy
\* is off whether it is on hold or not.
OnRetention ==
    /\ focus = "retention" /\ RetentionNext
    /\ \A k \in PolicyKeys : rpolicy'[k].hold => rpolicy'[k].state = "active"
    /\ poltx' # Idle /\ poltx'.new.hold => poltx'.new.state = "active"
    /\ Len(byUpdate') > 1 => \A w \in Sessions : pass'[w] = Resting
    /\ UNCHANGED <<chainVars, ingestVars, recoveryVars, siemVars, alertVars>>

\* Jobs at Stripe, which redelivers nothing, all route what they recover; its
\* connection may be revoked and its jobs canceled.  GitHub has a job of each kind.
OnRecovery ==
    /\ focus = "recovery" /\ RecoveryNext
    /\ conn.provider # "github" => {j \in Jobs : job'[j] # NoJob /\ ~job'[j].route} = {}
    /\ conn.provider = "github" =>
         \A i, j \in Jobs : i # j /\ job'[i] # NoJob /\ job'[j] # NoJob => job'[i].route # job'[j].route
    /\ conn'.state = "revoked" \/ (\E w \in Sessions : runner'[w].at = "cancel") => conn.provider = "stripe"
    /\ UNCHANGED <<chainVars, ingestVars, retentionVars, siemVars, alertVars>>

\* Overlapping batches of a sink that stays active; a sink that is changed and
\* tested, with one delivery, while its first entry is shipped.
OnSIEM ==
    /\ \/ focus = "siem" /\ SIEMNext /\ sinktx' = "none" /\ sink' # "disabled"
                                   /\ \A d \in DOMAIN batch' : batch'[d].from > 0
       \/ focus = "sink" /\ SIEMNext /\ chained' <= 1 /\ Len(batch') <= 1
    /\ UNCHANGED <<chainVars, ingestVars, retentionVars, recoveryVars, alertVars>>

\* Nobody is in the middle of a change when the rule fires again.
OnAlert ==
    /\ \/ focus = "firing" /\ FiringNext /\ (Len(firing') > 1 => alertTx' = Idle)
       \/ focus = "notification" /\ NotificationNext
    /\ UNCHANGED <<chainVars, ingestVars, retentionVars, recoveryVars, siemVars>>

EvidenceNext ==
    /\ OnChain \/ OnIngest \/ OnRetention \/ OnRecovery \/ OnSIEM \/ OnAlert
    /\ UNCHANGED focus

EvidenceSpec ==
    /\ EvidenceInit
    /\ [][EvidenceNext]_<<focus, chainVars, ingestVars, retentionVars, recoveryVars, siemVars, alertVars>>

\* Every component's rows and transactions stay within the states the code and
\* the CHECK constraints of the tables know.
EvidenceTypeOK ==
    TypeOK /\ IngestTypeOK /\ RetentionTypeOK /\ RecoveryTypeOK /\ SIEMTypeOK /\ AlertTypeOK
=============================================================================
