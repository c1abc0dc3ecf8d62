------------------------------ MODULE Retention ------------------------------
(***************************************************************************)
(* Retention policies and the workers' retention passes                    *)
(* (internal/adapters/postgres/store.go: ApplyRetentionPolicies and what it *)
(* calls).  A pass lists the active policies that are not on hold, then    *)
(* applies each in a transaction of its own; bodies in the object store    *)
(* are deleted one by one while that transaction is still open.            *)
(***************************************************************************)
EXTENDS ControlPlane

CONSTANTS PolicyKeys,   \* the (type, source) a policy may have; source "" is every source
          Bodies,       \* the stored bodies [id, type, source, object]
          PassLimit     \* policies one pass applies

ASSUME RetentionAssumption ==
  /\ PassLimit \in Nat \ {0}
  /\ \A k \in PolicyKeys :
       k.type \in {"raw_payload", "normalized_envelope_data", "delivery_payload", "provider_api_evidence"}

VARIABLES
  rpolicy,    \* key -> "none" or [state, hold]
  byUpdate,   \* the keys of the policies, the least recently updated first
  due,        \* bodies older than the policies' cutoff
  kept,       \* bodies whose row says "stored"
  inStore,    \* bodies whose object is in the object store
  recorded,   \* body -> number of retention_run_items
  pass,       \* worker -> its pass
  poltx,      \* the update of a policy in progress
  applicable  \* keys that were ever active and not on hold (history)

retentionVars == <<rpolicy, byUpdate, due, kept, inStore, recorded, pass, poltx, applicable>>

NoPolicy == [state |-> "none", hold |-> FALSE]

RetentionTypeOK ==
  /\ rpolicy \in [PolicyKeys -> [state : ActiveOrDisabled, hold : BOOLEAN] \cup {NoPolicy}]
  /\ byUpdate \in Seq(PolicyKeys)
  /\ \A S \in {due, kept, inStore} : S \subseteq Bodies
  /\ recorded \in [Bodies -> Nat]
  /\ \A w \in Sessions : pass[w].list \in Seq(PolicyKeys) /\ pass[w].rows \subseteq Bodies
  /\ applicable \subseteq PolicyKeys

Resting == [running |-> FALSE, list |-> <<>>, rows |-> {}, left |-> {}]

RetentionInit ==
  /\ rpolicy = [k \in PolicyKeys |-> NoPolicy] /\ byUpdate = <<>>
  /\ due = {} /\ kept = Bodies /\ inStore = {b \in Bodies : b.object}
  /\ recorded = [b \in Bodies |-> 0]
  /\ pass = [w \in Sessions |-> Resting] /\ poltx = Idle
  /\ applicable = {}

Applies(p) == p.state = "active" /\ ~p.hold

-----------------------------------------------------------------------------
ValidateRetentionPolicyInput(q) ==
  q.type # "other" /\ q.days \in 1..3650 /\ q.state \in ActiveOrDisabled

CreateRetentionPolicyRequests ==
  {q \in [type : {"raw_payload", "other"}, days : {0, 1, 3650, 3651}, state : ActiveOrDisabled \cup {"other"},
          hold : BOOLEAN, holdReason : BOOLEAN] :
     Allowed("security:write") /\ ValidateRetentionPolicyInput(q) /\ (q.hold => q.holdReason)}

UpdateRetentionPolicyRequests ==
  {q \in [days : {-1, 0, 1, 3651}, state : ActiveOrDisabled \cup {"", "other"}, hold : {"", "set", "clear"}, holdReason : BOOLEAN] :
     /\ Allowed("security:write") /\ (q.days = -1 \/ q.days \in 1..3650) /\ q.state # "other"
     /\ q.hold = "set" => q.holdReason}

NewPolicies == {[state |-> q.state, hold |-> q.hold] : q \in CreateRetentionPolicyRequests}
PolicyUpdates == {[state |-> q.state, hold |-> q.hold] : q \in UpdateRetentionPolicyRequests}

(* The policy with key old becomes p with key k. *)
WritePolicy(old, k, p) ==
  /\ rpolicy' = [rpolicy EXCEPT ![old] = NoPolicy, ![k] = p]
  /\ byUpdate' = Append(SelectSeq(byUpdate, LAMBDA x : x \notin {old, k}), k)
  /\ applicable' = IF Applies(p) THEN applicable \cup {k} ELSE applicable

(* INSERT ... ON CONFLICT DO UPDATE. *)
CreateRetentionPolicy ==
  /\ \E k \in PolicyKeys, p \in NewPolicies : WritePolicy(k, k, p)
  /\ UNCHANGED <<due, kept, inStore, recorded, pass, poltx>>

(* The row is read, and written back whole by a later statement; the       *)
(* update may give it another source.                                      *)
UpdateRetentionPolicy ==
  /\ poltx = Idle
  /\ \E k, to \in PolicyKeys, q \in PolicyUpdates :
       /\ rpolicy[k] # NoPolicy /\ to.type = k.type
       /\ poltx' = [at |-> "update", key |-> k, to |-> to,
                    new |-> [state |-> NewState(q, rpolicy[k].state),
                             hold |-> IF q.hold = "" THEN rpolicy[k].hold ELSE q.hold = "set"]]
  /\ UNCHANGED <<rpolicy, byUpdate, due, kept, inStore, recorded, pass, applicable>>

(* Refused when another policy has the new key, or the row has moved. *)
WriteRetentionPolicy ==
  /\ poltx # Idle
  /\ IF rpolicy[poltx.key] # NoPolicy /\ (poltx.to = poltx.key \/ rpolicy[poltx.to] = NoPolicy)
     THEN WritePolicy(poltx.key, poltx.to, poltx.new)
     ELSE UNCHANGED <<rpolicy, byUpdate, applicable>>
  /\ poltx' = Idle
  /\ UNCHANGED <<due, kept, inStore, recorded, pass>>

BodyComesDue ==
  /\ \E b \in Bodies \ due : due' = due \cup {b}
  /\ UNCHANGED <<rpolicy, byUpdate, kept, inStore, recorded, pass, poltx, applicable>>

-----------------------------------------------------------------------------
(* The rows a policy of each type selects; provider API evidence has no    *)
(* source to select by.                                                    *)
OfSource(k, b) == k.source \in {"", b.source}

RawPayloadCandidates_AnySource(k) == {b \in due \cap kept : b.type = "raw_payload"}

RawPayloadCandidates(k) == {b \in due \cap kept : b.type = "raw_payload" /\ OfSource(k, b)}

NormalizedEnvelopeCandidates(k) == {b \in due \cap kept : b.type = "normalized_envelope_data" /\ OfSource(k, b)}

DeliveryPayloadCandidates_WithObject(k) ==
  {b \in due \cap kept : b.type = "delivery_payload" /\ OfSource(k, b) /\ b.object}

DeliveryPayloadCandidates(k) == {b \in due \cap kept : b.type = "delivery_payload" /\ OfSource(k, b)}

ProviderAPIEvidenceCandidates(k) == {b \in due \cap kept : b.type = "provider_api_evidence"}

Candidates(k) ==
  CASE k.type = "raw_payload" -> RawPayloadCandidates(k)
    [] k.type = "normalized_envelope_data" -> NormalizedEnvelopeCandidates(k)
    [] k.type = "delivery_payload" -> DeliveryPayloadCandidates(k)
    [] k.type = "provider_api_evidence" -> ProviderAPIEvidenceCandidates(k)

UpdatedBefore(k, l) == \E i, j \in DOMAIN byUpdate : i < j /\ byUpdate[i] = k /\ byUpdate[j] = l

(* ORDER BY updated_at LIMIT: a run does not touch updated_at. *)
ListPolicies(w) ==
  /\ pass[w] = Resting
  /\ LET listed == {k \in PolicyKeys : Applies(rpolicy[k])}
     IN \E n \in 1..PassLimit : \E list \in [1..n -> listed] :
          /\ \A i, j \in 1..n : i < j => UpdatedBefore(list[i], list[j])
          /\ \A k \in listed : (\A i \in 1..n : list[i] # k) => n = PassLimit /\ UpdatedBefore(list[n], k)
          /\ pass' = [pass EXCEPT ![w].list = list]
  /\ UNCHANGED <<rpolicy, byUpdate, due, kept, inStore, recorded, poltx, applicable>>

BeginRun(w) ==
  /\ pass[w].list # <<>> /\ ~pass[w].running
  /\ LET rows == Candidates(Head(pass[w].list))
     IN pass' = [pass EXCEPT ![w].running = TRUE, ![w].rows = rows, ![w].left = {b \in rows : b.object}]
  /\ UNCHANGED <<rpolicy, byUpdate, due, kept, inStore, recorded, poltx, applicable>>

(* An object that is not there any more counts as deleted. *)
DeleteObject(w) ==
  /\ \E b \in pass[w].left :
       /\ inStore' = inStore \ {b}
       /\ pass' = [pass EXCEPT ![w].left = @ \ {b}]
  /\ UNCHANGED <<rpolicy, byUpdate, due, kept, recorded, poltx, applicable>>

(* The rows, their items, the completed run and its audit event. *)
CommitRun(w) ==
  /\ pass[w].running /\ pass[w].left = {}
  /\ kept' = kept \ pass[w].rows
  /\ recorded' = [b \in Bodies |-> IF b \in pass[w].rows THEN recorded[b] + 1 ELSE recorded[b]]
  /\ pass' = [pass EXCEPT ![w] = [Resting EXCEPT !.list = Tail(pass[w].list)]]
  /\ UNCHANGED <<rpolicy, byUpdate, due, inStore, poltx, applicable>>

(* Anything that fails rolls the run back, its "failed" mark included, and *)
(* ends the pass; so does a crash.  Deleted objects stay deleted.          *)
RunFails(w) ==
  /\ pass[w] # Resting
  /\ pass' = [pass EXCEPT ![w] = Resting]
  /\ UNCHANGED <<rpolicy, byUpdate, due, kept, inStore, recorded, poltx, applicable>>

RunSteps(w) == ListPolicies(w) \/ BeginRun(w) \/ DeleteObject(w) \/ CommitRun(w)

RetentionSteps ==
  \/ CreateRetentionPolicy \/ UpdateRetentionPolicy \/ WriteRetentionPolicy \/ BodyComesDue
  \/ \E w \in Sessions : RunSteps(w)

RetentionNext == RetentionSteps \/ \E w \in Sessions : RunFails(w)

RetentionSpec == RetentionInit /\ [][RetentionNext]_retentionVars

(* A worker without faults keeps taking passes. *)
RetentionFairSpec ==
  /\ RetentionInit
  /\ [][RetentionSteps]_retentionVars
  /\ \A w \in Sessions : WF_retentionVars(RunSteps(w))

-----------------------------------------------------------------------------
(* The read of a body: the row's status first, then the object. *)
ReadBody(b) == IF b \in kept /\ (b.object => b \in inStore) THEN "body" ELSE "gone"

Covers(k, b) == k.type = b.type /\ (b.type = "provider_api_evidence" \/ OfSource(k, b))

(* However passes, failures and policy changes interleave, a body that     *)
(* reads as gone was due under a policy of its type and source that had    *)
(* been active and not on hold: failing half-way loses no other body.  And *)
(* the rows marked deleted are exactly those that a completed run recorded *)
(* an item for, whichever worker's transaction failed in between.          *)
GoneWasDue ==
  \A b \in Bodies :
    /\ ReadBody(b) = "gone" => b \in due /\ \E k \in applicable : Covers(k, b)
    /\ b \in kept <=> recorded[b] = 0

(* docs/feature-behavior.md: the worker applies retention policies.  Once  *)
(* nobody changes a policy any more, while workers keep taking passes, a   *)
(* due body is gone at last when an active policy not on hold covers it.   *)
EveryDueBodyRetired ==
  \A k \in PolicyKeys, b \in Bodies :
    Covers(k, b) =>
      (<>[][FALSE]_byUpdate /\ <>[](Applies(rpolicy[k]) /\ b \in due) => <>(ReadBody(b) = "gone"))
=============================================================================
