------------------------------- MODULE Catalog -------------------------------
(***************************************************************************)
(* Retry policies, event types and event schemas (internal/app/control.go, *)
(* internal/adapters/postgres/store.go).  A retry policy is never changed  *)
(* in place: an update inserts a new row under the next version of its     *)
(* name, which it reads before it inserts, so updates of two policies that *)
(* take the same name race for a version; UNIQUE (tenant, name, version)   *)
(* decides.  A schema's state changes are numbered in config_versions from *)
(* the number its version string spells.                                   *)
(***************************************************************************)
EXTENDS ControlPlane

CONSTANTS PolicyNames,        \* names of retry policies
          Delays,             \* values of initial and maximum delays
          MaxPolicies,        \* bound on retry_policies rows
          SchemaVersions,     \* version strings: 0 is one that is no number
          MaxSchemaChanges    \* bound on the changes of a schema

VARIABLES
  policies,     \* set of rows [id, name, ver, state, initial, max]
  ptx,          \* session -> the policy write in progress
  eventType,    \* "none" or the state of an event type
  schema        \* None, or [state, config, changes] of an event schema

catalogVars == <<policies, ptx, eventType, schema>>

NoSchema == [state |-> "none", config |-> {}, changes |-> 0]

SchemaStates == {"active", "deprecated", "retired"}

CatalogTypeOK ==
  /\ policies \subseteq [id : Nat, name : PolicyNames, ver : Nat, state : ActiveOrDisabled,
                         initial : Delays, max : Delays]
  /\ \A s \in Sessions : ptx[s].at \in {"idle", "locked", "numbered"}
  /\ eventType \in ActiveOrDisabled \cup {"none"}
  /\ schema.state \in SchemaStates \cup {"none"} /\ schema.config \subseteq Nat

CatalogInit ==
  /\ policies = {} /\ ptx = [s \in Sessions |-> Idle]
  /\ eventType = "none" /\ schema = NoSchema

-----------------------------------------------------------------------------
(* validateRetryPolicy: within bounds, and the delays in order. *)
CreateRetryPolicyRequests ==
  {q \in [name : PolicyNames \cup {""}, state : {"", "active", "disabled", "other"},
          attempts : {0, 1, 101}, initial : Delays \cup {0}, max : Delays \cup {86401}] :
     /\ Allowed("routes:write")
     /\ q.name # "" /\ q.state # "other" /\ q.attempts \in 1..100
     /\ q.initial > 0 /\ q.initial <= q.max /\ q.max <= 86400}

(* An update gives some of the fields; 0 stands for one it leaves out. *)
UpdateRetryPolicyRequests ==
  {q \in [name : PolicyNames \cup {"keep"}, state : {"", "active", "disabled", "other"},
          initial : Delays \cup {0}, max : Delays \cup {0}, reason : BOOLEAN] :
     /\ Allowed("routes:write") /\ q.reason
     /\ q.name # "keep" \/ q.state # "" \/ q.initial # 0 \/ q.max # 0
     /\ q.state # "other"
     /\ q.initial # 0 /\ q.max # 0 => q.initial <= q.max}

DeleteRetryPolicyRequests == {q \in [reason : BOOLEAN] : Allowed("routes:write") /\ q.reason}

NextPolicyVersion(name) == MaxOr0({p.ver : p \in {p \in policies : p.name = name}}) + 1

(* COALESCE(max(version), 0) + 1 of the name, read before the INSERT. *)
Number(s, p) ==
  ptx' = [ptx EXCEPT ![s] = [at |-> "numbered", lock |-> p.id, p |-> [p EXCEPT !.ver = NextPolicyVersion(p.name)]]]

CreateRetryPolicy(s) ==
  /\ ptx[s] = Idle
  /\ \E q \in CreateRetryPolicyRequests :
       Number(s, [id |-> 0, name |-> q.name, ver |-> 0, initial |-> q.initial, max |-> q.max,
                  state |-> IF q.state = "" THEN "active" ELSE q.state])
  /\ UNCHANGED <<policies, eventType, schema>>

(* SELECT ... FOR UPDATE of the old row is free. *)
PolicyUnlocked(id) == \A s \in Sessions : ptx[s].at # "idle" => ptx[s].lock # id

Updated(p, q) ==
  [p EXCEPT !.name = IF q.name = "keep" THEN @ ELSE q.name, !.state = NewState(q, @),
            !.initial = IF q.initial = 0 THEN @ ELSE q.initial, !.max = IF q.max = 0 THEN @ ELSE q.max]

(* Merges the request into the locked row and checks the delays again. *)
UpdateRetryPolicy(s) ==
  /\ ptx[s] = Idle
  /\ \E p \in policies, q \in UpdateRetryPolicyRequests :
       /\ PolicyUnlocked(p.id)
       /\ Updated(p, q).initial <= Updated(p, q).max
       /\ Number(s, Updated(p, q))
  /\ UNCHANGED <<policies, eventType, schema>>

InsertPolicy_NoUniqueKey(s) ==
  /\ ptx[s].at = "numbered" /\ Cardinality(policies) < MaxPolicies
  /\ policies' = policies \cup {[ptx[s].p EXCEPT !.id = Cardinality(policies) + 1]}
  /\ ptx' = [ptx EXCEPT ![s] = Idle]
  /\ UNCHANGED <<eventType, schema>>

(* INSERT under a new id (UNIQUE name and version), config version, audit. *)
InsertPolicy(s) ==
  /\ ptx[s].at = "numbered" /\ Cardinality(policies) < MaxPolicies
  /\ \A p \in policies : p.name = ptx[s].p.name => p.ver # ptx[s].p.ver
  /\ policies' = policies \cup {[ptx[s].p EXCEPT !.id = Cardinality(policies) + 1]}
  /\ ptx' = [ptx EXCEPT ![s] = Idle]
  /\ UNCHANGED <<eventType, schema>>

RollbackPolicy(s) ==
  ptx[s] # Idle /\ ptx' = [ptx EXCEPT ![s] = Idle] /\ UNCHANGED <<policies, eventType, schema>>

DeleteRetryPolicy ==
  /\ DeleteRetryPolicyRequests # {}
  /\ \E p \in policies :
       /\ PolicyUnlocked(p.id)
       /\ policies' = (policies \ {p}) \cup {[p EXCEPT !.state = "disabled"]}
  /\ UNCHANGED <<ptx, eventType, schema>>

PolicyNext ==
  \/ DeleteRetryPolicy
  \/ \E s \in Sessions : CreateRetryPolicy(s) \/ UpdateRetryPolicy(s) \/ InsertPolicy(s) \/ RollbackPolicy(s)

-----------------------------------------------------------------------------
CreateEventTypeRequests == {q \in [name : BOOLEAN] : Allowed("schemas:write") /\ q.name}

UpdateEventTypeRequests ==
  {q \in Updates : Allowed("schemas:write") /\ q.reason /\ GivesField(q) /\ q.state # "other"}

DeleteEventTypeRequests == {q \in StateChanges : Allowed("schemas:write") /\ q.reason}

CreateEventType ==
  /\ eventType = "none" /\ CreateEventTypeRequests # {}
  /\ eventType' = "active"
  /\ UNCHANGED <<policies, ptx, schema>>

SetEventType(q) ==
  eventType # "none" /\ eventType' = NewState(q, eventType) /\ UNCHANGED <<policies, ptx, schema>>

UpdateEventType == \E q \in UpdateEventTypeRequests : SetEventType(q)

DeleteEventType == \E q \in DeleteEventTypeRequests : SetEventType(q)

CreateEventSchemaRequests ==
  {q \in [type : BOOLEAN, version : SchemaVersions \cup {-1}, body : BOOLEAN] :
     Allowed("schemas:write") /\ q.type /\ q.version # -1 /\ q.body}

UpdateEventSchemaRequests ==
  {q \in [state : SchemaStates \cup {"", "other"}, reason : BOOLEAN] :
     Allowed("schemas:write") /\ q.reason /\ q.state \notin {"", "other"}}

DeleteEventSchemaRequests == {q \in [reason : BOOLEAN] : Allowed("schemas:write") /\ q.reason}

(* The first config version is the number the version string spells, else 1. *)
CreateEventSchema ==
  /\ schema = NoSchema
  /\ \E q \in CreateEventSchemaRequests :
       schema' = [state |-> "active", changes |-> 1, config |-> {IF q.version > 0 THEN q.version ELSE 1}]
  /\ UNCHANGED <<policies, ptx, eventType>>

(* updateEventSchema, under the row's lock: state, next config version. *)
SetEventSchema(st) ==
  /\ schema # NoSchema /\ schema.changes < MaxSchemaChanges
  /\ schema' = [state |-> st, changes |-> schema.changes + 1, config |-> schema.config \cup {Max(schema.config) + 1}]
  /\ UNCHANGED <<policies, ptx, eventType>>

UpdateEventSchema == \E q \in UpdateEventSchemaRequests : SetEventSchema(q.state)

DeleteEventSchema == DeleteEventSchemaRequests # {} /\ SetEventSchema("retired")

SchemaNext ==
  \/ CreateEventType \/ UpdateEventType \/ DeleteEventType
  \/ CreateEventSchema \/ UpdateEventSchema \/ DeleteEventSchema

CatalogNext == PolicyNext \/ SchemaNext

CatalogSpec == CatalogInit /\ [][CatalogNext]_catalogVars

-----------------------------------------------------------------------------
(* What a delivery was scheduled under stays on record.  The versions of a *)
(* policy name are 1, 2, ... with one row each, however creates and        *)
(* renaming updates race for the next number; the delays of each row are   *)
(* in order although an update may give only one of them; and each         *)
(* committed change of a schema has a config version of its own ("State    *)
(* changes are versioned and audited", docs/feature-behavior.md).          *)
CatalogVersioned ==
  /\ \A n \in PolicyNames :
       LET rows == {p \in policies : p.name = n} IN {p.ver : p \in rows} = 1..Cardinality(rows)
  /\ \A p \in policies : p.initial <= p.max
  /\ Cardinality(schema.config) = schema.changes
=============================================================================
