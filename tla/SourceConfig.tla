----------------------------- MODULE SourceConfig -----------------------------
(***************************************************************************)
(* Sources and endpoints as configuration: their rows, secret versions and *)
(* config_versions rows (internal/app/control.go and                       *)
(* internal/adapters/postgres/store.go).  An update locks the row, then    *)
(* numbers and inserts its config version.  A secret rotation locks no     *)
(* row of the resource first: it reads the next secret version, demotes    *)
(* the active secret and inserts the new one, each statement on its own    *)
(* READ COMMITTED snapshot, so requests of several sessions interleave.    *)
(*                                                                         *)
(* Data: names, URLs, providers and key material are never read back.      *)
(***************************************************************************)
EXTENDS ControlPlane

CONSTANT MaxConfigVersion      \* bound on the versions of a resource

ASSUME SourceConfigAssumption == MaxConfigVersion \in Nat \ {0}

(* Resources share no row, so one resource, of either kind, is modelled. *)
VARIABLES
  kind,       \* "source" or "endpoint"
  row,        \* "none" or the resource's state
  secret,     \* sequence, by version, of secret states
  config,     \* set of its config_versions numbers
  dbtx        \* session -> its open transaction

sourceVars == <<kind, row, secret, config, dbtx>>

SourceTypeOK ==
  /\ kind \in {"source", "endpoint"}
  /\ row \in ActiveOrDisabled \cup {"none"}
  /\ secret \in Seq({"active", "previous", "expired"})
  /\ config \subseteq 1..MaxConfigVersion
  /\ \A s \in Sessions : dbtx[s].at \in {"idle", "updating", "numbered", "read", "waiting", "demoted"}

SourceInit ==
  /\ kind \in {"source", "endpoint"}
  /\ row = "none" /\ secret = <<>> /\ config = {}
  /\ dbtx = [s \in Sessions |-> Idle]

(* nextConfigVersion: COALESCE(max(version), 0) + 1. *)
NextConfigVersion == MaxOr0(config) + 1

(* insertConfigVersion: ON CONFLICT (resource, version) DO NOTHING. *)
InsertConfigVersion(v) == config' = config \cup {v}

NextSecretVersion_NoDefault(hours) == [v |-> Len(secret) + 1, grace |-> hours]

(* nextSecretVersion: max + 1, and the grace period, 72 hours by default. *)
NextSecretVersion(hours) ==
  [v |-> Len(secret) + 1, grace |-> IF hours = 0 THEN 72 ELSE hours]

ActiveSecrets == {v \in DOMAIN secret : secret[v] = "active"}

(* sourceVerificationSecrets: the active secret and the previous ones      *)
(* within their grace; the source row's copy is the fallback of none.      *)
SourceVerificationSecrets == {v \in DOMAIN secret : secret[v] # "expired"}

Open(s, t) == dbtx' = [dbtx EXCEPT ![s] = t] /\ UNCHANGED <<kind, row, secret, config>>

Commit(s) ==
  /\ dbtx' = [dbtx EXCEPT ![s] = Idle]
  /\ UNCHANGED kind

(* SELECT ... FOR UPDATE on the resource's row is free. *)
RowUnlocked == \A s \in Sessions : dbtx[s].at \notin {"updating", "numbered"}

-----------------------------------------------------------------------------
CreateSourceRequests ==
  {q \in [provider : {"", "internal", "stripe"}, secret : BOOLEAN] :
     /\ Allowed("sources:write")
     /\ q.provider # "" /\ (q.provider # "internal" => q.secret)}

CreateEndpointRequests ==
  {q \in [url : {"", "blocked", "allowed"}, cert : BOOLEAN, key : BOOLEAN] :
     /\ Allowed("endpoints:write")
     /\ q.url = "allowed" /\ q.cert = q.key}

(* The INSERTs of one transaction: row, secret version 1, config version 1. *)
Inserted ==
  /\ row = "none" /\ row' = "active"
  /\ secret' = <<"active">>
  /\ InsertConfigVersion(1)
  /\ UNCHANGED <<kind, dbtx>>

CreateSource == kind = "source" /\ CreateSourceRequests # {} /\ Inserted

CreateEndpoint == kind = "endpoint" /\ CreateEndpointRequests # {} /\ Inserted

UpdateSourceRequests ==
  {q \in Updates : /\ Allowed("sources:write")
                   /\ q.reason /\ GivesField(q) /\ q.state # "other"}

DeleteSourceRequests == {q \in StateChanges : Allowed("sources:write") /\ q.reason}

UpdateEndpointRequests ==
  {q \in Updates \X {"", "blocked", "allowed"} :
     /\ Allowed("endpoints:write")
     /\ q[1].reason /\ (GivesField(q[1]) \/ q[2] # "") /\ q[1].state # "other"
     /\ q[2] # "blocked"}

DeleteEndpointRequests == {q \in StateChanges : Allowed("endpoints:write") /\ q.reason}

(* updateSource, updateEndpoint: lock and UPDATE the row; number the config *)
(* version; insert it, audit and commit.                                   *)
BeginUpdate(s, q) ==
  /\ dbtx[s] = Idle /\ row # "none" /\ RowUnlocked
  /\ Open(s, [at |-> "updating", st |-> NewState(q, row)])

UpdateSource(s) == kind = "source" /\ \E q \in UpdateSourceRequests : BeginUpdate(s, q)

DeleteSource(s) == kind = "source" /\ \E q \in DeleteSourceRequests : BeginUpdate(s, q)

UpdateEndpoint(s) == kind = "endpoint" /\ \E q \in UpdateEndpointRequests : BeginUpdate(s, q[1])

DeleteEndpoint(s) == kind = "endpoint" /\ \E q \in DeleteEndpointRequests : BeginUpdate(s, q)

NumberUpdate(s) ==
  /\ dbtx[s].at = "updating" /\ NextConfigVersion <= MaxConfigVersion
  /\ Open(s, [at |-> "numbered", st |-> dbtx[s].st, v |-> NextConfigVersion])

CommitUpdate(s) ==
  /\ dbtx[s].at = "numbered"
  /\ row' = dbtx[s].st
  /\ InsertConfigVersion(dbtx[s].v)
  /\ Commit(s)
  /\ UNCHANGED secret

-----------------------------------------------------------------------------
RotateSourceSecretRequests ==
  {q \in [secret : BOOLEAN, reason : BOOLEAN, hours : {-1, 0, 1}] :
     Allowed("security:write") /\ q.secret /\ q.reason /\ q.hours \in 0..720}

RotateEndpointSecretRequests ==
  {q \in [reason : BOOLEAN, hours : {-1, 0, 1}] :
     Allowed("security:write") /\ q.reason /\ q.hours \in 0..720}

(* The rotation has checked that the row exists and read its version. *)
BeginRotation(s, hours) ==
  /\ dbtx[s] = Idle /\ row # "none" /\ Len(secret) < MaxConfigVersion
  /\ Open(s, [at |-> "read", n |-> NextSecretVersion(hours)])

RotateSourceSecret(s) ==
  kind = "source" /\ \E q \in RotateSourceSecretRequests : BeginRotation(s, q.hours)

RotateEndpointSecret(s) ==
  kind = "endpoint" /\ \E q \in RotateEndpointSecretRequests : BeginRotation(s, q.hours)

(* UPDATE ... SET state='previous' WHERE state='active' takes its snapshot. *)
SelectActive(s) ==
  /\ dbtx[s].at = "read"
  /\ Open(s, [at |-> "waiting", n |-> dbtx[s].n, snap |-> ActiveSecrets])

(* The UPDATE waits for the rows another rotation has demoted but not       *)
(* committed, then skips the rows of snap that are no longer active.        *)
DemoteActive(s) ==
  /\ dbtx[s].at = "waiting"
  /\ \A u \in Sessions : dbtx[u].at = "demoted" => dbtx[u].demote \cap dbtx[s].snap = {}
  /\ Open(s, [at |-> "demoted", n |-> dbtx[s].n, demote |-> dbtx[s].snap \cap ActiveSecrets])

(* INSERT of the new active secret (UNIQUE version: a lost race aborts);    *)
(* for a source, UPDATE of its row, which waits for an update's lock; the   *)
(* config version takes the secret's number; audit; commit.                *)
InsertsSecret(s, v) ==
  /\ dbtx[s].at = "demoted" /\ v \notin DOMAIN secret
  /\ kind = "source" => RowUnlocked
  /\ secret' = Append([i \in DOMAIN secret |->
                  IF i \notin dbtx[s].demote THEN secret[i]
                  ELSE IF dbtx[s].n.grace > 0 THEN "previous" ELSE "expired"], "active")
  /\ InsertConfigVersion(v)
  /\ Commit(s)
  /\ UNCHANGED row

InsertSecret_RereadsVersion(s) == InsertsSecret(s, Len(secret) + 1)

InsertSecret(s) == InsertsSecret(s, dbtx[s].n.v)

(* A duplicate version, a deadlock, a lost connection, a crash. *)
Rollback(s) == dbtx[s] # Idle /\ Open(s, Idle)

GraceExpires ==
  /\ \E v \in DOMAIN secret : secret[v] = "previous" /\ secret' = [secret EXCEPT ![v] = "expired"]
  /\ UNCHANGED <<kind, row, config, dbtx>>

SourceNext ==
  \/ CreateSource \/ CreateEndpoint \/ GraceExpires
  \/ \E s \in Sessions :
       \/ UpdateSource(s) \/ DeleteSource(s) \/ RotateSourceSecret(s)
       \/ UpdateEndpoint(s) \/ DeleteEndpoint(s) \/ RotateEndpointSecret(s)
       \/ NumberUpdate(s) \/ CommitUpdate(s)
       \/ SelectActive(s) \/ DemoteActive(s) \/ InsertSecret(s) \/ Rollback(s)

SourceSpec == SourceInit /\ [][SourceNext]_sourceVars

-----------------------------------------------------------------------------
(* However updates and rotations interleave, the versions of a source or   *)
(* endpoint stay in step: exactly one secret is active, the newest; the    *)
(* config versions have no gap, and there is one for every secret version, *)
(* although updates number them by nextConfigVersion and rotations by      *)
(* nextSecretVersion.                                                      *)
VersionsInStep ==
  /\ row # "none" => ActiveSecrets = {Len(secret)}
  /\ config = 1..Cardinality(config) /\ Len(secret) <= Cardinality(config)

(* A rotation overlaps: the secret that was active before a step is still  *)
(* accepted by sourceVerificationSecrets after it.                         *)
RotationOverlaps == [][ActiveSecrets \subseteq SourceVerificationSecrets']_sourceVars
=============================================================================
