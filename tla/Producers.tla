------------------------------ MODULE Producers ------------------------------
(***************************************************************************)
(* Credentials of event producers: an OAuth client with its secrets and    *)
(* access tokens, and an mTLS identity (internal/app/control.go, auth.go   *)
(* and internal/adapters/postgres/store.go).  Updates read the row, then   *)
(* write it whole in a later transaction; rotations and deletes revoke     *)
(* what their statement's snapshot shows them; issuing a token is two      *)
(* statements without a transaction.  All of them interleave.              *)
(***************************************************************************)
EXTENDS ControlPlane

CONSTANTS MaxProducerSecrets, MaxProducerTokens    \* bounds on the rows

VARIABLES
  client,      \* "none" or the state of the producer client
  psecret,     \* sequence of secret states, in the order created
  ptoken,      \* sequence of token states, in the order created
  mtls,        \* [state, window] of the mTLS identity
  prodtx,      \* session -> its request in progress
  gone         \* tokens that existed when the client was deleted (history)

producerVars == <<client, psecret, ptoken, mtls, prodtx, gone>>

ProducerTypeOK ==
  /\ client \in ActiveOrDisabled \cup {"none"}
  /\ psecret \in Seq({"active", "revoked"})
  /\ ptoken \in Seq({"active", "expired", "revoked"})
  /\ mtls \in [state : ActiveOrDisabled \cup {"none"}, window : {"within", "past"}]
  /\ \A s \in Sessions : prodtx[s].at \in {"idle", "update", "rotate", "delete", "issue", "mtls"}
  /\ gone \subseteq DOMAIN ptoken

ProducerInit ==
  /\ client = "none" /\ psecret = <<>> /\ ptoken = <<>> /\ gone = {}
  /\ mtls = [state |-> "none", window |-> "within"]
  /\ prodtx = [s \in Sessions |-> Idle]

In(s, t) == prodtx' = [prodtx EXCEPT ![s] = t]

Active(states) == {i \in DOMAIN states : states[i] = "active"}

Revoke(states, S) == [i \in DOMAIN states |-> IF i \in S THEN "revoked" ELSE states[i]]

-----------------------------------------------------------------------------
NormalizeProducerScopes(scopes) == scopes \subseteq {"events:write"}

NormalizeCreateProducerClient(q) ==
  q.name /\ NormalizeProducerScopes(q.scopes) /\ (q.ttl = 0 \/ q.ttl \in 60..3600)

CreateProducerClientRequests ==
  {q \in [name : BOOLEAN, scopes : SUBSET {"events:write", "events:read"}, ttl : {0, 59, 60, 3601}] :
     Allowed("security:write") /\ NormalizeCreateProducerClient(q)}

NormalizeUpdateProducerClient(q) ==
  /\ GivesField(q) /\ q.state # "other"
  /\ NormalizeProducerScopes(q.scopes)

UpdateProducerClientRequests ==
  {q \in [state : {"", "active", "disabled", "other"}, field : BOOLEAN, reason : BOOLEAN,
          scopes : SUBSET {"events:write", "events:read"}] :
     Allowed("security:write") /\ q.reason /\ NormalizeUpdateProducerClient(q)}

ClientStates == {q.state : q \in UpdateProducerClientRequests}

DeleteProducerClientRequests == {q \in [reason : BOOLEAN] : Allowed("security:write") /\ q.reason}

RotateProducerClientSecretRequests == {q \in [reason : BOOLEAN] : Allowed("security:write") /\ q.reason}

CreateProducerClient ==
  /\ client = "none" /\ CreateProducerClientRequests # {}
  /\ client' = "active" /\ psecret' = <<"active">>
  /\ UNCHANGED <<ptoken, mtls, prodtx, gone>>

(* GetProducerClient, outside the transaction that writes the row back. *)
UpdateProducerClient(s) ==
  /\ prodtx[s] = Idle /\ client # "none"
  /\ \E st \in ClientStates :
       In(s, [at |-> "update", state |-> IF st = "" THEN client ELSE st])
  /\ UNCHANGED <<client, psecret, ptoken, mtls, gone>>

WriteProducerClient(s) ==
  /\ prodtx[s].at = "update"
  /\ client' = prodtx[s].state
  /\ In(s, Idle)
  /\ UNCHANGED <<psecret, ptoken, mtls, gone>>

(* A session has revoked secret rows it has not committed. *)
SecretsLocked(S) ==
  \E u \in Sessions : prodtx[u].at = "rotate" /\ prodtx[u].off \cap S # {}

(* UPDATE ... SET state='revoked' WHERE state='active': no row, no rotation. *)
RotateProducerClientSecret(s) ==
  /\ prodtx[s] = Idle /\ client # "none" /\ RotateProducerClientSecretRequests # {}
  /\ Active(psecret) # {} /\ ~SecretsLocked(Active(psecret))
  /\ In(s, [at |-> "rotate", off |-> Active(psecret)])
  /\ UNCHANGED <<client, psecret, ptoken, mtls, gone>>

CommitSecretRotation(s) ==
  /\ prodtx[s].at = "rotate" /\ Len(psecret) < MaxProducerSecrets
  /\ psecret' = Append(Revoke(psecret, prodtx[s].off), "active")
  /\ In(s, Idle)
  /\ UNCHANGED <<client, ptoken, mtls, gone>>

(* Disables the client, then revokes the secrets and tokens that each      *)
(* UPDATE sees; a secret a rotation commits meanwhile escapes it.          *)
DeleteProducerClient(s) ==
  /\ prodtx[s] = Idle /\ client # "none" /\ DeleteProducerClientRequests # {}
  /\ In(s, [at |-> "delete", off |-> Active(psecret)])
  /\ UNCHANGED <<client, psecret, ptoken, mtls, gone>>

CommitDelete_KeepsTokens(s) ==
  /\ prodtx[s].at = "delete" /\ ~SecretsLocked(prodtx[s].off)
  /\ client' = "disabled"
  /\ psecret' = Revoke(psecret, prodtx[s].off)
  /\ gone' = gone \cup DOMAIN ptoken
  /\ In(s, Idle)
  /\ UNCHANGED <<ptoken, mtls>>

CommitDelete(s) ==
  /\ prodtx[s].at = "delete" /\ ~SecretsLocked(prodtx[s].off)
  /\ client' = "disabled"
  /\ psecret' = Revoke(psecret, prodtx[s].off)
  /\ ptoken' = Revoke(ptoken, DOMAIN ptoken)
  /\ gone' = gone \cup DOMAIN ptoken
  /\ In(s, Idle)
  /\ UNCHANGED mtls

-----------------------------------------------------------------------------
(* The secrets with which AuthenticateProducerClient finds a client. *)
AuthenticateProducerClient == IF client = "active" THEN Active(psecret) ELSE {}

(* The tokens AuthenticateProducerAccessToken accepts. *)
AuthenticateProducerAccessToken == IF client = "active" THEN Active(ptoken) ELSE {}

(* IssueProducerToken: authenticate; later, insert the token. *)
IssueProducerToken(s) ==
  /\ prodtx[s] = Idle /\ AuthenticateProducerClient # {}
  /\ In(s, [at |-> "issue"])
  /\ UNCHANGED <<client, psecret, ptoken, mtls, gone>>

CreateProducerAccessToken(s) ==
  /\ prodtx[s].at = "issue" /\ Len(ptoken) < MaxProducerTokens
  /\ ptoken' = Append(ptoken, "active")
  /\ In(s, Idle)
  /\ UNCHANGED <<client, psecret, mtls, gone>>

TokenExpires ==
  /\ \E i \in Active(ptoken) : ptoken' = [ptoken EXCEPT ![i] = "expired"]
  /\ UNCHANGED <<client, psecret, mtls, prodtx, gone>>

ProducerMTLSIdentityFromPEM(q) == q.name /\ q.certificate = "valid now"

CreateProducerMTLSIdentityRequests ==
  {q \in [name : BOOLEAN, certificate : {"none", "two", "expired", "valid now"}] :
     Allowed("security:write") /\ ProducerMTLSIdentityFromPEM(q)}

NormalizeUpdateProducerMTLSIdentity(q) == GivesField(q) /\ q.state # "other"

UpdateProducerMTLSIdentityRequests ==
  {q \in Updates : Allowed("security:write") /\ q.reason /\ NormalizeUpdateProducerMTLSIdentity(q)}

MTLSIdentityStates == {q.state : q \in UpdateProducerMTLSIdentityRequests}

DeleteProducerMTLSIdentityRequests == {q \in StateChanges : Allowed("security:write") /\ q.reason}

CreateProducerMTLSIdentity ==
  /\ mtls.state = "none" /\ CreateProducerMTLSIdentityRequests # {}
  /\ mtls' = [state |-> "active", window |-> "within"]
  /\ UNCHANGED <<client, psecret, ptoken, prodtx, gone>>

UpdateProducerMTLSIdentity(s) ==
  /\ prodtx[s] = Idle /\ mtls.state # "none"
  /\ \E st \in MTLSIdentityStates :
       In(s, [at |-> "mtls", state |-> IF st = "" THEN mtls.state ELSE st])
  /\ UNCHANGED <<client, psecret, ptoken, mtls, gone>>

WriteProducerMTLSIdentity(s) ==
  /\ prodtx[s].at = "mtls"
  /\ mtls' = [mtls EXCEPT !.state = prodtx[s].state]
  /\ In(s, Idle)
  /\ UNCHANGED <<client, psecret, ptoken, gone>>

DeleteProducerMTLSIdentity ==
  /\ mtls.state # "none" /\ DeleteProducerMTLSIdentityRequests # {}
  /\ mtls' = [mtls EXCEPT !.state = "disabled"]
  /\ UNCHANGED <<client, psecret, ptoken, prodtx, gone>>

CertificateExpires ==
  /\ mtls.window = "within" /\ mtls.state # "none"
  /\ mtls' = [mtls EXCEPT !.window = "past"]
  /\ UNCHANGED <<client, psecret, ptoken, prodtx, gone>>

RollbackProducer(s) ==
  prodtx[s] # Idle /\ In(s, Idle) /\ UNCHANGED <<client, psecret, ptoken, mtls, gone>>

ClientNext ==
  \/ CreateProducerClient \/ TokenExpires
  \/ \E s \in Sessions :
       \/ UpdateProducerClient(s) \/ WriteProducerClient(s)
       \/ RotateProducerClientSecret(s) \/ CommitSecretRotation(s)
       \/ DeleteProducerClient(s) \/ CommitDelete(s)
       \/ IssueProducerToken(s) \/ CreateProducerAccessToken(s) \/ RollbackProducer(s)

MTLSNext ==
  \/ CreateProducerMTLSIdentity \/ DeleteProducerMTLSIdentity \/ CertificateExpires
  \/ \E s \in Sessions : UpdateProducerMTLSIdentity(s) \/ WriteProducerMTLSIdentity(s) \/ RollbackProducer(s)

ProducerNext == ClientNext \/ MTLSNext

ProducerSpec == ProducerInit /\ [][ProducerNext]_producerVars

-----------------------------------------------------------------------------
(* However rotations, updates and deletes interleave, a producer client    *)
(* has at most one active secret, and a token that existed when its client *)
(* was deleted never authenticates again, not even when an update (or one  *)
(* that read the row before the delete) makes the client active again.     *)
RevokedCredentialsStayOut ==
  /\ Cardinality(Active(psecret)) <= 1
  /\ gone \cap AuthenticateProducerAccessToken = {}
=============================================================================
