---------------------------- MODULE ControlProofs ----------------------------
(***************************************************************************)
(* Producer credentials and adapter governance, proved for any number of   *)
(* sessions, secrets, tokens, versions and reviews.                        *)
(***************************************************************************)
EXTENDS Producers, Adapters, FiniteSetTheorems, SequenceTheorems, TLAPS

-----------------------------------------------------------------------------
(* Producers: one active secret, and no token outlives its client's         *)
(* deletion.                                                               *)

SecretStates == {"active", "revoked"}
TokenStates == {"active", "expired", "revoked"}

\* A rotation in progress holds the lock of the one active secret, so there is
\* one rotation at most.
RotationLocks ==
  /\ \A i, j \in Active(psecret) : i = j
  /\ \A s \in Sessions : prodtx[s].at = "rotate" =>
       prodtx[s].off = Active(psecret) /\ Active(psecret) # {}
  /\ \A s, t \in Sessions : prodtx[s].at = "rotate" /\ prodtx[t].at = "rotate" => s = t

\* The tokens of a deleted client are revoked for good.
GoneRevoked == gone \subseteq DOMAIN ptoken /\ \A i \in gone : ptoken[i] = "revoked"

\* A client that exists is never written back as none.
ClientWritten ==
  /\ client = "none" => psecret = <<>>
  /\ \A s \in Sessions : prodtx[s].at = "update" => prodtx[s].state # "none"

ProducerInv ==
  /\ psecret \in Seq(SecretStates) /\ ptoken \in Seq(TokenStates)
  /\ prodtx = [s \in Sessions |-> prodtx[s]]
  /\ RotationLocks /\ GoneRevoked /\ ClientWritten

-----------------------------------------------------------------------------
(* Adapters: what is active went through every state before, and is alone   *)
(* unless activations overlapped.                                          *)

\* Initially there is no client.
LEMMA InitProducerInv == ProducerInit => ProducerInv
<1>. SUFFICES ASSUME ProducerInit PROVE ProducerInv
  OBVIOUS
<1>1. Active(psecret) = {}
  BY DEF ProducerInit, Active
<1>. QED BY <1>1 DEF ProducerInit, ProducerInv, RotationLocks, GoneRevoked, ClientWritten, Idle

\* Only the record of session s changes.
LEMMA InEffect ==
  ASSUME ProducerInv, NEW s \in Sessions, NEW t, In(s, t)
  PROVE  /\ prodtx' = [u \in Sessions |-> prodtx'[u]] /\ prodtx'[s] = t
         /\ \A u \in Sessions : u # s => prodtx'[u] = prodtx[u]
BY Zenon DEF ProducerInv, In

\* A step that writes no row and does not begin a rotation.
LEMMA RequestKeeps ==
  ASSUME ProducerInv, NEW s \in Sessions, NEW t, In(s, t), t.at # "rotate",
         t.at = "update" => t.state # "none",
         UNCHANGED <<client, psecret, ptoken, gone>>
  PROVE  ProducerInv'
<1>1. Active(psecret)' = Active(psecret)
  BY DEF Active
<1>2. RotationLocks'
  BY <1>1, InEffect DEF ProducerInv, RotationLocks
<1>3. ClientWritten'
  BY InEffect DEF ProducerInv, ClientWritten
<1>. QED BY <1>2, <1>3, InEffect DEF ProducerInv, GoneRevoked

\* A rotation begins with the lock of the active secret.
LEMMA RotateClientKeeps ==
  ASSUME ProducerInv, NEW s \in Sessions, RotateProducerClientSecret(s)
  PROVE  ProducerInv'
<1>. DEFINE t == [at |-> "rotate", off |-> Active(psecret)]
<1>1. /\ In(s, t) /\ Active(psecret) # {} /\ ~SecretsLocked(Active(psecret))
      /\ UNCHANGED <<client, psecret, ptoken, gone>>
  BY DEF RotateProducerClientSecret
<1>2. t.at = "rotate" /\ t.off = Active(psecret)
  OBVIOUS
<1>. HIDE DEF t
<1>3. \A u \in Sessions : prodtx[u].at # "rotate"
  BY <1>1 DEF SecretsLocked, ProducerInv, RotationLocks
<1>4. Active(psecret)' = Active(psecret)
  BY <1>1 DEF Active
<1>5. RotationLocks'
  BY <1>1, <1>2, <1>3, <1>4, InEffect DEF ProducerInv, RotationLocks
<1>6. ClientWritten'
  BY <1>1, <1>2, InEffect DEF ProducerInv, ClientWritten
<1>. QED BY <1>1, <1>5, <1>6, InEffect DEF ProducerInv, GoneRevoked

\* What revoking does to a sequence of states.
LEMMA RevokeEffect ==
  ASSUME NEW States, "revoked" \in States, NEW q \in Seq(States), NEW S
  PROVE  /\ Revoke(q, S) \in Seq(States) /\ Len(Revoke(q, S)) = Len(q)
         /\ DOMAIN Revoke(q, S) = DOMAIN q
         /\ \A i \in DOMAIN q : Revoke(q, S)[i] = IF i \in S THEN "revoked" ELSE q[i]
         /\ Active(Revoke(q, S)) = Active(q) \ S
<1>1. Len(q) \in Nat /\ q \in [1..Len(q) -> States] /\ DOMAIN q = 1..Len(q)
  BY LenProperties
<1>2. /\ Revoke(q, S) = [i \in 1..Len(q) |-> IF i \in S THEN "revoked" ELSE q[i]]
      /\ Revoke(q, S) \in [1..Len(q) -> States]
  BY <1>1 DEF Revoke
<1>3. Revoke(q, S) \in Seq(States) /\ Len(Revoke(q, S)) = Len(q)
  BY <1>1, <1>2
<1>4. Active(Revoke(q, S)) = Active(q) \ S
  BY <1>1, <1>2 DEF Active
<1>. QED BY <1>1, <1>2, <1>3, <1>4

\* The rotation commits: what it had locked is revoked, the new secret is active.
LEMMA CommitRotationKeeps ==
  ASSUME ProducerInv, NEW s \in Sessions, CommitSecretRotation(s)
  PROVE  ProducerInv'
<1>. DEFINE old == Revoke(psecret, prodtx[s].off)
<1>1. /\ prodtx[s].at = "rotate" /\ psecret' = Append(old, "active") /\ In(s, Idle)
      /\ UNCHANGED <<client, ptoken, gone>>
  BY DEF CommitSecretRotation
<1>2. "revoked" \in SecretStates /\ "active" \in SecretStates
  BY DEF SecretStates
<1>3. old \in Seq(SecretStates) /\ Active(old) = {}
  BY <1>1, <1>2, RevokeEffect DEF ProducerInv, RotationLocks
<1>. HIDE DEF old
<1>4. /\ psecret' \in Seq(SecretStates) /\ psecret' # <<>> /\ Len(old) \in Nat
      /\ DOMAIN old = 1..Len(old) /\ DOMAIN psecret' = 1..(Len(old) + 1)
      /\ psecret'[Len(old) + 1] = "active" /\ \A i \in 1..Len(old) : psecret'[i] = old[i]
  BY <1>1, <1>2, <1>3, AppendProperties, LenProperties
<1>5. Active(psecret)' = {Len(old) + 1}
  <2>1. \A i \in 1..Len(old) : psecret'[i] # "active"
    BY <1>3, <1>4 DEF Active
  <2>. QED BY <1>4, <2>1 DEF Active
<1>6. \A u \in Sessions : prodtx'[u].at # "rotate"
  BY <1>1, InEffect DEF ProducerInv, RotationLocks, Idle
<1>7. RotationLocks'
  BY <1>5, <1>6 DEF RotationLocks
<1>8. client # "none"
  BY <1>1 DEF ProducerInv, ClientWritten, RotationLocks, Active
<1>9. ClientWritten'
  BY <1>1, <1>8, InEffect DEF ProducerInv, ClientWritten, Idle
<1>. QED BY <1>1, <1>4, <1>7, <1>9, InEffect DEF ProducerInv, GoneRevoked

\* A delete revokes the secrets it saw and every token there is.  It waits for a
\* rotation of those secrets.
LEMMA CommitDeleteKeeps ==
  ASSUME ProducerInv, NEW s \in Sessions, CommitDelete(s)
  PROVE  ProducerInv'
<1>. DEFINE off == prodtx[s].off
<1>1. /\ prodtx[s].at = "delete" /\ ~SecretsLocked(off) /\ client' = "disabled"
      /\ psecret' = Revoke(psecret, off) /\ ptoken' = Revoke(ptoken, DOMAIN ptoken)
      /\ gone' = gone \cup DOMAIN ptoken /\ In(s, Idle)
  BY DEF CommitDelete
<1>2. "revoked" \in SecretStates /\ "revoked" \in TokenStates
  BY DEF SecretStates, TokenStates
<1>3. psecret' \in Seq(SecretStates) /\ Active(psecret)' = Active(psecret) \ off
  <2>1. Active(psecret') = Active(psecret) \ off /\ psecret' \in Seq(SecretStates)
    BY <1>1, <1>2, RevokeEffect DEF ProducerInv
  <2>. QED BY <2>1 DEF Active
<1>4. ptoken' \in Seq(TokenStates) /\ DOMAIN ptoken' = DOMAIN ptoken
      /\ \A i \in DOMAIN ptoken : ptoken'[i] = "revoked"
  BY <1>1, <1>2, RevokeEffect DEF ProducerInv
<1>5. ASSUME NEW u \in Sessions, prodtx'[u].at = "rotate"
      PROVE  prodtx'[u] = prodtx[u] /\ prodtx[u].at = "rotate" /\ Active(psecret)' = Active(psecret)
  <2>1. prodtx'[u] = prodtx[u] /\ prodtx[u].at = "rotate"
    BY <1>1, <1>5, InEffect DEF Idle
  <2>2. off \cap Active(psecret) = {}
    BY <1>1, <2>1 DEF SecretsLocked, ProducerInv, RotationLocks
  <2>. QED BY <1>3, <2>1, <2>2
<1>6. RotationLocks'
  BY <1>3, <1>5 DEF ProducerInv, RotationLocks
<1>7. GoneRevoked'
  BY <1>1, <1>4 DEF ProducerInv, GoneRevoked
<1>8. ClientWritten'
  BY <1>1, InEffect DEF ProducerInv, ClientWritten, Idle
<1>. QED BY <1>1, <1>3, <1>4, <1>6, <1>7, <1>8, InEffect DEF ProducerInv

\* A token is inserted for a client that was authenticated before.
LEMMA CreateTokenKeeps ==
  ASSUME ProducerInv, NEW s \in Sessions, CreateProducerAccessToken(s)
  PROVE  ProducerInv'
<1>1. ptoken' = Append(ptoken, "active") /\ In(s, Idle) /\ UNCHANGED <<client, psecret, gone>>
  BY DEF CreateProducerAccessToken
<1>2. /\ ptoken' \in Seq(TokenStates) /\ DOMAIN ptoken \subseteq DOMAIN ptoken'
      /\ \A i \in DOMAIN ptoken : ptoken'[i] = ptoken[i]
  <2>1. "active" \in TokenStates
    BY DEF TokenStates
  <2>. QED BY <1>1, <2>1, AppendProperties, LenProperties DEF ProducerInv
<1>3. Active(psecret)' = Active(psecret)
  BY <1>1 DEF Active
<1>4. RotationLocks' /\ ClientWritten'
  BY <1>1, <1>3, InEffect DEF ProducerInv, RotationLocks, ClientWritten, Idle
<1>. QED BY <1>1, <1>2, <1>4, InEffect DEF ProducerInv, GoneRevoked

\* A token expires, which a revoked one does not.
LEMMA TokenExpiryKeeps == ASSUME ProducerInv, TokenExpires PROVE ProducerInv'
<1>1. PICK i \in Active(ptoken) : ptoken' = [ptoken EXCEPT ![i] = "expired"]
  BY Zenon DEF TokenExpires
<1>2. UNCHANGED <<client, psecret, prodtx, gone>>
  BY DEF TokenExpires
<1>3. ptoken[i] = "active" /\ i \in DOMAIN ptoken /\ i \in 1..Len(ptoken) /\ "expired" \in TokenStates
  BY LenProperties DEF Active, ProducerInv, TokenStates
<1>4. ptoken' \in Seq(TokenStates)
  BY <1>1, <1>3, ExceptSeq DEF ProducerInv
<1>5. GoneRevoked'
  BY <1>1, <1>2, <1>3 DEF ProducerInv, GoneRevoked
<1>6. RotationLocks' /\ ClientWritten'
  BY <1>2 DEF ProducerInv, RotationLocks, ClientWritten, Active
<1>. QED BY <1>2, <1>4, <1>5, <1>6 DEF ProducerInv

\* The client is created with one secret.
LEMMA CreateClientKeeps == ASSUME ProducerInv, CreateProducerClient PROVE ProducerInv'
<1>1. client = "none" /\ client' = "active" /\ psecret' = <<"active">> /\ UNCHANGED <<ptoken, prodtx, gone>>
  BY DEF CreateProducerClient
<1>2. \A u \in Sessions : prodtx[u].at # "rotate"
  BY <1>1 DEF ProducerInv, ClientWritten, RotationLocks, Active
<1>3. psecret' \in Seq(SecretStates) /\ Active(psecret)' = {1}
  BY <1>1 DEF SecretStates, Active
<1>4. RotationLocks'
  BY <1>1, <1>2, <1>3 DEF RotationLocks
<1>. QED BY <1>1, <1>3, <1>4 DEF ProducerInv, GoneRevoked, ClientWritten

\* An update reads the row.
LEMMA UpdateClientKeeps ==
  ASSUME ProducerInv, NEW s \in Sessions, UpdateProducerClient(s)
  PROVE  ProducerInv'
<1>1. PICK st \in ClientStates : In(s, [at |-> "update", state |-> IF st = "" THEN client ELSE st])
  BY Zenon DEF UpdateProducerClient
<1>2. client # "none" /\ UNCHANGED <<client, psecret, ptoken, gone>> /\ st # "none"
  BY Zenon DEF UpdateProducerClient, ClientStates, UpdateProducerClientRequests
<1>. DEFINE t == [at |-> "update", state |-> IF st = "" THEN client ELSE st]
<1>3. In(s, t) /\ t.at # "rotate" /\ t.state # "none"
  BY <1>1, <1>2, Zenon
<1>. HIDE DEF t
<1>. QED BY <1>2, <1>3, RequestKeeps

\* It writes back the whole row, as it read or set it.
LEMMA WriteClientKeeps ==
  ASSUME ProducerInv, NEW s \in Sessions, WriteProducerClient(s)
  PROVE  ProducerInv'
<1>1. /\ prodtx[s].at = "update" /\ client' = prodtx[s].state /\ In(s, Idle)
      /\ UNCHANGED <<psecret, ptoken, gone>>
  BY DEF WriteProducerClient
<1>2. Active(psecret)' = Active(psecret)
  BY <1>1 DEF Active
<1>3. RotationLocks'
  BY <1>1, <1>2, InEffect DEF ProducerInv, RotationLocks, Idle
<1>4. ClientWritten'
  BY <1>1, InEffect DEF ProducerInv, ClientWritten, Idle
<1>. QED BY <1>1, <1>3, <1>4, InEffect DEF ProducerInv, GoneRevoked

\* Every step keeps the invariant.
LEMMA StepProducerInv == ProducerInv /\ [ProducerNext]_producerVars => ProducerInv'
<1>. SUFFICES ASSUME ProducerInv, [ProducerNext]_producerVars PROVE ProducerInv'
  OBVIOUS
<1>1. ASSUME NEW s \in Sessions,
             \/ DeleteProducerClient(s) \/ IssueProducerToken(s) \/ RollbackProducer(s)
             \/ UpdateProducerMTLSIdentity(s) \/ WriteProducerMTLSIdentity(s)
      PROVE  ProducerInv'
  <2>1. UNCHANGED <<client, psecret, ptoken, gone>>
    BY <1>1, Zenon DEF DeleteProducerClient, IssueProducerToken, RollbackProducer,
                UpdateProducerMTLSIdentity, WriteProducerMTLSIdentity
  <2>2. PICK t : In(s, t) /\ t.at \in {"idle", "delete", "issue", "mtls"}
    <3>1. CASE DeleteProducerClient(s)
      <4>. DEFINE d == [at |-> "delete", off |-> Active(psecret)]
      <4>1. In(s, d) /\ d.at = "delete"
        BY <3>1 DEF DeleteProducerClient
      <4>. HIDE DEF d
      <4>. QED BY <4>1
    <3>2. CASE IssueProducerToken(s)
      <4>. DEFINE d == [at |-> "issue"]
      <4>1. In(s, d) /\ d.at = "issue"
        BY <3>2 DEF IssueProducerToken
      <4>. HIDE DEF d
      <4>. QED BY <4>1
    <3>3. CASE RollbackProducer(s) \/ WriteProducerMTLSIdentity(s)
      <4>1. In(s, Idle) /\ Idle.at = "idle"
        BY <3>3 DEF RollbackProducer, WriteProducerMTLSIdentity, Idle
      <4>. QED BY <4>1
    <3>4. CASE UpdateProducerMTLSIdentity(s)
      <4>1. PICK st : In(s, [at |-> "mtls", state |-> st])
        BY <3>4, Zenon DEF UpdateProducerMTLSIdentity
      <4>. DEFINE d == [at |-> "mtls", state |-> st]
      <4>2. In(s, d) /\ d.at = "mtls"
        BY <4>1
      <4>. HIDE DEF d
      <4>. QED BY <4>2
    <3>. QED BY <1>1, <3>1, <3>2, <3>3, <3>4
  <2>. QED BY <2>1, <2>2, RequestKeeps
<1>2. ASSUME UNCHANGED <<client, psecret, ptoken, prodtx, gone>> PROVE ProducerInv'
  BY <1>2 DEF ProducerInv, RotationLocks, GoneRevoked, ClientWritten, Active
<1>3. CASE CreateProducerMTLSIdentity \/ DeleteProducerMTLSIdentity \/ CertificateExpires
  BY <1>2, <1>3 DEF CreateProducerMTLSIdentity, DeleteProducerMTLSIdentity, CertificateExpires
<1>4. CASE UNCHANGED producerVars
  BY <1>2, <1>4 DEF producerVars
<1>. QED BY <1>1, <1>3, <1>4, CreateClientKeeps, TokenExpiryKeeps, UpdateClientKeeps, WriteClientKeeps, RotateClientKeeps,
            CommitRotationKeeps, CommitDeleteKeeps, CreateTokenKeeps
         DEF ProducerNext, ClientNext, MTLSNext

-----------------------------------------------------------------------------
\* However rotations, updates and deletes interleave, a producer client has at
\* most one active secret, and no token that existed when its client was deleted
\* authenticates again.
THEOREM RevokedStayOut == ProducerSpec => []RevokedCredentialsStayOut
<1>1. ProducerInv => RevokedCredentialsStayOut
  <2>. SUFFICES ASSUME ProducerInv PROVE RevokedCredentialsStayOut
    OBVIOUS
  <2>1. Cardinality(Active(psecret)) <= 1
    <3>1. CASE Active(psecret) = {}
      BY <3>1, FS_EmptySet
    <3>2. CASE Active(psecret) # {}
      <4>1. PICK i : i \in Active(psecret)
        BY <3>2
      <4>2. Active(psecret) = {i}
        BY <4>1 DEF ProducerInv, RotationLocks
      <4>3. Cardinality({i}) = 1
        BY FS_Singleton, Zenon
      <4>. QED BY <4>2, <4>3
    <3>. QED BY <3>1, <3>2
  <2>2. gone \cap AuthenticateProducerAccessToken = {}
    BY DEF ProducerInv, GoneRevoked, AuthenticateProducerAccessToken, Active
  <2>. QED BY <2>1, <2>2 DEF RevokedCredentialsStayOut
<1>. QED BY InitProducerInv, StepProducerInv, <1>1, PTL DEF ProducerSpec

-----------------------------------------------------------------------------
\* The reviews that lead to each state on the way to activation.
OnPath(state, r) ==
  /\ state = "draft" => r = <<>>
  /\ state = "automated_tests" => r = <<"submit_tests">>
  /\ state = "security_review" => r = <<"submit_tests", "request_review">>
  /\ state = "staging_approved" => r = <<"submit_tests", "request_review", "approve_staging">>
  /\ state = "active" => r = <<"submit_tests", "request_review", "approve_staging", "activate">>

Versions == [state : VersionStates, vectors : BOOLEAN]

Busy(s) == govern[s] # Idle
Activating(s) == Busy(s) /\ govern[s].action = "activate"
IsActive(v) == version[v].state = "active"

AdapterTypeInv ==
  /\ version \in Seq(Versions) /\ reviews \in Seq(Seq(Actions)) /\ Len(reviews) = Len(version)
  /\ govern = [s \in Sessions |-> govern[s]]
  /\ \A s \in Sessions : Busy(s) =>
       /\ DOMAIN govern[s] = {"at", "version", "action", "next", "others"}
       /\ govern[s].at \in {"locked", "ready"} /\ govern[s].version \in DOMAIN version
       /\ govern[s].action \in Actions /\ govern[s].others \subseteq DOMAIN version
  /\ raced \in BOOLEAN

\* A transition in progress holds rows that nobody else holds, and the state it
\* read of its version is still the version's.
LocksHold ==
  /\ \A s, t \in Sessions : s # t => Held(s) \cap Held(t) = {}
  /\ \A s \in Sessions : Busy(s) =>
       govern[s].next \in AdapterVersionNextState(version[govern[s].version].state, govern[s].action)

\* Unless activations overlapped, there is one active version, one activation at
\* a time, and one that is ready has seen every active version.
AloneUnlessRaced ==
  ~raced =>
    /\ \A v, w \in DOMAIN version : IsActive(v) /\ IsActive(w) => v = w
    /\ \A s, t \in Sessions : Activating(s) /\ Activating(t) => s = t
    /\ \A s \in Sessions : Activating(s) /\ govern[s].at = "ready" =>
         \A v \in DOMAIN version : IsActive(v) => v = govern[s].version \/ v \in govern[s].others

AdapterInv ==
  /\ AdapterTypeInv /\ LocksHold /\ AloneUnlessRaced
  /\ \A v \in DOMAIN version : OnPath(version[v].state, reviews[v])

-----------------------------------------------------------------------------
\* Appending to a tuple of one.
LEMMA AppendToOne ==
  ASSUME NEW a, NEW b PROVE Append(<<a>>, b) = <<a, b>>
<1>. DEFINE S == {a, b}
<1>1. <<a>> \in Seq(S) /\ Len(<<a>>) = 1 /\ b \in S
  OBVIOUS
<1>2. <<a, b>> \in Seq(S) /\ Len(<<a, b>>) = 2
  OBVIOUS
<1>3. Append(<<a>>, b) \in Seq(S) /\ Len(Append(<<a>>, b)) = 2
  BY <1>1, AppendProperties
<1>4. \A i \in 1..2 : Append(<<a>>, b)[i] = <<a, b>>[i]
  BY <1>1, AppendProperties
<1>. QED BY <1>2, <1>3, <1>4, SeqEqual, Zenon

\* To a pair.
LEMMA AppendToTwo ==
  ASSUME NEW a, NEW b, NEW c PROVE Append(<<a, b>>, c) = <<a, b, c>>
<1>. DEFINE S == {a, b, c}
<1>1. <<a, b>> \in Seq(S) /\ Len(<<a, b>>) = 2 /\ c \in S
  OBVIOUS
<1>2. <<a, b, c>> \in Seq(S) /\ Len(<<a, b, c>>) = 3
  OBVIOUS
<1>3. Append(<<a, b>>, c) \in Seq(S) /\ Len(Append(<<a, b>>, c)) = 3
  BY <1>1, AppendProperties
<1>4. \A i \in 1..3 : Append(<<a, b>>, c)[i] = <<a, b, c>>[i]
  BY <1>1, AppendProperties
<1>. QED BY <1>2, <1>3, <1>4, SeqEqual, Zenon

\* To a triple.
LEMMA AppendToThree ==
  ASSUME NEW a, NEW b, NEW c, NEW d PROVE Append(<<a, b, c>>, d) = <<a, b, c, d>>
<1>. DEFINE S == {a, b, c, d}
<1>1. <<a, b, c>> \in Seq(S) /\ Len(<<a, b, c>>) = 3 /\ d \in S
  OBVIOUS
<1>2. <<a, b, c, d>> \in Seq(S) /\ Len(<<a, b, c, d>>) = 4
  OBVIOUS
<1>3. Append(<<a, b, c>>, d) \in Seq(S) /\ Len(Append(<<a, b, c>>, d)) = 4
  BY <1>1, AppendProperties
<1>4. \A i \in 1..4 : Append(<<a, b, c>>, d)[i] = <<a, b, c, d>>[i]
  BY <1>1, AppendProperties
<1>. QED BY <1>2, <1>3, <1>4, SeqEqual, Zenon

\* A function on 1..n is a sequence of length n.
LEMMA FunctionIsSeq ==
  ASSUME NEW S, NEW n \in Nat, NEW f \in [1..n -> S] PROVE f \in Seq(S) /\ Len(f) = n
BY SeqDef

\* A transition leads along the path, and only "activate" leads to "active".
LEMMA NextStateOnPath ==
  ASSUME NEW state \in VersionStates, NEW action \in Actions,
         NEW n \in AdapterVersionNextState(state, action), NEW r, OnPath(state, r)
  PROVE  n \in VersionStates /\ (n = "active" <=> action = "activate") /\ OnPath(n, Append(r, action))
<1>1. CASE action = "submit_tests"
  <2>1. state = "draft" /\ n = "automated_tests"
    BY <1>1 DEF AdapterVersionNextState
  <2>2. Append(r, action) = <<"submit_tests">>
    BY <1>1, <2>1 DEF OnPath
  <2>. QED BY <1>1, <2>1, <2>2 DEF OnPath, VersionStates
<1>2. CASE action = "request_review"
  <2>1. state = "automated_tests" /\ n = "security_review"
    BY <1>2 DEF AdapterVersionNextState
  <2>2. Append(r, action) = <<"submit_tests", "request_review">>
    BY <1>2, <2>1, AppendToOne, Zenon DEF OnPath
  <2>. QED BY <1>2, <2>1, <2>2 DEF OnPath, VersionStates
<1>3. CASE action = "approve_staging"
  <2>1. state = "security_review" /\ n = "staging_approved"
    BY <1>3 DEF AdapterVersionNextState
  <2>2. Append(r, action) = <<"submit_tests", "request_review", "approve_staging">>
    BY <1>3, <2>1, AppendToTwo, Zenon DEF OnPath
  <2>. QED BY <1>3, <2>1, <2>2 DEF OnPath, VersionStates
<1>4. CASE action = "activate"
  <2>1. state = "staging_approved" /\ n = "active"
    BY <1>4 DEF AdapterVersionNextState
  <2>2. Append(r, action) = <<"submit_tests", "request_review", "approve_staging", "activate">>
    BY <1>4, <2>1, AppendToThree, Zenon DEF OnPath
  <2>. QED BY <1>4, <2>1, <2>2 DEF OnPath, VersionStates
<1>5. CASE action \in {"deprecate", "retire"}
  <2>1. n \in {"deprecated", "retired"}
    BY <1>5 DEF AdapterVersionNextState
  <2>. QED BY <1>5, <2>1 DEF OnPath, VersionStates
<1>. QED BY <1>1, <1>2, <1>3, <1>4, <1>5 DEF Actions

\* Initially there is no adapter.
LEMMA InitAdapterInv == AdapterInit => AdapterInv
<1>. SUFFICES ASSUME AdapterInit PROVE AdapterInv
  OBVIOUS
<1>1. version = <<>> /\ reviews = <<>> /\ raced = FALSE /\ \A s \in Sessions : ~Busy(s)
  BY DEF AdapterInit, Busy
<1>2. AdapterTypeInv
  <2>1. version \in Seq(Versions) /\ reviews \in Seq(Seq(Actions)) /\ Len(reviews) = Len(version)
    BY <1>1, EmptySeq
  <2>2. govern = [s \in Sessions |-> govern[s]]
    BY DEF AdapterInit
  <2>. QED BY <1>1, <2>1, <2>2, Zenon DEF AdapterTypeInv
<1>3. LocksHold /\ AloneUnlessRaced
  BY <1>1 DEF LocksHold, AloneUnlessRaced, Held, Activating, Busy
<1>. QED BY <1>1, <1>2, <1>3 DEF AdapterInv

\* A step that changes no version's state and no transition, and adds none that
\* is active, keeps the locks and what they protect.
LEMMA StatesSame ==
  ASSUME AdapterInv, UNCHANGED <<govern, raced>>, DOMAIN version \subseteq DOMAIN version',
         \A v \in DOMAIN version : version'[v].state = version[v].state,
         \A v \in DOMAIN version' \ DOMAIN version : version'[v].state # "active"
  PROVE  LocksHold' /\ AloneUnlessRaced'
<1>1. \A s \in Sessions : /\ Held(s)' = Held(s) /\ Busy(s)' = Busy(s)
                         /\ Activating(s)' = Activating(s)
  BY DEF Held, Busy, Activating
<1>2. \A s \in Sessions : Busy(s) =>
        govern'[s] = govern[s] /\ govern[s].version \in DOMAIN version
  BY DEF AdapterInv, AdapterTypeInv
<1>3. LocksHold'
  BY <1>1, <1>2 DEF AdapterInv, LocksHold
<1>4. \A v \in DOMAIN version' : IsActive(v)' => v \in DOMAIN version /\ IsActive(v)
  BY DEF IsActive
<1>5. AloneUnlessRaced'
  BY <1>1, <1>2, <1>4 DEF AdapterInv, AloneUnlessRaced, Activating
<1>. QED BY <1>3, <1>5

\* A new version is a draft without reviews.
LEMMA CreateVersionKeeps == ASSUME AdapterInv, CreateAdapterVersion PROVE AdapterInv'
<1>. DEFINE new == [state |-> "draft", vectors |-> FALSE]
            L == Len(version)
<1>1. /\ version' = Append(version, new) /\ reviews' = Append(reviews, <<>>)
      /\ UNCHANGED <<govern, raced>>
  BY DEF CreateAdapterVersion
<1>2. new \in Versions /\ new.state = "draft" /\ <<>> \in Seq(Actions)
  BY DEF Versions, VersionStates
<1>. HIDE DEF new
<1>3. /\ L \in Nat /\ DOMAIN version = 1..L /\ version' \in Seq(Versions) /\ Len(version') = L + 1
      /\ DOMAIN version' = 1..(L + 1) /\ version'[L + 1] = new
      /\ \A v \in 1..L : version'[v] = version[v]
  BY <1>1, <1>2, AppendProperties, LenProperties DEF AdapterInv, AdapterTypeInv
<1>4. /\ reviews' \in Seq(Seq(Actions)) /\ Len(reviews') = L + 1 /\ reviews'[L + 1] = <<>>
      /\ \A v \in 1..L : reviews'[v] = reviews[v]
  BY <1>1, <1>2, AppendProperties DEF AdapterInv, AdapterTypeInv
<1>5. LocksHold' /\ AloneUnlessRaced'
  BY <1>1, <1>2, <1>3, StatesSame
<1>6. AdapterTypeInv'
  BY <1>1, <1>3, <1>4 DEF AdapterInv, AdapterTypeInv, Busy
<1>7. \A v \in DOMAIN version' : OnPath(version'[v].state, reviews'[v])
  <2>1. OnPath(new.state, <<>>)
    BY <1>2 DEF OnPath
  <2>2. ASSUME NEW v \in 1..L PROVE OnPath(version'[v].state, reviews'[v])
    BY <1>3, <1>4 DEF AdapterInv
  <2>3. OnPath(version'[L + 1].state, reviews'[L + 1])
    BY <1>3, <1>4, <2>1
  <2>4. \A v \in DOMAIN version' : v \in 1..L \/ v = L + 1
    BY <1>3
  <2>. QED BY <2>2, <2>3, <2>4
<1>. QED BY <1>5, <1>6, <1>7 DEF AdapterInv

\* A test vector changes no state.
LEMMA TestVectorKeeps ==
  ASSUME AdapterInv, NEW v \in DOMAIN version, CreateAdapterTestVector(v) PROVE AdapterInv'
<1>. DEFINE new == [version[v] EXCEPT !.vectors = TRUE]
<1>1. version' = [version EXCEPT ![v] = new] /\ UNCHANGED <<reviews, govern, raced>>
  BY DEF CreateAdapterTestVector
<1>2. DOMAIN version = 1..Len(version) /\ version[v] \in Versions
  BY LenProperties, ElementOfSeq DEF AdapterInv, AdapterTypeInv
<1>3. new \in Versions /\ new.state = version[v].state
  BY <1>2, Zenon DEF Versions
<1>. HIDE DEF new
<1>4. /\ version' \in Seq(Versions) /\ Len(version') = Len(version)
      /\ DOMAIN version' = DOMAIN version
      /\ \A w \in DOMAIN version : version'[w] = IF w = v THEN new ELSE version[w]
  BY <1>1, <1>2, <1>3, ExceptSeq DEF AdapterInv, AdapterTypeInv
<1>5. \A w \in DOMAIN version : version'[w].state = version[w].state
  BY <1>3, <1>4
<1>6. LocksHold' /\ AloneUnlessRaced'
  BY <1>1, <1>4, <1>5, StatesSame
<1>7. AdapterTypeInv'
  BY <1>1, <1>4 DEF AdapterInv, AdapterTypeInv, Busy
<1>. QED BY <1>1, <1>4, <1>5, <1>6, <1>7 DEF AdapterInv, OnPath, Busy

\* A session gives up, or never began.
LEMMA AbandonKeeps ==
  ASSUME AdapterInv, NEW s \in Sessions, AbandonTransition(s) PROVE AdapterInv'
<1>1. govern' = [govern EXCEPT ![s] = Idle] /\ UNCHANGED <<version, reviews, raced>>
  BY DEF AbandonTransition
<1>2. /\ govern' = [t \in Sessions |-> govern'[t]] /\ govern'[s] = Idle
      /\ \A t \in Sessions : t # s => govern'[t] = govern[t]
  BY <1>1, Zenon DEF AdapterInv, AdapterTypeInv
<1>3. ~Busy(s)' /\ Held(s)' = {} /\ ~Activating(s)'
  BY <1>2 DEF Busy, Held, Activating
<1>4. \A t \in Sessions : t # s => /\ Busy(t)' = Busy(t) /\ Held(t)' = Held(t)
                                  /\ Activating(t)' = Activating(t)
  BY <1>2 DEF Busy, Held, Activating
<1>5. AdapterTypeInv'
  BY <1>1, <1>2, <1>3, <1>4 DEF AdapterInv, AdapterTypeInv
<1>6. LocksHold'
  BY <1>1, <1>2, <1>3, <1>4 DEF AdapterInv, LocksHold
<1>7. AloneUnlessRaced'
  BY <1>1, <1>2, <1>3, <1>4 DEF AdapterInv, AloneUnlessRaced, IsActive
<1>. QED BY <1>1, <1>2, <1>3, <1>4, <1>5, <1>6, <1>7 DEF AdapterInv, OnPath

\* A transition begins with the lock of a version that nobody holds.
LEMMA TransitionKeeps ==
  ASSUME AdapterInv, NEW s \in Sessions, NEW v \in DOMAIN version, TransitionAdapterVersion(s, v)
  PROVE  AdapterInv'
<1>1. PICK a \in TransitionActions : \E n \in AdapterVersionNextState(version[v].state, a) :
        /\ govern' = [govern EXCEPT ![s] =
             [at |-> IF a = "activate" THEN "locked" ELSE "ready", version |-> v,
              action |-> a, next |-> n, others |-> {}]]
        /\ raced' = (raced \/ /\ a = "activate"
                              /\ \E t \in Sessions \ {s} : govern[t] # Idle /\ govern[t].action = "activate")
  BY Zenon DEF TransitionAdapterVersion
<1>2. PICK n \in AdapterVersionNextState(version[v].state, a) :
        /\ govern' = [govern EXCEPT ![s] =
             [at |-> IF a = "activate" THEN "locked" ELSE "ready", version |-> v,
              action |-> a, next |-> n, others |-> {}]]
        /\ raced' = (raced \/ /\ a = "activate"
                              /\ \E t \in Sessions \ {s} : govern[t] # Idle /\ govern[t].action = "activate")
  BY <1>1, Zenon
<1>3. v \notin LockedFor(s) /\ UNCHANGED <<version, reviews>> /\ a \in Actions
  BY Zenon DEF TransitionAdapterVersion, TransitionActions, TransitionAdapterVersionRequests
<1>. DEFINE g == [at |-> IF a = "activate" THEN "locked" ELSE "ready", version |-> v,
                  action |-> a, next |-> n, others |-> {}]
<1>4. /\ DOMAIN g = {"at", "version", "action", "next", "others"}
      /\ g.at \in {"locked", "ready"} /\ (a = "activate" => g.at = "locked") /\ g.version = v
      /\ g.action = a /\ g.next = n /\ g.others = {} /\ g # Idle
  BY DEF Idle
<1>5. govern' = [govern EXCEPT ![s] = g]
  BY <1>2
<1>. HIDE DEF g
<1>6. /\ govern' = [t \in Sessions |-> govern'[t]] /\ govern'[s] = g
      /\ \A t \in Sessions : t # s => govern'[t] = govern[t]
  BY <1>5, Zenon DEF AdapterInv, AdapterTypeInv
<1>7. Busy(s)' /\ Held(s)' = {v} /\ (Activating(s)' <=> a = "activate")
  BY <1>4, <1>6 DEF Busy, Held, Activating
<1>8. \A t \in Sessions : t # s => /\ Busy(t)' = Busy(t) /\ Held(t)' = Held(t)
                                  /\ Activating(t)' = Activating(t)
  BY <1>6 DEF Busy, Held, Activating
<1>9. raced' \in BOOLEAN /\ (~raced' => ~raced)
      /\ (~raced' /\ a = "activate" => \A t \in Sessions : t # s => ~Activating(t))
  BY <1>2, Zenon DEF Activating, Busy
<1>10. AdapterTypeInv'
  BY <1>3, <1>4, <1>6, <1>7, <1>8, <1>9, Zenon DEF AdapterInv, AdapterTypeInv
<1>11. LocksHold'
  <2>1. \A t \in Sessions : t # s => v \notin Held(t)
    BY <1>3 DEF LockedFor
  <2>. QED BY <1>3, <1>4, <1>6, <1>7, <1>8, <2>1 DEF AdapterInv, LocksHold
<1>12. AloneUnlessRaced'
  <2>. SUFFICES ASSUME ~raced' PROVE
         /\ \A w, x \in DOMAIN version : IsActive(w) /\ IsActive(x) => w = x
         /\ \A t, u \in Sessions : Activating(t)' /\ Activating(u)' => t = u
         /\ \A t \in Sessions : Activating(t)' /\ govern'[t].at = "ready" =>
              \A w \in DOMAIN version : IsActive(w) => w = govern'[t].version \/ w \in govern'[t].others
    BY <1>3 DEF AloneUnlessRaced, IsActive
  <2>. QED BY <1>4, <1>6, <1>7, <1>8, <1>9 DEF AdapterInv, AloneUnlessRaced
<1>13. \A w \in DOMAIN version' : OnPath(version'[w].state, reviews'[w])
  BY <1>3 DEF AdapterInv
<1>. QED BY <1>10, <1>11, <1>12, <1>13 DEF AdapterInv

\* An activation has seen, and holds, every other active version.
LEMMA DeprecateKeeps ==
  ASSUME AdapterInv, NEW s \in Sessions, DeprecateOthers(s) PROVE AdapterInv'
<1>. DEFINE others == {v \in DOMAIN version \ {govern[s].version} : version[v].state = "active"}
            g == [govern[s] EXCEPT !.at = "ready", !.others = others]
<1>1. /\ Busy(s) /\ govern[s].at = "locked" /\ others \cap LockedFor(s) = {}
      /\ UNCHANGED <<version, reviews, raced>>
  BY DEF DeprecateOthers, Busy
<1>2. /\ DOMAIN govern[s] = {"at", "version", "action", "next", "others"}
      /\ govern[s].version \in DOMAIN version /\ govern[s].action \in Actions
  BY <1>1 DEF AdapterInv, AdapterTypeInv
<1>3. /\ DOMAIN g = DOMAIN govern[s] /\ g.at = "ready" /\ g.version = govern[s].version
      /\ g.action = govern[s].action /\ g.next = govern[s].next /\ g.others = others
      /\ g # Idle
  BY <1>2, Zenon DEF Idle
<1>4. govern' = [govern EXCEPT ![s] = g]
  BY Zenon DEF DeprecateOthers, AdapterInv, AdapterTypeInv
<1>5. others \subseteq DOMAIN version /\ \A w \in DOMAIN version :
        IsActive(w) => w = govern[s].version \/ w \in others
  BY DEF IsActive
<1>6. \A t \in Sessions : t # s => others \cap Held(t) = {}
  BY <1>1 DEF LockedFor
<1>. HIDE DEF others, g
<1>7. /\ govern' = [t \in Sessions |-> govern'[t]] /\ govern'[s] = g
      /\ \A t \in Sessions : t # s => govern'[t] = govern[t]
  BY <1>4, Zenon DEF AdapterInv, AdapterTypeInv
<1>8. Busy(s)' /\ Held(s)' \subseteq Held(s) \cup others /\ Activating(s)' = Activating(s)
  BY <1>1, <1>3, <1>7 DEF Busy, Held, Activating
<1>9. \A t \in Sessions : t # s => /\ Busy(t)' = Busy(t) /\ Held(t)' = Held(t)
                                  /\ Activating(t)' = Activating(t)
  BY <1>7 DEF Busy, Held, Activating
<1>10. AdapterTypeInv'
  BY <1>1, <1>2, <1>3, <1>5, <1>7, <1>8, <1>9, Zenon DEF AdapterInv, AdapterTypeInv
<1>11. LocksHold'
  <2>1. \A t, u \in Sessions : t # u => Held(t)' \cap Held(u)' = {}
    BY <1>6, <1>8, <1>9 DEF AdapterInv, LocksHold
  <2>. QED BY <1>1, <1>3, <1>7, <1>8, <1>9, <2>1 DEF AdapterInv, LocksHold
<1>12. AloneUnlessRaced'
  <2>. SUFFICES ASSUME ~raced PROVE
         /\ \A w, x \in DOMAIN version : IsActive(w) /\ IsActive(x) => w = x
         /\ \A t, u \in Sessions : Activating(t)' /\ Activating(u)' => t = u
         /\ \A t \in Sessions : Activating(t)' /\ govern'[t].at = "ready" =>
              \A w \in DOMAIN version : IsActive(w) => w = govern'[t].version \/ w \in govern'[t].others
    BY <1>1 DEF AloneUnlessRaced, IsActive
  <2>. QED BY <1>3, <1>5, <1>7, <1>8, <1>9 DEF AdapterInv, AloneUnlessRaced
<1>13. \A w \in DOMAIN version' : OnPath(version'[w].state, reviews'[w])
  BY <1>1 DEF AdapterInv
<1>. QED BY <1>10, <1>11, <1>12, <1>13 DEF AdapterInv

\* A commit moves its own version one step along the path and takes the others
\* it holds out of use; nobody else's version changes.
LEMMA CommitKeeps ==
  ASSUME AdapterInv, NEW s \in Sessions, CommitTransition(s) PROVE AdapterInv'
<1>. DEFINE own == govern[s].version
            next == govern[s].next
            act == govern[s].action
            others == govern[s].others
            row(v) == [version[v] EXCEPT !.state = IF v = own THEN next
                         ELSE IF v \in others THEN "deprecated" ELSE @]
<1>1. /\ Busy(s) /\ govern[s].at = "ready" /\ raced' = raced
      /\ version' = [v \in DOMAIN version |-> row(v)]
      /\ reviews' = [reviews EXCEPT ![own] = Append(@, act)]
      /\ govern' = [govern EXCEPT ![s] = Idle]
  BY DEF CommitTransition, Busy
<1>2. /\ version \in Seq(Versions) /\ reviews \in Seq(Seq(Actions)) /\ Len(reviews) = Len(version)
      /\ DOMAIN version = 1..Len(version) /\ Len(version) \in Nat /\ DOMAIN reviews = DOMAIN version
  BY LenProperties DEF AdapterInv, AdapterTypeInv
<1>3. own \in DOMAIN version /\ act \in Actions /\ others \subseteq DOMAIN version
      /\ next \in AdapterVersionNextState(version[own].state, act)
  <2>1. own \in DOMAIN version /\ act \in Actions /\ others \subseteq DOMAIN version
    BY <1>1 DEF AdapterInv, AdapterTypeInv
  <2>2. next \in AdapterVersionNextState(version[own].state, act)
    BY <1>1 DEF AdapterInv, LocksHold
  <2>. QED BY <2>1, <2>2
<1>4. version[own] \in Versions /\ version[own].state \in VersionStates /\ reviews[own] \in Seq(Actions)
  <2>1. version[own] \in Versions
    BY <1>2, <1>3, ElementOfSeq
  <2>2. reviews[own] \in Seq(Actions)
    BY <1>2, <1>3, ElementOfSeq
  <2>. QED BY <2>1, <2>2 DEF Versions
<1>5. /\ next \in VersionStates /\ (next = "active" <=> act = "activate")
      /\ OnPath(next, Append(reviews[own], act))
  BY <1>3, <1>4, NextStateOnPath DEF AdapterInv
<1>6. \A v \in DOMAIN version :
        /\ row(v) \in Versions
        /\ row(v).state = IF v = own THEN next ELSE IF v \in others THEN "deprecated" ELSE version[v].state
  <2>. SUFFICES ASSUME NEW v \in DOMAIN version PROVE
        /\ row(v) \in Versions
        /\ row(v).state = IF v = own THEN next ELSE IF v \in others THEN "deprecated" ELSE version[v].state
    OBVIOUS
  <2>1. version[v] \in Versions
    BY <1>2, ElementOfSeq
  <2>. QED BY <2>1, <1>5 DEF Versions, VersionStates
<1>. HIDE DEF own, next, act, others, row
<1>7. /\ DOMAIN version' = DOMAIN version /\ version' \in Seq(Versions) /\ Len(version') = Len(version)
      /\ \A v \in DOMAIN version : version'[v] = row(v)
  <2>1. version' = [v \in 1..Len(version) |-> row(v)]
    BY <1>1, <1>2
  <2>2. version' \in [1..Len(version) -> Versions]
    BY <2>1, <1>2, <1>6
  <2>. DEFINE L == Len(version)
  <2>5. L \in Nat /\ version' \in [1..L -> Versions]
    BY <2>2, <1>2
  <2>. HIDE DEF L
  <2>3. version' \in Seq(Versions) /\ Len(version') = L
    BY <2>5, FunctionIsSeq
  <2>4. Len(version') = Len(version)
    BY <2>3 DEF L
  <2>. QED BY <2>1, <2>3, <2>4, <1>2
<1>8. /\ reviews' \in Seq(Seq(Actions)) /\ Len(reviews') = Len(version)
      /\ reviews'[own] = Append(reviews[own], act)
      /\ \A v \in DOMAIN version : v # own => reviews'[v] = reviews[v]
  <2>1. Append(reviews[own], act) \in Seq(Actions)
    BY <1>3, <1>4, AppendProperties
  <2>. QED BY <1>1, <1>2, <1>3, <2>1, ExceptSeq
<1>9. \A v \in DOMAIN version : OnPath(version'[v].state, reviews'[v])
  <2>. SUFFICES ASSUME NEW v \in DOMAIN version PROVE OnPath(version'[v].state, reviews'[v])
    OBVIOUS
  <2>1. CASE v = own
    BY <2>1, <1>5, <1>6, <1>7, <1>8
  <2>2. CASE v # own /\ v \in others
    <3>1. version'[v].state = "deprecated"
      BY <2>2, <1>6, <1>7
    <3>. QED BY <3>1 DEF OnPath
  <2>3. CASE v # own /\ v \notin others
    <3>1. version'[v].state = version[v].state /\ reviews'[v] = reviews[v]
      BY <2>3, <1>6, <1>7, <1>8
    <3>. QED BY <3>1 DEF AdapterInv
  <2>. QED BY <2>1, <2>2, <2>3
<1>10. /\ govern' = [t \in Sessions |-> govern'[t]] /\ govern'[s] = Idle
       /\ \A t \in Sessions : t # s => govern'[t] = govern[t]
  BY <1>1, Zenon DEF AdapterInv, AdapterTypeInv
<1>11. ~Busy(s)' /\ Held(s)' = {} /\ ~Activating(s)'
  BY <1>10 DEF Busy, Held, Activating
<1>12. \A t \in Sessions : t # s => /\ Busy(t)' = Busy(t) /\ Held(t)' = Held(t)
                                   /\ Activating(t)' = Activating(t)
  BY <1>10 DEF Busy, Held, Activating
<1>13. AdapterTypeInv'
  BY <1>1, <1>7, <1>8, <1>10, <1>11, <1>12 DEF AdapterInv, AdapterTypeInv
<1>14. LocksHold'
  <2>1. ASSUME NEW t \in Sessions, t # s, Busy(t)
        PROVE  /\ govern[t].version \in DOMAIN version
               /\ version'[govern[t].version].state = version[govern[t].version].state
    <3>1. govern[t].version \in Held(t) /\ Held(s) = {own} \cup others
      BY <1>1, <2>1 DEF Held, Busy, own, others
    <3>2. govern[t].version \notin {own} \cup others /\ govern[t].version \in DOMAIN version
      BY <2>1, <3>1 DEF AdapterInv, LocksHold, AdapterTypeInv
    <3>. QED BY <3>2, <1>6, <1>7
  <2>. QED BY <1>10, <1>11, <1>12, <2>1 DEF AdapterInv, LocksHold
<1>15. AloneUnlessRaced'
  <2>. SUFFICES ASSUME ~raced PROVE
         /\ \A w, x \in DOMAIN version : IsActive(w)' /\ IsActive(x)' => w = x
         /\ \A t, u \in Sessions : Activating(t)' /\ Activating(u)' => t = u
         /\ \A t \in Sessions : Activating(t)' /\ govern'[t].at = "ready" =>
              \A w \in DOMAIN version : IsActive(w)' => w = govern'[t].version \/ w \in govern'[t].others
    BY <1>1, <1>7 DEF AloneUnlessRaced
  <2>1. \A t, u \in Sessions : Activating(t)' /\ Activating(u)' => t = u
    BY <1>11, <1>12 DEF AdapterInv, AloneUnlessRaced
  <2>2. \A w \in DOMAIN version : IsActive(w)' =>
          (w = own /\ act = "activate") \/ (w # own /\ w \notin others /\ IsActive(w))
    BY <1>5, <1>6, <1>7 DEF IsActive
  <2>3. CASE act = "activate"
    <3>1. Activating(s)
      BY <1>1, <2>3 DEF Activating, act
    <3>2. \A w \in DOMAIN version : IsActive(w) => w = own \/ w \in others
      BY <1>1, <3>1 DEF AdapterInv, AloneUnlessRaced, own, others
    <3>3. \A t \in Sessions : ~Activating(t)'
      BY <1>11, <1>12, <3>1 DEF AdapterInv, AloneUnlessRaced
    <3>. QED BY <2>1, <2>2, <3>2, <3>3
  <2>4. CASE act # "activate"
    <3>1. \A w \in DOMAIN version : IsActive(w)' => IsActive(w)
      BY <2>2, <2>4
    <3>. QED BY <1>10, <1>11, <1>12, <2>1, <3>1 DEF AdapterInv, AloneUnlessRaced
  <2>. QED BY <2>3, <2>4
<1>. QED BY <1>7, <1>9, <1>13, <1>14, <1>15 DEF AdapterInv

\* Every step keeps the invariant.
LEMMA StepAdapterInv == AdapterInv /\ [AdapterNext]_adapterVars => AdapterInv'
<1>. SUFFICES ASSUME AdapterInv, [AdapterNext]_adapterVars PROVE AdapterInv'
  OBVIOUS
<1>1. CASE CreateProviderAdapter \/ UNCHANGED adapterVars
  <2>1. UNCHANGED <<version, reviews, govern, raced>>
    BY <1>1 DEF CreateProviderAdapter, adapterVars
  <2>. QED BY <2>1 DEF AdapterInv, AdapterTypeInv, LocksHold, AloneUnlessRaced, OnPath, Held, Busy,
                       Activating, IsActive
<1>2. CASE CreateAdapterVersion
  BY <1>2, CreateVersionKeeps
<1>3. ASSUME NEW v \in DOMAIN version, CreateAdapterTestVector(v) PROVE AdapterInv'
  BY <1>3, TestVectorKeeps
<1>4. ASSUME NEW s \in Sessions, NEW v \in DOMAIN version, TransitionAdapterVersion(s, v)
      PROVE  AdapterInv'
  BY <1>4, TransitionKeeps
<1>5. ASSUME NEW s \in Sessions, DeprecateOthers(s) PROVE AdapterInv'
  BY <1>5, DeprecateKeeps
<1>6. ASSUME NEW s \in Sessions, CommitTransition(s) PROVE AdapterInv'
  BY <1>6, CommitKeeps
<1>7. ASSUME NEW s \in Sessions, AbandonTransition(s) PROVE AdapterInv'
  BY <1>7, AbandonKeeps
<1>. QED BY <1>1, <1>2, <1>3, <1>4, <1>5, <1>6, <1>7 DEF AdapterNext

\* What TransitionAdapterVersion's row lock buys: an active version went through
\* tests, review, approval and activation and nothing else, and is the only one
\* unless two activations overlapped.
THEOREM GovernanceHolds == AdapterSpec => []ActiveWasReviewed
<1>1. AdapterInv => ActiveWasReviewed
  BY DEF AdapterInv, ActiveWasReviewed, AloneUnlessRaced, OnPath, IsActive, AdapterTypeInv
<1>. QED BY <1>1, InitAdapterInv, StepAdapterInv, PTL DEF AdapterSpec
=============================================================================
