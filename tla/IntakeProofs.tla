---------------------------- MODULE IntakeProofs ----------------------------
(***************************************************************************)
(* Sources, endpoints and capture, proved for any number of sessions,      *)
(* versions, captures and releases.                                        *)
(***************************************************************************)
EXTENDS SourceConfig, Ingest, FiniteSetTheorems, SequenceTheorems, TLAPS

-----------------------------------------------------------------------------
(* Sources and endpoints: secrets and config versions stay in step, and     *)
(* rotations overlap.                                                      *)

SourceSecretStates == {"active", "previous", "expired"}

\* What an open transaction t has read, where the config versions are 1..m.  A
\* rotation whose number is still free has seen the secret that is active now.
TxOK(t, m) ==
  \/ t = Idle
  \/ t.at = "updating" /\ t.st \in ActiveOrDisabled
  \/ t.at = "numbered" /\ t.st \in ActiveOrDisabled /\ t.v \in 1..(m + 1)
  \/ /\ t.at \in {"read", "waiting", "demoted"}
     /\ t.n.v \in 1..(Len(secret) + 1) /\ t.n.grace \in Nat \ {0}
     /\ t.at = "waiting" /\ t.n.v = Len(secret) + 1 => t.snap = {Len(secret)}
     /\ t.at = "demoted" /\ t.n.v = Len(secret) + 1 => t.demote = {Len(secret)}

\* Before the resource is created nobody works on it; from then on the newest
\* secret is the active one.
SourceInv ==
  /\ row \in ActiveOrDisabled \cup {"none"}
  /\ secret \in Seq(SourceSecretStates)
  /\ dbtx = [s \in Sessions |-> dbtx[s]]
  /\ row = "none" => secret = <<>> /\ config = {} /\ \A s \in Sessions : dbtx[s] = Idle
  /\ row # "none" => Len(secret) > 0 /\ ActiveSecrets = {Len(secret)}
  /\ \E m \in Nat : /\ config = 1..m /\ Len(secret) <= m
                    /\ \A s \in Sessions : TxOK(dbtx[s], m)

-----------------------------------------------------------------------------
(* Capture: what was answered is durable, and a key's event is routed once. *)

\* Without gaps, the next config version is one more than there are.
LEMMA NextVersion ==
  ASSUME NEW m \in Nat, config = 1..m
  PROVE  NextConfigVersion = m + 1
<1>1. CASE m = 0
  BY <1>1 DEF NextConfigVersion, MaxOr0
<1>2. CASE m > 0
  <2>1. m \in 1..m /\ \A y \in 1..m : m >= y
    BY <1>2
  <2>2. \A x \in 1..m : (\A y \in 1..m : x >= y) => x = m
    BY <1>2
  <2>3. Max(1..m) = m
    BY <2>1, <2>2 DEF Max
  <2>. QED BY <1>2, <2>3 DEF NextConfigVersion, MaxOr0
<1>. QED BY <1>1, <1>2

\* Initially there is no resource.
LEMMA InitSourceInv == SourceInit => SourceInv
<1>. SUFFICES ASSUME SourceInit PROVE SourceInv
  OBVIOUS
<1>1. config = 1..0 /\ Len(secret) <= 0
  BY DEF SourceInit
<1>2. \A s \in Sessions : TxOK(dbtx[s], 0)
  BY DEF SourceInit, TxOK
<1>. QED BY <1>1, <1>2 DEF SourceInit, SourceInv, SourceSecretStates

\* A transaction that writes nothing yet.
LEMMA OpenKeeps ==
  ASSUME SourceInv, NEW s \in Sessions, NEW t, Open(s, t), row # "none",
         \A m \in Nat : config = 1..m /\ Len(secret) <= m => TxOK(t, m)
  PROVE  SourceInv'
<1>1. UNCHANGED <<row, secret, config>> /\ dbtx' = [dbtx EXCEPT ![s] = t]
  BY DEF Open
<1>2. /\ dbtx'[s] = t /\ dbtx' = [u \in Sessions |-> dbtx'[u]]
      /\ \A u \in Sessions : u # s => dbtx'[u] = dbtx[u]
  BY <1>1 DEF SourceInv
<1>3. PICK m \in Nat : config = 1..m /\ Len(secret) <= m /\ \A u \in Sessions : TxOK(dbtx[u], m)
  BY DEF SourceInv
<1>4. \A u \in Sessions : TxOK(dbtx'[u], m)
  BY <1>2, <1>3
<1>5. \A u \in Sessions : TxOK(dbtx[u], m)'
  BY <1>1, <1>4 DEF TxOK
<1>6. ActiveSecrets' = ActiveSecrets
  BY <1>1 DEF ActiveSecrets
<1>. QED BY <1>1, <1>2, <1>3, <1>5, <1>6 DEF SourceInv

\* The resource is created with secret version 1 and config version 1.
LEMMA InsertedKeeps == ASSUME SourceInv, Inserted PROVE SourceInv'
<1>1. /\ row = "none" /\ row' = "active" /\ secret' = <<"active">>
      /\ config' = config \cup {1} /\ dbtx' = dbtx
  BY DEF Inserted, InsertConfigVersion
<1>2. secret' \in Seq(SourceSecretStates) /\ Len(secret') = 1 /\ DOMAIN secret' = 1..1 /\ secret'[1] = "active"
  BY <1>1 DEF SourceSecretStates
<1>3. ActiveSecrets' = {Len(secret')}
  BY <1>2 DEF ActiveSecrets
<1>4. config' = 1..1 /\ \A s \in Sessions : dbtx'[s] = Idle
  BY <1>1 DEF SourceInv
<1>5. \A s \in Sessions : TxOK(dbtx[s], 1)'
  BY <1>4 DEF TxOK
<1>6. row' \in ActiveOrDisabled /\ row' # "none" /\ dbtx' = [s \in Sessions |-> dbtx'[s]]
  BY <1>1 DEF ActiveOrDisabled, SourceInv
<1>. QED BY <1>2, <1>3, <1>4, <1>5, <1>6 DEF SourceInv

\* An update keeps or sets a state, never "none".
LEMMA BeginUpdateKeeps ==
  ASSUME SourceInv, NEW s \in Sessions, NEW q, q.state \in ActiveOrDisabled \cup {""}, BeginUpdate(s, q)
  PROVE  SourceInv'
<1>. DEFINE t == [at |-> "updating", st |-> NewState(q, row)]
<1>1. row # "none" /\ Open(s, t)
  BY Zenon DEF BeginUpdate
<1>2. t.at = "updating" /\ t.st \in ActiveOrDisabled
  BY <1>1, Zenon DEF NewState, SourceInv
<1>. HIDE DEF t
<1>3. \A m \in Nat : TxOK(t, m)
  BY <1>2, Zenon DEF TxOK
<1>. QED BY <1>1, <1>3, OpenKeeps, Zenon

\* The four operations that lock the row and update it.
LEMMA UpdatesKeep ==
  ASSUME SourceInv, NEW s \in Sessions,
         UpdateSource(s) \/ DeleteSource(s) \/ UpdateEndpoint(s) \/ DeleteEndpoint(s)
  PROVE  SourceInv'
<1>1. CASE UpdateSource(s)
  <2>1. PICK q \in UpdateSourceRequests : BeginUpdate(s, q)
    BY <1>1 DEF UpdateSource
  <2>2. q.state \in ActiveOrDisabled \cup {""}
    BY Zenon DEF UpdateSourceRequests, Updates, ActiveOrDisabled
  <2>. QED BY <2>1, <2>2, BeginUpdateKeeps, Zenon
<1>2. CASE DeleteSource(s)
  <2>1. PICK q \in DeleteSourceRequests : BeginUpdate(s, q)
    BY <1>2 DEF DeleteSource
  <2>2. q.state \in ActiveOrDisabled \cup {""}
    BY Zenon DEF DeleteSourceRequests, StateChanges, ActiveOrDisabled
  <2>. QED BY <2>1, <2>2, BeginUpdateKeeps, Zenon
<1>3. CASE UpdateEndpoint(s)
  <2>1. PICK q \in UpdateEndpointRequests : BeginUpdate(s, q[1])
    BY <1>3 DEF UpdateEndpoint
  <2>2. q[1].state \in ActiveOrDisabled \cup {""}
    BY Zenon DEF UpdateEndpointRequests, Updates, ActiveOrDisabled
  <2>. QED BY <2>1, <2>2, BeginUpdateKeeps, Zenon
<1>4. CASE DeleteEndpoint(s)
  <2>1. PICK q \in DeleteEndpointRequests : BeginUpdate(s, q)
    BY <1>4 DEF DeleteEndpoint
  <2>2. q.state \in ActiveOrDisabled \cup {""}
    BY Zenon DEF DeleteEndpointRequests, StateChanges, ActiveOrDisabled
  <2>. QED BY <2>1, <2>2, BeginUpdateKeeps, Zenon
<1>. QED BY <1>1, <1>2, <1>3, <1>4

\* A session in a transaction works on an existing resource.
LEMMA BusyExists ==
  ASSUME SourceInv, NEW s \in Sessions, dbtx[s] # Idle PROVE row # "none"
BY DEF SourceInv

\* The update numbers its config version.
LEMMA NumberKeeps ==
  ASSUME SourceInv, NEW s \in Sessions, NumberUpdate(s) PROVE SourceInv'
<1>. DEFINE t == [at |-> "numbered", st |-> dbtx[s].st, v |-> NextConfigVersion]
<1>1. dbtx[s].at = "updating" /\ Open(s, t)
  BY DEF NumberUpdate
<1>2. row # "none" /\ dbtx[s].st \in ActiveOrDisabled
  BY <1>1, BusyExists DEF SourceInv, TxOK, Idle
<1>3. t.at = "numbered" /\ t.st \in ActiveOrDisabled /\ t.v = NextConfigVersion
  BY <1>2
<1>. HIDE DEF t
<1>4. \A m \in Nat : config = 1..m => TxOK(t, m)
  BY <1>3, NextVersion DEF TxOK
<1>. QED BY <1>1, <1>2, <1>4, OpenKeeps

\* The config version is inserted with the number read before, which is at most
\* the next one.
LEMMA CommitUpdateKeeps ==
  ASSUME SourceInv, NEW s \in Sessions, CommitUpdate(s) PROVE SourceInv'
<1>1. /\ dbtx[s].at = "numbered" /\ row' = dbtx[s].st /\ config' = config \cup {dbtx[s].v}
      /\ dbtx' = [dbtx EXCEPT ![s] = Idle] /\ secret' = secret
  BY DEF CommitUpdate, InsertConfigVersion, Commit
<1>2. PICK m \in Nat : config = 1..m /\ Len(secret) <= m /\ \A u \in Sessions : TxOK(dbtx[u], m)
  BY DEF SourceInv
<1>3. row # "none" /\ row' \in ActiveOrDisabled /\ dbtx[s].v \in 1..(m + 1)
  BY <1>1, <1>2, BusyExists DEF TxOK, Idle
<1>4. PICK n \in Nat : m <= n /\ config' = 1..n
  <2>1. CASE dbtx[s].v = m + 1
    <3>1. config' = 1..(m + 1)
      BY <1>1, <1>2, <2>1
    <3>. QED BY <3>1
  <2>2. CASE dbtx[s].v # m + 1
    <3>1. config' = 1..m
      BY <1>1, <1>2, <1>3, <2>2
    <3>. QED BY <3>1
  <2>. QED BY <2>1, <2>2
<1>5. /\ dbtx'[s] = Idle /\ dbtx' = [u \in Sessions |-> dbtx'[u]]
      /\ \A u \in Sessions : u # s => dbtx'[u] = dbtx[u]
  BY <1>1 DEF SourceInv
<1>6. ASSUME NEW u \in Sessions PROVE TxOK(dbtx[u], n)'
  <2>1. TxOK(dbtx[u], m)
    BY <1>2
  <2>. QED BY <1>1, <1>4, <1>5, <2>1 DEF TxOK
<1>7. ActiveSecrets' = ActiveSecrets /\ Len(secret') <= n /\ row' # "none"
  BY <1>1, <1>2, <1>3, <1>4, LenProperties DEF ActiveSecrets, ActiveOrDisabled, SourceInv
<1>. QED BY <1>1, <1>3, <1>4, <1>5, <1>6, <1>7 DEF SourceInv

\* A rotation reads the next secret version and has a grace period.
LEMMA BeginRotationKeeps ==
  ASSUME SourceInv, NEW s \in Sessions, NEW hours \in 0..720, BeginRotation(s, hours)
  PROVE  SourceInv'
<1>. DEFINE t == [at |-> "read", n |-> NextSecretVersion(hours)]
<1>1. row # "none" /\ Open(s, t)
  BY DEF BeginRotation
<1>2. t.at = "read" /\ t.n.v = Len(secret) + 1 /\ t.n.grace \in Nat \ {0}
  BY DEF NextSecretVersion
<1>3. Len(secret) \in Nat
  BY LenProperties DEF SourceInv
<1>. HIDE DEF t
<1>4. \A m \in Nat : TxOK(t, m)
  BY <1>2, <1>3 DEF TxOK
<1>. QED BY <1>1, <1>4, OpenKeeps

\* The two rotations of a secret.
LEMMA RotationsKeep ==
  ASSUME SourceInv, NEW s \in Sessions, RotateSourceSecret(s) \/ RotateEndpointSecret(s)
  PROVE  SourceInv'
<1>1. PICK hours \in 0..720 : BeginRotation(s, hours)
  <2>1. CASE RotateSourceSecret(s)
    BY <2>1 DEF RotateSourceSecret, RotateSourceSecretRequests
  <2>2. CASE RotateEndpointSecret(s)
    BY <2>2 DEF RotateEndpointSecret, RotateEndpointSecretRequests
  <2>. QED BY <2>1, <2>2
<1>. QED BY <1>1, BeginRotationKeeps

\* What TxOK says of a session that rotates.
LEMMA Rotating ==
  ASSUME SourceInv, NEW s \in Sessions, dbtx[s].at \in {"read", "waiting", "demoted"}
  PROVE  /\ row # "none" /\ ActiveSecrets = {Len(secret)} /\ Len(secret) \in Nat
         /\ dbtx[s].n.v \in 1..(Len(secret) + 1) /\ dbtx[s].n.grace \in Nat \ {0}
         /\ dbtx[s].at = "waiting" /\ dbtx[s].n.v = Len(secret) + 1 => dbtx[s].snap = {Len(secret)}
         /\ dbtx[s].at = "demoted" /\ dbtx[s].n.v = Len(secret) + 1 => dbtx[s].demote = {Len(secret)}
<1>1. dbtx[s] # Idle /\ row # "none"
  BY BusyExists DEF Idle
<1>2. PICK m \in Nat : TxOK(dbtx[s], m)
  BY DEF SourceInv
<1>. QED BY <1>1, <1>2, LenProperties DEF TxOK, SourceInv

\* The demoting UPDATE takes its snapshot.
LEMMA SelectActiveKeeps ==
  ASSUME SourceInv, NEW s \in Sessions, SelectActive(s) PROVE SourceInv'
<1>. DEFINE t == [at |-> "waiting", n |-> dbtx[s].n, snap |-> ActiveSecrets]
<1>1. dbtx[s].at = "read" /\ Open(s, t)
  BY DEF SelectActive
<1>2. t.at = "waiting" /\ t.n = dbtx[s].n /\ t.snap = ActiveSecrets
  OBVIOUS
<1>. HIDE DEF t
<1>3. \A m \in Nat : TxOK(t, m)
  BY <1>1, <1>2, Rotating DEF TxOK
<1>. QED BY <1>1, <1>3, Rotating, OpenKeeps

\* It demotes the rows of the snapshot that are still active.
LEMMA DemoteActiveKeeps ==
  ASSUME SourceInv, NEW s \in Sessions, DemoteActive(s) PROVE SourceInv'
<1>. DEFINE t == [at |-> "demoted", n |-> dbtx[s].n, demote |-> dbtx[s].snap \cap ActiveSecrets]
<1>1. dbtx[s].at = "waiting" /\ Open(s, t)
  BY DEF DemoteActive
<1>2. t.at = "demoted" /\ t.n = dbtx[s].n /\ t.demote = dbtx[s].snap \cap ActiveSecrets
  OBVIOUS
<1>. HIDE DEF t
<1>3. \A m \in Nat : TxOK(t, m)
  BY <1>1, <1>2, Rotating DEF TxOK
<1>. QED BY <1>1, <1>3, Rotating, OpenKeeps

\* The new secret follows the newest, which is the one that was demoted.
LEMMA InsertEffect ==
  ASSUME SourceInv, NEW s \in Sessions, InsertSecret(s)
  PROVE  /\ dbtx[s].at = "demoted" /\ dbtx[s].n.v = Len(secret) + 1
         /\ secret' \in Seq(SourceSecretStates) /\ Len(secret') = Len(secret) + 1
         /\ secret'[Len(secret) + 1] = "active" /\ secret'[Len(secret)] = "previous"
         /\ \A i \in 1..Len(secret) : i # Len(secret) => secret'[i] = secret[i]
<1>. DEFINE L == Len(secret)
            old == [i \in DOMAIN secret |->
                      IF i \notin dbtx[s].demote THEN secret[i]
                      ELSE IF dbtx[s].n.grace > 0 THEN "previous" ELSE "expired"]
<1>1. /\ dbtx[s].at = "demoted" /\ dbtx[s].n.v \notin DOMAIN secret
      /\ secret' = Append(old, "active")
  BY DEF InsertSecret, InsertsSecret
<1>2. DOMAIN secret = 1..L /\ L \in Nat /\ secret \in [1..L -> SourceSecretStates] /\ L > 0
  BY <1>1, Rotating, LenProperties DEF SourceInv
<1>3. dbtx[s].n.v = L + 1 /\ dbtx[s].demote = {L} /\ dbtx[s].n.grace > 0
  BY <1>1, <1>2, Rotating
<1>4. /\ old = [i \in 1..L |-> old[i]] /\ old[L] = "previous"
      /\ \A i \in 1..L : old[i] \in SourceSecretStates /\ (i # L => old[i] = secret[i])
  <2>1. old = [i \in 1..L |-> old[i]]
    BY <1>2
  <2>2. L \in DOMAIN secret /\ old[L] = "previous"
    BY <1>2, <1>3
  <2>3. ASSUME NEW i \in 1..L, i # L PROVE old[i] = secret[i] /\ secret[i] \in SourceSecretStates
    BY <1>2, <1>3, <2>3
  <2>4. "previous" \in SourceSecretStates
    BY DEF SourceSecretStates
  <2>. HIDE DEF old
  <2>. QED BY <2>1, <2>2, <2>3, <2>4
<1>. HIDE DEF old
<1>5. old \in Seq(SourceSecretStates) /\ Len(old) = L
  <2>1. old \in [1..L -> SourceSecretStates]
    BY <1>4
  <2>. HIDE DEF L
  <2>. QED BY <1>2, <2>1, SeqDef
<1>6. "active" \in SourceSecretStates
  BY DEF SourceSecretStates
<1>7. /\ secret' \in Seq(SourceSecretStates) /\ Len(secret') = L + 1
      /\ secret'[L + 1] = "active" /\ \A i \in 1..L : secret'[i] = old[i]
  BY <1>1, <1>5, <1>6, AppendProperties
<1>8. secret'[L] = "previous" /\ \A i \in 1..L : i # L => secret'[i] = secret[i]
  BY <1>2, <1>4, <1>7
<1>. QED BY <1>1, <1>3, <1>7, <1>8, Zenon

\* The rotation commits: other rotations that read the same number have lost it.
LEMMA InsertSecretKeeps ==
  ASSUME SourceInv, NEW s \in Sessions, InsertSecret(s) PROVE SourceInv'
<1>. DEFINE L == Len(secret)
<1>1. /\ config' = config \cup {dbtx[s].n.v} /\ dbtx' = [dbtx EXCEPT ![s] = Idle] /\ row' = row
  BY DEF InsertSecret, InsertsSecret, InsertConfigVersion, Commit
<1>2. row # "none" /\ L \in Nat /\ ActiveSecrets = {L} /\ L > 0 /\ DOMAIN secret = 1..L
  BY InsertEffect, Rotating, LenProperties DEF SourceInv
<1>3. PICK m \in Nat : config = 1..m /\ L <= m /\ \A u \in Sessions : TxOK(dbtx[u], m)
  BY DEF SourceInv
<1>4. PICK n \in Nat : m <= n /\ config' = 1..n /\ L + 1 <= n
  <2>1. dbtx[s].n.v = L + 1
    BY InsertEffect
  <2>2. CASE L = m
    <3>1. config' = 1..(m + 1)
      BY <1>1, <1>3, <2>1, <2>2
    <3>. QED BY <2>2, <3>1
  <2>3. CASE L < m
    <3>1. config' = 1..m
      BY <1>1, <1>2, <1>3, <2>1, <2>3
    <3>. QED BY <1>2, <2>3, <3>1
  <2>4. L \in Nat /\ L <= m
    BY <1>2, <1>3
  <2>. HIDE DEF L
  <2>5. L = m \/ L < m
    BY <2>4
  <2>. QED BY <2>2, <2>3, <2>5
<1>5. /\ dbtx'[s] = Idle /\ dbtx' = [u \in Sessions |-> dbtx'[u]]
      /\ \A u \in Sessions : u # s => dbtx'[u] = dbtx[u]
  BY <1>1 DEF SourceInv
<1>6. Len(secret') = L + 1 /\ secret' \in Seq(SourceSecretStates)
  BY InsertEffect
<1>7. ASSUME NEW u \in Sessions PROVE TxOK(dbtx[u], n)'
  <2>1. TxOK(dbtx[u], m)
    BY <1>3
  <2>2. CASE u = s
    BY <1>5, <2>2 DEF TxOK
  <2>3. CASE u # s
    <3>1. dbtx'[u] = dbtx[u]
      BY <1>5, <2>3
    <3>. QED BY <1>2, <1>4, <1>6, <2>1, <3>1 DEF TxOK
  <2>. QED BY <2>2, <2>3
<1>8. ActiveSecrets' = {L + 1}
  <2>1. DOMAIN secret' = 1..(L + 1)
    BY <1>6, LenProperties
  <2>2. \A i \in 1..L : secret'[i] # "active"
    <3>1. \A i \in 1..L : i # L => secret[i] # "active"
      BY <1>2, Zenon DEF ActiveSecrets
    <3>. QED BY <3>1, InsertEffect
  <2>3. secret'[L + 1] = "active"
    BY InsertEffect
  <2>. QED BY <1>2, <2>1, <2>2, <2>3 DEF ActiveSecrets
<1>. QED BY <1>1, <1>2, <1>4, <1>5, <1>6, <1>7, <1>8 DEF SourceInv

\* A transaction is rolled back.
LEMMA RollbackKeeps ==
  ASSUME SourceInv, NEW s \in Sessions, Rollback(s) PROVE SourceInv'
<1>1. dbtx[s] # Idle /\ Open(s, Idle) /\ row # "none"
  BY BusyExists DEF Rollback
<1>2. \A m \in Nat : TxOK(Idle, m)
  BY DEF TxOK
<1>. QED BY <1>1, <1>2, OpenKeeps

\* A grace period ends: the active secret is not concerned.
LEMMA GraceExpiryKeeps == ASSUME SourceInv, GraceExpires PROVE SourceInv'
<1>1. PICK v \in DOMAIN secret : secret[v] = "previous" /\ secret' = [secret EXCEPT ![v] = "expired"]
  BY Zenon DEF GraceExpires
<1>2. UNCHANGED <<row, config, dbtx>>
  BY DEF GraceExpires
<1>3. DOMAIN secret = 1..Len(secret) /\ "expired" \in SourceSecretStates
  BY LenProperties DEF SourceInv, SourceSecretStates
<1>4. secret' \in Seq(SourceSecretStates) /\ Len(secret') = Len(secret)
  BY <1>1, <1>3, ExceptSeq DEF SourceInv
<1>5. ActiveSecrets' = ActiveSecrets
  BY <1>1 DEF ActiveSecrets
<1>6. \A m \in Nat, u \in Sessions : TxOK(dbtx[u], m) => TxOK(dbtx[u], m)'
  BY <1>2, <1>4 DEF TxOK
<1>7. secret # <<>>
  BY <1>1
<1>. QED BY <1>2, <1>4, <1>5, <1>6, <1>7 DEF SourceInv

\* Every step keeps the invariant.
LEMMA StepSourceInv == SourceInv /\ [SourceNext]_sourceVars => SourceInv'
<1>. SUFFICES ASSUME SourceInv, [SourceNext]_sourceVars PROVE SourceInv'
  OBVIOUS
<1>1. CASE CreateSource \/ CreateEndpoint
  BY <1>1, InsertedKeeps DEF CreateSource, CreateEndpoint
<1>2. CASE UNCHANGED sourceVars
  BY <1>2 DEF sourceVars, SourceInv, TxOK, ActiveSecrets
<1>. QED BY <1>1, <1>2, GraceExpiryKeeps, UpdatesKeep, RotationsKeep, NumberKeeps, CommitUpdateKeeps,
            SelectActiveKeeps, DemoteActiveKeeps, InsertSecretKeeps, RollbackKeeps DEF SourceNext

-----------------------------------------------------------------------------
\* However updates and rotations interleave, the newest secret is the only active
\* one, and the config versions have no gap and cover the secret versions.
THEOREM VersionsStayInStep == SourceSpec => []VersionsInStep
<1>1. SourceInv => VersionsInStep
  <2>. SUFFICES ASSUME SourceInv PROVE VersionsInStep
    OBVIOUS
  <2>1. PICK m \in Nat : config = 1..m /\ Len(secret) <= m
    BY DEF SourceInv
  <2>2. Cardinality(1..m) = m
    BY FS_Interval
  <2>. QED BY <2>1, <2>2 DEF SourceInv, VersionsInStep
<1>. QED BY InitSourceInv, StepSourceInv, <1>1, PTL DEF SourceSpec

\* No step takes the secret that was active out of those a source still accepts:
\* a rotation leaves it its grace period, which is never zero.
THEOREM RotationsOverlap == SourceSpec => RotationOverlaps
<1>1. ASSUME SourceInv, [SourceNext]_sourceVars
      PROVE  [ActiveSecrets \subseteq SourceVerificationSecrets']_sourceVars
  <2>1. CASE secret' = secret
    BY <2>1 DEF ActiveSecrets, SourceVerificationSecrets
  <2>2. CASE CreateSource \/ CreateEndpoint
    <3>1. ActiveSecrets = {}
      BY <2>2, <1>1 DEF CreateSource, CreateEndpoint, Inserted, SourceInv, ActiveSecrets
    <3>. QED BY <3>1
  <2>3. CASE GraceExpires
    BY <2>3, <1>1 DEF GraceExpires, ActiveSecrets, SourceVerificationSecrets
  <2>4. ASSUME NEW s \in Sessions, InsertSecret(s)
        PROVE  ActiveSecrets \subseteq SourceVerificationSecrets'
    <3>1. ActiveSecrets = {Len(secret)} /\ Len(secret) \in Nat /\ Len(secret) > 0
      BY <1>1, <2>4, InsertEffect, Rotating DEF SourceInv
    <3>2. DOMAIN secret' = 1..(Len(secret) + 1) /\ secret'[Len(secret)] = "previous"
      BY <1>1, <2>4, InsertEffect, LenProperties
    <3>. QED BY <3>1, <3>2 DEF SourceVerificationSecrets
  <2>5. ASSUME NEW s \in Sessions,
               \/ UpdateSource(s) \/ DeleteSource(s) \/ RotateSourceSecret(s)
               \/ UpdateEndpoint(s) \/ DeleteEndpoint(s) \/ RotateEndpointSecret(s)
               \/ NumberUpdate(s) \/ CommitUpdate(s)
               \/ SelectActive(s) \/ DemoteActive(s) \/ Rollback(s)
        PROVE  secret' = secret
    BY <2>5 DEF UpdateSource, DeleteSource, RotateSourceSecret, UpdateEndpoint, DeleteEndpoint,
                RotateEndpointSecret, BeginUpdate, BeginRotation, NumberUpdate, CommitUpdate,
                SelectActive, DemoteActive, Rollback, Open
  <2>6. CASE UNCHANGED sourceVars
    BY <2>6
  <2>. QED BY <1>1, <2>1, <2>2, <2>3, <2>4, <2>5, <2>6 DEF SourceNext
<1>. QED BY InitSourceInv, StepSourceInv, <1>1, PTL DEF SourceSpec, RotationOverlaps

-----------------------------------------------------------------------------
\* The captures of key k whose quarantine entry was approved.
Approved(k) ==
  {c \in DOMAIN captured : captured[c].choice.key = k /\ quarantine[c] = "approved"}

\* A capture that a session is in the middle of is its own, has its object, and
\* is neither answered nor quarantined yet.
HandlersOwn ==
  /\ \A s \in Sessions : handler[s] # 0 =>
       /\ handler[s] \in objects /\ handler[s] \notin answered
       /\ quarantine[handler[s]] = "none"
  /\ \A s, t \in Sessions : handler[s] # 0 /\ handler[s] = handler[t] => s = t

\* Only captures that have arrived are quarantined, and their key has an event.
QuarantinedHaveEvents ==
  /\ Len(captured) <= MaxCaptures
  /\ \A c \in 1..MaxCaptures : quarantine[c] # "none" =>
       c \in DOMAIN captured /\ event[captured[c].choice.key] # 0

\* Event and outbox row are inserted by one transaction.
RoutedIffCreated == \A k \in Keys : event[k] = 0 <=> routed[k] = 0

IngestInv ==
  /\ IngestTypeOK /\ HandlersOwn /\ QuarantinedHaveEvents /\ RoutedIffCreated
  /\ AnsweredIsDurable
  /\ \A k \in Keys : routed[k] <= 1 + Cardinality(Approved(k))

-----------------------------------------------------------------------------
\* A capture's key is one of Keys.
LEMMA KeyOfCapture ==
  ASSUME IngestTypeOK, NEW c \in DOMAIN captured
  PROVE  /\ captured[c] \in [choice : CaptureChoices, row : {"none", "stored"}]
         /\ captured[c].choice \in CaptureChoices
         /\ captured[c].choice.key \in Keys
         /\ captured[c].row \in {"none", "stored"}
<1>. DEFINE Rows == [choice : CaptureChoices, row : {"none", "stored"}]
<1>1. captured \in Seq(Rows)
  BY DEF IngestTypeOK
<1>. HIDE DEF Rows
<1>2. captured[c] \in Rows
  BY <1>1, ElementOfSeq
<1>. QED BY <1>2 DEF Keys, Rows

\* Initially nothing was captured.
LEMMA InitIngestInv == IngestInit => IngestInv
<1>. SUFFICES ASSUME IngestInit PROVE IngestInv
  OBVIOUS
<1>. USE IngestAssumption DEF IngestInit
<1>1. IngestTypeOK
  BY DEF IngestTypeOK
<1>2. HandlersOwn /\ QuarantinedHaveEvents /\ RoutedIffCreated /\ AnsweredIsDurable
  BY DEF HandlersOwn, QuarantinedHaveEvents, RoutedIffCreated, AnsweredIsDurable
<1>3. ASSUME NEW k \in Keys PROVE routed[k] <= 1 + Cardinality(Approved(k))
  <2>1. Approved(k) = {}
    BY DEF Approved
  <2>. QED BY <2>1, FS_EmptySet
<1>. QED BY <1>1, <1>2, <1>3 DEF IngestInv

\* The approved captures of a key are finitely many.
LEMMA ApprovedFinite ==
  ASSUME IngestTypeOK, NEW k
  PROVE  IsFiniteSet(Approved(k)) /\ Cardinality(Approved(k)) \in Nat
<1>1. Len(captured) \in Nat /\ DOMAIN captured = 1..Len(captured)
  BY DEF IngestTypeOK
<1>2. IsFiniteSet(1..Len(captured))
  BY <1>1, FS_Interval
<1>3. Approved(k) \subseteq 1..Len(captured)
  BY <1>1 DEF Approved
<1>. QED BY <1>2, <1>3, FS_Subset, FS_CardinalityType

\* The transaction of a capture keeps the choices of all, stores its own row,
\* and gives its key an event and an outbox row unless it had them.
LEMMA TxEffect ==
  ASSUME IngestInv, NEW s \in Sessions, handler[s] # 0, CaptureTx(s)
  PROVE  /\ captured' \in Seq([choice : CaptureChoices, row : {"none", "stored"}])
         /\ Len(captured') = Len(captured) /\ DOMAIN captured' = DOMAIN captured
         /\ \A c \in DOMAIN captured : captured'[c].choice = captured[c].choice
         /\ \A c \in DOMAIN captured : captured[c].row = "stored" => captured'[c].row = "stored"
         /\ handler[s] \in DOMAIN captured /\ captured'[handler[s]].row = "stored"
         /\ event' \in [Keys -> 0..MaxCaptures] /\ routed' \in [Keys -> 0..MaxReleases]
         /\ \A k \in Keys : event[k] # 0 => event'[k] # 0 /\ routed'[k] = routed[k]
         /\ \A k \in Keys : event[k] = 0 => \/ event'[k] = 0 /\ routed'[k] = 0
                                            \/ event'[k] # 0 /\ routed'[k] = 1
         /\ event'[Choice(s).key] # 0
         /\ envelope' \subseteq Keys
         /\ quarantine' \in [1..MaxCaptures -> {"none", "open", "approved", "rejected"}]
         /\ \A c \in 1..MaxCaptures : quarantine'[c] = quarantine[c]
                                      \/ (c = handler[s] /\ quarantine'[c] = "open")
<1>. DEFINE h == handler[s]
            key == captured[h].choice.key
<1>1. h \in DOMAIN captured /\ h \in 1..MaxCaptures
  BY DEF IngestInv, HandlersOwn, IngestTypeOK
<1>2. key \in Keys
  BY <1>1, KeyOfCapture DEF IngestInv
<1>3. /\ captured' = [captured EXCEPT ![h].row = "stored"]
      /\ event' = IF event[key] = 0 THEN [event EXCEPT ![key] = h] ELSE event
      /\ routed' = IF event[key] = 0 THEN [routed EXCEPT ![key] = @ + 1] ELSE routed
      /\ envelope' = IF event[key] = 0 /\ captured[h].choice.normalized
                     THEN envelope \cup {key} ELSE envelope
      /\ quarantine' = IF captured[h].choice.verified THEN quarantine
                       ELSE [quarantine EXCEPT ![h] = "open"]
  BY DEF CaptureTx, Choice
<1>4. /\ captured' \in Seq([choice : CaptureChoices, row : {"none", "stored"}])
      /\ Len(captured') = Len(captured) /\ DOMAIN captured' = DOMAIN captured
      /\ \A c \in DOMAIN captured : captured'[c].choice = captured[c].choice
      /\ \A c \in DOMAIN captured : captured[c].row = "stored" => captured'[c].row = "stored"
      /\ captured'[h].row = "stored"
  <2>. DEFINE Rows == [choice : CaptureChoices, row : {"none", "stored"}]
              new == [captured[h] EXCEPT !.row = "stored"]
  <2>1. captured \in Seq(Rows)
    BY DEF IngestInv, IngestTypeOK
  <2>2. captured' = [captured EXCEPT ![h] = new]
    BY <1>1, <1>3
  <2>3. captured[h] \in Rows
    BY <1>1, KeyOfCapture DEF IngestInv
  <2>4. new \in Rows /\ new.row = "stored" /\ new.choice = captured[h].choice
    BY <2>3
  <2>. HIDE DEF Rows, new
  <2>5. captured' \in Seq(Rows) /\ Len(captured') = Len(captured)
    BY <1>1, <2>1, <2>2, <2>4, ExceptSeq
  <2>6. DOMAIN captured' = DOMAIN captured
    BY <2>2
  <2>7. \A c \in DOMAIN captured : captured'[c] = IF c = h THEN new ELSE captured[c]
    BY <2>2
  <2>. QED BY <1>1, <2>4, <2>5, <2>6, <2>7 DEF Rows
<1>5. /\ event' \in [Keys -> 0..MaxCaptures] /\ event'[key] # 0
      /\ \A k \in Keys : event[k] # 0 => event'[k] = event[k]
      /\ \A k \in Keys : k # key => event'[k] = event[k]
  BY <1>1, <1>2, <1>3, IngestAssumption DEF IngestInv, IngestTypeOK
<1>6. /\ routed' \in [Keys -> 0..MaxReleases]
      /\ \A k \in Keys : event[k] # 0 => routed'[k] = routed[k]
      /\ event[key] = 0 => routed'[key] = 1
      /\ \A k \in Keys : k # key => routed'[k] = routed[k]
  BY <1>2, <1>3, IngestAssumption DEF IngestInv, IngestTypeOK, RoutedIffCreated
<1>7. envelope' \subseteq Keys
  BY <1>2, <1>3 DEF IngestInv, IngestTypeOK
<1>8. /\ quarantine' \in [1..MaxCaptures -> {"none", "open", "approved", "rejected"}]
      /\ \A c \in 1..MaxCaptures : quarantine'[c] = quarantine[c]
                                   \/ (c = handler[s] /\ quarantine'[c] = "open")
  <2>1. quarantine' = quarantine \/ quarantine' = [quarantine EXCEPT ![h] = "open"]
    BY <1>3, Zenon
  <2>2. quarantine \in [1..MaxCaptures -> {"none", "open", "approved", "rejected"}]
    BY DEF IngestInv, IngestTypeOK
  <2>3. CASE quarantine' = quarantine
    BY <2>2, <2>3, Zenon
  <2>4. CASE quarantine' = [quarantine EXCEPT ![h] = "open"]
    <3>1. quarantine' \in [1..MaxCaptures -> {"none", "open", "approved", "rejected"}]
      BY <2>2, <2>4, Zenon
    <3>2. \A c \in 1..MaxCaptures : c # h => quarantine'[c] = quarantine[c]
      BY <2>2, <2>4
    <3>3. quarantine'[h] = "open"
      BY <1>1, <2>2, <2>4
    <3>. QED BY <3>1, <3>2, <3>3, Zenon
  <2>. QED BY <2>1, <2>3, <2>4
<1>9. \A k \in Keys : event[k] = 0 => \/ event'[k] = 0 /\ routed'[k] = 0
                                      \/ event'[k] # 0 /\ routed'[k] = 1
  BY <1>5, <1>6 DEF IngestInv, RoutedIffCreated
<1>. QED BY <1>1, <1>4, <1>5, <1>6, <1>7, <1>8, <1>9 DEF Choice

\* A session ends a capture whose transaction committed: the answer is given only
\* where the object stays.
LEMMA CommittedKeeps ==
  ASSUME IngestInv, NEW s \in Sessions, handler[s] # 0, CaptureTx(s), Done(s),
         objects' \in {objects, objects \ {handler[s]}},
         answered' = answered \/ (answered' = answered \cup {handler[s]} /\ objects' = objects)
  PROVE  IngestInv'
<1>. DEFINE h == handler[s]
<1>1. /\ handler' \in [Sessions -> 0..MaxCaptures] /\ handler'[s] = 0
      /\ \A t \in Sessions : t # s => handler'[t] = handler[t]
  BY IngestAssumption DEF Done, IngestInv, IngestTypeOK
<1>2. h \in DOMAIN captured /\ h \in objects /\ h \notin answered /\ quarantine[h] = "none"
  BY TxEffect DEF IngestInv, HandlersOwn
<1>3. IngestTypeOK'
  BY <1>1, <1>2, TxEffect DEF IngestInv, IngestTypeOK
<1>4. HandlersOwn'
  <2>1. ASSUME NEW t \in Sessions, handler'[t] # 0
        PROVE  /\ handler'[t] = handler[t] /\ handler[t] # h /\ handler[t] \in 1..MaxCaptures
               /\ handler[t] \in objects' /\ handler[t] \notin answered'
               /\ quarantine'[handler[t]] = "none"
    <3>1. handler'[t] = handler[t] /\ handler[t] # h /\ handler[t] \in 1..MaxCaptures
      BY <1>1, <2>1 DEF IngestInv, HandlersOwn, IngestTypeOK
    <3>2. quarantine'[handler[t]] = quarantine[handler[t]]
      BY <3>1, TxEffect
    <3>. QED BY <2>1, <3>1, <3>2 DEF IngestInv, HandlersOwn
  <2>. QED BY <2>1 DEF IngestInv, HandlersOwn
<1>5. QuarantinedHaveEvents'
  <2>1. Len(captured') <= MaxCaptures
    BY TxEffect DEF IngestInv, QuarantinedHaveEvents
  <2>2. ASSUME NEW c \in 1..MaxCaptures, quarantine'[c] # "none"
        PROVE  c \in DOMAIN captured' /\ event'[captured'[c].choice.key] # 0
    <3>1. CASE c = h
      BY <1>2, <3>1, TxEffect DEF Choice
    <3>2. CASE c # h
      <4>1. quarantine[c] # "none"
        BY <2>2, <3>2, TxEffect
      <4>2. c \in DOMAIN captured /\ event[captured[c].choice.key] # 0
        BY <4>1 DEF IngestInv, QuarantinedHaveEvents
      <4>3. captured[c].choice.key \in Keys
        BY <4>2, KeyOfCapture DEF IngestInv
      <4>. QED BY <4>2, <4>3, TxEffect
    <3>. QED BY <3>1, <3>2
  <2>. QED BY <2>1, <2>2 DEF QuarantinedHaveEvents
<1>6. RoutedIffCreated'
  <2>1. ASSUME NEW k \in Keys PROVE event'[k] = 0 <=> routed'[k] = 0
    <3>1. event[k] = 0 <=> routed[k] = 0
      BY DEF IngestInv, RoutedIffCreated
    <3>2. CASE event[k] = 0
      <4>1. (event'[k] = 0 /\ routed'[k] = 0) \/ (event'[k] # 0 /\ routed'[k] = 1)
        BY <3>2, TxEffect, Zenon
      <4>. QED BY <4>1
    <3>3. CASE event[k] # 0
      <4>1. event'[k] # 0 /\ routed'[k] = routed[k]
        BY <3>3, TxEffect
      <4>. QED BY <3>1, <3>3, <4>1
    <3>. QED BY <3>2, <3>3
  <2>. QED BY <2>1 DEF RoutedIffCreated
<1>7. AnsweredIsDurable'
  <2>1. ASSUME NEW c \in answered'
        PROVE  /\ captured'[c].row = "stored" /\ c \in objects'
               /\ event'[captured'[c].choice.key] # 0 /\ routed'[captured'[c].choice.key] > 0
    <3>1. c \in DOMAIN captured /\ c \in objects' /\ captured'[c].row = "stored"
      BY <1>2, <2>1, TxEffect DEF IngestInv, AnsweredIsDurable, IngestTypeOK
    <3>2. captured'[c].choice = captured[c].choice /\ captured[c].choice.key \in Keys
      BY <3>1, TxEffect, KeyOfCapture DEF IngestInv
    <3>3. event'[captured[c].choice.key] # 0
      <4>1. CASE c = h
        BY <4>1, TxEffect DEF Choice
      <4>2. CASE c # h
        <5>1. event[captured[c].choice.key] # 0
          BY <2>1, <4>2 DEF IngestInv, AnsweredIsDurable
        <5>. QED BY <3>2, <5>1, TxEffect
      <4>. QED BY <4>1, <4>2
    <3>4. routed'[captured[c].choice.key] \in Nat
      BY <1>3, <3>2, IngestAssumption DEF IngestTypeOK
    <3>. QED BY <1>6, <3>1, <3>2, <3>3, <3>4 DEF RoutedIffCreated
  <2>. QED BY <2>1 DEF AnsweredIsDurable
<1>8. ASSUME NEW k \in Keys PROVE routed'[k] <= 1 + Cardinality(Approved(k)')
  <2>1. \A c \in DOMAIN captured : quarantine'[c] = "approved" <=> quarantine[c] = "approved"
    <3>1. \A c \in DOMAIN captured : c \in 1..MaxCaptures
      <4>1. Len(captured) \in Nat /\ DOMAIN captured = 1..Len(captured)
        BY LenProperties DEF IngestInv, IngestTypeOK
      <4>. QED BY <4>1, IngestAssumption DEF IngestInv, QuarantinedHaveEvents
    <3>2. \A c \in 1..MaxCaptures : quarantine'[c] = quarantine[c]
                                    \/ (c = h /\ quarantine'[c] = "open")
      BY TxEffect
    <3>. QED BY <1>2, <3>1, <3>2
  <2>2. Approved(k)' = Approved(k)
    BY <2>1, TxEffect DEF Approved
  <2>3. routed[k] <= 1 + Cardinality(Approved(k)) /\ Cardinality(Approved(k)) \in Nat
    BY ApprovedFinite DEF IngestInv
  <2>4. routed'[k] = routed[k] \/ routed'[k] = 1 \/ routed'[k] = 0
    BY TxEffect
  <2>. QED BY <2>2, <2>3, <2>4
<1>. QED BY <1>3, <1>4, <1>5, <1>6, <1>7, <1>8 DEF IngestInv

\* A session ends a capture whose transaction did not commit.
LEMMA RolledBackKeeps ==
  ASSUME IngestInv, NEW s \in Sessions, handler[s] # 0, Done(s),
         objects' \in {objects, objects \ {handler[s]}},
         UNCHANGED <<captured, event, envelope, routed, quarantine, answered>>
  PROVE  IngestInv'
<1>1. /\ handler' \in [Sessions -> 0..MaxCaptures] /\ handler'[s] = 0
      /\ \A t \in Sessions : t # s => handler'[t] = handler[t]
  BY IngestAssumption DEF Done, IngestInv, IngestTypeOK
<1>2. IngestTypeOK'
  BY <1>1 DEF IngestInv, IngestTypeOK
<1>3. HandlersOwn'
  BY <1>1 DEF IngestInv, HandlersOwn
<1>4. AnsweredIsDurable'
  BY DEF IngestInv, HandlersOwn, AnsweredIsDurable
<1>5. QuarantinedHaveEvents' /\ RoutedIffCreated'
  BY DEF IngestInv, QuarantinedHaveEvents, RoutedIffCreated
<1>6. \A k \in Keys : routed'[k] <= 1 + Cardinality(Approved(k)')
  BY DEF IngestInv, Approved
<1>. QED BY <1>2, <1>3, <1>4, <1>5, <1>6 DEF IngestInv

\* A new capture is nobody else's.
LEMMA CaptureKeeps ==
  ASSUME IngestInv, NEW s \in Sessions, Capture(s)
  PROVE  IngestInv'
<1>. DEFINE Rows == [choice : CaptureChoices, row : {"none", "stored"}]
            n == Len(captured) + 1
<1>1. PICK c \in CaptureChoices : captured' = Append(captured, [choice |-> c, row |-> "none"])
  BY DEF Capture
<1>2. [choice |-> c, row |-> "none"] \in Rows /\ captured \in Seq(Rows)
  BY DEF IngestInv, IngestTypeOK
<1>. HIDE DEF Rows
<1>3. /\ Len(captured) \in Nat /\ DOMAIN captured = 1..Len(captured)
      /\ captured' \in Seq(Rows) /\ Len(captured') = n /\ DOMAIN captured' = 1..n
      /\ \A i \in DOMAIN captured : captured'[i] = captured[i]
  BY <1>1, <1>2, AppendProperties, LenProperties
<1>4. n \in 1..MaxCaptures /\ n \notin DOMAIN captured /\ quarantine[n] = "none"
  BY <1>3, IngestAssumption DEF Capture, IngestInv, QuarantinedHaveEvents
<1>5. /\ objects' = objects \cup {n} /\ handler' = [handler EXCEPT ![s] = n]
      /\ UNCHANGED <<event, envelope, routed, quarantine, answered>>
  BY <1>3 DEF Capture
<1>6. /\ handler' \in [Sessions -> 0..MaxCaptures] /\ handler'[s] = n
      /\ \A t \in Sessions : t # s => handler'[t] = handler[t]
  BY <1>4, <1>5 DEF IngestInv, IngestTypeOK
<1>7. IngestTypeOK'
  BY <1>3, <1>5, <1>6 DEF IngestInv, IngestTypeOK, Rows
<1>8. HandlersOwn'
  <2>1. n \notin answered /\ \A t \in Sessions : handler[t] # n
    BY <1>4 DEF IngestInv, HandlersOwn, IngestTypeOK
  <2>. QED BY <1>4, <1>5, <1>6, <2>1 DEF IngestInv, HandlersOwn
<1>9. QuarantinedHaveEvents'
  BY <1>3, <1>4, <1>5 DEF IngestInv, QuarantinedHaveEvents
<1>10. RoutedIffCreated'
  BY <1>5 DEF IngestInv, RoutedIffCreated
<1>11. AnsweredIsDurable'
  BY <1>3, <1>5 DEF IngestInv, AnsweredIsDurable, IngestTypeOK
<1>12. ASSUME NEW k \in Keys PROVE routed'[k] <= 1 + Cardinality(Approved(k)')
  <2>1. Approved(k)' = Approved(k)
    BY <1>3, <1>4, <1>5 DEF Approved
  <2>. QED BY <1>5, <2>1 DEF IngestInv
<1>. QED BY <1>7, <1>8, <1>9, <1>10, <1>11, <1>12 DEF IngestInv

\* An approval counts itself: it adds one entry to the approved ones of its key
\* and at most one outbox row.
LEMMA ApproveKeeps ==
  ASSUME IngestInv, ApproveQuarantine
  PROVE  IngestInv'
<1>1. PICK c \in DOMAIN captured, q \in ApproveQuarantineRequests :
        /\ quarantine[c] = "open"
        /\ q.route => routed[captured[c].choice.key] < MaxReleases
        /\ quarantine' = [quarantine EXCEPT ![c] = "approved"]
        /\ routed' = IF q.route THEN [routed EXCEPT ![captured[c].choice.key] = @ + 1] ELSE routed
  BY Zenon DEF ApproveQuarantine
<1>. DEFINE key == captured[c].choice.key
<1>2. key \in Keys
  BY KeyOfCapture DEF IngestInv
<1>3. UNCHANGED <<captured, objects, event, envelope, answered, handler>>
  BY DEF ApproveQuarantine
<1>4. c \in 1..MaxCaptures /\ event[key] # 0
  <2>1. c \in 1..MaxCaptures
    BY LenProperties, IngestAssumption DEF IngestInv, IngestTypeOK, QuarantinedHaveEvents
  <2>. QED BY <1>1, <2>1 DEF IngestInv, QuarantinedHaveEvents
<1>5. /\ quarantine' \in [1..MaxCaptures -> {"none", "open", "approved", "rejected"}]
      /\ quarantine'[c] = "approved"
      /\ \A d \in 1..MaxCaptures : d # c => quarantine'[d] = quarantine[d]
  BY <1>1, <1>4 DEF IngestInv, IngestTypeOK
<1>6. /\ routed' \in [Keys -> 0..MaxReleases]
      /\ \A k \in Keys : k # key => routed'[k] = routed[k]
      /\ routed'[key] = routed[key] \/ routed'[key] = routed[key] + 1
  <2>1. CASE q.route
    BY <1>1, <1>2, <2>1, IngestAssumption DEF IngestInv, IngestTypeOK
  <2>2. CASE ~q.route
    BY <1>1, <1>2, <2>2 DEF IngestInv, IngestTypeOK
  <2>. QED BY <2>1, <2>2
<1>7. IngestTypeOK'
  BY <1>3, <1>5, <1>6 DEF IngestInv, IngestTypeOK
<1>8. HandlersOwn'
  BY <1>1, <1>3, <1>5 DEF IngestInv, HandlersOwn, IngestTypeOK
<1>9. QuarantinedHaveEvents'
  BY <1>3, <1>4, <1>5 DEF IngestInv, QuarantinedHaveEvents
<1>10. RoutedIffCreated'
  BY <1>2, <1>3, <1>4, <1>6 DEF IngestInv, RoutedIffCreated, IngestTypeOK
<1>11. AnsweredIsDurable'
  <2>1. ASSUME NEW d \in answered PROVE routed'[captured[d].choice.key] > 0
    <3>1. captured[d].choice.key \in Keys /\ routed[captured[d].choice.key] > 0
      BY KeyOfCapture DEF IngestInv, AnsweredIsDurable, IngestTypeOK
    <3>2. \A k \in Keys : routed[k] \in Nat
      BY IngestAssumption DEF IngestInv, IngestTypeOK
    <3>. QED BY <1>6, <3>1, <3>2
  <2>. QED BY <1>3, <2>1 DEF IngestInv, AnsweredIsDurable
<1>12. ASSUME NEW k \in Keys PROVE routed'[k] <= 1 + Cardinality(Approved(k)')
  <2>1. /\ routed[k] <= 1 + Cardinality(Approved(k)) /\ routed[k] \in Nat
        /\ IsFiniteSet(Approved(k)) /\ Cardinality(Approved(k)) \in Nat
    BY ApprovedFinite, IngestAssumption DEF IngestInv, IngestTypeOK
  <2>2. DOMAIN captured \subseteq 1..MaxCaptures
    BY LenProperties, IngestAssumption DEF IngestInv, IngestTypeOK, QuarantinedHaveEvents
  <2>3. CASE k = key
    <3>1. Approved(k)' = Approved(k) \cup {c} /\ c \notin Approved(k)
      BY <1>1, <1>3, <1>5, <2>2, <2>3 DEF Approved
    <3>2. Cardinality(Approved(k)') = Cardinality(Approved(k)) + 1
      BY <2>1, <3>1, FS_AddElement, Zenon
    <3>. QED BY <1>6, <2>1, <2>3, <3>2
  <2>4. CASE k # key
    <3>1. Approved(k)' = Approved(k)
      BY <1>3, <1>5, <2>2, <2>4 DEF Approved
    <3>. QED BY <1>6, <2>1, <2>4, <3>1
  <2>. QED BY <2>3, <2>4
<1>. QED BY <1>7, <1>8, <1>9, <1>10, <1>11, <1>12 DEF IngestInv

\* A rejection touches one open entry.
LEMMA RejectKeeps ==
  ASSUME IngestInv, RejectQuarantine
  PROVE  IngestInv'
<1>1. PICK c \in DOMAIN captured :
        quarantine[c] = "open" /\ quarantine' = [quarantine EXCEPT ![c] = "rejected"]
  BY Zenon DEF RejectQuarantine
<1>2. UNCHANGED <<captured, objects, event, envelope, routed, answered, handler>>
  BY DEF RejectQuarantine
<1>3. DOMAIN captured \subseteq 1..MaxCaptures
  BY LenProperties, IngestAssumption DEF IngestInv, IngestTypeOK, QuarantinedHaveEvents
<1>4. /\ quarantine' \in [1..MaxCaptures -> {"none", "open", "approved", "rejected"}]
      /\ quarantine'[c] = "rejected"
      /\ \A d \in 1..MaxCaptures : d # c => quarantine'[d] = quarantine[d]
  BY <1>1, <1>3 DEF IngestInv, IngestTypeOK
<1>5. IngestTypeOK'
  BY <1>2, <1>4 DEF IngestInv, IngestTypeOK
<1>6. HandlersOwn'
  BY <1>1, <1>2, <1>4 DEF IngestInv, HandlersOwn, IngestTypeOK
<1>7. QuarantinedHaveEvents'
  BY <1>1, <1>2, <1>3, <1>4 DEF IngestInv, QuarantinedHaveEvents
<1>8. RoutedIffCreated' /\ AnsweredIsDurable'
  BY <1>2 DEF IngestInv, RoutedIffCreated, AnsweredIsDurable
<1>9. ASSUME NEW k \in Keys PROVE routed'[k] <= 1 + Cardinality(Approved(k)')
  <2>1. Approved(k)' = Approved(k)
    BY <1>1, <1>2, <1>3, <1>4 DEF Approved
  <2>. QED BY <1>2, <2>1 DEF IngestInv
<1>. QED BY <1>5, <1>6, <1>7, <1>8, <1>9 DEF IngestInv

\* Every step of capture and quarantine keeps the invariant.
LEMMA StepIngestInv == IngestInv /\ [IngestNext]_ingestVars => IngestInv'
<1>. SUFFICES ASSUME IngestInv, [IngestNext]_ingestVars PROVE IngestInv'
  OBVIOUS
<1>1. ASSUME NEW s \in Sessions, CaptureCommits(s) PROVE IngestInv'
  <2>1. answered' = answered \/ (answered' = answered \cup {handler[s]} /\ objects' = objects)
    BY <1>1, Zenon DEF CaptureCommits
  <2>. QED BY <1>1, <2>1, CommittedKeeps DEF CaptureCommits
<1>2. ASSUME NEW s \in Sessions, CommitReportedFailed(s) PROVE IngestInv'
  <2>1. CASE CaptureTx(s)
    BY <1>2, <2>1, CommittedKeeps DEF CommitReportedFailed
  <2>2. CASE UNCHANGED <<captured, event, envelope, routed, quarantine>>
    BY <1>2, <2>2, RolledBackKeeps DEF CommitReportedFailed
  <2>. QED BY <1>2, <2>1, <2>2 DEF CommitReportedFailed
<1>3. ASSUME NEW s \in Sessions, CaptureFails(s) PROVE IngestInv'
  BY <1>3, RolledBackKeeps DEF CaptureFails
<1>4. ASSUME NEW s \in Sessions, CaptureCrashes(s) PROVE IngestInv'
  <2>1. CASE CaptureTx(s)
    BY <1>4, <2>1, CommittedKeeps DEF CaptureCrashes
  <2>2. CASE UNCHANGED <<captured, event, envelope, routed, quarantine>>
    BY <1>4, <2>2, RolledBackKeeps DEF CaptureCrashes
  <2>. QED BY <1>4, <2>1, <2>2 DEF CaptureCrashes
<1>5. CASE UNCHANGED ingestVars
  <2>1. \A k \in Keys : Approved(k)' = Approved(k)
    BY <1>5 DEF ingestVars, Approved
  <2>. QED BY <1>5, <2>1 DEF ingestVars, IngestInv, IngestTypeOK, HandlersOwn, QuarantinedHaveEvents,
                            RoutedIffCreated, AnsweredIsDurable
<1>. QED BY <1>1, <1>2, <1>3, <1>4, <1>5, CaptureKeeps, ApproveKeeps, RejectKeeps DEF IngestNext

-----------------------------------------------------------------------------
\* Whatever fails, crashes or is reported failed around it, a capture that was
\* answered with 2xx has its raw row, its object, its event and an outbox row.
THEOREM AnswersAreDurable == IngestSpec => []AnsweredIsDurable
<1>1. IngestInv => AnsweredIsDurable
  BY DEF IngestInv
<1>. QED BY InitIngestInv, StepIngestInv, <1>1, PTL DEF IngestSpec

\* However many redeliveries race, one key's event is handed to the outbox once,
\* and once more at most for each approved quarantine entry.
THEOREM KeysRoutedOnce == IngestSpec => []RoutedOncePerKey
<1>1. IngestInv => RoutedOncePerKey
  BY DEF IngestInv, RoutedOncePerKey, Approved
<1>. QED BY InitIngestInv, StepIngestInv, <1>1, PTL DEF IngestSpec
=============================================================================
