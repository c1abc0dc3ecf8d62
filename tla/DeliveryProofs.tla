--------------------------- MODULE DeliveryProofs ---------------------------
(***************************************************************************)
(* Proofs about the delivery engine, for any number of deliveries, workers, *)
(* endpoints and policies, any limits and any budget of disruptions.       *)
(***************************************************************************)
EXTENDS Delivery, TLAPS

\* Spec => []TypeOK, in the two parts of the induction.
LEMMA InitTypeOK == Init => TypeOK
BY DeliveryAssumption DEF Init, TypeOK, States, Replies, Disruptions

\* A batch handed out by the claim query is a set of claimable rows.
LEMMA BatchClaimable ==
    ASSUME NEW w, NEW S, ClaimDueDeliveries(w, S)
    PROVE  S \subseteq Claimable /\ S \subseteq Deliveries
BY DEF ClaimDueDeliveries, FairBatch, Claimable

\* Spending a disruption keeps the budget a function into Nat.
LEMMA SpendType ==
    ASSUME NEW kind \in Disruptions, budget \in [Disruptions -> Nat], Spend(kind)
    PROVE  budget' \in [Disruptions -> Nat]
BY DEF Spend

\* Every operation keeps every column and every worker's memory in its type.
LEMMA NextTypeOK == TypeOK /\ [Next]_vars => TypeOK'
<1> SUFFICES ASSUME TypeOK, [Next]_vars PROVE TypeOK'
  OBVIOUS
<1> USE DeliveryAssumption DEF TypeOK, States, rowVars, evidenceVars,
        endpointVars, workerVars, historyVars
<1>1. CASE RowCreated
  <2>1. ASSUME NEW d \in Deliveries, CreateDeliverySnapshot(d) PROVE TypeOK'
    <3>1. PICK now \in BOOLEAN : due' = [due EXCEPT ![d] = now]
      BY <2>1, Zenon DEF CreateDeliverySnapshot
    <3> QED
      BY <2>1, <3>1 DEF CreateDeliverySnapshot
  <2>2. ASSUME NEW d \in Deliveries, TestEndpoint(d) PROVE TypeOK'
    BY <2>2 DEF TestEndpoint
  <2> QED
    BY <1>1, <2>1, <2>2 DEF RowCreated
<1>2. ASSUME NEW w \in Workers, NEW S \in SUBSET Deliveries,
             ClaimDueDeliveries(w, S)
      PROVE  TypeOK'
  BY <1>2 DEF ClaimDueDeliveries, LapsedLeases
<1>3. ASSUME NEW w \in Workers, NEW d \in Deliveries, NEW r \in Replies,
             Deliver(w, d, r)
      PROVE  TypeOK'
  BY <1>3 DEF Deliver
<1>4. ASSUME NEW w \in Workers, RecordDeliveryAttempt(w)
      PROVE  TypeOK'
  <2>1. sending[w] \in Deliveries
    BY <1>4 DEF RecordDeliveryAttempt
  <2>2. Resolution(w, sending[w]) \in {"succeeded", "scheduled", "dead_lettered"}
    BY DEF Resolution
  <2>3. AttemptNo(w, sending[w]) \in Nat
    BY <2>1 DEF AttemptNo
  <2>4. /\ failures' \in [Endpoints -> Nat]
        /\ circuit' \in [Endpoints -> {"closed", "open"}]
    BY <1>4, <2>1 DEF RecordDeliveryAttempt, UpdateCircuit
  <2>5. cooling' \in [Endpoints -> BOOLEAN]
    <3>1. \/ cooling' = [cooling EXCEPT ![EndpointOf[sending[w]]] = FALSE]
          \/ cooling' = [cooling EXCEPT ![EndpointOf[sending[w]]] = TRUE]
          \/ cooling' = [cooling EXCEPT ![EndpointOf[sending[w]]] = @]
      BY <1>4, Zenon DEF RecordDeliveryAttempt, UpdateCircuit
    <3>2. EndpointOf[sending[w]] \in Endpoints /\ cooling \in [Endpoints -> BOOLEAN]
      BY <2>1
    <3> QED
      <4>1. ASSUME NEW b \in BOOLEAN,
                   cooling' = [cooling EXCEPT ![EndpointOf[sending[w]]] = b]
            PROVE  cooling' \in [Endpoints -> BOOLEAN]
        BY <3>2, <4>1
      <4>2. cooling[EndpointOf[sending[w]]] \in BOOLEAN
        BY <3>2
      <4> QED
        BY <3>1, <4>1, <4>2, Zenon
  <2>6. due' \in [Deliveries -> BOOLEAN]
    <3> DEFINE res == Resolution(w, sending[w])
    <3>1. due' = [due EXCEPT ![sending[w]] =
                      IF res = "scheduled" THEN FALSE ELSE @]
      BY <1>4 DEF RecordDeliveryAttempt
    <3> HIDE DEF res
    <3>2. CASE res = "scheduled"
      BY <2>1, <3>1, <3>2
    <3>3. CASE res # "scheduled"
      BY <2>1, <3>1, <3>3
    <3> QED
      BY <3>2, <3>3
  <2>7. /\ attempts' \in [Deliveries -> Nat]
        /\ deadLetters' \in [Deliveries -> Nat]
    BY <1>4, <2>1 DEF RecordDeliveryAttempt
  <2>8. /\ state' \in [Deliveries -> States]
        /\ attemptCount' \in [Deliveries -> Nat]
        /\ lockedBy' \in [Deliveries -> Workers \cup {NoWorker}]
        /\ expired' \in [Deliveries -> BOOLEAN]
    BY <1>4, <2>1, <2>2, <2>3 DEF RecordDeliveryAttempt, Unlock
  <2>9. /\ batch' \in [Workers -> SUBSET Deliveries]
        /\ seen' \in [Workers -> [Deliveries -> Nat]]
        /\ sending' \in [Workers -> Deliveries \cup {NoDelivery}]
        /\ reply' \in [Workers -> Replies \cup {"none"}]
    BY <1>4, <2>1 DEF RecordDeliveryAttempt
  <2> QED
    BY <1>4, <2>4, <2>5, <2>6, <2>7, <2>8, <2>9, Zenon DEF RecordDeliveryAttempt
<1>5. ASSUME NEW w \in Workers, RecordFails(w)
      PROVE  TypeOK'
  BY <1>5 DEF RecordFails, DropBatch
<1>6. ASSUME NEW w \in Workers, WorkerCrash(w)
      PROVE  TypeOK'
  BY <1>6, SpendType DEF WorkerCrash, DropBatch, Disruptions
<1>7. CASE OperatorActs
  <2>1. ASSUME NEW d \in Deliveries, RetryDelivery(d) PROVE TypeOK'
    BY <2>1, SpendType DEF RetryDelivery, Disruptions, Unlock
  <2>2. ASSUME NEW d \in Deliveries, CancelDelivery(d) PROVE TypeOK'
    BY <2>2, SpendType DEF CancelDelivery, Disruptions, Unlock
  <2>3. ASSUME NEW e \in Endpoints, UpdateEndpointState(e) PROVE TypeOK'
    BY <2>3, SpendType DEF UpdateEndpointState, Disruptions
  <2>4. ASSUME NEW p \in Policies, DeleteRetryPolicy(p) PROVE TypeOK'
    BY <2>4, SpendType DEF DeleteRetryPolicy, Disruptions
  <2> QED
    BY <1>7, <2>1, <2>2, <2>3, <2>4 DEF OperatorActs
<1>8. ASSUME NEW P \in SUBSET Deliveries, ApplyDeliveryPayloadRetention(P)
      PROVE  TypeOK'
  BY <1>8, SpendType DEF ApplyDeliveryPayloadRetention, Disruptions
<1>9. CASE TimePasses
  <2>1. ASSUME NEW d \in Deliveries, LeaseExpires(d) PROVE TypeOK'
    BY <2>1, SpendType DEF LeaseExpires, Disruptions
  <2>2. ASSUME NEW d \in Deliveries, RetryDelayPasses(d) PROVE TypeOK'
    BY <2>2 DEF RetryDelayPasses
  <2>3. ASSUME NEW e \in Endpoints, CooldownPasses(e) PROVE TypeOK'
    BY <2>3 DEF CooldownPasses
  <2> QED
    BY <1>9, <2>1, <2>2, <2>3 DEF TimePasses
<1>10. CASE UNCHANGED vars
  BY <1>10 DEF vars
<1> QED
  BY <1>1, <1>2, <1>3, <1>4, <1>5, <1>6, <1>7, <1>8, <1>9, <1>10
     DEF Next, RunDeliveries

\* Every reachable state of the delivery engine is well typed: the columns, the
\* evidence counters and the workers' copies stay in their domains.
THEOREM TypeCorrect == Spec => []TypeOK
BY InitTypeOK, NextTypeOK, PTL DEF Spec

----------------------------------------------------------------------------
(* The safety invariants read only the columns below.  Steps that leave all *)
(* of them alone, that only create a row or only forget a batch, are each   *)
(* summarised once.                                                         *)

claimVars == <<state, attemptCount, lockedBy, expired, attempts, deadLetters,
               batch, seen, sending, overtaken, retried>>

Created(d) ==
    /\ state[d] = "absent"
    /\ state' = [state EXCEPT ![d] = "scheduled"]
    /\ UNCHANGED <<attemptCount, lockedBy, expired, attempts, deadLetters,
                   batch, seen, sending, overtaken, retried>>

Forgets(w) ==
    /\ DropBatch(w)
    /\ UNCHANGED <<state, attemptCount, lockedBy, expired, attempts,
                   deadLetters, overtaken, retried>>

\* Every step is one of these, seen through the columns the invariants read.
LEMMA NextSplit ==
    ASSUME [Next]_vars
    PROVE  \/ UNCHANGED claimVars
           \/ \E d \in Deliveries : Created(d)
           \/ \E w \in Workers, S \in SUBSET Deliveries : ClaimDueDeliveries(w, S)
           \/ \E w \in Workers, d \in Deliveries, r \in Replies : Deliver(w, d, r)
           \/ \E w \in Workers : RecordDeliveryAttempt(w) \/ Forgets(w)
           \/ \E d \in Deliveries :
                 RetryDelivery(d) \/ CancelDelivery(d) \/ LeaseExpires(d)
<1> USE DEF rowVars, evidenceVars, endpointVars, workerVars, historyVars
<1>1. ASSUME NEW d \in Deliveries, CreateDeliverySnapshot(d) \/ TestEndpoint(d)
      PROVE  Created(d)
  BY <1>1, Zenon DEF CreateDeliverySnapshot, TestEndpoint, Created
<1>2. ASSUME NEW w \in Workers, RecordFails(w) \/ WorkerCrash(w)
      PROVE  Forgets(w)
  BY <1>2 DEF RecordFails, WorkerCrash, Forgets
<1>3. ASSUME NEW e \in Endpoints, UpdateEndpointState(e) \/ CooldownPasses(e)
      PROVE  UNCHANGED claimVars
  BY <1>3 DEF UpdateEndpointState, CooldownPasses, claimVars
<1>4. ASSUME NEW p \in Policies, DeleteRetryPolicy(p)
      PROVE  UNCHANGED claimVars
  BY <1>4 DEF DeleteRetryPolicy, claimVars
<1>5. ASSUME NEW P \in SUBSET Deliveries, ApplyDeliveryPayloadRetention(P)
      PROVE  UNCHANGED claimVars
  BY <1>5 DEF ApplyDeliveryPayloadRetention, claimVars
<1>6. ASSUME NEW d \in Deliveries, RetryDelayPasses(d)
      PROVE  UNCHANGED claimVars
  BY <1>6 DEF RetryDelayPasses, claimVars
<1>7. CASE UNCHANGED vars
  BY <1>7 DEF vars, claimVars
<1> QED
  BY <1>1, <1>2, <1>3, <1>4, <1>5, <1>6, <1>7
     DEF Next, RowCreated, RunDeliveries, OperatorActs, TimePasses

\* A worker awaits the answer only to an item of its own batch.
SendingFromBatch ==
    \A w \in Workers : sending[w] # NoDelivery => sending[w] \in batch[w]

\* What a worker is sending stays a row of its own batch.
LEMMA NextSendingFromBatch ==
    ASSUME TypeOK, SendingFromBatch, [Next]_vars
    PROVE  SendingFromBatch'
<1> USE DeliveryAssumption DEF TypeOK, SendingFromBatch
<1>1. CASE UNCHANGED claimVars
  BY <1>1 DEF claimVars
<1>2. ASSUME NEW d \in Deliveries, Created(d) PROVE SendingFromBatch'
  BY <1>2 DEF Created
<1>3. ASSUME NEW w \in Workers, NEW S \in SUBSET Deliveries,
             ClaimDueDeliveries(w, S)
      PROVE  SendingFromBatch'
  BY <1>3 DEF ClaimDueDeliveries
<1>4. ASSUME NEW w \in Workers, NEW d \in Deliveries, NEW r \in Replies,
             Deliver(w, d, r)
      PROVE  SendingFromBatch'
  BY <1>4 DEF Deliver
<1>5. ASSUME NEW w \in Workers, RecordDeliveryAttempt(w)
      PROVE  SendingFromBatch'
  BY <1>5 DEF RecordDeliveryAttempt
<1>6. ASSUME NEW w \in Workers, Forgets(w) PROVE SendingFromBatch'
  BY <1>6 DEF Forgets, DropBatch
<1>7. ASSUME NEW d \in Deliveries,
             RetryDelivery(d) \/ CancelDelivery(d) \/ LeaseExpires(d)
      PROVE  SendingFromBatch'
  BY <1>7 DEF RetryDelivery, CancelDelivery, LeaseExpires, workerVars
<1> QED
  BY <1>1, <1>2, <1>3, <1>4, <1>5, <1>6, <1>7, NextSplit

\* Claiming, recording, canceling and retrying move lock and state together.
LEMMA NextLockMatchesState ==
    ASSUME TypeOK, LockMatchesState, [Next]_vars
    PROVE  LockMatchesState'
<1> USE DeliveryAssumption DEF TypeOK, LockMatchesState
<1>1. CASE UNCHANGED claimVars
  BY <1>1 DEF claimVars
<1>2. ASSUME NEW d \in Deliveries, Created(d) PROVE LockMatchesState'
  BY <1>2 DEF Created
<1>3. ASSUME NEW w \in Workers, NEW S \in SUBSET Deliveries,
             ClaimDueDeliveries(w, S)
      PROVE  LockMatchesState'
  <2> SUFFICES ASSUME NEW d \in Deliveries
               PROVE  /\ state'[d] = "in_progress" <=> lockedBy'[d] # NoWorker
                      /\ expired'[d] => state'[d] = "in_progress"
    OBVIOUS
  <2>1. /\ state'[d] = IF d \in S THEN "in_progress"
                       ELSE IF d \in LapsedLeases THEN "scheduled" ELSE state[d]
        /\ lockedBy'[d] = IF d \in S THEN w
                          ELSE IF d \in LapsedLeases THEN NoWorker ELSE lockedBy[d]
        /\ expired'[d] => expired[d] /\ d \notin LapsedLeases
    BY <1>3, Zenon DEF ClaimDueDeliveries
  <2>2. w # NoWorker
    OBVIOUS
  <2> QED
    BY <2>1, <2>2
<1>4. ASSUME NEW w \in Workers, NEW d \in Deliveries, NEW r \in Replies,
             Deliver(w, d, r)
      PROVE  LockMatchesState'
  BY <1>4 DEF Deliver, rowVars
<1>5. ASSUME NEW w \in Workers, RecordDeliveryAttempt(w)
      PROVE  LockMatchesState'
  <2>1. Resolution(w, sending[w]) # "in_progress"
    BY DEF Resolution
  <2> QED
    BY <1>5, <2>1 DEF RecordDeliveryAttempt, Unlock
<1>6. ASSUME NEW w \in Workers, Forgets(w) PROVE LockMatchesState'
  BY <1>6 DEF Forgets
<1>7. ASSUME NEW d \in Deliveries, RetryDelivery(d) \/ CancelDelivery(d)
      PROVE  LockMatchesState'
  BY <1>7 DEF RetryDelivery, CancelDelivery, Unlock
<1>8. ASSUME NEW d \in Deliveries, LeaseExpires(d) PROVE LockMatchesState'
  BY <1>8 DEF LeaseExpires
<1> QED
  BY <1>1, <1>2, <1>3, <1>4, <1>5, <1>6, <1>7, <1>8, NextSplit, Zenon

\* The claim is exclusive because a reclaimed row that somebody still holds joins
\* overtaken, and a row nobody took away is scheduled only when nobody holds it.
LEMMA NextExclusiveClaim ==
    ASSUME TypeOK, SendingFromBatch, LockMatchesState, ExclusiveClaim,
           [Next]_vars
    PROVE  ExclusiveClaim'
<1> USE DeliveryAssumption DEF TypeOK, ExclusiveClaim
<1>1. CASE UNCHANGED claimVars
  BY <1>1 DEF claimVars
<1>2. ASSUME NEW d \in Deliveries, Created(d) PROVE ExclusiveClaim'
  BY <1>2 DEF Created
<1>3. ASSUME NEW w \in Workers, NEW S \in SUBSET Deliveries,
             ClaimDueDeliveries(w, S)
      PROVE  ExclusiveClaim'
  <2>1. S \subseteq Claimable
    BY <1>3, BatchClaimable
  <2>2. ASSUME NEW d \in Deliveries \ overtaken', NEW v \in Workers,
               d \in batch[v]
        PROVE  d \notin LapsedLeases /\ d \notin S
    BY <1>3, <2>1, <2>2 DEF ClaimDueDeliveries, Claimable, LapsedLeases, Held
  <2> QED
    BY <1>3, <2>2 DEF ClaimDueDeliveries
<1>4. ASSUME NEW w \in Workers, NEW d \in Deliveries, NEW r \in Replies,
             Deliver(w, d, r)
      PROVE  ExclusiveClaim'
  BY <1>4 DEF Deliver, rowVars, historyVars
<1>5. ASSUME NEW w \in Workers, RecordDeliveryAttempt(w)
      PROVE  ExclusiveClaim'
  <2>1. sending[w] \in Deliveries /\ sending[w] \in batch[w]
    BY <1>5 DEF RecordDeliveryAttempt, SendingFromBatch
  <2> QED
    BY <1>5, <2>1 DEF RecordDeliveryAttempt, historyVars, Unlock
<1>6. ASSUME NEW w \in Workers, Forgets(w) PROVE ExclusiveClaim'
  BY <1>6 DEF Forgets, DropBatch
<1>7. ASSUME NEW d \in Deliveries, RetryDelivery(d) \/ CancelDelivery(d)
      PROVE  ExclusiveClaim'
  BY <1>7 DEF RetryDelivery, CancelDelivery, Held, workerVars, Unlock
<1>8. ASSUME NEW d \in Deliveries, LeaseExpires(d) PROVE ExclusiveClaim'
  BY <1>8 DEF LeaseExpires, workerVars, historyVars
<1> QED
  BY <1>1, <1>2, <1>3, <1>4, <1>5, <1>6, <1>7, <1>8, NextSplit, Zenon

\* Only the worker that still owns a row records its next attempt.
LEMMA NextAttemptEvidenceExact ==
    ASSUME TypeOK, SendingFromBatch, ExclusiveClaim, AttemptEvidenceExact,
           [Next]_vars
    PROVE  AttemptEvidenceExact'
<1> USE DeliveryAssumption DEF TypeOK, AttemptEvidenceExact
<1>1. CASE UNCHANGED claimVars
  BY <1>1 DEF claimVars
<1>2. ASSUME NEW d \in Deliveries, Created(d) PROVE AttemptEvidenceExact'
  BY <1>2 DEF Created
<1>3. ASSUME NEW w \in Workers, NEW S \in SUBSET Deliveries,
             ClaimDueDeliveries(w, S)
      PROVE  AttemptEvidenceExact'
  BY <1>3 DEF ClaimDueDeliveries, evidenceVars
<1>4. ASSUME NEW w \in Workers, NEW d \in Deliveries, NEW r \in Replies,
             Deliver(w, d, r)
      PROVE  AttemptEvidenceExact'
  BY <1>4 DEF Deliver, rowVars, historyVars, evidenceVars
<1>5. ASSUME NEW w \in Workers, RecordDeliveryAttempt(w)
      PROVE  AttemptEvidenceExact'
  <2>1. sending[w] \in Deliveries /\ sending[w] \in batch[w]
    BY <1>5 DEF RecordDeliveryAttempt, SendingFromBatch
  <2>2. ASSUME NEW d \in Deliveries \ overtaken' PROVE attempts'[d] = attemptCount'[d]
    BY <1>5, <2>1 DEF RecordDeliveryAttempt, AttemptNo, historyVars
  <2>3. ASSUME NEW d \in Deliveries \ overtaken', NEW v \in Workers,
               d \in batch'[v]
        PROVE  seen'[v][d] = attemptCount'[d]
    <3>1. d # sending[w]
      BY <1>5, <2>1, <2>3 DEF RecordDeliveryAttempt, ExclusiveClaim, historyVars
    <3> QED
      BY <1>5, <2>1, <2>3, <3>1 DEF RecordDeliveryAttempt, historyVars
  <2> QED
    BY <2>2, <2>3
<1>6. ASSUME NEW w \in Workers, Forgets(w) PROVE AttemptEvidenceExact'
  BY <1>6 DEF Forgets, DropBatch
<1>7. ASSUME NEW d \in Deliveries, RetryDelivery(d) \/ CancelDelivery(d)
      PROVE  AttemptEvidenceExact'
  BY <1>7 DEF RetryDelivery, CancelDelivery, workerVars, evidenceVars
<1>8. ASSUME NEW d \in Deliveries, LeaseExpires(d) PROVE AttemptEvidenceExact'
  BY <1>8 DEF LeaseExpires, workerVars, historyVars, evidenceVars
<1> QED
  BY <1>1, <1>2, <1>3, <1>4, <1>5, <1>6, <1>7, <1>8, NextSplit, Zenon

\* A row goes back to scheduled only with an attempt left.
LEMMA NextAttemptsBounded ==
    ASSUME TypeOK, SendingFromBatch, ExclusiveClaim, AttemptEvidenceExact,
           AttemptsBounded, [Next]_vars
    PROVE  AttemptsBounded'
<1> USE DeliveryAssumption DEF TypeOK, AttemptsBounded, States, Settled
<1>1. CASE UNCHANGED claimVars
  BY <1>1 DEF claimVars
<1>2. ASSUME NEW d \in Deliveries, Created(d) PROVE AttemptsBounded'
  BY <1>2 DEF Created
<1>3. ASSUME NEW w \in Workers, NEW S \in SUBSET Deliveries,
             ClaimDueDeliveries(w, S)
      PROVE  AttemptsBounded'
  <2>1. S \subseteq Claimable
    BY <1>3, BatchClaimable
  <2> QED
    BY <1>3, <2>1 DEF ClaimDueDeliveries, Claimable, LapsedLeases, evidenceVars
<1>4. ASSUME NEW w \in Workers, NEW d \in Deliveries, NEW r \in Replies,
             Deliver(w, d, r)
      PROVE  AttemptsBounded'
  BY <1>4 DEF Deliver, rowVars, historyVars, evidenceVars
<1>5. ASSUME NEW w \in Workers, RecordDeliveryAttempt(w)
      PROVE  AttemptsBounded'
  <2> DEFINE d == sending[w]
  <2>1. d \in Deliveries /\ d \in batch[w]
    BY <1>5 DEF RecordDeliveryAttempt, SendingFromBatch
  <2>2. CASE d \in overtaken
    BY <1>5, <2>2 DEF RecordDeliveryAttempt, historyVars
  <2>3. CASE d \notin overtaken
    <3>1. /\ attempts[d] < MaxAttempts + retried[d]
          /\ AttemptNo(w, d) = attempts[d] + 1
      <4>1. state[d] = "in_progress"
        BY <2>1, <2>3 DEF ExclusiveClaim
      <4>2. seen[w][d] = attempts[d]
        BY <2>1, <2>3 DEF AttemptEvidenceExact
      <4> QED
        BY <2>1, <2>3, <4>1, <4>2, Zenon DEF AttemptNo
    <3>2. Resolution(w, d) \notin Settled =>
             attempts[d] + 1 < MaxAttempts + retried[d]
      BY <2>1, <3>1 DEF Resolution
    <3>3. /\ attempts' = [attempts EXCEPT ![d] = @ + 1]
          /\ state' = [state EXCEPT ![d] = Resolution(w, d)]
          /\ UNCHANGED <<retried, overtaken>>
      BY <1>5 DEF RecordDeliveryAttempt, historyVars
    <3> HIDE DEF d
    <3> QED
      BY <2>1, <3>1, <3>2, <3>3
  <2> QED
    BY <2>2, <2>3
<1>6. ASSUME NEW w \in Workers, Forgets(w) PROVE AttemptsBounded'
  BY <1>6 DEF Forgets
<1>7. ASSUME NEW d \in Deliveries, RetryDelivery(d) PROVE AttemptsBounded'
  BY <1>7 DEF RetryDelivery, evidenceVars
<1>8. ASSUME NEW d \in Deliveries, CancelDelivery(d) \/ LeaseExpires(d)
      PROVE  AttemptsBounded'
  BY <1>8, Zenon DEF CancelDelivery, LeaseExpires, historyVars, evidenceVars
<1> QED
  BY <1>1, <1>2, <1>3, <1>4, <1>5, <1>6, <1>7, <1>8, NextSplit, Zenon

\* A dead letter entry is made exactly when a row is dead-lettered.
LEMMA NextDeadLettersAccounted ==
    ASSUME TypeOK, SendingFromBatch, ExclusiveClaim, DeadLettersAccounted,
           [Next]_vars
    PROVE  DeadLettersAccounted'
<1> USE DeliveryAssumption DEF TypeOK, DeadLettersAccounted
<1>1. CASE UNCHANGED claimVars
  BY <1>1 DEF claimVars
<1>2. ASSUME NEW d \in Deliveries, Created(d) PROVE DeadLettersAccounted'
  BY <1>2 DEF Created
<1>3. ASSUME NEW w \in Workers, NEW S \in SUBSET Deliveries,
             ClaimDueDeliveries(w, S)
      PROVE  DeadLettersAccounted'
  <2>1. S \subseteq Claimable
    BY <1>3, BatchClaimable
  <2>2. ASSUME NEW d \in Deliveries
        PROVE  state'[d] = "dead_lettered" <=> state[d] = "dead_lettered"
    BY <1>3, <2>1 DEF ClaimDueDeliveries, Claimable, LapsedLeases
  <2> QED
    BY <1>3, <2>2 DEF ClaimDueDeliveries, evidenceVars
<1>4. ASSUME NEW w \in Workers, NEW d \in Deliveries, NEW r \in Replies,
             Deliver(w, d, r)
      PROVE  DeadLettersAccounted'
  BY <1>4 DEF Deliver, rowVars, historyVars, evidenceVars
<1>5. ASSUME NEW w \in Workers, RecordDeliveryAttempt(w)
      PROVE  DeadLettersAccounted'
  <2>1. /\ sending[w] \in Deliveries
        /\ sending[w] \notin overtaken => state[sending[w]] = "in_progress"
    BY <1>5 DEF RecordDeliveryAttempt, SendingFromBatch, ExclusiveClaim
  <2> QED
    BY <1>5, <2>1 DEF RecordDeliveryAttempt, historyVars, DeadLetters
<1>6. ASSUME NEW w \in Workers, Forgets(w) PROVE DeadLettersAccounted'
  BY <1>6 DEF Forgets
<1>7. ASSUME NEW d \in Deliveries, RetryDelivery(d) PROVE DeadLettersAccounted'
  BY <1>7 DEF RetryDelivery, evidenceVars
<1>8. ASSUME NEW d \in Deliveries, CancelDelivery(d) PROVE DeadLettersAccounted'
  BY <1>8 DEF CancelDelivery, evidenceVars, Settled, Cancelable
<1>9. ASSUME NEW d \in Deliveries, LeaseExpires(d) PROVE DeadLettersAccounted'
  BY <1>9 DEF LeaseExpires, historyVars, evidenceVars
<1> QED
  BY <1>1, <1>2, <1>3, <1>4, <1>5, <1>6, <1>7, <1>8, <1>9, NextSplit, Zenon

\* Only RecordDeliveryAttempt and the end of a cooldown touch a circuit.
LEMMA NextCircuitConsistent ==
    ASSUME TypeOK, CircuitConsistent, [Next]_vars
    PROVE  CircuitConsistent'
<1> USE DeliveryAssumption DEF TypeOK, CircuitConsistent, rowVars, endpointVars
<1>1. ASSUME NEW w \in Workers, RecordDeliveryAttempt(w)
      PROVE  CircuitConsistent'
  <2> DEFINE e == EndpointOf[sending[w]]
             res == Resolution(w, sending[w])
  <2>1. e \in Endpoints /\ UpdateCircuit(e, res)
    BY <1>1 DEF RecordDeliveryAttempt
  <2>2. res \in {"succeeded", "scheduled", "dead_lettered"}
    BY DEF Resolution
  <2> HIDE DEF e, res
  <2>3. CASE res = "succeeded"
    BY <2>1, <2>3 DEF UpdateCircuit
  <2>4. CASE res = "dead_lettered"
    BY <2>1, <2>4 DEF UpdateCircuit, Opens
  <2>5. CASE res = "scheduled"
    BY <2>1, <2>5 DEF UpdateCircuit, Opens
  <2> QED
    BY <2>2, <2>3, <2>4, <2>5
<1>2. ASSUME NEW e \in Endpoints, CooldownPasses(e) PROVE CircuitConsistent'
  BY <1>2 DEF CooldownPasses
<1>3. CASE /\ \A w \in Workers : ~RecordDeliveryAttempt(w)
           /\ \A e \in Endpoints : ~CooldownPasses(e)
  <2>1. UNCHANGED <<circuit, failures, cooling>>
    BY <1>3, Zenon DEF Next, vars, RowCreated, CreateDeliverySnapshot, TestEndpoint,
         RunDeliveries, ClaimDueDeliveries, Deliver, RecordFails, WorkerCrash,
         OperatorActs, RetryDelivery, CancelDelivery, UpdateEndpointState,
         DeleteRetryPolicy, ApplyDeliveryPayloadRetention, TimePasses,
         LeaseExpires, RetryDelayPasses
  <2> QED
    BY <2>1
<1> QED
  BY <1>1, <1>2, <1>3, Zenon

----------------------------------------------------------------------------
(* The inductive invariant.                                                *)

IInv ==
    /\ TypeOK
    /\ SendingFromBatch
    /\ LockMatchesState
    /\ ExclusiveClaim
    /\ AttemptEvidenceExact
    /\ AttemptsBounded
    /\ DeadLettersAccounted
    /\ CircuitConsistent

\* IInv holds in every reachable state.  The conjuncts lean on one another: the
\* counters are exact because claims are exclusive, and bounded because exact.
THEOREM InductiveInvariant == Spec => []IInv
<1>1. Init => IInv
  BY InitTypeOK, DeliveryAssumption
     DEF Init, IInv, SendingFromBatch, LockMatchesState, ExclusiveClaim,
         AttemptEvidenceExact, AttemptsBounded, DeadLettersAccounted,
         CircuitConsistent, Settled
<1>2. IInv /\ [Next]_vars => IInv'
  BY NextTypeOK, NextSendingFromBatch, NextLockMatchesState,
     NextExclusiveClaim, NextAttemptEvidenceExact, NextAttemptsBounded,
     NextDeadLettersAccounted, NextCircuitConsistent
     DEF IInv
<1> QED
  BY <1>1, <1>2, PTL DEF Spec

\* The locks of the deliveries table match its states: every row in progress can
\* be found by the reclaim query once its lease lapses.
THEOREM LocksMatch == Spec => []LockMatchesState
BY InductiveInvariant, PTL DEF IInv

\* From claim to record a delivery has one worker, however many workers poll and
\* whatever crashes, unless it is taken from its worker while that one is at work.
THEOREM ClaimsExclusive == Spec => []ExclusiveClaim
BY InductiveInvariant, PTL DEF IInv

\* attempt_count counts the delivery_attempts rows of every delivery that nobody
\* took from its worker.
THEOREM AttemptsExact == Spec => []AttemptEvidenceExact
BY InductiveInvariant, PTL DEF IInv

\* No delivery is attempted more than max_attempts times plus one for each
\* operator retry.
THEOREM AttemptsLimited == Spec => []AttemptsBounded
BY InductiveInvariant, PTL DEF IInv

\* A locked row is in progress, and its worker has it to itself unless somebody
\* took it from the worker.
THEOREM ClaimsAreSound == Spec => []ClaimsSound
BY LocksMatch, ClaimsExclusive, PTL DEF ClaimsSound

\* Attempts are numbered without gap or repetition and end at the limit.
THEOREM AttemptsAreAccounted == Spec => []AttemptsAccounted
BY AttemptsExact, AttemptsLimited, PTL DEF AttemptsAccounted

\* Each exhaustion of a delivery leaves exactly one dead letter entry.
THEOREM DeadLettersExact == Spec => []DeadLettersAccounted
BY InductiveInvariant, PTL DEF IInv

\* A closed circuit is below its threshold and not cooling down.
THEOREM CircuitsConsistent == Spec => []CircuitConsistent
BY InductiveInvariant, PTL DEF IInv

\* A settled delivery leaves its state only by an operator retry or by the late
\* record of a worker that was overtaken.
THEOREM SettledStable == Spec => SettledStaysSettled
<1> DEFINE A == \A d \in Deliveries :
                   state[d] \in Settled /\ state'[d] # state[d] =>
                       d \in overtaken \/ retried'[d] > retried[d]
<1>1. ASSUME IInv, [Next]_vars PROVE A
  <2> USE DEF IInv, TypeOK, Settled
  <2>1. CASE UNCHANGED claimVars
    BY <1>1, <2>1 DEF claimVars
  <2>2. ASSUME NEW d \in Deliveries, Created(d) PROVE A
    BY <1>1, <2>2 DEF Created
  <2>3. ASSUME NEW w \in Workers, NEW S \in SUBSET Deliveries,
               ClaimDueDeliveries(w, S)
        PROVE  A
    <3>1. S \subseteq Claimable
      BY <2>3, BatchClaimable
    <3> QED
      BY <1>1, <2>3, <3>1 DEF ClaimDueDeliveries, Claimable, LapsedLeases
  <2>4. ASSUME NEW w \in Workers, NEW d \in Deliveries, NEW r \in Replies,
               Deliver(w, d, r)
        PROVE  A
    BY <1>1, <2>4 DEF Deliver, rowVars
  <2>5. ASSUME NEW w \in Workers, RecordDeliveryAttempt(w) PROVE A
    <3>1. /\ sending[w] \in Deliveries
          /\ sending[w] \notin overtaken => state[sending[w]] = "in_progress"
      BY <1>1, <2>5, Zenon DEF RecordDeliveryAttempt, SendingFromBatch, ExclusiveClaim
    <3> QED
      BY <1>1, <2>5, <3>1, Zenon DEF RecordDeliveryAttempt
  <2>6. ASSUME NEW w \in Workers, Forgets(w) PROVE A
    BY <1>1, <2>6 DEF Forgets
  <2>7. ASSUME NEW d \in Deliveries, RetryDelivery(d) PROVE A
    BY <1>1, <2>7 DEF RetryDelivery
  <2>8. ASSUME NEW d \in Deliveries, CancelDelivery(d) \/ LeaseExpires(d)
        PROVE  A
    BY <1>1, <2>8 DEF CancelDelivery, LeaseExpires, Cancelable
  <2> QED
    BY <1>1, <2>1, <2>2, <2>3, <2>4, <2>5, <2>6, <2>7, <2>8, NextSplit, Zenon
<1>2. IInv /\ [Next]_vars => [A]_vars
  BY <1>1
<1> QED
  BY InductiveInvariant, <1>2, PTL DEF Spec, SettledStaysSettled
=============================================================================
