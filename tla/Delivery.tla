------------------------------ MODULE Delivery ------------------------------
(***************************************************************************)
(* The delivery engine: rows of the deliveries table, the workers that     *)
(* claim them under a 60 second lease, send them to an endpoint and record *)
(* the attempt, and the operators, retention runs and time that interfere. *)
(*                                                                         *)
(* Every store method is one database transaction and is one action here.  *)
(* Between ClaimDueDeliveries and RecordDeliveryAttempt a worker holds only *)
(* a copy of the row, so the row may change under it.                      *)
(***************************************************************************)
EXTENDS ClaimOrder

CONSTANTS
    Deliveries,        \* identifiers of delivery rows
    Endpoints, EndpointOf,
    Tenants, TenantOf,
    ReplayDeliveries,  \* the rows with a replay_job_id
    Policies, PolicyOf, NoPolicy, \* retry_policy_id, NoPolicy when it is ''
    Workers, NoWorker, NoDelivery,
    MaxAttempts,       \* max_attempts of every policy (12 by default)
    BatchLimit,        \* Worker.Limit (10)
    CircuitThreshold,  \* failures that open a circuit (3)
    Budget             \* how often each kind of disruption may happen

Disruptions ==
    {"crash", "stall", "operator", "endpoint", "policy", "retention"}

ASSUME DeliveryAssumption ==
    /\ EndpointOf \in [Deliveries -> Endpoints]
    /\ TenantOf \in [Deliveries -> Tenants]
    /\ ReplayDeliveries \subseteq Deliveries
    /\ PolicyOf \in [Deliveries -> Policies \cup {NoPolicy}]
    /\ NoWorker \notin Workers
    /\ NoDelivery \notin Deliveries
    /\ MaxAttempts \in Nat \ {0}
    /\ BatchLimit \in Nat \ {0}
    /\ CircuitThreshold \in Nat \ {0}
    /\ Budget \in [Disruptions -> Nat]

VARIABLES
    state,         \* deliveries.state, "absent" before the row exists
    attemptCount,  \* deliveries.attempt_count
    lockedBy,      \* deliveries.locked_by
    expired,       \* deliveries.lock_expires_at <= now()
    due,           \* deliveries.next_attempt_at <= now()
    payload,       \* storage_status of the row's delivery_payload
    attempts,      \* number of delivery_attempts rows
    deadLetters,   \* number of dead_letter_entries rows
    active,        \* endpoints.state = 'active'
    circuit,       \* endpoints.circuit_state
    failures,      \* endpoints.failure_count
    cooling,       \* endpoints.disabled_until > now()
    policyActive,  \* retry_policies.state = 'active'
    batch,         \* the claimed items a worker has yet to record
    seen,          \* the attempt_count each claimed item carries
    sending,       \* the item a worker has sent, awaiting its record
    reply,         \* what the endpoint answered to it
    overtaken,     \* history: rows taken from a worker still holding them
    retried,       \* history: number of operator retries of a row
    budget         \* disruptions still allowed

rowVars == <<state, attemptCount, lockedBy, expired, due>>
evidenceVars == <<attempts, deadLetters>>
endpointVars == <<active, circuit, failures, cooling>>
workerVars == <<batch, seen, sending, reply>>
historyVars == <<overtaken, retried>>
vars == <<rowVars, payload, evidenceVars, endpointVars, policyActive,
          workerVars, historyVars, budget>>

States == {"absent", "scheduled", "in_progress", "succeeded",
           "dead_lettered", "canceled"}
Settled == {"succeeded", "dead_lettered", "canceled"}

\* Answers the code tells apart: any 2xx; 408, 409, 425, 429 or a 5xx; any
\* other status, or a 2xx whose body cannot be read; and no response at all,
\* which the client reports as status 0.
Replies == {"success", "temporary_http", "permanent_http", "network_error"}

TypeOK ==
    /\ state \in [Deliveries -> States]
    /\ attemptCount \in [Deliveries -> Nat]
    /\ lockedBy \in [Deliveries -> Workers \cup {NoWorker}]
    /\ expired \in [Deliveries -> BOOLEAN]
    /\ due \in [Deliveries -> BOOLEAN]
    /\ payload \in [Deliveries -> {"none", "stored", "deleted"}]
    /\ attempts \in [Deliveries -> Nat]
    /\ deadLetters \in [Deliveries -> Nat]
    /\ active \in [Endpoints -> BOOLEAN]
    /\ circuit \in [Endpoints -> {"closed", "open"}]
    /\ failures \in [Endpoints -> Nat]
    /\ cooling \in [Endpoints -> BOOLEAN]
    /\ policyActive \in [Policies -> BOOLEAN]
    /\ batch \in [Workers -> SUBSET Deliveries]
    /\ seen \in [Workers -> [Deliveries -> Nat]]
    /\ sending \in [Workers -> Deliveries \cup {NoDelivery}]
    /\ reply \in [Workers -> Replies \cup {"none"}]
    /\ overtaken \subseteq Deliveries
    /\ retried \in [Deliveries -> Nat]
    /\ budget \in [Disruptions -> Nat]

Init ==
    /\ state = [d \in Deliveries |-> "absent"]
    /\ attemptCount = [d \in Deliveries |-> 0]
    /\ lockedBy = [d \in Deliveries |-> NoWorker]
    /\ expired = [d \in Deliveries |-> FALSE]
    /\ due = [d \in Deliveries |-> FALSE]
    /\ payload = [d \in Deliveries |-> "none"]
    /\ attempts = [d \in Deliveries |-> 0]
    /\ deadLetters = [d \in Deliveries |-> 0]
    /\ active = [e \in Endpoints |-> TRUE]
    /\ circuit = [e \in Endpoints |-> "closed"]
    /\ failures = [e \in Endpoints |-> 0]
    /\ cooling = [e \in Endpoints |-> FALSE]
    /\ policyActive = [p \in Policies |-> TRUE]
    /\ batch = [w \in Workers |-> {}]
    /\ seen = [w \in Workers |-> [d \in Deliveries |-> 0]]
    /\ sending = [w \in Workers |-> NoDelivery]
    /\ reply = [w \in Workers |-> "none"]
    /\ overtaken = {}
    /\ retried = [d \in Deliveries |-> 0]
    /\ budget = Budget

Spend(kind) ==
    /\ budget[kind] > 0
    /\ budget' = [budget EXCEPT ![kind] = @ - 1]

\* locked_by = NULL, lock_expires_at = NULL.
Unlock(d) ==
    /\ lockedBy' = [lockedBy EXCEPT ![d] = NoWorker]
    /\ expired' = [expired EXCEPT ![d] = FALSE]

\* A worker still carries a copy of row d and will record an attempt of it.
Held(d) == \E w \in Workers : d \in batch[w]

----------------------------------------------------------------------------
(* Rows are created.                                                       *)

\* Fan-out of a routed event or a replay: the row and its payload snapshot are
\* inserted together.  A replay may be spaced out by its rate limit.
CreateDeliverySnapshot(d) ==
    /\ state[d] = "absent"
    /\ state' = [state EXCEPT ![d] = "scheduled"]
    /\ \E now \in IF d \in ReplayDeliveries THEN BOOLEAN ELSE {TRUE} :
          due' = [due EXCEPT ![d] = now]
    /\ payload' = [payload EXCEPT ![d] = "stored"]
    /\ UNCHANGED <<attemptCount, lockedBy, expired, evidenceVars, endpointVars,
                   policyActive, workerVars, historyVars, budget>>

\* An operator's test delivery has neither payload snapshot nor retry policy,
\* and is created whatever the endpoint's state.
TestEndpoint(d) ==
    /\ state[d] = "absent"
    /\ d \notin ReplayDeliveries
    /\ PolicyOf[d] = NoPolicy
    /\ state' = [state EXCEPT ![d] = "scheduled"]
    /\ due' = [due EXCEPT ![d] = TRUE]
    /\ UNCHANGED <<attemptCount, lockedBy, expired, payload, evidenceVars,
                   endpointVars, policyActive, workerVars, historyVars, budget>>

----------------------------------------------------------------------------
(* A worker's delivery phase: claim a batch, then send and record each item. *)

LapsedLeases_Never == {}

LapsedLeases == {d \in Deliveries : state[d] = "in_progress" /\ expired[d]}

Claimable_WhileLeased ==
    {d \in Deliveries :
        /\ state[d] \in {"scheduled", "in_progress"}
        /\ due[d]
        /\ active[EndpointOf[d]]
        /\ ~cooling[EndpointOf[d]]}

\* Rows the claim query may return once lapsed leases are back to scheduled.
Claimable ==
    {d \in Deliveries :
        /\ state[d] = "scheduled" \/ d \in LapsedLeases
        /\ due[d]
        /\ active[EndpointOf[d]]
        /\ ~cooling[EndpointOf[d]]}

\* Live deliveries go before replays.
PriorityClass == [d \in Deliveries |-> IF d \in ReplayDeliveries THEN 1 ELSE 0]

\* populateDeliveryItem fails with ErrGone on a payload that retention deleted.
CanPopulate(d) == payload[d] # "deleted"

\* One transaction: lapsed leases are released, a fair batch S is leased, and
\* every item of S is populated.  An item that cannot be populated rolls all of
\* it back, the release of the lapsed leases included.
ClaimDueDeliveries(w, S) ==
    /\ batch[w] = {}
    /\ LapsedLeases \cup S # {}
    /\ FairBatch(S, Claimable, BatchLimit, PriorityClass, TenantOf)
    /\ \A d \in S : CanPopulate(d)
    /\ state' = [d \in Deliveries |->
                    IF d \in S THEN "in_progress"
                    ELSE IF d \in LapsedLeases THEN "scheduled" ELSE state[d]]
    /\ lockedBy' = [d \in Deliveries |->
                    IF d \in S THEN w
                    ELSE IF d \in LapsedLeases THEN NoWorker ELSE lockedBy[d]]
    /\ expired' = [d \in Deliveries |-> expired[d] /\ d \notin LapsedLeases]
    /\ batch' = [batch EXCEPT ![w] = S]
    /\ seen' = [seen EXCEPT ![w] = [d \in Deliveries |->
                    IF d \in S THEN attemptCount[d] ELSE 0]]
    /\ overtaken' = overtaken \cup {d \in LapsedLeases : Held(d)}
    /\ UNCHANGED <<attemptCount, due, payload, evidenceVars, endpointVars,
                   policyActive, sending, reply, retried, budget>>

\* The signed request is sent and answered.  The database does not change.
Deliver(w, d, r) ==
    /\ sending[w] = NoDelivery
    /\ d \in batch[w]
    /\ sending' = [sending EXCEPT ![w] = d]
    /\ reply' = [reply EXCEPT ![w] = r]
    /\ UNCHANGED <<rowVars, payload, evidenceVars, endpointVars, policyActive,
                   batch, seen, historyVars, budget>>

\* The retry policy is read with state = 'active'; the empty id is the default.
RetryPolicyFound(d) == PolicyOf[d] # NoPolicy => policyActive[PolicyOf[d]]

\* Policy.ClassifyStatus: only the temporary statuses are retryable.
Retryable(r) == r = "temporary_http"

AttemptNo_NotAdvanced(w, d) == seen[w][d]

AttemptNo(w, d) == seen[w][d] + 1

Resolution(w, d) ==
    IF reply[w] = "success" THEN "succeeded"
    ELSE IF Retryable(reply[w]) /\ AttemptNo(w, d) < MaxAttempts
         THEN "scheduled" ELSE "dead_lettered"

\* failure_count, circuit_state and disabled_until of the endpoint.
Opens_OneFailureLate(e, res) ==
    \/ res = "dead_lettered"
    \/ res = "scheduled" /\ failures[e] + 1 > CircuitThreshold

Opens(e, res) ==
    \/ res = "dead_lettered"
    \/ res = "scheduled" /\ failures[e] + 1 >= CircuitThreshold

UpdateCircuit(e, res) ==
    /\ failures' = [failures EXCEPT ![e] =
                        IF res = "succeeded" THEN 0 ELSE @ + 1]
    /\ circuit' = [circuit EXCEPT ![e] =
                        IF res = "succeeded" THEN "closed"
                        ELSE IF Opens(e, res) THEN "open" ELSE @]
    /\ cooling' = [cooling EXCEPT ![e] =
                        IF res = "succeeded" THEN FALSE
                        ELSE IF Opens(e, res) THEN TRUE ELSE @]

\* A dead_letter_entries row is inserted with the attempt.
DeadLetters_AnyFailure(res) == res # "succeeded"

DeadLetters(res) == res = "dead_lettered"

\* The attempt row, the delivery row, the endpoint's circuit and the dead letter
\* entry change in one transaction.  The row is found by its id alone: neither
\* its state nor its lock is compared with what the worker claimed.
RecordDeliveryAttempt(w) ==
    LET d == sending[w]
        res == Resolution(w, d)
    IN  /\ d # NoDelivery
        /\ RetryPolicyFound(d)
        /\ state' = [state EXCEPT ![d] = res]
        /\ attemptCount' = [attemptCount EXCEPT ![d] = AttemptNo(w, d)]
        /\ Unlock(d)
        /\ due' = [due EXCEPT ![d] = IF res = "scheduled" THEN FALSE ELSE @]
        /\ attempts' = [attempts EXCEPT ![d] = @ + 1]
        /\ deadLetters' = [deadLetters EXCEPT ![d] =
                              IF DeadLetters(res) THEN @ + 1 ELSE @]
        /\ UpdateCircuit(EndpointOf[d], res)
        /\ batch' = [batch EXCEPT ![w] = @ \ {d}]
        /\ seen' = [seen EXCEPT ![w][d] = 0]
        /\ sending' = [sending EXCEPT ![w] = NoDelivery]
        /\ reply' = [reply EXCEPT ![w] = "none"]
        /\ UNCHANGED <<payload, active, policyActive, historyVars, budget>>

\* The worker forgets its batch; the rows stay leased.
DropBatch(w) ==
    /\ batch' = [batch EXCEPT ![w] = {}]
    /\ seen' = [seen EXCEPT ![w] = [d \in Deliveries |-> 0]]
    /\ sending' = [sending EXCEPT ![w] = NoDelivery]
    /\ reply' = [reply EXCEPT ![w] = "none"]

\* A disabled retry policy is ErrNotFound: the attempt that was made is not
\* recorded, and runDeliveries returns with the rest of its batch unsent.
RecordFails(w) ==
    /\ sending[w] # NoDelivery
    /\ ~RetryPolicyFound(sending[w])
    /\ DropBatch(w)
    /\ UNCHANGED <<rowVars, payload, evidenceVars, endpointVars, policyActive,
                   historyVars, budget>>

\* A worker process dies, or its context is canceled, between two transactions.
WorkerCrash(w) ==
    /\ batch[w] # {}
    /\ Spend("crash")
    /\ DropBatch(w)
    /\ UNCHANGED <<rowVars, payload, evidenceVars, endpointVars, policyActive,
                   historyVars>>

----------------------------------------------------------------------------
(* Operators and retention.                                                *)

\* Any existing row, settled or leased, becomes due at once.  attempt_count and
\* the dead letter entry are left alone.
RetryDelivery(d) ==
    /\ state[d] # "absent"
    /\ Spend("operator")
    /\ state' = [state EXCEPT ![d] = "scheduled"]
    /\ due' = [due EXCEPT ![d] = TRUE]
    /\ Unlock(d)
    /\ overtaken' = overtaken \cup {x \in {d} : Held(x)}
    /\ retried' = [retried EXCEPT ![d] = @ + 1]
    /\ UNCHANGED <<attemptCount, payload, evidenceVars, endpointVars,
                   policyActive, workerVars>>

Cancelable_AnyState(d) == state[d] # "absent"

Cancelable(d) == state[d] \notin Settled \cup {"absent"}

CancelDelivery(d) ==
    /\ Cancelable(d)
    /\ Spend("operator")
    /\ state' = [state EXCEPT ![d] = "canceled"]
    /\ Unlock(d)
    /\ overtaken' = overtaken \cup {x \in {d} : Held(x)}
    /\ UNCHANGED <<attemptCount, due, payload, evidenceVars, endpointVars,
                   policyActive, workerVars, retried>>

\* The endpoint is disabled or enabled again; its circuit is not reset.
UpdateEndpointState(e) ==
    /\ Spend("endpoint")
    /\ active' = [active EXCEPT ![e] = ~@]
    /\ UNCHANGED <<rowVars, payload, evidenceVars, circuit, failures, cooling,
                   policyActive, workerVars, historyVars>>

\* Nothing enables a policy again: an update inserts a new version as a new row.
DeleteRetryPolicy(p) ==
    /\ policyActive[p]
    /\ Spend("policy")
    /\ policyActive' = [policyActive EXCEPT ![p] = FALSE]
    /\ UNCHANGED <<rowVars, payload, evidenceVars, endpointVars, workerVars,
                   historyVars>>

\* Payload bodies past their retention age are erased, whatever the state of the
\* delivery they belong to.
ApplyDeliveryPayloadRetention(P) ==
    /\ P # {}
    /\ \A d \in P : payload[d] = "stored"
    /\ \A c, d \in P : TenantOf[c] = TenantOf[d]
    /\ Spend("retention")
    /\ payload' = [d \in Deliveries |-> IF d \in P THEN "deleted" ELSE payload[d]]
    /\ UNCHANGED <<rowVars, evidenceVars, endpointVars, policyActive,
                   workerVars, historyVars>>

----------------------------------------------------------------------------
(* Time passes.                                                            *)

\* The 60 seconds of a lease run out.  That takes a stall when its holder is
\* still at work: ten items of up to ten seconds each fit a lease badly.
LeaseExpires(d) ==
    /\ state[d] = "in_progress"
    /\ ~expired[d]
    /\ IF Held(d) THEN Spend("stall") ELSE UNCHANGED budget
    /\ expired' = [expired EXCEPT ![d] = TRUE]
    /\ UNCHANGED <<state, attemptCount, lockedBy, due, payload, evidenceVars,
                   endpointVars, policyActive, workerVars, historyVars>>

RetryDelayPasses(d) ==
    /\ state[d] # "absent"
    /\ ~due[d]
    /\ due' = [due EXCEPT ![d] = TRUE]
    /\ UNCHANGED <<state, attemptCount, lockedBy, expired, payload, evidenceVars,
                   endpointVars, policyActive, workerVars, historyVars, budget>>

CooldownPasses(e) ==
    /\ cooling[e]
    /\ cooling' = [cooling EXCEPT ![e] = FALSE]
    /\ UNCHANGED <<rowVars, payload, evidenceVars, active, circuit, failures,
                   policyActive, workerVars, historyVars, budget>>

----------------------------------------------------------------------------
RowCreated == \E d \in Deliveries : CreateDeliverySnapshot(d) \/ TestEndpoint(d)

RunDeliveries(w) ==
    \/ \E S \in SUBSET Deliveries : ClaimDueDeliveries(w, S)
    \/ \E d \in Deliveries, r \in Replies : Deliver(w, d, r)
    \/ RecordDeliveryAttempt(w)
    \/ RecordFails(w)

OperatorActs ==
    \/ \E d \in Deliveries : RetryDelivery(d) \/ CancelDelivery(d)
    \/ \E e \in Endpoints : UpdateEndpointState(e)
    \/ \E p \in Policies : DeleteRetryPolicy(p)

TimePasses ==
    \/ \E d \in Deliveries : LeaseExpires(d) \/ RetryDelayPasses(d)
    \/ \E e \in Endpoints : CooldownPasses(e)

Next ==
    \/ RowCreated
    \/ \E w \in Workers : RunDeliveries(w) \/ WorkerCrash(w)
    \/ OperatorActs
    \/ \E P \in SUBSET Deliveries : ApplyDeliveryPayloadRetention(P)
    \/ TimePasses

Spec == Init /\ [][Next]_vars

\* A running worker polls every two seconds and finishes what it claims, and the
\* clock advances.  Nothing forces rows to be created or disruptions to happen.
Fairness ==
    /\ \A w \in Workers : WF_vars(RunDeliveries(w))
    /\ \A d \in Deliveries : WF_vars(LeaseExpires(d) /\ ~Held(d))
    /\ \A d \in Deliveries : WF_vars(RetryDelayPasses(d))
    /\ \A e \in Endpoints : WF_vars(CooldownPasses(e))

FairSpec == Spec /\ Fairness

----------------------------------------------------------------------------
(* Safety.                                                                 *)

\* A row is in progress exactly when some worker's lock is on it, and only such
\* a row has a lapsed lease: no mix of claims, late records, cancels and retries
\* leaves a row locked that the reclaim query (state = 'in_progress' AND
\* lock_expires_at <= now()) would never find.
LockMatchesState ==
    \A d \in Deliveries :
        /\ state[d] = "in_progress" <=> lockedBy[d] # NoWorker
        /\ expired[d] => state[d] = "in_progress"

\* A claimed row belongs to one worker at a time and the row says so, from
\* ClaimDueDeliveries to RecordDeliveryAttempt, through every crash, unless the
\* row was taken from a worker at work: by a reclaim after its lease lapsed, by
\* CancelDelivery or by RetryDelivery.
ExclusiveClaim ==
    \A d \in Deliveries \ overtaken : \A w \in Workers :
        d \in batch[w] =>
            /\ state[d] = "in_progress"
            /\ lockedBy[d] = w
            /\ \A v \in Workers : d \in batch[v] => v = w

\* attempt_count, a value copied at claim time and written back plus one, counts
\* the delivery_attempts rows of the delivery exactly: no attempt is numbered
\* twice or skipped, as long as nobody overtook its worker.
AttemptEvidenceExact ==
    \A d \in Deliveries \ overtaken :
        /\ attempts[d] = attemptCount[d]
        /\ \A w \in Workers : d \in batch[w] => seen[w][d] = attemptCount[d]

\* A delivery is attempted at most max_attempts times, plus once for every
\* RetryDelivery, and a row that is not settled has an attempt left to make.
AttemptsBounded ==
    \A d \in Deliveries \ overtaken :
        /\ attempts[d] <= MaxAttempts + retried[d]
        /\ state[d] \notin Settled =>
               attempts[d] < MaxAttempts + retried[d]

\* A row is locked exactly while it is in progress, and while it is a worker has
\* it to itself, unless somebody took it from the worker.
ClaimsSound == LockMatchesState /\ ExclusiveClaim

\* Attempts are numbered without gap or repetition and end at the limit of the
\* retry policy.
AttemptsAccounted == AttemptEvidenceExact /\ AttemptsBounded

\* A dead-lettered delivery has a dead letter entry, and a delivery has at most
\* one entry per exhaustion: each RetryDelivery can add one, nothing else.
DeadLettersAccounted ==
    /\ \A d \in Deliveries : state[d] = "dead_lettered" => deadLetters[d] > 0
    /\ \A d \in Deliveries \ overtaken :
          deadLetters[d] <=
              retried[d] + (IF state[d] = "dead_lettered" THEN 1 ELSE 0)

\* A closed circuit is below the failure threshold and keeps nobody waiting, in
\* whatever order successes and failures of different workers are recorded.
CircuitConsistent ==
    \A e \in Endpoints :
        circuit[e] = "closed" => failures[e] < CircuitThreshold /\ ~cooling[e]

\* A succeeded, dead-lettered or canceled delivery changes state only when an
\* operator retries it, or when a worker that was overtaken records late.
SettledStaysSettled ==
    [][\A d \in Deliveries :
          state[d] \in Settled /\ state'[d] # state[d] =>
              d \in overtaken \/ retried'[d] > retried[d]]_vars

----------------------------------------------------------------------------
(* Liveness.                                                               *)

\* Every delivery that is waiting is settled in the end, through crashes,
\* lapsed leases, cooldowns and retries, unless its endpoint is disabled.
EveryDeliverySettles ==
    \A d \in Deliveries :
        state[d] = "scheduled" ~>
            (state[d] \in Settled \/ ~active[EndpointOf[d]])

----------------------------------------------------------------------------
(* What the documents say and the code does not do.                        *)

\* Recording an attempt is idempotent: attempt_count counts the attempt rows
\* also when a lease lapsed and two workers record the same attempt.
AttemptRecordingIdempotent ==
    \A d \in Deliveries : attempts[d] = attemptCount[d]
=============================================================================
