------------------------------- MODULE Fanout -------------------------------
(***************************************************************************)
(* The outbox and what its rows stand for: routing a captured event to its *)
(* targets, and running a replay job that operators approve, pause, resume *)
(* or cancel meanwhile.                                                    *)
(*                                                                         *)
(* A worker claims outbox rows under a 60 second lease and processes them   *)
(* one by one.  Processing is many transactions: one per delivery created,  *)
(* one to start and one to complete a replay job, one to complete the row.  *)
(* Each is an action, and the worker may die or be overtaken between two.   *)
(***************************************************************************)
EXTENDS ClaimOrder

CONSTANTS
    Events,        \* captured events, each with its outbox row
    Unverified,    \* events whose signature was not verified
    Recovered,     \* those of them that their provider's API confirmed
    Jobs,          \* replay jobs, each with at most one outbox row
    EventOf,       \* the event a job replays
    Targets,       \* subscriptions and routes that may match an event
    Users, NoUser,
    Tenants, TenantOf,
    Workers, NoItem,
    BatchLimit,    \* Worker.Limit (10)
    Budget         \* how often each kind of disruption may happen

Items == Events \cup Jobs
Disruptions == {"crash", "stall", "error", "operator"}

ASSUME FanoutAssumption ==
    /\ Events \cap Jobs = {}
    /\ Unverified \subseteq Events
    /\ Recovered \subseteq Unverified
    /\ EventOf \in [Jobs -> Events]
    /\ NoUser \notin Users
    /\ TenantOf \in [Items -> Tenants]
    /\ NoItem \notin Items
    /\ BatchLimit \in Nat \ {0}
    /\ Budget \in [Disruptions -> Nat]

VARIABLES
    row,        \* outbox.state, "absent" before the row exists
    expired,    \* outbox.lock_expires_at <= now()
    job,        \* replay_jobs.state, "absent" before the row exists
    scope,      \* what its scope_json and config_mode ask for
    gated,      \* replay_jobs.approval_required
    createdBy, approvedBy,
    windowOpen, \* replay_jobs.approval_expires_at > now()
    made,       \* deliveries created for an item, by target
    batch,      \* outbox rows a worker has claimed and not finished
    item,       \* the one it is processing
    pc,         \* where in its processing it is
    todo,       \* the deliveries it has yet to create for it
    listed,     \* history: the target sets fan-out read for an event
    reclaims,   \* history: how often an event's row was taken back
    resumes,    \* history: how often a job was resumed
    budget

rowVars == <<row, expired>>
jobVars == <<job, scope, gated, createdBy, approvedBy, windowOpen>>
workerVars == <<batch, item, pc, todo>>
historyVars == <<listed, reclaims, resumes>>
vars == <<rowVars, jobVars, made, workerVars, historyVars, budget>>

JobStates == {"absent", "pending_approval", "scheduled", "running", "paused",
              "completed", "canceled"}
\* Replay an event to what matches it now, replay the deliveries it had, or
\* replay one delivery.
Scopes == {"current", "original", "delivery"}

TypeOK ==
    /\ row \in [Items -> {"absent", "pending", "in_progress", "completed"}]
    /\ expired \in [Items -> BOOLEAN]
    /\ job \in [Jobs -> JobStates]
    /\ scope \in [Jobs -> Scopes]
    /\ gated \in [Jobs -> BOOLEAN]
    /\ createdBy \in [Jobs -> Users \cup {NoUser}]
    /\ approvedBy \in [Jobs -> Users \cup {NoUser}]
    /\ windowOpen \in [Jobs -> BOOLEAN]
    /\ made \in [Items -> [Targets -> Nat]]
    /\ batch \in [Workers -> SUBSET Items]
    /\ item \in [Workers -> Items \cup {NoItem}]
    /\ pc \in [Workers -> {"idle", "start", "list", "fanout", "complete_row"}]
    /\ todo \in [Workers -> SUBSET (Targets \X Nat)]
    /\ listed \in [Events -> SUBSET SUBSET Targets]
    /\ reclaims \in [Events -> Nat]
    /\ resumes \in [Jobs -> Nat]
    /\ budget \in [Disruptions -> Nat]

Init ==
    /\ row = [i \in Items |-> "absent"]
    /\ expired = [i \in Items |-> FALSE]
    /\ job = [j \in Jobs |-> "absent"]
    /\ scope = [j \in Jobs |-> "current"]
    /\ gated = [j \in Jobs |-> FALSE]
    /\ createdBy = [j \in Jobs |-> NoUser]
    /\ approvedBy = [j \in Jobs |-> NoUser]
    /\ windowOpen = [j \in Jobs |-> FALSE]
    /\ made = [i \in Items |-> [t \in Targets |-> 0]]
    /\ batch = [w \in Workers |-> {}]
    /\ item = [w \in Workers |-> NoItem]
    /\ pc = [w \in Workers |-> "idle"]
    /\ todo = [w \in Workers |-> {}]
    /\ listed = [e \in Events |-> {}]
    /\ reclaims = [e \in Events |-> 0]
    /\ resumes = [j \in Jobs |-> 0]
    /\ budget = Budget

Spend(kind) ==
    /\ budget[kind] > 0
    /\ budget' = [budget EXCEPT ![kind] = @ - 1]

----------------------------------------------------------------------------
(* Work is enqueued.                                                       *)

\* Capture inserts the event and its outbox row in one transaction.
EnqueueRouteEvent(e) ==
    /\ row[e] = "absent"
    /\ row' = [row EXCEPT ![e] = "pending"]
    /\ UNCHANGED <<expired, jobVars, made, workerVars, historyVars, budget>>

\* The targets event e has a delivery for, by its own routing or by a replay.
Delivered(e) ==
    {t \in Targets : \E i \in {e} \cup {j \in Jobs : EventOf[j] = e} : made[i][t] > 0}

\* An approval policy, or the request itself, may gate the job; only a job that
\* is not gated gets its outbox row at once.
CreateReplay(j, u, gate, s) ==
    /\ job[j] = "absent"
    /\ row[EventOf[j]] # "absent"
    /\ s = "delivery" => Delivered(EventOf[j]) # {}
    /\ job' = [job EXCEPT ![j] = IF gate THEN "pending_approval" ELSE "scheduled"]
    /\ scope' = [scope EXCEPT ![j] = s]
    /\ gated' = [gated EXCEPT ![j] = gate]
    /\ createdBy' = [createdBy EXCEPT ![j] = u]
    /\ windowOpen' = [windowOpen EXCEPT ![j] = gate]
    /\ row' = [row EXCEPT ![j] = IF gate THEN "absent" ELSE "pending"]
    /\ UNCHANGED <<expired, approvedBy, made, workerVars, historyVars, budget>>

\* The approver is not the creator, and the approval window is still open.
MayApprove_Anyone(j, u) ==
    job[j] = "pending_approval" /\ gated[j] /\ windowOpen[j]

MayApprove(j, u) ==
    /\ job[j] = "pending_approval"
    /\ gated[j]
    /\ windowOpen[j]
    /\ createdBy[j] # u

ApproveReplayJob(j, u) ==
    /\ MayApprove(j, u)
    /\ job' = [job EXCEPT ![j] = "scheduled"]
    /\ approvedBy' = [approvedBy EXCEPT ![j] = u]
    /\ row' = [row EXCEPT ![j] = "pending"]
    /\ UNCHANGED <<expired, scope, gated, createdBy, windowOpen, made, workerVars,
                   historyVars, budget>>

ApprovalExpires(j) ==
    /\ windowOpen[j]
    /\ windowOpen' = [windowOpen EXCEPT ![j] = FALSE]
    /\ UNCHANGED <<rowVars, job, scope, gated, createdBy, approvedBy, made,
                   workerVars, historyVars, budget>>

\* updateReplayState: pause and cancel are refused on a finished job, resume also
\* on one that awaits approval.  The outbox row is not looked at.
Open(j) == job[j] \notin {"absent", "completed", "canceled"}

Resumable(j) == Open(j) /\ job[j] # "pending_approval"

ResumedState == "scheduled"

PauseReplayJob(j) ==
    /\ Open(j)
    /\ Spend("operator")
    /\ job' = [job EXCEPT ![j] = "paused"]
    /\ UNCHANGED <<rowVars, scope, gated, createdBy, approvedBy, windowOpen, made,
                   workerVars, historyVars>>

ResumeReplayJob(j) ==
    /\ Resumable(j)
    /\ Spend("operator")
    /\ job' = [job EXCEPT ![j] = ResumedState]
    /\ resumes' = [resumes EXCEPT ![j] = @ + 1]
    /\ UNCHANGED <<rowVars, scope, gated, createdBy, approvedBy, windowOpen, made,
                   workerVars, listed, reclaims>>

CancelReplayJob(j) ==
    /\ Open(j)
    /\ Spend("operator")
    /\ job' = [job EXCEPT ![j] = "canceled"]
    /\ UNCHANGED <<rowVars, scope, gated, createdBy, approvedBy, windowOpen, made,
                   workerVars, historyVars>>

----------------------------------------------------------------------------
(* A worker's outbox phase.                                                *)

LapsedLeases_Never == {}

LapsedLeases == {i \in Items : row[i] = "in_progress" /\ expired[i]}

Claimable_WhileLeased == {i \in Items : row[i] \in {"pending", "in_progress"}}

\* Rows the claim query may return once lapsed leases are pending again.
Claimable == {i \in Items : row[i] = "pending"} \cup LapsedLeases

PriorityClass == [i \in Items |-> IF i \in Events THEN 0 ELSE 1]

ClaimOutbox(w, S) ==
    /\ batch[w] = {}
    /\ LapsedLeases \cup S # {}
    /\ FairBatch(S, Claimable, BatchLimit, PriorityClass, TenantOf)
    /\ row' = [i \in Items |->
                  IF i \in S THEN "in_progress"
                  ELSE IF i \in LapsedLeases THEN "pending" ELSE row[i]]
    /\ expired' = [i \in Items |-> expired[i] /\ i \notin LapsedLeases]
    /\ batch' = [batch EXCEPT ![w] = S]
    /\ reclaims' = [e \in Events |->
                       IF e \in LapsedLeases THEN reclaims[e] + 1 ELSE reclaims[e]]
    /\ UNCHANGED <<jobVars, made, item, pc, todo, listed, resumes, budget>>

\* The worker turns to item i and goes on at step at, with W to create.
Turn(w, i, at, W) ==
    /\ item' = [item EXCEPT ![w] = i]
    /\ pc' = [pc EXCEPT ![w] = at]
    /\ todo' = [todo EXCEPT ![w] = W]

\* ErrDeferred: the worker goes on with its next item, and the row stays leased
\* until its lease lapses.
Defer(w, i) ==
    /\ Turn(w, NoItem, "idle", {})
    /\ batch' = [batch EXCEPT ![w] = @ \ {i}]

Once(T) == T \X {1}

\* route_event and route_recovered_event.  The matching subscriptions and routes
\* are whatever is configured when they are read.
RouteEvent(w, e, T) ==
    IF e \in Unverified \ Recovered
      THEN Turn(w, e, "complete_row", {}) /\ UNCHANGED listed
      ELSE /\ Turn(w, e, "fanout", Once(T))
           /\ listed' = [listed EXCEPT ![e] = @ \cup {T}]

BeginEvent(w, e, T) ==
    /\ item[w] = NoItem
    /\ e \in batch[w]
    /\ RouteEvent(w, e, T)
    /\ UNCHANGED <<rowVars, jobVars, made, batch, reclaims, resumes, budget>>

\* CreateReplayDeliveries reads the job first: a paused or unapproved job is
\* deferred, and one that is running or finished is done with.
Waits_NotPaused(j) == job[j] = "pending_approval"

Waits(j) == job[j] \in {"paused", "pending_approval"}

BeginReplay(w, j) ==
    /\ item[w] = NoItem
    /\ j \in batch[w]
    /\ \/ /\ Waits(j)
          /\ Defer(w, j)
       \/ /\ ~Waits(j) /\ job[j] # "scheduled"
          /\ Turn(w, j, "complete_row", {})
          /\ UNCHANGED batch
       \/ /\ job[j] = "scheduled"
          /\ Turn(w, j, "start", {})
          /\ UNCHANGED batch
    /\ UNCHANGED <<rowVars, jobVars, made, historyVars, budget>>

\* UPDATE ... SET state = 'running' WHERE state = 'scheduled', tested by the
\* number of rows it changed.
MayStart_IfOpen(j) == Open(j)

MayStart(j) == job[j] = "scheduled"

StartReplayJob(w) ==
    LET j == item[w] IN
    /\ pc[w] = "start"
    /\ IF MayStart(j)
         THEN /\ job' = [job EXCEPT ![j] = "running"]
              /\ Turn(w, j, "list", {})
              /\ UNCHANGED batch
         ELSE Defer(w, j) /\ UNCHANGED job
    /\ UNCHANGED <<rowVars, scope, gated, createdBy, approvedBy, windowOpen, made,
                   historyVars, budget>>

\* What job j may find to replay: the targets that match its event now, none if
\* the event was not verified (even when it was recovered); a copy of every
\* delivery the event's own routing made; or one delivery, unless its route or
\* subscription is gone.
ReplayWork(j) ==
    CASE scope[j] = "current" ->
             {Once(T) : T \in SUBSET (IF EventOf[j] \in Unverified
                                      THEN {} ELSE Targets)}
      [] scope[j] = "original" ->
             {UNION {{t} \X (1..made[EventOf[j]][t]) : t \in Targets}}
      [] scope[j] = "delivery" ->
             {{}} \cup {Once({t}) : t \in Delivered(EventOf[j])}

ListReplay(w) ==
    /\ pc[w] = "list"
    /\ \E W \in ReplayWork(item[w]) : Turn(w, item[w], "fanout", W)
    /\ UNCHANGED <<rowVars, jobVars, made, batch, historyVars, budget>>

\* One transaction per delivery, in the order of the list.
CreateDelivery(w, x) ==
    /\ pc[w] = "fanout"
    /\ x \in todo[w]
    /\ made' = [made EXCEPT ![item[w]][x[1]] = @ + 1]
    /\ todo' = [todo EXCEPT ![w] = @ \ {x}]
    /\ UNCHANGED <<rowVars, jobVars, batch, item, pc, historyVars, budget>>

\* ... SET state = 'completed' WHERE state <> 'canceled'.
MayComplete(j) == job[j] # "canceled"

CompleteReplayJob(w) ==
    LET j == item[w] IN
    /\ pc[w] = "fanout" /\ todo[w] = {}
    /\ j \in Jobs
    /\ job' = IF MayComplete(j) THEN [job EXCEPT ![j] = "completed"] ELSE job
    /\ pc' = [pc EXCEPT ![w] = "complete_row"]
    /\ UNCHANGED <<rowVars, scope, gated, createdBy, approvedBy, windowOpen, made,
                   batch, item, todo, historyVars, budget>>

\* The row is found by its id alone, whoever holds it by now.
CompleteOutbox(w) ==
    LET i == item[w] IN
    /\ \/ pc[w] = "complete_row"
       \/ pc[w] = "fanout" /\ todo[w] = {} /\ i \in Events
    /\ row' = [row EXCEPT ![i] = "completed"]
    /\ expired' = [expired EXCEPT ![i] = FALSE]
    /\ Defer(w, i)
    /\ UNCHANGED <<jobVars, made, historyVars, budget>>

\* The worker forgets its batch; the rows stay leased.
DropBatch(w) ==
    /\ Turn(w, NoItem, "idle", {})
    /\ batch' = [batch EXCEPT ![w] = {}]
    /\ UNCHANGED <<rowVars, jobVars, made, historyVars>>

\* Any error but ErrDeferred ends the phase: a transformation that fails, a
\* payload that is gone, a database error.  So does the death of the process.
ProcessFails_CompletesRow(w) ==
    /\ item[w] # NoItem
    /\ Spend("error")
    /\ row' = [row EXCEPT ![item[w]] = "completed"]
    /\ Turn(w, NoItem, "idle", {})
    /\ batch' = [batch EXCEPT ![w] = {}]
    /\ UNCHANGED <<expired, jobVars, made, historyVars>>

ProcessFails(w) == item[w] # NoItem /\ Spend("error") /\ DropBatch(w)

WorkerCrash(w) == batch[w] # {} /\ Spend("crash") /\ DropBatch(w)

\* The 60 seconds of a lease run out; while a worker still processes the row
\* that takes a stall.
Held(i) == \E w \in Workers : i \in batch[w]

LeaseExpires(i) ==
    /\ row[i] = "in_progress"
    /\ ~expired[i]
    /\ IF Held(i) THEN Spend("stall") ELSE UNCHANGED budget
    /\ expired' = [expired EXCEPT ![i] = TRUE]
    /\ UNCHANGED <<row, jobVars, made, workerVars, historyVars>>

----------------------------------------------------------------------------
RunOutbox(w) ==
    \/ \E S \in SUBSET Items : ClaimOutbox(w, S)
    \/ \E e \in Events, T \in SUBSET Targets : BeginEvent(w, e, T)
    \/ \E j \in Jobs : BeginReplay(w, j)
    \/ StartReplayJob(w)
    \/ ListReplay(w)
    \/ \E x \in todo[w] : CreateDelivery(w, x)
    \/ CompleteReplayJob(w)
    \/ CompleteOutbox(w)

OperatorActs ==
    \E j \in Jobs :
        \/ \E u \in Users, gate \in BOOLEAN, s \in Scopes :
              CreateReplay(j, u, gate, s)
        \/ \E u \in Users : ApproveReplayJob(j, u)
        \/ ApprovalExpires(j)
        \/ PauseReplayJob(j)
        \/ ResumeReplayJob(j)
        \/ CancelReplayJob(j)

WorkerStops == \E w \in Workers : ProcessFails(w) \/ WorkerCrash(w)

Next ==
    \/ \E e \in Events : EnqueueRouteEvent(e)
    \/ OperatorActs
    \/ \E w \in Workers : RunOutbox(w)
    \/ WorkerStops
    \/ \E i \in Items : LeaseExpires(i)

Spec == Init /\ [][Next]_vars

\* Workers poll and finish what they claim, and leases nobody holds run out.
Fairness ==
    /\ \A w \in Workers : WF_vars(RunOutbox(w))
    /\ \A i \in Items : WF_vars(LeaseExpires(i) /\ ~Held(i))

FairSpec == Spec /\ Fairness

----------------------------------------------------------------------------
(* Safety.                                                                 *)

\* No delivery of a gated replay exists before somebody other than its creator
\* has approved it, whatever the order of pausing, resuming, canceling and
\* approving: the outbox row that makes a worker look at the job is inserted
\* only together with the approval.
ReplayNeedsApproval ==
    \A j \in Jobs :
        gated[j] /\ (\E t \in Targets : made[j][t] > 0) =>
            approvedBy[j] # NoUser /\ approvedBy[j] # createdBy[j]

\* Each (re)scheduling of a replay job is started by one worker only, so for each
\* target a job creates one delivery (in mode "original", one per delivery of the
\* event itself), and as many again for each time an operator resumed it.
ReplayFansOutOnce ==
    \A j \in Jobs, t \in Targets :
        made[j][t] <= (1 + resumes[j]) *
            (IF scope[j] = "original" THEN made[EventOf[j]][t] ELSE 1)

\* An event is delivered twice to a target only when its outbox row was taken
\* back from a worker after a lapsed lease: duplicates need a crash, an error or
\* a stall, each of which costs one lease.
DuplicatesNeedReclaim ==
    \A e \in Events, t \in Targets : made[e][t] <= 1 + reclaims[e]

\* The outbox row of an event is completed only after some worker has created a
\* delivery for every target it had read: at least once, through any crash.
CompletedMeansRouted ==
    \A e \in Events \ (Unverified \ Recovered) :
        row[e] = "completed" =>
            \E T \in listed[e] : \A t \in T : made[e][t] > 0

\* A completed or canceled replay job stays so, although the worker that still
\* runs it writes its state without looking at what operators did.
FinishedJobsStay ==
    [][\A j \in Jobs : job[j] \in {"completed", "canceled"} =>
                           job'[j] = job[j]]_vars

----------------------------------------------------------------------------
(* Liveness.                                                               *)

\* Every captured event is routed in the end, through crashes, errors and
\* stalls: the lease of whoever dropped its row runs out and the next claim takes
\* it back.
EventsGetRouted ==
    \A e \in Events : row[e] = "pending" ~> row[e] = "completed"

\* A replay job that is scheduled and has its outbox row finishes, or is stopped
\* by an operator: a deferred job keeps its row, so resuming it is enough.
ReplaysFinish ==
    \A j \in Jobs :
        job[j] = "scheduled" /\ row[j] # "absent" ~>
            job[j] \in {"completed", "canceled", "paused"}
=============================================================================
