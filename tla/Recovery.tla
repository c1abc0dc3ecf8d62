------------------------------- MODULE Recovery -------------------------------
(***************************************************************************)
(* Provider reconciliation (internal/app/reconciliation.go,                *)
(* internal/reconcile/reconcile.go and the store methods they call).  A    *)
(* job scans the provider's API, looks every object up locally, captures   *)
(* what is missing, asks for redeliveries and records one item per object. *)
(* Workers take jobs from the outbox; a lease may expire under a worker    *)
(* that is still busy, so that any worker may take any job whose outbox    *)
(* row is not completed.  Live webhooks and other jobs capture the same    *)
(* objects meanwhile, and a worker may die between any two statements.     *)
(***************************************************************************)
EXTENDS ControlPlane, Functions

CONSTANTS Jobs,       \* reconciliation jobs
          Objects,    \* the provider's objects [id, failed, payload], in the order listed
          Failures,   \* those it lists when it is asked for the failed ones only
          JobKinds,   \* the kinds [capture, route, redeliver, scope] of jobs asked for
          ScanPage    \* objects one scan returns

ASSUME RecoveryAssumption ==
  /\ Objects \in Seq(Range(Objects)) /\ Failures \in Seq({o \in Range(Objects) : o.failed})
  /\ ScanPage \in Nat

VARIABLES
  conn,        \* the provider connection [state, provider, source]
  job,         \* job -> [state, capture, route, redeliver, scope], or NoJob
  queued,      \* jobs whose outbox row is not completed
  local,       \* object -> its events, among "live" and "recovered"
  recoveries,  \* object -> number of events captured by reconciliation
  toRoute,     \* object -> number of route_recovered_event rows
  evidence,    \* job -> provider_api_evidence rows [of, call, attached]
  items,       \* job -> sequence of [object, outcome], as inserted
  totals,      \* job -> outcome -> the count stored when it completed
  runner       \* worker -> its run of a job

recoveryVars == <<conn, job, queued, local, recoveries, toRoute, evidence, items, totals, runner>>

Outcomes == {"matched", "missing", "captured", "redelivery_requested", "unrecoverable", "failed"}

Providers == {"stripe", "github", "shopify", "slack"}

NoJob == [state |-> "none"]

Unscoped == [id |-> 0]

RecoveryTypeOK ==
  /\ conn \in [state : {"none", "active", "revoked"}, provider : Providers, source : BOOLEAN]
  /\ \A j \in Jobs : job[j].state \in {"none", "scheduled", "running", "completed", "failed", "canceled"}
  /\ queued \subseteq Jobs
  /\ \A o \in Range(Objects) : local[o] \subseteq {"live", "recovered"}
  /\ \A j \in Jobs : \A i \in DOMAIN items[j] : items[j][i].outcome \in Outcomes
  /\ \A w \in Sessions : runner[w].at \in {"idle", "cancel", "start", "scan", "find", "capture", "route", "item", "complete"}

RecoveryInit ==
  /\ conn \in [state : {"none"}, provider : Providers, source : BOOLEAN]
  /\ job = [j \in Jobs |-> NoJob] /\ queued = {}
  /\ local = [o \in Range(Objects) |-> {}]
  /\ recoveries = [o \in Range(Objects) |-> 0] /\ toRoute = [o \in Range(Objects) |-> 0]
  /\ evidence = [j \in Jobs |-> {}] /\ items = [j \in Jobs |-> <<>>]
  /\ totals = [j \in Jobs |-> [c \in Outcomes |-> 0]]
  /\ runner = [w \in Sessions |-> Idle]

-----------------------------------------------------------------------------
ValidateProviderConnectionRequest(q) ==
  q.name /\ q.credential /\ q.provider \in Providers /\ q.type \in {"", "api_key", "bearer_token"}

CreateProviderConnectionRequests ==
  {q \in [name : BOOLEAN, credential : BOOLEAN, provider : Providers \cup {"other"}, type : {"", "api_key", "other"}] :
     Allowed("sources:write") /\ ValidateProviderConnectionRequest(q)}

RevokeProviderConnectionRequests == {q \in [reason : BOOLEAN] : Allowed("sources:write") /\ q.reason}

CreateProviderConnection ==
  /\ conn.state = "none"
  /\ conn.provider \in {q.provider : q \in CreateProviderConnectionRequests}
  /\ conn' = [conn EXCEPT !.state = "active"]
  /\ UNCHANGED <<job, queued, local, recoveries, toRoute, evidence, items, totals, runner>>

RevokeProviderConnection ==
  /\ conn.state = "active" /\ RevokeProviderConnectionRequests # {}
  /\ conn' = [conn EXCEPT !.state = "revoked"]
  /\ UNCHANGED <<job, queued, local, recoveries, toRoute, evidence, items, totals, runner>>

ValidateReconciliationJobRequest(q) == q.connection /\ q.window /\ (q.route => q.capture)

(* Requests; window says that the window's ends are in order. *)
CreateReconciliationJobRequests ==
  {q \in [connection : BOOLEAN, reason : BOOLEAN, window : BOOLEAN, capture : BOOLEAN, route : BOOLEAN,
          redeliver : BOOLEAN, scope : {Unscoped} \cup Range(Objects)] :
     Allowed("replay:write") /\ q.reason /\ ValidateReconciliationJobRequest(q)}

KindsRequested ==
  {[capture |-> q.capture, route |-> q.route, redeliver |-> q.redeliver, scope |-> q.scope] : q \in CreateReconciliationJobRequests}

CancelReconciliationJobRequests == {q \in [reason : BOOLEAN] : Allowed("replay:write") /\ q.reason}

(* The job and its outbox row are two statements: the second may fail. *)
CreateReconciliationJob ==
  /\ conn.state # "none"
  /\ \E j \in Jobs, q \in JobKinds \cap KindsRequested :
       /\ job[j] = NoJob
       /\ job' = [job EXCEPT ![j] = [state |-> "scheduled", capture |-> q.capture, route |-> q.route,
                                     redeliver |-> q.redeliver, scope |-> q.scope]]
       /\ queued' \in {queued, queued \cup {j}}
  /\ UNCHANGED <<conn, local, recoveries, toRoute, evidence, items, totals, runner>>

(* Read and write are two statements, the second without a guard: what it  *)
(* overwrites may have completed since.                                    *)
ReadForCancel(s) ==
  /\ runner[s] = Idle /\ CancelReconciliationJobRequests # {}
  /\ \E j \in Jobs : /\ job[j].state \in {"scheduled", "running"}
                     /\ runner' = [runner EXCEPT ![s] = [at |-> "cancel", job |-> j]]
  /\ UNCHANGED <<conn, job, queued, local, recoveries, toRoute, evidence, items, totals>>

CancelReconciliationJob(s) ==
  /\ runner[s].at = "cancel"
  /\ job' = [job EXCEPT ![runner[s].job].state = "canceled"]
  /\ runner' = [runner EXCEPT ![s] = Idle]
  /\ UNCHANGED <<conn, queued, local, recoveries, toRoute, evidence, items, totals>>

(* A signed webhook for an object arrives and is captured. *)
LiveCapture ==
  /\ \E o \in Range(Objects) : "live" \notin local[o] /\ local' = [local EXCEPT ![o] = @ \cup {"live"}]
  /\ UNCHANGED <<conn, job, queued, recoveries, toRoute, evidence, items, totals, runner>>

-----------------------------------------------------------------------------
(* The adapters of reconcile.go.  Stripe lists whole events; GitHub lists  *)
(* deliveries without their bodies, only the failed ones when they are to  *)
(* be redelivered; the others scan nothing.                                *)
CanScanEvents(p) == p \in {"stripe", "github"}

FirstPage(s) == SubSeq(s, 1, Min({ScanPage, Len(s)}))

(* The scan of a job q: of one object, or of what is there. *)
Scan(p, q) ==
  IF q.scope # Unscoped THEN <<q.scope>>
  ELSE FirstPage(IF p = "github" /\ q.redeliver THEN Failures ELSE Objects)

HasBody(p, q, o) == p = "stripe" \/ (q.scope # Unscoped /\ o.payload)

Lookup(p, o) == IF p = "stripe" \/ o.payload THEN "body" ELSE "no body"

Redeliverable(p, o) == p = "github" /\ o.failed

At(w, stage) == runner[w].at = stage

Goto(w, r) == runner' = [runner EXCEPT ![w] = r]

(* CompleteOutbox follows, and may fail. *)
OutboxDone(j) == queued' \in {queued, queued \ {j}}

(* GetReconciliationWork needs the connection to be active; otherwise the  *)
(* outbox row is left to be tried again.                                   *)
TakeJob(w) ==
  /\ runner[w] = Idle /\ conn.state = "active"
  /\ \E j \in queued :
       IF job[j].state \in {"canceled", "completed"}
       THEN queued' = queued \ {j} /\ UNCHANGED runner
       ELSE Goto(w, [at |-> "start", job |-> j]) /\ UNCHANGED queued
  /\ UNCHANGED <<conn, job, local, recoveries, toRoute, evidence, items, totals>>

StartReconciliationJob_Unfinished(w) ==
  /\ At(w, "start")
  /\ IF job[runner[w].job].state \notin {"canceled", "completed"}
     THEN /\ job' = [job EXCEPT ![runner[w].job].state = "running"]
          /\ Goto(w, [runner[w] EXCEPT !.at = "scan"])
     ELSE Goto(w, Idle) /\ UNCHANGED job
  /\ UNCHANGED <<conn, queued, local, recoveries, toRoute, evidence, items, totals>>

(* UPDATE ... WHERE state='scheduled': otherwise the work is deferred. *)
StartReconciliationJob(w) ==
  /\ At(w, "start")
  /\ IF job[runner[w].job].state = "scheduled"
     THEN /\ job' = [job EXCEPT ![runner[w].job].state = "running"]
          /\ Goto(w, [runner[w] EXCEPT !.at = "scan"])
     ELSE Goto(w, Idle) /\ UNCHANGED job
  /\ UNCHANGED <<conn, queued, local, recoveries, toRoute, evidence, items, totals>>

CallRecorded(j, of, call, attached) == evidence' = [evidence EXCEPT ![j] = @ \cup {[of |-> of, call |-> call, attached |-> attached]}]

ScanProvider(w) ==
  LET j == runner[w].job
  IN /\ At(w, "scan")
     /\ IF CanScanEvents(conn.provider)
        THEN /\ CallRecorded(j, Unscoped, "scan", FALSE)
             /\ Goto(w, [at |-> "find", job |-> j, todo |-> Scan(conn.provider, job[j])])
             /\ UNCHANGED items
        ELSE /\ items' = [items EXCEPT ![j] = Append(@, [object |-> Unscoped, outcome |-> "unrecoverable"])]
             /\ Goto(w, [at |-> "find", job |-> j, todo |-> <<>>])
             /\ UNCHANGED evidence
     /\ UNCHANGED <<conn, job, queued, local, recoveries, toRoute, totals>>

FailReconciliationJob(j) ==
  /\ job' = IF job[j].state = "canceled" THEN job ELSE [job EXCEPT ![j].state = "failed"]
  /\ OutboxDone(j)

(* The scan, or a statement of the run, fails: the job fails. *)
RunJobFails(w) ==
  /\ runner[w].at \in {"scan", "find", "capture", "item"}
  /\ FailReconciliationJob(runner[w].job)
  /\ Goto(w, Idle)
  /\ UNCHANGED <<conn, local, recoveries, toRoute, evidence, items, totals>>

FindLocalProviderEvent(w) ==
  LET r == runner[w]
  IN /\ At(w, "find") /\ r.todo # <<>>
     /\ LET missing == local[Head(r.todo)] = {}
        IN Goto(w, [at |-> IF missing /\ job[r.job].capture THEN "capture" ELSE "item",
                    job |-> r.job, todo |-> r.todo, outcome |-> IF missing THEN "missing" ELSE "matched", ev |-> {}])
     /\ UNCHANGED <<conn, job, queued, local, recoveries, toRoute, evidence, items, totals>>

(* Lookup, unless the scan had the body: an error makes the item "failed", *)
(* an object without a body "unrecoverable".                               *)
LookupObject(w) ==
  LET r == runner[w]
      o == Head(r.todo)
  IN /\ At(w, "capture") /\ r.ev = {} /\ ~HasBody(conn.provider, job[r.job], o)
     /\ CallRecorded(r.job, o, "lookup", FALSE)
     /\ \E answer \in {Lookup(conn.provider, o), "error"} :
          CASE answer = "body" -> Goto(w, [r EXCEPT !.ev = {"lookup"}])
            [] answer = "no body" -> Goto(w, [r EXCEPT !.at = "item", !.ev = {"lookup"}, !.outcome = "unrecoverable"])
            [] answer = "error" -> Goto(w, [r EXCEPT !.at = "item", !.ev = {"lookup"}, !.outcome = "failed"])
     /\ UNCHANGED <<conn, job, queued, local, recoveries, toRoute, items, totals>>

InsertRecovered_NoUniqueKey(o) ==
  /\ local' = [local EXCEPT ![o] = @ \cup {"recovered"}]
  /\ recoveries' = [recoveries EXCEPT ![o] = @ + 1]

(* The event with dedupe key "reconcile:...": the one that is there, or a  *)
(* new one.  A live capture of the object has another key.                 *)
InsertRecovered(o) ==
  IF "recovered" \in local[o] THEN UNCHANGED <<local, recoveries>>
  ELSE /\ local' = [local EXCEPT ![o] = @ \cup {"recovered"}]
       /\ recoveries' = [recoveries EXCEPT ![o] = @ + 1]

(* The transaction commits, or fails (without a source it always does; so  *)
(* does the later of two inserts that race) and the item is "failed".      *)
CaptureRecoveredProviderEvent(w) ==
  LET r == runner[w]
      o == Head(r.todo)
  IN /\ At(w, "capture") /\ (HasBody(conn.provider, job[r.job], o) \/ r.ev # {})
     /\ \/ /\ conn.source /\ InsertRecovered(o)
           /\ Goto(w, [r EXCEPT !.at = "route", !.outcome = "captured"])
        \/ /\ Goto(w, [r EXCEPT !.at = "item", !.outcome = "failed"])
           /\ UNCHANGED <<local, recoveries>>
     /\ UNCHANGED <<conn, job, queued, toRoute, evidence, items, totals>>

(* After the commit, a statement of its own. *)
EnqueueRecovered(w) ==
  LET r == runner[w]
      o == Head(r.todo)
  IN /\ At(w, "route")
     /\ \/ /\ job[r.job].route
           /\ toRoute' = [toRoute EXCEPT ![o] = @ + 1] /\ Goto(w, [r EXCEPT !.at = "item"])
        \/ /\ job[r.job].route
           /\ Goto(w, [r EXCEPT !.at = "item", !.outcome = "failed"]) /\ UNCHANGED toRoute
        \/ ~job[r.job].route /\ Goto(w, [r EXCEPT !.at = "item"]) /\ UNCHANGED toRoute
     /\ UNCHANGED <<conn, job, queued, local, recoveries, evidence, items, totals>>

(* A redelivery that is asked for decides the outcome; the last evidence   *)
(* is attached to the item.                                                *)
InsertReconciliationItem(w) ==
  LET r == runner[w]
      o == Head(r.todo)
      asks == job[r.job].redeliver /\ Redeliverable(conn.provider, o)
      last == IF asks THEN {"redelivery"} ELSE r.ev
  IN /\ At(w, "item")
     /\ \E outcome \in IF asks THEN {"redelivery_requested", "failed"} ELSE {r.outcome} :
          items' = [items EXCEPT ![r.job] = Append(@, [object |-> o, outcome |-> outcome])]
     /\ evidence' = [evidence EXCEPT ![r.job] =
                       {e \in @ : e.of # o \/ e.call \notin last}
                         \cup {[of |-> o, call |-> c, attached |-> TRUE] : c \in last}]
     /\ Goto(w, [at |-> "find", job |-> r.job, todo |-> Tail(r.todo)])
     /\ UNCHANGED <<conn, job, queued, local, recoveries, toRoute, totals>>

Count(j, outcome) == Cardinality({i \in DOMAIN items[j] : items[j][i].outcome = outcome})

(* The cursor of the next page is stored with the job, but no run of this  *)
(* job follows to use it.                                                  *)
CompleteReconciliationJob(w) ==
  LET j == runner[w].job
  IN /\ At(w, "find") /\ runner[w].todo = <<>>
     /\ IF job[j].state = "canceled" THEN UNCHANGED <<job, totals>>
        ELSE /\ job' = [job EXCEPT ![j].state = "completed"]
             /\ totals' = [totals EXCEPT ![j] = [c \in Outcomes |-> Count(j, c)]]
     /\ OutboxDone(j) /\ Goto(w, Idle)
     /\ UNCHANGED <<conn, local, recoveries, toRoute, evidence, items>>

RunnerCrashes(w) ==
  /\ runner[w] # Idle /\ Goto(w, Idle)
  /\ UNCHANGED <<conn, job, queued, local, recoveries, toRoute, evidence, items, totals>>

RunJob(w) ==
  \/ TakeJob(w) \/ StartReconciliationJob(w) \/ ScanProvider(w) \/ FindLocalProviderEvent(w) \/ LookupObject(w)
  \/ CaptureRecoveredProviderEvent(w) \/ EnqueueRecovered(w) \/ InsertReconciliationItem(w)
  \/ CompleteReconciliationJob(w) \/ RunJobFails(w)

RecoveryNext ==
  \/ CreateProviderConnection \/ RevokeProviderConnection \/ CreateReconciliationJob \/ LiveCapture
  \/ \E w \in Sessions : RunJob(w) \/ ReadForCancel(w) \/ CancelReconciliationJob(w) \/ RunnerCrashes(w)

RecoverySpec == RecoveryInit /\ [][RecoveryNext]_recoveryVars

-----------------------------------------------------------------------------
(* However many jobs and workers reconcile an object, and whatever lease   *)
(* runs out under them, at most one recovered event is captured for it,    *)
(* and it is routed only on request: an outbox row for it goes back to a   *)
(* job with route_recovered=true whose scope it is in.                     *)
RecoveredOnce ==
  \A o \in Range(Objects) :
    /\ recoveries[o] <= 1
    /\ toRoute[o] > 0 =>
         /\ "recovered" \in local[o]
         /\ \E j \in Jobs : job[j] # NoJob /\ job[j].route /\ job[j].scope \in {Unscoped, o}

(* A completed job has exactly one item for each object of its scan, and   *)
(* the totals stored with it are the counts of those items.                *)
CompletedTotalsExact ==
  \A j \in Jobs : job[j].state = "completed" =>
    /\ Len(items[j]) = IF CanScanEvents(conn.provider) THEN Len(Scan(conn.provider, job[j])) ELSE 1
    /\ \A c \in Outcomes : totals[j][c] = Count(j, c)
=============================================================================
