---------------------------- MODULE FanoutProofs ----------------------------
(***************************************************************************)
(* Proofs about the outbox and replay jobs, for any sets of events, jobs,   *)
(* targets, users and workers and any budget of disruptions.               *)
(***************************************************************************)
EXTENDS Fanout, TLAPS

\* The initial state is well typed.
LEMMA InitTypeOK == Init => TypeOK
BY FanoutAssumption DEF Init, TypeOK, JobStates, Scopes, Items, Disruptions

\* Spending a disruption keeps the budget a function into Nat.
LEMMA SpendType ==
    ASSUME NEW kind \in Disruptions, budget \in [Disruptions -> Nat], Spend(kind)
    PROVE  budget' \in [Disruptions -> Nat]
BY DEF Spend

\* What a replay job finds to create is a set of numbered targets.
LEMMA ReplayWorkType ==
    ASSUME TypeOK, NEW j \in Jobs, NEW W \in ReplayWork(j)
    PROVE  W \subseteq Targets \X Nat
<1>1. EventOf[j] \in Events /\ scope[j] \in {"current", "original", "delivery"}
  BY FanoutAssumption DEF TypeOK, Scopes
<1>2. CASE scope[j] = "current"
  BY <1>2 DEF ReplayWork, Once
<1>3. CASE scope[j] = "original"
  BY <1>3 DEF ReplayWork
<1>4. CASE scope[j] = "delivery"
  BY <1>4 DEF ReplayWork, Once, Delivered
<1> QED
  BY <1>1, <1>2, <1>3, <1>4

\* The item a worker is processing fits the step it is at.
ItemFitsStep ==
    \A w \in Workers :
        /\ pc[w] = "idle" <=> item[w] = NoItem
        /\ pc[w] \in {"start", "list"} => item[w] \in Jobs
        /\ item[w] # NoItem => item[w] \in batch[w]

Steps == {"idle", "start", "list", "fanout", "complete_row"}

WorkerTypeOK ==
    /\ batch \in [Workers -> SUBSET Items]
    /\ item \in [Workers -> Items \cup {NoItem}]
    /\ pc \in [Workers -> Steps]
    /\ todo \in [Workers -> SUBSET (Targets \X Nat)]

\* A worker that turns to an item of its batch keeps its memory well typed and
\* its item and step in line.
LEMMA TurnKeeps ==
    ASSUME WorkerTypeOK, ItemFitsStep, NEW w \in Workers,
           NEW i \in Items \cup {NoItem}, NEW at \in Steps,
           NEW W \in SUBSET (Targets \X Nat), NEW B \in SUBSET Items,
           Turn(w, i, at, W),
           batch' = [batch EXCEPT ![w] = B],
           at = "idle" <=> i = NoItem,
           at \in {"start", "list"} => i \in Jobs,
           i # NoItem => i \in B
    PROVE  WorkerTypeOK' /\ ItemFitsStep'
<1>1. WorkerTypeOK'
  BY DEF WorkerTypeOK, Turn
<1>2. ItemFitsStep'
  BY DEF WorkerTypeOK, ItemFitsStep, Turn
<1> QED
  BY <1>1, <1>2

\* So does one that turns to nothing.
LEMMA IdleKeeps ==
    ASSUME WorkerTypeOK, ItemFitsStep, NEW w \in Workers, NEW B \in SUBSET Items,
           Turn(w, NoItem, "idle", {}), batch' = [batch EXCEPT ![w] = B]
    PROVE  WorkerTypeOK' /\ ItemFitsStep'
<1>1. /\ {} \in SUBSET (Targets \X Nat)
      /\ "idle" \in Steps /\ ~("idle" \in {"start", "list"})
  BY DEF Steps
<1>2. NoItem \in Items \cup {NoItem}
  OBVIOUS
<1> QED
  BY <1>1, <1>2, TurnKeeps, Zenon

\* Claiming, creating a delivery and completing a job keep them so as well.
LEMMA RunOutboxWorkerType ==
    ASSUME TypeOK, ItemFitsStep, NEW w \in Workers, RunOutbox(w)
    PROVE  WorkerTypeOK' /\ ItemFitsStep'
<1> DEFINE Goal == WorkerTypeOK' /\ ItemFitsStep'
<1>0. WorkerTypeOK
  BY DEF TypeOK, WorkerTypeOK, Steps
<1>a. Events \subseteq Items /\ Jobs \subseteq Items /\ NoItem \notin Items
  BY FanoutAssumption DEF Items
<1>b. batch[w] \in SUBSET Items /\ batch = [batch EXCEPT ![w] = batch[w]]
  BY <1>0 DEF WorkerTypeOK
<1>1. ASSUME NEW S \in SUBSET Items, ClaimOutbox(w, S) PROVE Goal
  BY <1>0, <1>1 DEF WorkerTypeOK, ItemFitsStep, ClaimOutbox
<1>2. ASSUME NEW e \in Events, NEW T \in SUBSET Targets, BeginEvent(w, e, T)
      PROVE  Goal
  <2>1. Once(T) \in SUBSET (Targets \X Nat)
    BY DEF Once
  <2>2. PICK at \in {"fanout", "complete_row"}, W \in {{}, Once(T)} :
            Turn(w, e, at, W)
    BY <1>2 DEF BeginEvent, RouteEvent
  <2>3. e \in batch[w] /\ batch' = batch
    BY <1>2 DEF BeginEvent
  <2> QED
    BY <1>0, <1>a, <1>b, <2>1, <2>2, <2>3, TurnKeeps DEF Steps
<1>3. ASSUME NEW j \in Jobs, Defer(w, j) PROVE Goal
  <2>1. batch[w] \ {j} \in SUBSET Items
    BY <1>b
  <2> QED
    BY <1>0, <1>3, <2>1, IdleKeeps, Zenon DEF Defer
<1>4. ASSUME NEW j \in Jobs, BeginReplay(w, j) PROVE Goal
  <2>1. CASE Defer(w, j)
    BY <1>3, <2>1
  <2>2. CASE \E at \in {"start", "complete_row"} :
                 Turn(w, j, at, {}) /\ UNCHANGED batch /\ j \in batch[w]
    <3>1. PICK at \in {"start", "complete_row"} :
              Turn(w, j, at, {}) /\ UNCHANGED batch /\ j \in batch[w]
      BY <2>2
    <3> QED
      BY <1>0, <1>a, <1>b, <3>1, TurnKeeps DEF Steps
  <2> QED
    BY <1>4, <2>1, <2>2 DEF BeginReplay
<1>5. CASE StartReplayJob(w)
  <2>1. item[w] \in Jobs /\ item[w] \in batch[w]
    BY <1>5, <1>a DEF StartReplayJob, ItemFitsStep
  <2>2. CASE Defer(w, item[w])
    BY <1>3, <2>1, <2>2
  <2>3. CASE Turn(w, item[w], "list", {}) /\ UNCHANGED batch
    BY <1>0, <1>a, <1>b, <2>1, <2>3, TurnKeeps DEF Steps
  <2> QED
    BY <1>5, <2>2, <2>3 DEF StartReplayJob
<1>6. CASE ListReplay(w)
  <2>1. item[w] \in Jobs /\ item[w] \in batch[w]
    BY <1>6, <1>a DEF ListReplay, ItemFitsStep
  <2>2. PICK W \in ReplayWork(item[w]) : Turn(w, item[w], "fanout", W)
    BY <1>6 DEF ListReplay
  <2>3. W \in SUBSET (Targets \X Nat) /\ batch' = batch
    BY <1>6, <2>1, <2>2, ReplayWorkType DEF ListReplay
  <2> QED
    BY <1>0, <1>a, <1>b, <2>1, <2>2, <2>3, TurnKeeps DEF Steps
<1>7. ASSUME NEW x \in todo[w], CreateDelivery(w, x) PROVE Goal
  BY <1>0, <1>7 DEF CreateDelivery, WorkerTypeOK, ItemFitsStep
<1>8. CASE CompleteReplayJob(w)
  BY <1>0, <1>8 DEF CompleteReplayJob, WorkerTypeOK, ItemFitsStep, Steps
<1>9. CASE CompleteOutbox(w)
  <2>1. batch[w] \ {item[w]} \in SUBSET Items
    BY <1>b
  <2> QED
    BY <1>0, <1>9, <2>1, IdleKeeps, Zenon DEF CompleteOutbox, Defer
<1> QED
  BY <1>1, <1>2, <1>4, <1>5, <1>6, <1>7, <1>8, <1>9 DEF RunOutbox

\* The columns keep their types.
ColumnTypeOK ==
    /\ row \in [Items -> {"absent", "pending", "in_progress", "completed"}]
    /\ expired \in [Items -> BOOLEAN]
    /\ job \in [Jobs -> JobStates]
    /\ made \in [Items -> [Targets -> Nat]]
    /\ listed \in [Events -> SUBSET SUBSET Targets]
    /\ reclaims \in [Events -> Nat]

\* A worker's steps keep the columns they write well typed.
LEMMA RunOutboxColumnType ==
    ASSUME TypeOK, ItemFitsStep, NEW w \in Workers, RunOutbox(w)
    PROVE  /\ ColumnTypeOK'
           /\ UNCHANGED <<scope, gated, createdBy, approvedBy, windowOpen,
                          resumes, budget>>
<1> DEFINE Goal == /\ ColumnTypeOK'
                   /\ UNCHANGED <<scope, gated, createdBy, approvedBy, windowOpen,
                                  resumes, budget>>
<1>0. ColumnTypeOK /\ Events \subseteq Items /\ Jobs \subseteq Items
  BY DEF TypeOK, ColumnTypeOK, Items
<1> USE DEF rowVars, jobVars, historyVars
<1>1. ASSUME NEW S \in SUBSET Items, ClaimOutbox(w, S) PROVE Goal
  BY <1>0, <1>1 DEF ColumnTypeOK, ClaimOutbox, LapsedLeases
<1>2. ASSUME NEW e \in Events, NEW T \in SUBSET Targets, BeginEvent(w, e, T)
      PROVE  Goal
  <2>1. listed' = listed \/ listed' = [listed EXCEPT ![e] = @ \cup {T}]
    BY <1>2 DEF BeginEvent, RouteEvent
  <2>2. listed' \in [Events -> SUBSET SUBSET Targets]
    <3>1. listed[e] \cup {T} \in SUBSET SUBSET Targets
      BY <1>0 DEF ColumnTypeOK
    <3> QED
      BY <1>0, <2>1, <3>1, Zenon DEF ColumnTypeOK
  <2> QED
    BY <1>0, <1>2, <2>2 DEF ColumnTypeOK, BeginEvent
<1>3. ASSUME NEW j \in Jobs, BeginReplay(w, j) PROVE Goal
  BY <1>0, <1>3 DEF ColumnTypeOK, BeginReplay
<1>4. CASE StartReplayJob(w)
  <2>1. item[w] \in Jobs
    BY <1>4 DEF StartReplayJob, ItemFitsStep
  <2>2. job' = [job EXCEPT ![item[w]] = "running"] \/ job' = job
    BY <1>4 DEF StartReplayJob
  <2>3. job' \in [Jobs -> JobStates]
    BY <1>0, <2>1, <2>2 DEF ColumnTypeOK, JobStates
  <2> QED
    BY <1>0, <1>4, <2>3 DEF ColumnTypeOK, StartReplayJob
<1>5. CASE ListReplay(w)
  BY <1>0, <1>5 DEF ColumnTypeOK, ListReplay
<1>6. ASSUME NEW x \in todo[w], CreateDelivery(w, x) PROVE Goal
  <2>1. item[w] \in Items /\ x[1] \in Targets
    BY <1>6 DEF CreateDelivery, TypeOK, ItemFitsStep
  <2>2. made' \in [Items -> [Targets -> Nat]]
    BY <1>0, <1>6, <2>1 DEF CreateDelivery, ColumnTypeOK
  <2> QED
    BY <1>0, <1>6, <2>2 DEF CreateDelivery, ColumnTypeOK
<1>7. CASE CompleteReplayJob(w)
  BY <1>0, <1>7 DEF ColumnTypeOK, CompleteReplayJob, JobStates
<1>8. CASE CompleteOutbox(w)
  BY <1>0, <1>8, Zenon DEF ColumnTypeOK, CompleteOutbox
<1> QED
  BY <1>1, <1>2, <1>3, <1>4, <1>5, <1>6, <1>7, <1>8 DEF RunOutbox

\* Every operation keeps the types and keeps a worker's item and step in line.
LEMMA NextTypeOK ==
    TypeOK /\ ItemFitsStep /\ [Next]_vars => TypeOK' /\ ItemFitsStep'
<1> SUFFICES ASSUME TypeOK, ItemFitsStep, [Next]_vars
             PROVE  TypeOK' /\ ItemFitsStep'
  OBVIOUS
<1> DEFINE Goal == TypeOK' /\ ItemFitsStep'
<1>0. Events \subseteq Items /\ Jobs \subseteq Items
  BY DEF Items
<1> USE DEF rowVars, jobVars, workerVars, historyVars
<1>1. ASSUME NEW e \in Events, EnqueueRouteEvent(e) PROVE Goal
  BY <1>0, <1>1 DEF EnqueueRouteEvent, TypeOK, ItemFitsStep
<1>2. CASE OperatorActs
  <2>1. ASSUME NEW j \in Jobs, NEW u \in Users, NEW gate \in BOOLEAN,
               NEW s \in Scopes, CreateReplay(j, u, gate, s)
        PROVE  Goal
    BY <1>0, <2>1 DEF CreateReplay, TypeOK, ItemFitsStep, JobStates
  <2>2. ASSUME NEW j \in Jobs, NEW u \in Users, ApproveReplayJob(j, u) PROVE Goal
    BY <1>0, <2>2 DEF ApproveReplayJob, TypeOK, ItemFitsStep, JobStates
  <2>3. ASSUME NEW j \in Jobs, ApprovalExpires(j) PROVE Goal
    BY <2>3 DEF ApprovalExpires, TypeOK, ItemFitsStep
  <2>4. ASSUME NEW j \in Jobs, PauseReplayJob(j) PROVE Goal
    BY <2>4, SpendType
       DEF PauseReplayJob, Disruptions, TypeOK, ItemFitsStep, JobStates
  <2>5. ASSUME NEW j \in Jobs, ResumeReplayJob(j) PROVE Goal
    BY <2>5, SpendType DEF ResumeReplayJob, ResumedState, Disruptions, TypeOK,
                           ItemFitsStep, JobStates
  <2>6. ASSUME NEW j \in Jobs, CancelReplayJob(j) PROVE Goal
    BY <2>6, SpendType
       DEF CancelReplayJob, Disruptions, TypeOK, ItemFitsStep, JobStates
  <2> QED
    BY <1>2, <2>1, <2>2, <2>3, <2>4, <2>5, <2>6 DEF OperatorActs
<1>3. ASSUME NEW w \in Workers, RunOutbox(w) PROVE Goal
  BY <1>3, RunOutboxWorkerType, RunOutboxColumnType
     DEF TypeOK, WorkerTypeOK, ColumnTypeOK, Steps
<1>4. CASE WorkerStops
  <2>1. PICK w \in Workers : ProcessFails(w) \/ WorkerCrash(w)
    BY <1>4 DEF WorkerStops
  <2>2. DropBatch(w) /\ budget' \in [Disruptions -> Nat]
    BY <2>1, SpendType DEF ProcessFails, WorkerCrash, Disruptions, TypeOK
  <2>3. WorkerTypeOK' /\ ItemFitsStep'
    <3>1. WorkerTypeOK /\ {} \in SUBSET Items
      BY DEF TypeOK, WorkerTypeOK, Steps
    <3> QED
      BY <2>2, <3>1, IdleKeeps, Zenon DEF DropBatch
  <2> QED
    BY <2>2, <2>3 DEF DropBatch, TypeOK, WorkerTypeOK, Steps
<1>5. ASSUME NEW i \in Items, LeaseExpires(i) PROVE Goal
  BY <1>5, SpendType DEF LeaseExpires, Disruptions, TypeOK, ItemFitsStep
<1>6. CASE UNCHANGED vars
  BY <1>6 DEF vars, TypeOK, ItemFitsStep
<1> QED
  BY <1>1, <1>2, <1>3, <1>4, <1>5, <1>6 DEF Next

\* Every reachable state of the outbox and of replay jobs is well typed.
THEOREM TypeCorrect == Spec => [](TypeOK /\ ItemFitsStep)
<1>1. Init => ItemFitsStep
  BY DEF Init, ItemFitsStep
<1> QED
  BY <1>1, InitTypeOK, NextTypeOK, PTL DEF Spec

----------------------------------------------------------------------------
(* Approval.  A worker only sees a job through its outbox row, so it is     *)
(* enough that a gated job has a row only once it is approved.              *)

Approved(j) == approvedBy[j] # NoUser /\ approvedBy[j] # createdBy[j]

RowsApproved ==
    /\ \A j \in Jobs : row[j] # "absent" =>
           job[j] # "absent" /\ (gated[j] => Approved(j))
    /\ \A w \in Workers, j \in Jobs : j \in batch[w] => row[j] # "absent"
    /\ \A j \in Jobs, t \in Targets : made[j][t] > 0 => row[j] # "absent"

\* No step gives an unapproved gated job a row, a place in a batch or a delivery.
LEMMA NextRowsApproved ==
    TypeOK /\ ItemFitsStep /\ RowsApproved /\ [Next]_vars => RowsApproved'
<1> SUFFICES ASSUME TypeOK, ItemFitsStep, RowsApproved, [Next]_vars
             PROVE  RowsApproved'
  OBVIOUS
<1>a. Events \subseteq Items /\ Jobs \subseteq Items /\ Events \cap Jobs = {}
      /\ NoItem \notin Items /\ NoUser \notin Users
  BY FanoutAssumption DEF Items
<1>b. /\ row \in [Items -> {"absent", "pending", "in_progress", "completed"}]
      /\ job \in [Jobs -> JobStates]
      /\ gated \in [Jobs -> BOOLEAN]
      /\ createdBy \in [Jobs -> Users \cup {NoUser}]
      /\ approvedBy \in [Jobs -> Users \cup {NoUser}]
      /\ made \in [Items -> [Targets -> Nat]]
      /\ batch \in [Workers -> SUBSET Items]
  BY DEF TypeOK
<1> USE <1>a, <1>b DEF RowsApproved, Approved, rowVars, jobVars, workerVars,
        historyVars
<1>1. ASSUME NEW e \in Events, EnqueueRouteEvent(e) PROVE RowsApproved'
  BY <1>1 DEF EnqueueRouteEvent
<1>2. CASE OperatorActs
  <2>1. ASSUME NEW j \in Jobs, NEW u \in Users, NEW gate \in BOOLEAN,
               NEW s \in Scopes, CreateReplay(j, u, gate, s)
        PROVE  RowsApproved'
    BY <2>1 DEF CreateReplay
  <2>2. ASSUME NEW j \in Jobs, NEW u \in Users, ApproveReplayJob(j, u)
        PROVE  RowsApproved'
    BY <2>2 DEF ApproveReplayJob, MayApprove
  <2>3. ASSUME NEW j \in Jobs, ApprovalExpires(j) PROVE RowsApproved'
    BY <2>3 DEF ApprovalExpires
  <2>4. ASSUME NEW j \in Jobs, PauseReplayJob(j) PROVE RowsApproved'
    BY <2>4 DEF PauseReplayJob
  <2>5. ASSUME NEW j \in Jobs, ResumeReplayJob(j) PROVE RowsApproved'
    BY <2>5 DEF ResumeReplayJob, ResumedState
  <2>6. ASSUME NEW j \in Jobs, CancelReplayJob(j) PROVE RowsApproved'
    BY <2>6 DEF CancelReplayJob
  <2> QED
    <3>1. PICK j \in Jobs :
             \/ \E u \in Users, gate \in BOOLEAN, s \in Scopes :
                   CreateReplay(j, u, gate, s)
             \/ \E u \in Users : ApproveReplayJob(j, u)
             \/ ApprovalExpires(j) \/ PauseReplayJob(j) \/ ResumeReplayJob(j)
             \/ CancelReplayJob(j)
      BY <1>2 DEF OperatorActs
    <3> HIDE <1>a, <1>b DEF RowsApproved
    <3> QED
      BY <3>1, <2>1, <2>2, <2>3, <2>4, <2>5, <2>6, Zenon
<1>3. ASSUME NEW w \in Workers, RunOutbox(w) PROVE RowsApproved'
  <2>1. ASSUME NEW S \in SUBSET Items, ClaimOutbox(w, S) PROVE RowsApproved'
    <3>1. \A i \in S : row[i] # "absent"
      BY <2>1, Zenon DEF ClaimOutbox, FairBatch, Claimable, LapsedLeases
    <3>2. \A i \in Items : row'[i] = "absent" <=> row[i] = "absent"
      BY <2>1, <3>1 DEF ClaimOutbox, LapsedLeases
    <3> QED
      BY <2>1, <3>1, <3>2 DEF ClaimOutbox
  <2>2. ASSUME NEW e \in Events, NEW T \in SUBSET Targets, BeginEvent(w, e, T)
        PROVE  RowsApproved'
    BY <2>2 DEF BeginEvent
  <2>3. ASSUME NEW j \in Jobs, BeginReplay(w, j) PROVE RowsApproved'
    BY <2>3 DEF BeginReplay, Defer
  <2>4. CASE StartReplayJob(w)
    <3>1. \A j \in Jobs : job'[j] = "absent" => job[j] = "absent"
      BY <2>4 DEF StartReplayJob
    <3>2. \A v \in Workers : batch'[v] \subseteq batch[v]
      BY <2>4 DEF StartReplayJob, Defer
    <3> QED
      BY <2>4, <3>1, <3>2 DEF StartReplayJob
  <2>5. CASE ListReplay(w)
    BY <2>5 DEF ListReplay
  <2>6. ASSUME NEW x \in todo[w], CreateDelivery(w, x) PROVE RowsApproved'
    <3>1. item[w] \in batch[w] /\ item[w] \in Items /\ x[1] \in Targets
      BY <2>6 DEF CreateDelivery, ItemFitsStep, TypeOK
    <3>2. \A j \in Jobs, t \in Targets : made'[j][t] > 0 =>
              made[j][t] > 0 \/ j = item[w]
      BY <2>6, <3>1 DEF CreateDelivery
    <3> QED
      BY <2>6, <3>1, <3>2 DEF CreateDelivery
  <2>7. CASE CompleteReplayJob(w)
    BY <2>7 DEF CompleteReplayJob
  <2>8. CASE CompleteOutbox(w)
    <3>1. \A j \in Jobs : row'[j] = "absent" => row[j] = "absent"
      BY <2>8 DEF CompleteOutbox
    <3>2. \A j \in Jobs : row[j] = "absent" => row'[j] = "absent"
      <4>1. item[w] # NoItem
        BY <2>8 DEF CompleteOutbox, ItemFitsStep
      <4>2. item[w] \in Jobs => row[item[w]] # "absent"
        BY <4>1 DEF ItemFitsStep
      <4> QED
        BY <2>8, <4>2 DEF CompleteOutbox
    <3>3. \A v \in Workers : batch'[v] \subseteq batch[v]
      BY <2>8 DEF CompleteOutbox, Defer
    <3> QED
      BY <2>8, <3>1, <3>2, <3>3 DEF CompleteOutbox
  <2> QED
    BY <1>3, <2>1, <2>2, <2>3, <2>4, <2>5, <2>6, <2>7, <2>8, Zenon DEF RunOutbox
<1>4. CASE WorkerStops
  BY <1>4 DEF WorkerStops, ProcessFails, WorkerCrash, DropBatch
<1>5. ASSUME NEW i \in Items, LeaseExpires(i) PROVE RowsApproved'
  BY <1>5 DEF LeaseExpires
<1>6. CASE UNCHANGED vars
  BY <1>6 DEF vars
<1> QED
  BY <1>1, <1>2, <1>3, <1>4, <1>5, <1>6 DEF Next

\* No delivery of a gated replay job exists before a user other than its creator
\* has approved the job, whatever operators and workers do in which order.
THEOREM ApprovalEnforced == Spec => []ReplayNeedsApproval
<1>1. Init => RowsApproved
  BY FanoutAssumption DEF Init, RowsApproved, Items
<1>2. RowsApproved => ReplayNeedsApproval
  BY DEF RowsApproved, ReplayNeedsApproval, Approved
<1> QED
  BY <1>1, <1>2, TypeCorrect, NextRowsApproved, PTL DEF Spec

----------------------------------------------------------------------------
(* At least once routing.  A worker that routes an event holds, for some    *)
(* list of targets it read, every target it has not made a delivery for.    *)

Routable == Events \ (Unverified \ Recovered)

RoutingProgress ==
    \A w \in Workers : item[w] \in Routable =>
        /\ pc[w] = "fanout"
        /\ \E T \in listed[item[w]] :
               \A t \in T : made[item[w]][t] > 0 \/ <<t, 1>> \in todo[w]

\* Deliveries are never deleted and lists never forgotten, so what is routed
\* stays routed.
LEMMA RoutedGrows ==
    ASSUME TypeOK, CompletedMeansRouted,
           \A e \in Routable : listed[e] \subseteq listed'[e],
           \A e \in Routable, t \in Targets : made[e][t] > 0 => made'[e][t] > 0,
           \A e \in Routable : row'[e] = "completed" => row[e] = "completed"
    PROVE  CompletedMeansRouted'
BY DEF CompletedMeansRouted, Routable, TypeOK

\* A worker that goes on with its item, or turns away from it, keeps its progress
\* and everybody else's.
LEMMA ProgressKept ==
    ASSUME TypeOK, RoutingProgress,
           \A w \in Workers : item'[w] \in Routable =>
               item'[w] = item[w] /\ pc'[w] = pc[w] /\ todo'[w] = todo[w],
           \A e \in Routable : listed[e] \subseteq listed'[e],
           \A e \in Routable, t \in Targets : made[e][t] > 0 => made'[e][t] > 0
    PROVE  RoutingProgress'
<1> SUFFICES ASSUME NEW w \in Workers, item'[w] \in Routable
             PROVE  /\ pc'[w] = "fanout"
                    /\ \E T \in listed'[item'[w]] :
                           \A t \in T : made'[item'[w]][t] > 0 \/ <<t, 1>> \in todo'[w]
  BY DEF RoutingProgress
<1>1. item'[w] = item[w] /\ pc'[w] = pc[w] /\ todo'[w] = todo[w]
  OBVIOUS
<1>2. PICK T \in listed[item[w]] :
          \A t \in T : made[item[w]][t] > 0 \/ <<t, 1>> \in todo[w]
  BY <1>1 DEF RoutingProgress
<1>3. T \subseteq Targets /\ T \in listed'[item[w]]
  BY <1>1, <1>2 DEF TypeOK, Routable
<1> QED
  BY <1>1, <1>2, <1>3 DEF RoutingProgress

\* Steps that write no event's row, list or deliveries and move no worker to an
\* event keep both.
LEMMA RoutingFrame ==
    ASSUME TypeOK, CompletedMeansRouted, RoutingProgress,
           \A w \in Workers : item'[w] \in Routable =>
               item'[w] = item[w] /\ pc'[w] = pc[w] /\ todo'[w] = todo[w],
           listed' = listed, made' = made,
           \A e \in Routable : row'[e] = "completed" => row[e] = "completed"
    PROVE  CompletedMeansRouted' /\ RoutingProgress'
BY RoutedGrows, ProgressKept

\* A row is completed only by a worker that has made every delivery of its list.
LEMMA NextRouting ==
    TypeOK /\ ItemFitsStep /\ CompletedMeansRouted /\ RoutingProgress /\ [Next]_vars
        => CompletedMeansRouted' /\ RoutingProgress'
<1> SUFFICES ASSUME TypeOK, ItemFitsStep, CompletedMeansRouted, RoutingProgress,
                    [Next]_vars
             PROVE  CompletedMeansRouted' /\ RoutingProgress'
  OBVIOUS
<1> DEFINE Goal == CompletedMeansRouted' /\ RoutingProgress'
<1>a. Routable \subseteq Items /\ Routable \subseteq Events /\ NoItem \notin Items
      /\ Jobs \cap Routable = {} /\ Events \cap Jobs = {} /\ Jobs \subseteq Items
  BY FanoutAssumption DEF Items, Routable
<1>b. /\ row \in [Items -> {"absent", "pending", "in_progress", "completed"}]
      /\ made \in [Items -> [Targets -> Nat]]
      /\ item \in [Workers -> Items \cup {NoItem}]
      /\ pc \in [Workers -> Steps]
      /\ todo \in [Workers -> SUBSET (Targets \X Nat)]
      /\ listed \in [Events -> SUBSET SUBSET Targets]
  BY DEF TypeOK, Steps
<1> USE <1>a, <1>b DEF rowVars, jobVars, workerVars, historyVars
<1>1. ASSUME NEW e \in Events, EnqueueRouteEvent(e) PROVE Goal
  BY <1>1, RoutingFrame DEF EnqueueRouteEvent
<1>2. CASE OperatorActs
  <2>1. /\ UNCHANGED <<made, workerVars, listed>>
        /\ \A e \in Routable : row'[e] = row[e]
    <3>1. PICK j \in Jobs :
             \/ \E u \in Users, gate \in BOOLEAN, s \in Scopes :
                   CreateReplay(j, u, gate, s)
             \/ \E u \in Users : ApproveReplayJob(j, u)
             \/ ApprovalExpires(j) \/ PauseReplayJob(j) \/ ResumeReplayJob(j)
             \/ CancelReplayJob(j)
      BY <1>2 DEF OperatorActs
    <3>2. row' = row \/ \E x : row' = [row EXCEPT ![j] = x]
      BY <3>1, Zenon DEF CreateReplay, ApproveReplayJob, ApprovalExpires, PauseReplayJob,
                  ResumeReplayJob, CancelReplayJob
    <3>3. UNCHANGED <<made, workerVars, listed>>
      BY <3>1, Zenon DEF CreateReplay, ApproveReplayJob, ApprovalExpires, PauseReplayJob,
                  ResumeReplayJob, CancelReplayJob
    <3> QED
      BY <3>1, <3>2, <3>3
  <2> QED
    BY <2>1, RoutingFrame
<1>3. ASSUME NEW w \in Workers, RunOutbox(w) PROVE Goal
  <2>1. ASSUME NEW S \in SUBSET Items, ClaimOutbox(w, S) PROVE Goal
    <3>1. \A e \in Routable : row'[e] = "completed" => row[e] = "completed"
      BY <2>1 DEF ClaimOutbox
    <3> QED
      BY <2>1, <3>1, RoutingFrame DEF ClaimOutbox
  <2>2. ASSUME NEW e \in Events, NEW T \in SUBSET Targets, BeginEvent(w, e, T)
        PROVE  Goal
    <3>1. CASE e \notin Routable
      BY <2>2, <3>1, RoutingFrame DEF BeginEvent, RouteEvent, Turn, Routable
    <3>2. CASE e \in Routable
      <4>1. /\ Turn(w, e, "fanout", Once(T))
            /\ listed' = [listed EXCEPT ![e] = @ \cup {T}]
            /\ made' = made /\ row' = row
        BY <2>2, <3>2 DEF BeginEvent, RouteEvent, Routable
      <4>2. \A x \in Routable : listed[x] \subseteq listed'[x]
        BY <4>1
      <4>3. CompletedMeansRouted'
        BY <4>1, <4>2, RoutedGrows
      <4>4. ASSUME NEW v \in Workers, item'[v] \in Routable
            PROVE  /\ pc'[v] = "fanout"
                   /\ \E U \in listed'[item'[v]] :
                          \A t \in U : made'[item'[v]][t] > 0 \/ <<t, 1>> \in todo'[v]
        <5>1. CASE v = w
          <6>1. /\ item'[w] = e /\ pc'[w] = "fanout" /\ todo'[w] = Once(T)
                /\ T \in listed'[e]
            BY <4>1 DEF Turn
          <6> QED
            BY <5>1, <6>1 DEF Once
        <5>2. CASE v # w
          <6>1. item'[v] = item[v] /\ pc'[v] = pc[v] /\ todo'[v] = todo[v]
            BY <4>1, <5>2 DEF Turn
          <6> QED
            BY <4>1, <4>2, <4>4, <6>1 DEF RoutingProgress
        <5> QED
          BY <5>1, <5>2
      <4> QED
        BY <4>3, <4>4 DEF RoutingProgress
    <3> QED
      BY <3>1, <3>2
  <2>3. ASSUME NEW j \in Jobs, BeginReplay(w, j) PROVE Goal
    BY <2>3, RoutingFrame DEF BeginReplay, Defer, Turn
  <2>4. CASE StartReplayJob(w)
    BY <2>4, RoutingFrame DEF StartReplayJob, Defer, Turn, ItemFitsStep
  <2>5. CASE ListReplay(w)
    BY <2>5, RoutingFrame DEF ListReplay, Turn, ItemFitsStep
  <2>6. ASSUME NEW x \in todo[w], CreateDelivery(w, x) PROVE Goal
    <3>1. item[w] \in Items /\ x[1] \in Targets /\ x \in Targets \X Nat
      BY <2>6 DEF CreateDelivery, ItemFitsStep
    <3>2. /\ \A i \in Items, t \in Targets : made[i][t] > 0 => made'[i][t] > 0
          /\ made'[item[w]][x[1]] > 0
      BY <2>6, <3>1 DEF CreateDelivery
    <3>3. CompletedMeansRouted'
      BY <2>6, <3>2, RoutedGrows DEF CreateDelivery
    <3>4. ASSUME NEW v \in Workers, item'[v] \in Routable
          PROVE  /\ pc'[v] = "fanout"
                 /\ \E U \in listed'[item'[v]] :
                        \A t \in U : made'[item'[v]][t] > 0 \/ <<t, 1>> \in todo'[v]
      <4>1. /\ item' = item /\ pc' = pc /\ listed' = listed
            /\ todo' = [todo EXCEPT ![w] = @ \ {x}]
        BY <2>6 DEF CreateDelivery
      <4>2. PICK U \in listed[item[v]] :
                \A t \in U : made[item[v]][t] > 0 \/ <<t, 1>> \in todo[v]
        BY <3>4, <4>1 DEF RoutingProgress
      <4>3. U \subseteq Targets
        BY <3>4, <4>1, <4>2
      <4>4. ASSUME NEW t \in U PROVE made'[item[v]][t] > 0 \/ <<t, 1>> \in todo'[v]
        <5>1. CASE v = w /\ <<t, 1>> = x
          BY <3>2, <5>1
        <5>2. CASE ~(v = w /\ <<t, 1>> = x)
          BY <3>2, <3>4, <4>1, <4>2, <4>3, <5>2
        <5> QED
          BY <5>1, <5>2
      <4> QED
        BY <3>4, <4>1, <4>2, <4>4 DEF RoutingProgress
    <3> QED
      BY <3>3, <3>4 DEF RoutingProgress
  <2>7. CASE CompleteReplayJob(w)
    BY <2>7, RoutingFrame DEF CompleteReplayJob
  <2>8. CASE CompleteOutbox(w)
    <3>1. /\ listed' = listed /\ made' = made
          /\ row' = [row EXCEPT ![item[w]] = "completed"]
          /\ Turn(w, NoItem, "idle", {})
      BY <2>8 DEF CompleteOutbox, Defer
    <3>2. RoutingProgress'
      BY <3>1, ProgressKept DEF Turn
    <3>3. item[w] \in Routable =>
              \E T \in listed[item[w]] : \A t \in T : made[item[w]][t] > 0
      BY <2>8, Zenon DEF CompleteOutbox, RoutingProgress
    <3>4. CompletedMeansRouted'
      BY <3>1, <3>3 DEF CompletedMeansRouted, Routable
    <3> QED
      BY <3>2, <3>4
  <2> QED
    BY <1>3, <2>1, <2>2, <2>3, <2>4, <2>5, <2>6, <2>7, <2>8 DEF RunOutbox
<1>4. CASE WorkerStops
  BY <1>4, RoutingFrame
     DEF WorkerStops, ProcessFails, WorkerCrash, DropBatch, Turn
<1>5. ASSUME NEW i \in Items, LeaseExpires(i) PROVE Goal
  BY <1>5, RoutingFrame DEF LeaseExpires
<1>6. CASE UNCHANGED vars
  BY <1>6, RoutingFrame DEF vars
<1> QED
  BY <1>1, <1>2, <1>3, <1>4, <1>5, <1>6 DEF Next

\* The outbox row of a routable event is completed only when every target of some
\* list read for it has a delivery, through crashes, errors and overtaking.
THEOREM RoutedAtLeastOnce == Spec => []CompletedMeansRouted
<1>1. Init => CompletedMeansRouted /\ RoutingProgress
  BY FanoutAssumption DEF Init, CompletedMeansRouted, RoutingProgress, Routable, Items
<1> QED
  BY <1>1, TypeCorrect, NextRouting, PTL DEF Spec

----------------------------------------------------------------------------
\* A worker that completes a job it no longer owns leaves canceled jobs alone, and
\* nobody else writes a finished job.
THEOREM FinishedJobsStable == Spec => FinishedJobsStay
<1> DEFINE Stay == \A j \in Jobs : job[j] \in {"completed", "canceled"} =>
                                       job'[j] = job[j]
<1>1. TypeOK /\ ItemFitsStep /\ [Next]_vars => [Stay]_vars
  <2> SUFFICES ASSUME TypeOK, ItemFitsStep, Next PROVE Stay
    OBVIOUS
  <2>0. job \in [Jobs -> JobStates]
    BY DEF TypeOK
  <2> USE <2>0 DEF rowVars, jobVars
  <2>1. CASE OperatorActs
    <3>1. PICK j \in Jobs :
             \/ \E u \in Users, gate \in BOOLEAN, s \in Scopes :
                   CreateReplay(j, u, gate, s)
             \/ \E u \in Users : ApproveReplayJob(j, u)
             \/ ApprovalExpires(j) \/ PauseReplayJob(j) \/ ResumeReplayJob(j)
             \/ CancelReplayJob(j)
      BY <2>1 DEF OperatorActs
    <3>2. CASE \E u \in Users, gate \in BOOLEAN, s \in Scopes :
                  CreateReplay(j, u, gate, s)
      BY <3>2 DEF CreateReplay
    <3>3. CASE \E u \in Users : ApproveReplayJob(j, u)
      BY <3>3 DEF ApproveReplayJob, MayApprove
    <3>4. CASE ApprovalExpires(j)
      BY <3>4 DEF ApprovalExpires
    <3>5. CASE PauseReplayJob(j)
      BY <3>5 DEF PauseReplayJob, Open
    <3>6. CASE ResumeReplayJob(j)
      BY <3>6 DEF ResumeReplayJob, Resumable, Open
    <3>7. CASE CancelReplayJob(j)
      BY <3>7 DEF CancelReplayJob, Open
    <3> QED
      BY <3>1, <3>2, <3>3, <3>4, <3>5, <3>6, <3>7
  <2>2. ASSUME NEW w \in Workers, RunOutbox(w) PROVE Stay
    <3>1. CASE StartReplayJob(w)
      BY <3>1, Zenon DEF StartReplayJob, MayStart
    <3>2. CASE CompleteReplayJob(w)
      BY <3>2, Zenon DEF CompleteReplayJob, MayComplete
    <3>3. CASE ~StartReplayJob(w) /\ ~CompleteReplayJob(w)
      BY <2>2, <3>3, Zenon DEF RunOutbox, ClaimOutbox, BeginEvent, BeginReplay, ListReplay,
                        CreateDelivery, CompleteOutbox
    <3> QED
      BY <3>1, <3>2, <3>3
  <2>3. CASE WorkerStops
    BY <2>3 DEF WorkerStops, ProcessFails, WorkerCrash, DropBatch
  <2>4. ASSUME NEW e \in Events, EnqueueRouteEvent(e) PROVE Stay
    BY <2>4 DEF EnqueueRouteEvent
  <2>5. ASSUME NEW i \in Items, LeaseExpires(i) PROVE Stay
    BY <2>5 DEF LeaseExpires
  <2> QED
    BY <2>1, <2>2, <2>3, <2>4, <2>5 DEF Next
<1> QED
  BY <1>1, TypeCorrect, PTL DEF Spec, FinishedJobsStay
=============================================================================
