-------------------------- MODULE FanoutCountProofs --------------------------
(***************************************************************************)
(* Proofs about how many deliveries an event and a replay job come to: the *)
(* bound on duplicates, and the counts the bound on replays rests on.      *)
(***************************************************************************)
EXTENDS FanoutProofs, FiniteSetTheorems, TLAPS

----------------------------------------------------------------------------
(* Duplicates.  A claim of an event's row entitles its holder to one        *)
(* delivery per target, so deliveries made, deliveries still owed and a row *)
(* nobody holds add up to at most one more than the rows taken back.        *)

\* Worker w may still make a delivery of event e for target t.
Owes(w, e, t) == e \in batch[w] /\ (item[w] = e => <<t, 1>> \in todo[w])

Owing(e, t) == {w \in Workers : Owes(w, e, t)}

Unclaimed(e) == IF row[e] \in {"absent", "pending"} THEN 1 ELSE 0

EventsCounted ==
    /\ \A w \in Workers : item[w] \in Events => todo[w] \subseteq Targets \X {1}
    /\ \A e \in Events, t \in Targets :
           /\ IsFiniteSet(Owing(e, t))
           /\ made[e][t] + Cardinality(Owing(e, t)) + Unclaimed(e) <= 1 + reclaims[e]

\* A step that makes no delivery, lets nobody owe more and puts no row back.
LEMMA CountKept ==
    ASSUME TypeOK, EventsCounted, NEW e \in Events, NEW t \in Targets,
           made'[e][t] = made[e][t], reclaims'[e] = reclaims[e],
           Unclaimed(e)' <= Unclaimed(e), Owing(e, t)' \subseteq Owing(e, t)
    PROVE  /\ IsFiniteSet(Owing(e, t)')
           /\ made'[e][t] + Cardinality(Owing(e, t)') + Unclaimed(e)' <= 1 + reclaims'[e]
<1>1. /\ IsFiniteSet(Owing(e, t))
      /\ made[e][t] + Cardinality(Owing(e, t)) + Unclaimed(e) <= 1 + reclaims[e]
  BY DEF EventsCounted
<1>2. IsFiniteSet(Owing(e, t)') /\ Cardinality(Owing(e, t)') <= Cardinality(Owing(e, t))
  BY <1>1, FS_Subset
<1>3. /\ Cardinality(Owing(e, t)) \in Nat /\ Cardinality(Owing(e, t)') \in Nat
      /\ made[e][t] \in Nat /\ reclaims[e] \in Nat
  <2>1. e \in Items
    BY DEF Items
  <2> QED
    BY <1>1, <1>2, <2>1, FS_CardinalityType DEF TypeOK
<1>4. Unclaimed(e) \in Nat /\ Unclaimed(e)' \in Nat
  BY DEF Unclaimed
<1> HIDE DEF Owing, Unclaimed
<1> QED
  BY <1>1, <1>2, <1>3, <1>4

\* A worker's claim takes a row that nobody holds, or takes one back.
LEMMA ClaimCounted ==
    ASSUME TypeOK, ItemFitsStep, EventsCounted, NEW w \in Workers, NEW S \in SUBSET Items,
           ClaimOutbox(w, S), NEW e \in Events, NEW t \in Targets
    PROVE  /\ IsFiniteSet(Owing(e, t)')
           /\ made'[e][t] + Cardinality(Owing(e, t)') + Unclaimed(e)' <= 1 + reclaims'[e]
<1>0. /\ e \in Items /\ NoItem \notin Items
      /\ row \in [Items -> {"absent", "pending", "in_progress", "completed"}]
      /\ made[e][t] \in Nat /\ reclaims \in [Events -> Nat]
      /\ batch \in [Workers -> SUBSET Items]
  BY FanoutAssumption DEF Items, TypeOK
<1>1. /\ IsFiniteSet(Owing(e, t)) /\ Cardinality(Owing(e, t)) \in Nat
      /\ made[e][t] + Cardinality(Owing(e, t)) + Unclaimed(e) <= 1 + reclaims[e]
  BY FS_CardinalityType DEF EventsCounted
<1>2. batch[w] = {} /\ item[w] = NoItem
  BY DEF ClaimOutbox, ItemFitsStep
<1>3. /\ made' = made /\ item' = item /\ todo' = todo
      /\ batch' = [batch EXCEPT ![w] = S]
      /\ reclaims'[e] = IF e \in LapsedLeases THEN reclaims[e] + 1 ELSE reclaims[e]
      /\ row'[e] = IF e \in S THEN "in_progress"
                   ELSE IF e \in LapsedLeases THEN "pending" ELSE row[e]
  BY <1>0 DEF ClaimOutbox
<1>4. e \in S => row[e] = "pending" \/ e \in LapsedLeases
  BY DEF ClaimOutbox, FairBatch, Claimable
<1>5. e \in LapsedLeases => row[e] = "in_progress"
  BY DEF LapsedLeases
<1>6. w \notin Owing(e, t)
  BY <1>2 DEF Owing, Owes
<1>7. CASE e \in S
  <2>1. Owing(e, t)' = Owing(e, t) \cup {w}
    BY <1>0, <1>2, <1>3, <1>7 DEF Owing, Owes
  <2>2. IsFiniteSet(Owing(e, t)') /\ Cardinality(Owing(e, t)') = Cardinality(Owing(e, t)) + 1
    BY <1>1, <1>6, <2>1, FS_AddElement
  <2>3. Unclaimed(e)' = 0
    BY <1>3, <1>7 DEF Unclaimed
  <2>4. Unclaimed(e) + reclaims'[e] = 1 + reclaims[e]
    BY <1>0, <1>3, <1>4, <1>5, <1>7 DEF Unclaimed
  <2>5. Unclaimed(e) \in Nat /\ reclaims[e] \in Nat /\ reclaims'[e] \in Nat
    BY <1>0, <1>3 DEF Unclaimed
  <2> HIDE DEF Owing, Unclaimed
  <2> QED
    BY <1>0, <1>1, <1>3, <2>2, <2>3, <2>4, <2>5
<1>8. CASE e \notin S
  <2>1. Owing(e, t)' = Owing(e, t)
    BY <1>0, <1>2, <1>3, <1>8 DEF Owing, Owes
  <2>2. Unclaimed(e)' - Unclaimed(e) <= reclaims'[e] - reclaims[e]
    BY <1>0, <1>3, <1>5, <1>8 DEF Unclaimed
  <2>3. /\ Unclaimed(e) \in Nat /\ Unclaimed(e)' \in Nat
        /\ reclaims[e] \in Nat /\ reclaims'[e] \in Nat
    BY <1>0, <1>3 DEF Unclaimed
  <2> HIDE DEF Owing, Unclaimed
  <2> QED
    BY <1>0, <1>1, <1>3, <2>1, <2>2, <2>3
<1> QED
  BY <1>7, <1>8

\* Making a delivery is paid for by the worker that owed it.
LEMMA CreateCounted ==
    ASSUME TypeOK, ItemFitsStep, EventsCounted, NEW w \in Workers, NEW x \in todo[w],
           CreateDelivery(w, x), NEW e \in Events, NEW t \in Targets
    PROVE  /\ IsFiniteSet(Owing(e, t)')
           /\ made'[e][t] + Cardinality(Owing(e, t)') + Unclaimed(e)' <= 1 + reclaims'[e]
<1>0. /\ e \in Items /\ item[w] \in Items /\ item[w] \in batch[w]
      /\ made \in [Items -> [Targets -> Nat]] /\ reclaims[e] \in Nat
      /\ todo \in [Workers -> SUBSET (Targets \X Nat)]
  BY FanoutAssumption DEF Items, TypeOK, ItemFitsStep, CreateDelivery
<1>1. /\ IsFiniteSet(Owing(e, t)) /\ Cardinality(Owing(e, t)) \in Nat
      /\ made[e][t] + Cardinality(Owing(e, t)) + Unclaimed(e) <= 1 + reclaims[e]
  BY FS_CardinalityType DEF EventsCounted
<1>2. /\ made' = [made EXCEPT ![item[w]][x[1]] = @ + 1]
      /\ todo' = [todo EXCEPT ![w] = @ \ {x}]
      /\ batch' = batch /\ item' = item /\ row' = row /\ reclaims' = reclaims
  BY DEF CreateDelivery, rowVars, historyVars
<1>3. Unclaimed(e)' = Unclaimed(e) /\ Unclaimed(e) \in Nat
  BY <1>2 DEF Unclaimed
<1>4. Owing(e, t)' \subseteq Owing(e, t)
  BY <1>0, <1>2 DEF Owing, Owes
<1>5. CASE item[w] = e /\ x[1] = t
  <2>1. x = <<t, 1>>
    <3>1. x \in Targets \X {1}
      BY <1>5 DEF EventsCounted
    <3> QED
      BY <1>5, <3>1
  <2>2. w \in Owing(e, t) /\ w \notin Owing(e, t)'
    BY <1>0, <1>2, <1>5, <2>1 DEF Owing, Owes
  <2>3. /\ IsFiniteSet(Owing(e, t) \ {w})
        /\ Cardinality(Owing(e, t) \ {w}) = Cardinality(Owing(e, t)) - 1
    BY <1>1, <2>2, FS_RemoveElement
  <2>4. Owing(e, t)' \in SUBSET (Owing(e, t) \ {w})
    BY <1>4, <2>2
  <2>5. /\ IsFiniteSet(Owing(e, t)') /\ Cardinality(Owing(e, t)') \in Nat
        /\ Cardinality(Owing(e, t)') <= Cardinality(Owing(e, t)) - 1
    <3> HIDE DEF Owing
    <3> QED
      BY <2>3, <2>4, FS_Subset, FS_CardinalityType
  <2>6. made'[e][t] = made[e][t] + 1 /\ made[e][t] \in Nat
    BY <1>0, <1>2, <1>5
  <2> HIDE DEF Owing, Unclaimed
  <2> QED
    BY <1>0, <1>1, <1>2, <1>3, <2>5, <2>6
<1>6. CASE ~(item[w] = e /\ x[1] = t)
  <2>1. made'[e][t] = made[e][t]
    BY <1>0, <1>2, <1>6
  <2> QED
    BY <1>2, <1>3, <1>4, <2>1, CountKept
<1> QED
  BY <1>5, <1>6

\* A worker that works on an event has one delivery per target to make.
LEMMA NextEventTodo ==
    ASSUME TypeOK, ItemFitsStep, EventsCounted, Next
    PROVE  \A w \in Workers : item'[w] \in Events => todo'[w] \subseteq Targets \X {1}
<1> DEFINE Fits == \A w \in Workers : item[w] \in Events => todo[w] \subseteq Targets \X {1}
<1>a. Fits /\ Events \cap Jobs = {} /\ NoItem \notin Events
  BY FanoutAssumption DEF EventsCounted, Items
<1>b. /\ item \in [Workers -> Items \cup {NoItem}]
      /\ todo \in [Workers -> SUBSET (Targets \X Nat)]
  BY DEF TypeOK
<1> USE <1>a, <1>b DEF workerVars
<1>1. ASSUME NEW e \in Events, EnqueueRouteEvent(e) PROVE Fits'
  BY <1>1 DEF EnqueueRouteEvent
<1>2. CASE OperatorActs
  BY <1>2 DEF OperatorActs, CreateReplay, ApproveReplayJob, ApprovalExpires,
              PauseReplayJob, ResumeReplayJob, CancelReplayJob
<1>3. ASSUME NEW w \in Workers, RunOutbox(w) PROVE Fits'
  <2>1. ASSUME NEW S \in SUBSET Items, ClaimOutbox(w, S) PROVE Fits'
    BY <2>1 DEF ClaimOutbox
  <2>2. ASSUME NEW e \in Events, NEW T \in SUBSET Targets, BeginEvent(w, e, T)
        PROVE  Fits'
    BY <2>2 DEF BeginEvent, RouteEvent, Turn, Once
  <2>3. ASSUME NEW j \in Jobs, BeginReplay(w, j) PROVE Fits'
    BY <2>3 DEF BeginReplay, Defer, Turn
  <2>4. CASE StartReplayJob(w)
    BY <2>4 DEF StartReplayJob, Defer, Turn
  <2>5. CASE ListReplay(w)
    <3>1. item[w] \in Jobs
      BY <2>5 DEF ListReplay, ItemFitsStep
    <3> QED
      BY <2>5, <3>1 DEF ListReplay, Turn
  <2>6. ASSUME NEW x \in todo[w], CreateDelivery(w, x) PROVE Fits'
    BY <2>6 DEF CreateDelivery
  <2>7. CASE CompleteReplayJob(w)
    BY <2>7 DEF CompleteReplayJob
  <2>8. CASE CompleteOutbox(w)
    BY <2>8 DEF CompleteOutbox, Defer, Turn
  <2> QED
    BY <1>3, <2>1, <2>2, <2>3, <2>4, <2>5, <2>6, <2>7, <2>8 DEF RunOutbox
<1>4. CASE WorkerStops
  BY <1>4 DEF WorkerStops, ProcessFails, WorkerCrash, DropBatch, Turn
<1>5. ASSUME NEW i \in Items, LeaseExpires(i) PROVE Fits'
  BY <1>5 DEF LeaseExpires
<1> QED
  BY <1>1, <1>2, <1>3, <1>4, <1>5 DEF Next

\* Every step keeps the sum within the rows taken back.
LEMMA NextEventsCounted ==
    TypeOK /\ ItemFitsStep /\ EventsCounted /\ [Next]_vars => EventsCounted'
<1> SUFFICES ASSUME TypeOK, ItemFitsStep, EventsCounted, [Next]_vars
             PROVE  EventsCounted'
  OBVIOUS
<1>0. CASE UNCHANGED vars
  BY <1>0 DEF vars, rowVars, workerVars, historyVars, EventsCounted, Owing, Owes, Unclaimed
<1> SUFFICES ASSUME Next, NEW e \in Events, NEW t \in Targets
             PROVE  /\ IsFiniteSet(Owing(e, t)')
                    /\ made'[e][t] + Cardinality(Owing(e, t)') + Unclaimed(e)'
                           <= 1 + reclaims'[e]
  BY <1>0, NextEventTodo DEF EventsCounted
<1> DEFINE Goal == /\ IsFiniteSet(Owing(e, t)')
                   /\ made'[e][t] + Cardinality(Owing(e, t)') + Unclaimed(e)'
                           <= 1 + reclaims'[e]
           Frame == /\ made'[e][t] = made[e][t] /\ reclaims'[e] = reclaims[e]
                    /\ Unclaimed(e)' <= Unclaimed(e) /\ Owing(e, t)' \subseteq Owing(e, t)
<1>a. Frame => Goal
  BY CountKept
<1>b. /\ e \in Items /\ e \notin Jobs /\ NoItem \notin Items /\ Jobs \subseteq Items
      /\ row \in [Items -> {"absent", "pending", "in_progress", "completed"}]
      /\ batch \in [Workers -> SUBSET Items]
      /\ item \in [Workers -> Items \cup {NoItem}]
      /\ todo \in [Workers -> SUBSET (Targets \X Nat)]
  BY FanoutAssumption DEF Items, TypeOK
<1> USE <1>b DEF rowVars, jobVars, workerVars, historyVars, Owing, Owes, Unclaimed
<1> HIDE DEF Goal
<1>1. ASSUME NEW i \in Events, EnqueueRouteEvent(i) PROVE Goal
  <2>1. Frame
    BY <1>1 DEF EnqueueRouteEvent
  <2> QED
    BY <1>a, <2>1
<1>2. CASE OperatorActs
  <2>1. PICK j \in Jobs :
             \/ \E u \in Users, gate \in BOOLEAN, s \in Scopes :
                   CreateReplay(j, u, gate, s)
             \/ \E u \in Users : ApproveReplayJob(j, u)
             \/ ApprovalExpires(j) \/ PauseReplayJob(j) \/ ResumeReplayJob(j)
             \/ CancelReplayJob(j)
    BY <1>2 DEF OperatorActs
  <2>2. row' = row \/ \E x : row' = [row EXCEPT ![j] = x]
    BY <2>1 DEF CreateReplay, ApproveReplayJob, ApprovalExpires, PauseReplayJob,
                ResumeReplayJob, CancelReplayJob
  <2>3. UNCHANGED <<made, workerVars, reclaims>>
    BY <2>1 DEF CreateReplay, ApproveReplayJob, ApprovalExpires, PauseReplayJob,
                ResumeReplayJob, CancelReplayJob
  <2>4. row'[e] = row[e]
    BY <2>2
  <2>5. Frame
    BY <2>3, <2>4
  <2> QED
    BY <1>a, <2>5 DEF Goal
<1>3. ASSUME NEW w \in Workers, RunOutbox(w) PROVE Goal
  <2>1. ASSUME NEW S \in SUBSET Items, ClaimOutbox(w, S) PROVE Goal
    BY <2>1, ClaimCounted DEF Goal
  <2>2. ASSUME NEW i \in Events, NEW T \in SUBSET Targets, BeginEvent(w, i, T)
        PROVE  Goal
    <3>1. Frame
      BY <2>2 DEF BeginEvent, RouteEvent, Turn
    <3> QED
      BY <1>a, <3>1
  <2>3. ASSUME NEW j \in Jobs, BeginReplay(w, j) PROVE Goal
    <3>1. Frame
      BY <2>3 DEF BeginReplay, Defer, Turn
    <3> QED
      BY <1>a, <3>1
  <2>4. CASE StartReplayJob(w)
    <3>1. item[w] \in Jobs
      BY <2>4 DEF StartReplayJob, ItemFitsStep
    <3>2. Frame
      BY <2>4, <3>1 DEF StartReplayJob, Defer, Turn
    <3> QED
      BY <1>a, <3>2
  <2>5. CASE ListReplay(w)
    <3>1. item[w] \in Jobs
      BY <2>5 DEF ListReplay, ItemFitsStep
    <3>2. Frame
      BY <2>5, <3>1 DEF ListReplay, Turn
    <3> QED
      BY <1>a, <3>2
  <2>6. ASSUME NEW x \in todo[w], CreateDelivery(w, x) PROVE Goal
    BY <2>6, CreateCounted DEF Goal
  <2>7. CASE CompleteReplayJob(w)
    <3>1. Frame
      BY <2>7 DEF CompleteReplayJob
    <3> QED
      BY <1>a, <3>1
  <2>8. CASE CompleteOutbox(w)
    <3>1. Unclaimed(e)' <= Unclaimed(e)
      BY <2>8 DEF CompleteOutbox
    <3>2. Owing(e, t)' \subseteq Owing(e, t)
      <4>1. /\ batch' = [batch EXCEPT ![w] = @ \ {item[w]}]
            /\ item' = [item EXCEPT ![w] = NoItem] /\ todo' = [todo EXCEPT ![w] = {}]
        BY <2>8 DEF CompleteOutbox, Defer, Turn
      <4>2. item[w] # e => Owes(w, e, t) \/ e \notin batch[w]
        OBVIOUS
      <4> QED
        BY <4>1, <4>2
    <3>3. Frame
      BY <2>8, <3>1, <3>2 DEF CompleteOutbox
    <3> QED
      BY <1>a, <3>3
  <2> QED
    BY <1>3, <2>1, <2>2, <2>3, <2>4, <2>5, <2>6, <2>7, <2>8 DEF RunOutbox
<1>4. CASE WorkerStops
  <2>1. PICK w \in Workers : DropBatch(w)
    BY <1>4 DEF WorkerStops, ProcessFails, WorkerCrash
  <2>2. Frame
    BY <2>1 DEF DropBatch, Turn
  <2> QED
    BY <1>a, <2>2, Zenon DEF Goal
<1>5. ASSUME NEW i \in Items, LeaseExpires(i) PROVE Goal
  <2>1. Frame
    BY <1>5 DEF LeaseExpires
  <2> QED
    BY <1>a, <2>1
<1> QED
  BY <1>1, <1>2, <1>3, <1>4, <1>5, Zenon DEF Next, Goal

\* An event is delivered to a target at most once more than its outbox row was
\* taken back after a lapsed lease, for any number of workers and events.
THEOREM DuplicatesBounded == Spec => []DuplicatesNeedReclaim
<1>1. Init => EventsCounted
  <2> SUFFICES ASSUME Init PROVE EventsCounted
    OBVIOUS
  <2>1. ASSUME NEW e \in Events, NEW t \in Targets
        PROVE  Owing(e, t) = {} /\ made[e][t] = 0 /\ Unclaimed(e) = 1 /\ reclaims[e] = 0
    BY DEF Init, Owing, Owes, Unclaimed, Items
  <2>2. \A w \in Workers : item[w] \notin Events
    BY FanoutAssumption DEF Init, Items
  <2>3. ASSUME NEW e \in Events, NEW t \in Targets
        PROVE  /\ IsFiniteSet(Owing(e, t))
               /\ made[e][t] + Cardinality(Owing(e, t)) + Unclaimed(e) <= 1 + reclaims[e]
    <3> HIDE DEF Owing, Unclaimed
    <3> QED
      BY <2>1, FS_EmptySet
  <2> QED
    BY <2>2, <2>3 DEF EventsCounted
<1>2. TypeOK /\ EventsCounted => DuplicatesNeedReclaim
  <2> SUFFICES ASSUME TypeOK, EventsCounted, NEW e \in Events, NEW t \in Targets
               PROVE  made[e][t] <= 1 + reclaims[e]
    BY DEF DuplicatesNeedReclaim
  <2>1. Cardinality(Owing(e, t)) \in Nat /\ Unclaimed(e) \in Nat
    BY FS_CardinalityType DEF EventsCounted, Unclaimed
  <2>2. made[e][t] \in Nat /\ reclaims[e] \in Nat
    BY DEF TypeOK, Items
  <2> QED
    BY <2>1, <2>2 DEF EventsCounted
<1> QED
  BY <1>1, <1>2, TypeCorrect, NextEventsCounted, PTL DEF Spec

----------------------------------------------------------------------------
(* Replays.  Starting a job takes it out of "scheduled", which only an      *)
(* operator's resume puts it back into, so starts to come and starts under  *)
(* way number at most one more than the resumes; and each start is worth at *)
(* most the job's width in deliveries.                                      *)

\* The most deliveries for target t that one start of job j creates.
Width(j, t) == IF scope[j] = "original" THEN made[EventOf[j]][t] ELSE 1

Listing(j) == {w \in Workers : item[w] = j /\ pc[w] = "list"}

Started(j) == {w \in Workers : item[w] = j /\ pc[w] \in {"list", "fanout"}}

\* The deliveries for target t that workers have listed and not created.
ToMake(j, t) ==
    {x \in Workers \X Nat : /\ item[x[1]] = j /\ pc[x[1]] = "fanout"
                            /\ <<t, x[2]>> \in todo[x[1]]}

Startable(j) == IF job[j] \in {"absent", "pending_approval", "scheduled"} THEN 1 ELSE 0

StartsCounted(j) ==
    /\ IsFiniteSet(Started(j))
    /\ Cardinality(Started(j)) + Startable(j) <= 1 + resumes[j]

CopiesCounted(j, t) ==
    /\ IsFiniteSet(ToMake(j, t))
    /\ made[j][t] + Cardinality(ToMake(j, t))
           + Width(j, t) * (Cardinality(Listing(j)) + Startable(j))
         <= (1 + resumes[j]) * Width(j, t)

JobsCounted == \A j \in Jobs : StartsCounted(j) /\ \A t \in Targets : CopiesCounted(j, t)

\* Products grow with their factors.
LEMMA TimesGrows ==
    ASSUME NEW m \in Nat, NEW a \in Nat, NEW b \in Nat, a <= b
    PROVE  m * a \in Nat /\ m * b \in Nat /\ m * a <= m * b
OBVIOUS

\* The numbers the counts are about.
LEMMA CountTypes ==
    ASSUME TypeOK, NEW j \in Jobs, NEW t \in Targets
    PROVE  /\ made[j][t] \in Nat /\ Width(j, t) \in Nat /\ resumes[j] \in Nat
           /\ Startable(j) \in {0, 1} /\ Listing(j) \subseteq Started(j)
           /\ j \in Items /\ EventOf[j] \in Items /\ EventOf[j] \notin Jobs
<1>1. /\ j \in Items /\ EventOf[j] \in Items /\ EventOf[j] \notin Jobs
      /\ made \in [Items -> [Targets -> Nat]] /\ resumes[j] \in Nat
  BY FanoutAssumption DEF TypeOK, Items
<1> QED
  BY <1>1 DEF Width, Startable, Listing, Started

\* A step after which job j has no more to start, to list and to create.
LEMMA JobFrame ==
    ASSUME TypeOK, TypeOK', JobsCounted, NEW j \in Jobs,
           Started(j)' \subseteq Started(j), Listing(j)' \subseteq Listing(j),
           Startable(j)' <= Startable(j), resumes'[j] = resumes[j],
           \A t \in Targets : /\ made'[j][t] = made[j][t]
                              /\ Width(j, t)' = Width(j, t)
                              /\ ToMake(j, t)' \subseteq ToMake(j, t)
    PROVE  StartsCounted(j)' /\ \A t \in Targets : CopiesCounted(j, t)'
<1>1. StartsCounted(j)
  BY DEF JobsCounted
<1>2. StartsCounted(j)'
  <2>1. IsFiniteSet(Started(j)') /\ Cardinality(Started(j)') <= Cardinality(Started(j))
    BY <1>1, FS_Subset DEF StartsCounted
  <2>2. /\ Cardinality(Started(j)) \in Nat /\ Cardinality(Started(j)') \in Nat
        /\ Startable(j) \in Nat /\ Startable(j)' \in Nat /\ resumes[j] \in Nat
    BY <1>1, <2>1, FS_CardinalityType DEF StartsCounted, Startable, TypeOK
  <2> HIDE DEF Started, Startable
  <2> QED
    BY <1>1, <2>1, <2>2 DEF StartsCounted
<1>3. ASSUME NEW t \in Targets PROVE CopiesCounted(j, t)'
  <2>1. CopiesCounted(j, t)
    BY Zenon DEF JobsCounted
  <2>2. IsFiniteSet(ToMake(j, t)') /\ Cardinality(ToMake(j, t)') <= Cardinality(ToMake(j, t))
    BY <2>1, FS_Subset DEF CopiesCounted
  <2>3. IsFiniteSet(Listing(j)) /\ Listing(j)' \in SUBSET Listing(j)
    BY <1>1, CountTypes, FS_Subset DEF StartsCounted
  <2>4. IsFiniteSet(Listing(j)') /\ Cardinality(Listing(j)') <= Cardinality(Listing(j))
    BY <2>3, FS_Subset
  <2>5. /\ Cardinality(ToMake(j, t)) \in Nat /\ Cardinality(ToMake(j, t)') \in Nat
        /\ Cardinality(Listing(j)) \in Nat /\ Cardinality(Listing(j)') \in Nat
    BY <2>1, <2>2, <2>3, <2>4, FS_CardinalityType DEF CopiesCounted
  <2>6. Startable(j) \in Nat /\ Startable(j)' \in Nat
    BY DEF Startable
  <2>7. /\ Cardinality(Listing(j)') + Startable(j)' \in Nat
        /\ Cardinality(Listing(j)) + Startable(j) \in Nat
        /\ Cardinality(Listing(j)') + Startable(j)' <= Cardinality(Listing(j)) + Startable(j)
    <3> HIDE DEF Listing, Startable
    <3> QED
      BY <2>4, <2>5, <2>6
  <2>8. made[j][t] \in Nat /\ Width(j, t) \in Nat /\ resumes[j] \in Nat
    BY CountTypes
  <2>9. Width(j, t) * (Cardinality(Listing(j)') + Startable(j)')
          <= Width(j, t) * (Cardinality(Listing(j)) + Startable(j))
    <3> HIDE DEF Listing, Startable, Width
    <3> QED
      BY <2>7, <2>8, TimesGrows
  <2> DEFINE m == Width(j, t)
             before == Cardinality(Listing(j)) + Startable(j)
             after == Cardinality(Listing(j)') + Startable(j)'
             p == m * before
             q == m * after
             r == (1 + resumes[j]) * m
  <2>10. p \in Nat /\ q \in Nat /\ r \in Nat /\ q <= p
    <3> HIDE DEF Listing, Startable, Width
    <3> QED
      BY <2>7, <2>8, <2>9
  <2>11. made[j][t] + Cardinality(ToMake(j, t)) + p <= r
    BY <2>1 DEF CopiesCounted
  <2>12. made[j][t] + Cardinality(ToMake(j, t)') + q <= r
    <3> HIDE DEF p, q, r, ToMake
    <3> QED
      BY <2>2, <2>5, <2>8, <2>10, <2>11
  <2> QED
    BY <2>2, <2>12, Zenon DEF CopiesCounted
<1> QED
  BY <1>2, <1>3

\* A step that starts, resumes, lists and creates nothing of job j.
SameWork(j) ==
    /\ UNCHANGED <<made, resumes[j], scope[j]>>
    /\ job'[j] \in {"absent", "pending_approval", "scheduled"}
           => job[j] \in {"absent", "pending_approval", "scheduled"}
    /\ \A w \in Workers : item'[w] = j /\ pc'[w] \in {"list", "fanout"}
           => item[w] = j /\ pc[w] = pc'[w] /\ todo[w] = todo'[w]

\* It keeps the counts of j.
LEMMA SameWorkCounted ==
    ASSUME TypeOK, TypeOK', JobsCounted, NEW j \in Jobs, SameWork(j)
    PROVE  StartsCounted(j)' /\ \A t \in Targets : CopiesCounted(j, t)'
<1>1. Started(j)' \subseteq Started(j) /\ Listing(j)' \subseteq Listing(j)
  BY DEF SameWork, Started, Listing
<1>2. Startable(j)' <= Startable(j) /\ resumes'[j] = resumes[j]
  BY DEF SameWork, Startable
<1>3. ASSUME NEW t \in Targets
      PROVE  /\ made'[j][t] = made[j][t] /\ Width(j, t)' = Width(j, t)
             /\ ToMake(j, t)' \subseteq ToMake(j, t)
  <2>1. made'[j][t] = made[j][t] /\ Width(j, t)' = Width(j, t)
    BY DEF SameWork, Width
  <2>2. ToMake(j, t)' \subseteq ToMake(j, t)
    BY DEF SameWork, ToMake
  <2> QED
    BY <2>1, <2>2
<1> QED
  BY <1>1, <1>2, <1>3, JobFrame

\* The counts of a job, as numbers.
LEMMA CountsOf ==
    ASSUME TypeOK, JobsCounted, NEW j \in Jobs, NEW t \in Targets
    PROVE  /\ IsFiniteSet(Started(j)) /\ IsFiniteSet(Listing(j)) /\ IsFiniteSet(ToMake(j, t))
           /\ Cardinality(Started(j)) \in Nat /\ Cardinality(Listing(j)) \in Nat
           /\ Cardinality(ToMake(j, t)) \in Nat
           /\ Cardinality(Listing(j)) <= Cardinality(Started(j))
           /\ Cardinality(Started(j)) + Startable(j) <= 1 + resumes[j]
           /\ made[j][t] + Cardinality(ToMake(j, t))
                + Width(j, t) * (Cardinality(Listing(j)) + Startable(j))
                  <= (1 + resumes[j]) * Width(j, t)
<1>1. /\ IsFiniteSet(Started(j)) /\ IsFiniteSet(ToMake(j, t))
      /\ Cardinality(Started(j)) + Startable(j) <= 1 + resumes[j]
      /\ made[j][t] + Cardinality(ToMake(j, t))
           + Width(j, t) * (Cardinality(Listing(j)) + Startable(j))
             <= (1 + resumes[j]) * Width(j, t)
  BY DEF JobsCounted, StartsCounted, CopiesCounted
<1>2. Listing(j) \in SUBSET Started(j)
  BY CountTypes
<1>3. IsFiniteSet(Listing(j)) /\ Cardinality(Listing(j)) <= Cardinality(Started(j))
  BY <1>1, <1>2, FS_Subset
<1> QED
  BY <1>1, <1>3, FS_CardinalityType

\* The counts of a job after a step, from the numbers before and after it.
LEMMA CountsMove ==
    ASSUME NEW a \in Nat, NEW b \in Nat, NEW l \in Nat, NEW m \in Nat, NEW n \in Nat,
           NEW a2 \in Nat, NEW b2 \in Nat, NEW l2 \in Nat, NEW n2 \in Nat,
           a + b + m * l <= n * m,
           \/ a2 + b2 <= a + b /\ l2 <= l /\ n2 = n
           \/ a2 + b2 <= a + b /\ l2 <= l + 1 /\ n2 = n + 1
           \/ a2 + b2 <= a + b + m /\ l2 + 1 <= l /\ n2 = n
    PROVE  a2 + b2 + m * l2 <= n2 * m
<1> DEFINE p == m * l
           p2 == m * l2
           r == n * m
           r2 == n2 * m
<1>1. p \in Nat /\ p2 \in Nat /\ r \in Nat /\ r2 \in Nat /\ m * (l + 1) = p + m /\ m * (l2 + 1) = p2 + m
  OBVIOUS
<1>2. a + b + p <= r
  OBVIOUS
<1>3. CASE a2 + b2 <= a + b /\ l2 <= l /\ n2 = n
  <2>1. p2 <= p /\ r2 = r
    BY <1>3, TimesGrows
  <2> HIDE DEF p, p2, r, r2
  <2>2. a2 + b2 + p2 <= r2
    BY <1>1, <1>2, <1>3, <2>1
  <2> QED
    BY <2>2 DEF p2, r2
<1>4. CASE a2 + b2 <= a + b /\ l2 <= l + 1 /\ n2 = n + 1
  <2>1. p2 <= p + m /\ r2 = r + m
    BY <1>1, <1>4, TimesGrows
  <2> HIDE DEF p, p2, r, r2
  <2>2. a2 + b2 + p2 <= r2
    BY <1>1, <1>2, <1>4, <2>1
  <2> QED
    BY <2>2 DEF p2, r2
<1>5. CASE a2 + b2 <= a + b + m /\ l2 + 1 <= l /\ n2 = n
  <2>1. p2 + m <= p /\ r2 = r
    <3>1. l2 + 1 \in Nat /\ l2 + 1 <= l
      BY <1>5
    <3>2. m * (l2 + 1) <= m * l
      BY <3>1, TimesGrows
    <3> QED
      BY <1>1, <1>5, <3>2
  <2> HIDE DEF p, p2, r, r2
  <2>2. a2 + b2 + p2 <= r2
    BY <1>1, <1>2, <1>5, <2>1
  <2> QED
    BY <2>2 DEF p2, r2
<1> QED
  BY <1>3, <1>4, <1>5
=============================================================================
