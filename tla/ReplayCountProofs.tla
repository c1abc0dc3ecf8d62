-------------------------- MODULE ReplayCountProofs --------------------------
(***************************************************************************)
(* The bound on the deliveries of a replay job: each action keeps the       *)
(* counts of starts and copies.                                            *)
(***************************************************************************)
EXTENDS FanoutCountProofs, TLAPS

\* A start moves the job from what can be started to what is started.
LEMMA StartCounted ==
    ASSUME TypeOK, ItemFitsStep, JobsCounted, NEW w \in Workers,
           StartReplayJob(w), NEW j \in Jobs, item[w] = j, MayStart(j)
    PROVE  StartsCounted(j)' /\ \A t \in Targets : CopiesCounted(j, t)'
<1>0. /\ item \in [Workers -> Items \cup {NoItem}]
      /\ pc \in [Workers -> Steps] /\ job \in [Jobs -> JobStates]
      /\ todo \in [Workers -> SUBSET (Targets \X Nat)]
  BY DEF StartReplayJob, ItemFitsStep, TypeOK, Steps
<1>1. /\ job' = [job EXCEPT ![j] = "running"] /\ resumes' = resumes /\ made' = made
      /\ scope' = scope
      /\ item' = [item EXCEPT ![w] = j] /\ pc' = [pc EXCEPT ![w] = "list"]
      /\ todo' = [todo EXCEPT ![w] = {}] /\ pc[w] = "start"
  BY DEF StartReplayJob, Turn, historyVars
<1>i. item' = item
  BY <1>0, <1>1
<1>2. Startable(j) = 1 /\ Startable(j)' = 0
  BY <1>0, <1>1 DEF Startable, MayStart
<1>3. Started(j)' = Started(j) \cup {w} /\ w \notin Started(j)
  BY <1>0, <1>1, <1>i DEF Started
<1>4. Listing(j)' = Listing(j) \cup {w} /\ w \notin Listing(j)
  BY <1>0, <1>1, <1>i DEF Listing
<1>5. StartsCounted(j)'
  <2>1. /\ IsFiniteSet(Started(j))
        /\ Cardinality(Started(j)) + Startable(j) <= 1 + resumes[j]
    BY <1>0 DEF JobsCounted, StartsCounted
  <2>2. IsFiniteSet(Started(j)') /\ Cardinality(Started(j)') = Cardinality(Started(j)) + 1
    BY <1>3, <2>1, FS_AddElement
  <2>3. Cardinality(Started(j)) \in Nat /\ resumes[j] \in Nat
    BY <1>0, <2>1, FS_CardinalityType, SMTT(30) DEF TypeOK
  <2> HIDE DEF Started, Startable
  <2> QED
    BY <1>1, <1>2, <2>1, <2>2, <2>3 DEF StartsCounted
<1>6. ASSUME NEW t \in Targets PROVE CopiesCounted(j, t)'
  <2>1. Width(j, t)' = Width(j, t) /\ Width(j, t) \in Nat
        /\ made[j][t] \in Nat /\ resumes[j] \in Nat
    BY <1>0, <1>1, CountTypes DEF Width
  <2>2. ToMake(j, t)' = ToMake(j, t)
    BY <1>0, <1>1, <1>i, SMTT(30) DEF ToMake
  <2>3. /\ IsFiniteSet(Listing(j)) /\ IsFiniteSet(ToMake(j, t))
        /\ Cardinality(Listing(j)) \in Nat /\ Cardinality(ToMake(j, t)) \in Nat
        /\ made[j][t] + Cardinality(ToMake(j, t))
             + Width(j, t) * (Cardinality(Listing(j)) + Startable(j))
               <= (1 + resumes[j]) * Width(j, t)
    BY <1>0, CountsOf
  <2>4. Cardinality(Listing(j)') + Startable(j)' = Cardinality(Listing(j)) + Startable(j)
    <3>1. Cardinality(Listing(j)') = Cardinality(Listing(j)) + 1
      BY <1>4, <2>3, FS_AddElement, Zenon
    <3> HIDE DEF Listing, Startable
    <3> QED
      BY <1>2, <2>3, <3>1
  <2> HIDE DEF Listing, Startable, ToMake, Width
  <2> QED
    BY <1>1, <2>1, <2>2, <2>3, <2>4, SMTT(30) DEF CopiesCounted
<1> QED
  BY <1>5, <1>6

\* What a start lists for a target is no wider than the job.
LEMMA WorkFitsWidth ==
    ASSUME TypeOK, NEW j \in Jobs, NEW W \in ReplayWork(j), NEW t \in Targets, NEW n,
           <<t, n>> \in W
    PROVE  n \in 1..Width(j, t)
<1>1. EventOf[j] \in Events /\ scope[j] \in {"current", "original", "delivery"}
  BY FanoutAssumption DEF TypeOK, Scopes
<1>2. CASE scope[j] = "current"
  <2>1. PICK T \in SUBSET Targets : W = Once(T)
    BY <1>2 DEF ReplayWork
  <2> QED
    BY <1>2, <2>1 DEF Once, Width
<1>3. CASE scope[j] = "original"
  BY <1>3 DEF ReplayWork, Width
<1>4. CASE scope[j] = "delivery"
  <2>1. W = {} \/ \E s \in Targets : W = Once({s})
    BY <1>4, Zenon DEF ReplayWork, Delivered
  <2> QED
    BY <1>4, <2>1 DEF Once, Width
<1> QED
  BY <1>1, <1>2, <1>3, <1>4

\* A worker's numbered copies.
LEMMA NumberedCopies ==
    ASSUME NEW w, NEW m \in Nat
    PROVE  IsFiniteSet({w} \X (1..m)) /\ Cardinality({w} \X (1..m)) = m
<1> DEFINE one == {w}
           copies == 1..m
<1>1. IsFiniteSet(one) /\ Cardinality(one) = 1
  BY FS_Singleton, Zenon
<1>2. IsFiniteSet(copies) /\ Cardinality(copies) = m
  <2>1. IsFiniteSet(1..m) /\ Cardinality(1..m) = IF 1 > m THEN 0 ELSE m - 1 + 1
    BY FS_Interval
  <2> QED
    BY <2>1
<1> HIDE DEF one, copies
<1>3. IsFiniteSet(one \X copies) /\ Cardinality(one \X copies) = Cardinality(one) * Cardinality(copies)
  BY <1>1, <1>2, FS_Product
<1>4. IsFiniteSet(one \X copies) /\ Cardinality(one \X copies) = m
  BY <1>1, <1>2, <1>3
<1> QED
  BY <1>4 DEF one, copies

\* Listing turns a start under way into at most the job's width of deliveries.
LEMMA ListCounted ==
    ASSUME TypeOK, ItemFitsStep, JobsCounted, NEW w \in Workers,
           ListReplay(w), NEW j \in Jobs, item[w] = j
    PROVE  StartsCounted(j)' /\ \A t \in Targets : CopiesCounted(j, t)'
<1>0. /\ item \in [Workers -> Items \cup {NoItem}] /\ pc \in [Workers -> Steps]
      /\ todo \in [Workers -> SUBSET (Targets \X Nat)]
  BY DEF TypeOK, Steps
<1>1. PICK W \in ReplayWork(j) : Turn(w, j, "fanout", W)
  BY DEF ListReplay
<1>2. /\ job' = job /\ scope' = scope /\ made' = made /\ resumes' = resumes
      /\ item' = item /\ pc' = [pc EXCEPT ![w] = "fanout"]
      /\ todo' = [todo EXCEPT ![w] = W] /\ pc[w] = "list"
  BY <1>0, <1>1 DEF ListReplay, Turn, jobVars, historyVars
<1>3. Started(j)' = Started(j) /\ Startable(j)' = Startable(j)
  BY <1>0, <1>2 DEF Started, Startable
<1>4. Listing(j)' = Listing(j) \ {w} /\ w \in Listing(j)
  BY <1>0, <1>2, SMTT(30) DEF Listing
<1>5. StartsCounted(j)'
  BY <1>2, <1>3, SMTT(30) DEF JobsCounted, StartsCounted
<1>6. ASSUME NEW t \in Targets PROVE CopiesCounted(j, t)'
  <2>1. /\ Width(j, t)' = Width(j, t) /\ Width(j, t) \in Nat
        /\ made[j][t] \in Nat /\ resumes[j] \in Nat /\ Startable(j) \in Nat
    BY <1>2, CountTypes DEF Width
  <2> DEFINE new == {w} \X (1..Width(j, t))
  <2>2. IsFiniteSet(new) /\ Cardinality(new) = Width(j, t)
    BY <2>1, NumberedCopies, Zenon
  <2>3. ToMake(j, t)' \in SUBSET (ToMake(j, t) \cup new)
    <3> SUFFICES ASSUME NEW x \in Workers \X Nat, item[x[1]] = j, pc'[x[1]] = "fanout",
                        <<t, x[2]>> \in todo'[x[1]]
                 PROVE  x \in ToMake(j, t) \cup new
      BY <1>2 DEF ToMake
    <3>1. CASE x[1] = w
      <4>1. <<t, x[2]>> \in W
        BY <1>0, <1>2, <3>1
      <4>2. x[2] \in 1..Width(j, t)
        BY <4>1, WorkFitsWidth
      <4> QED
        BY <3>1, <4>2
    <3>2. CASE x[1] # w
      BY <1>0, <1>2, <3>2, SMTT(30) DEF ToMake
    <3> QED
      BY <3>1, <3>2
  <2>4. /\ IsFiniteSet(Listing(j)) /\ IsFiniteSet(ToMake(j, t))
        /\ Cardinality(Listing(j)) \in Nat /\ Cardinality(ToMake(j, t)) \in Nat
        /\ made[j][t] + Cardinality(ToMake(j, t))
             + Width(j, t) * (Cardinality(Listing(j)) + Startable(j))
               <= (1 + resumes[j]) * Width(j, t)
    BY CountsOf, SMTT(30)
  <2>5. /\ IsFiniteSet(ToMake(j, t)') /\ Cardinality(ToMake(j, t)') \in Nat
        /\ Cardinality(ToMake(j, t)') <= Cardinality(ToMake(j, t)) + Width(j, t)
    <3> HIDE DEF new, ToMake, Width
    <3>1. /\ IsFiniteSet(ToMake(j, t) \cup new) /\ IsFiniteSet(ToMake(j, t) \cap new)
          /\ Cardinality(ToMake(j, t) \cup new)
               = Cardinality(ToMake(j, t)) + Width(j, t) - Cardinality(ToMake(j, t) \cap new)
      BY <2>2, <2>4, FS_Union, FS_Intersection, Zenon
    <3>2. /\ IsFiniteSet(ToMake(j, t)')
          /\ Cardinality(ToMake(j, t)') <= Cardinality(ToMake(j, t) \cup new)
      BY <2>3, <3>1, FS_Subset
    <3>3. /\ Cardinality(ToMake(j, t) \cap new) \in Nat /\ Cardinality(ToMake(j, t)') \in Nat
      BY <3>1, <3>2, FS_CardinalityType, SMTT(30)
    <3> QED
      BY <2>1, <2>4, <3>1, <3>2, <3>3
  <2>6. /\ Cardinality(Listing(j)') \in Nat
        /\ Cardinality(Listing(j)') + Startable(j) + 1 = Cardinality(Listing(j)) + Startable(j)
    <3>1. /\ IsFiniteSet(Listing(j) \ {w})
          /\ Cardinality(Listing(j) \ {w}) = Cardinality(Listing(j)) - 1
      BY <1>4, <2>4, FS_RemoveElement
    <3>2. Cardinality(Listing(j)') \in Nat
      BY <1>4, <3>1, FS_CardinalityType, SMTT(30)
    <3> HIDE DEF Listing, Startable
    <3> QED
      BY <1>4, <2>1, <2>4, <3>1, <3>2, SMTT(30)
  <2>7. made[j][t] + Cardinality(ToMake(j, t)')
          + Width(j, t) * (Cardinality(Listing(j)') + Startable(j))
            <= (1 + resumes[j]) * Width(j, t)
    <3> HIDE DEF Listing, Startable, ToMake, Width
    <3>1. /\ Cardinality(Listing(j)) + Startable(j) \in Nat
          /\ Cardinality(Listing(j)') + Startable(j) \in Nat
          /\ 1 + resumes[j] \in Nat
          /\ Cardinality(Listing(j)') + Startable(j) + 1 <= Cardinality(Listing(j)) + Startable(j)
          /\ made[j][t] + Cardinality(ToMake(j, t)')
               <= made[j][t] + Cardinality(ToMake(j, t)) + Width(j, t)
      BY <2>1, <2>4, <2>5, <2>6, SMTT(30)
    <3> QED
      BY <2>1, <2>4, <2>5, <3>1, CountsMove, SMTT(30)
  <2> HIDE DEF Listing, Startable, ToMake, Width
  <2> QED
    BY <1>2, <1>3, <2>1, <2>5, <2>7, SMTT(30) DEF CopiesCounted
<1> QED
  BY <1>5, <1>6

\* A delivery of the job was listed; one of its event makes the job wider.
LEMMA DeliveryCounted ==
    ASSUME TypeOK, ItemFitsStep, JobsCounted, NEW w \in Workers, NEW x \in todo[w],
           CreateDelivery(w, x), NEW j \in Jobs
    PROVE  StartsCounted(j)' /\ \A t \in Targets : CopiesCounted(j, t)'
<1>0. /\ item \in [Workers -> Items \cup {NoItem}] /\ pc \in [Workers -> Steps]
      /\ todo \in [Workers -> SUBSET (Targets \X Nat)] /\ item[w] \in Items
      /\ made \in [Items -> [Targets -> Nat]] /\ j \in Items
      /\ EventOf[j] \in Items /\ EventOf[j] \notin Jobs
  BY FanoutAssumption DEF TypeOK, Steps, CreateDelivery, ItemFitsStep, Items
<1>1. /\ made' = [made EXCEPT ![item[w]][x[1]] = @ + 1]
      /\ todo' = [todo EXCEPT ![w] = @ \ {x}] /\ pc[w] = "fanout"
      /\ item' = item /\ pc' = pc /\ job' = job /\ scope' = scope /\ resumes' = resumes
  BY DEF CreateDelivery, jobVars, historyVars
<1>2. /\ Started(j)' = Started(j) /\ Listing(j)' = Listing(j)
      /\ Startable(j)' = Startable(j)
  BY <1>1 DEF Started, Listing, Startable
<1>3. StartsCounted(j)'
  BY <1>1, <1>2 DEF JobsCounted, StartsCounted
<1>4. ASSUME NEW t \in Targets PROVE CopiesCounted(j, t)'
  <2>1. /\ Width(j, t) \in Nat /\ made[j][t] \in Nat /\ resumes[j] \in Nat
        /\ Startable(j) \in Nat
    BY CountTypes
  <2>2. ToMake(j, t)' \in SUBSET ToMake(j, t)
    BY <1>0, <1>1, SMTT(30) DEF ToMake
  <2>3. /\ IsFiniteSet(Listing(j)) /\ IsFiniteSet(ToMake(j, t))
        /\ Cardinality(Listing(j)) \in Nat /\ Cardinality(ToMake(j, t)) \in Nat
        /\ Cardinality(Listing(j)) <= Cardinality(Started(j)) /\ Cardinality(Started(j)) \in Nat
        /\ Cardinality(Started(j)) + Startable(j) <= 1 + resumes[j]
        /\ made[j][t] + Cardinality(ToMake(j, t))
             + Width(j, t) * (Cardinality(Listing(j)) + Startable(j))
               <= (1 + resumes[j]) * Width(j, t)
    BY CountsOf
  <2>4. /\ IsFiniteSet(ToMake(j, t)') /\ Cardinality(ToMake(j, t)') \in Nat
        /\ Cardinality(ToMake(j, t)') <= Cardinality(ToMake(j, t))
    BY <2>2, <2>3, FS_Subset, FS_CardinalityType
  <2> DEFINE l == Cardinality(Listing(j)) + Startable(j)
             n == 1 + resumes[j]
  <2>5. l \in Nat /\ n \in Nat /\ l <= n
    <3> HIDE DEF Listing, Startable, Started
    <3> QED
      BY <2>1, <2>3
  <2>6. CASE item[w] = j /\ x[1] = t
    <3>1. made'[j][t] = made[j][t] + 1 /\ Width(j, t)' = Width(j, t)
      BY <1>0, <1>1, <2>6 DEF Width
    <3>2. <<w, x[2]>> \in ToMake(j, t) /\ <<w, x[2]>> \notin ToMake(j, t)'
      <4>1. x = <<t, x[2]>> /\ x[2] \in Nat
        BY <1>0, <2>6
      <4> QED
        BY <1>0, <1>1, <2>6, <4>1, Zenon DEF ToMake
    <3>3. Cardinality(ToMake(j, t)') + 1 <= Cardinality(ToMake(j, t))
      <4> HIDE DEF ToMake
      <4>1. ToMake(j, t)' # ToMake(j, t)
        BY <3>2, SMTT(30)
      <4> QED
        BY <2>2, <2>3, <2>4, <4>1, FS_Subset
    <3>4. made'[j][t] + Cardinality(ToMake(j, t)') + Width(j, t) * l <= n * Width(j, t)
      <4>1. /\ made'[j][t] \in Nat
            /\ made'[j][t] + Cardinality(ToMake(j, t)') <= made[j][t] + Cardinality(ToMake(j, t))
        <5> HIDE DEF ToMake
        <5> QED
          BY <2>1, <2>3, <2>4, <3>1, <3>3, SMTT(30)
      <4> HIDE DEF l, n, ToMake, Width
      <4> QED
        BY <2>1, <2>3, <2>4, <2>5, <4>1, CountsMove, SMTT(30) DEF l, n
    <3> HIDE DEF Listing, Startable, ToMake, Width
    <3> QED
      BY <1>1, <1>2, <2>4, <3>1, <3>4, SMTT(30) DEF CopiesCounted
  <2>7. CASE ~(item[w] = j /\ x[1] = t)
    <3>1. made'[j][t] = made[j][t]
      BY <1>0, <1>1, <2>7, SMTT(30)
    <3>2. Width(j, t)' = Width(j, t) \/ Width(j, t)' = Width(j, t) + 1
      BY <1>0, <1>1, SMTT(30) DEF Width
    <3> DEFINE m == Width(j, t)
               m2 == Width(j, t)'
    <3>3. made[j][t] + Cardinality(ToMake(j, t)') + m2 * l <= n * m2
      <4> HIDE DEF Listing, Startable, ToMake, Width
      <4>1. made[j][t] + Cardinality(ToMake(j, t)') <= made[j][t] + Cardinality(ToMake(j, t))
        BY <2>1, <2>3, <2>4, SMTT(30)
      <4>2. made[j][t] + Cardinality(ToMake(j, t)') + m * l <= n * m
        BY <2>1, <2>3, <2>4, <2>5, <4>1, CountsMove, SMTT(30)
      <4> HIDE DEF m, m2, l, n
      <4>3. (m + 1) * l = m * l + l /\ n * (m + 1) = n * m + n /\ m * l \in Nat /\ n * m \in Nat
        BY <2>1, <2>5, SMTT(30) DEF m
      <4> DEFINE p == m * l
                 r == n * m
                 p2 == (m + 1) * l
                 r2 == n * (m + 1)
      <4>4. made[j][t] + Cardinality(ToMake(j, t)') + p2 <= r2
        <5>1. p2 = p + l /\ r2 = r + n /\ p \in Nat /\ r \in Nat
          BY <4>3
        <5>2. made[j][t] + Cardinality(ToMake(j, t)') + p <= r
          BY <4>2
        <5> HIDE DEF p, r, p2, r2
        <5> QED
          BY <2>1, <2>4, <2>5, <5>1, <5>2, SMTT(30)
      <4> QED
        BY <3>2, <4>2, <4>4, SMTT(30) DEF m, m2
    <3> HIDE DEF Listing, Startable, ToMake, Width
    <3> QED
      BY <1>1, <1>2, <2>4, <3>1, <3>3, SMTT(30) DEF CopiesCounted
  <2> QED
    BY <2>6, <2>7
<1> QED
  BY <1>3, <1>4

\* A resume makes one more start possible, and is counted.
LEMMA ResumeCounted ==
    ASSUME TypeOK, JobsCounted, NEW j \in Jobs, ResumeReplayJob(j)
    PROVE  StartsCounted(j)' /\ \A t \in Targets : CopiesCounted(j, t)'
<1>1. /\ made' = made /\ item' = item /\ pc' = pc /\ todo' = todo /\ scope' = scope
      /\ resumes'[j] = resumes[j] + 1 /\ resumes[j] \in Nat
  BY DEF ResumeReplayJob, workerVars, TypeOK
<1>2. Started(j)' = Started(j) /\ Listing(j)' = Listing(j)
  BY <1>1 DEF Started, Listing
<1>3. Startable(j) \in {0, 1} /\ Startable(j)' \in {0, 1}
  BY DEF Startable
<1>4. StartsCounted(j)'
  <2>1. /\ IsFiniteSet(Started(j))
        /\ Cardinality(Started(j)) + Startable(j) <= 1 + resumes[j]
    BY DEF JobsCounted, StartsCounted
  <2>2. Cardinality(Started(j)) \in Nat
    BY <2>1, FS_CardinalityType, SMTT(30)
  <2> HIDE DEF Started, Startable
  <2> QED
    BY <1>1, <1>2, <1>3, <2>1, <2>2 DEF StartsCounted
<1>5. ASSUME NEW t \in Targets PROVE CopiesCounted(j, t)'
  <2>1. ToMake(j, t)' = ToMake(j, t) /\ Width(j, t)' = Width(j, t)
    BY <1>1 DEF ToMake, Width
  <2>2. Width(j, t) \in Nat /\ made[j][t] \in Nat
    BY CountTypes, SMTT(30)
  <2>3. /\ IsFiniteSet(ToMake(j, t))
        /\ Cardinality(Listing(j)) \in Nat /\ Cardinality(ToMake(j, t)) \in Nat
        /\ made[j][t] + Cardinality(ToMake(j, t))
             + Width(j, t) * (Cardinality(Listing(j)) + Startable(j))
               <= (1 + resumes[j]) * Width(j, t)
    BY CountsOf, SMTT(30)
  <2>4. made[j][t] + Cardinality(ToMake(j, t))
          + Width(j, t) * (Cardinality(Listing(j)) + Startable(j)')
            <= (1 + resumes'[j]) * Width(j, t)
    <3> HIDE DEF Listing, Startable, ToMake, Width
    <3>1. /\ Cardinality(Listing(j)) + Startable(j) \in Nat
          /\ Cardinality(Listing(j)) + Startable(j)' \in Nat
          /\ 1 + resumes[j] \in Nat /\ 1 + resumes'[j] \in Nat
          /\ 1 + resumes'[j] = (1 + resumes[j]) + 1
          /\ Cardinality(Listing(j)) + Startable(j)' <= Cardinality(Listing(j)) + Startable(j) + 1
          /\ made[j][t] + Cardinality(ToMake(j, t)) <= made[j][t] + Cardinality(ToMake(j, t))
      BY <1>1, <1>3, <2>2, <2>3
    <3> QED
      BY <2>2, <2>3, <3>1, CountsMove, SMTT(30)
  <2> HIDE DEF Listing, Startable, ToMake, Width
  <2> QED
    BY <1>1, <1>2, <2>1, <2>3, <2>4, SMTT(30) DEF CopiesCounted
<1> QED
  BY <1>4, <1>5

\* A new job has been started by nobody and has one start to come.
LEMMA CreationCounted ==
    ASSUME TypeOK, TypeOK', ItemFitsStep, RowsApproved, NEW j \in Jobs, NEW u \in Users,
           NEW gate \in BOOLEAN, NEW s \in Scopes, CreateReplay(j, u, gate, s)
    PROVE  StartsCounted(j)' /\ \A t \in Targets : CopiesCounted(j, t)'
<1>1. /\ made' = made /\ item' = item /\ pc' = pc /\ todo' = todo /\ resumes' = resumes
      /\ job[j] = "absent" /\ resumes[j] \in Nat /\ j \in Items
      /\ NoItem \notin Items
  BY FanoutAssumption, Zenon DEF CreateReplay, workerVars, historyVars, TypeOK, Items
<1>2. row[j] = "absent"
  BY <1>1, Zenon DEF RowsApproved
<1>3. \A w \in Workers : item[w] # j
  BY <1>1, <1>2, SMTT(30) DEF RowsApproved, ItemFitsStep
<1>4. Started(j)' = {} /\ Listing(j)' = {}
  BY <1>1, <1>3, SMTT(30) DEF Started, Listing
<1>5. Startable(j)' = 1
  BY SMTT(30) DEF CreateReplay, Startable, TypeOK
<1>6. StartsCounted(j)'
  <2> HIDE DEF Started, Startable
  <2> QED
    BY <1>1, <1>4, <1>5, FS_EmptySet, SMTT(30) DEF StartsCounted
<1>7. ASSUME NEW t \in Targets PROVE CopiesCounted(j, t)'
  <2>1. ToMake(j, t)' = {}
    BY <1>1, <1>3, SMTT(30) DEF ToMake
  <2>2. made'[j][t] = 0
    <3>1. made[j][t] \in Nat /\ ~(made[j][t] > 0)
      BY <1>1, <1>2, SMTT(30) DEF RowsApproved, TypeOK
    <3> QED
      BY <1>1, <3>1, SMTT(30)
  <2>3. Width(j, t)' \in Nat
    <3>1. EventOf[j] \in Items /\ made' \in [Items -> [Targets -> Nat]]
      BY FanoutAssumption, SMTT(30) DEF TypeOK, Items
    <3> QED
      BY <3>1, SMTT(30) DEF Width
  <2> DEFINE m == Width(j, t)'
  <2>4. 0 + 0 + m * (0 + 1) <= (1 + resumes[j]) * m
    <3>1. m * 1 <= m * (1 + resumes[j])
      BY <1>1, <2>3, TimesGrows, SMTT(30)
    <3> HIDE DEF m
    <3> QED
      BY <1>1, <2>3, <3>1, SMTT(30) DEF m
  <2> HIDE DEF Listing, Startable, ToMake, Width
  <2> QED
    BY <1>1, <1>4, <1>5, <2>1, <2>2, <2>4, FS_EmptySet, SMTT(30) DEF CopiesCounted
<1> QED
  BY <1>6, <1>7, SMTT(30)

\* Every step keeps both counts.
LEMMA NextJobsCounted ==
    TypeOK /\ TypeOK' /\ ItemFitsStep /\ RowsApproved /\ JobsCounted /\ [Next]_vars
        => JobsCounted'
<1> SUFFICES ASSUME TypeOK, TypeOK', ItemFitsStep, RowsApproved, JobsCounted, [Next]_vars,
                    NEW j \in Jobs
             PROVE  StartsCounted(j)' /\ \A t \in Targets : CopiesCounted(j, t)'
  BY DEF JobsCounted
<1> DEFINE Goal == StartsCounted(j)' /\ \A t \in Targets : CopiesCounted(j, t)'
<1>a. SameWork(j) => Goal
  BY SameWorkCounted, SMTT(30)
<1>b. /\ j \in Items /\ NoItem # j /\ j \notin Events
      /\ item \in [Workers -> Items \cup {NoItem}] /\ pc \in [Workers -> Steps]
      /\ todo \in [Workers -> SUBSET (Targets \X Nat)] /\ job \in [Jobs -> JobStates]
      /\ scope \in [Jobs -> Scopes]
  BY FanoutAssumption, SMTT(30) DEF TypeOK, Steps, Items
<1> HIDE DEF Goal
<1>1. ASSUME NEW e \in Events, EnqueueRouteEvent(e) PROVE Goal
  BY <1>a, <1>1, Zenon DEF EnqueueRouteEvent, SameWork, jobVars, workerVars, historyVars
<1>2. ASSUME OperatorActs PROVE Goal
  <2>1. ASSUME NEW k \in Jobs, NEW u \in Users, NEW gate \in BOOLEAN,
               NEW s \in Scopes, CreateReplay(k, u, gate, s)
        PROVE  Goal
    <3>1. CASE k = j
      BY <2>1, <3>1, CreationCounted DEF Goal
    <3>2. CASE k # j
      <4>1. SameWork(j)
        BY <1>b, <2>1, <3>2, Zenon DEF CreateReplay, SameWork, workerVars, historyVars
      <4> QED
        BY <1>a, <4>1, SMTT(30)
    <3> QED
      BY <3>1, <3>2
  <2>2. ASSUME NEW k \in Jobs, NEW u \in Users, ApproveReplayJob(k, u) PROVE Goal
    <3>1. SameWork(j)
      BY <1>b, <2>2, Zenon DEF ApproveReplayJob, MayApprove, SameWork, workerVars, historyVars
    <3> QED
      BY <1>a, <3>1, SMTT(30)
  <2>3. ASSUME NEW k \in Jobs, ApprovalExpires(k) PROVE Goal
    <3>1. SameWork(j)
      BY <2>3, Zenon DEF ApprovalExpires, SameWork, workerVars, historyVars
    <3> QED
      BY <1>a, <3>1, SMTT(30)
  <2>4. ASSUME NEW k \in Jobs, PauseReplayJob(k) \/ CancelReplayJob(k) PROVE Goal
    <3>1. SameWork(j)
      BY <1>b, <2>4, Zenon DEF PauseReplayJob, CancelReplayJob, SameWork, workerVars, historyVars
    <3> QED
      BY <1>a, <3>1
  <2>5. ASSUME NEW k \in Jobs, ResumeReplayJob(k) PROVE Goal
    <3>1. CASE k = j
      BY <2>5, <3>1, ResumeCounted, SMTT(30) DEF Goal
    <3>2. CASE k # j
      <4>1. SameWork(j)
        BY <1>b, <2>5, <3>2, Zenon DEF ResumeReplayJob, SameWork, workerVars, TypeOK
      <4> QED
        BY <1>a, <4>1
    <3> QED
      BY <3>1, <3>2
  <2> QED
    BY <1>2, <2>1, <2>2, <2>3, <2>4, <2>5, Zenon DEF OperatorActs
<1>3. ASSUME NEW w \in Workers, RunOutbox(w) PROVE Goal
  <2>1. ASSUME NEW S \in SUBSET Items, ClaimOutbox(w, S) PROVE Goal
    <3>1. SameWork(j)
      BY <2>1, Zenon DEF ClaimOutbox, SameWork, jobVars
    <3> QED
      BY <1>a, <3>1, SMTT(30)
  <2>2. ASSUME NEW e \in Events, NEW T \in SUBSET Targets, BeginEvent(w, e, T)
        PROVE  Goal
    <3>1. SameWork(j)
      BY <1>b, <2>2, Zenon DEF BeginEvent, RouteEvent, Turn, SameWork, jobVars
    <3> QED
      BY <1>a, <3>1, SMTT(30)
  <2>3. ASSUME NEW k \in Jobs, BeginReplay(w, k) PROVE Goal
    <3>1. SameWork(j)
      BY <1>b, <2>3 DEF BeginReplay, Defer, Turn, SameWork, jobVars, historyVars
    <3> QED
      BY <1>a, <3>1, SMTT(30)
  <2>4. ASSUME StartReplayJob(w) PROVE Goal
    <3>1. CASE item[w] = j /\ MayStart(j)
      BY <2>4, <3>1, StartCounted DEF Goal
    <3>2. CASE ~(item[w] = j /\ MayStart(j))
      <4>1. SameWork(j)
        BY <1>b, <2>4, <3>2 DEF StartReplayJob, Defer, Turn, SameWork, historyVars
      <4> QED
        BY <1>a, <4>1, SMTT(30)
    <3> QED
      BY <3>1, <3>2
  <2>5. ASSUME ListReplay(w) PROVE Goal
    <3>1. CASE item[w] = j
      BY <2>5, <3>1, ListCounted, SMTT(30) DEF Goal
    <3>2. CASE item[w] # j
      <4>1. SameWork(j)
        BY <1>b, <2>5, <3>2, SMTT(30) DEF ListReplay, Turn, SameWork, jobVars, historyVars
      <4> QED
        BY <1>a, <4>1
    <3> QED
      BY <3>1, <3>2
  <2>6. ASSUME NEW x \in todo[w], CreateDelivery(w, x) PROVE Goal
    BY <2>6, DeliveryCounted, SMTT(30) DEF Goal
  <2>7. ASSUME CompleteReplayJob(w) PROVE Goal
    <3>1. SameWork(j)
      BY <1>b, <2>7, SMTT(30) DEF CompleteReplayJob, SameWork, historyVars
    <3> QED
      BY <1>a, <3>1
  <2>8. ASSUME CompleteOutbox(w) PROVE Goal
    <3>1. SameWork(j)
      BY <1>b, <2>8, SMTT(30) DEF CompleteOutbox, Defer, Turn, SameWork, jobVars, historyVars
    <3> QED
      BY <1>a, <3>1
  <2> QED
    BY <1>3, <2>1, <2>2, <2>3, <2>4, <2>5, <2>6, <2>7, <2>8, Zenon DEF RunOutbox
<1>4. ASSUME WorkerStops PROVE Goal
  <2>1. PICK w \in Workers : DropBatch(w)
    BY <1>4, SMTT(30) DEF WorkerStops, ProcessFails, WorkerCrash
  <2>2. SameWork(j)
    BY <1>b, <2>1, SMTT(30) DEF DropBatch, Turn, SameWork, jobVars, historyVars
  <2> QED
    BY <1>a, <2>2
<1>5. ASSUME NEW i \in Items, LeaseExpires(i) PROVE Goal
  BY <1>a, <1>5, SMTT(30) DEF LeaseExpires, SameWork, jobVars, workerVars, historyVars
<1>6. ASSUME UNCHANGED vars PROVE Goal
  BY <1>a, <1>6 DEF vars, SameWork, jobVars, workerVars, historyVars
<1> QED
  BY <1>1, <1>2, <1>3, <1>4, <1>5, <1>6, SMTT(30) DEF Next, Goal

\* However often leases lapse and whoever takes its row, a replay job creates at
\* most its width of deliveries for a target, and as many again for each resume.
THEOREM ReplaysBounded == Spec => []ReplayFansOutOnce
<1>1. Init => JobsCounted /\ RowsApproved
  <2> SUFFICES ASSUME Init PROVE JobsCounted /\ RowsApproved
    OBVIOUS
  <2>1. RowsApproved
    BY FanoutAssumption, SMTT(30) DEF Init, RowsApproved, Items
  <2>2. ASSUME NEW j \in Jobs
        PROVE  StartsCounted(j) /\ \A t \in Targets : CopiesCounted(j, t)
    <3>1. /\ j \in Items /\ \A w \in Workers : item[w] # j
          /\ EventOf[j] \in Items /\ Startable(j) = 1 /\ resumes[j] = 0
      BY FanoutAssumption, SMTT(30) DEF Init, Items, Startable
    <3>2. Started(j) = {} /\ Listing(j) = {}
      BY <3>1, Zenon DEF Started, Listing
    <3>3. ASSUME NEW t \in Targets
          PROVE  /\ ToMake(j, t) = {} /\ made[j][t] = 0
                 /\ Width(j, t) = 1
      BY <3>1 DEF Init, ToMake, Width
    <3> HIDE DEF Started, Listing, ToMake, Width, Startable
    <3> QED
      BY <3>1, <3>2, <3>3, FS_EmptySet, SMTT(30) DEF StartsCounted, CopiesCounted
  <2> QED
    BY <2>1, <2>2 DEF JobsCounted
<1>2. TypeOK /\ JobsCounted => ReplayFansOutOnce
  <2> SUFFICES ASSUME TypeOK, JobsCounted, NEW j \in Jobs, NEW t \in Targets
               PROVE  made[j][t] <= (1 + resumes[j]) * Width(j, t)
    BY SMTT(30) DEF ReplayFansOutOnce, Width
  <2>1. /\ Cardinality(Listing(j)) \in Nat /\ Cardinality(ToMake(j, t)) \in Nat
        /\ made[j][t] + Cardinality(ToMake(j, t))
             + Width(j, t) * (Cardinality(Listing(j)) + Startable(j))
               <= (1 + resumes[j]) * Width(j, t)
    BY CountsOf
  <2>2. Width(j, t) \in Nat /\ Startable(j) \in Nat /\ made[j][t] \in Nat /\ resumes[j] \in Nat
    BY CountTypes, SMTT(30)
  <2> HIDE DEF Listing, ToMake, Width, Startable
  <2> DEFINE p == Width(j, t) * (Cardinality(Listing(j)) + Startable(j))
             r == (1 + resumes[j]) * Width(j, t)
  <2>3. p \in Nat /\ r \in Nat
    BY <2>1, <2>2, SMTT(30)
  <2>4. made[j][t] + Cardinality(ToMake(j, t)) + p <= r
    BY <2>1, SMTT(30)
  <2>5. made[j][t] <= r
    <3> HIDE DEF p, r
    <3> QED
      BY <2>1, <2>2, <2>3, <2>4
  <2> QED
    BY <2>5
<1> QED
  BY <1>1, <1>2, TypeCorrect, NextRowsApproved, NextJobsCounted, PTL DEF Spec
=============================================================================
