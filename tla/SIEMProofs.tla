------------------------------ MODULE SIEMProofs ------------------------------
(***************************************************************************)
(* Proofs about the SIEM stream, for any number of workers, entries and    *)
(* deliveries, any size of batch and any attempt limit: the cursor only    *)
(* covers what arrived, and the stream implements LogShipping.             *)
(***************************************************************************)
EXTENDS SIEM, TLAPS

Delivery == [from : Nat, to : Nat, state : SignalStates, attempts : Nat]

\* A delivery d may be posted while the cursor is c and the chain has n entries:
\* it is a test, or starts no later than the entry after the cursor.
Cut(d, n, c) ==
  \/ d.from = 0 /\ d.to = 0
  \/ 1 <= d.from /\ d.from <= c + 1 /\ d.from <= d.to /\ d.to <= n

\* What a worker is in the middle of is no older than the cursor and within the
\* chain, and it only remembers a success of what has arrived.
ShipperOK(r, n, c, b, arr) ==
  \/ r = Idle
  \/ \E k \in 0..c : r = [at |-> "build", cursor |-> k]
  \/ \E from \in 1..(c + 1) : \E to \in from..n : r = [at |-> "insert", from |-> from, to |-> to]
  \/ \E d \in DOMAIN b, k \in Nat : r = [at |-> "send", delivery |-> d, claimed |-> k]
  \/ \E d \in DOMAIN b, k \in Nat, ok \in BOOLEAN :
       /\ r = [at |-> "record", delivery |-> d, claimed |-> k, ok |-> ok]
       /\ ok => b[d].to = 0 \/ b[d].to \in arr

LogOK ==
  /\ chained \in Nat /\ cursor \in Nat
  /\ arrived \subseteq 1..chained
  /\ CursorCoversArrived

DeliveriesOK == batch \in Seq(Delivery) /\ \A d \in DOMAIN batch : Cut(batch[d], chained, cursor)

ShippersOK ==
  DOMAIN shipper = Sessions /\ \A w \in Sessions : ShipperOK(shipper[w], chained, cursor, batch, arrived)

\* The inductive invariant.
Inv == LogOK /\ DeliveriesOK /\ ShippersOK

\* Steps never shorten the chain, move the cursor back, lose an arrived entry or
\* change the range of a delivery.
Grows(n1, n2, c1, c2, b1, b2, a1, a2) ==
  /\ n1 \in Nat /\ n2 \in Nat /\ c1 \in Nat /\ c2 \in Nat
  /\ n1 <= n2 /\ c1 <= c2 /\ a1 \subseteq a2
  /\ DOMAIN b1 \subseteq DOMAIN b2
  /\ \A d \in DOMAIN b1 : b2[d].from = b1[d].from /\ b2[d].to = b1[d].to

GrowsNow == Grows(chained, chained', cursor, cursor', batch, batch', arrived, arrived')

\* A worker that stands still stays consistent with what grows around it.
LEMMA ShipperStays ==
  \A r, n1, n2, c1, c2, b1, b2, a1, a2 :
    Grows(n1, n2, c1, c2, b1, b2, a1, a2) /\ ShipperOK(r, n1, c1, b1, a1) => ShipperOK(r, n2, c2, b2, a2)
<1> SUFFICES ASSUME NEW r, NEW n1, NEW n2, NEW c1, NEW c2, NEW b1, NEW b2, NEW a1, NEW a2,
                    Grows(n1, n2, c1, c2, b1, b2, a1, a2), ShipperOK(r, n1, c1, b1, a1)
             PROVE  ShipperOK(r, n2, c2, b2, a2)
  OBVIOUS
<1>1. CASE r = Idle
  BY <1>1 DEF ShipperOK
<1>2. CASE \E k \in 0..c1 : r = [at |-> "build", cursor |-> k]
  <2>1. PICK k \in 0..c1 : r = [at |-> "build", cursor |-> k]
    BY <1>2
  <2>2. k \in 0..c2
    BY <2>1 DEF Grows
  <2> QED
    BY <2>1, <2>2 DEF ShipperOK
<1>3. CASE \E from \in 1..(c1 + 1) : \E to \in from..n1 : r = [at |-> "insert", from |-> from, to |-> to]
  <2>1. PICK from \in 1..(c1 + 1) : \E to \in from..n1 : r = [at |-> "insert", from |-> from, to |-> to]
    BY <1>3
  <2>2. PICK to \in from..n1 : r = [at |-> "insert", from |-> from, to |-> to]
    BY <2>1
  <2>3. from \in 1..(c2 + 1) /\ to \in from..n2
    BY <2>1, <2>2 DEF Grows
  <2> QED
    BY <2>2, <2>3 DEF ShipperOK
<1>4. CASE \E d \in DOMAIN b1, k \in Nat : r = [at |-> "send", delivery |-> d, claimed |-> k]
  <2>1. PICK d \in DOMAIN b1, k \in Nat : r = [at |-> "send", delivery |-> d, claimed |-> k]
    BY <1>4
  <2>2. d \in DOMAIN b2
    BY DEF Grows
  <2> QED
    BY <2>1, <2>2 DEF ShipperOK
<1>5. CASE \E d \in DOMAIN b1, k \in Nat, ok \in BOOLEAN :
             /\ r = [at |-> "record", delivery |-> d, claimed |-> k, ok |-> ok]
             /\ ok => b1[d].to = 0 \/ b1[d].to \in a1
  <2>1. PICK d \in DOMAIN b1, k \in Nat, ok \in BOOLEAN :
               /\ r = [at |-> "record", delivery |-> d, claimed |-> k, ok |-> ok]
               /\ ok => b1[d].to = 0 \/ b1[d].to \in a1
    BY <1>5
  <2>2. d \in DOMAIN b2 /\ (ok => b2[d].to = 0 \/ b2[d].to \in a2)
    BY <2>1 DEF Grows
  <2> QED
    BY <2>1, <2>2 DEF ShipperOK
<1> QED
  BY <1>1, <1>2, <1>3, <1>4, <1>5 DEF ShipperOK

\* What a worker remembers at each stage.
LEMMA Stage ==
  ASSUME NEW r, NEW n, NEW c, NEW b, NEW arr, ShipperOK(r, n, c, b, arr)
  PROVE  /\ r.at = "build" => \E k \in 0..c : r = [at |-> "build", cursor |-> k]
         /\ r.at = "insert" =>
              \E from \in 1..(c + 1) : \E to \in from..n : r = [at |-> "insert", from |-> from, to |-> to]
         /\ r.at = "send" =>
              \E d \in DOMAIN b, k \in Nat : r = [at |-> "send", delivery |-> d, claimed |-> k]
         /\ r.at = "record" =>
              \E d \in DOMAIN b, k \in Nat, ok \in BOOLEAN :
                /\ r = [at |-> "record", delivery |-> d, claimed |-> k, ok |-> ok]
                /\ ok => b[d].to = 0 \/ b[d].to \in arr
<1>1. r = Idle => r.at = "idle"
  BY DEF Idle
<1>2. (\E k \in 0..c : r = [at |-> "build", cursor |-> k]) => r.at = "build"
  OBVIOUS
<1>3. (\E from \in 1..(c + 1) : \E to \in from..n : r = [at |-> "insert", from |-> from, to |-> to])
        => r.at = "insert"
  OBVIOUS
<1>4. (\E d \in DOMAIN b, k \in Nat : r = [at |-> "send", delivery |-> d, claimed |-> k]) => r.at = "send"
  OBVIOUS
<1>5. (\E d \in DOMAIN b, k \in Nat, ok \in BOOLEAN :
          /\ r = [at |-> "record", delivery |-> d, claimed |-> k, ok |-> ok]
          /\ ok => b[d].to = 0 \/ b[d].to \in arr) => r.at = "record"
  OBVIOUS
<1> QED
  BY <1>1, <1>2, <1>3, <1>4, <1>5, Zenon DEF ShipperOK

\* The step of one worker keeps all workers consistent when its own new stage is.
LEMMA ShipStep ==
  ASSUME ShippersOK, GrowsNow, NEW w \in Sessions,
         \E r : Ships(w, r) /\ ShipperOK(r, chained', cursor', batch', arrived')
  PROVE  ShippersOK'
<1>1. PICK r : Ships(w, r) /\ ShipperOK(r, chained', cursor', batch', arrived')
  OBVIOUS
<1>2. DOMAIN shipper' = Sessions
  BY <1>1 DEF Ships, ShippersOK
<1>3. ASSUME NEW v \in Sessions PROVE ShipperOK(shipper'[v], chained', cursor', batch', arrived')
  <2>1. CASE v = w
    <3>1. shipper'[v] = r
      BY <1>1, <2>1 DEF Ships, ShippersOK
    <3> QED
      BY <1>1, <3>1
  <2>2. CASE v # w
    <3>1. shipper'[v] = shipper[v]
      BY <1>1, <2>2 DEF Ships, ShippersOK
    <3>2. ShipperOK(shipper[v], chained, cursor, batch, arrived)
      BY DEF ShippersOK
    <3>3. ShipperOK(shipper[v], chained', cursor', batch', arrived')
      BY <3>2, ShipperStays DEF GrowsNow
    <3> QED
      BY <3>1, <3>3
  <2> QED
    BY <2>1, <2>2
<1> QED
  BY <1>2, <1>3 DEF ShippersOK

\* Workers that all stand still stay consistent.
LEMMA ShippersStay ==
  ASSUME ShippersOK, GrowsNow, UNCHANGED shipper
  PROVE  ShippersOK'
<1>1. ASSUME NEW v \in Sessions PROVE ShipperOK(shipper[v], chained', cursor', batch', arrived')
  <2>1. ShipperOK(shipper[v], chained, cursor, batch, arrived)
    BY DEF ShippersOK
  <2> QED
    BY <2>1, ShipperStays DEF GrowsNow
<1> QED
  BY <1>1 DEF ShippersOK

\* The deliveries that exist stay within the chain and the cursor.
LEMMA DeliveriesStay ==
  ASSUME DeliveriesOK, GrowsNow, batch' \in Seq(Delivery), DOMAIN batch' = DOMAIN batch
  PROVE  DeliveriesOK'
<1>1. ASSUME NEW d \in DOMAIN batch PROVE Cut(batch'[d], chained', cursor')
  <2>1. Cut(batch[d], chained, cursor)
    BY DEF DeliveriesOK
  <2>2. batch[d] \in Delivery
    BY DEF DeliveriesOK
  <2>3. batch'[d].from = batch[d].from /\ batch'[d].to = batch[d].to
    BY DEF GrowsNow, Grows
  <2>4. batch[d].from \in Nat /\ batch[d].to \in Nat
    BY <2>2 DEF Delivery
  <2> QED
    BY <2>1, <2>3, <2>4 DEF Cut, GrowsNow, Grows
<1> QED
  BY <1>1 DEF DeliveriesOK

\* A new delivery d is appended.
LEMMA DeliveryAdded ==
  ASSUME LogOK, DeliveriesOK, NEW d \in Delivery, Cut(d, chained, cursor), batch' = Append(batch, d),
         UNCHANGED <<chained, cursor, arrived>>
  PROVE  DeliveriesOK' /\ GrowsNow
<1>1. batch' \in Seq(Delivery) /\ DOMAIN batch \subseteq DOMAIN batch'
  BY DEF DeliveriesOK
<1>2. \A i \in DOMAIN batch : batch'[i] = batch[i]
  BY DEF DeliveriesOK
<1>3. \A i \in DOMAIN batch' : i \in DOMAIN batch \/ batch'[i] = d
  BY DEF DeliveriesOK
<1>4. DeliveriesOK'
  BY <1>1, <1>2, <1>3 DEF DeliveriesOK
<1>5. GrowsNow
  BY <1>1, <1>2 DEF GrowsNow, Grows, LogOK
<1> QED
  BY <1>4, <1>5

\* A delivery d changes its state or count, and nothing of its range.
LEMMA DeliveryChanged ==
  ASSUME LogOK, DeliveriesOK, NEW d \in DOMAIN batch, NEW e \in Delivery,
         batch' = [batch EXCEPT ![d] = e], e.from = batch[d].from, e.to = batch[d].to,
         chained' = chained, arrived' = arrived, cursor' \in Nat, cursor <= cursor'
  PROVE  DeliveriesOK' /\ GrowsNow
<1>1. batch' \in Seq(Delivery) /\ DOMAIN batch' = DOMAIN batch
  BY DEF DeliveriesOK
<1>2. \A i \in DOMAIN batch : batch'[i].from = batch[i].from /\ batch'[i].to = batch[i].to
  BY DEF DeliveriesOK
<1>3. GrowsNow
  BY <1>1, <1>2 DEF GrowsNow, Grows, LogOK
<1> QED
  BY <1>1, <1>3, DeliveriesStay

\* A success means that the receiver has kept the body (Classify of
\* internal/adapters/signalhttp: only a 2xx succeeds).
LEMMA SuccessIsKept == \A o \in SignalOutcomes : o.ok \in BOOLEAN /\ (o.ok => o.kept)
<1> SUFFICES ASSUME NEW o \in SignalOutcomes PROVE o.ok \in BOOLEAN /\ (o.ok => o.kept)
  OBVIOUS
<1>0. PICK a \in SignalAnswers : \E k \in Keeps(a) : o = [ok |-> Classify(a) = "success", kept |-> k]
  BY DEF SignalOutcomes
<1>1. PICK k \in Keeps(a) : o = [ok |-> Classify(a) = "success", kept |-> k]
  BY <1>0
<1>2. Classify(a) = "success" => a = "2xx"
  BY DEF Classify, SignalAnswers
<1>3. a = "2xx" => k
  BY DEF Keeps
<1> QED
  BY <1>1, <1>2, <1>3, Zenon

-----------------------------------------------------------------------------
\* The entries a delivery carries.
LEMMA EntriesOfCut ==
  ASSUME LogOK, NEW d \in Delivery, Cut(d, chained, cursor)
  PROVE  /\ d.to = 0 => BatchEntries(d) = {}
         /\ d.to # 0 => BatchEntries(d) = d.from..d.to /\ d.from \in 1..(cursor + 1) /\ d.to \in d.from..chained
<1>1. d.from \in Nat /\ d.to \in Nat /\ chained \in Nat /\ cursor \in Nat
  BY DEF Delivery, LogOK
<1>2. d.to = 0 => BatchEntries(d) = {}
  BY <1>1 DEF BatchEntries
<1>3. d.to # 0 => d.from \in 1..(cursor + 1) /\ d.to \in d.from..chained
  BY <1>1 DEF Cut
<1>4. d.to # 0 => BatchEntries(d) = d.from..d.to
  BY <1>1, <1>3 DEF BatchEntries
<1> QED
  BY <1>2, <1>3, <1>4

\* Only an operation on the sink's row happens.
LEMMA SinkStep ==
  ASSUME Inv, UNCHANGED <<chained, cursor, batch, arrived, shipper>>
  PROVE  Inv'
BY DEF Inv, LogOK, CursorCoversArrived, DeliveriesOK, ShippersOK

\* The log is unchanged.
LEMMA LogStays ==
  ASSUME LogOK, UNCHANGED <<chained, cursor, arrived>>
  PROVE  LogOK'
BY DEF LogOK, CursorCoversArrived

\* Nothing but a worker's stage changes.
LEMMA StageStep ==
  ASSUME Inv, NEW w \in Sessions, UNCHANGED <<chained, cursor, batch, arrived>>,
         \E r : Ships(w, r) /\ ShipperOK(r, chained, cursor, batch, arrived)
  PROVE  Inv'
<1>1. GrowsNow
  BY DEF GrowsNow, Grows, Inv, LogOK
<1>2. ShippersOK'
  BY <1>1, ShipStep DEF Inv
<1>3. LogOK' /\ DeliveriesOK'
  BY DEF Inv, LogOK, CursorCoversArrived, DeliveriesOK
<1> QED
  BY <1>2, <1>3 DEF Inv

\* A delivery changes its state, by an operator or a claim of worker w.
LEMMA StateChanged ==
  ASSUME Inv, NEW d \in DOMAIN batch, NEW st \in SignalStates,
         batch' = [batch EXCEPT ![d].state = st], UNCHANGED <<chained, cursor, arrived>>
  PROVE  LogOK' /\ DeliveriesOK' /\ GrowsNow
<1>1. batch[d] \in Delivery
  BY DEF Inv, DeliveriesOK
<1> DEFINE e == [batch[d] EXCEPT !.state = st]
<1>2. e \in Delivery /\ e.from = batch[d].from /\ e.to = batch[d].to
  BY <1>1 DEF Delivery
<1>3. batch' = [batch EXCEPT ![d] = e]
  OBVIOUS
<1>4. cursor' \in Nat /\ cursor <= cursor'
  BY DEF Inv, LogOK
<1> HIDE DEF e
<1>5. DeliveriesOK' /\ GrowsNow
  BY <1>2, <1>3, <1>4, DeliveryChanged, Zenon DEF Inv
<1> QED
  BY <1>5, LogStays DEF Inv

\* Before the first step there is nothing to be inconsistent.
LEMMA InvInit == SIEMInit => Inv
BY DEF SIEMInit, Inv, LogOK, CursorCoversArrived, DeliveriesOK, ShippersOK, ShipperOK

\* A test of the sink is a delivery of no entries.
LEMMA TestKeeps == Inv /\ TestSIEMSink => Inv'
<1> SUFFICES ASSUME Inv, TestSIEMSink PROVE Inv'
  OBVIOUS
<1> DEFINE d == NewBatch(0, 0)
<1>1. d \in Delivery /\ Cut(d, chained, cursor)
  BY DEF NewBatch, Delivery, SignalStates, Cut
<1>2. batch' = Append(batch, d) /\ UNCHANGED <<chained, cursor, arrived, shipper>>
  BY DEF TestSIEMSink
<1> HIDE DEF d
<1>3. DeliveriesOK' /\ GrowsNow
  BY <1>1, <1>2, DeliveryAdded DEF Inv
<1> QED
  BY <1>2, <1>3, LogStays, ShippersStay DEF Inv

\* An operator's retry reschedules a delivery.
LEMMA RetryKeeps == Inv /\ RetrySIEMDelivery => Inv'
<1> SUFFICES ASSUME Inv, RetrySIEMDelivery PROVE Inv'
  OBVIOUS
<1>1. PICK d \in DOMAIN batch : batch' = [batch EXCEPT ![d].state = "scheduled"]
  BY Zenon DEF RetrySIEMDelivery, Retried
<1>2. UNCHANGED <<chained, cursor, arrived, shipper>> /\ "scheduled" \in SignalStates
  BY DEF RetrySIEMDelivery, SignalStates
<1>3. LogOK' /\ DeliveriesOK' /\ GrowsNow
  BY <1>1, <1>2, StateChanged, Zenon
<1> QED
  BY <1>2, <1>3, ShippersStay DEF Inv

\* The chain grows by one entry.
LEMMA AppendKeeps == Inv /\ ChainAppends => Inv'
<1> SUFFICES ASSUME Inv, ChainAppends PROVE Inv'
  OBVIOUS
<1>1. chained \in Nat /\ chained' = chained + 1 /\ UNCHANGED <<cursor, batch, arrived, shipper>>
  BY DEF ChainAppends, Inv, LogOK
<1>2. GrowsNow
  BY <1>1 DEF GrowsNow, Grows, Inv, LogOK
<1>3. LogOK'
  BY <1>1 DEF Inv, LogOK, CursorCoversArrived
<1>4. batch' \in Seq(Delivery) /\ DOMAIN batch' = DOMAIN batch
  BY <1>1 DEF Inv, DeliveriesOK
<1> QED
  BY <1>1, <1>2, <1>3, <1>4, DeliveriesStay, ShippersStay DEF Inv

\* A worker notes the cursor.
LEMMA EnqueueKeeps == ASSUME NEW w \in Sessions PROVE Inv /\ EnqueueSIEMDeliveries(w) => Inv'
<1> SUFFICES ASSUME Inv, EnqueueSIEMDeliveries(w) PROVE Inv'
  OBVIOUS
<1>1. cursor \in 0..cursor
  BY DEF Inv, LogOK
<1>2. ShipperOK([at |-> "build", cursor |-> cursor], chained, cursor, batch, arrived)
  BY <1>1 DEF ShipperOK
<1>3. Ships(w, [at |-> "build", cursor |-> cursor]) /\ UNCHANGED <<chained, cursor, batch, arrived>>
  BY DEF EnqueueSIEMDeliveries
<1> QED
  BY <1>2, <1>3, StageStep

\* It cuts a batch that begins right after that cursor.
LEMMA BuildKeeps == ASSUME NEW w \in Sessions PROVE Inv /\ BuildSIEMBatch(w) => Inv'
<1> SUFFICES ASSUME Inv, BuildSIEMBatch(w) PROVE Inv'
  OBVIOUS
<1>1. shipper[w].at = "build" /\ ShipperOK(shipper[w], chained, cursor, batch, arrived)
  BY DEF BuildSIEMBatch, Inv, ShippersOK
<1>2. PICK k \in 0..cursor : shipper[w] = [at |-> "build", cursor |-> k]
  BY <1>1, Stage
<1> DEFINE last == IF k + SinkBatch < chained THEN k + SinkBatch ELSE chained
           r == [at |-> "insert", from |-> k + 1, to |-> last]
<1>3. UNCHANGED <<chained, cursor, batch, arrived>>
  BY DEF BuildSIEMBatch
<1>4. CASE k < chained
  <2>1. k + 1 \in 1..(cursor + 1) /\ last \in (k + 1)..chained
    BY <1>4, BatchAssumption DEF Inv, LogOK
  <2>2. ShipperOK(r, chained, cursor, batch, arrived)
    BY <2>1 DEF ShipperOK
  <2>3. Ships(w, r)
    BY <1>2, <1>4 DEF BuildSIEMBatch
  <2> QED
    BY <1>3, <2>2, <2>3, StageStep
<1>5. CASE ~(k < chained)
  <2>1. Ships(w, Idle)
    BY <1>2, <1>5 DEF BuildSIEMBatch
  <2>2. ShipperOK(Idle, chained, cursor, batch, arrived)
    BY DEF ShipperOK
  <2> QED
    BY <1>3, <2>1, <2>2, StageStep
<1> QED
  BY <1>4, <1>5

\* It inserts the batch, unless a delivery of the same range exists.
LEMMA InsertKeeps == ASSUME NEW w \in Sessions PROVE Inv /\ InsertSIEMDelivery(w) => Inv'
<1> SUFFICES ASSUME Inv, InsertSIEMDelivery(w) PROVE Inv'
  OBVIOUS
<1>1. shipper[w].at = "insert" /\ ShipperOK(shipper[w], chained, cursor, batch, arrived)
  BY DEF InsertSIEMDelivery, Inv, ShippersOK
<1>2. PICK from \in 1..(cursor + 1) : \E to \in from..chained : shipper[w] = [at |-> "insert", from |-> from, to |-> to]
  BY <1>1, Stage
<1>3. PICK to \in from..chained : shipper[w] = [at |-> "insert", from |-> from, to |-> to]
  BY <1>2
<1>4. Ships(w, Idle) /\ UNCHANGED <<chained, cursor, arrived>>
  BY DEF InsertSIEMDelivery
<1>5. ShipperOK(Idle, chained', cursor', batch', arrived')
  BY DEF ShipperOK
<1>6. CASE UNCHANGED batch
  BY <1>4, <1>5, <1>6, StageStep
<1>7. CASE batch' = Append(batch, NewBatch(from, to))
  <2> DEFINE d == NewBatch(from, to)
  <2>1. d \in Delivery /\ Cut(d, chained, cursor)
    BY <1>2, <1>3 DEF NewBatch, Delivery, SignalStates, Cut, Inv, LogOK
  <2>2. batch' = Append(batch, d)
    BY <1>7
  <2> HIDE DEF d
  <2>3. DeliveriesOK' /\ GrowsNow
    BY <1>4, <2>1, <2>2, DeliveryAdded DEF Inv
  <2>4. ShippersOK'
    BY <1>4, <1>5, <2>3, ShipStep DEF Inv
  <2> QED
    BY <1>4, <2>3, <2>4, LogStays DEF Inv
<1> QED
  BY <1>3, <1>6, <1>7 DEF InsertSIEMDelivery

\* It claims a scheduled delivery, with the attempts counted so far.
LEMMA ClaimKeeps == ASSUME NEW w \in Sessions PROVE Inv /\ ClaimSIEMDeliveries(w) => Inv'
<1> SUFFICES ASSUME Inv, ClaimSIEMDeliveries(w) PROVE Inv'
  OBVIOUS
<1>1. PICK d \in DOMAIN batch :
        /\ batch' = [batch EXCEPT ![d].state = "in_progress"]
        /\ Ships(w, [at |-> "send", delivery |-> d, claimed |-> batch[d].attempts])
  BY Zenon DEF ClaimSIEMDeliveries
<1>2. UNCHANGED <<chained, cursor, arrived>> /\ "in_progress" \in SignalStates
  BY DEF ClaimSIEMDeliveries, SignalStates
<1>3. LogOK' /\ DeliveriesOK' /\ GrowsNow
  BY <1>1, <1>2, StateChanged, Zenon
<1>4. batch[d].attempts \in Nat /\ d \in DOMAIN batch'
  <2>1. batch \in Seq(Delivery) /\ batch[d] \in Delivery
    BY DEF Inv, DeliveriesOK
  <2>2. batch[d].attempts \in Nat
    BY <2>1 DEF Delivery
  <2>3. d \in DOMAIN batch'
    BY <1>1, <2>1
  <2> QED
    BY <2>2, <2>3
<1>5. ShipperOK([at |-> "send", delivery |-> d, claimed |-> batch[d].attempts], chained', cursor', batch', arrived')
  BY <1>4 DEF ShipperOK
<1>6. ShippersOK'
  BY <1>1, <1>3, <1>5, ShipStep, Zenon DEF Inv
<1> QED
  BY <1>3, <1>6 DEF Inv

\* The receiver may keep the entries of a posted delivery; it has then the whole
\* chain up to the last of them.
LEMMA DeliverKeeps == ASSUME NEW w \in Sessions PROVE Inv /\ DeliverSIEM(w) => Inv'
<1> SUFFICES ASSUME Inv, DeliverSIEM(w) PROVE Inv'
  OBVIOUS
<1>1. shipper[w].at = "send" /\ ShipperOK(shipper[w], chained, cursor, batch, arrived)
  BY DEF DeliverSIEM, Inv, ShippersOK
<1>2. PICK d \in DOMAIN batch, k \in Nat : shipper[w] = [at |-> "send", delivery |-> d, claimed |-> k]
  BY <1>1, Stage
<1>3. UNCHANGED <<chained, cursor, batch>>
  BY DEF DeliverSIEM
<1>4. PICK o \in SignalOutcomes :
        /\ arrived' = IF o.kept THEN arrived \cup BatchEntries(batch[d]) ELSE arrived
        /\ Ships(w, [at |-> "record", delivery |-> d, claimed |-> k, ok |-> o.ok])
  BY <1>2 DEF DeliverSIEM
<1>5. batch[d] \in Delivery /\ Cut(batch[d], chained, cursor)
  BY DEF Inv, DeliveriesOK
<1> DEFINE from == batch[d].from
           to == batch[d].to
           E == BatchEntries(batch[d])
<1>6. /\ to = 0 => E = {}
      /\ to # 0 => E = from..to /\ from \in 1..(cursor + 1) /\ to \in from..chained
  BY <1>5, EntriesOfCut DEF Inv
<1>7. from \in Nat /\ to \in Nat /\ chained \in Nat /\ cursor \in Nat
  BY <1>5 DEF Delivery, Inv, LogOK
<1> HIDE DEF from, to, E
<1>8. E \subseteq 1..chained
  BY <1>6, <1>7
<1>9. arrived \subseteq arrived' /\ arrived' \subseteq 1..chained
  BY <1>4, <1>8, Zenon DEF Inv, LogOK, E
<1>10. \A n \in E : 1..n \subseteq arrived \cup E
  <2> SUFFICES ASSUME NEW n \in E, NEW i \in 1..n, i \notin E PROVE i \in arrived
    OBVIOUS
  <2>1. to # 0 /\ n \in from..to
    BY <1>6
  <2>2. i < from
    BY <1>6, <1>7, <2>1
  <2>3. i \in 1..cursor
    BY <1>6, <1>7, <2>1, <2>2
  <2> QED
    BY <2>3 DEF Inv, LogOK, CursorCoversArrived
<1>11. \A n \in arrived' : 1..n \subseteq arrived'
  <2>1. \A n \in arrived : 1..n \subseteq arrived
    BY DEF Inv, LogOK, CursorCoversArrived
  <2>2. CASE o.kept
    <3>1. arrived' = arrived \cup E
      BY <1>4, <2>2 DEF E
    <3> QED
      BY <1>10, <2>1, <3>1
  <2>3. CASE ~o.kept
    <3>1. arrived' = arrived
      BY <1>4, <2>3
    <3> QED
      BY <2>1, <3>1
  <2> QED
    BY <2>2, <2>3
<1>12. LogOK'
  BY <1>3, <1>9, <1>11 DEF Inv, LogOK, CursorCoversArrived
<1>13. GrowsNow /\ DeliveriesOK'
  BY <1>3, <1>9 DEF GrowsNow, Grows, Inv, LogOK, DeliveriesOK
<1>14. o.ok \in BOOLEAN /\ (o.ok => o.kept)
  BY SuccessIsKept
<1>15. o.kept => to = 0 \/ to \in arrived'
  <2> SUFFICES ASSUME o.kept, to # 0 PROVE to \in arrived'
    OBVIOUS
  <2>1. to \in E
    BY <1>6, <1>7
  <2> QED
    BY <1>4, <2>1 DEF E
<1>16. ShipperOK([at |-> "record", delivery |-> d, claimed |-> k, ok |-> o.ok], chained', cursor', batch', arrived')
  <2>1. d \in DOMAIN batch' /\ batch'[d].to = to
    BY <1>3 DEF to
  <2>2. o.ok => batch'[d].to = 0 \/ batch'[d].to \in arrived'
    BY <1>14, <1>15, <2>1
  <2> QED
    BY <1>14, <2>1, <2>2 DEF ShipperOK
<1>17. ShippersOK'
  BY <1>4, <1>13, <1>16, ShipStep DEF Inv
<1> QED
  BY <1>12, <1>13, <1>17 DEF Inv

\* An attempt changes the state and the count of a delivery.
LEMMA AttemptType ==
  ASSUME NEW d \in Delivery, NEW k \in Nat, NEW ok
  PROVE  /\ AfterAttempt(d, k, ok) \in Delivery
         /\ AfterAttempt(d, k, ok).from = d.from /\ AfterAttempt(d, k, ok).to = d.to
<1>1. PICK st \in SignalStates : AfterAttempt(d, k, ok) = [d EXCEPT !.attempts = k + 1, !.state = st]
  <2> DEFINE st == IF ok THEN "succeeded" ELSE IF k + 1 < MaxSignalAttempts THEN "scheduled" ELSE "failed"
  <2>1. st \in SignalStates
    BY DEF SignalStates
  <2> QED
    BY <2>1, Zenon DEF AfterAttempt
<1>2. k + 1 \in Nat
  OBVIOUS
<1> QED
  BY <1>1, <1>2, Zenon DEF Delivery

\* The attempt is recorded; a success moves the cursor up to the last entry of
\* the delivery, which has arrived with all before it.
LEMMA RecordKeeps == ASSUME NEW w \in Sessions PROVE Inv /\ RecordSIEMDeliveryAttempt(w) => Inv'
<1> SUFFICES ASSUME Inv, RecordSIEMDeliveryAttempt(w) PROVE Inv'
  OBVIOUS
<1>1. shipper[w].at = "record" /\ ShipperOK(shipper[w], chained, cursor, batch, arrived)
  BY DEF RecordSIEMDeliveryAttempt, Inv, ShippersOK
<1>2. PICK d \in DOMAIN batch, k \in Nat, ok \in BOOLEAN :
        /\ shipper[w] = [at |-> "record", delivery |-> d, claimed |-> k, ok |-> ok]
        /\ ok => batch[d].to = 0 \/ batch[d].to \in arrived
  BY <1>1, Stage
<1> DEFINE e == AfterAttempt(batch[d], k, ok)
<1>3. batch' = [batch EXCEPT ![d] = e] /\ cursor' = CursorAfter(batch[d], ok)
  BY <1>2 DEF RecordSIEMDeliveryAttempt
<1>4. Ships(w, Idle) /\ UNCHANGED <<chained, arrived>>
  BY DEF RecordSIEMDeliveryAttempt
<1>5. batch[d] \in Delivery
  BY DEF Inv, DeliveriesOK
<1>6. e \in Delivery /\ e.from = batch[d].from /\ e.to = batch[d].to
  BY <1>5, AttemptType
<1>7. batch[d].to \in Nat /\ cursor \in Nat /\ chained \in Nat
  BY <1>5 DEF Delivery, Inv, LogOK
<1>8. cursor' \in Nat /\ cursor <= cursor' /\ (cursor' # cursor => cursor' \in arrived)
  BY <1>2, <1>3, <1>7 DEF CursorAfter
<1> HIDE DEF e
<1>9. DeliveriesOK' /\ GrowsNow
  BY <1>3, <1>4, <1>6, <1>8, DeliveryChanged, Zenon DEF Inv
<1>10. LogOK'
  BY <1>4, <1>8 DEF Inv, LogOK, CursorCoversArrived
<1>11. ShipperOK(Idle, chained', cursor', batch', arrived')
  BY DEF ShipperOK
<1>12. ShippersOK'
  BY <1>4, <1>9, <1>11, ShipStep DEF Inv
<1> QED
  BY <1>9, <1>10, <1>12 DEF Inv

\* A worker that crashes forgets its stage.
LEMMA CrashKeeps == ASSUME NEW w \in Sessions PROVE Inv /\ ShipperCrashes(w) => Inv'
<1> SUFFICES ASSUME Inv, ShipperCrashes(w) PROVE Inv'
  OBVIOUS
<1>1. Ships(w, Idle) /\ UNCHANGED <<chained, cursor, batch, arrived>>
  BY DEF ShipperCrashes
<1>2. ShipperOK(Idle, chained, cursor, batch, arrived)
  BY DEF ShipperOK
<1> QED
  BY <1>1, <1>2, StageStep

\* Every step keeps the invariant.
LEMMA InvNext == Inv /\ [SIEMNext]_siemVars => Inv'
<1> SUFFICES ASSUME Inv, [SIEMNext]_siemVars PROVE Inv'
  OBVIOUS
<1>1. CASE CreateSIEMSink \/ UpdateSIEMSink \/ WriteSIEMSink \/ DeleteSIEMSink
  <2>1. UNCHANGED <<chained, cursor, batch, arrived, shipper>>
    BY <1>1, Zenon DEF CreateSIEMSink, UpdateSIEMSink, WriteSIEMSink, DeleteSIEMSink
  <2> QED
    BY <2>1, SinkStep
<1>2. CASE TestSIEMSink
  BY <1>2, TestKeeps
<1>3. CASE RetrySIEMDelivery
  BY <1>3, RetryKeeps
<1>4. CASE ChainAppends
  BY <1>4, AppendKeeps
<1>5. ASSUME NEW w \in Sessions, RunSIEMDeliveries(w) PROVE Inv'
  BY <1>5, EnqueueKeeps, BuildKeeps, InsertKeeps, ClaimKeeps, DeliverKeeps, RecordKeeps DEF RunSIEMDeliveries
<1>6. ASSUME NEW w \in Sessions, ShipperCrashes(w) PROVE Inv'
  BY <1>6, CrashKeeps
<1>7. CASE UNCHANGED siemVars
  BY <1>7, SinkStep DEF siemVars
<1> QED
  BY <1>1, <1>2, <1>3, <1>4, <1>5, <1>6, <1>7 DEF SIEMNext, SIEMSteps

\* The invariant holds in every reachable state.
LEMMA InvHolds == SIEMSpec => []Inv
BY InvInit, InvNext, PTL DEF SIEMSpec

\* RecordSIEMDeliveryAttempt moves the cursor over nothing that has not arrived,
\* and EnqueueSIEMDeliveries cuts no batch past an entry that has not.
THEOREM CursorCovers == SIEMSpec => []CursorCoversArrived
<1>1. Inv => CursorCoversArrived
  BY DEF Inv, LogOK
<1> QED
  BY <1>1, InvHolds, PTL

-----------------------------------------------------------------------------
\* A post that the receiver keeps is a Ship of the log, from no later than the
\* entry after the cursor; any other is a stutter.
LEMMA DeliverShips == ASSUME NEW w \in Sessions PROVE Inv /\ DeliverSIEM(w) => [Log!LogNext]_(Log!logVars)
<1> SUFFICES ASSUME Inv, DeliverSIEM(w) PROVE [Log!LogNext]_(Log!logVars)
  OBVIOUS
<1>1. shipper[w].at = "send" /\ ShipperOK(shipper[w], chained, cursor, batch, arrived)
  BY DEF DeliverSIEM, Inv, ShippersOK
<1>2. PICK d \in DOMAIN batch, k \in Nat : shipper[w] = [at |-> "send", delivery |-> d, claimed |-> k]
  BY <1>1, Stage
<1>3. UNCHANGED <<chained, cursor>> /\ arrived' \in {arrived, arrived \cup BatchEntries(batch[d])}
  BY <1>2 DEF DeliverSIEM
<1>4. batch[d] \in Delivery /\ Cut(batch[d], chained, cursor)
  BY DEF Inv, DeliveriesOK
<1>5. /\ batch[d].to = 0 => BatchEntries(batch[d]) = {}
      /\ batch[d].to # 0 => /\ BatchEntries(batch[d]) = batch[d].from..batch[d].to
                            /\ batch[d].from \in 1..(cursor + 1) /\ batch[d].to \in batch[d].from..chained
  BY <1>4, EntriesOfCut DEF Inv
<1>6. CASE arrived' = arrived
  BY <1>3, <1>6 DEF Log!logVars
<1>7. CASE arrived' # arrived
  <2>1. batch[d].to # 0 /\ arrived' = arrived \cup batch[d].from..batch[d].to
    BY <1>3, <1>5, <1>7
  <2>2. Log!Ship
    BY <1>3, <1>5, <2>1 DEF Log!Ship
  <2> QED
    BY <2>2 DEF Log!LogNext
<1> QED
  BY <1>6, <1>7

\* A recorded success acknowledges entries the receiver has, and never fewer
\* than before.
LEMMA RecordAcknowledges ==
  ASSUME NEW w \in Sessions PROVE Inv /\ RecordSIEMDeliveryAttempt(w) => [Log!LogNext]_(Log!logVars)
<1> SUFFICES ASSUME Inv, RecordSIEMDeliveryAttempt(w) PROVE [Log!LogNext]_(Log!logVars)
  OBVIOUS
<1>1. LogOK'
  BY RecordKeeps DEF Inv
<1>2. UNCHANGED <<chained, arrived>> /\ cursor' = CursorAfter(batch[shipper[w].delivery], shipper[w].ok)
  BY DEF RecordSIEMDeliveryAttempt
<1>3. cursor \in Nat /\ cursor' \in Nat /\ chained \in Nat /\ 1..cursor' \subseteq arrived /\ arrived \subseteq 1..chained
  BY <1>1, <1>2 DEF Inv, LogOK, CursorCoversArrived
<1>4. cursor' <= chained
  BY <1>3
<1>5. shipper[w].at = "record" /\ ShipperOK(shipper[w], chained, cursor, batch, arrived)
  BY DEF RecordSIEMDeliveryAttempt, Inv, ShippersOK
<1>6. PICK d \in DOMAIN batch, k \in Nat, ok \in BOOLEAN :
        shipper[w] = [at |-> "record", delivery |-> d, claimed |-> k, ok |-> ok]
  BY <1>5, Stage
<1>7. batch[d] \in Delivery
  BY DEF Inv, DeliveriesOK
<1>8. batch[d].to \in Nat
  BY <1>7 DEF Delivery
<1>9. cursor <= cursor'
  BY <1>2, <1>3, <1>6, <1>8 DEF CursorAfter
<1>10. Log!Acknowledge
  BY <1>2, <1>3, <1>4, <1>9 DEF Log!Acknowledge
<1> QED
  BY <1>10 DEF Log!LogNext

\* Every step of the stream is a step of the log, or changes nothing of it.
LEMMA StepRefines == Inv /\ [SIEMNext]_siemVars => [Log!LogNext]_(Log!logVars)
<1> SUFFICES ASSUME Inv, [SIEMNext]_siemVars PROVE [Log!LogNext]_(Log!logVars)
  OBVIOUS
<1>1. CASE ChainAppends
  BY <1>1 DEF ChainAppends, Log!Append1, Log!LogNext
<1>2. CASE \/ CreateSIEMSink \/ UpdateSIEMSink \/ WriteSIEMSink \/ DeleteSIEMSink
           \/ TestSIEMSink \/ RetrySIEMDelivery \/ UNCHANGED siemVars
  BY <1>2, Zenon DEF CreateSIEMSink, UpdateSIEMSink, WriteSIEMSink, DeleteSIEMSink, TestSIEMSink,
              RetrySIEMDelivery, siemVars, Log!logVars
<1>3. ASSUME NEW w \in Sessions, RunSIEMDeliveries(w) PROVE [Log!LogNext]_(Log!logVars)
  <2>1. CASE EnqueueSIEMDeliveries(w) \/ BuildSIEMBatch(w) \/ InsertSIEMDelivery(w) \/ ClaimSIEMDeliveries(w)
    BY <2>1 DEF EnqueueSIEMDeliveries, BuildSIEMBatch, InsertSIEMDelivery, ClaimSIEMDeliveries, Log!logVars
  <2>2. CASE DeliverSIEM(w)
    BY <2>2, DeliverShips
  <2>3. CASE RecordSIEMDeliveryAttempt(w)
    BY <2>3, RecordAcknowledges
  <2> QED
    BY <1>3, <2>1, <2>2, <2>3 DEF RunSIEMDeliveries
<1>4. ASSUME NEW w \in Sessions, ShipperCrashes(w) PROVE [Log!LogNext]_(Log!logVars)
  BY <1>4 DEF ShipperCrashes, Log!logVars
<1> QED
  BY <1>1, <1>2, <1>3, <1>4 DEF SIEMNext, SIEMSteps

\* The SIEM stream, with its overlapping batches, retries, late records and
\* crashes, implements the in-order at-least-once log.
THEOREM StreamShipsTheLog == SIEMSpec => ShipsTheLog
<1>1. SIEMInit => Log!LogInit
  BY DEF SIEMInit, Log!LogInit
<1> QED
  BY <1>1, InvHolds, StepRefines, PTL DEF SIEMSpec, ShipsTheLog, Log!LogSpec
=============================================================================
