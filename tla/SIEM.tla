--------------------------------- MODULE SIEM ---------------------------------
(***************************************************************************)
(* The stream of the audit chain to a SIEM sink (EnqueueSIEMDeliveries,    *)
(* ClaimSIEMDeliveries and RecordSIEMDeliveryAttempt of                    *)
(* internal/adapters/postgres/store.go, run by internal/worker).  Workers  *)
(* cut batches from the sink's cursor on, post them, and move the cursor   *)
(* when one is accepted.  Nothing stops two workers from cutting           *)
(* overlapping batches, an operator from retrying one that is in flight,   *)
(* or a worker from recording an attempt long after.                       *)
(***************************************************************************)
EXTENDS Signals

CONSTANTS SinkBatch,     \* entries of one batch (the code's 100)
          MaxEntries,     \* bound on the length of the audit chain
          MaxBatches,     \* bound on the deliveries of the sink
          MaxTests        \* bound: a test is sent while the sink has fewer deliveries

ASSUME BatchAssumption == SinkBatch \in Nat \ {0} /\ MaxEntries \in Nat

VARIABLES
  chained,     \* number of entries of the audit chain
  sink,      \* "none" or the state of the sink
  sinktx,    \* "none", or the state an update of the sink is about to write
  cursor,    \* cursor_sequence of the sink
  batch,     \* the sink's deliveries [from, to, state, attempts], in the order inserted
  arrived,   \* chain entries the sink's receiver has
  shipper    \* worker -> what it is in the middle of

siemVars == <<chained, sink, sinktx, cursor, batch, arrived, shipper>>

Stages == {"idle", "build", "insert", "send", "record"}

SIEMTypeOK ==
  /\ chained \in Nat /\ cursor \in Nat /\ {sink, sinktx} \subseteq ActiveOrDisabled \cup {"none"}
  /\ batch \in Seq([from : Nat, to : Nat, state : SignalStates, attempts : Nat])
  /\ arrived \subseteq 1..chained
  /\ \A w \in Sessions : shipper[w].at \in Stages

SIEMInit ==
  /\ chained = 0 /\ sink = "none" /\ sinktx = "none" /\ cursor = 0 /\ batch = <<>> /\ arrived = {}
  /\ shipper = [w \in Sessions |-> Idle]

Ships(w, r) == shipper' = [shipper EXCEPT ![w] = r]

-----------------------------------------------------------------------------
NormalizeCreateSIEMSink(q) == q.name /\ q.type \in {"", "webhook"} /\ q.url # "none" /\ q.secret >= 16

CreateSIEMSinkRequests ==
  {q \in SignalTargetCreates : Allowed("security:write") /\ NormalizeCreateSIEMSink(q) /\ q.url = "allowed"}

NormalizeUpdateSIEMSink(q) ==
  /\ q.name # "" \/ q.url # "" \/ q.secret # 0 \/ q.state # ""
  /\ q.name # "empty" /\ q.secret # 15 /\ q.state # "other"

UpdateSIEMSinkRequests ==
  {q \in SignalTargetUpdates :
     Allowed("security:write") /\ q.reason /\ NormalizeUpdateSIEMSink(q) /\ q.url # "blocked"}

SinkStates == {q.state : q \in UpdateSIEMSinkRequests}

DeleteSIEMSinkRequests == {q \in StateChanges : Allowed("security:write") /\ q.reason}

(* The URL is validated again before a test. *)
TestSIEMSinkRequests ==
  {q \in [reason : BOOLEAN, url : {"blocked", "allowed"}] : Allowed("security:write") /\ q.reason /\ q.url = "allowed"}

RetrySIEMDeliveryRequests == {q \in [reason : BOOLEAN] : Allowed("security:write") /\ q.reason}

CreateSIEMSink ==
  /\ sink = "none" /\ CreateSIEMSinkRequests # {}
  /\ sink' = "active"
  /\ UNCHANGED <<chained, sinktx, cursor, batch, arrived, shipper>>

UpdateSIEMSink_WritesRequest ==
  /\ sinktx = "none" /\ sink # "none"
  /\ \E st \in SinkStates : sinktx' = st
  /\ UNCHANGED <<chained, sink, cursor, batch, arrived, shipper>>

(* The row is read, and written back by a later statement. *)
UpdateSIEMSink ==
  /\ sinktx = "none" /\ sink # "none"
  /\ \E st \in SinkStates : sinktx' = IF st = "" THEN sink ELSE st
  /\ UNCHANGED <<chained, sink, cursor, batch, arrived, shipper>>

WriteSIEMSink ==
  /\ sinktx # "none"
  /\ sink' = sinktx /\ sinktx' = "none"
  /\ UNCHANGED <<chained, cursor, batch, arrived, shipper>>

DeleteSIEMSink ==
  /\ sink # "none" /\ DeleteSIEMSinkRequests # {}
  /\ sink' = "disabled"
  /\ UNCHANGED <<chained, sinktx, cursor, batch, arrived, shipper>>

NewBatch(from, to) == [from |-> from, to |-> to, state |-> "scheduled", attempts |-> 0]

(* A test is a delivery of no entries: from and to are 0. *)
TestSIEMSink ==
  /\ sink = "active" /\ TestSIEMSinkRequests # {} /\ Len(batch) < MaxTests
  /\ batch' = Append(batch, NewBatch(0, 0))
  /\ UNCHANGED <<chained, sink, sinktx, cursor, arrived, shipper>>

RetrySIEMDelivery ==
  /\ RetrySIEMDeliveryRequests # {}
  /\ \E d \in DOMAIN batch : /\ Retriable(batch[d])
                             /\ batch' = [batch EXCEPT ![d] = Retried(@)]
  /\ UNCHANGED <<chained, sink, sinktx, cursor, arrived, shipper>>

(* An audit event is chained (module AuditChain). *)
ChainAppends ==
  /\ chained < MaxEntries /\ chained' = chained + 1
  /\ UNCHANGED <<sink, sinktx, cursor, batch, arrived, shipper>>

-----------------------------------------------------------------------------
(* The cursor of an active sink none of whose deliveries is on its way. *)
EnqueueSIEMDeliveries(w) ==
  /\ shipper[w] = Idle /\ sink = "active"
  /\ \A d \in DOMAIN batch : batch[d].state \notin {"scheduled", "in_progress"}
  /\ Ships(w, [at |-> "build", cursor |-> cursor])
  /\ UNCHANGED <<chained, sink, sinktx, cursor, batch, arrived>>

(* The entries after that cursor, read by a later statement. *)
BuildSIEMBatch(w) ==
  LET after == shipper[w].cursor
      last == IF after + SinkBatch < chained THEN after + SinkBatch ELSE chained
  IN /\ shipper[w].at = "build"
     /\ IF after < chained THEN Ships(w, [at |-> "insert", from |-> after + 1, to |-> last]) ELSE Ships(w, Idle)
     /\ UNCHANGED <<chained, sink, sinktx, cursor, batch, arrived>>

(* A delivery of the same entries is left as it is, whatever its state. *)
InsertSIEMDelivery(w) ==
  LET r == shipper[w]
  IN /\ r.at = "insert"
     /\ IF \E d \in DOMAIN batch : batch[d].from = r.from /\ batch[d].to = r.to THEN UNCHANGED batch
        ELSE Len(batch) < MaxBatches /\ batch' = Append(batch, NewBatch(r.from, r.to))
     /\ Ships(w, Idle)
     /\ UNCHANGED <<chained, sink, sinktx, cursor, arrived>>

(* One delivery of the claim; its attempt_count goes with it. *)
ClaimSIEMDeliveries(w) ==
  /\ shipper[w] = Idle /\ sink = "active"
  /\ \E d \in DOMAIN batch :
       /\ batch[d].state = "scheduled"
       /\ batch' = [batch EXCEPT ![d].state = "in_progress"]
       /\ Ships(w, [at |-> "send", delivery |-> d, claimed |-> batch[d].attempts])
  /\ UNCHANGED <<chained, sink, sinktx, cursor, arrived>>

BatchEntries(d) == {n \in 1..chained : d.from <= n /\ n <= d.to}

DeliverSIEM(w) ==
  LET r == shipper[w]
  IN /\ r.at = "send"
     /\ \E o \in SignalOutcomes :
          /\ arrived' = IF o.kept THEN arrived \cup BatchEntries(batch[r.delivery]) ELSE arrived
          /\ Ships(w, [at |-> "record", delivery |-> r.delivery, claimed |-> r.claimed, ok |-> o.ok])
     /\ UNCHANGED <<chained, sink, sinktx, cursor, batch>>

CursorAfter_Overwrites(d, ok) == IF ok /\ d.to > 0 THEN d.to ELSE cursor

(* GREATEST(cursor_sequence, to_sequence), when the delivery succeeded. *)
CursorAfter(d, ok) == IF ok /\ d.to > cursor THEN d.to ELSE cursor

RecordSIEMDeliveryAttempt(w) ==
  LET r == shipper[w]
  IN /\ r.at = "record"
     /\ batch' = [batch EXCEPT ![r.delivery] = AfterAttempt(@, r.claimed, r.ok)]
     /\ cursor' = CursorAfter(batch[r.delivery], r.ok)
     /\ Ships(w, Idle)
     /\ UNCHANGED <<chained, sink, sinktx, arrived>>

(* What it claimed stays "in_progress". *)
ShipperCrashes(w) ==
  /\ shipper[w] # Idle /\ Ships(w, Idle)
  /\ UNCHANGED <<chained, sink, sinktx, cursor, batch, arrived>>

RunSIEMDeliveries(w) ==
  \/ EnqueueSIEMDeliveries(w) \/ BuildSIEMBatch(w) \/ InsertSIEMDelivery(w)
  \/ ClaimSIEMDeliveries(w) \/ DeliverSIEM(w) \/ RecordSIEMDeliveryAttempt(w)

SIEMSteps ==
  \/ CreateSIEMSink \/ UpdateSIEMSink \/ WriteSIEMSink \/ DeleteSIEMSink
  \/ TestSIEMSink \/ RetrySIEMDelivery \/ ChainAppends
  \/ \E w \in Sessions : RunSIEMDeliveries(w)

SIEMNext == SIEMSteps \/ \E w \in Sessions : ShipperCrashes(w)

SIEMSpec == SIEMInit /\ [][SIEMNext]_siemVars

(* Workers run and do not crash, and a receiver that is tried again and    *)
(* again accepts in the end.                                               *)
SIEMFairSpec ==
  /\ SIEMInit /\ [][SIEMSteps]_siemVars
  /\ \A w \in Sessions : /\ WF_siemVars(RunSIEMDeliveries(w))
                          /\ SF_siemVars(DeliverSIEM(w) /\ shipper'[w].ok)

-----------------------------------------------------------------------------
(* docs/feature-behavior.md: "SIEM cursors advance only after signed HTTPS *)
(* delivery succeeds": every entry up to the cursor has arrived, whatever  *)
(* overlapping batches, retries and late records moved it, and what has    *)
(* arrived is a prefix of the chain: no batch is cut past a missing one.   *)
CursorCoversArrived ==
  1..cursor \subseteq arrived /\ \A n \in arrived : 1..n \subseteq arrived

(* The stream implements the in-order, at-least-once log of LogShipping:   *)
(* the receiver never sees a gap and the cursor never goes back.           *)
Log == INSTANCE LogShipping WITH length <- chained, received <- arrived, acked <- cursor

ShipsTheLog == Log!LogSpec

(* docs/feature-behavior.md: "Failed deliveries retry from PostgreSQL      *)
(* state": while the sink stays active, every entry of the chain arrives.  *)
EveryEntryShipped ==
  \A n \in 1..MaxEntries : (n <= chained /\ <>[](sink = "active")) ~> n \in arrived
=============================================================================
