----------------------------- MODULE AuditChain -----------------------------
(***************************************************************************)
(* The audit hash chain of one tenant: every audited operation appends its *)
(* audit event to the chain, a backfill chains events older than the chain *)
(* feature, retention deletes old events and leaves tombstones, and        *)
(* anchors vouch for verified prefixes.                                    *)
(*                                                                         *)
(* All of these are READ COMMITTED transactions: a statement sees what has *)
(* committed before it, the row of audit_chain_heads is locked FOR UPDATE  *)
(* until the transaction ends, and its writes appear at its commit.        *)
(***************************************************************************)
EXTENDS Integers, Sequences, FiniteSets

CONSTANTS
    Legacy,         \* audit events from before the chain existed
    Operations,     \* events recorded by ordinary audited operations
    Retentions,     \* events recorded by runs of a retention policy
    Anchorings,     \* events recorded by CreateAuditChainAnchor
    Workers,        \* workers that run the backfill
    Nobody,
    BatchLimit,     \* events one backfill chains
    RetentionLimit, \* events one retention run deletes (100)
    MaxRollbacks    \* backfills that may be rolled back

\* Events are ordered by occurred_at; a recorded event names its transaction.
Recorded == Operations \cup Retentions \cup Anchorings
Events == Legacy \cup Recorded
Txs == Recorded \cup Workers

ASSUME AuditChainAssumption ==
    /\ Events \subseteq Nat
    /\ Legacy \cap Recorded = {}
    /\ Retentions \cap (Operations \cup Anchorings) = {}
    /\ Operations \cap Anchorings = {}
    /\ Workers \cap Events = {}
    /\ Nobody \notin Txs
    /\ BatchLimit \in Nat \ {0}
    /\ RetentionLimit \in Nat \ {0}
    /\ MaxRollbacks \in Nat

VARIABLES
    stored,    \* rows of audit_events
    chain,     \* rows of audit_chain_entries
    retained,  \* events whose entry has state 'retained'
    head,      \* the row of audit_chain_heads
    anchors,   \* rows of audit_chain_anchors
    lease,     \* worker_id of the backfill's row of worker_leases
    leaseOver, \* its expires_at <= now()
    holder,    \* the transaction that has locked the head
    phase,     \* how far each transaction is
    copy,      \* the head as its transaction read and advanced it
    draft,     \* the entries it has inserted and not committed
    pending,   \* the events it has yet to chain
    toDelete,  \* the events a retention run has yet to delete
    deleted,   \* those it has deleted and not committed
    marked,    \* those whose entry it found and marked retained
    anchor,    \* what an anchoring has verified
    rollbacks

dbVars == <<stored, chain, retained, head, anchors, lease>>
workVars == <<copy, draft, pending, toDelete, deleted, marked, anchor>>
vars == <<dbVars, leaseOver, holder, phase, workVars, rollbacks>>

Hashes == Seq(Events)
NoHash == <<>>
Entries == [seq : Nat, event : Events, prev : Hashes, hash : Hashes]
Heads == [seq : Nat, hash : Hashes]
NoHead == [seq |-> 0, hash |-> NoHash]
Phases == {"idle", "delete", "verify", "lock", "append", "done", "aborted",
           "refused"}

TypeOK ==
    /\ stored \subseteq Events
    /\ chain \subseteq Entries
    /\ retained \subseteq Events
    /\ head \in Heads
    /\ anchors \subseteq Heads
    /\ lease \in Workers \cup {Nobody}
    /\ leaseOver \in BOOLEAN
    /\ holder \in Txs \cup {Nobody}
    /\ phase \in [Txs -> Phases]
    /\ copy \in [Txs -> Heads]
    /\ draft \in [Txs -> SUBSET Entries]
    /\ pending \in [Txs -> SUBSET Events]
    /\ toDelete \in [Txs -> SUBSET Events]
    /\ deleted \in [Txs -> SUBSET Events]
    /\ marked \in [Txs -> SUBSET Events]
    /\ anchor \in [Txs -> Heads]
    /\ rollbacks \in Nat

Init ==
    /\ stored = Legacy
    /\ chain = {}
    /\ retained = {}
    /\ head = NoHead
    /\ anchors = {}
    /\ lease = Nobody
    /\ leaseOver = FALSE
    /\ holder = Nobody
    /\ phase = [t \in Txs |-> "idle"]
    /\ copy = [t \in Txs |-> NoHead]
    /\ draft = [t \in Txs |-> {}]
    /\ pending = [t \in Txs |-> {}]
    /\ toDelete = [t \in Txs |-> {}]
    /\ deleted = [t \in Txs |-> {}]
    /\ marked = [t \in Txs |-> {}]
    /\ anchor = [t \in Txs |-> NoHead]
    /\ rollbacks = 0

\* The n events of S that occurred first.
Oldest(S, n) == {e \in S : Cardinality({d \in S : d < e}) < n}

ChainedIn(C) == {x.event : x \in C}
Chained == ChainedIn(chain)

\* SHA-256 over the previous chain hash and the event's hash stands for the
\* sequence of the events hashed so far: equal hashes, equal histories.
ChainHash(previous, e) == Append(previous, e)

PreviousHashForSequence(n, previous) == IF n <= 1 THEN NoHash ELSE previous

ComputeEntry(e, n, previous) ==
    LET p == PreviousHashForSequence(n, previous)
    IN  [seq |-> n, event |-> e, prev |-> p, hash |-> ChainHash(p, e)]

----------------------------------------------------------------------------
(* What a transaction does before it locks the head.                       *)

Enter(t, at) == phase' = [phase EXCEPT ![t] = at]

\* An audited operation inserts its audit event, which nobody else sees yet.
RecordAuditEvent(e) ==
    /\ e \in Operations
    /\ phase[e] = "idle"
    /\ Enter(e, "lock")
    /\ UNCHANGED <<dbVars, leaseOver, holder, workVars, rollbacks>>

\* applyAuditEventRetention selects the events before its cutoff ...
SelectExpired(r, cutoff) ==
    LET ids == Oldest({e \in stored : e < cutoff}, RetentionLimit) IN
    /\ r \in Retentions
    /\ phase[r] = "idle"
    /\ toDelete' = [toDelete EXCEPT ![r] = ids]
    /\ Enter(r, IF ids = {} THEN "lock" ELSE "delete")
    /\ UNCHANGED <<dbVars, leaseOver, holder, copy, draft, pending, deleted,
                   marked, anchor, rollbacks>>

\* ... then marks the entry of each, if it sees one, and deletes the event.  Rows
\* another run has deleted and not committed are locked.
Tombstones_Never(x) == {}

Tombstones(x) == {x} \cap Chained

DeleteExpired(r, x) ==
    /\ r \in Retentions
    /\ phase[r] = "delete"
    /\ x \in toDelete[r]
    /\ \A y \in toDelete[r] : x <= y
    /\ \A q \in Retentions : x \notin deleted[q]
    /\ marked' = [marked EXCEPT ![r] = @ \cup Tombstones(x)]
    /\ deleted' = [deleted EXCEPT ![r] = @ \cup {x}]
    /\ toDelete' = [toDelete EXCEPT ![r] = @ \ {x}]
    /\ Enter(r, IF toDelete[r] = {x} THEN "lock" ELSE "delete")
    /\ UNCHANGED <<dbVars, leaseOver, holder, copy, draft, pending, anchor,
                   rollbacks>>

EntryVerifies_NoTombstones(x) ==
    /\ x.event \in stored
    /\ x.hash = ChainHash(x.prev, x.event)

\* VerifyAuditChain's walk over the entries from .. to, joined with the events.
EntryVerifies(x) ==
    /\ IF x.seq = 1 THEN x.prev = NoHash
       ELSE \E y \in chain : y.seq = x.seq - 1 /\ y.hash = x.prev
    /\ x.event \in stored \cup retained
    /\ x.hash = ChainHash(x.prev, x.event)

Verifies(from, to) ==
    \A n \in from..to : \E x \in chain : x.seq = n /\ EntryVerifies(x)

\* CreateAuditChainAnchor reads the head for the range to verify ...
ReadHead(a, to) ==
    /\ a \in Anchorings
    /\ phase[a] = "idle"
    /\ to \in 1..head.seq
    /\ anchor' = [anchor EXCEPT ![a].seq = to]
    /\ Enter(a, "verify")
    /\ UNCHANGED <<dbVars, leaseOver, holder, copy, draft, pending, toDelete,
                   deleted, marked, rollbacks>>

\* ... and then the entries: an invalid range is refused, the hash of a valid one
\* goes into the anchor.
AnchoredHash(x) == x.hash

VerifyAuditChain(a, from) ==
    LET to == anchor[a].seq IN
    /\ phase[a] = "verify"
    /\ from \in 1..to
    /\ \/ /\ Verifies(from, to)
          /\ \E x \in chain :
                /\ x.seq = to
                /\ anchor' = [anchor EXCEPT ![a].hash = AnchoredHash(x)]
          /\ Enter(a, "lock")
       \/ /\ ~Verifies(from, to)
          /\ Enter(a, "refused")
          /\ UNCHANGED anchor
    /\ UNCHANGED <<dbVars, leaseOver, holder, copy, draft, pending, toDelete,
                   deleted, marked, rollbacks>>

\* tryAcquireWorkerLease in the backfill's transaction: the lease row is locked
\* while another backfill is open, and refused while another's lease lasts.  A
\* backfill that finds nothing to chain commits its lease at once.
BackfillOpen(w) == phase[w] \in {"lock", "append"}

LeaseFree_FirstOnly(w) == lease = Nobody

LeaseFree(w) == lease \in {Nobody, w} \/ leaseOver

AcquireLease(w) ==
    /\ w \in Workers
    /\ phase[w] = "idle"
    /\ \A v \in Workers : ~BackfillOpen(v)
    /\ LeaseFree(w)
    /\ \/ /\ stored \ Chained # {}
          /\ Enter(w, "lock")
          /\ UNCHANGED <<lease, leaseOver>>
       \/ /\ stored \ Chained = {}
          /\ lease' = w
          /\ leaseOver' = FALSE
          /\ UNCHANGED phase
    /\ UNCHANGED <<stored, chain, retained, head, anchors, holder, workVars,
                   rollbacks>>

----------------------------------------------------------------------------
(* Appending to the chain.                                                 *)

\* SELECT ... FOR UPDATE waits for the transaction that holds the row.
HeadFree == holder = Nobody

Unchained_AllEvents == stored

Unchained == stored \ Chained

\* ensureAuditChainHead, and the backfill's list of events without an entry.
LockHead(t) ==
    /\ phase[t] = "lock"
    /\ HeadFree
    /\ holder' = t
    /\ copy' = [copy EXCEPT ![t] = head]
    /\ pending' = [pending EXCEPT ![t] =
                      IF t \in Workers THEN Oldest(Unchained, BatchLimit) ELSE {t}]
    /\ Enter(t, "append")
    /\ UNCHANGED <<dbVars, leaseOver, draft, toDelete, deleted, marked, anchor,
                   rollbacks>>

\* The sequence number is unique: an insert waits for an open transaction that
\* uses it, and fails when it has committed.
Taken(C, n) == \E x \in C : x.seq = n

\* insertAuditChainEntry: an event that has its entry is passed over, ON CONFLICT
\* DO NOTHING, and the caller goes on with the hash it computed.
AppendEntry(t, e) ==
    LET x == ComputeEntry(e, copy[t].seq + 1, copy[t].hash) IN
    /\ phase[t] = "append"
    /\ e \in pending[t]
    /\ \A d \in pending[t] : e <= d
    /\ ~Taken(chain, x.seq)
    /\ \A u \in Txs \ {t} : ~Taken(draft[u], x.seq)
    /\ draft' = [draft EXCEPT ![t] = IF e \in Chained THEN @ ELSE @ \cup {x}]
    /\ copy' = [copy EXCEPT ![t] = [seq |-> x.seq, hash |-> x.hash]]
    /\ pending' = [pending EXCEPT ![t] = @ \ {e}]
    /\ UNCHANGED <<dbVars, leaseOver, holder, phase, toDelete, deleted, marked,
                   anchor, rollbacks>>

Released_Leaked(t) == holder

Released(t) == IF holder = t THEN Nobody ELSE holder

Forget(t) ==
    /\ copy' = [copy EXCEPT ![t] = NoHead]
    /\ draft' = [draft EXCEPT ![t] = {}]
    /\ pending' = [pending EXCEPT ![t] = {}]
    /\ toDelete' = [toDelete EXCEPT ![t] = {}]
    /\ deleted' = [deleted EXCEPT ![t] = {}]
    /\ marked' = [marked EXCEPT ![t] = {}]
    /\ anchor' = [anchor EXCEPT ![t] = NoHead]

\* The backfill records no event of its own.
OwnEvent(t) == {t} \cap Recorded

\* UPDATE audit_chain_heads, then everything the transaction wrote appears.
Commit(t) ==
    /\ phase[t] = "append"
    /\ pending[t] = {}
    /\ chain' = chain \cup draft[t]
    /\ head' = copy[t]
    /\ stored' = (stored \ deleted[t]) \cup OwnEvent(t)
    /\ retained' = retained \cup marked[t]
    /\ anchors' = anchors \cup {anchor[a] : a \in {t} \cap Anchorings}
    /\ IF t \in Workers THEN lease' = t /\ leaseOver' = FALSE
       ELSE UNCHANGED <<lease, leaseOver>>
    /\ holder' = Released(t)
    /\ Enter(t, IF t \in Workers THEN "idle" ELSE "done")
    /\ Forget(t)
    /\ UNCHANGED rollbacks

\* A failed statement, a lost connection or a canceled request.
Rollback(t) ==
    /\ phase[t] \in {"delete", "verify", "lock", "append"}
    /\ IF t \in Workers
         THEN /\ rollbacks < MaxRollbacks
              /\ rollbacks' = rollbacks + 1
              /\ Enter(t, "idle")
         ELSE Enter(t, "aborted") /\ UNCHANGED rollbacks
    /\ holder' = Released(t)
    /\ Forget(t)
    /\ UNCHANGED <<dbVars, leaseOver>>

LeaseExpires ==
    /\ lease # Nobody
    /\ ~leaseOver
    /\ leaseOver' = TRUE
    /\ UNCHANGED <<dbVars, holder, phase, workVars, rollbacks>>

----------------------------------------------------------------------------
Begin(t) ==
    \/ RecordAuditEvent(t)
    \/ \E cutoff \in Events : SelectExpired(t, cutoff)
    \/ \E to \in 1..head.seq : ReadHead(t, to)

Proceed(t) ==
    \/ \E x \in toDelete[t] : DeleteExpired(t, x)
    \/ \E from \in 1..anchor[t].seq : VerifyAuditChain(t, from)
    \/ LockHead(t)
    \/ \E e \in pending[t] : AppendEntry(t, e)
    \/ Commit(t)

Next ==
    \/ \E t \in Txs : Begin(t) \/ Proceed(t) \/ Rollback(t)
    \/ \E w \in Workers : AcquireLease(w)
    \/ LeaseExpires

Spec == Init /\ [][Next]_vars

\* Open transactions go on, workers keep trying the backfill, leases run out.
Fairness ==
    /\ \A t \in Txs : WF_vars(Proceed(t))
    /\ \A t \in Txs : SF_vars(LockHead(t))
    /\ \A w \in Workers : WF_vars(AcquireLease(w))
    /\ WF_vars(LeaseExpires)

FairSpec == Spec /\ Fairness

----------------------------------------------------------------------------
(* Safety.                                                                 *)

\* The committed entries are one gapless hash chain that ends in the head: the
\* sequence numbers 1 .. head.sequence are each used once, every entry is hashed
\* over its predecessor's hash, and no event is chained twice, however recording
\* transactions and backfills interleave or are rolled back.
Linked(C, h) ==
    /\ \A x \in C : x.seq \in 1..h.seq
    /\ \A n \in 1..h.seq : \E x \in C : x.seq = n
    /\ \A x, y \in C : x.seq = y.seq \/ x.event = y.event => x = y
    /\ \A x \in C : x.hash = ChainHash(x.prev, x.event)
    /\ \A x \in C : x.seq = 1 => x.prev = NoHash
    /\ \A x, y \in C : y.seq = x.seq + 1 => y.prev = x.hash
    /\ h.seq = 0 => h.hash = NoHash
    /\ \A x \in C : x.seq = h.seq => h.hash = x.hash

ChainLinked == Linked(chain, head)

\* No audited operation fails because of the chain: a transaction that has locked
\* the head never finds its next sequence number taken (which would be a unique
\* violation and roll the whole operation back).
NoSequenceConflict ==
    \A t \in Txs : phase[t] = "append" => ~Taken(chain, copy[t].seq + 1)

\* An event recorded live has its entry as soon as it is visible, and its entry
\* has the event or is a retained tombstone, whatever retention deletes.
LiveEventsEvidenced ==
    /\ \A e \in stored \ Legacy : e \in Chained
    /\ \A e \in Chained \ Legacy : e \in stored \cup retained

\* An anchor's hash is the chain's hash at its sequence for ever: later appends,
\* backfills and retention runs never change what was anchored.
AnchorsHold ==
    \A a \in anchors : \E x \in chain : x.seq = a.seq /\ x.hash = a.hash

\* The chain is one gapless sequence that no operation fails to extend and that
\* keeps whatever was anchored.
ChainSound == ChainLinked /\ NoSequenceConflict /\ AnchorsHold

\* VerifyAuditChain reads the head and the entries in separate statements, while
\* others append and delete; it refuses an untampered chain only for a backfilled
\* entry whose event is gone.
RefusedOnlyForLegacy ==
    [][\A a \in Anchorings : phase'[a] = "refused" /\ phase[a] # "refused" =>
          (Chained \cap Legacy) \ (stored \cup retained) # {}]_vars

----------------------------------------------------------------------------
(* Liveness.                                                               *)

\* Every event without an entry is chained by some backfill or deleted by
\* retention, although each backfill is bounded, leased and may be rolled back.
EveryEventChained ==
    \A e \in Events : e \in stored ~> (e \in Chained \/ e \notin stored)

\* No transaction waits for ever for the head or for another run's rows.
EveryTransactionEnds ==
    \A t \in Txs : phase[t] \in {"delete", "verify", "lock"} ~>
        phase[t] \in {"idle", "done", "aborted", "refused"}

----------------------------------------------------------------------------
(* What the documents say and the code does not do.                        *)

\* Retention marks the chain entry of an event as a retained tombstone before it
\* deletes the event, so no active entry is without its event.
TombstonedBeforeDeleted ==
    \A e \in Chained : e \in stored \cup retained
=============================================================================
