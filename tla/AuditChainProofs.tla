-------------------------- MODULE AuditChainProofs --------------------------
(***************************************************************************)
(* The safety properties of AuditChain, for any number of transactions.    *)
(***************************************************************************)
EXTENDS AuditChain, TLAPS

\* The holder of the head extends the chain by its draft and has yet to chain
\* only events nobody else chains: a recorded event its own, a backfill old ones.
HeadHeld ==
    \A t \in Txs :
        /\ phase[t] = "append" <=> holder = t
        /\ holder # t => draft[t] = {} /\ pending[t] = {}
        /\ holder = t => Linked(chain \cup draft[t], copy[t])
        /\ pending[t] \cap ChainedIn(chain \cup draft[t]) = {}
        /\ pending[t] \cup ChainedIn(draft[t]) \subseteq
               IF t \in Workers THEN Legacy ELSE {t}

\* A recorded event is chained by its own transaction, which has then committed.
OwnEntry ==
    \A t \in Recorded :
        /\ t \in Chained => phase[t] = "done"
        /\ holder = t => t \in pending[t] \cup ChainedIn(draft[t])

\* Retention marks what it deletes, except for events that were never chained.
MarkedFirst ==
    \A t \in Txs :
        /\ toDelete[t] \cup deleted[t] \subseteq Chained \cup Legacy
        /\ deleted[t] \subseteq marked[t] \cup Legacy

\* What an anchoring has read from the chain stays true.
AnchorReady ==
    \A a \in Anchorings :
        /\ phase[a] = "verify" => anchor[a].seq \in 1..head.seq
        /\ phase[a] \in {"lock", "append"} =>
              \E x \in chain : x.seq = anchor[a].seq /\ x.hash = anchor[a].hash

IInv ==
    /\ TypeOK
    /\ ChainLinked
    /\ HeadHeld
    /\ OwnEntry
    /\ MarkedFirst
    /\ LiveEventsEvidenced
    /\ AnchorReady
    /\ AnchorsHold

----------------------------------------------------------------------------
(* Types.                                                                  *)

\* An entry computed for an event and a head is an entry.
LEMMA ComputeEntryType ==
    ASSUME NEW e \in Events, NEW n \in Nat, NEW p \in Hashes
    PROVE  /\ ComputeEntry(e, n, p) \in Entries
           /\ ComputeEntry(e, n, p).seq = n
           /\ ComputeEntry(e, n, p).event = e
           /\ ComputeEntry(e, n, p).prev = IF n <= 1 THEN NoHash ELSE p
           /\ ComputeEntry(e, n, p).hash =
                  ChainHash(ComputeEntry(e, n, p).prev, e)
  BY DEF ComputeEntry, PreviousHashForSequence, ChainHash, Entries, Hashes, NoHash

\* The initial state is well typed.
LEMMA InitTypeOK == Init => TypeOK
  <1>1. NoHead \in Heads
    BY DEF NoHead, NoHash, Heads, Hashes
  <1>2. Legacy \subseteq Events
    BY DEF Events
  <1> SUFFICES ASSUME Init PROVE TypeOK
    OBVIOUS
  <1>3. phase \in [Txs -> Phases]
    BY DEF Init, Phases
  <1>4. copy \in [Txs -> Heads] /\ anchor \in [Txs -> Heads] /\ head \in Heads
    BY <1>1 DEF Init
  <1>5. draft \in [Txs -> SUBSET Entries]
    BY DEF Init
  <1>6. /\ pending \in [Txs -> SUBSET Events]
        /\ toDelete \in [Txs -> SUBSET Events]
        /\ deleted \in [Txs -> SUBSET Events]
        /\ marked \in [Txs -> SUBSET Events]
    BY DEF Init
  <1>7. /\ stored \subseteq Events /\ chain \subseteq Entries
        /\ retained \subseteq Events /\ anchors \subseteq Heads
        /\ lease \in Workers \cup {Nobody} /\ holder \in Txs \cup {Nobody}
        /\ leaseOver \in BOOLEAN /\ rollbacks \in Nat
    BY <1>2, Zenon DEF Init
  <1> QED
    BY <1>3, <1>4, <1>5, <1>6, <1>7 DEF TypeOK

\* What a transaction forgets is well typed.
LEMMA ForgetType ==
    ASSUME TypeOK, NEW t \in Txs, Forget(t)
    PROVE  /\ copy' \in [Txs -> Heads]
           /\ draft' \in [Txs -> SUBSET Entries]
           /\ pending' \in [Txs -> SUBSET Events]
           /\ toDelete' \in [Txs -> SUBSET Events]
           /\ deleted' \in [Txs -> SUBSET Events]
           /\ marked' \in [Txs -> SUBSET Events]
           /\ anchor' \in [Txs -> Heads]
  <1>1. NoHead \in Heads
    BY DEF NoHead, NoHash, Heads, Hashes
  <1> QED
    BY <1>1 DEF Forget, TypeOK

\* Every step preserves the types.
LEMMA NextTypeOK == TypeOK /\ [Next]_vars => TypeOK'
  <1> SUFFICES ASSUME TypeOK, [Next]_vars PROVE TypeOK'
    OBVIOUS
  <1> USE AuditChainAssumption
  <1>a. /\ Recorded \subseteq Txs /\ Workers \subseteq Txs
        /\ Operations \subseteq Recorded /\ Retentions \subseteq Recorded
        /\ Anchorings \subseteq Recorded /\ Recorded \subseteq Events
    BY DEF Txs, Recorded, Events
  <1>1. ASSUME NEW t \in Txs, RecordAuditEvent(t) PROVE TypeOK'
    BY <1>1 DEF RecordAuditEvent, Enter, TypeOK, Phases, dbVars, workVars
  <1>2. ASSUME NEW t \in Txs, NEW cutoff \in Events, SelectExpired(t, cutoff)
        PROVE  TypeOK'
    <2>1. Oldest({e \in stored : e < cutoff}, RetentionLimit) \subseteq Events
      BY Zenon DEF Oldest, TypeOK
    <2> HIDE DEF Oldest
    <2> QED
      BY <1>2, <2>1 DEF SelectExpired, Enter, TypeOK, Phases, dbVars
  <1>3. ASSUME NEW t \in Txs, NEW to \in 1..head.seq, ReadHead(t, to)
        PROVE  TypeOK'
    <2>1. to \in Nat
      BY DEF TypeOK, Heads
    <2>2. anchor' = [anchor EXCEPT ![t] = [anchor[t] EXCEPT !.seq = to]]
      BY <1>3 DEF ReadHead
    <2>3. [anchor[t] EXCEPT !.seq = to] \in Heads
      BY <2>1 DEF TypeOK, Heads
    <2>4. anchor' \in [Txs -> Heads]
      BY <2>2, <2>3 DEF TypeOK
    <2> QED
      BY <1>3, <2>4 DEF ReadHead, Enter, TypeOK, Phases, dbVars
  <1>4. ASSUME NEW t \in Txs, NEW x \in toDelete[t], DeleteExpired(t, x)
        PROVE  TypeOK'
    <2>1. x \in Events /\ Tombstones(x) \subseteq Events
      BY DEF TypeOK, Tombstones
    <2> QED
      BY <1>4, <2>1 DEF DeleteExpired, Enter, TypeOK, Phases, dbVars
  <1>5. ASSUME NEW t \in Txs, NEW from \in 1..anchor[t].seq,
               VerifyAuditChain(t, from)
        PROVE  TypeOK'
    <2>1. anchor' \in [Txs -> Heads]
      <3>1. CASE UNCHANGED anchor
        BY <3>1 DEF TypeOK
      <3>2. CASE \E x \in chain :
                    anchor' = [anchor EXCEPT ![t].hash = AnchoredHash(x)]
        <4>1. PICK x \in chain :
                 anchor' = [anchor EXCEPT ![t] = [anchor[t] EXCEPT !.hash = x.hash]]
          BY <3>2, Zenon DEF AnchoredHash
        <4>2. [anchor[t] EXCEPT !.hash = x.hash] \in Heads
          BY DEF TypeOK, Heads, Entries
        <4> QED
          BY <4>1, <4>2 DEF TypeOK
      <3> QED
        BY <1>5, <3>1, <3>2 DEF VerifyAuditChain
    <2>2. phase' \in [Txs -> Phases]
      BY <1>5 DEF VerifyAuditChain, Enter, TypeOK, Phases
    <2> QED
      BY <1>5, <2>1, <2>2 DEF VerifyAuditChain, TypeOK, dbVars
  <1>6. ASSUME NEW t \in Txs, LockHead(t) PROVE TypeOK'
    <2>1. Oldest(Unchained, BatchLimit) \subseteq Events
      BY Zenon DEF Oldest, Unchained, TypeOK
    <2>2. t \notin Workers => t \in Events
      BY <1>a DEF Txs
    <2> QED
      BY <1>6, <2>1, <2>2 DEF LockHead, Enter, TypeOK, Phases, dbVars
  <1>7. ASSUME NEW t \in Txs, NEW e \in pending[t], AppendEntry(t, e)
        PROVE  TypeOK'
    <2> DEFINE x == ComputeEntry(e, copy[t].seq + 1, copy[t].hash)
    <2>1. /\ e \in Events /\ copy[t].seq + 1 \in Nat /\ copy[t].hash \in Hashes
      BY DEF TypeOK, Heads
    <2>2. x \in Entries
      BY <2>1, ComputeEntryType
    <2>3. [seq |-> x.seq, hash |-> x.hash] \in Heads
      BY <2>2 DEF Heads, Entries
    <2>4. /\ draft' = [draft EXCEPT ![t] =
                          IF e \in Chained THEN draft[t] ELSE draft[t] \cup {x}]
          /\ copy' = [copy EXCEPT ![t] = [seq |-> x.seq, hash |-> x.hash]]
          /\ pending' = [pending EXCEPT ![t] = @ \ {e}]
      BY <1>7 DEF AppendEntry
    <2> HIDE DEF x
    <2>5. /\ draft' \in [Txs -> SUBSET Entries]
          /\ copy' \in [Txs -> Heads]
          /\ pending' \in [Txs -> SUBSET Events]
      BY <2>2, <2>3, <2>4 DEF TypeOK
    <2> QED
      BY <1>7, <2>5 DEF AppendEntry, TypeOK, dbVars
  <1>8. ASSUME NEW t \in Txs, Commit(t) PROVE TypeOK'
    <2>1. /\ stored' \subseteq Events
          /\ chain' \subseteq Entries
          /\ retained' \subseteq Events
          /\ head' \in Heads
      BY <1>8, <1>a DEF Commit, OwnEvent, TypeOK
    <2>2. anchors' \subseteq Heads
      BY <1>8, <1>a DEF Commit, TypeOK
    <2>3. lease' \in Workers \cup {Nobody} /\ leaseOver' \in BOOLEAN
      BY <1>8, Zenon DEF Commit, TypeOK
    <2>4. holder' \in Txs \cup {Nobody} /\ phase' \in [Txs -> Phases]
      BY <1>8 DEF Commit, Released, Enter, TypeOK, Phases
    <2>5. rollbacks' \in Nat /\ Forget(t)
      BY <1>8 DEF Commit, TypeOK
    <2> QED
      BY <2>1, <2>2, <2>3, <2>4, <2>5, ForgetType DEF TypeOK
  <1>9. ASSUME NEW t \in Txs, Rollback(t) PROVE TypeOK'
    <2>1. holder' \in Txs \cup {Nobody} /\ phase' \in [Txs -> Phases]
      BY <1>9 DEF Rollback, Released, Enter, TypeOK, Phases
    <2>2. rollbacks' \in Nat /\ Forget(t) /\ UNCHANGED <<dbVars, leaseOver>>
      BY <1>9 DEF Rollback, TypeOK
    <2> QED
      BY <2>1, <2>2, ForgetType DEF TypeOK, dbVars
  <1>10. ASSUME NEW w \in Workers, AcquireLease(w) PROVE TypeOK'
    BY <1>10, <1>a, Zenon DEF AcquireLease, Enter, TypeOK, Phases, dbVars, workVars
  <1>11. CASE LeaseExpires
    BY <1>11 DEF LeaseExpires, TypeOK, dbVars, workVars
  <1>12. CASE UNCHANGED vars
    BY <1>12 DEF vars, dbVars, workVars, TypeOK
  <1> QED
    BY <1>1, <1>2, <1>3, <1>4, <1>5, <1>6, <1>7, <1>8, <1>9, <1>10, <1>11, <1>12
    DEF Next, Begin, Proceed

----------------------------------------------------------------------------
(* The chain.                                                              *)

\* Nothing has been chained, read or deleted in the initial state.
LEMMA InitIInv == Init => IInv
  <1> SUFFICES ASSUME Init PROVE IInv
    OBVIOUS
  <1>1. TypeOK
    BY InitTypeOK
  <1>2. Chained = {} /\ chain = {} /\ head.seq = 0 /\ head.hash = NoHash
    BY DEF Init, Chained, ChainedIn, NoHead
  <1>3. ChainLinked
    BY <1>2 DEF ChainLinked, Linked
  <1>4. HeadHeld
    BY AuditChainAssumption DEF Init, HeadHeld, ChainedIn
  <1>5. OwnEntry
    BY <1>2, AuditChainAssumption DEF Init, OwnEntry, Txs
  <1>6. MarkedFirst /\ LiveEventsEvidenced /\ AnchorsHold
    BY <1>2 DEF Init, MarkedFirst, LiveEventsEvidenced, AnchorsHold
  <1>7. AnchorReady
    BY DEF Init, AnchorReady, Txs, Recorded
  <1> QED
    BY <1>1, <1>3, <1>4, <1>5, <1>6, <1>7 DEF IInv

\* The entry computed from the head of a chain, for an event that is not in it,
\* extends the chain.
LEMMA LinkedExtends ==
    ASSUME NEW C \in SUBSET Entries, NEW h \in Heads, Linked(C, h),
           NEW e \in Events, e \notin ChainedIn(C),
           NEW x, x = ComputeEntry(e, h.seq + 1, h.hash)
    PROVE  Linked(C \cup {x}, [seq |-> x.seq, hash |-> x.hash])
  <1>1. /\ x \in Entries
        /\ x.seq = h.seq + 1
        /\ x.event = e
        /\ x.prev = IF h.seq + 1 <= 1 THEN NoHash ELSE h.hash
        /\ x.hash = ChainHash(x.prev, e)
    BY ComputeEntryType DEF Heads
  <1>2. h.seq \in Nat /\ \A y \in C : y.seq \in Nat /\ y.event # e
    BY DEF Heads, Entries, ChainedIn
  <1> DEFINE D == C \cup {x}
             g == [seq |-> x.seq, hash |-> x.hash]
  <1>3. \A y \in D : y.seq \in 1..g.seq
    BY <1>1, <1>2 DEF Linked
  <1>4. \A n \in 1..g.seq : \E y \in D : y.seq = n
    <2> SUFFICES ASSUME NEW n \in 1..g.seq PROVE \E y \in D : y.seq = n
      OBVIOUS
    <2>1. CASE n = x.seq
      BY <2>1
    <2>2. CASE n # x.seq
      BY <1>1, <1>2, <2>2 DEF Linked
    <2> QED
      BY <2>1, <2>2
  <1>5. \A y, z \in D : y.seq = z.seq \/ y.event = z.event => y = z
    BY <1>1, <1>2 DEF Linked
  <1>6. \A y \in D : y.hash = ChainHash(y.prev, y.event)
    BY <1>1 DEF Linked
  <1>7. \A y \in D : y.seq = 1 => y.prev = NoHash
    BY <1>1, <1>2 DEF Linked
  <1>8. \A y, z \in D : z.seq = y.seq + 1 => z.prev = y.hash
    BY <1>1, <1>2 DEF Linked
  <1>9. \A y \in D : y.seq = g.seq => g.hash = y.hash
    BY <1>1, <1>2 DEF Linked
  <1>10. g.seq # 0
    BY <1>1, <1>2
  <1> QED
    BY <1>3, <1>4, <1>5, <1>6, <1>7, <1>8, <1>9, <1>10 DEF Linked

\* The chain only grows.
LEMMA ChainGrows == ASSUME TypeOK, [Next]_vars
                    PROVE  /\ chain \subseteq chain'
                           /\ Chained \subseteq Chained'
  <1>1. chain' = chain \/ \E t \in Txs : chain' = chain \cup draft[t]
    <2>1. ASSUME NEW w \in Workers, AcquireLease(w) PROVE chain' = chain
      BY <2>1 DEF AcquireLease
    <2>2. ASSUME NEW t \in Txs, Begin(t) \/ Rollback(t) PROVE chain' = chain
      BY <2>2, Zenon DEF Begin, RecordAuditEvent, SelectExpired, ReadHead, Rollback, dbVars
    <2>3. ASSUME NEW t \in Txs, Proceed(t)
          PROVE  chain' = chain \/ chain' = chain \cup draft[t]
      BY <2>3 DEF Proceed, DeleteExpired, VerifyAuditChain, LockHead, AppendEntry,
                  Commit, dbVars
    <2>4. LeaseExpires \/ UNCHANGED vars => chain' = chain
      BY DEF LeaseExpires, vars, dbVars
    <2> QED
      BY <2>1, <2>2, <2>3, <2>4 DEF Next
  <1> QED
    BY <1>1 DEF Chained, ChainedIn

\* A step that neither commits nor touches the head's holder.
HeadFrame ==
    /\ UNCHANGED <<stored, chain, retained, head, anchors, holder, copy, draft,
                   pending>>
    /\ \A t \in Txs : phase'[t] = "append" <=> phase[t] = "append"

\* The steps of a transaction that does not hold the head, and time's.
LEMMA OutsideHead ==
    ASSUME IInv,
           \/ \E t \in Txs :
                 \/ Begin(t)
                 \/ \E x \in toDelete[t] : DeleteExpired(t, x)
                 \/ \E from \in 1..anchor[t].seq : VerifyAuditChain(t, from)
           \/ \E w \in Workers : AcquireLease(w)
           \/ LeaseExpires
           \/ UNCHANGED vars
    PROVE  /\ HeadFrame
           /\ \A t \in Txs : phase[t] = "done" => phase'[t] = "done"
  <1>1. Workers \subseteq Txs
    BY DEF Txs
  <1> DEFINE Goal == /\ HeadFrame
                     /\ \A t \in Txs : phase[t] = "done" => phase'[t] = "done"
  <1>2. ASSUME NEW w \in Workers, AcquireLease(w) PROVE Goal
    <2>1. UNCHANGED <<stored, chain, retained, head, anchors, holder, copy, draft,
                      pending>>
      BY <1>2 DEF AcquireLease, workVars
    <2>2. /\ phase[w] = "idle"
          /\ phase' = phase \/ phase' = [phase EXCEPT ![w] = "lock"]
      BY <1>2 DEF AcquireLease, Enter
    <2> QED
      BY <1>1, <2>1, <2>2 DEF IInv, TypeOK, HeadFrame
  <1>3. ASSUME NEW t \in Txs, \/ Begin(t)
                              \/ \E x \in toDelete[t] : DeleteExpired(t, x)
                              \/ \E from \in 1..anchor[t].seq :
                                     VerifyAuditChain(t, from)
        PROVE  Goal
    BY <1>3, Zenon DEF IInv, TypeOK, HeadFrame, Begin, RecordAuditEvent, SelectExpired,
                ReadHead, DeleteExpired, VerifyAuditChain, Enter, dbVars, workVars
  <1>4. LeaseExpires \/ UNCHANGED vars => Goal
    BY DEF HeadFrame, LeaseExpires, vars, dbVars, workVars
  <1> QED
    BY <1>2, <1>3, <1>4

\* Such steps keep what the holder relies on.
LEMMA FrameKeepsChain ==
    ASSUME IInv, HeadFrame,
           \A t \in Txs : phase[t] = "done" => phase'[t] = "done"
    PROVE  /\ ChainLinked' /\ HeadHeld' /\ OwnEntry'
           /\ LiveEventsEvidenced' /\ AnchorsHold'
  <1>1. ChainLinked' /\ LiveEventsEvidenced' /\ AnchorsHold'
    BY DEF IInv, HeadFrame, ChainLinked, LiveEventsEvidenced, AnchorsHold, Chained
  <1>2. HeadHeld'
    BY Zenon DEF IInv, HeadFrame, HeadHeld
  <1>3. OwnEntry'
    BY DEF IInv, HeadFrame, OwnEntry, Chained, Txs
  <1> QED
    BY <1>1, <1>2, <1>3

\* A transaction that locks the head reads it, and lists events nobody chains.
LEMMA LockKeepsChain ==
    ASSUME IInv, NEW t \in Txs, LockHead(t)
    PROVE  /\ ChainLinked' /\ HeadHeld' /\ OwnEntry'
           /\ LiveEventsEvidenced' /\ AnchorsHold'
  <1> USE DEF IInv
  <1>1. UNCHANGED <<stored, chain, retained, head, anchors, draft>>
    BY DEF LockHead, dbVars
  <1>2. ChainLinked' /\ LiveEventsEvidenced' /\ AnchorsHold'
    BY <1>1 DEF ChainLinked, LiveEventsEvidenced, AnchorsHold, Chained
  <1>3. /\ holder = Nobody /\ holder' = t
        /\ copy' = [copy EXCEPT ![t] = head]
        /\ phase[t] = "lock"
        /\ phase' = [phase EXCEPT ![t] = "append"]
    BY DEF LockHead, HeadFree, Enter
  <1>4. \A u \in Txs : holder # u /\ draft[u] = {}
    BY <1>3, AuditChainAssumption, Zenon DEF HeadHeld
  <1> DEFINE P == IF t \in Workers THEN Oldest(Unchained, BatchLimit) ELSE {t}
  <1>5. pending' = [pending EXCEPT ![t] = P]
    BY DEF LockHead
  <1>6. P \cap Chained = {} /\ P \subseteq IF t \in Workers THEN Legacy ELSE {t}
    <2>1. CASE t \in Workers
      <3>1. P \subseteq Unchained
        BY <2>1 DEF Oldest
      <3> QED
        BY <2>1, <3>1 DEF Unchained, LiveEventsEvidenced
    <2>2. CASE t \notin Workers
      BY <1>3, <2>2 DEF OwnEntry, Txs
    <2> QED
      BY <2>1, <2>2
  <1>7. chain \cup draft[t] = chain /\ ChainedIn({}) = {}
    BY <1>4 DEF ChainedIn
  <1> HIDE DEF P
  <1>8. HeadHeld'
    <2> SUFFICES ASSUME NEW u \in Txs
                 PROVE  /\ phase'[u] = "append" <=> holder' = u
                        /\ holder' # u => draft'[u] = {} /\ pending'[u] = {}
                        /\ holder' = u => Linked(chain' \cup draft'[u], copy'[u])
                        /\ pending'[u] \cap ChainedIn(chain' \cup draft'[u]) = {}
                        /\ pending'[u] \cup ChainedIn(draft'[u]) \subseteq
                               IF u \in Workers THEN Legacy ELSE {u}
      BY DEF HeadHeld
    <2>1. CASE u = t
      <3>1. pending'[t] = P /\ copy'[t] = head /\ phase'[t] = "append"
        BY <1>3, <1>5 DEF TypeOK
      <3> QED
        BY <1>1, <1>3, <1>4, <1>6, <1>7, <2>1, <3>1 DEF ChainLinked, Chained
    <2>2. CASE u # t
      <3>1. pending'[u] = pending[u] /\ phase'[u] = phase[u]
        BY <1>3, <1>5, <2>2 DEF TypeOK
      <3> QED
        BY <1>1, <1>3, <1>4, <1>7, <2>2, <3>1, Zenon DEF HeadHeld
    <2> QED
      BY <2>1, <2>2
  <1>9. OwnEntry'
    <2> SUFFICES ASSUME NEW u \in Recorded
                 PROVE  /\ u \in Chained' => phase'[u] = "done"
                        /\ holder' = u => u \in pending'[u] \cup ChainedIn(draft'[u])
      BY DEF OwnEntry
    <2>1. u \in Txs /\ (u = t => t \notin Workers)
      BY AuditChainAssumption DEF Txs, Events
    <2>2. Chained' = Chained
      BY <1>1 DEF Chained
    <2>3. CASE u = t
      <3>1. pending'[t] = {t}
        BY <1>5, <2>1, <2>3 DEF TypeOK, P
      <3> QED
        BY <1>3, <2>2, <2>3, <3>1 DEF OwnEntry
    <2>4. CASE u # t
      BY <1>3, <2>1, <2>2, <2>4 DEF OwnEntry, TypeOK
    <2> QED
      BY <2>3, <2>4
  <1> QED
    BY <1>2, <1>8, <1>9

\* An appended entry extends the holder's draft.
LEMMA AppendKeepsChain ==
    ASSUME IInv, NEW t \in Txs, NEW e \in pending[t], AppendEntry(t, e)
    PROVE  /\ ChainLinked' /\ HeadHeld' /\ OwnEntry'
           /\ LiveEventsEvidenced' /\ AnchorsHold'
  <1> USE DEF IInv
  <1> DEFINE x == ComputeEntry(e, copy[t].seq + 1, copy[t].hash)
             C == chain \cup draft[t]
  <1>1. UNCHANGED <<stored, chain, retained, head, anchors, holder, phase>>
    BY DEF AppendEntry, dbVars
  <1>2. ChainLinked' /\ LiveEventsEvidenced' /\ AnchorsHold'
    BY <1>1 DEF ChainLinked, LiveEventsEvidenced, AnchorsHold, Chained
  <1>3. holder = t /\ e \notin ChainedIn(C) /\ Linked(C, copy[t])
    BY Zenon DEF AppendEntry, HeadHeld
  <1>4. /\ e \in Events /\ copy[t] \in Heads /\ C \subseteq Entries
        /\ copy[t].seq + 1 \in Nat /\ copy[t].hash \in Hashes
    BY DEF TypeOK, Heads
  <1>5. e \notin Chained
    BY <1>3 DEF Chained, ChainedIn
  <1>6. /\ draft' = [draft EXCEPT ![t] = draft[t] \cup {x}]
        /\ copy' = [copy EXCEPT ![t] = [seq |-> x.seq, hash |-> x.hash]]
        /\ pending' = [pending EXCEPT ![t] = pending[t] \ {e}]
    BY <1>5 DEF AppendEntry
  <1>7. x.event = e
    BY <1>4, ComputeEntryType
  <1>8. Linked(C \cup {x}, [seq |-> x.seq, hash |-> x.hash])
    BY <1>3, <1>4, LinkedExtends
  <1> HIDE DEF x
  <1>9. /\ draft'[t] = draft[t] \cup {x}
        /\ copy'[t] = [seq |-> x.seq, hash |-> x.hash]
        /\ pending'[t] = pending[t] \ {e}
        /\ \A u \in Txs \ {t} : /\ draft'[u] = draft[u]
                                /\ copy'[u] = copy[u]
                                /\ pending'[u] = pending[u]
    BY <1>6 DEF TypeOK
  <1>10. /\ ChainedIn(draft'[t]) = ChainedIn(draft[t]) \cup {e}
         /\ ChainedIn(chain' \cup draft'[t]) = ChainedIn(C) \cup {e}
         /\ chain' \cup draft'[t] = C \cup {x}
    <2>1. chain' \cup draft'[t] = C \cup {x}
      BY <1>1, <1>9
    <2>2. ChainedIn(draft[t] \cup {x}) = ChainedIn(draft[t]) \cup {e}
      BY <1>7 DEF ChainedIn
    <2>3. ChainedIn(C \cup {x}) = ChainedIn(C) \cup {e}
      BY <1>7 DEF ChainedIn
    <2> QED
      BY <1>9, <2>1, <2>2, <2>3, Zenon
  <1>11. HeadHeld'
    <2> SUFFICES ASSUME NEW u \in Txs
                 PROVE  /\ phase'[u] = "append" <=> holder' = u
                        /\ holder' # u => draft'[u] = {} /\ pending'[u] = {}
                        /\ holder' = u => Linked(chain' \cup draft'[u], copy'[u])
                        /\ pending'[u] \cap ChainedIn(chain' \cup draft'[u]) = {}
                        /\ pending'[u] \cup ChainedIn(draft'[u]) \subseteq
                               IF u \in Workers THEN Legacy ELSE {u}
      BY DEF HeadHeld
    <2>1. CASE u = t
      <3>1. Linked(chain' \cup draft'[t], copy'[t])
        BY <1>8, <1>9, <1>10, Zenon
      <3>2. pending'[t] \cap ChainedIn(chain' \cup draft'[t]) = {}
        BY <1>9, <1>10, Zenon DEF HeadHeld
      <3>3. pending'[t] \cup ChainedIn(draft'[t]) \subseteq
                IF t \in Workers THEN Legacy ELSE {t}
        <4>1. pending'[t] \cup ChainedIn(draft'[t]) \subseteq
                  pending[t] \cup ChainedIn(draft[t])
          BY <1>9, <1>10, Zenon
        <4> QED
          BY <4>1, Zenon DEF HeadHeld
      <3> QED
        BY <1>1, <1>3, <2>1, <3>1, <3>2, <3>3, Zenon DEF HeadHeld
    <2>2. CASE u # t
      BY <1>1, <1>3, <1>9, <2>2, Zenon DEF HeadHeld
    <2> QED
      BY <2>1, <2>2
  <1>12. OwnEntry'
    <2>1. Chained' = Chained
      BY <1>1 DEF Chained
    <2>2. t \in Recorded => t \in pending'[t] \cup ChainedIn(draft'[t])
      BY <1>3, <1>9, <1>10, Zenon DEF OwnEntry
    <2> QED
      BY <1>1, <1>3, <2>1, <2>2 DEF OwnEntry
  <1> QED
    BY <1>2, <1>11, <1>12

\* What is left of a transaction that ended.
LEMMA ForgetClears ==
    ASSUME TypeOK, NEW t \in Txs, Forget(t)
    PROVE  /\ draft'[t] = {} /\ pending'[t] = {} /\ toDelete'[t] = {}
           /\ deleted'[t] = {} /\ marked'[t] = {}
           /\ \A u \in Txs \ {t} :
                 /\ draft'[u] = draft[u] /\ pending'[u] = pending[u]
                 /\ toDelete'[u] = toDelete[u] /\ deleted'[u] = deleted[u]
                 /\ marked'[u] = marked[u] /\ anchor'[u] = anchor[u]
                 /\ copy'[u] = copy[u]
  BY DEF Forget, TypeOK

\* A commit makes the holder's draft the chain.
LEMMA CommitKeepsChain ==
    ASSUME IInv, NEW t \in Txs, Commit(t)
    PROVE  /\ ChainLinked' /\ HeadHeld' /\ OwnEntry'
           /\ LiveEventsEvidenced' /\ AnchorsHold'
  <1> USE DEF IInv
  <1>1. /\ chain' = chain \cup draft[t] /\ head' = copy[t]
        /\ stored' = (stored \ deleted[t]) \cup OwnEvent(t)
        /\ retained' = retained \cup marked[t]
        /\ anchors' = anchors \cup {anchor[a] : a \in {t} \cap Anchorings}
        /\ phase[t] = "append" /\ pending[t] = {} /\ Forget(t)
        /\ holder' = Released(t)
        /\ phase' = [phase EXCEPT ![t] = IF t \in Workers THEN "idle" ELSE "done"]
    BY Zenon DEF Commit, Enter
  <1>2. holder = t /\ holder' = Nobody
    BY <1>1, Zenon DEF HeadHeld, Released
  <1>3. Chained' = Chained \cup ChainedIn(draft[t])
    BY <1>1 DEF Chained, ChainedIn
  <1>4. \A u \in Txs : u # t => draft[u] = {} /\ pending[u] = {}
    BY <1>2, Zenon DEF HeadHeld
  <1>5. ChainLinked'
    BY <1>1, <1>2, Zenon DEF HeadHeld, ChainLinked
  <1>6. HeadHeld'
    <2>1. \A u \in Txs : draft'[u] = {} /\ pending'[u] = {}
      BY <1>1, <1>4, ForgetClears
    <2>2. \A u \in Txs : holder' # u
      BY <1>2, AuditChainAssumption
    <2>3. \A u \in Txs : phase'[u] # "append"
      BY <1>1, <1>2, Zenon DEF HeadHeld, TypeOK
    <2>4. ChainedIn({}) = {}
      BY DEF ChainedIn
    <2> QED
      BY <2>1, <2>2, <2>3, <2>4, Zenon DEF HeadHeld
  <1>7. t \in Recorded => t \notin Workers /\ t \in ChainedIn(draft[t])
    BY <1>1, <1>2, AuditChainAssumption DEF OwnEntry, Events
  <1>8. ChainedIn(draft[t]) \subseteq IF t \in Workers THEN Legacy ELSE {t}
    BY Zenon DEF HeadHeld
  <1>9. OwnEntry'
    <2> SUFFICES ASSUME NEW u \in Recorded
                 PROVE  /\ u \in Chained' => phase'[u] = "done"
                        /\ holder' # u
      BY DEF OwnEntry
    <2>1. u \in Txs /\ holder' # u
      BY <1>2, AuditChainAssumption DEF Txs
    <2>2. u \notin Legacy
      BY AuditChainAssumption
    <2>3. u = t => phase'[u] = "done"
      BY <1>1, <1>7, <2>1 DEF TypeOK
    <2>4. u # t => phase'[u] = phase[u]
      BY <1>1, <2>1 DEF TypeOK
    <2> QED
      BY <1>3, <1>8, <2>1, <2>2, <2>3, <2>4 DEF OwnEntry
  <1>10. OwnEvent(t) = IF t \in Recorded THEN {t} ELSE {}
    BY DEF OwnEvent
  <1>11. LiveEventsEvidenced'
    <2>1. \A e \in stored' \ Legacy : e \in Chained'
      BY <1>1, <1>3, <1>7, <1>10, Zenon DEF LiveEventsEvidenced
    <2>2. ASSUME NEW e \in Chained' \ Legacy PROVE e \in stored' \cup retained'
      <3>1. CASE e \in ChainedIn(draft[t])
        <4>1. e = t /\ t \notin Workers
          BY <1>8, <2>2, <3>1
        <4> QED
          BY <1>1, <1>10, <4>1 DEF Txs
      <3>2. CASE e \in Chained
        BY <1>1, <2>2, <3>2 DEF LiveEventsEvidenced, MarkedFirst
      <3> QED
        BY <1>3, <2>2, <3>1, <3>2
    <2> QED
      BY <2>1, <2>2 DEF LiveEventsEvidenced
  <1>12. AnchorsHold'
    <2> SUFFICES ASSUME NEW a \in anchors'
                 PROVE  \E x \in chain : x.seq = a.seq /\ x.hash = a.hash
      BY <1>1 DEF AnchorsHold
    <2>1. CASE a \in anchors
      BY <2>1 DEF AnchorsHold
    <2>2. CASE t \in Anchorings /\ a = anchor[t]
      BY <1>1, <2>2 DEF AnchorReady
    <2> QED
      BY <1>1, <2>1, <2>2
  <1> QED
    BY <1>5, <1>6, <1>9, <1>11, <1>12

\* A rollback leaves the chain as it was.
LEMMA RollbackKeepsChain ==
    ASSUME IInv, NEW t \in Txs, Rollback(t)
    PROVE  /\ ChainLinked' /\ HeadHeld' /\ OwnEntry'
           /\ LiveEventsEvidenced' /\ AnchorsHold'
  <1> USE DEF IInv
  <1>1. /\ UNCHANGED <<stored, chain, retained, head, anchors>>
        /\ phase[t] \in {"delete", "verify", "lock", "append"}
        /\ phase' = [phase EXCEPT ![t] = IF t \in Workers THEN "idle" ELSE "aborted"]
        /\ holder' = Released(t)
        /\ Forget(t)
    BY DEF Rollback, Enter, dbVars
  <1>2. ChainLinked' /\ LiveEventsEvidenced' /\ AnchorsHold' /\ Chained' = Chained
    BY <1>1 DEF ChainLinked, LiveEventsEvidenced, AnchorsHold, Chained
  <1>3. /\ phase'[t] \notin {"append", "done"} /\ phase[t] # "done"
        /\ \A u \in Txs \ {t} : phase'[u] = phase[u]
    BY <1>1 DEF TypeOK
  <1>4. \A u \in Txs : holder' = u <=> holder = u /\ u # t
    BY <1>1, AuditChainAssumption DEF Released
  <1>5. HeadHeld'
    <2> SUFFICES ASSUME NEW u \in Txs
                 PROVE  /\ phase'[u] = "append" <=> holder' = u
                        /\ holder' # u => draft'[u] = {} /\ pending'[u] = {}
                        /\ holder' = u => Linked(chain' \cup draft'[u], copy'[u])
                        /\ pending'[u] \cap ChainedIn(chain' \cup draft'[u]) = {}
                        /\ pending'[u] \cup ChainedIn(draft'[u]) \subseteq
                               IF u \in Workers THEN Legacy ELSE {u}
      BY DEF HeadHeld
    <2>1. CASE u = t
      <3>1. draft'[t] = {} /\ pending'[t] = {} /\ ChainedIn({}) = {}
        BY <1>1, ForgetClears DEF ChainedIn
      <3> QED
        BY <1>3, <1>4, <2>1, <3>1
    <2>2. CASE u # t
      <3>1. draft'[u] = draft[u] /\ pending'[u] = pending[u] /\ copy'[u] = copy[u]
        BY <1>1, <2>2, ForgetClears, Zenon
      <3> QED
        BY <1>1, <1>3, <1>4, <2>2, <3>1, Zenon DEF HeadHeld
    <2> QED
      BY <2>1, <2>2
  <1>6. OwnEntry'
    <2> SUFFICES ASSUME NEW u \in Recorded
                 PROVE  /\ u \in Chained' => phase'[u] = "done"
                        /\ holder' = u => u \in pending'[u] \cup ChainedIn(draft'[u])
      BY DEF OwnEntry
    <2>1. u \in Txs
      BY DEF Txs
    <2>2. u # t => draft'[u] = draft[u] /\ pending'[u] = pending[u]
      BY <1>1, <2>1, ForgetClears, Zenon
    <2> QED
      BY <1>2, <1>3, <1>4, <2>1, <2>2 DEF OwnEntry
  <1> QED
    BY <1>2, <1>5, <1>6

----------------------------------------------------------------------------
(* Retention and anchors.                                                  *)

\* What a retention run deletes is chained, and then marked, or is a legacy event.
LEMMA NextMarkedFirst == ASSUME IInv, [Next]_vars PROVE MarkedFirst'
  <1> USE DEF IInv
  <1> SUFFICES ASSUME NEW u \in Txs
               PROVE  /\ toDelete'[u] \cup deleted'[u] \subseteq Chained' \cup Legacy
                      /\ deleted'[u] \subseteq marked'[u] \cup Legacy
    BY DEF MarkedFirst
  <1>a. /\ toDelete[u] \cup deleted[u] \subseteq Chained \cup Legacy
        /\ deleted[u] \subseteq marked[u] \cup Legacy
        /\ Chained \subseteq Chained'
    BY ChainGrows DEF MarkedFirst
  <1>1. CASE UNCHANGED <<toDelete, deleted, marked>>
    BY <1>1, <1>a
  <1>2. ASSUME NEW t \in Txs, NEW cutoff \in Events, SelectExpired(t, cutoff)
        PROVE  /\ toDelete'[u] \cup deleted'[u] \subseteq Chained' \cup Legacy
               /\ deleted'[u] \subseteq marked'[u] \cup Legacy
    <2> DEFINE ids == Oldest({e \in stored : e < cutoff}, RetentionLimit)
    <2>1. ids \subseteq stored
      BY DEF Oldest
    <2> HIDE DEF ids
    <2>2. /\ toDelete' = [toDelete EXCEPT ![t] = ids]
          /\ UNCHANGED <<deleted, marked, chain>>
      BY <1>2 DEF SelectExpired, dbVars, ids
    <2>3. toDelete'[u] = toDelete[u] \/ toDelete'[u] = ids
      BY <2>2 DEF TypeOK
    <2> QED
      BY <1>a, <2>1, <2>2, <2>3 DEF LiveEventsEvidenced
  <1>3. ASSUME NEW t \in Txs, NEW x \in toDelete[t], DeleteExpired(t, x)
        PROVE  /\ toDelete'[u] \cup deleted'[u] \subseteq Chained' \cup Legacy
               /\ deleted'[u] \subseteq marked'[u] \cup Legacy
    <2>1. /\ marked' = [marked EXCEPT ![t] = marked[t] \cup Tombstones(x)]
          /\ deleted' = [deleted EXCEPT ![t] = deleted[t] \cup {x}]
          /\ toDelete' = [toDelete EXCEPT ![t] = toDelete[t] \ {x}]
      BY <1>3 DEF DeleteExpired
    <2>2. CASE u = t
      <3>1. /\ marked'[u] = marked[u] \cup Tombstones(x)
            /\ deleted'[u] = deleted[u] \cup {x}
            /\ toDelete'[u] = toDelete[u] \ {x}
        BY <2>1, <2>2 DEF TypeOK
      <3>2. x \in Tombstones(x) \cup Legacy
        BY <1>a, <2>2 DEF Tombstones
      <3> QED
        BY <1>a, <2>2, <3>1, <3>2
    <2>3. CASE u # t
      <3>1. /\ marked'[u] = marked[u] /\ deleted'[u] = deleted[u]
            /\ toDelete'[u] = toDelete[u]
        BY <2>1, <2>3 DEF TypeOK
      <3> QED
        BY <1>a, <3>1
    <2> QED
      BY <2>2, <2>3
  <1>4. ASSUME NEW t \in Txs, Forget(t)
        PROVE  /\ toDelete'[u] \cup deleted'[u] \subseteq Chained' \cup Legacy
               /\ deleted'[u] \subseteq marked'[u] \cup Legacy
    <2>1. \/ toDelete'[u] = {} /\ deleted'[u] = {}
          \/ /\ toDelete'[u] = toDelete[u] /\ deleted'[u] = deleted[u]
             /\ marked'[u] = marked[u]
      BY <1>4, ForgetClears
    <2> QED
      BY <1>a, <2>1, Zenon
  <1>5. \/ UNCHANGED <<toDelete, deleted, marked>>
        \/ \E t \in Txs, cutoff \in Events : SelectExpired(t, cutoff)
        \/ \E t \in Txs : \E x \in toDelete[t] : DeleteExpired(t, x)
        \/ \E t \in Txs : Forget(t)
    BY DEF Next, Begin, Proceed, RecordAuditEvent, ReadHead, VerifyAuditChain,
           LockHead, AppendEntry, Commit, Rollback, AcquireLease, LeaseExpires,
           vars, workVars
  <1> QED
    BY <1>1, <1>2, <1>3, <1>4, <1>5

\* What an anchoring has read stays in the chain.
LEMMA NextAnchorReady == ASSUME IInv, [Next]_vars PROVE AnchorReady'
  <1> USE DEF IInv
  <1> SUFFICES ASSUME NEW a \in Anchorings
               PROVE  /\ phase'[a] = "verify" => anchor'[a].seq \in 1..head'.seq
                      /\ phase'[a] \in {"lock", "append"} =>
                            \E x \in chain' : /\ x.seq = anchor'[a].seq
                                              /\ x.hash = anchor'[a].hash
    BY DEF AnchorReady
  <1>a. a \in Txs /\ a \notin Workers /\ a \notin Operations /\ a \notin Retentions
    BY AuditChainAssumption DEF Txs, Recorded, Events
  <1>b. chain \subseteq chain'
    BY ChainGrows
  <1>c. head.seq \in Nat /\ head'.seq \in Nat /\ head.seq <= head'.seq
    <2>1. head' = head \/ \E t \in Txs : Commit(t) /\ head' = copy[t]
      <3>1. CASE UNCHANGED vars
        BY <3>1 DEF vars, dbVars
      <3>2. CASE LeaseExpires \/ \E w \in Workers : AcquireLease(w)
        BY <3>2 DEF LeaseExpires, AcquireLease, dbVars
      <3>3. CASE \E t \in Txs : Begin(t)
        BY <3>3, Zenon DEF Begin, RecordAuditEvent, SelectExpired, ReadHead, dbVars
      <3>4. CASE \E t \in Txs : Rollback(t)
        BY <3>4 DEF Rollback, dbVars
      <3>5. CASE \E t \in Txs : Proceed(t)
        <4>1. PICK t \in Txs : Proceed(t)
          BY <3>5
        <4>2. CASE Commit(t)
          BY <4>2 DEF Commit
        <4>3. CASE ~Commit(t)
          BY <4>1, <4>3 DEF Proceed, DeleteExpired, VerifyAuditChain, LockHead,
                            AppendEntry, dbVars
        <4> QED
          BY <4>2, <4>3
      <3> QED
        BY <3>1, <3>2, <3>3, <3>4, <3>5 DEF Next
    <2>2. ASSUME NEW t \in Txs, Commit(t), head' = copy[t]
          PROVE  head'.seq \in Nat /\ head.seq <= head'.seq
      <3>1. Linked(chain \cup draft[t], copy[t]) /\ copy[t].seq \in Nat
        BY <2>2, Zenon DEF Commit, HeadHeld, TypeOK, Heads
      <3>2. head.seq \in Nat /\ (head.seq > 0 => \E x \in chain : x.seq = head.seq)
        BY DEF ChainLinked, Linked, TypeOK, Heads
      <3> QED
        BY <2>2, <3>1, <3>2, SMTT(30) DEF Linked
    <2> QED
      BY <2>1, <2>2 DEF TypeOK, Heads
  <1> DEFINE Goal == /\ phase'[a] = "verify" => anchor'[a].seq \in 1..head'.seq
                     /\ phase'[a] \in {"lock", "append"} =>
                           \E x \in chain' : /\ x.seq = anchor'[a].seq
                                             /\ x.hash = anchor'[a].hash
  <1>1. ASSUME anchor'[a] = anchor[a],
               \/ phase'[a] = phase[a]
               \/ phase[a] = "lock" /\ phase'[a] = "append"
        PROVE  Goal
    <2>1. anchor[a].seq \in Nat
      BY <1>a DEF TypeOK, Heads
    <2>2. phase'[a] = "verify" => anchor'[a].seq \in 1..head'.seq
      <3>1. phase'[a] = "verify" => anchor[a].seq \in 1..head.seq
        BY <1>1 DEF AnchorReady
      <3> QED
        BY <1>1, <1>c, <2>1, <3>1
    <2>3. ASSUME phase'[a] \in {"lock", "append"}
          PROVE  \E x \in chain' : x.seq = anchor'[a].seq /\ x.hash = anchor'[a].hash
      <3>1. PICK x \in chain : x.seq = anchor[a].seq /\ x.hash = anchor[a].hash
        BY <1>1, <2>3 DEF AnchorReady
      <3> QED
        BY <1>1, <1>b, <3>1
    <2> QED
      BY <2>2, <2>3
  <1>2. ASSUME phase'[a] \in {"idle", "done", "aborted", "refused"} PROVE Goal
    BY <1>2
  <1>3. ASSUME NEW t \in Txs, NEW to \in 1..head.seq, ReadHead(t, to), t = a
        PROVE  Goal
    <2>1. phase'[a] = "verify" /\ anchor'[a].seq = to /\ head' = head
      BY <1>3, <1>a DEF ReadHead, Enter, TypeOK, Heads, dbVars
    <2> QED
      BY <2>1
  <1>4. ASSUME NEW t \in Txs, NEW from \in 1..anchor[t].seq,
               VerifyAuditChain(t, from), t = a
        PROVE  Goal
    <2>1. CASE phase'[a] = "refused"
      BY <2>1
    <2>2. CASE phase'[a] # "refused"
      <3>1. PICK x \in chain :
                /\ x.seq = anchor[a].seq
                /\ anchor' = [anchor EXCEPT ![a].hash = x.hash]
                /\ phase' = [phase EXCEPT ![a] = "lock"]
        BY <1>4, <1>a, <2>2
        DEF VerifyAuditChain, AnchoredHash, Enter, TypeOK
      <3>2. /\ anchor'[a].seq = x.seq /\ anchor'[a].hash = x.hash
            /\ phase'[a] = "lock"
        BY <1>a, <3>1 DEF TypeOK, Heads
      <3> QED
        BY <1>b, <3>2
    <2> QED
      BY <2>1, <2>2
  <1>5. ASSUME NEW t \in Txs,
               \/ RecordAuditEvent(t)
               \/ \E cutoff \in Events : SelectExpired(t, cutoff)
               \/ \E x \in toDelete[t] : DeleteExpired(t, x)
               \/ LockHead(t)
               \/ \E e \in pending[t] : AppendEntry(t, e)
        PROVE  Goal
    <2>1. anchor' = anchor
      BY <1>5, Zenon DEF RecordAuditEvent, SelectExpired, DeleteExpired, LockHead,
                  AppendEntry, workVars
    <2>2. \/ phase'[a] = phase[a]
          \/ phase[a] = "lock" /\ phase'[a] = "append"
      BY <1>5, <1>a, Zenon DEF RecordAuditEvent, SelectExpired, DeleteExpired, LockHead,
                        AppendEntry, Enter, TypeOK
    <2> QED
      BY <1>1, <2>1, <2>2
  <1>6. ASSUME NEW t \in Txs, Commit(t) \/ Rollback(t) PROVE Goal
    <2>1. CASE t = a
      BY <1>6, <1>a, <1>2, <2>1 DEF Commit, Rollback, Enter, TypeOK
    <2>2. CASE t # a
      <3>1. anchor'[a] = anchor[a]
        BY <1>6, <1>a, <2>2, ForgetClears, Zenon DEF Commit, Rollback
      <3>2. phase'[a] = phase[a]
        BY <1>6, <1>a, <2>2 DEF Commit, Rollback, Enter, TypeOK
      <3> QED
        BY <1>1, <3>1, <3>2
    <2> QED
      BY <2>1, <2>2, Zenon
  <1>7. ASSUME NEW w \in Workers, AcquireLease(w) PROVE Goal
    BY <1>7, <1>a, <1>1, Zenon DEF AcquireLease, Enter, TypeOK, workVars
  <1>8. CASE LeaseExpires \/ UNCHANGED vars
    BY <1>8, <1>1 DEF LeaseExpires, vars, workVars
  <1>9. ASSUME NEW t \in Txs, t # a,
               \/ \E to \in 1..head.seq : ReadHead(t, to)
               \/ \E from \in 1..anchor[t].seq : VerifyAuditChain(t, from)
        PROVE  Goal
    <2>1. phase'[a] = phase[a]
      BY <1>9, <1>a DEF ReadHead, VerifyAuditChain, Enter, TypeOK
    <2>2. anchor'[a] = anchor[a]
      BY <1>9, <1>a DEF ReadHead, VerifyAuditChain, TypeOK
    <2> QED
      BY <1>1, <2>1, <2>2
  <1> QED
    BY <1>3, <1>4, <1>5, <1>6, <1>7, <1>8, <1>9, Zenon DEF Next, Begin, Proceed

----------------------------------------------------------------------------
(* The theorems.                                                           *)

\* Every step preserves the inductive invariant.
LEMMA NextIInv == IInv /\ [Next]_vars => IInv'
  <1> SUFFICES ASSUME IInv, [Next]_vars PROVE IInv'
    OBVIOUS
  <1>1. TypeOK' /\ MarkedFirst' /\ AnchorReady'
    BY NextTypeOK, NextMarkedFirst, NextAnchorReady DEF IInv
  <1>2. /\ ChainLinked' /\ HeadHeld' /\ OwnEntry'
        /\ LiveEventsEvidenced' /\ AnchorsHold'
    <2>1. CASE \/ \E t \in Txs :
                     \/ Begin(t)
                     \/ \E x \in toDelete[t] : DeleteExpired(t, x)
                     \/ \E from \in 1..anchor[t].seq : VerifyAuditChain(t, from)
               \/ \E w \in Workers : AcquireLease(w)
               \/ LeaseExpires
               \/ UNCHANGED vars
      BY <2>1, OutsideHead, FrameKeepsChain
    <2>2. CASE \E t \in Txs : LockHead(t)
      BY <2>2, LockKeepsChain
    <2>3. CASE \E t \in Txs : \E e \in pending[t] : AppendEntry(t, e)
      BY <2>3, AppendKeepsChain
    <2>4. CASE \E t \in Txs : Commit(t)
      BY <2>4, CommitKeepsChain
    <2>5. CASE \E t \in Txs : Rollback(t)
      BY <2>5, RollbackKeepsChain
    <2> QED
      BY <2>1, <2>2, <2>3, <2>4, <2>5 DEF Next, Proceed
  <1> QED
    BY <1>1, <1>2 DEF IInv

\* The invariant behind the theorems about the audit chain: the holder of the
\* head lock extends a chain that nobody else can extend meanwhile.
THEOREM InductiveInvariant == Spec => []IInv
  BY InitIInv, NextIInv, PTL DEF Spec

\* Each variable keeps to the values its column or Go variable can take.
THEOREM TypeCorrect == Spec => []TypeOK
  <1>1. IInv => TypeOK
    BY DEF IInv
  <1> QED
    BY <1>1, InductiveInvariant, PTL

\* recordAuditEventTx and backfillTenantAuditChain build one gapless hash chain
\* per tenant, however many of them run concurrently or are rolled back.
THEOREM ChainIsLinked == Spec => []ChainLinked
  <1>1. IInv => ChainLinked
    BY DEF IInv
  <1> QED
    BY <1>1, InductiveInvariant, PTL

\* With the head locked, UNIQUE (tenant_id, sequence) is never violated.
THEOREM NoConflicts == Spec => []NoSequenceConflict
  <1>1. IInv => NoSequenceConflict
    <2> SUFFICES ASSUME IInv, NEW t \in Txs, phase[t] = "append",
                        NEW x \in chain
                 PROVE  x.seq # copy[t].seq + 1
      BY DEF NoSequenceConflict, Taken
    <2>1. Linked(chain \cup draft[t], copy[t])
      BY Zenon DEF IInv, HeadHeld
    <2>2. copy[t].seq \in Nat
      BY DEF IInv, TypeOK, Heads
    <2> QED
      BY <2>1, <2>2 DEF Linked
  <1> QED
    BY <1>1, InductiveInvariant, PTL

\* An event recorded with its entry is never lost without a tombstone, whatever
\* applyAuditEventRetention runs concurrently.
THEOREM LiveEventsKept == Spec => []LiveEventsEvidenced
  <1>1. IInv => LiveEventsEvidenced
    BY DEF IInv
  <1> QED
    BY <1>1, InductiveInvariant, PTL

\* CreateAuditChainAnchor anchors a hash that the chain keeps.
THEOREM AnchorsKept == Spec => []AnchorsHold
  <1>1. IInv => AnchorsHold
    BY DEF IInv
  <1> QED
    BY <1>1, InductiveInvariant, PTL

\* The chain is linked, can always be extended and keeps its anchors.
THEOREM ChainIsSound == Spec => []ChainSound
  BY ChainIsLinked, NoConflicts, AnchorsKept, PTL DEF ChainSound

\* VerifyAuditChain, whose statements see different states of the chain, fails
\* only on a backfilled entry whose event is gone.
THEOREM VerificationSound == Spec => RefusedOnlyForLegacy
  <1> DEFINE A == \A a \in Anchorings :
                      phase'[a] = "refused" /\ phase[a] # "refused" =>
                          (Chained \cap Legacy) \ (stored \cup retained) # {}
  <1>1. IInv /\ [Next]_vars => [A]_vars
    <2> SUFFICES ASSUME IInv, Next, NEW a \in Anchorings,
                        phase'[a] = "refused", phase[a] # "refused",
                        Chained \cap Legacy \subseteq stored \cup retained
                 PROVE  FALSE
      OBVIOUS
    <2>1. a \in Txs /\ Workers \subseteq Txs
      BY DEF Txs, Recorded
    <2>a. ASSUME NEW t \in Txs, NEW at \in Phases \ {"refused"}, Enter(t, at)
          PROVE  FALSE
      BY <2>1, <2>a DEF Enter, IInv, TypeOK
    <2>b. ASSUME NEW t \in Txs, Begin(t) \/ Rollback(t) PROVE FALSE
      BY <2>a, <2>b, Zenon DEF Begin, RecordAuditEvent, SelectExpired, ReadHead, Rollback,
                        Phases
    <2>c. ASSUME NEW t \in Txs,
                 \/ \E x \in toDelete[t] : DeleteExpired(t, x)
                 \/ LockHead(t)
                 \/ Commit(t)
          PROVE  FALSE
      BY <2>a, <2>c, Zenon DEF DeleteExpired, LockHead, Commit, Phases
    <2>d. ~UNCHANGED phase
      OBVIOUS
    <2>e. PICK t \in Txs : \E from \in 1..anchor[t].seq : VerifyAuditChain(t, from)
      BY <2>1, <2>a, <2>b, <2>c, <2>d
      DEF Next, Proceed, AppendEntry, AcquireLease, LeaseExpires, Phases
    <2>f. t = a
      BY <2>1, <2>e DEF VerifyAuditChain, Enter, IInv, TypeOK
    <2>2. PICK from \in 1..anchor[a].seq : VerifyAuditChain(a, from)
      BY <2>e, <2>f
    <2>3. phase[a] = "verify" /\ ~Verifies(from, anchor[a].seq)
      BY <2>1, <2>2 DEF VerifyAuditChain, Enter, IInv, TypeOK
    <2>4. anchor[a].seq \in 1..head.seq /\ head.seq \in Nat
      BY <2>3 DEF IInv, AnchorReady, TypeOK, Heads
    <2>5. Chained \subseteq stored \cup retained
      BY Zenon DEF IInv, LiveEventsEvidenced
    <2>6. ASSUME NEW n \in from..anchor[a].seq
          PROVE  \E x \in chain : x.seq = n /\ EntryVerifies(x)
      <3>1. n \in 1..head.seq
        BY <2>4
      <3>2. PICK x \in chain : x.seq = n
        BY <3>1 DEF IInv, ChainLinked, Linked
      <3>3. x.hash = ChainHash(x.prev, x.event) /\ (n = 1 => x.prev = NoHash)
        BY <3>2 DEF IInv, ChainLinked, Linked
      <3>4. n # 1 => \E y \in chain : y.seq = n - 1 /\ y.hash = x.prev
        <4> SUFFICES ASSUME n # 1
                     PROVE  \E y \in chain : y.seq = n - 1 /\ y.hash = x.prev
          OBVIOUS
        <4>1. n - 1 \in 1..head.seq /\ n = (n - 1) + 1
          BY <2>4, <3>1
        <4>2. PICK y \in chain : y.seq = n - 1
          BY <4>1 DEF IInv, ChainLinked, Linked
        <4> QED
          BY <3>2, <4>1, <4>2 DEF IInv, ChainLinked, Linked
      <3>5. x.event \in stored \cup retained
        BY <2>5, <3>2 DEF Chained, ChainedIn
      <3> QED
        BY <3>2, <3>3, <3>4, <3>5 DEF EntryVerifies
    <2> QED
      BY <2>3, <2>6 DEF Verifies
  <1> QED
    BY <1>1, InductiveInvariant, PTL DEF Spec, RefusedOnlyForLegacy
=============================================================================
