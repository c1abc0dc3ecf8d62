----------------------------- MODULE ClaimQueue -----------------------------
(***************************************************************************)
(* A queue of due rows worked off by the claim query of ClaimOrder.  Rows   *)
(* of several priority classes arrive for several tenants with different   *)
(* due times, and claims of any limit take the query's answer.             *)
(***************************************************************************)
EXTENDS ClaimOrder

CONSTANTS
    Rows,       \* primary keys, as integers
    TenantIds,  \* tenant ids, as integers
    Classes,    \* priority classes, as integers
    MaxTime,    \* bound on due times
    Limits      \* the LIMITs tried

ASSUME ClaimQueueAssumption ==
    /\ Rows \subseteq Nat /\ IsFiniteSet(Rows)
    /\ TenantIds \subseteq Nat
    /\ Classes \subseteq Nat
    /\ MaxTime \in Nat
    /\ Limits \subseteq Nat \ {0}

VARIABLES
    pending,  \* the rows that are due
    at,       \* next_attempt_at (deliveries) or available_at (outbox)
    class,    \* priority of the row, the smaller the more urgent
    tenant    \* tenant_id of the row

vars == <<pending, at, class, tenant>>

AnyTenant == CHOOSE t \in TenantIds : TRUE

id == [c \in Rows |-> c]

Init ==
    /\ pending = {}
    /\ at = [c \in Rows |-> 0]
    /\ class = [c \in Rows |-> 0]
    /\ tenant = [c \in Rows |-> AnyTenant]

Arrive(c, t, k, time) ==
    /\ c \notin pending
    /\ pending' = pending \cup {c}
    /\ at' = [at EXCEPT ![c] = time]
    /\ class' = [class EXCEPT ![c] = k]
    /\ tenant' = [tenant EXCEPT ![c] = t]

\* The columns of a row that has been claimed are not read again.
Claim(limit) ==
    LET S == Claimed(pending, limit, at, id, class, tenant) IN
    /\ S # {}
    /\ pending' = pending \ S
    /\ at' = [c \in Rows |-> IF c \in S THEN 0 ELSE at[c]]
    /\ class' = [c \in Rows |-> IF c \in S THEN 0 ELSE class[c]]
    /\ tenant' = [c \in Rows |-> IF c \in S THEN AnyTenant ELSE tenant[c]]

Next ==
    \/ \E c \in Rows, t \in TenantIds, k \in Classes, time \in 0..MaxTime :
          Arrive(c, t, k, time)
    \/ \E limit \in Limits : Claim(limit)

Spec == Init /\ [][Next]_vars

\* Whatever is due and whatever the due times, the claim query fills its limit,
\* takes the urgent classes first, and deals rows out to the tenants in turn, so
\* that no tenant's backlog keeps another tenant out of the batch.
BatchIsFair ==
    \A limit \in Limits :
        FairBatch(Claimed(pending, limit, at, id, class, tenant),
                  pending, limit, class, tenant)

\* Every fair batch is the query's answer for some due times: the machines that
\* choose any fair batch allow nothing the claim query cannot do.  (The statement
\* does not read the due times, so it is evaluated where they are all 0.)
FairnessIsExact ==
    (\A c \in pending : at[c] = 0) =>
    \A limit \in Limits : \A S \in SUBSET pending :
        FairBatch(S, pending, limit, class, tenant) =>
            \E times \in [pending -> 1..Cardinality(pending)] :
                Claimed(pending, limit, times, id, class, tenant) = S

\* The claim query of ClaimDueDeliveries and ClaimOutbox answers with the fair
\* batches, and with nothing else.
ClaimsExactlyFair == BatchIsFair /\ FairnessIsExact
=============================================================================
