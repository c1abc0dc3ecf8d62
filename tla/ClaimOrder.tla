----------------------------- MODULE ClaimOrder -----------------------------
(***************************************************************************)
(* The order in which the PostgreSQL claim queries hand out due work.      *)
(*                                                                         *)
(* ClaimDueDeliveries and ClaimOutbox share one query shape: the due rows  *)
(* are numbered inside their (class, tenant) partition by due time and id  *)
(* (tenant_rank), sorted by                                                *)
(*      class, tenant_rank, due time, tenant, id                           *)
(* and cut at LIMIT.  Claimed is that query over explicit due times.       *)
(* FairBatch is what the cut guarantees whatever the due times are; the    *)
(* state machines that leave time abstract choose any fair batch.          *)
(***************************************************************************)
EXTENDS Integers, FiniteSets

Smaller(m, n) == IF m < n THEN m ELSE n

----------------------------------------------------------------------------
(* The query.  at[c] is the due time of row c and id[c] its primary key,   *)
(* both integers; class[c] is its priority (is_replay as 0 or 1 for        *)
(* deliveries; 0 for route work, 1 for replays and 2 for the rest of the   *)
(* outbox) and tenant[c] its tenant, an integer so that it can break ties. *)

AheadInPartition_AllTenants(c, C, at, id, class, tenant) ==
    {x \in C : /\ class[x] = class[c]
               /\ \/ at[x] < at[c]
                  \/ at[x] = at[c] /\ id[x] < id[c]}

\* The rows numbered before c in c's own partition, c excluded.
AheadInPartition(c, C, at, id, class, tenant) ==
    {x \in C : /\ class[x] = class[c]
               /\ tenant[x] = tenant[c]
               /\ \/ at[x] < at[c]
                  \/ at[x] = at[c] /\ id[x] < id[c]}

TenantRank(c, C, at, id, class, tenant) ==
    Cardinality(AheadInPartition(c, C, at, id, class, tenant)) + 1

\* ORDER BY class, tenant_rank, due time, tenant_id, id.
Precedes(x, c, C, at, id, class, tenant) ==
    LET rank(y) == TenantRank(y, C, at, id, class, tenant) IN
    \/ class[x] < class[c]
    \/ /\ class[x] = class[c]
       /\ \/ rank(x) < rank(c)
          \/ /\ rank(x) = rank(c)
             /\ \/ at[x] < at[c]
                \/ at[x] = at[c] /\ tenant[x] < tenant[c]
                \/ at[x] = at[c] /\ tenant[x] = tenant[c] /\ id[x] < id[c]

\* The rows the query returns: those with fewer than limit predecessors.
Claimed(C, limit, at, id, class, tenant) ==
    {c \in C :
        Cardinality({x \in C : Precedes(x, c, C, at, id, class, tenant)})
            < limit}

----------------------------------------------------------------------------
(* What every such batch has in common.                                    *)

Share(S, k, t, class, tenant) ==
    Cardinality({d \in S : class[d] = k /\ tenant[d] = t})

\* S fills the limit or takes everything; a row is taken only when no row of a
\* more urgent class is left behind; and inside a class a tenant is at most one row ahead of
\* a tenant that still has rows waiting.
FairBatch(S, C, limit, class, tenant) ==
    /\ S \subseteq C
    /\ Cardinality(S) = Smaller(limit, Cardinality(C))
    /\ \A c \in S, x \in C \ S : class[c] <= class[x]
    /\ \A c \in S, x \in C \ S :
          class[c] = class[x] =>
             Share(S, class[c], tenant[c], class, tenant)
                <= Share(S, class[x], tenant[x], class, tenant) + 1
=============================================================================
