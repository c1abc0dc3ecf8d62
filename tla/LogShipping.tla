----------------------------- MODULE LogShipping -----------------------------
(***************************************************************************)
(* What the SIEM stream promises its receiver: the entries of the audit    *)
(* chain, in order, each at least once.  A batch starts no later than the  *)
(* entry after the acknowledged ones, so that the receiver never sees a    *)
(* gap; the cursor acknowledges only what the receiver has.                *)
(***************************************************************************)
EXTENDS Integers

VARIABLES length,      \* entries in the log
          received,    \* the entries the receiver has
          acked        \* the cursor: entries 1..acked are acknowledged

logVars == <<length, received, acked>>

LogInit == length = 0 /\ received = {} /\ acked = 0

Append1 ==
  /\ length' = length + 1
  /\ UNCHANGED <<received, acked>>

Ship ==
  /\ \E from \in 1..(acked + 1) : \E to \in from..length : received' = received \cup from..to
  /\ UNCHANGED <<length, acked>>

Acknowledge ==
  /\ \E n \in acked..length : 1..n \subseteq received /\ acked' = n
  /\ UNCHANGED <<length, received>>

LogNext == Append1 \/ Ship \/ Acknowledge

LogSpec == LogInit /\ [][LogNext]_logVars
=============================================================================
