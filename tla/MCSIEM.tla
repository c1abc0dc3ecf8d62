-------------------------------- MODULE MCSIEM --------------------------------
(***************************************************************************)
(* A sink, one worker and one entry of the audit chain, for TLC.           *)
(***************************************************************************)
EXTENDS SIEM

MCActors == {[id |-> "owner", role |-> "owner", scopes |-> {}]}
=============================================================================
