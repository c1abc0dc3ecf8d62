------------------------------ MODULE MCExports ------------------------------
(***************************************************************************)
(* Exports of a tenant whose audit chain is intact, for TLC.               *)
(***************************************************************************)
EXTENDS Exports

MCActors == {[id |-> "owner", role |-> "owner", scopes |-> {}]}
=============================================================================
