----------------------------- MODULE ControlPlane -----------------------------
(***************************************************************************)
(* What the operations of the control plane share: the actors that issue   *)
(* requests and the shapes their requests take.  An operation Xxx of       *)
(* internal/app is two definitions in its component's module: XxxRequests, *)
(* the requests that pass the service's authorization and validation, and  *)
(* the action Xxx, the effect of the store method it then calls.  Any      *)
(* other request is refused and changes nothing: it is no step.            *)
(***************************************************************************)
EXTENDS Authz, Integers, Sequences, FiniteSetsExt

CONSTANTS Actors,      \* the actors [id, role, scopes] that issue requests
          Sessions     \* database sessions that serve requests concurrently

(* Some actor is authorized for the scope the operation asks for. *)
Allowed(scope) == \E a \in Actors : Authorized(a, scope)

ActiveOrDisabled == {"active", "disabled"}

(* An update, by what the service validates of it: state "" leaves the     *)
(* state alone and "other" is no state; field says that another field is   *)
(* given, reason that a reason is.                                         *)
Updates == [state : {"", "active", "disabled", "other"}, field : BOOLEAN, reason : BOOLEAN]

GivesField(q) == q.field \/ q.state # ""

(* A state change that needs no more than a reason (a delete disables). *)
StateChanges == [state : {"disabled"}, reason : BOOLEAN]

NewState(q, old) == IF q.state = "" THEN old ELSE q.state

(* A session between transactions. *)
Idle == [at |-> "idle"]

MaxOr0(S) == IF S = {} THEN 0 ELSE Max(S)
=============================================================================
