-------------------------------- MODULE Authz --------------------------------
(***************************************************************************)
(* Who may do what: the baseline roles of internal/authz/policy.go and the *)
(* decision of internal/app/authorization.go, which every operation of the *)
(* control service asks for first.  An actor is a record                   *)
(*   [id, role, scopes]                                                    *)
(* of one tenant (requests never name another tenant: authorized() passes  *)
(* the actor's own), scopes being the set an API key was restricted to and *)
(* empty when it was not.  The membership, bindings and rules that the     *)
(* identity tables add to the baseline are parameters of Decide; they are  *)
(* state in module Identity.                                               *)
(***************************************************************************)
EXTENDS Naturals, FiniteSets

Roles == {"owner", "admin", "developer", "operator", "security", "auditor", "support"}

(* The scopes the operations of internal/app ask for. *)
ReadScopes == {"sources:read", "endpoints:read", "subscriptions:read", "routes:read",
  "schemas:read", "events:read", "events:raw", "deliveries:read", "replay:read",
  "incidents:read", "audit:read", "security:read", "ops:read", "api_keys:read"}

WriteScopes == {"sources:write", "endpoints:write", "subscriptions:write", "routes:write",
  "schemas:write", "events:write", "deliveries:retry", "replay:write", "incidents:write",
  "security:write", "ops:write", "api_keys:write"}

AllScopes == ReadScopes \cup WriteScopes

RoleAllows(role, scope) ==
  CASE role = "owner" -> TRUE
    [] role = "admin" -> scope \notin {"events:raw", "security:write"}
    [] role = "developer" -> scope \in
         {"sources:read", "sources:write", "endpoints:read", "endpoints:write",
          "subscriptions:read", "subscriptions:write", "routes:read", "routes:write",
          "schemas:read", "schemas:write", "events:read", "events:write", "deliveries:read",
          "deliveries:retry", "replay:read", "replay:write", "incidents:read", "incidents:write"}
    [] role = "operator" -> scope \in
         {"sources:read", "endpoints:read", "subscriptions:read", "routes:read", "schemas:read",
          "events:read", "events:write", "deliveries:read", "deliveries:retry", "replay:read",
          "replay:write", "incidents:read", "incidents:write", "ops:read", "ops:write"}
    [] role = "security" -> scope \in
         {"security:read", "security:write", "audit:read", "events:read", "events:raw",
          "incidents:read", "incidents:write"}
    [] role = "auditor" -> scope \in
         {"audit:read", "events:read", "events:raw", "deliveries:read", "replay:read",
          "security:read", "incidents:read"}
    [] role = "support" -> scope \in
         {"events:read", "deliveries:read", "replay:read", "incidents:read"}
    [] OTHER -> FALSE

(* actorScopesAllow: an empty scope list restricts nothing. *)
ActorScopesAllow(actor, scope) ==
  actor.scopes = {} \/ {scope, "*"} \cap actor.scopes # {}

(* ExplainAuthorization, then Authorize: the membership's role, or the     *)
(* newest matching user binding, or the newest matching group binding may  *)
(* allow; a matching policy rule overrides all three (deny before allow);  *)
(* the actor's own scopes restrict the result.                             *)
Decide(actor, scope, membership, userBinding, groupBinding, effect) ==
  /\ \/ effect = "allow"
     \/ /\ effect = "none"
        /\ \E role \in {membership, userBinding, groupBinding} : RoleAllows(role, scope)
  /\ ActorScopesAllow(actor, scope)

(* authorized(): an active member without bindings or rules. *)
Authorized(actor, scope) == Decide(actor, scope, actor.role, "none", "none", "none")
=============================================================================
