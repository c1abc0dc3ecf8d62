----------------------------- MODULE RouteConfig -----------------------------
(***************************************************************************)
(* What decides where an event goes: a subscription or a route with its    *)
(* version rows, and the transformation it pins (internal/app/control.go,  *)
(* internal/adapters/postgres/store.go).  Updates lock the row, check the  *)
(* references they change and read the transformation's active version,    *)
(* then write; activations of transformation versions by other sessions    *)
(* commit in between.  An activation reads the other active versions in    *)
(* its own statement and demotes those it saw: two activations may both    *)
(* end 'active'.  The row locks that exclude some of the orders are left   *)
(* out: the model has more interleavings than the database.                *)
(*                                                                         *)
(* Subscriptions and routes share no row, so one resource of either kind   *)
(* is modelled.  Event types, priorities and formats are never read back.  *)
(***************************************************************************)
EXTENDS ControlPlane

CONSTANTS MaxTransformationVersion,   \* bound on transformation versions
          MaxRouteVersion             \* bound on subscription/route versions

VARIABLES
  tver,      \* sequence, by version, of transformation version states
  tptr,      \* transformations.active_version_id; 0 none, -1 no such row
  down,      \* the referenced source or endpoint that is disabled, or ""
  rkind,     \* "subscription" or "route"
  rrow,      \* the resource's row [state, pin, ver, active], or None
  rver,      \* version rows [state, pin], by version number
  rtx        \* session -> its open transaction

routeVars == <<tver, tptr, down, rkind, rrow, rver, rtx>>

None == [state |-> "none"]

RouteStates == {"draft", "active", "inactive"}

RouteTypeOK ==
  /\ tver \in Seq({"draft", "active", "inactive"})
  /\ tptr \in -1..Len(tver)
  /\ down \in {"", "source", "endpoint"}
  /\ rkind \in {"subscription", "route"}
  /\ rrow # None => rrow.state \in RouteStates \cup {"disabled"} /\ rrow.pin \in 0..Len(tver)
  /\ Len(rver) <= MaxRouteVersion
  /\ \A s \in Sessions : rtx[s].at \in {"idle", "activating", "updating"}

RouteInit ==
  /\ tver = <<>> /\ tptr = -1
  /\ down = ""
  /\ rkind \in {"subscription", "route"}
  /\ rrow = None /\ rver = <<>>
  /\ rtx = [s \in Sessions |-> Idle]

-----------------------------------------------------------------------------
(* Transformations.  ParseOperations: 1 to 100 valid operations. *)
OperationLists == {"none", "malformed", "empty", "parsed", "more than 100", "protected path"}

ParseOperations(ops) == ops = "parsed"

CreateTransformationRequests ==
  {q \in [name : BOOLEAN, operations : OperationLists] :
     /\ Allowed("routes:write")
     /\ q.name /\ (q.operations = "none" \/ ParseOperations(q.operations))}

CreateTransformationVersionRequests ==
  {q \in OperationLists : Allowed("routes:write") /\ q # "none" /\ ParseOperations(q)}

ActivateTransformationVersionRequests ==
  {q \in [reason : BOOLEAN] : Allowed("routes:write") /\ q.reason}

(* insertTransformationVersion: the next number, its config version too. *)
InsertTransformationVersion(state) ==
  Len(tver) < MaxTransformationVersion /\ tver' = Append(tver, state)

(* With operations, version 1 is created active and pointed to. *)
CreateTransformation ==
  /\ tptr = -1
  /\ \E q \in CreateTransformationRequests :
       IF q.operations = "none" THEN tptr' = 0 /\ UNCHANGED tver
       ELSE InsertTransformationVersion("active") /\ tptr' = 1
  /\ UNCHANGED <<down, rkind, rrow, rver, rtx>>

CreateTransformationVersion ==
  /\ tptr # -1 /\ CreateTransformationVersionRequests # {}
  /\ InsertTransformationVersion("draft")
  /\ UNCHANGED <<tptr, down, rkind, rrow, rver, rtx>>

(* The rows UPDATE ... SET state='inactive' WHERE id<>v AND state='active' *)
(* demotes; version v itself is already 'active' in this transaction.      *)
OtherActive(v) == {w \in DOMAIN tver : w # v /\ tver[w] = "active"}

ActivateTransformationVersion(s) ==
  /\ rtx[s] = Idle /\ ActivateTransformationVersionRequests # {}
  /\ \E v \in DOMAIN tver :
       rtx' = [rtx EXCEPT ![s] = [at |-> "activating", v |-> v, off |-> OtherActive(v)]]
  /\ UNCHANGED <<tver, tptr, down, rkind, rrow, rver>>

CommitActivation(s) ==
  /\ rtx[s].at = "activating"
  /\ tver' = [w \in DOMAIN tver |-> IF w \in rtx[s].off THEN "inactive"
                                    ELSE IF w = rtx[s].v THEN "active" ELSE tver[w]]
  /\ tptr' = rtx[s].v
  /\ rtx' = [rtx EXCEPT ![s] = Idle]
  /\ UNCHANGED <<down, rkind, rrow, rver>>

(* activeTransformationVersionID: the pointer, joined with its state. *)
ActiveTransformationVersionID == IF tptr > 0 /\ tver[tptr] = "active" THEN {tptr} ELSE {}

-----------------------------------------------------------------------------
RequireActiveSource == down # "source"

RequireActiveEndpoint == down # "endpoint"

(* updateSource, updateEndpoint (module SourceConfig) disable and enable    *)
(* the references; one at a time is disabled.                              *)
ReferenceChanges ==
  /\ down' \in {"", "source", "endpoint"} \ {down}
  /\ "" \in {down, down'}
  /\ UNCHANGED <<tver, tptr, rkind, rrow, rver, rtx>>

(* A request names a transformation or none; an update may leave it alone. *)
Pins(transformation, old) ==
  CASE transformation = "named" -> ActiveTransformationVersionID
    [] transformation = "none" -> {0}
    [] transformation = "keep" -> {old}

CreateSubscriptionRequests ==
  {q \in [endpoint : BOOLEAN, types : BOOLEAN, transformation : {"named", "none"}] :
     Allowed("subscriptions:write") /\ q.endpoint /\ q.types}

CreateRouteRequests ==
  {q \in [source : BOOLEAN, endpoint : BOOLEAN, types : BOOLEAN, name : BOOLEAN, priority : {-1, 0, 1},
          state : RouteStates \cup {"", "other"}, transformation : {"named", "none"}] :
     /\ Allowed("routes:write")
     /\ q.source /\ q.endpoint /\ q.types /\ q.name
     /\ q.state # "other" /\ q.priority >= 0}

(* The parts of the accepted requests that the store's effect depends on. *)
CreateRouteChoices == {<<q.state, q.transformation>> : q \in CreateRouteRequests}

(* INSERT the row, its version row 1, and point active_version_id to it. *)
InsertVersioned(state, pin) ==
  /\ rrow = None
  /\ rver' = <<[state |-> state, pin |-> pin]>>
  /\ rrow' = [state |-> state, pin |-> pin, ver |-> 1, active |-> 1]
  /\ UNCHANGED <<tver, tptr, down, rkind, rtx>>

CreateSubscription ==
  /\ rkind = "subscription" /\ RequireActiveEndpoint
  /\ \E q \in CreateSubscriptionRequests : \E pin \in Pins(q.transformation, 0) : InsertVersioned("active", pin)

CreateRoute ==
  /\ rkind = "route" /\ RequireActiveSource /\ RequireActiveEndpoint
  /\ \E <<st, tr>> \in CreateRouteChoices :
       \E pin \in Pins(tr, 0) : InsertVersioned(IF st = "" THEN "draft" ELSE st, pin)

UpdateSubscriptionRequests ==
  {q \in [state : {"", "active", "disabled", "other"}, endpoint : {"keep", "given", "empty"},
          transformation : {"named", "none", "keep"}, field : BOOLEAN, reason : BOOLEAN] :
     /\ Allowed("subscriptions:write") /\ q.reason
     /\ q.field \/ q.state # "" \/ q.endpoint # "keep" \/ q.transformation # "keep"
     /\ q.endpoint # "empty" /\ q.state # "other"}

UpdateRouteRequests_AnyState ==
  {q \in [state : RouteStates \cup {"", "other"}, source : {"keep"}, endpoint : {"keep"},
          transformation : {"named", "none", "keep"}, field : BOOLEAN, reason : BOOLEAN] :
     /\ Allowed("routes:write") /\ q.reason
     /\ q.field \/ q.state # "" \/ q.transformation # "keep"}

UpdateRouteRequests ==
  {q \in [state : RouteStates \cup {"", "other"}, source : {"keep", "given", "empty"},
          endpoint : {"keep", "given", "empty"}, transformation : {"named", "none", "keep"},
          field : BOOLEAN, reason : BOOLEAN] :
     /\ Allowed("routes:write") /\ q.reason
     /\ q.field \/ q.state # "" \/ q.source # "keep" \/ q.endpoint # "keep" \/ q.transformation # "keep"
     /\ q.source # "empty" /\ q.endpoint # "empty" /\ q.state # "other"}

UpdateSubscriptionChoices ==
  {<<q.state, q.endpoint, q.transformation>> : q \in UpdateSubscriptionRequests}

UpdateRouteChoices ==
  {<<q.state, q.source, q.endpoint, q.transformation>> : q \in UpdateRouteRequests}

DeleteSubscriptionRequests == {q \in [reason : BOOLEAN] : Allowed("subscriptions:write") /\ q.reason}

DeleteRouteRequests == {q \in [reason : BOOLEAN] : Allowed("routes:write") /\ q.reason}

ActivateRouteRequests == {q \in [reason : BOOLEAN] : Allowed("routes:write") /\ q.reason}

RowFree == \A s \in Sessions : rtx[s].at # "updating"

(* SELECT ... FOR UPDATE, the checks, the pin; the write is CommitUpdate. *)
LockAndRead(s, st, transformation) ==
  /\ rtx[s] = Idle /\ rrow # None /\ RowFree
  /\ \E pin \in Pins(transformation, rrow.pin) :
       rtx' = [rtx EXCEPT ![s] = [at |-> "updating", pin |-> pin, state |-> IF st = "" THEN rrow.state ELSE st]]
  /\ UNCHANGED <<tver, tptr, down, rkind, rrow, rver>>

UpdateSubscription(s) ==
  /\ rkind = "subscription"
  /\ \E <<st, e, tr>> \in UpdateSubscriptionChoices :
       (e = "given" => RequireActiveEndpoint) /\ LockAndRead(s, st, tr)

UpdateRoute(s) ==
  /\ rkind = "route"
  /\ \E <<st, so, e, tr>> \in UpdateRouteChoices :
       /\ so = "given" => RequireActiveSource
       /\ e = "given" => RequireActiveEndpoint
       /\ LockAndRead(s, st, tr)

DeleteSubscription(s) ==
  rkind = "subscription" /\ DeleteSubscriptionRequests # {} /\ LockAndRead(s, "disabled", "keep")

DeleteRoute(s) == rkind = "route" /\ DeleteRouteRequests # {} /\ LockAndRead(s, "inactive", "keep")

(* version+1, the version row (insertRouteVersion, insertSubscriptionVersion *)
(* with its config version) and the pointer to it, in one transaction.     *)
WriteVersioned(state, pin) ==
  /\ rrow.ver < MaxRouteVersion
  /\ rver' = Append(rver, [state |-> state, pin |-> pin])
  /\ rrow' = [state |-> state, pin |-> pin, ver |-> rrow.ver + 1, active |-> rrow.ver + 1]

CommitRouteUpdate(s) ==
  /\ rtx[s].at = "updating"
  /\ WriteVersioned(rtx[s].state, rtx[s].pin)
  /\ rtx' = [rtx EXCEPT ![s] = Idle]
  /\ UNCHANGED <<tver, tptr, down, rkind>>

ActivateRoute_NoVersion ==
  /\ rkind = "route" /\ rrow # None /\ RowFree /\ rrow.ver < MaxRouteVersion
  /\ rrow' = [rrow EXCEPT !.state = "active", !.ver = @ + 1]
  /\ UNCHANGED <<tver, tptr, down, rkind, rver, rtx>>

(* UPDATE ... SET state='active' checks no reference again. *)
ActivateRoute ==
  /\ rkind = "route" /\ ActivateRouteRequests # {} /\ rrow # None /\ RowFree
  /\ WriteVersioned("active", rrow.pin)
  /\ UNCHANGED <<tver, tptr, down, rkind, rtx>>

RollbackRoute(s) ==
  /\ rtx[s] # Idle
  /\ rtx' = [rtx EXCEPT ![s] = Idle]
  /\ UNCHANGED <<tver, tptr, down, rkind, rrow, rver>>

RouteNext ==
  \/ CreateTransformation \/ CreateTransformationVersion \/ ReferenceChanges
  \/ CreateSubscription \/ CreateRoute \/ ActivateRoute
  \/ \E s \in Sessions :
       \/ ActivateTransformationVersion(s) \/ CommitActivation(s)
       \/ UpdateSubscription(s) \/ DeleteSubscription(s) \/ UpdateRoute(s) \/ DeleteRoute(s)
       \/ CommitRouteUpdate(s) \/ RollbackRoute(s)

RouteSpec == RouteInit /\ [][RouteNext]_routeVars

-----------------------------------------------------------------------------
(* What routes an event can be reproduced later.  A subscription or route  *)
(* row is the copy of the version row its active_version_id names, its     *)
(* newest; no version row pins a transformation version still in draft,    *)
(* even when an activation commits between the pin's read and the write;   *)
(* and the version a transformation points to is active, however           *)
(* activations interleave, so that activeTransformationVersionID refuses   *)
(* none that was once activated.                                           *)
RoutesReproducible ==
  /\ rrow # None => /\ rrow.active = rrow.ver /\ rrow.ver = Len(rver)
                    /\ rver[rrow.active] = [state |-> rrow.state, pin |-> rrow.pin]
  /\ \A i \in DOMAIN rver : rver[i].pin # 0 => tver[rver[i].pin] # "draft"
  /\ tptr > 0 => tver[tptr] = "active"
=============================================================================
