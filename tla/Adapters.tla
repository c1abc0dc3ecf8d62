------------------------------- MODULE Adapters -------------------------------
(***************************************************************************)
(* The adapter registry of one tenant: one provider adapter, its versions  *)
(* and the governance states a version moves through.  A transition locks  *)
(* the row of its own version; an activation then deprecates the versions  *)
(* it sees active, waiting for the rows other transactions hold.           *)
(***************************************************************************)
EXTENDS ControlPlane

CONSTANTS MaxAdapterVersions,   \* bound: versions created
          MaxReviews            \* bound: transitions of one version

ASSUME AdapterAssumption == MaxAdapterVersions \in Nat /\ MaxReviews \in Nat

VARIABLES
  adapter,    \* provider_adapters: its kind ("none": no row)
  version,    \* adapter_versions: state, whether it has test vectors
  reviews,    \* adapter_version_reviews of each version, oldest first
  govern,     \* each session's transition
  raced       \* two activations overlapped

adapterVars == <<adapter, version, reviews, govern, raced>>

VersionStates == {"draft", "automated_tests", "security_review", "staging_approved",
                  "active", "deprecated", "retired"}

Actions == {"submit_tests", "request_review", "approve_staging", "activate",
            "deprecate", "retire"}

AdapterTypeOK ==
  /\ adapter \in {"none", "declarative", "plugin"}
  /\ version \in Seq([state : VersionStates, vectors : BOOLEAN])
  /\ reviews \in Seq(Seq(Actions)) /\ Len(reviews) = Len(version)
  /\ \A s \in Sessions :
       \/ govern[s] = Idle
       \/ govern[s] \in [at : {"locked", "ready"}, version : 1..Len(version), action : Actions,
                         next : VersionStates, others : SUBSET (1..Len(version))]
  /\ raced \in BOOLEAN

AdapterInit ==
  /\ adapter = "none" /\ version = <<>> /\ reviews = <<>>
  /\ govern = [s \in Sessions |-> Idle]
  /\ raced = FALSE

-----------------------------------------------------------------------------
Risks == {"", "low", "medium", "high"}

(* name: "" or a name in safe or other characters. *)
ValidAdapterRequest(q) ==
  /\ q.name = "safe"
  /\ q.kind \in {"", "declarative", "plugin"}
  /\ q.risk \in Risks

CreateProviderAdapterRequests ==
  {q \in [name : {"", "safe", "other"}, kind : {"", "declarative", "plugin", "other"},
          risk : {"", "low", "other"}] :
     Allowed("security:write") /\ ValidAdapterRequest(q)}

AdapterKinds == {IF q.kind = "" THEN "declarative" ELSE q.kind : q \in CreateProviderAdapterRequests}

(* json: "" (absent), "invalid", "sensitive" (a key names a secret, token, *)
(* password or private key, at any depth) or "plain".                      *)
ContainsSensitiveAdapterField(json) == json = "sensitive"

ValidAdapterVersionRequest(q) ==
  /\ q.version /\ q.reason
  /\ q.definition # "invalid"
  /\ ~ContainsSensitiveAdapterField(q.definition)
  /\ q.risk \in Risks

CreateAdapterVersionRequests ==
  {q \in [version : BOOLEAN, reason : BOOLEAN, risk : {"", "other"},
          definition : {"", "invalid", "sensitive", "plain"}, package : BOOLEAN] :
     Allowed("security:write") /\ ValidAdapterVersionRequest(q)}

ValidAdapterTestVectorRequest(q) ==
  /\ q.name
  /\ q.request \notin {"", "invalid"} /\ q.expected \notin {"", "invalid"}
  /\ ~ContainsSensitiveAdapterField(q.request) /\ ~ContainsSensitiveAdapterField(q.expected)

CreateAdapterTestVectorRequests ==
  {q \in [name : BOOLEAN, request : {"", "invalid", "sensitive", "plain"},
          expected : {"", "invalid", "sensitive", "plain"}] :
     Allowed("security:write") /\ ValidAdapterTestVectorRequest(q)}

TransitionAdapterVersionRequests ==
  {q \in [action : Actions \cup {"other"}, reason : BOOLEAN, results : {"", "invalid", "plain"}] :
     Allowed("security:write") /\ q.reason /\ q.action \in Actions /\ q.results # "invalid"}

TransitionActions == {q.action : q \in TransitionAdapterVersionRequests}

-----------------------------------------------------------------------------
CreateProviderAdapter ==
  /\ adapter = "none"
  /\ adapter' \in AdapterKinds
  /\ UNCHANGED <<version, reviews, govern, raced>>

(* A plugin needs its package's hashes and signature, a declarative        *)
(* adapter its definition.                                                 *)
VersionComplete(q) == IF adapter = "plugin" THEN q.package ELSE q.definition = "plain"

CreateAdapterVersion ==
  /\ adapter # "none" /\ Len(version) < MaxAdapterVersions
  /\ \E q \in CreateAdapterVersionRequests : VersionComplete(q)
  /\ version' = Append(version, [state |-> "draft", vectors |-> FALSE])
  /\ reviews' = Append(reviews, <<>>)
  /\ UNCHANGED <<adapter, govern, raced>>

(* Rows a session's transaction holds. *)
Held(s) == IF govern[s] = Idle THEN {} ELSE {govern[s].version} \cup govern[s].others

LockedFor(s) == UNION {Held(t) : t \in Sessions \ {s}}

(* A vector is its own row: the version needs to exist, nothing more. *)
CreateAdapterTestVector(v) ==
  /\ CreateAdapterTestVectorRequests # {} /\ ~version[v].vectors
  /\ version' = [version EXCEPT ![v].vectors = TRUE]
  /\ UNCHANGED <<adapter, reviews, govern, raced>>

(* An activation skips the approval for staging. *)
AdapterVersionNextState_ActivatesReviewed(state, action) ==
  CASE action = "submit_tests" /\ state = "draft" -> {"automated_tests"}
    [] action = "request_review" /\ state = "automated_tests" -> {"security_review"}
    [] action = "approve_staging" /\ state = "security_review" -> {"staging_approved"}
    [] action = "activate" /\ state \in {"security_review", "staging_approved"} -> {"active"}
    [] action = "deprecate" /\ state \in {"active", "staging_approved"} -> {"deprecated"}
    [] action = "retire" /\ state # "active" -> {"retired"}
    [] OTHER -> {}

(* The state the action leads to; none where it is refused. *)
AdapterVersionNextState(state, action) ==
  CASE action = "submit_tests" /\ state = "draft" -> {"automated_tests"}
    [] action = "request_review" /\ state = "automated_tests" -> {"security_review"}
    [] action = "approve_staging" /\ state = "security_review" -> {"staging_approved"}
    [] action = "activate" /\ state = "staging_approved" -> {"active"}
    [] action = "deprecate" /\ state \in {"active", "staging_approved"} -> {"deprecated"}
    [] action = "retire" /\ state # "active" -> {"retired"}
    [] OTHER -> {}

(* SELECT ... FOR UPDATE of the version, and the state it allows. *)
TransitionAdapterVersion(s, v) ==
  /\ govern[s] = Idle /\ v \notin LockedFor(s) /\ Len(reviews[v]) < MaxReviews
  /\ \E a \in TransitionActions : \E n \in AdapterVersionNextState(version[v].state, a) :
        /\ govern' = [govern EXCEPT ![s] =
             [at |-> IF a = "activate" THEN "locked" ELSE "ready", version |-> v,
              action |-> a, next |-> n, others |-> {}]]
        /\ raced' = (raced \/ /\ a = "activate"
                              /\ \E t \in Sessions \ {s} : govern[t] # Idle /\ govern[t].action = "activate")
  /\ UNCHANGED <<adapter, version, reviews>>

(* The other versions committed as active, once their locks are released. *)
DeprecateOthers(s) ==
  /\ govern[s] # Idle /\ govern[s].at = "locked"
  /\ LET others == {v \in DOMAIN version \ {govern[s].version} : version[v].state = "active"}
     IN /\ others \cap LockedFor(s) = {}
        /\ govern' = [govern EXCEPT ![s].at = "ready", ![s].others = others]
  /\ UNCHANGED <<adapter, version, reviews, raced>>

CommitTransition(s) ==
  /\ govern[s] # Idle /\ govern[s].at = "ready"
  /\ LET g == govern[s]
     IN /\ version' = [v \in DOMAIN version |->
              [version[v] EXCEPT !.state = IF v = g.version THEN g.next
                                           ELSE IF v \in g.others THEN "deprecated" ELSE @]]
        /\ reviews' = [reviews EXCEPT ![g.version] = Append(@, g.action)]
  /\ govern' = [govern EXCEPT ![s] = Idle]
  /\ UNCHANGED <<adapter, raced>>

(* A crash or an error: the transaction is rolled back. *)
AbandonTransition(s) ==
  /\ govern[s] # Idle
  /\ govern' = [govern EXCEPT ![s] = Idle]
  /\ UNCHANGED <<adapter, version, reviews, raced>>

AdapterNext ==
  \/ CreateProviderAdapter \/ CreateAdapterVersion
  \/ \E v \in DOMAIN version : CreateAdapterTestVector(v)
  \/ \E s \in Sessions :
       \/ \E v \in DOMAIN version : TransitionAdapterVersion(s, v)
       \/ DeprecateOthers(s) \/ CommitTransition(s) \/ AbandonTransition(s)

AdapterSpec == AdapterInit /\ [][AdapterNext]_adapterVars

-----------------------------------------------------------------------------
(* Every active version has been through tests, review, approval and       *)
(* activation, in that order and with nothing else in between, and no two  *)
(* versions are active unless their activations overlapped: concurrent     *)
(* transitions of one version never act on a state another has left        *)
(* ("moved through approval states before activation").                    *)
ActiveWasReviewed ==
  \A v \in DOMAIN version :
    version[v].state = "active" =>
      /\ reviews[v] = <<"submit_tests", "request_review", "approve_staging", "activate">>
      /\ \A w \in DOMAIN version \ {v} : version[w].state = "active" => raced
=============================================================================
