----------------------------- MODULE DeadLetters -----------------------------
(***************************************************************************)
(* Dead-letter entries, their release, and the replay approval policies    *)
(* that decide whether the replay job a release creates must be approved.  *)
(* A release is four round trips with no transaction around them: read the *)
(* open entry, look the policies up one scope at a time, insert the replay *)
(* job, mark the entry released.  Any of them may be the last, and other   *)
(* sessions move in between.  What a job does once it exists is Fanout's.  *)
(***************************************************************************)
EXTENDS ControlPlane, SequencesExt

CONSTANTS DeadLetterEntries,     \* dead-letter entries of one tenant
          Governs,     \* Governs[e]: the scopes the replay of e falls under
          MaxReplays   \* bound: replay jobs created

ApprovalScopes == {"route", "source", "tenant"}

ASSUME DeadLetterAssumption ==
  /\ Governs \in [DeadLetterEntries -> SUBSET ApprovalScopes]
  /\ \A e \in DeadLetterEntries : "tenant" \in Governs[e]
  /\ MaxReplays \in Nat

VARIABLES
  entry,      \* dead_letter_entries.state
  approval,   \* replay_approval_policies.state by scope ("none": no row)
  replays,    \* the replay jobs, in the order they were inserted
  release,    \* each session's release or replay request
  excused     \* entries whose release overlapped another or was cut short

deadLetterVars == <<entry, approval, replays, release, excused>>

ReleaseSteps == {"read", "route", "source", "tenant", "insert", "mark"}

(* list: the entries left to release (BulkRelease); asked: require_approval *)
(* of the request; gated: a policy was found; governed: a matching policy   *)
(* was active at some instant since the lookup began; throughout: the       *)
(* scopes of those that were active ever since.                             *)
Releases ==
  {Idle} \cup [at : ReleaseSteps, origin : {"release", "request"}, list : Seq(DeadLetterEntries),
               asked : BOOLEAN, gated : BOOLEAN, governed : BOOLEAN, throughout : SUBSET ApprovalScopes]

ReplayRecords == [entry : DeadLetterEntries, origin : {"release", "request"}, asked : BOOLEAN,
                  gated : BOOLEAN, governed : BOOLEAN, throughout : SUBSET ApprovalScopes]

DeadLetterTypeOK ==
  /\ entry \in [DeadLetterEntries -> {"open", "released"}]
  /\ approval \in [ApprovalScopes -> {"none", "active", "disabled"}]
  /\ replays \in Seq(ReplayRecords)
  /\ release \in [Sessions -> Releases]
  /\ excused \subseteq DeadLetterEntries

DeadLetterInit ==
  /\ entry = [e \in DeadLetterEntries |-> "open"]
  /\ approval = [c \in ApprovalScopes |-> "none"]
  /\ replays = <<>>
  /\ release = [s \in Sessions |-> Idle]
  /\ excused = {}

-----------------------------------------------------------------------------
(* Replay approval policies. *)

(* require_approval FALSE is turned into TRUE, a missing expiry into a day; *)
(* source and route scopes need an id.                                      *)
ValidPolicyRequest(q) ==
  /\ q.scope \in ApprovalScopes
  /\ q.scope # "tenant" => q.id
  /\ q.reason
  /\ q.expiry = 0 \/ q.expiry \in 300..604800

PolicyRequests == [scope : ApprovalScopes \cup {"other"}, id : BOOLEAN, reason : BOOLEAN,
                   expiry : {0, 299, 300, 604800, 604801}]

CreateReplayApprovalPolicyRequests ==
  {q \in PolicyRequests : Allowed("security:write") /\ ValidPolicyRequest(q)}

PolicyScopes == {q.scope : q \in CreateReplayApprovalPolicyRequests}

DisableReplayApprovalPolicyRequests ==
  {q \in StateChanges : Allowed("security:write") /\ q.reason}

Governed(pol, e) == \E c \in Governs[e] : pol[c] = "active"

InLookup(r) == r.at \in {"route", "source", "tenant", "insert"}

(* What a request under way witnesses of a change of the policies. *)
Witness(r, pol) ==
  IF InLookup(r)
  THEN [r EXCEPT !.governed = @ \/ Governed(pol, r.list[1]),
                 !.throughout = {c \in @ : pol[c] = "active"}]
  ELSE r

SetPolicy(pol) ==
  /\ approval' = pol
  /\ release' = [s \in Sessions |-> Witness(release[s], pol)]
  /\ UNCHANGED <<entry, replays, excused>>

(* Upsert by scope: an existing row becomes active again. *)
CreateReplayApprovalPolicy ==
  \E c \in PolicyScopes : SetPolicy([approval EXCEPT ![c] = "active"])

DisableReplayApprovalPolicy ==
  /\ DisableReplayApprovalPolicyRequests # {}
  /\ \E c \in ApprovalScopes : /\ approval[c] # "none"
                       /\ SetPolicy([approval EXCEPT ![c] = "disabled"])

-----------------------------------------------------------------------------
(* Replay requests. *)

ReasonCodes == {"receiver_fixed", "provider_reconciliation", "operator_requested",
                "support_investigation", "customer_dispute", "test_drill", "incident_recovery"}

ValidateReplayReasonCode(code) == code \in ReasonCodes

(* expires: "" (none given), "past" or "future". *)
NormalizeReplayRequest(q) ==
  /\ q.reason /\ ValidateReplayReasonCode(q.code)
  /\ q.mode \in {"", "current", "original"}
  /\ q.rate \in 0..60000
  /\ ~q.approve => q.expires = ""
  /\ q.approve => q.expires # "past"
  /\ q.target

ReplayRequests ==
  [reason : BOOLEAN, code : {"receiver_fixed", "other"}, mode : {"", "original", "other"},
   rate : {0, 60000, 60001}, approve : BOOLEAN, expires : {"", "past", "future"},
   target : BOOLEAN]

CreateReplayRequests ==
  {q \in ReplayRequests : Allowed("replay:write") /\ NormalizeReplayRequest(q)}

ReplayApprovals == {q.approve : q \in CreateReplayRequests}

ReleaseRequests == [reason : BOOLEAN, code : {"receiver_fixed", "other"}]

ReleaseDeadLetterRequests ==
  {q \in ReleaseRequests : /\ Allowed("deliveries:retry")
                           /\ q.reason /\ ValidateReplayReasonCode(q.code)}

-----------------------------------------------------------------------------
(* The steps of a request. *)

Proceed(s, r) == release' = [release EXCEPT ![s] = r]

NewRequest(origin, at, list, asked) ==
  [at |-> at, origin |-> origin, list |-> list, asked |-> asked, gated |-> FALSE,
   governed |-> FALSE, throughout |-> {}]

(* The lookup begins: it witnesses the policies as they are. *)
StartLookup(r) ==
  Witness([r EXCEPT !.at = "route", !.throughout = Governs[r.list[1]]], approval)

CreateReplay(s) ==
  /\ release[s] = Idle
  /\ \E e \in DeadLetterEntries, a \in ReplayApprovals :
        Proceed(s, StartLookup(NewRequest("request", "route", <<e>>, a)))
  /\ UNCHANGED <<entry, approval, replays, excused>>

ReleaseDeadLetter(s) ==
  /\ release[s] = Idle /\ ReleaseDeadLetterRequests # {}
  /\ \E e \in DeadLetterEntries : Proceed(s, NewRequest("release", "read", <<e>>, FALSE))
  /\ UNCHANGED <<entry, approval, replays, excused>>

(* With no ids given: the open entries, oldest first (any fixed order). *)
BulkReleaseDeadLetter(s) ==
  /\ release[s] = Idle /\ ReleaseDeadLetterRequests # {}
  /\ \E open \in {{e \in DeadLetterEntries : entry[e] = "open"}} :
        /\ open # {}
        /\ Proceed(s, NewRequest("release", "read", SetToSeq(open), FALSE))
  /\ UNCHANGED <<entry, approval, replays, excused>>

(* Another request holds e, past its read and before its mark. *)
Releasing(s, e) ==
  \E t \in Sessions \ {s} : /\ release[t] # Idle /\ release[t].at # "read"
                            /\ release[t].origin = "release" /\ release[t].list[1] = e

(* No open row is ErrNotFound, which also ends a bulk release. *)
ReadEntry(s) ==
  /\ release[s] # Idle /\ release[s].at = "read"
  /\ LET e == release[s].list[1]
     IN IF entry[e] = "open"
        THEN /\ Proceed(s, StartLookup(release[s]))
             /\ excused' = IF Releasing(s, e) THEN excused \cup {e} ELSE excused
        ELSE Proceed(s, Idle) /\ UNCHANGED excused
  /\ UNCHANGED <<entry, approval, replays>>

(* One query: the policy of the scope, active and requiring approval. *)
PolicyAt(c) == approval[c] = "active"

LookUpPolicy_SkipsSource(s) ==
  /\ release[s] # Idle /\ release[s].at \in ApprovalScopes
  /\ LET r == release[s]
         found == r.at \in Governs[r.list[1]] /\ PolicyAt(r.at)
     IN Proceed(s, [r EXCEPT !.at = IF found \/ r.at = "tenant" THEN "insert" ELSE "tenant", !.gated = found])
  /\ UNCHANGED <<entry, approval, replays, excused>>

(* replayApprovalPolicyForReplay: one query per scope the target has, the  *)
(* most specific first; the first policy found ends the lookup.            *)
LookUpPolicy(s) ==
  /\ release[s] # Idle /\ release[s].at \in ApprovalScopes
  /\ LET r == release[s]
         c == r.at
         next == CASE c = "route" -> "source" [] c = "source" -> "tenant" [] OTHER -> "insert"
         found == c \in Governs[r.list[1]] /\ PolicyAt(c)
     IN Proceed(s, [r EXCEPT !.at = IF found THEN "insert" ELSE next, !.gated = found])
  /\ UNCHANGED <<entry, approval, replays, excused>>

(* The job: pending_approval when asked for or when a policy was found,    *)
(* else scheduled.                                                         *)
InsertReplay(s) ==
  /\ release[s] # Idle /\ release[s].at = "insert"
  /\ Len(replays) < MaxReplays
  /\ LET r == release[s]
     IN /\ replays' = Append(replays,
             [entry |-> r.list[1], origin |-> r.origin, asked |-> r.asked,
              gated |-> r.gated \/ r.asked, governed |-> r.governed,
              throughout |-> r.throughout])
        /\ Proceed(s, IF r.origin = "request" THEN Idle ELSE [r EXCEPT !.at = "mark"])
  /\ UNCHANGED <<entry, approval, excused>>

MarkReleased_LeavesOpen(s) ==
  /\ release[s] # Idle /\ release[s].at = "mark"
  /\ Proceed(s, IF Len(release[s].list) = 1 THEN Idle
             ELSE NewRequest("release", "read", Tail(release[s].list), FALSE))
  /\ UNCHANGED <<entry, approval, replays, excused>>

(* released whatever the state meanwhile, with the audit event; a bulk     *)
(* release goes on to the next entry.                                      *)
MarkReleased(s) ==
  /\ release[s] # Idle /\ release[s].at = "mark"
  /\ entry' = [entry EXCEPT ![release[s].list[1]] = "released"]
  /\ Proceed(s, IF Len(release[s].list) = 1 THEN Idle
             ELSE NewRequest("release", "read", Tail(release[s].list), FALSE))
  /\ UNCHANGED <<approval, replays, excused>>

(* The request dies: a crash, a lost connection or a failed statement.     *)
AbandonRelease(s) ==
  /\ release[s] # Idle
  /\ excused' = IF release[s].at = "mark" THEN excused \cup {release[s].list[1]} ELSE excused
  /\ Proceed(s, Idle)
  /\ UNCHANGED <<entry, approval, replays>>

ReleaseNext ==
  \E s \in Sessions :
    \/ ReleaseDeadLetter(s) \/ BulkReleaseDeadLetter(s) \/ ReadEntry(s)
    \/ LookUpPolicy(s) \/ InsertReplay(s) \/ MarkReleased(s) \/ AbandonRelease(s)

ApprovalNext ==
  \/ CreateReplayApprovalPolicy \/ DisableReplayApprovalPolicy
  \/ \E s \in Sessions :
       CreateReplay(s) \/ LookUpPolicy(s) \/ InsertReplay(s) \/ AbandonRelease(s)

DeadLetterNext == ReleaseNext \/ ApprovalNext

DeadLetterSpec == DeadLetterInit /\ [][DeadLetterNext]_deadLetterVars

-----------------------------------------------------------------------------
ReplaysOf(e) == {i \in DOMAIN replays : replays[i].entry = e /\ replays[i].origin = "release"}

(* A released entry has a replay job: whatever step a release dies at, an  *)
(* entry never leaves the open list without the work that replaces it.     *)
(* And one entry gets a second job only when two releases overlapped on    *)
(* it or one was cut short between its job and its mark; the open check    *)
(* stops every later release.                                              *)
ReleasedOnce ==
  \A e \in DeadLetterEntries :
    /\ entry[e] = "released" => ReplaysOf(e) # {}
    /\ Cardinality(ReplaysOf(e)) > 1 => e \in excused

(* Each scope is looked up by a query of its own while policies change.    *)
(* Still, a policy that matches a replay and is active all through the     *)
(* lookup holds the job for approval ("Active replay approval policies ... *)
(* make replay jobs pending approval before delivery work is enqueued",    *)
(* docs/feature-behavior.md), and a job nobody asked approval for is held  *)
(* only if a matching policy was active at some instant of the lookup.     *)
GatedIffGoverned ==
  \A i \in DOMAIN replays :
    /\ replays[i].throughout # {} => replays[i].gated
    /\ replays[i].gated => replays[i].asked \/ replays[i].governed
=============================================================================
