-------------------------------- MODULE Ingest --------------------------------
(***************************************************************************)
(* Capture of inbound webhooks and product events (internal/app/service.go,*)
(* internal/adapters/postgres/store_ingest.go), the quarantine of what did *)
(* not verify, and the reads of what was captured.  The raw body goes to   *)
(* the object store before the transaction that records it begins, so that *)
(* the two can part: the transaction fails, its commit is reported failed  *)
(* though it happened, or the process dies in between.                     *)
(***************************************************************************)
EXTENDS ControlPlane

CONSTANTS MaxCaptures,      \* bound on the requests captured
          MaxReleases       \* bound on the route_event rows of one event

ASSUME IngestAssumption == MaxCaptures \in Nat /\ MaxReleases \in Nat \ {0}

VARIABLES
  captured,   \* sequence, by time of arrival, of [choice, row]: row is "none" or
              \* "stored", the raw_payloads row's status
  objects,    \* captures whose body is in the object store
  event,      \* key -> the capture that created the key's event, or 0
  envelope,   \* keys whose event has a normalized envelope
  routed,     \* key -> number of route_event rows written for its event
  quarantine, \* capture -> "none", "open", "approved" or "rejected"
  answered,   \* captures answered with 2xx
  handler     \* session -> the capture it is in the middle of, or 0

ingestVars == <<captured, objects, event, envelope, routed, quarantine, answered, handler>>

-----------------------------------------------------------------------------
(* A request, by what capture() tells apart: the endpoint it was sent to   *)
(* (/v1/events takes product events); the source's state; whether the    *)
(* registry or an active declarative version knows its adapter (else       *)
(* generic-unsafe, which never verifies); which secrets the source has and *)
(* which one signed the body; the provider's event id and the body.        *)
InboundRequests ==
  [endpoint : {"provider", "product"}, source : {"active", "disabled"},
   adapter : {"registered", "declarative", "unknown", "cloudevents"},
   secrets : {{}, {"new"}, {"new", "old"}}, signedWith : {"none", "new", "old"},
   id : {"", "a"}, body : {"x"}]

(* The first adapter found: registered, else declarative, else unsafe. *)
AdapterOf(q) == IF q.adapter = "unknown" THEN "generic-unsafe" ELSE q.adapter

(* Each verification secret is tried in turn. *)
Verified(q) == AdapterOf(q) # "generic-unsafe" /\ q.signedWith \in q.secrets

(* The provider's id if the metadata has one, else the hash of the body.   *)
(* It is computed whether or not the request verifies.                     *)
DedupeKey(q) == IF q.id # "" THEN <<"id", q.id>> ELSE <<"hash", q.body>>

(* Normalization is tried for verified requests only, and may fail. *)
Normalizes(q) == IF Verified(q) THEN BOOLEAN ELSE {FALSE}

(* What is answered with 2xx: verified requests, those of a cloudevents    *)
(* source, and every product event that is captured.                       *)
Accepted(q) == Verified(q) \/ q.adapter = "cloudevents" \/ q.endpoint = "product"

CaptureChoices ==
  UNION {{[key |-> DedupeKey(q), verified |-> Verified(q), accepted |-> Accepted(q), normalized |-> n] :
            n \in Normalizes(q)} : q \in {q \in InboundRequests : q.source = "active"}}

Keys == {c.key : c \in CaptureChoices}

-----------------------------------------------------------------------------
IngestTypeOK ==
  /\ captured \in Seq([choice : CaptureChoices, row : {"none", "stored"}])
  /\ objects \subseteq DOMAIN captured /\ answered \subseteq DOMAIN captured
  /\ event \in [Keys -> 0..MaxCaptures] /\ envelope \subseteq Keys
  /\ routed \in [Keys -> 0..MaxReleases]
  /\ quarantine \in [1..MaxCaptures -> {"none", "open", "approved", "rejected"}]
  /\ handler \in [Sessions -> 0..MaxCaptures]

IngestInit ==
  /\ captured = <<>> /\ objects = {} /\ envelope = {} /\ answered = {}
  /\ event = [k \in Keys |-> 0] /\ routed = [k \in Keys |-> 0]
  /\ quarantine = [c \in 1..MaxCaptures |-> "none"]
  /\ handler = [s \in Sessions |-> 0]

Done(s) == handler' = [handler EXCEPT ![s] = 0]

Choice(s) == captured[handler[s]].choice

(* capture() up to prepareRawPayloadStorage: the body is put. *)
Capture(s) ==
  /\ handler[s] = 0 /\ Len(captured) < MaxCaptures
  /\ \E c \in CaptureChoices : captured' = Append(captured, [choice |-> c, row |-> "none"])
  /\ objects' = objects \cup {Len(captured')}
  /\ handler' = [handler EXCEPT ![s] = Len(captured')]
  /\ UNCHANGED <<event, envelope, routed, quarantine, answered>>

(* The transaction: the raw row; the event, unless its key exists (the     *)
(* unique key makes a concurrent one wait); its envelope and outbox row;   *)
(* the receipt; a quarantine entry when it did not verify.                 *)
CaptureTx_RoutesDuplicates(s) ==
  LET c == handler[s]
      new == event[Choice(s).key] = 0
  IN /\ captured' = [captured EXCEPT ![c].row = "stored"]
     /\ event' = IF new THEN [event EXCEPT ![Choice(s).key] = c] ELSE event
     /\ envelope' = IF new /\ Choice(s).normalized THEN envelope \cup {Choice(s).key} ELSE envelope
     /\ routed' = [routed EXCEPT ![Choice(s).key] = @ + 1]
     /\ quarantine' = IF Choice(s).verified THEN quarantine ELSE [quarantine EXCEPT ![c] = "open"]

CaptureTx(s) ==
  LET c == handler[s]
      new == event[Choice(s).key] = 0
  IN /\ captured' = [captured EXCEPT ![c].row = "stored"]
     /\ event' = IF new THEN [event EXCEPT ![Choice(s).key] = c] ELSE event
     /\ envelope' = IF new /\ Choice(s).normalized THEN envelope \cup {Choice(s).key} ELSE envelope
     /\ routed' = IF new THEN [routed EXCEPT ![Choice(s).key] = @ + 1] ELSE routed
     /\ quarantine' = IF Choice(s).verified THEN quarantine ELSE [quarantine EXCEPT ![c] = "open"]

CaptureCommits(s) ==
  /\ handler[s] # 0 /\ CaptureTx(s)
  /\ answered' = IF Choice(s).accepted THEN answered \cup {handler[s]} ELSE answered
  /\ Done(s) /\ UNCHANGED objects

(* Commit reports an error: the object is deleted, whether or not the      *)
(* server had committed.                                                   *)
CommitReportedFailed_Answers(s) ==
  /\ handler[s] # 0
  /\ CaptureTx(s) \/ UNCHANGED <<captured, event, envelope, routed, quarantine>>
  /\ objects' = objects \ {handler[s]}
  /\ answered' = IF Choice(s).accepted THEN answered \cup {handler[s]} ELSE answered
  /\ Done(s)

CommitReportedFailed(s) ==
  /\ handler[s] # 0
  /\ CaptureTx(s) \/ UNCHANGED <<captured, event, envelope, routed, quarantine>>
  /\ objects' = objects \ {handler[s]}
  /\ Done(s) /\ UNCHANGED answered

(* A statement fails: Begin and the raw_payloads insert delete the object, *)
(* every later one leaves it behind.                                       *)
CaptureFails(s) ==
  /\ handler[s] # 0
  /\ objects' \in {objects, objects \ {handler[s]}}
  /\ Done(s) /\ UNCHANGED <<captured, event, envelope, routed, quarantine, answered>>

(* The process dies before the commit, or after it and before the answer. *)
CaptureCrashes(s) ==
  /\ handler[s] # 0
  /\ CaptureTx(s) \/ UNCHANGED <<captured, event, envelope, routed, quarantine>>
  /\ Done(s) /\ UNCHANGED <<objects, answered>>

-----------------------------------------------------------------------------
ApproveQuarantineRequests ==
  {q \in [reason : BOOLEAN, route : BOOLEAN] : Allowed("security:write") /\ q.reason}

RejectQuarantineRequests == {q \in [reason : BOOLEAN] : Allowed("security:write") /\ q.reason}

(* UPDATE ... WHERE state='open', and the outbox row, in one transaction.  *)
ApproveQuarantine ==
  /\ \E c \in DOMAIN captured, q \in ApproveQuarantineRequests :
       LET k == captured[c].choice.key
       IN /\ quarantine[c] = "open" /\ (q.route => routed[k] < MaxReleases)
          /\ quarantine' = [quarantine EXCEPT ![c] = "approved"]
          /\ routed' = IF q.route THEN [routed EXCEPT ![k] = @ + 1] ELSE routed
  /\ UNCHANGED <<captured, objects, event, envelope, answered, handler>>

RejectQuarantine ==
  /\ RejectQuarantineRequests # {}
  /\ \E c \in DOMAIN captured :
       quarantine[c] = "open" /\ quarantine' = [quarantine EXCEPT ![c] = "rejected"]
  /\ UNCHANGED <<captured, objects, event, envelope, routed, answered, handler>>

IngestNext ==
  \/ ApproveQuarantine \/ RejectQuarantine
  \/ \E s \in Sessions :
       \/ Capture(s) \/ CaptureCommits(s) \/ CommitReportedFailed(s)
       \/ CaptureFails(s) \/ CaptureCrashes(s)

IngestSpec == IngestInit /\ [][IngestNext]_ingestVars

-----------------------------------------------------------------------------
(* A request answered with 2xx is recorded whole: its raw row is there     *)
(* with its object, its key has an event, and the event was handed to the  *)
(* outbox, whatever failed or crashed around it.                           *)
AnsweredIsDurable ==
  \A c \in answered :
    /\ captured[c].row = "stored" /\ c \in objects
    /\ event[captured[c].choice.key] # 0
    /\ routed[captured[c].choice.key] > 0

(* Redeliveries of one key, concurrent or not, hand its event to the       *)
(* outbox once; only approvals of distinct quarantine entries add to it.   *)
RoutedOncePerKey ==
  \A k \in Keys :
    routed[k] <= 1 + Cardinality({c \in DOMAIN captured :
                                   captured[c].choice.key = k /\ quarantine[c] = "approved"})
=============================================================================
