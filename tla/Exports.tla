------------------------------- MODULE Exports -------------------------------
(***************************************************************************)
(* Evidence exports and incidents of one tenant.  CreateAuditExport reads  *)
(* the audit events, the bodies and the chain proof in statements of their *)
(* own while other transactions append to the chain and retention deletes; *)
(* it verifies the bundle, stores it (in the row or as an object) and      *)
(* inserts the ready row.  A failed commit deletes the object again, even  *)
(* when the database did commit.  Hashes are abstract: entry i has chain   *)
(* hash i and previous hash i - 1, and "" is 0.                            *)
(***************************************************************************)
EXTENDS ControlPlane, SequencesExt

CONSTANTS MaxLog,          \* bound: audit chain entries
          MaxStamp,         \* bound: the time stamps of audit events, 1..MaxStamp
          MaxExports,      \* bound: exports begun
          IncidentEvents   \* captured events an incident may hold

ASSUME ExportAssumption == MaxLog \in Nat /\ MaxStamp \in Nat \ {0} /\ MaxExports \in Nat

VARIABLES
  log,        \* audit chain: occurred_at of each event, and whether it is kept
  stored,     \* retention has not deleted the bodies yet (one flag for all kinds)
  storage,    \* rawStorageMode
  exports,    \* evidence_exports rows, by export id
  objects,    \* export ids whose bundle is in the object store
  maker,      \* each session's export, report or nothing
  used,       \* export ids handed out
  downloads,  \* who has downloaded what
  incident    \* the incident: exists, linked events, latest report snapshot

exportVars == <<log, stored, storage, exports, objects, maker, used, downloads, incident>>

BodyKinds == {"raw", "payload", "api"}

Windows == {w \in (0..MaxStamp) \X (0..MaxStamp) : w[1] = 0 \/ w[2] = 0 \/ w[1] <= w[2]}

(* raw, bodies: the inclusion flags; content: the kinds of bodies in the   *)
(* bundle; events: audit events (or, of an incident, its events); proof:   *)
(* the chain entries in audit_chain_proof.jsonl.                           *)
Bundles == [kind : {"audit", "incident"}, raw : BOOLEAN, bodies : BOOLEAN,
            content : SUBSET BodyKinds, events : SUBSET (1..MaxLog) \cup SUBSET IncidentEvents,
            proof : Seq(1..MaxLog)]

ExportTypeOK ==
  /\ log \in Seq([at : 1..MaxStamp, kept : BOOLEAN]) /\ Len(log) <= MaxLog
  /\ stored \in BOOLEAN /\ storage \in {"postgres", "s3"}
  /\ DOMAIN exports \subseteq 1..used /\ used <= MaxExports
  /\ \A x \in DOMAIN exports :
       exports[x].bundle \in Bundles /\ exports[x].told \in BOOLEAN
  /\ objects \subseteq 1..used
  /\ \A s \in Sessions :
       \/ maker[s] = Idle
       \/ /\ maker[s].at \in {"bodies", "proof", "rejected", "put", "insert", "report"}
          /\ maker[s].bundle \in Bundles
  /\ downloads \subseteq Actors \X (1..used)
  /\ incident.links \subseteq IncidentEvents /\ incident.exists \in BOOLEAN

ExportInit ==
  /\ log = <<>> /\ stored = TRUE /\ storage \in {"postgres", "s3"}
  /\ exports = <<>> /\ objects = {} /\ used = 0 /\ downloads = {}
  /\ maker = [s \in Sessions |-> Idle]
  /\ incident = [exists |-> FALSE, links |-> {}, report |-> {}]

-----------------------------------------------------------------------------
(* The environment: other operations append to the chain, retention        *)
(* deletes audit events (their entries stay as tombstones) and bodies.     *)

(* occurred_at is the start of the transaction, the place in the chain is  *)
(* taken later: stamps may be out of order by transactions that overlap.   *)
Stamps == {t \in 1..MaxStamp : \A i \in DOMAIN log : t >= log[i].at - 1}

Audited(t) == Append(log, [at |-> t, kept |-> TRUE])

AppendAudit ==
  /\ Len(log) < MaxLog
  /\ \E t \in Stamps : log' = Audited(t)
  /\ UNCHANGED <<stored, storage, exports, objects, maker, used, downloads, incident>>

RetireAudit ==
  /\ \E i \in DOMAIN log : log[i].kept /\ log' = [log EXCEPT ![i].kept = FALSE]
  /\ UNCHANGED <<stored, storage, exports, objects, maker, used, downloads, incident>>

RetireBodies ==
  /\ stored /\ stored' = FALSE
  /\ UNCHANGED <<log, storage, exports, objects, maker, used, downloads, incident>>

-----------------------------------------------------------------------------
(* Reading the evidence. *)

InWindow(e, w) == (w[1] = 0 \/ e.at >= w[1]) /\ (w[2] = 0 \/ e.at <= w[2])

AuditEventsForExport(w) == {i \in DOMAIN log : log[i].kept /\ InWindow(log[i], w)}

(* The end of the window is left out of the proof. *)
AuditChainProofForExport_OpenEnd(w) ==
  SetToSortSeq({i \in AuditEventsForExport(w) : w[2] = 0 \/ log[i].at < w[2]}, <)

(* Entries joined with their audit events, in chain order. *)
AuditChainProofForExport(w) == SetToSortSeq(AuditEventsForExport(w), <)

RawPayloadsForExport(raw) == IF raw /\ stored THEN {"raw"} ELSE {}

PayloadEvidenceForExport(include) == IF include /\ stored THEN {"payload"} ELSE {}

ProviderAPIEvidenceForExport(include) == IF include /\ stored THEN {"api"} ELSE {}

PreviousHashForSequence(sequence, previous) == IF sequence <= 1 THEN 0 ELSE previous

(* Sequences without a gap, each entry's previous hash the hash before it; *)
(* before the first entry there is "".                                     *)
VerifyAuditChainProof(proof) ==
  \A i \in DOMAIN proof :
    /\ i > 1 => proof[i] = proof[i - 1] + 1
    /\ proof[i] - 1 = PreviousHashForSequence(proof[i], IF i = 1 THEN 0 ELSE proof[i - 1])

(* The manifest lists every file with its hash and size as they are put in *)
(* (normalizeManifest fills in the rest), so of a bundle just built only   *)
(* the chain proof can fail.                                               *)
VerifyBundle(b) == VerifyAuditChainProof(b.proof)

-----------------------------------------------------------------------------
(* Requests.  By actor: what is included depends on who asks. *)

CreateAuditExportRequests ==
  {<<a, raw, bodies>> \in Actors \X BOOLEAN \X BOOLEAN :
     /\ Authorized(a, "audit:read")
     /\ raw \/ bodies => Authorized(a, "events:raw")}

ExportFlags == {<<q[2], q[3]>> : q \in CreateAuditExportRequests}

IncidentRequests == [title : BOOLEAN, event : BOOLEAN, reason : BOOLEAN]

CreateIncidentRequests ==
  {q \in IncidentRequests : Allowed("incidents:write") /\ q.title /\ q.reason}

AddIncidentEventRequests ==
  {q \in IncidentRequests : Allowed("incidents:write") /\ q.event /\ q.reason}

RemoveIncidentEventRequests ==
  {q \in IncidentRequests : Allowed("incidents:write") /\ q.event /\ q.reason}

GenerateIncidentReportRequests ==
  {q \in IncidentRequests : Allowed("incidents:write") /\ q.reason}

CreateIncidentEvidenceExportRequests ==
  {q \in IncidentRequests :
     (\E a \in Actors : Authorized(a, "incidents:write") /\ Authorized(a, "audit:read")) /\ q.reason}

-----------------------------------------------------------------------------
(* Making an export. *)

Make(s, at, b) == maker' = [maker EXCEPT ![s].at = at, ![s].bundle = b]

(* The request, and the first statement: the audit events of the window.   *)
CreateAuditExport(s) ==
  /\ maker[s] = Idle /\ used < MaxExports
  /\ used' = used + 1
  /\ \E w \in Windows, f \in ExportFlags :
       maker' = [maker EXCEPT ![s] =
         [at |-> "bodies", id |-> used', window |-> w,
          bundle |-> [kind |-> "audit", raw |-> f[1], bodies |-> f[2], content |-> {},
                      events |-> AuditEventsForExport(w), proof |-> <<>>]]]
  /\ UNCHANGED <<log, stored, storage, exports, objects, downloads, incident>>

ReadBodies(s) ==
  /\ maker[s] # Idle /\ maker[s].at = "bodies"
  /\ LET b == maker[s].bundle
     IN Make(s, "proof", [b EXCEPT !.content =
          RawPayloadsForExport(b.raw) \cup PayloadEvidenceForExport(b.bodies)
            \cup ProviderAPIEvidenceForExport(b.bodies)])
  /\ UNCHANGED <<log, stored, storage, exports, objects, used, downloads, incident>>

(* The chain proof, the last statement; then the bundle is built and       *)
(* verified.                                                               *)
ReadProof(s) ==
  /\ maker[s] # Idle /\ maker[s].at = "proof"
  /\ LET b == [maker[s].bundle EXCEPT !.proof = AuditChainProofForExport(maker[s].window)]
     IN Make(s, IF VerifyBundle(b) THEN "put" ELSE "rejected", b)
  /\ UNCHANGED <<log, stored, storage, exports, objects, used, downloads, incident>>

Leave(s) == maker' = [maker EXCEPT ![s] = Idle]

ReturnRejection(s) ==
  /\ maker[s] # Idle /\ maker[s].at = "rejected"
  /\ Leave(s)
  /\ UNCHANGED <<log, stored, storage, exports, objects, used, downloads, incident>>

(* s3: the object is written before the row; a failed Put ends the export. *)
PutObject(s) ==
  /\ maker[s] # Idle /\ maker[s].at = "put"
  /\ \/ /\ Make(s, "insert", maker[s].bundle)
        /\ objects' = IF storage = "s3" THEN objects \cup {maker[s].id} ELSE objects
     \/ Leave(s) /\ UNCHANGED objects
  /\ UNCHANGED <<log, stored, storage, exports, used, downloads, incident>>

(* Row, items and audit event in one transaction. *)
InsertExport(s, told) ==
  /\ maker[s] # Idle /\ maker[s].at = "insert" /\ Len(log) < MaxLog
  /\ exports' = [x \in DOMAIN exports \cup {maker[s].id} |->
       IF x = maker[s].id THEN [bundle |-> maker[s].bundle, told |-> told] ELSE exports[x]]
  /\ \E t \in Stamps : log' = Audited(t)
  /\ Leave(s)
  /\ UNCHANGED <<stored, storage, used, downloads, incident>>

CommitExport(s) == InsertExport(s, TRUE) /\ UNCHANGED objects

(* The best-effort delete of an object whose transaction failed. *)
Undo(s) == objects' \in {objects, objects \ {maker[s].id}}

(* The database committed but the client saw an error: the row stays. *)
CommitUnacknowledged(s) == InsertExport(s, FALSE) /\ Undo(s)

FailExport(s) ==
  /\ maker[s] # Idle /\ maker[s].at = "insert"
  /\ Undo(s) /\ Leave(s)
  /\ UNCHANGED <<log, stored, storage, exports, used, downloads, incident>>

CrashExport(s) ==
  /\ maker[s] # Idle /\ Leave(s)
  /\ UNCHANGED <<log, stored, storage, exports, objects, used, downloads, incident>>

-----------------------------------------------------------------------------
(* Download. *)

MayDownload(a, b) ==
  Authorized(a, "audit:read") /\ (b.raw \/ b.bodies => Authorized(a, "events:raw"))

(* A missing object is ErrGone; the download itself is audited. *)
DownloadAuditExport ==
  /\ Len(log) < MaxLog
  /\ \E a \in Actors, x \in DOMAIN exports :
       /\ MayDownload(a, exports[x].bundle)
       /\ storage = "s3" => x \in objects
       /\ downloads' = downloads \cup {<<a, x>>}
  /\ \E t \in Stamps : log' = Audited(t)
  /\ UNCHANGED <<stored, storage, exports, objects, maker, used, incident>>

-----------------------------------------------------------------------------
(* Incidents. *)

(* An incident operation audits itself. *)
ChangeIncident(i) ==
  /\ Len(log) < MaxLog /\ incident' = i
  /\ \E t \in Stamps : log' = Audited(t)

CreateIncident ==
  /\ CreateIncidentRequests # {} /\ ~incident.exists
  /\ ChangeIncident([incident EXCEPT !.exists = TRUE])
  /\ UNCHANGED <<stored, storage, exports, objects, maker, used, downloads>>

(* Linking an event again only replaces who linked it. *)
AddIncidentEvent ==
  /\ AddIncidentEventRequests # {} /\ incident.exists
  /\ \E e \in IncidentEvents : ChangeIncident([incident EXCEPT !.links = @ \cup {e}])
  /\ UNCHANGED <<stored, storage, exports, objects, maker, used, downloads>>

RemoveIncidentEvent ==
  /\ RemoveIncidentEventRequests # {}
  /\ \E e \in incident.links : ChangeIncident([incident EXCEPT !.links = @ \ {e}])
  /\ UNCHANGED <<stored, storage, exports, objects, maker, used, downloads>>

(* buildIncidentReport: the links in one statement, then each event's      *)
(* timeline, with raw bodies omitted.                                      *)
IncidentBundle == [kind |-> "incident", raw |-> FALSE, bodies |-> FALSE, content |-> {},
                   events |-> incident.links, proof |-> <<>>]

GenerateIncidentReport(s) ==
  /\ GenerateIncidentReportRequests # {} /\ maker[s] = Idle /\ incident.exists
  /\ maker' = [maker EXCEPT ![s] = [at |-> "report", bundle |-> IncidentBundle]]
  /\ UNCHANGED <<log, stored, storage, exports, objects, used, downloads, incident>>

CreateIncidentReportSnapshot(s) ==
  /\ maker[s] # Idle /\ maker[s].at = "report"
  /\ ChangeIncident([incident EXCEPT !.report = maker[s].bundle.events])
  /\ Leave(s)
  /\ UNCHANGED <<stored, storage, exports, objects, used, downloads>>

(* The bundle of a report has no chain proof; it is stored like any other. *)
CreateIncidentEvidenceExport(s) ==
  /\ CreateIncidentEvidenceExportRequests # {} /\ maker[s] = Idle /\ incident.exists
  /\ used < MaxExports /\ used' = used + 1
  /\ maker' = [maker EXCEPT ![s] =
       [at |-> IF VerifyBundle(IncidentBundle) THEN "put" ELSE "rejected", id |-> used',
        bundle |-> IncidentBundle]]
  /\ UNCHANGED <<log, stored, storage, exports, objects, downloads, incident>>

-----------------------------------------------------------------------------
ExportStorage(s) ==
  PutObject(s) \/ CommitExport(s) \/ CommitUnacknowledged(s) \/ FailExport(s) \/ CrashExport(s)

AuditExportNext ==
  \/ AppendAudit \/ RetireAudit \/ RetireBodies \/ DownloadAuditExport
  \/ \E s \in Sessions :
       CreateAuditExport(s) \/ ReadBodies(s) \/ ReadProof(s) \/ ReturnRejection(s) \/ ExportStorage(s)

IncidentNext ==
  \/ CreateIncident \/ AddIncidentEvent \/ RemoveIncidentEvent
  \/ \E s \in Sessions :
       \/ GenerateIncidentReport(s) \/ CreateIncidentReportSnapshot(s)
       \/ CreateIncidentEvidenceExport(s) \/ ExportStorage(s)

ExportSpec == ExportInit /\ [][AuditExportNext \/ IncidentNext]_exportVars

-----------------------------------------------------------------------------
(* Every stored export carries its proof: each audit event in the bundle   *)
(* that retention has not deleted is an entry of the bundle's chain proof, *)
(* though events and proof are read at different times.  An export that    *)
(* was answered as ready has its bundle, whatever failed before.  And no   *)
(* actor without events:raw has downloaded a bundle with a body of any     *)
(* kind in it, whoever created the export and with whatever flags.         *)
ExportsSound ==
  /\ \A x \in DOMAIN exports :
       LET b == exports[x].bundle
       IN /\ b.kind = "audit" => {i \in b.events : log[i].kept} \subseteq Range(b.proof)
          /\ exports[x].told /\ storage = "s3" => x \in objects
  /\ \A d \in downloads :
       exports[d[2]].bundle.content # {} => Authorized(d[1], "events:raw")

(* docs/cli.md, of an export: "Evidence bundle is created with manifest    *)
(* and hashes."  The chain is intact in every state of this model, so no   *)
(* export, of whatever window, is refused for its chain proof.             *)
IntactChainExports ==
  \A s \in Sessions : maker[s] # Idle => maker[s].at # "rejected"
=============================================================================
