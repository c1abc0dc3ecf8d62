------------------------------ MODULE MCControl ------------------------------
(***************************************************************************)
(* A small instance of each component of the control plane, and of the      *)
(* claim query, for TLC.  The components share no state that their          *)
(* properties read, so a behaviour works on one of them: its focus.         *)
(***************************************************************************)
EXTENDS ClaimQueue, SourceConfig, RouteConfig, Catalog, Producers, Identity, Adapters,
        DeadLetters, Exports, TLC

VARIABLE focus

CONSTANTS l1, l2     \* dead-letter entries

MCActors == {[id |-> r, role |-> r, scopes |-> {}] : r \in {"owner", "admin"}}

MCGoverns == (l1 :> ApprovalScopes) @@ (l2 :> {"source", "tenant"})

\* Nothing tells one database session from another.
SessionSymmetry == Permutations(Sessions)

Foci == {"claim", "source", "route", "policy", "schema", "producer", "login", "access", "rule",
         "adapter", "release", "approval", "export", "incident"}

\* SCIM provisioning (its token) is part of the login focus only.
ControlInit ==
    /\ focus \in Foci
    /\ Init /\ SourceInit /\ RouteInit /\ CatalogInit /\ ProducerInit /\ IdentityInit
    /\ AdapterInit /\ DeadLetterInit /\ ExportInit
    /\ focus # "source" => kind = "source"
    /\ focus # "route" => rkind = "route"
    /\ focus \notin {"export", "incident"} => storage = "s3"
    /\ scimToken = IF focus = "login" THEN "active" ELSE "none"

queueVars == vars

OnSource ==
    /\ focus = "source" /\ SourceNext
    /\ UNCHANGED <<queueVars, routeVars, catalogVars, producerVars, identityVars, adapterVars,
                   deadLetterVars, exportVars>>

OnRoute ==
    /\ focus = "route" /\ RouteNext
    /\ UNCHANGED <<queueVars, sourceVars, catalogVars, producerVars, identityVars, adapterVars,
                   deadLetterVars, exportVars>>

\* No property reads a policy's state: policies are created active.
OnCatalog ==
    /\ \/ /\ focus = "policy" /\ PolicyNext
          /\ \A s \in Sessions : ptx'[s] # Idle /\ ptx'[s].lock = 0 => ptx'[s].p.state = "active"
       \/ focus = "schema" /\ SchemaNext
    /\ UNCHANGED <<queueVars, sourceVars, routeVars, producerVars, identityVars, adapterVars,
                   deadLetterVars, exportVars>>

OnProducer ==
    /\ focus = "producer" /\ ProducerNext
    /\ UNCHANGED <<queueVars, sourceVars, routeVars, catalogVars, identityVars, adapterVars,
                   deadLetterVars, exportVars>>

OnIdentity ==
    /\ \/ focus = "login" /\ SessionNext
       \/ focus = "access" /\ AccessNext
       \/ focus = "rule" /\ RuleNext
    /\ UNCHANGED <<queueVars, sourceVars, routeVars, catalogVars, producerVars, adapterVars,
                   deadLetterVars, exportVars>>

OnAdapter ==
    /\ focus = "adapter" /\ AdapterNext
    /\ UNCHANGED <<queueVars, sourceVars, routeVars, catalogVars, producerVars, identityVars,
                   deadLetterVars, exportVars>>

\* One replay, of the entry that every scope governs, is enough to tell what
\* the approval lookup decides.
OneGoverned ==
    Len(replays') <= 1 /\ \A s \in Sessions : release'[s] # Idle => release'[s].list = <<l1>>

OnDeadLetter ==
    /\ \/ focus = "release" /\ ReleaseNext
       \/ focus = "approval" /\ ApprovalNext /\ OneGoverned
    /\ UNCHANGED <<queueVars, sourceVars, routeVars, catalogVars, producerVars, identityVars,
                   adapterVars, exportVars>>

\* Two entries before the export is stored, and the export's own.
OnExport ==
    /\ \/ focus = "export" /\ AuditExportNext /\ (exports' = <<>> => Len(log') <= 2)
       \/ focus = "incident" /\ IncidentNext
    /\ UNCHANGED <<queueVars, sourceVars, routeVars, catalogVars, producerVars, identityVars,
                   adapterVars, deadLetterVars>>

OnQueue ==
    /\ focus = "claim" /\ Next
    /\ UNCHANGED <<sourceVars, routeVars, catalogVars, producerVars, identityVars, adapterVars,
                   deadLetterVars, exportVars>>

ControlNext ==
    /\ \/ OnSource \/ OnRoute \/ OnCatalog \/ OnProducer \/ OnIdentity \/ OnAdapter
       \/ OnDeadLetter \/ OnExport \/ OnQueue
    /\ UNCHANGED focus

ControlSpec ==
    /\ ControlInit
    /\ [][ControlNext]_<<focus, queueVars, sourceVars, routeVars, catalogVars, producerVars,
                         identityVars, adapterVars, deadLetterVars, exportVars>>

\* Every component's rows and transactions stay within the states the code and
\* the CHECK constraints of the tables know.
ControlTypeOK ==
    /\ SourceTypeOK /\ RouteTypeOK /\ CatalogTypeOK /\ ProducerTypeOK /\ IdentityTypeOK
    /\ AdapterTypeOK /\ DeadLetterTypeOK /\ ExportTypeOK
=============================================================================
