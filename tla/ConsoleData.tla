---------------------------- MODULE ConsoleData ----------------------------
(***************************************************************************)
(* What the administration console (web/src) keeps of the server, and the  *)
(* vocabulary its pages are described with: permissions, the keys of the   *)
(* query cache, the helpers that mark cached views after a write, and the  *)
(* records for a page, a dialog, a handler and a table.  The pages         *)
(* themselves are in TenantPages, DefinitionPages, ClientPages and         *)
(* OperationPages; ConsoleViews runs them.                                 *)
(***************************************************************************)
EXTENDS Naturals, FiniteSets, Sequences, SequencesExt

CONSTANTS
  Tenants,       \* tenant identifiers the user can open
  Definitions,   \* resource definition identifiers the user can open
  None           \* absence of a value

----------------------------------------------------------------------------
(* lib/admin-permissions.ts *)
AdminPermission ==
  {"admin.read", "audit.read", "audit.export", "audit.manage",
   "api_client.manage", "integration.manage", "resource.write",
   "secret.reveal", "session.manage", "settings.manage",
   "tenant.hard_delete", "tenant.write"}

----------------------------------------------------------------------------
(* lib/query-keys.ts: a key is a sequence, and a shorter key is the prefix *)
(* of the keys below it.                                                   *)
all            == <<"admin">>
tenants        == all \o <<"tenants">>
tenant(t)      == tenants \o <<"detail", t>>
tenantDomains(t) == tenant(t) \o <<"domains">>
tenantResourcesRoot == all \o <<"tenant-resources">>
tenantResources(t)  == tenantResourcesRoot \o <<t>>
definitions    == all \o <<"definitions">>
definition(d)  == definitions \o <<"detail", d>>
overview       == all \o <<"overview">>
apiClients     == all \o <<"api-clients">>
apiClientUsage == all \o <<"api-client-usage">>
operationalHealth == all \o <<"operational-health">>
sessions       == all \o <<"sessions">>
settings       == all \o <<"settings">>
webhookTargets == all \o <<"webhook-targets">>
webhookDeliveries == all \o <<"webhook-deliveries">>
webhookOverview   == all \o <<"webhook-overview">>
auditEvents    == all \o <<"audit-events">>
auditHealth    == all \o <<"audit-health">>
auditExport    == all \o <<"audit-export">>
legalHolds     == all \o <<"audit-legal-holds">>

adminQueryKeys ==
  {overview, tenants, definitions, apiClients, apiClientUsage, operationalHealth,
   sessions, settings, webhookTargets, webhookDeliveries, webhookOverview,
   auditEvents, auditHealth, auditExport, legalHolds}
    \cup (UNION {{tenant(t), tenantDomains(t), tenantResources(t)} : t \in Tenants})
    \cup {definition(d) : d \in Definitions}

Under(root) == {k \in adminQueryKeys : IsPrefix(root, k)}

----------------------------------------------------------------------------
(* lib/query-invalidation.ts: the keys each helper marks. *)
invalidateOverview  == {overview}
invalidateTenants   == {tenants} \cup invalidateOverview
\* Mutant: the list of tenants is forgotten
invalidateTenantAlone(t) == {tenant(t)} \cup invalidateOverview
invalidateTenant(t) == {tenant(t), tenants} \cup invalidateOverview
invalidateTenantDomains(t)   == {tenantDomains(t)} \cup invalidateOverview
invalidateTenantResources(t) == {tenantResources(t)} \cup invalidateOverview
invalidateAllTenantResources == Under(tenantResourcesRoot)
invalidateDefinitions   == {definitions} \cup invalidateOverview
invalidateDefinition(d) == {definition(d), definitions} \cup invalidateOverview
invalidateApiClients    == {apiClients} \cup invalidateOverview
(* The queries of a deleted tenant: cancelled and dropped, by prefix. *)
removeTenantQueries(t)  == Under(tenant(t)) \cup Under(tenantResources(t))

----------------------------------------------------------------------------
(* What the server keeps, as far as a view shows it: an atom is a piece of *)
(* server state that a write changes and a response reports (the types of  *)
(* lib/api.ts).                                                            *)
Tenant(t)     == <<"tenant", t>>
Domains(t)    == <<"domains", t>>
Resources(t)  == <<"resources", t>>
Definition(d) == <<"definition", d>>
Fields(d)     == <<"fields", d>>
TenantList     == <<"tenants">>
DefinitionList == <<"definitions">>
Clients        == <<"clients">>
Targets        == <<"targets">>
Deliveries     == <<"deliveries">>
Export         == <<"export">>
Holds          == <<"holds">>
AdminSettings  == <<"settings">>
AdminSessions  == <<"sessions">>
Health         == <<"health">>
Usage          == <<"usage">>
AuditTrail     == <<"audit trail">>
AuditCoverage  == <<"audit coverage">>
Of(kind, S)   == {<<kind, x>> : x \in S}

(* Overview: counts of everything, and a card for each tenant. *)
Counted ==
  {TenantList, DefinitionList, Clients} \cup
  (UNION {Of(kind, Tenants) : kind \in {"tenant", "domains", "resources"}}) \cup
  Of("definition", Definitions)

(* The calls of lib/api.ts: a key, and an atom that the answer under it   *)
(* reports.  Usage, health and the audit trail are written by the server  *)
(* itself and only polled; the queues counted on the health page are the  *)
(* deliveries.                                                            *)
Reports ==
  ({overview} \X Counted) \cup
  ({tenants} \X ({TenantList} \cup Of("tenant", Tenants))) \cup
  {<<tenant(t), Tenant(t)>> : t \in Tenants} \cup
  {<<tenantDomains(t), Domains(t)>> : t \in Tenants} \cup
  {<<tenantResources(t), Resources(t)>> : t \in Tenants} \cup
  {<<tenantResources(t), Fields(d)>> : t \in Tenants, d \in Definitions} \cup
  ({definitions} \X ({DefinitionList} \cup Of("definition", Definitions) \cup Of("fields", Definitions))) \cup
  {<<definition(d), Definition(d)>> : d \in Definitions} \cup
  {<<definition(d), Fields(d)>> : d \in Definitions} \cup
  {<<apiClients, Clients>>, <<apiClientUsage, Usage>>, <<apiClientUsage, Clients>>,
   <<operationalHealth, Health>>, <<operationalHealth, Deliveries>>, <<operationalHealth, Targets>>,
   <<sessions, AdminSessions>>, <<settings, AdminSettings>>,
   <<webhookTargets, Targets>>, <<webhookDeliveries, Deliveries>>,
   <<auditExport, Export>>, <<auditEvents, AuditTrail>>,
   <<auditHealth, AuditCoverage>>, <<auditHealth, Holds>>, <<legalHolds, Holds>>}
Shows(k) == {r[2] : r \in {p \in Reports : p[1] = k}}

----------------------------------------------------------------------------
(* The records the pages are written with. *)

(* A page of the route name mounts the queries it renders from; it shows     *)
(* nothing to act on until the ones in main have data.                       *)
Page(name, queries, main) == [name |-> name, queries |-> queries, main |-> main]

(* A dialog opens over the page (None) or over a dialog named in over, which *)
(* it replaces or covers; needs is what the button that opens it asks of     *)
(* can(), after the pending flag that disables that button, queries what it  *)
(* mounts besides the page's.  One with over = {} is opened by a handler     *)
(* only.  The user may dismiss it unless the flag locked is up.  One that is *)
(* not modal leaves the page in reach.                                       *)
Dialog(name, route, needs) ==
  [name |-> name, page |-> route, needs |-> needs, over |-> {None}, after |-> None,
   replaces |-> FALSE, locked |-> None, queries |-> {}, modal |-> TRUE]

(* A handler that writes.  in: the dialog its button is in, None for the     *)
(* page.  writes: the atoms it changes on the server.  marks: the keys it    *)
(* marks once the server has answered, one set after the other, each         *)
(* awaited.  removes: the keys it drops.  hides: whether it hides revealed   *)
(* values "before" sending or "after" the answer.  busy: how long its button *)
(* is disabled, not at all ("no"), until the "answer", or until the awaited  *)
(* refetches are "settled".  closes, opens and to: the dialogs it closes and *)
(* opens at the "answer" or once the refetches have "settled" (at), and the  *)
(* page it goes to at its end; failing: the dialogs it closes when it        *)
(* failed.  flag: the pending flag that disables it, shared by some.         *)
Handler(name, route, writes, marks) ==
  [name |-> name, page |-> route, in |-> {None}, needs |-> {}, writes |-> writes,
   marks |-> marks, removes |-> {}, hides |-> "no", flag |-> name, busy |-> "no",
   closes |-> {}, opens |-> {}, at |-> "settled", failing |-> {}, to |-> None]

(* A data table, by the key its preferences are kept under: its columns, the *)
(* ones the user can neither hide nor sort by, its first sorting, the first  *)
(* visibility of columns and its first page size (None: the default one).    *)
Asc(column)  == [id |-> column, desc |-> FALSE]
Desc(column) == [id |-> column, desc |-> TRUE]
Table(name, columns, fixed, first) ==
  [name |-> name, columns |-> columns, fixed |-> fixed, sorting |-> first,
   visibility |-> <<>>, pageSize |-> None]
=============================================================================
