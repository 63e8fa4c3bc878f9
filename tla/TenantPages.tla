---------------------------- MODULE TenantPages ----------------------------
(***************************************************************************)
(* The overview page, the list of tenants and the page of one tenant       *)
(* (web/src/routes/index, tenants, tenant-detail): the queries they mount, *)
(* their dialogs, their writing handlers and their tables.                 *)
(***************************************************************************)
EXTENDS ConsoleData

----------------------------------------------------------------------------
(* routes/index *)
OverviewRoute == <<"/">>
OverviewQueries == {overview, apiClients, apiClientUsage, operationalHealth}
OverviewPage  == Page(OverviewRoute, OverviewQueries, {})

----------------------------------------------------------------------------
(* routes/tenants *)
TenantsRoute == <<"/tenants">>
TenantsQueries == {tenants}
TenantsPage  == Page(TenantsRoute, TenantsQueries, TenantsQueries)
TenantRoute(t) == <<"/tenants", t>>

NewTenantDialog == Dialog("newTenant", TenantsRoute, {"tenant.write"})

(* The mutation ends with the answer: the button works again while the      *)
(* lists are refetched.  The page goes to the tenant created.               *)
createTenant(t) ==
  [Handler("createTenant", TenantsRoute, {TenantList}, <<invalidateTenants>>) EXCEPT
     !.in = {"newTenant"}, !.busy = "answer", !.closes = {"newTenant"}, !.to = TenantRoute(t)]

tenantColumns == {"name", "slug", "status", "actions"}
TenantsTable ==
  Table("tenancit.tenants.table", tenantColumns, {"actions"}, <<Asc("name")>>)

----------------------------------------------------------------------------
(* routes/tenant-detail: queries and mutations *)
TenantQueries(t) == {tenant(t), tenantDomains(t), tenantResources(t), definitions}
TenantPage(t)    == Page(TenantRoute(t), TenantQueries(t), {tenant(t)})

(* A mutation of this page hides revealed values when it changes what they  *)
(* show, marks the views, and is pending until they are refetched.          *)
TenantMutation(name, t, writes, marks, hides) ==
  [Handler(name, TenantRoute(t), writes, <<marks>>) EXCEPT !.hides = hides]

updateTenantMutation(t) ==
  TenantMutation("saveEdit", t, {Tenant(t)}, invalidateTenant(t), "after")
resourceStatusMutation(t) ==
  TenantMutation("toggleResource", t, {Resources(t)}, invalidateTenantResources(t), "after")
resourceIdentityMutation(t) ==
  TenantMutation("saveResourceIdentity", t, {Resources(t)}, invalidateTenantResources(t), "after")
deleteResourceMutation(t) ==
  TenantMutation("removeResource", t, {Resources(t)}, invalidateTenantResources(t), "after")
duplicateResourceMutation(t) ==
  TenantMutation("duplicateSelectedResource", t, {Resources(t)}, invalidateTenantResources(t), "after")
addDomainMutation(t) ==
  TenantMutation("saveDomain", t, {Domains(t)}, invalidateTenantDomains(t), "no")
updateDomainMutation(t) ==
  TenantMutation("saveDomainEdit", t, {Domains(t)}, invalidateTenantDomains(t), "no")
removeDomainMutation(t) ==
  TenantMutation("removeDomain", t, {Domains(t)}, invalidateTenantDomains(t), "no")
deleteTenantMutation(t) ==
  [TenantMutation("deleteTenantPermanently", t,
     {TenantList, Tenant(t), Domains(t), Resources(t)}, invalidateTenants, "before")
     EXCEPT !.removes = removeTenantQueries(t)]

----------------------------------------------------------------------------
(* routes/tenant-detail: handlers *)
saveEdit(t) == [updateTenantMutation(t) EXCEPT !.in = {"editOpen"}, !.closes = {"editOpen"}]

saveResource(t) ==
  [Handler("saveResource", TenantRoute(t), {Resources(t)}, <<invalidateTenantResources(t)>>) EXCEPT
     !.in = {"resOpen"}, !.hides = "before", !.busy = "settled", !.closes = {"resOpen"}]

saveResourceIdentity(t) ==
  [resourceIdentityMutation(t) EXCEPT
     !.in = {"editingResource"}, !.busy = "settled", !.closes = {"editingResource"}]

toggleResource(t) ==
  [resourceStatusMutation(t) EXCEPT
     !.in = {None, "selectedResource"}, !.needs = {"resource.write"}]

removeResource(t) ==
  [deleteResourceMutation(t) EXCEPT !.in = {"pendingResource"}, !.closes = {"pendingResource"}]

saveFieldEdit(t) ==
  [Handler("saveFieldEdit", TenantRoute(t), {Resources(t)}, <<invalidateTenantResources(t)>>) EXCEPT
     !.in = {"editingField"}, !.hides = "before", !.busy = "settled", !.closes = {"editingField"}]

clearFieldOverride(t) ==
  [Handler("clearFieldOverride", TenantRoute(t), {Resources(t)}, <<invalidateTenantResources(t)>>)
     EXCEPT !.in = {"selectedResource"}, !.needs = {"resource.write"}, !.hides = "before"]

duplicateSelectedResource(t) ==
  [duplicateResourceMutation(t) EXCEPT
     !.in = {"duplicateOpen"}, !.busy = "settled", !.closes = {"duplicateOpen"}]

saveDomain(t) == [addDomainMutation(t) EXCEPT !.in = {"newDomainOpen"}, !.closes = {"newDomainOpen"}]

saveDomainEdit(t) ==
  [updateDomainMutation(t) EXCEPT
     !.in = {"editingDomain"}, !.busy = "settled", !.closes = {"editingDomain"}]

removeDomain(t) ==
  [removeDomainMutation(t) EXCEPT !.in = {"pendingDomain"}, !.closes = {"pendingDomain"}]

deleteTenantPermanently(t) ==
  [deleteTenantMutation(t) EXCEPT !.in = {"deleteOpen"}, !.busy = "settled", !.to = TenantsRoute]

----------------------------------------------------------------------------
(* routes/tenant-detail: dialogs.  The details of a resource are a dialog   *)
(* too; the dialogs that edit, duplicate or remove the resource take its    *)
(* place, the one that edits a field covers it.                             *)
Resource(t) == Dialog("selectedResource", TenantRoute(t), {})

ResourceIdentity(t) ==
  [Dialog("editingResource", TenantRoute(t), {"resource.write"}) EXCEPT !.replaces = TRUE]

DuplicateResource(t) ==
  [Dialog("duplicateOpen", TenantRoute(t), {"resource.write"}) EXCEPT
     !.over = {None, "selectedResource"}, !.replaces = TRUE]

EditField(t) ==
  [Dialog("editingField", TenantRoute(t), {"resource.write"}) EXCEPT !.over = {"selectedResource"}]

(* The header's button asks for tenant.write; the one beside the warning    *)
(* that the tenant is inactive opens the same dialog and asks for nothing.  *)
EditTenant(t) == Dialog("editOpen", TenantRoute(t), {})

(* Once a definition is picked, its detail is a mounted query too. *)
AddResource(t, d) ==
  [Dialog("resOpen", TenantRoute(t), {"resource.write"}) EXCEPT !.queries = {definition(d)}]

AddDomain(t) == Dialog("newDomainOpen", TenantRoute(t), {"tenant.write"})

RenameDomain(t) ==
  [Dialog("editingDomain", TenantRoute(t), {"tenant.write"}) EXCEPT !.locked = "saveDomainEdit"]

ConfirmRemoveResource(t) ==
  [Dialog("pendingResource", TenantRoute(t), {"resource.write"}) EXCEPT
     !.over = {None, "selectedResource"}, !.replaces = TRUE]

ConfirmRemoveDomain(t) == Dialog("pendingDomain", TenantRoute(t), {"tenant.write"})

DeleteTenant(t) == Dialog("deleteOpen", TenantRoute(t), {"tenant.hard_delete"})

----------------------------------------------------------------------------
(* routes/tenant-detail: tables *)
resourceColumns == {"name", "alias", "definitionKey", "fields", "secrets", "status", "actions"}
ResourceTable ==
  Table("tenancit.tenant-resources.table", resourceColumns, {"actions"}, <<Asc("alias")>>)

domainColumns == {"hostname", "actions"}
DomainTable ==
  Table("tenancit.tenant-domains.table", domainColumns, {"actions"}, <<Asc("hostname")>>)

----------------------------------------------------------------------------
TenantPageSet == {OverviewPage, TenantsPage} \cup {TenantPage(t) : t \in Tenants}

TenantHandlers ==
  UNION {{createTenant(t), saveEdit(t), saveResource(t), saveResourceIdentity(t),
          toggleResource(t), removeResource(t), saveFieldEdit(t), clearFieldOverride(t),
          duplicateSelectedResource(t), saveDomain(t), saveDomainEdit(t), removeDomain(t),
          deleteTenantPermanently(t)} : t \in Tenants}

TenantDialogs ==
  {NewTenantDialog} \cup
  {AddResource(t, d) : t \in Tenants, d \in Definitions} \cup
  UNION {{Resource(t), ResourceIdentity(t), DuplicateResource(t), EditField(t), EditTenant(t),
          AddDomain(t), RenameDomain(t), ConfirmRemoveResource(t), ConfirmRemoveDomain(t),
          DeleteTenant(t)} : t \in Tenants}

TenantTables == {TenantsTable, ResourceTable, DomainTable}
=============================================================================
