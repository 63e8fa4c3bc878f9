-------------------------- MODULE DefinitionPages --------------------------
(***************************************************************************)
(* The list of resource definitions and the page of one definition         *)
(* (web/src/routes/definitions, definition-detail).                        *)
(***************************************************************************)
EXTENDS ConsoleData

----------------------------------------------------------------------------
(* routes/definitions.  Its mutations end with the answer; the views are    *)
(* marked by the handler, which never marks the detail of the definition.   *)
DefinitionsRoute   == <<"/resource-definitions">>
DefinitionsQueries == {definitions}
DefinitionsPage    == Page(DefinitionsRoute, DefinitionsQueries, {})
DefinitionRoute(d) == <<"/resource-definitions", d>>

createDefinition(d) ==
  [Handler("createDefinition", DefinitionsRoute, {DefinitionList},
           <<invalidateDefinitions \cup invalidateAllTenantResources>>) EXCEPT
     !.in = {"newDefinition"}, !.busy = "answer", !.closes = {"newDefinition"},
     !.to = DefinitionRoute(d)]

saveListed(d) ==
  [Handler("saveListed", DefinitionsRoute, {Definition(d)}, <<invalidateDefinitions>>) EXCEPT
     !.in = {"editingDefinition"}, !.busy = "answer", !.closes = {"editingDefinition"}]

toggleListed(d) ==
  [Handler("toggleListed", DefinitionsRoute, {Definition(d)},
           <<invalidateDefinitions \cup invalidateAllTenantResources>>) EXCEPT
     !.needs = {"resource.write"}]

(* The confirmation closes whether the removal succeeded or failed. *)
removeListed(d) ==
  [Handler("removeListed", DefinitionsRoute, {DefinitionList, Definition(d), Fields(d)},
           <<invalidateDefinitions \cup invalidateAllTenantResources>>) EXCEPT
     !.in = {"removingDefinition"}, !.busy = "answer",
     !.closes = {"removingDefinition"}, !.failing = {"removingDefinition"}]

NewDefinition  == Dialog("newDefinition", DefinitionsRoute, {"resource.write"})
EditListed     == Dialog("editingDefinition", DefinitionsRoute, {"resource.write"})
ConfirmRemoveListed == Dialog("removingDefinition", DefinitionsRoute, {"resource.write"})

----------------------------------------------------------------------------
(* routes/definition-detail *)
DetailQueries(d)  == {definition(d)}
DefinitionPage(d) == Page(DefinitionRoute(d), DetailQueries(d), DetailQueries(d))

(* A mutation of this page marks the definition, its lists and every        *)
(* tenant's resources, and is pending until they are refetched.             *)
DefinitionMutation(name, d, writes) ==
  Handler(name, DefinitionRoute(d), writes,
          <<invalidateDefinition(d) \cup invalidateAllTenantResources>>)

addField(d) ==
  [DefinitionMutation("addField", d, {Fields(d)}) EXCEPT
     !.in = {"newField"}, !.busy = "settled", !.closes = {"newField"}]

removeField(d) ==
  [DefinitionMutation("removeField", d, {Fields(d)}) EXCEPT
     !.in = {"pendingField"}, !.closes = {"pendingField"}]

saveField(d) ==
  [DefinitionMutation("saveField", d, {Fields(d)}) EXCEPT
     !.in = {"editingDefinitionField"}, !.busy = "settled", !.closes = {"editingDefinitionField"}]

toggleStatus(d) ==
  [DefinitionMutation("toggleStatus", d, {Definition(d)}) EXCEPT !.needs = {"resource.write"}]

saveDefinition(d) ==
  [DefinitionMutation("saveDefinition", d, {Definition(d)}) EXCEPT
     !.in = {"editDefinition"}, !.busy = "settled", !.closes = {"editDefinition"}]

(* This one marks the tenants' resources only, and goes back to the list. *)
removeDefinition(d) ==
  [Handler("removeDefinition", DefinitionRoute(d), {DefinitionList, Definition(d), Fields(d)},
           <<invalidateAllTenantResources>>) EXCEPT
     !.in = {"removeOpen"}, !.busy = "answer", !.closes = {"removeOpen"},
     !.failing = {"removeOpen"}, !.to = DefinitionsRoute]

NewField(d)           == Dialog("newField", DefinitionRoute(d), {"resource.write"})
EditDefinitionField(d) == Dialog("editingDefinitionField", DefinitionRoute(d), {"resource.write"})
EditDefinition(d)     == Dialog("editDefinition", DefinitionRoute(d), {"resource.write"})
ConfirmRemoveField(d) == Dialog("pendingField", DefinitionRoute(d), {"resource.write"})
ConfirmRemoveDefinition(d) == Dialog("removeOpen", DefinitionRoute(d), {"resource.write"})

----------------------------------------------------------------------------
DefinitionPageSet == {DefinitionsPage} \cup {DefinitionPage(d) : d \in Definitions}

DefinitionHandlers ==
  UNION {{createDefinition(d), saveListed(d), toggleListed(d), removeListed(d), addField(d),
          removeField(d), saveField(d), toggleStatus(d), saveDefinition(d), removeDefinition(d)}
           : d \in Definitions}

DefinitionDialogs ==
  {NewDefinition, EditListed, ConfirmRemoveListed} \cup
  UNION {{NewField(d), EditDefinitionField(d), EditDefinition(d), ConfirmRemoveField(d),
          ConfirmRemoveDefinition(d)} : d \in Definitions}
=============================================================================
