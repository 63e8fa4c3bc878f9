------------------------ MODULE ConsoleViewsProofs ------------------------
(***************************************************************************)
(* What the pages of the console show, for any tenants, definitions,       *)
(* permissions, writes and visits: no view is served as fresh without a    *)
(* write whose handler has finished, and no revealed value is older than a *)
(* change its page was told of (ConsoleViews); a table shows a page it has *)
(* and is after a reload what it was (DataTables); the scale gate, which   *)
(* says how long the pages may show full lists, opens exactly on what an   *)
(* invocation measured twice itself (ScaleGate).                           *)
(***************************************************************************)
EXTENDS ConsoleViews, DataTables, ScaleGate, FiniteSetTheorems, SequenceTheorems, TLAPS

-----------------------------------------------------------------------------
(* What the handlers of the pages mark *)

\* A key is a prefix of itself and of what is put behind it.
LEMMA PrefixOf == ASSUME NEW S, NEW s \in Seq(S), NEW t \in Seq(S) PROVE IsPrefix(s, s) /\ IsPrefix(s, s \o t)
  <1>1. SubSeq(s \o t, 1, Len(s)) = SubSeq(s, 1, Len(s)) /\ Len(s \o t) = Len(s) + Len(t)
    BY SubSeqOfConcat1, ConcatProperties
  <1>2. Len(s) \in Nat /\ Len(t) \in Nat
    OBVIOUS
  <1> QED
    BY <1>1, <1>2 DEF IsPrefix

\* The keys with parameters are below the keys they are dropped or marked by.
LEMMA KeysBelow ==
  ASSUME NEW t \in Tenants
  PROVE  /\ {tenant(t), tenantDomains(t), tenantResources(t)} \subseteq removeTenantQueries(t)
         /\ tenantResources(t) \in invalidateAllTenantResources
  <1> DEFINE S == {"admin", "tenants", "detail", "domains", "tenant-resources", t}
  <1>1. all \in Seq(S) /\ <<"tenants">> \in Seq(S) /\ <<"detail", t>> \in Seq(S) /\ <<"domains">> \in Seq(S)
        /\ <<"tenant-resources">> \in Seq(S) /\ <<t>> \in Seq(S)
    BY DEF all
  <1> HIDE DEF S
  <1>2. tenant(t) \in Seq(S) /\ tenantResourcesRoot \in Seq(S) /\ tenantResources(t) \in Seq(S)
    BY <1>1, ConcatProperties DEF tenant, tenants, tenantResourcesRoot, tenantResources
  <1>3. /\ IsPrefix(tenant(t), tenant(t)) /\ IsPrefix(tenant(t), tenantDomains(t))
        /\ IsPrefix(tenantResources(t), tenantResources(t)) /\ IsPrefix(tenantResourcesRoot, tenantResources(t))
    BY <1>1, <1>2, PrefixOf DEF tenantDomains, tenantResources
  <1>4. {tenant(t), tenantDomains(t), tenantResources(t)} \subseteq adminQueryKeys
    BY DEF adminQueryKeys
  <1> QED
    BY <1>3, <1>4 DEF removeTenantQueries, invalidateAllTenantResources, Under

\* The views that report what a handler can write.
LEMMA KeysShowing ==
  ASSUME NEW k \in adminQueryKeys
  PROVE  /\ \A t \in Tenants :
              /\ Tenant(t) \in Shows(k) => k \in {overview, tenants, tenant(t)}
              /\ Domains(t) \in Shows(k) => k \in {overview, tenantDomains(t)}
              /\ Resources(t) \in Shows(k) => k \in {overview, tenantResources(t)}
         /\ \A d \in Definitions :
              /\ Definition(d) \in Shows(k) => k \in {overview, definitions, definition(d)}
              /\ Fields(d) \in Shows(k) => \/ k \in {definitions, definition(d)}
                                           \/ \E u \in Tenants : k = tenantResources(u)
         /\ TenantList \in Shows(k) => k \in {overview, tenants}
         /\ DefinitionList \in Shows(k) => k \in {overview, definitions}
         /\ Clients \in Shows(k) => k \in {overview, apiClients, apiClientUsage}
         /\ Targets \in Shows(k) => k \in {operationalHealth, webhookTargets}
         /\ Deliveries \in Shows(k) => k \in {operationalHealth, webhookDeliveries}
         /\ Export \in Shows(k) => k = auditExport
         /\ Holds \in Shows(k) => k \in {auditHealth, legalHolds}
         /\ AdminSessions \in Shows(k) => k = sessions
  <1>1. \A a : a \in Shows(k) => <<k, a>> \in Reports
    <2>1. \A p \in Reports : p = <<p[1], p[2]>>
      BY DEF Reports
    <2> QED
      BY <2>1 DEF Shows
  <1> USE DEF Reports, Counted, Of, Tenant, Domains, Resources, Definition, Fields, TenantList, DefinitionList,
              Clients, Targets, Deliveries, Export, Holds, AdminSettings, AdminSessions, Health, Usage,
              AuditTrail, AuditCoverage
  <1>2. ASSUME NEW t \in Tenants
        PROVE  /\ <<k, Tenant(t)>> \in Reports => k \in {overview, tenants, tenant(t)}
               /\ <<k, Domains(t)>> \in Reports => k \in {overview, tenantDomains(t)}
               /\ <<k, Resources(t)>> \in Reports => k \in {overview, tenantResources(t)}
    OBVIOUS
  <1>3. ASSUME NEW d \in Definitions
        PROVE  /\ <<k, Definition(d)>> \in Reports => k \in {overview, definitions, definition(d)}
               /\ <<k, Fields(d)>> \in Reports => \/ k \in {definitions, definition(d)}
                                                  \/ \E u \in Tenants : k = tenantResources(u)
    OBVIOUS
  <1>4. /\ <<k, TenantList>> \in Reports => k \in {overview, tenants}
        /\ <<k, DefinitionList>> \in Reports => k \in {overview, definitions}
        /\ <<k, Clients>> \in Reports => k \in {overview, apiClients, apiClientUsage}
        /\ <<k, Targets>> \in Reports => k \in {operationalHealth, webhookTargets}
        /\ <<k, Deliveries>> \in Reports => k \in {operationalHealth, webhookDeliveries}
    OBVIOUS
  <1>5. /\ <<k, Export>> \in Reports => k = auditExport
        /\ <<k, Holds>> \in Reports => k \in {auditHealth, legalHolds}
        /\ <<k, AdminSessions>> \in Reports => k = sessions
    OBVIOUS
  <1> HIDE DEF Reports, Counted, Of, Tenant, Domains, Resources, Definition, Fields, TenantList, DefinitionList,
              Clients, Targets, Deliveries, Export, Holds, AdminSettings, AdminSessions, Health, Usage,
              AuditTrail, AuditCoverage
  <1> QED
    BY <1>1, <1>2, <1>3, <1>4, <1>5

\* A handler marks, drops or is known to leave aside every view that reports
\* what it writes.
Tells(h, k) ==
  h.writes \cap Shows(k) # {} /\ k \notin h.removes /\ ~LeavesAside(h, k) =>
    \E i \in 1..Len(h.marks) : k \in h.marks[i]

\* A handler that marks everything in one stage tells every view it marks, drops
\* or leaves aside.
LEMMA TellsAtOnce ==
  ASSUME NEW h, NEW k, NEW W, NEW M, h.writes = W, h.marks = <<M>>,
         W \cap Shows(k) # {} => k \in M \/ k \in h.removes \/ LeavesAside(h, k)
  PROVE  Tells(h, k)
  <1>1. Len(h.marks) = 1 /\ h.marks[1] = M
    OBVIOUS
  <1> QED
    BY <1>1 DEF Tells

\* The handlers of the tenants' pages.
LEMMA TenantHandlersTell ==
  ASSUME NEW t \in Tenants, NEW k \in adminQueryKeys,
         NEW h \in {createTenant(t), saveEdit(t), saveResource(t), saveResourceIdentity(t),
                    toggleResource(t), removeResource(t), saveFieldEdit(t), clearFieldOverride(t),
                    duplicateSelectedResource(t), saveDomain(t), saveDomainEdit(t), removeDomain(t),
                    deleteTenantPermanently(t)}
  PROVE  Tells(h, k)
  <1> USE DEF Handler, TenantMutation
  <1>1. CASE h = createTenant(t)
    <2>1. h.writes = {TenantList} /\ h.marks = <<invalidateTenants>>
      BY <1>1 DEF createTenant
    <2> QED
      BY <2>1, KeysShowing, TellsAtOnce DEF invalidateTenants, invalidateOverview
  <1>2. CASE h = saveEdit(t)
    <2>1. h.writes = {Tenant(t)} /\ h.marks = <<invalidateTenant(t)>>
      BY <1>2 DEF saveEdit, updateTenantMutation
    <2> QED
      BY <2>1, KeysShowing, TellsAtOnce DEF invalidateTenant, invalidateOverview
  <1>3. CASE h \in {saveResource(t), saveResourceIdentity(t), toggleResource(t), removeResource(t),
                    saveFieldEdit(t), clearFieldOverride(t), duplicateSelectedResource(t)}
    <2> DEFINE Changes(g) == g.writes = {Resources(t)} /\ g.marks = <<invalidateTenantResources(t)>>
    <2>1. Changes(saveResource(t)) /\ Changes(saveFieldEdit(t)) /\ Changes(clearFieldOverride(t))
      BY DEF saveResource, saveFieldEdit, clearFieldOverride
    <2>2. Changes(saveResourceIdentity(t)) /\ Changes(toggleResource(t))
      BY DEF saveResourceIdentity, resourceIdentityMutation, toggleResource, resourceStatusMutation
    <2>3. Changes(removeResource(t)) /\ Changes(duplicateSelectedResource(t))
      BY DEF removeResource, deleteResourceMutation, duplicateSelectedResource, duplicateResourceMutation
    <2>4. Changes(h)
      BY <1>3, <2>1, <2>2, <2>3
    <2> QED
      BY <2>4, KeysShowing, TellsAtOnce DEF invalidateTenantResources, invalidateOverview
  <1>4. CASE h \in {saveDomain(t), saveDomainEdit(t), removeDomain(t)}
    <2>1. h.writes = {Domains(t)} /\ h.marks = <<invalidateTenantDomains(t)>>
      BY ZenonT(60), <1>4 DEF saveDomain, addDomainMutation, saveDomainEdit, updateDomainMutation, removeDomain,
                  removeDomainMutation
    <2> QED
      BY <2>1, KeysShowing, TellsAtOnce DEF invalidateTenantDomains, invalidateOverview
  <1>5. CASE h = deleteTenantPermanently(t)
    <2>1. /\ h.writes = {TenantList, Tenant(t), Domains(t), Resources(t)}
          /\ h.marks = <<invalidateTenants>> /\ h.removes = removeTenantQueries(t)
      BY <1>5 DEF deleteTenantPermanently, deleteTenantMutation
    <2>2. h.writes \cap Shows(k) # {} =>
            k \in {overview, tenants, tenant(t), tenantDomains(t), tenantResources(t)}
      BY <2>1, KeysShowing
    <2> QED
      BY <2>1, <2>2, KeysBelow, TellsAtOnce DEF invalidateTenants, invalidateOverview
  <1> QED
    BY <1>1, <1>2, <1>3, <1>4, <1>5

\* The handlers of the definitions' pages.
LEMMA DefinitionHandlersTell ==
  ASSUME NEW d \in Definitions, NEW k \in adminQueryKeys,
         NEW h \in {createDefinition(d), saveListed(d), toggleListed(d), removeListed(d), addField(d),
                    removeField(d), saveField(d), toggleStatus(d), saveDefinition(d), removeDefinition(d)}
  PROVE  Tells(h, k)
  <1> USE DEF Handler, DefinitionMutation
  <1>0. /\ definition(d) \in {definition(e) : e \in Definitions}
        /\ (\E u \in Tenants : k = tenantResources(u)) => k \in invalidateAllTenantResources
    BY KeysBelow
  <1>1. CASE h = createDefinition(d)
    <2>1. /\ h.writes = {DefinitionList}
          /\ h.marks = <<invalidateDefinitions \cup invalidateAllTenantResources>>
      BY <1>1 DEF createDefinition
    <2> QED
      BY <2>1, KeysShowing, TellsAtOnce DEF invalidateDefinitions, invalidateOverview
  <1>2. CASE h = saveListed(d)
    <2>1. h.writes = {Definition(d)} /\ h.marks = <<invalidateDefinitions>> /\ h.name = "saveListed"
      BY <1>2 DEF saveListed
    <2> QED
      BY <1>0, <2>1, KeysShowing, TellsAtOnce DEF invalidateDefinitions, invalidateOverview, LeavesAside
  <1>3. CASE h = toggleListed(d)
    <2>1. /\ h.writes = {Definition(d)} /\ h.name = "toggleListed"
          /\ h.marks = <<invalidateDefinitions \cup invalidateAllTenantResources>>
      BY <1>3 DEF toggleListed
    <2> QED
      BY <1>0, <2>1, KeysShowing, TellsAtOnce DEF invalidateDefinitions, invalidateOverview, LeavesAside
  <1>4. CASE h = removeListed(d)
    <2>1. /\ h.writes = {DefinitionList, Definition(d), Fields(d)} /\ h.name = "removeListed"
          /\ h.marks = <<invalidateDefinitions \cup invalidateAllTenantResources>>
      BY <1>4 DEF removeListed
    <2> QED
      BY <1>0, <2>1, KeysShowing, TellsAtOnce DEF invalidateDefinitions, invalidateOverview, LeavesAside
  <1>5. CASE h \in {addField(d), removeField(d), saveField(d)}
    <2>1. /\ h.writes = {Fields(d)}
          /\ h.marks = <<invalidateDefinition(d) \cup invalidateAllTenantResources>>
      BY ZenonT(60), <1>5 DEF addField, removeField, saveField
    <2> QED
      BY <1>0, <2>1, KeysShowing, TellsAtOnce DEF invalidateDefinition, invalidateOverview
  <1>6. CASE h \in {toggleStatus(d), saveDefinition(d)}
    <2>1. /\ h.writes = {Definition(d)}
          /\ h.marks = <<invalidateDefinition(d) \cup invalidateAllTenantResources>>
      BY <1>6 DEF toggleStatus, saveDefinition
    <2> QED
      BY <1>0, <2>1, KeysShowing, TellsAtOnce DEF invalidateDefinition, invalidateOverview
  <1>7. CASE h = removeDefinition(d)
    <2>1. /\ h.writes = {DefinitionList, Definition(d), Fields(d)} /\ h.name = "removeDefinition"
          /\ h.marks = <<invalidateAllTenantResources>>
      BY <1>7 DEF removeDefinition
    <2> QED
      BY <1>0, <2>1, KeysShowing, TellsAtOnce DEF LeavesAside
  <1> QED
    BY <1>1, <1>2, <1>3, <1>4, <1>5, <1>6, <1>7

\* The handlers of the clients' page and of the operations' pages.
LEMMA OtherHandlersTell ==
  ASSUME NEW k \in adminQueryKeys, NEW h \in ClientHandlers \cup OperationHandlers
  PROVE  Tells(h, k)
  <1> USE DEF Handler
  <1>1. CASE h \in ClientHandlers
    <2> DEFINE Changes(g) == g.writes = {Clients} /\ g.marks = <<invalidateApiClients>>
    <2>1. Changes(createClient) /\ Changes(updateClient)
      BY DEF createClient, updateClient, Lifecycle
    <2>2. Changes(rotate) /\ Changes(revoke) /\ Changes(removeClient)
      BY DEF rotate, revoke, removeClient, Lifecycle
    <2>3. Changes(h)
      BY <1>1, <2>1, <2>2 DEF ClientHandlers
    <2> QED
      BY <2>3, KeysShowing, TellsAtOnce DEF invalidateApiClients, invalidateOverview, LeavesAside
  <1>2. CASE h \in {createTarget, toggleTarget, replayDelivery}
    <2> DEFINE Changes(g, W) == g.writes = W /\ g.marks = <<{webhookTargets, webhookDeliveries}>>
    <2>1. Changes(createTarget, {Targets})
      BY DEF createTarget, refreshWebhookQueries, WebhookQueries
    <2>2. Changes(toggleTarget, {Targets}) /\ Changes(replayDelivery, {Deliveries})
      BY DEF toggleTarget, replayDelivery, refreshWebhookQueries, WebhookQueries
    <2>3. Changes(h, {Targets}) \/ Changes(h, {Deliveries})
      BY <1>2, <2>1, <2>2
    <2> QED
      BY <2>3, KeysShowing, TellsAtOnce DEF LeavesAside
  <1>3. CASE h = exportMutation
    <2>1. h.writes = {Export} /\ h.removes = {auditExport}
      BY <1>3 DEF exportMutation
    <2> QED
      BY <2>1, KeysShowing DEF Tells
  <1>4. CASE h = consumeExport
    <2>1. h.writes = {Export} /\ h.name = "consumeExport"
      BY <1>4 DEF consumeExport, downloadAuditExport
    <2> QED
      BY <2>1, KeysShowing DEF Tells, LeavesAside
  <1>5. CASE h \in {createHold, releaseHold}
    <2>1. h.writes = {Holds} /\ h.marks = <<{legalHolds}, {auditHealth}>>
      BY <1>5 DEF createHold, releaseHold, HoldMutation
    <2>2. Len(h.marks) = 2 /\ legalHolds \in h.marks[1] /\ auditHealth \in h.marks[2]
      BY <2>1
    <2>3. h.writes \cap Shows(k) # {} => k \in {legalHolds, auditHealth}
      BY <2>1, KeysShowing
    <2> QED
      BY <2>2, <2>3 DEF Tells
  <1>6. CASE h = revokeSession
    <2>1. h.writes = {AdminSessions} /\ h.marks = <<{sessions}>>
      BY <1>6 DEF revokeSession
    <2> QED
      BY <2>1, KeysShowing, TellsAtOnce
  <1> QED
    BY <1>1, <1>2, <1>3, <1>4, <1>5, <1>6 DEF OperationHandlers

\* Every writing handler of the console, on every page.
LEMMA HandlersTell == \A h \in Handlers, k \in adminQueryKeys : Tells(h, k)
  BY TenantHandlersTell, DefinitionHandlersTell, OtherHandlersTell DEF Handlers, TenantHandlers, DefinitionHandlers

-----------------------------------------------------------------------------
(* The cache, the writes in flight and the revealed values *)

FetchSet  == [at : {"idle", "sent", "read"}, saw : SUBSET Writes]
RevealSet == [at : {"hidden", "sent", "read", "shown"}, saw : SUBSET Writes]

ViewsTypeOK ==
  /\ view \in adminQueryKeys
  /\ visit \in Nat
  /\ calls \in [Writes -> Call \cup {None}]
  /\ cache \in Cached \cup {None}
  /\ fetch \in FetchSet
  /\ reveal \in RevealSet
  /\ owed \in SUBSET Writes

\* The writes are numbered in the order they are submitted.
WritesInOrder == \E n \in Nat : Used = 1..n

\* A handler goes on only after the server applied its write, and ends with
\* everything marked.
HandlersFollow ==
  \A w \in Used :
    /\ calls[w].client \in {"settling", "done"} => calls[w].server = "applied"
    /\ calls[w].client = "done" => calls[w].stage = Len(By(w).marks)

UnmountedIsIdle == ~Mounted => fetch.at = "idle"

Owing(w) ==
  /\ w \in Used /\ calls[w].client \in {"settling", "done"}
  /\ By(w).writes \cap ShownBy[view] # {} /\ view \notin By(w).removes
  /\ cache # None

Reached(w) == \E i \in 1..calls[w].stage : view \in By(w).marks[i]

\* Once the handler of a write that is owed has marked the view, an answer
\* read by the server has that write, and so has the data, unless marked.
OwedIsComing ==
  \A w \in owed :
    /\ Owing(w)
    /\ Reached(w) => /\ fetch.at = "read" => w \in fetch.saw
                     /\ cache.invalid \/ w \in cache.data

\* The page has been answered, and hides values with the answer.
Hiding(w) ==
  /\ calls[w].client \in {"settling", "done"} /\ Here(w)
  /\ By(w).hides = "after" /\ Resources(page[2]) \in By(w).writes

RevealIsCurrent ==
  reveal.at \in {"read", "shown"} => \A w \in Used : Hiding(w) => w \in reveal.saw

ViewsInv ==
  ViewsTypeOK /\ WritesInOrder /\ HandlersFollow /\ UnmountedIsIdle /\ OwedIsComing /\ RevealIsCurrent

\* The states a fetch and a reveal begin with.
LEMMA IdleAndSent ==
  /\ Idle \in FetchSet /\ Idle.at = "idle"
  /\ Sent \in FetchSet /\ Sent.at = "sent"
  /\ Sent \in RevealSet
  /\ Hidden \in RevealSet /\ Hidden.at = "hidden"
  BY DEF Idle, Sent, Hidden, FetchSet, RevealSet

\* A tab that has just been opened has sent nothing.
LEMMA ViewsInitially == Init => ViewsInv
  <1> SUFFICES ASSUME Init PROVE ViewsInv
    OBVIOUS
  <1>1. Used = {} /\ Used = 1..0
    BY DEF Init, Used
  <1>2. ViewsTypeOK
    BY IdleAndSent DEF Init, ViewsTypeOK
  <1>3. WritesInOrder
    BY <1>1 DEF WritesInOrder
  <1>4. UnmountedIsIdle
    BY IdleAndSent DEF Init, UnmountedIsIdle, Mounted, Mounts
  <1> QED
    BY <1>1, <1>2, <1>3, <1>4 DEF Init, ViewsInv, HandlersFollow, OwedIsComing, RevealIsCurrent

\* A step of the cache, the pages and the dialogs that leaves the writes alone.
LEMMA CallsAlone ==
  ASSUME ViewsInv, UNCHANGED <<view, calls, owed>>,
         visit' \in Nat,
         cache' \in Cached \cup {None}, cache # None => cache' # None,
         fetch' \in FetchSet,
         reveal' = Hidden \/ UNCHANGED <<page, visit>>,
         reveal' = reveal \/ reveal'.at \in {"hidden", "sent"},
         reveal' \in RevealSet,
         UnmountedIsIdle',
         \A w \in owed : Reached(w) =>
           /\ fetch'.at = "read" => w \in fetch'.saw
           /\ cache'.invalid \/ w \in cache'.data
  PROVE  ViewsInv'
  <1>1. Used' = Used /\ \A w : By(w)' = By(w) /\ Reached(w)' = Reached(w)
    BY DEF Used, By, Reached
  <1>2. ViewsTypeOK' /\ WritesInOrder' /\ HandlersFollow'
    BY <1>1 DEF ViewsInv, ViewsTypeOK, WritesInOrder, HandlersFollow
  <1>3. OwedIsComing'
    BY <1>1 DEF ViewsInv, OwedIsComing, Owing
  <1>4. RevealIsCurrent'
    BY <1>1, IdleAndSent DEF ViewsInv, RevealIsCurrent, Hiding, Here
  <1> QED
    BY <1>2, <1>3, <1>4 DEF ViewsInv

\* Opening and closing dialogs leaves a fetch alone, starts it or cancels it.
LEMMA RemountedFetch ==
  ASSUME ViewsTypeOK, NEW C, NEW F \in FetchSet, NEW open, ~Mounted => F.at = "idle"
  PROVE  /\ Remounted(C, F, open) \in FetchSet
         /\ Remounted(C, F, open).at = "read" => Remounted(C, F, open) = F
         /\ ~Mounts(page, open) => Remounted(C, F, open).at = "idle"
  BY IdleAndSent DEF Remounted, FetchSet

\* The steps of the query, of the dialogs, of the menu and of the reveal.
LEMMA ViewsStep ==
  ASSUME ViewsInv,
         \/ \E r \in Scene[view].pages, aged \in BOOLEAN : Visit(r, aged)
         \/ ServerRead \/ Answer \/ FetchFails \/ Refetch
         \/ \E d \in Scene[view].dialogs : Open(d) \/ Close(d)
         \/ Show \/ Hide
  PROVE  ViewsInv'
  <1> USE IdleAndSent
  <1>0. ViewsTypeOK /\ UnmountedIsIdle /\ fetch \in FetchSet
    BY DEF ViewsInv, ViewsTypeOK, FetchSet
  <1>1. \A w \in owed : Reached(w) =>
          /\ fetch.at = "read" => w \in fetch.saw
          /\ cache.invalid \/ w \in cache.data
    BY DEF ViewsInv, OwedIsComing
  <1>2. ASSUME NEW r, NEW aged, Visit(r, aged) PROVE ViewsInv'
    <2>1. fetch' \in {Idle, Sent} /\ (~Mounted' => fetch' = Idle) /\ reveal' = Hidden
      BY <1>2 DEF Visit, GoTo, Mounted, Mounts
    <2>2. UnmountedIsIdle'
      BY <2>1 DEF UnmountedIsIdle
    <2>3. UNCHANGED <<view, cache, calls, owed>> /\ visit' = visit + 1
      BY <1>2 DEF Visit, GoTo
    <2> QED
      BY <1>0, <1>1, <2>1, <2>2, <2>3, CallsAlone DEF ViewsTypeOK
  <1>3. CASE ServerRead
    <2>1. UNCHANGED <<view, page, visit, dialogs, cache, calls, reveal, owed>> /\ fetch.at = "sent"
          /\ fetch' = [at |-> "read", saw |-> {w \in Applied : By(w).writes \cap ShownBy[view] # {}}]
      BY <1>3 DEF ServerRead
    <2>2. Applied \subseteq Writes
      BY DEF Applied, Used
    <2>3. fetch' \in FetchSet
      BY <2>1, <2>2 DEF FetchSet
    <2>4. \A w \in owed : w \in fetch'.saw
      BY <2>1 DEF ViewsInv, OwedIsComing, Owing, HandlersFollow, Applied
    <2>5. UnmountedIsIdle'
      BY <1>0, <2>1 DEF UnmountedIsIdle, Mounted, Mounts
    <2> QED
      BY <1>0, <1>1, <2>1, <2>3, <2>4, <2>5, CallsAlone DEF ViewsTypeOK, FetchSet
  <1>4. CASE Answer
    <2>1. UNCHANGED <<view, page, visit, dialogs, calls, reveal, owed>> /\ fetch.at = "read"
          /\ fetch' = Idle /\ cache' = [data |-> fetch.saw, invalid |-> FALSE]
      BY <1>4 DEF Answer
    <2>2. cache' \in Cached
      BY <1>0, <2>1 DEF Cached, FetchSet
    <2>3. UnmountedIsIdle'
      BY <2>1 DEF UnmountedIsIdle
    <2> QED
      BY <1>0, <1>1, <2>1, <2>2, <2>3, NoneAssumption, CallsAlone DEF ViewsTypeOK
  <1>5. CASE FetchFails \/ Refetch
    <2>1. UNCHANGED <<view, page, visit, dialogs, cache, calls, reveal, owed>> /\ fetch' \in {Idle, Sent}
          /\ (~Mounted' => fetch' = Idle)
      BY <1>5 DEF FetchFails, Refetch, Mounted, Mounts
    <2>2. UnmountedIsIdle'
      BY <2>1 DEF UnmountedIsIdle
    <2> QED
      BY <1>0, <1>1, <2>1, <2>2, CallsAlone DEF ViewsTypeOK
  <1>6. ASSUME NEW d, Open(d) \/ Close(d) PROVE ViewsInv'
    <2>1. UNCHANGED <<view, page, visit, cache, calls, reveal, owed>> /\ fetch' = Remounted(cache, fetch, dialogs')
      BY <1>6 DEF Open, Close
    <2>2. fetch' \in FetchSet /\ (fetch'.at = "read" => fetch' = fetch) /\ (~Mounts(page, dialogs') => fetch'.at = "idle")
      BY <1>0, <2>1, RemountedFetch DEF UnmountedIsIdle
    <2>3. UnmountedIsIdle'
      BY <2>1, <2>2 DEF UnmountedIsIdle, Mounted, Mounts
    <2> QED
      BY <1>0, <1>1, <2>1, <2>2, <2>3, CallsAlone DEF ViewsTypeOK, FetchSet
  <1>7. CASE Show \/ Hide
    <2>1. UNCHANGED <<view, page, visit, dialogs, cache, fetch, calls, owed>> /\ reveal' \in {Sent, Hidden}
      BY <1>7 DEF Show, Hide
    <2>2. UnmountedIsIdle'
      BY <1>0, <2>1 DEF UnmountedIsIdle, Mounted, Mounts
    <2> QED
      BY <1>0, <1>1, <2>1, <2>2, CallsAlone DEF ViewsTypeOK
  <1> QED
    BY <1>2, <1>3, <1>4, <1>5, <1>6, <1>7

\* The server reads the values with every write it has applied, among them
\* every one this page has been told of; the answer shows what was read.
LEMMA RevealStep == ViewsInv /\ (RevealRead \/ RevealAnswer) => ViewsInv'
  <1> SUFFICES ASSUME ViewsInv, RevealRead \/ RevealAnswer PROVE ViewsInv'
    OBVIOUS
  <1> USE IdleAndSent
  <1>1. UNCHANGED <<view, page, visit, dialogs, cache, fetch, calls, owed>>
    BY DEF RevealRead, RevealAnswer
  <1>2. Used' = Used /\ \A w : By(w)' = By(w) /\ Reached(w)' = Reached(w) /\ Hiding(w)' = Hiding(w)
    BY <1>1 DEF Used, By, Reached, Hiding, Here
  <1>3. /\ reveal' \in RevealSet
        /\ RevealIsCurrent'
    <2>1. CASE RevealRead
      <3>1. reveal' = [at |-> "read", saw |-> {w \in Applied : Resources(page[2]) \in By(w).writes}]
        BY <2>1 DEF RevealRead
      <3>2. Applied \subseteq Writes
        BY DEF Applied, Used
      <3>3. \A w \in Used : Hiding(w) => w \in reveal'.saw
        BY <3>1 DEF ViewsInv, HandlersFollow, Hiding, Applied
      <3> QED
        BY <1>2, <3>1, <3>2, <3>3 DEF RevealIsCurrent, RevealSet
    <2>2. CASE RevealAnswer
      <3>1. reveal \in RevealSet /\ reveal.at = "read"
            /\ reveal' \in {[reveal EXCEPT !.at = "shown"], Hidden}
        BY <2>2 DEF RevealAnswer, ViewsInv, ViewsTypeOK
      <3>2. reveal'.saw = reveal.saw \/ reveal'.at = "hidden"
        BY <3>1 DEF RevealSet
      <3>3. \A w \in Used : Hiding(w) => w \in reveal.saw
        BY <3>1 DEF ViewsInv, RevealIsCurrent
      <3>4. reveal' \in RevealSet
        BY <3>1 DEF RevealSet
      <3> QED
        BY <1>2, <3>2, <3>3, <3>4 DEF RevealIsCurrent
    <2> QED
      BY <2>1, <2>2
  <1>4. ViewsTypeOK' /\ WritesInOrder' /\ HandlersFollow'
    BY <1>1, <1>2, <1>3 DEF ViewsInv, ViewsTypeOK, WritesInOrder, HandlersFollow
  <1>5. OwedIsComing' /\ UnmountedIsIdle'
    BY <1>1, <1>2 DEF ViewsInv, OwedIsComing, Owing, UnmountedIsIdle, Mounted, Mounts
  <1> QED
    BY <1>3, <1>4, <1>5 DEF ViewsInv

\* A write goes on: the other writes, and its own handler and page, stay.
LEMMA CallGoesOn ==
  ASSUME ViewsInv, NEW w \in Used, NEW c \in Call, calls' = [calls EXCEPT ![w] = c],
         c.by = calls[w].by, c.visit = calls[w].visit
  PROVE  /\ calls' \in [Writes -> Call \cup {None}]
         /\ calls'[w] = c /\ \A v \in Writes : v # w => calls'[v] = calls[v]
         /\ Used' = Used /\ WritesInOrder'
         /\ \A v \in Used : By(v)' = By(v)
         /\ visit' = visit => \A v \in Used : Here(v)' = Here(v)
  <1>1. calls \in [Writes -> Call \cup {None}] /\ w \in Writes
    BY DEF ViewsInv, ViewsTypeOK, Used
  <1>2. /\ calls' \in [Writes -> Call \cup {None}]
        /\ calls'[w] = c /\ \A v \in Writes : v # w => calls'[v] = calls[v]
    BY <1>1
  <1>3. Used' = Used
    BY <1>2, NoneAssumption DEF Used
  <1>4. Used \subseteq Writes
    BY DEF Used
  <1> QED
    BY <1>2, <1>3, <1>4 DEF ViewsInv, WritesInOrder, By, Here

\* A new write is the next number, and its handler one of the console's.
LEMMA Submitted ==
  ASSUME ViewsInv, NEW w \in Writes, NEW h \in Scene[view].handlers, Submit(w, h)
  PROVE  ViewsInv'
  <1> DEFINE c == [by |-> <<h.page, h.name>>, visit |-> visit, server |-> "sent", client |-> "waiting", stage |-> 0]
  <1> USE IdleAndSent
  <1>1. calls \in [Writes -> Call \cup {None}] /\ view \in adminQueryKeys /\ visit \in Nat
    BY DEF ViewsInv, ViewsTypeOK
  <1>2. h \in Handlers
    BY <1>1 DEF Scene, Around
  <1>3. c \in Call /\ c.client = "waiting"
    BY <1>1, <1>2 DEF Call, Ids
  <1>4. calls' = [calls EXCEPT ![w] = c] /\ w = Cardinality(Used) + 1 /\ reveal' \in {Hidden, reveal}
        /\ UNCHANGED <<view, page, visit, dialogs, cache, fetch, owed>>
    BY DEF Submit
  <1> HIDE DEF c
  <1>5. PICK n \in Nat : Used = 1..n
    BY DEF ViewsInv, WritesInOrder
  <1>6. Cardinality(Used) = n
    BY <1>5, FS_Interval
  <1>7. w \notin Used /\ w = n + 1
    BY <1>4, <1>5, <1>6
  <1>8. calls' \in [Writes -> Call \cup {None}] /\ calls'[w] = c /\ \A v \in Writes : v # w => calls'[v] = calls[v]
    BY <1>1, <1>3, <1>4
  <1>9. Used' = Used \cup {w}
    BY <1>3, <1>8, NoneAssumption DEF Used
  <1>10. WritesInOrder'
    <2>1. Used' = 1..(n + 1)
      BY <1>5, <1>7, <1>9
    <2> QED
      BY <2>1 DEF WritesInOrder
  <1>11. \A v \in Used : calls'[v] = calls[v] /\ By(v)' = By(v) /\ Here(v)' = Here(v) /\ Reached(v)' = Reached(v)
    BY <1>4, <1>7, <1>8 DEF Used, By, Here, Reached
  <1>12. ViewsTypeOK'
    BY <1>4, <1>8 DEF ViewsInv, ViewsTypeOK
  <1>13. HandlersFollow'
    BY <1>3, <1>8, <1>9, <1>11 DEF ViewsInv, HandlersFollow
  <1>14. OwedIsComing'
    BY <1>4, <1>9, <1>11 DEF ViewsInv, OwedIsComing, Owing
  <1>15. RevealIsCurrent'
    BY <1>3, <1>4, <1>8, <1>9, <1>11 DEF ViewsInv, RevealIsCurrent, Hiding
  <1>16. UnmountedIsIdle'
    BY <1>4 DEF ViewsInv, UnmountedIsIdle, Mounted, Mounts
  <1> QED
    BY <1>10, <1>12, <1>13, <1>14, <1>15, <1>16 DEF ViewsInv

\* What is left to show of a step of a write, whatever else the step does.
LEMMA CallStep ==
  ASSUME ViewsInv, NEW w \in Used, NEW c \in Call, calls' = [calls EXCEPT ![w] = c],
         c.by = calls[w].by, c.visit = calls[w].visit,
         c.client \in {"settling", "done"} => c.server = "applied",
         c.client = "done" => c.stage = Len(By(w).marks),
         view' = view, visit' \in Nat, cache' \in Cached \cup {None}, fetch' \in FetchSet, owed' \in SUBSET Writes,
         \/ reveal' = Hidden
         \/ /\ UNCHANGED <<page, visit, reveal>>
            /\ \/ c.client \notin {"settling", "done"} \/ calls[w].client \in {"settling", "done"}
               \/ ~(By(w).hides = "after" /\ Here(w)),
         UnmountedIsIdle', OwedIsComing'
  PROVE  ViewsInv'
  <1> USE IdleAndSent
  <1>1. /\ calls' \in [Writes -> Call \cup {None}]
        /\ calls'[w] = c /\ \A v \in Writes : v # w => calls'[v] = calls[v]
        /\ Used' = Used /\ WritesInOrder' /\ \A v \in Used : By(v)' = By(v)
        /\ visit' = visit => \A v \in Used : Here(v)' = Here(v)
    BY CallGoesOn
  <1>2. Used \subseteq Writes
    BY DEF Used
  <1>3. ViewsTypeOK'
    BY <1>1 DEF ViewsInv, ViewsTypeOK, FetchSet
  <1>4. HandlersFollow'
    BY <1>1, <1>2 DEF ViewsInv, HandlersFollow
  <1>5. RevealIsCurrent'
    <2>1. CASE reveal' = Hidden
      BY <2>1 DEF RevealIsCurrent
    <2>2. CASE reveal' # Hidden
      BY <1>1, <1>2, <2>2 DEF ViewsInv, RevealIsCurrent, Hiding
    <2> QED
      BY <2>1, <2>2
  <1> QED
    BY <1>1, <1>3, <1>4, <1>5 DEF ViewsInv

\* The server acts on the write, or the write fails: nothing is owed for it.
LEMMA CommitRefuseFail ==
  ASSUME ViewsInv, NEW w \in Writes, Commit(w) \/ Refuse(w) \/ Fail(w)
  PROVE  ViewsInv'
  <1>0. /\ ViewsTypeOK /\ UnmountedIsIdle /\ fetch \in FetchSet
        /\ w \in Used /\ calls \in [Writes -> Call \cup {None}]
    BY DEF ViewsInv, ViewsTypeOK, FetchSet, Commit, Refuse, Fail
  <1>1. PICK c \in Call : /\ calls' = [calls EXCEPT ![w] = c] /\ c.by = calls[w].by
                          /\ c.visit = calls[w].visit /\ c.stage = calls[w].stage
                          /\ c.client \notin {"settling", "done"}
                          /\ calls[w].client \notin {"settling", "done"}
    <2>1. calls[w] \in Call
      BY <1>0 DEF Used
    <2>2. CASE Commit(w)
      <3> DEFINE c == [calls[w] EXCEPT !.server = "applied"]
      <3>1. calls[w].client \notin {"settling", "done"}
        BY <1>0, <2>2 DEF Commit, ViewsInv, HandlersFollow
      <3>2. c \in Call /\ c.by = calls[w].by /\ c.visit = calls[w].visit /\ c.stage = calls[w].stage /\ c.client = calls[w].client
        BY <2>1 DEF Call
      <3>3. calls' = [calls EXCEPT ![w] = c]
        BY <2>2, Zenon DEF Commit
      <3> QED
        BY <3>1, <3>2, <3>3
    <2>3. CASE Refuse(w)
      <3> DEFINE c == [calls[w] EXCEPT !.server = "refused"]
      <3>1. calls[w].client \notin {"settling", "done"}
        BY <1>0, <2>3 DEF Refuse, ViewsInv, HandlersFollow
      <3>2. c \in Call /\ c.by = calls[w].by /\ c.visit = calls[w].visit /\ c.stage = calls[w].stage /\ c.client = calls[w].client
        BY <2>1 DEF Call
      <3>3. calls' = [calls EXCEPT ![w] = c]
        BY <2>3, Zenon DEF Refuse
      <3> QED
        BY <3>1, <3>2, <3>3
    <2>4. CASE Fail(w)
      <3> DEFINE c == [calls[w] EXCEPT !.client = "failed"]
      <3>1. calls[w].client = "waiting"
        BY <2>4 DEF Fail
      <3>2. c \in Call /\ c.by = calls[w].by /\ c.visit = calls[w].visit /\ c.stage = calls[w].stage /\ c.client = "failed"
        BY <2>1 DEF Call
      <3>3. calls' = [calls EXCEPT ![w] = c]
        BY <2>4, Zenon DEF Fail
      <3> QED
        BY <3>1, <3>2, <3>3
    <2> QED
      BY <2>2, <2>3, <2>4
  <1>2. UNCHANGED <<view, page, visit, cache, reveal, owed>>
    BY DEF Commit, Refuse, Fail
  <1>3. fetch' \in FetchSet /\ (fetch'.at = "read" => fetch' = fetch) /\ UnmountedIsIdle'
    <2>1. CASE Commit(w) \/ Refuse(w)
      BY <1>0, <2>1 DEF Commit, Refuse, UnmountedIsIdle, Mounted, Mounts
    <2>2. CASE Fail(w)
      <3>1. fetch' = Remounted(cache, fetch, dialogs')
        BY <2>2 DEF Fail
      <3>2. fetch' \in FetchSet /\ (fetch'.at = "read" => fetch' = fetch) /\ (~Mounts(page, dialogs') => fetch'.at = "idle")
        BY <1>0, <3>1, RemountedFetch DEF UnmountedIsIdle
      <3> QED
        BY <1>2, <3>2 DEF UnmountedIsIdle, Mounted, Mounts
    <2> QED
      BY <2>1, <2>2
  <1>4. OwedIsComing'
    <2>1. /\ \A v \in Writes : v # w => calls'[v] = calls[v]
          /\ Used' = Used /\ \A v \in Used : By(v)' = By(v)
      BY <1>0, <1>1, CallGoesOn
    <2>2. \A v \in owed : v \in Used /\ v \in Writes /\ v # w
      BY <1>1 DEF ViewsInv, OwedIsComing, Owing, Used
    <2>3. \A v \in owed : Owing(v)' /\ Reached(v)' = Reached(v)
      BY <1>2, <2>1, <2>2 DEF ViewsInv, OwedIsComing, Owing, Reached
    <2> QED
      BY <1>2, <1>3, <2>3 DEF ViewsInv, OwedIsComing
  <1> QED
    BY <1>0, <1>1, <1>2, <1>3, <1>4, CallStep DEF ViewsTypeOK

\* Marking a mounted view with data starts its fetch again: no answer read
\* before the mark arrives after it.
LEMMA MarkedView ==
  ASSUME NEW C \in Cached \cup {None}, NEW F \in FetchSet, NEW keys, ~Mounted => F.at = "idle"
  PROVE  /\ Marked(C, keys) \in Cached \cup {None}
         /\ C # None => /\ Marked(C, keys) # None /\ Marked(C, keys).data = C.data
                        /\ C.invalid => Marked(C, keys).invalid
         /\ C # None /\ view \in keys => Marked(C, keys).invalid
         /\ Refetched(C, F, keys) \in FetchSet
         /\ ~Mounted => Refetched(C, F, keys).at = "idle"
         /\ Refetched(C, F, keys).at = "read" => Refetched(C, F, keys) = F
         /\ C # None /\ view \in keys => Refetched(C, F, keys).at # "read"
  <1>1. /\ Marked(C, keys) \in Cached \cup {None}
        /\ C # None => /\ Marked(C, keys) # None /\ Marked(C, keys).data = C.data
                       /\ C.invalid => Marked(C, keys).invalid
        /\ C # None /\ view \in keys => Marked(C, keys).invalid
    <2> DEFINE M == [C EXCEPT !.invalid = TRUE]
    <2>1. C \in Cached => M \in Cached /\ M.data = C.data /\ M.invalid = TRUE
      BY DEF Cached
    <2>2. Marked(C, keys) = IF view \in keys /\ C # None THEN M ELSE C
      BY DEF Marked
    <2> HIDE DEF M
    <2> QED
      BY <2>1, <2>2, NoneAssumption
  <1>2. /\ Refetched(C, F, keys) \in FetchSet
        /\ ~Mounted => Refetched(C, F, keys).at = "idle"
        /\ Refetched(C, F, keys).at = "read" => Refetched(C, F, keys) = F
        /\ C # None /\ view \in keys => Refetched(C, F, keys).at # "read"
    BY IdleAndSent DEF Refetched, FetchSet
  <1> QED
    BY <1>1, <1>2

\* The next views of a handler are marked.
LEMMA NextMarked ==
  ASSUME ViewsInv, NEW w \in Writes, MarkNext(w)
  PROVE  ViewsInv'
  <1> DEFINE next == calls[w].stage + 1
             c == [calls[w] EXCEPT !.stage = next]
             keys == By(w).marks[next]
  <1>0. /\ ViewsTypeOK /\ UnmountedIsIdle /\ fetch \in FetchSet /\ visit \in Nat /\ cache \in Cached \cup {None}
        /\ owed \in SUBSET Writes
        /\ w \in Used /\ calls \in [Writes -> Call \cup {None}] /\ calls[w].client = "settling"
    BY DEF ViewsInv, ViewsTypeOK, FetchSet, MarkNext
  <1>1. calls[w] \in Call
    BY <1>0 DEF Used
  <1>2. c \in Call /\ c.by = calls[w].by /\ c.visit = calls[w].visit /\ c.stage = next
        /\ c.client = "settling" /\ c.server = calls[w].server /\ calls[w].stage \in Nat
    BY <1>0, <1>1 DEF Call
  <1>3. calls' = [calls EXCEPT ![w] = c]
    BY Zenon DEF MarkNext
  <1>4. cache' = Marked(cache, keys) /\ fetch' = Refetched(cache, fetch, keys)
        /\ UNCHANGED <<view, page, visit, dialogs, reveal, owed>>
    BY DEF MarkNext
  <1> HIDE DEF c, keys
  <1>5. /\ calls'[w] = c /\ \A v \in Writes : v # w => calls'[v] = calls[v]
        /\ Used' = Used /\ \A v \in Used : By(v)' = By(v)
    BY <1>0, <1>2, <1>3, CallGoesOn
  <1>6. /\ cache' \in Cached \cup {None} /\ fetch' \in FetchSet
        /\ cache # None => cache' # None /\ cache'.data = cache.data /\ (cache.invalid => cache'.invalid)
        /\ cache # None /\ view \in keys => cache'.invalid /\ fetch'.at # "read"
        /\ ~Mounted => fetch'.at = "idle"
        /\ fetch'.at = "read" => fetch' = fetch
    BY <1>0, <1>4, MarkedView DEF UnmountedIsIdle
  <1>7. UnmountedIsIdle'
    BY <1>4, <1>6 DEF UnmountedIsIdle, Mounted, Mounts
  <1>8. OwedIsComing'
    <2>1. \A v \in owed : Owing(v) /\ v \in Used /\ v \in Writes
      BY DEF ViewsInv, OwedIsComing, Owing, Used
    <2>2. \A v \in owed : Owing(v)'
      BY <1>2, <1>4, <1>5, <1>6, <2>1 DEF Owing
    <2>3. \A v \in owed : v # w => (Reached(v)' <=> Reached(v))
      BY <1>4, <1>5, <2>1 DEF Reached
    <2>4. Reached(w)' => Reached(w) \/ view \in keys
      BY <1>0, <1>2, <1>4, <1>5 DEF Reached, keys
    <2>5. \A v \in owed : Reached(v)' => Reached(v) \/ view \in keys
      BY <2>3, <2>4
    <2> QED
      BY <1>4, <1>6, <2>1, <2>2, <2>5 DEF ViewsInv, OwedIsComing, Owing
  <1>9. c.client = "settling" => c.server = "applied"
    BY <1>0, <1>2 DEF ViewsInv, HandlersFollow
  <1> QED
    BY <1>0, <1>2, <1>3, <1>4, <1>6, <1>7, <1>8, <1>9, CallStep

\* The answer arrives: what is dropped owes nothing, what has data owes the
\* write, and the views marked first are marked with this very step.
LEMMA Succeeded ==
  ASSUME ViewsInv, NEW w \in Writes, Succeed(w)
  PROVE  ViewsInv'
  <1> DEFINE h == By(w)
             stage == IF h.marks = <<>> THEN 0 ELSE 1
             c == [calls[w] EXCEPT !.client = "settling", !.stage = stage]
             C == Dropped(cache, h.removes)
             F == Restarted(fetch, h.removes)
             first == IF h.marks = <<>> THEN {} ELSE h.marks[1]
             G == Refetched(C, F, first)
  <1>0. /\ ViewsTypeOK /\ UnmountedIsIdle /\ fetch \in FetchSet /\ visit \in Nat /\ cache \in Cached \cup {None}
        /\ owed \in SUBSET Writes
        /\ w \in Used /\ calls \in [Writes -> Call \cup {None}]
        /\ calls[w].client = "waiting" /\ calls[w].server = "applied"
    BY DEF ViewsInv, ViewsTypeOK, FetchSet, Succeed
  <1>1. calls[w] \in Call
    BY <1>0 DEF Used
  <1>2. c \in Call /\ c.by = calls[w].by /\ c.visit = calls[w].visit /\ c.stage = stage
        /\ c.client = "settling" /\ c.server = "applied"
    BY <1>0, <1>1 DEF Call
  <1>3. calls' = [calls EXCEPT ![w] = c]
    <2>1. calls' = [calls EXCEPT ![w].client = "settling", ![w].stage = stage]
      BY DEF Succeed
    <2> QED
      BY <1>0, <2>1
  <1>4. /\ cache' = Marked(C, first) /\ fetch' = Remounted(cache', G, dialogs')
        /\ reveal' = CancelAndErase(w) /\ UNCHANGED <<view, page, visit>>
    BY DEF Succeed
  <1>5. owed' = CASE view \in h.removes -> {}
                  [] view \notin h.removes /\ cache # None /\ h.writes \cap ShownBy[view] # {} -> owed \cup {w}
                  [] OTHER -> owed
    BY DEF Succeed
  <1>6. /\ view \in h.removes => owed' = {}
        /\ view \notin h.removes =>
             owed' = IF cache # None /\ h.writes \cap ShownBy[view] # {} THEN owed \cup {w} ELSE owed
    BY <1>5
  <1>7. /\ C \in Cached \cup {None} /\ F \in FetchSet /\ (~Mounted => F.at = "idle")
        /\ view \notin h.removes => C = cache /\ F = fetch
    BY <1>0, IdleAndSent DEF Dropped, Restarted, UnmountedIsIdle, FetchSet
  <1> HIDE DEF c, C, F, first
  <1>8. /\ cache' \in Cached \cup {None} /\ G \in FetchSet /\ (~Mounted => G.at = "idle")
        /\ C # None => cache' # None /\ cache'.data = C.data /\ (C.invalid => cache'.invalid)
        /\ C # None /\ view \in first => cache'.invalid /\ G.at # "read"
        /\ G.at = "read" => G = F
    BY <1>4, <1>7, MarkedView
  <1> HIDE DEF G
  <1>9. /\ fetch' \in FetchSet /\ (fetch'.at = "read" => fetch' = G)
        /\ ~Mounts(page, dialogs') => fetch'.at = "idle"
    BY <1>0, <1>4, <1>8, RemountedFetch
  <1>10. UnmountedIsIdle'
    BY <1>4, <1>9 DEF UnmountedIsIdle, Mounted, Mounts
  <1>11. /\ calls'[w] = c /\ \A v \in Writes : v # w => calls'[v] = calls[v]
         /\ Used' = Used /\ \A v \in Used : By(v)' = By(v)
    BY <1>0, <1>2, <1>3, CallGoesOn
  <1>12. OwedIsComing'
    <2>1. CASE view \in h.removes
      BY <1>6, <2>1 DEF OwedIsComing
    <2>2. CASE view \notin h.removes
      <3>1. C = cache /\ F = fetch
        BY <1>7, <2>2
      <3>2. \A v \in owed : Owing(v) /\ v \in Used /\ v \in Writes /\ v # w
        BY <1>0 DEF ViewsInv, OwedIsComing, Owing, Used
      <3>3. \A v \in owed : Owing(v)' /\ (Reached(v)' <=> Reached(v))
        BY <1>4, <1>8, <1>11, <3>1, <3>2 DEF Owing, Reached
      <3>4. \A v \in owed : Reached(v) => /\ fetch'.at = "read" => v \in fetch'.saw
                                          /\ cache'.invalid \/ v \in cache'.data
        BY <1>8, <1>9, <3>1, <3>2 DEF ViewsInv, OwedIsComing, Owing
      <3>5. w \in owed' => /\ Owing(w)'
                           /\ Reached(w)' => fetch'.at # "read" /\ cache'.invalid
        <4>1. SUFFICES ASSUME w \in owed'
                       PROVE  Owing(w)' /\ (Reached(w)' => fetch'.at # "read" /\ cache'.invalid)
          OBVIOUS
        <4>2. cache # None /\ h.writes \cap ShownBy[view] # {}
          BY <1>6, <2>2, <3>2, <4>1
        <4>3. Owing(w)'
          BY <1>0, <1>2, <1>4, <1>8, <1>11, <2>2, <3>1, <4>2 DEF Owing
        <4>4. Reached(w)' => view \in first
          BY <1>0, <1>2, <1>4, <1>11 DEF Reached, first
        <4> QED
          BY <1>8, <1>9, <3>1, <4>2, <4>3, <4>4
      <3>6. owed' \subseteq owed \cup {w}
        BY <1>6, <2>2
      <3> QED
        BY <3>3, <3>4, <3>5, <3>6 DEF OwedIsComing
    <2> QED
      BY <2>1, <2>2
  <1>13. owed' \in SUBSET Writes
    BY <1>0, <1>6
  <1>14. reveal' = Hidden \/ (reveal' = reveal /\ ~(By(w).hides = "after" /\ Here(w)))
    BY <1>4 DEF CancelAndErase
  <1> QED
    BY <1>0, <1>2, <1>3, <1>4, <1>8, <1>9, <1>10, <1>12, <1>13, <1>14, CallStep

\* A handler ends with everything marked, wherever it takes the user.
LEMMA Finished ==
  ASSUME ViewsInv, NEW w \in Writes, Finish(w)
  PROVE  ViewsInv'
  <1> DEFINE c == [calls[w] EXCEPT !.client = "done"]
  <1>0. /\ ViewsTypeOK /\ UnmountedIsIdle /\ fetch \in FetchSet /\ visit \in Nat /\ cache \in Cached \cup {None}
        /\ owed \in SUBSET Writes
        /\ w \in Used /\ calls \in [Writes -> Call \cup {None}]
        /\ calls[w].client = "settling" /\ calls[w].stage = Len(By(w).marks)
    BY DEF ViewsInv, ViewsTypeOK, FetchSet, Finish
  <1>1. calls[w] \in Call /\ calls[w].server = "applied"
    BY <1>0 DEF Used, ViewsInv, HandlersFollow
  <1>2. c \in Call /\ c.by = calls[w].by /\ c.visit = calls[w].visit /\ c.stage = calls[w].stage
        /\ c.client = "done" /\ c.server = "applied"
    BY <1>1 DEF Call
  <1>3. calls' = [calls EXCEPT ![w] = c] /\ UNCHANGED <<view, cache, owed>>
    BY Zenon DEF Finish
  <1> HIDE DEF c
  <1>4. /\ \/ reveal' = Hidden /\ visit' = visit + 1
           \/ UNCHANGED <<page, visit, reveal>>
        /\ fetch' \in FetchSet /\ (fetch'.at = "read" => fetch' = fetch) /\ UnmountedIsIdle'
    <2>1. CASE By(w).to # None /\ GoTo(By(w).to, FALSE)
      <3>1. fetch' \in {Idle, Sent} /\ (~Mounted' => fetch' = Idle) /\ reveal' = Hidden /\ visit' = visit + 1
        BY <1>3, <2>1 DEF GoTo, Mounted, Mounts
      <3> QED
        BY <3>1, IdleAndSent DEF UnmountedIsIdle, FetchSet
    <2>2. CASE UNCHANGED <<page, visit, dialogs, fetch, reveal>>
      BY <1>0, <1>3, <2>2 DEF UnmountedIsIdle, Mounted, Mounts
    <2>3. CASE UNCHANGED <<page, visit, reveal>> /\ fetch' = Remounted(cache, fetch, dialogs')
      <3>1. fetch' \in FetchSet /\ (fetch'.at = "read" => fetch' = fetch) /\ (~Mounts(page, dialogs') => fetch'.at = "idle")
        BY <1>0, <2>3, RemountedFetch DEF UnmountedIsIdle
      <3> QED
        BY <1>3, <2>3, <3>1 DEF UnmountedIsIdle, Mounted, Mounts
    <2> QED
      BY <2>1, <2>2, <2>3 DEF Finish
  <1>5. /\ calls'[w] = c /\ \A v \in Writes : v # w => calls'[v] = calls[v]
        /\ Used' = Used /\ \A v \in Used : By(v)' = By(v)
    BY <1>0, <1>2, <1>3, CallGoesOn
  <1>6. OwedIsComing'
    <2>1. \A v \in owed : Owing(v) /\ v \in Used /\ v \in Writes
      BY DEF ViewsInv, OwedIsComing, Owing, Used
    <2>2. \A v \in owed : Owing(v)' /\ (Reached(v)' <=> Reached(v))
      BY <1>2, <1>3, <1>5, <2>1 DEF Owing, Reached
    <2> QED
      BY <1>3, <1>4, <2>2 DEF ViewsInv, OwedIsComing
  <1>7. visit' \in Nat
    BY <1>0, <1>4
  <1> QED
    BY <1>0, <1>2, <1>3, <1>4, <1>6, <1>7, CallStep

\* Every step of the console preserves the invariant.
LEMMA ViewsInductive == ViewsInv /\ [Next]_vars => ViewsInv'
  <1> SUFFICES ASSUME ViewsInv, [Next]_vars PROVE ViewsInv'
    OBVIOUS
  <1>1. CASE UNCHANGED vars
    BY <1>1 DEF vars, ViewsInv, ViewsTypeOK, WritesInOrder, HandlersFollow, UnmountedIsIdle, OwedIsComing,
                RevealIsCurrent, Owing, Reached, Hiding, Here, Used, By, Mounted, Mounts
  <1>2. CASE \/ \E r \in Scene[view].pages, aged \in BOOLEAN : Visit(r, aged)
             \/ ServerRead \/ Answer \/ FetchFails \/ Refetch
             \/ \E d \in Scene[view].dialogs : Open(d) \/ Close(d)
             \/ Show \/ Hide
    BY <1>2, ViewsStep
  <1>3. CASE RevealRead \/ RevealAnswer
    BY <1>3, RevealStep
  <1>4. ASSUME NEW w \in Writes, NEW h \in Scene[view].handlers, Submit(w, h) PROVE ViewsInv'
    BY <1>4, Submitted
  <1>5. ASSUME NEW w \in Writes,
               Commit(w) \/ Refuse(w) \/ Succeed(w) \/ MarkNext(w) \/ Finish(w) \/ Fail(w)
        PROVE  ViewsInv'
    BY <1>5, CommitRefuseFail, Succeeded, NextMarked, Finished
  <1> QED
    BY <1>1, <1>2, <1>3, <1>4, <1>5 DEF Next

\* The invariant of the views holds in every reachable state.
THEOREM ViewsInvariant == Spec => []ViewsInv
  BY ViewsInitially, ViewsInductive, PTL DEF Spec

\* Values revealed on this page are never older than a change the page has
\* acknowledged.
THEOREM RevealedStaysCurrent == Spec => []RevealedIsCurrent
  <1>1. ViewsInv => RevealedIsCurrent
    BY DEF ViewsInv, RevealIsCurrent, Hiding, RevealedIsCurrent
  <1> QED
    BY <1>1, ViewsInvariant, PTL

\* When a handler has finished, no view that had data when its write was
\* acknowledged is served as fresh without that write, whatever fetch was in
\* flight and wherever the user went: the handler has marked the view, and an
\* answer that unmarks it was read after the write.
THEOREM FreshStaysCurrent == Spec => []FreshIsCurrent
  <1>1. ViewsInv => FreshIsCurrent
    <2> SUFFICES ASSUME ViewsInv, Fresh, NEW w \in owed, Done(w), ~LeftAside(w) PROVE w \in cache.data
      BY DEF FreshIsCurrent
    <2>1. Owing(w) /\ calls[w] \in Call /\ view \in adminQueryKeys
      BY DEF ViewsInv, ViewsTypeOK, OwedIsComing, Owing, Used
    <2>2. By(w) \in Handlers
      BY <2>1 DEF By, HandlerOf, Ids, Call
    <2>3. Tells(By(w), view)
      BY <2>1, <2>2, HandlersTell
    <2>4. By(w).writes \cap Shows(view) # {} /\ view \notin By(w).removes
      BY <2>1 DEF Owing, ShownBy
    <2>5. calls[w].stage = Len(By(w).marks)
      BY DEF ViewsInv, HandlersFollow, Done
    <2>6. Reached(w)
      BY <2>3, <2>4, <2>5 DEF Tells, LeftAside, Reached
    <2> QED
      BY <2>6 DEF ViewsInv, OwedIsComing, Fresh
  <1> QED
    BY <1>1, ViewsInvariant, PTL

-----------------------------------------------------------------------------
(* The tables *)

\* The pages r rows take, n a page.
PagesOf(r, n) == (r + n - 1) \div n

\* Rows have a page each, and the page that keeps the first row of page i in
\* view, when n rows a page become m, is one of the pages there then are.
LEMMA PageArithmetic ==
  ASSUME NEW n \in PAGE_SIZE_OPTIONS, NEW m \in PAGE_SIZE_OPTIONS, NEW r \in Nat, NEW i \in Nat
  PROVE  /\ PagesOf(r, n) \in Nat
         /\ r > 0 => 0 < PagesOf(r, n)
         /\ (i * n) \div m \in Nat
         /\ i < PagesOf(r, n) => (i * n) \div m < PagesOf(r, m)
  <1>1. n \in {5, 10, 25, 50} /\ m \in {5, 10, 25, 50}
    BY DEF PAGE_SIZE_OPTIONS
  <1>2. PagesOf(r, n) \in Nat /\ (r > 0 => 0 < PagesOf(r, n))
    BY <1>1 DEF PagesOf
  <1>3. i < PagesOf(r, n) => i * n < r
    BY <1>1 DEF PagesOf
  <1>4. i * n \in Nat
    BY <1>1
  <1>5. \A k \in Nat : k \div m \in Nat /\ (k < r => k \div m < PagesOf(r, m))
    BY <1>1 DEF PagesOf
  <1> QED
    BY <1>2, <1>3, <1>4, <1>5

Sortings == Seq(SortKey)

\* A layout that a table can have: one of the page sizes, columns to sort by,
\* and a visibility that says at least what the page's own says.
Layout(L) ==
  /\ L = [visibility |-> L.visibility, pageSize |-> L.pageSize, sorting |-> L.sorting]
  /\ L.pageSize \in PAGE_SIZE_OPTIONS
  /\ L.sorting \in Sortings
  /\ Over(L.visibility, table.visibility) = L.visibility

TableFits ==
  /\ table.pageSize \in PAGE_SIZE_OPTIONS \cup {None}
  /\ table.sorting \in Sortings
  /\ table.columns \subseteq Columns
  /\ Over(table.visibility, table.visibility) = table.visibility

\* Beside the page shown: what is stored names no page size but one of the
\* options and no sorting but one by columns, since a mount takes it into the
\* layout; while the table is there, what is stored is its layout; and the
\* pages are counted with the layout.
TablesInv ==
  /\ TableFits /\ Layout(layout)
  /\ loadPreferences(kept).pageSize \in PAGE_SIZE_OPTIONS \cup {None}
  /\ loadPreferences(kept).sorting \in Sortings \cup {None}
  /\ onTable => kept = Stored("v1", layout)
  /\ pageIndex \in Nat /\ rows \in Nat /\ allRows \in Nat
  /\ PageInRange

\* What is laid over a second time changes nothing.
LEMMA OverAgain == \A f, g : Over(Over(f, g), g) = Over(f, g)
  BY DEF Over

\* What has a value for every key of g still has when more is put over it.
LEMMA OverMore ==
  ASSUME NEW f, NEW g, NEW h, Over(f, g) = f
  PROVE  Over(Over(h, f), g) = Over(h, f)
  <1>1. DOMAIN g \subseteq DOMAIN f
    BY DEF Over
  <1> QED
    BY <1>1 DEF Over

\* The tables of the pages start with what a layout can have.
LEMMA FirstTables ==
  ASSUME NEW t \in DataTableSet
  PROVE  /\ t.pageSize \in PAGE_SIZE_OPTIONS \cup {None}
         /\ t.sorting \in Sortings
         /\ t.columns \subseteq Columns
         /\ Over(t.visibility, t.visibility) = t.visibility
  <1>1. t.pageSize \in PAGE_SIZE_OPTIONS \cup {None}
    BY DEF DataTableSet, TenantTables, TenantsTable, ResourceTable, DomainTable, ClientsTable, OperationTables,
           TargetsTable, DeliveriesTable, AuditTable, SessionsTable, Table, PAGE_SIZE_OPTIONS
  <1> DEFINE Fits(u) == u.sorting \in Sortings /\ u.visibility \in {<<>>, [flags |-> FALSE]}
  <1>2. <<>> \in Sortings /\ \A c \in Columns : <<Asc(c)>> \in Sortings /\ <<Desc(c)>> \in Sortings
    BY DEF Sortings, SortKey, Asc, Desc
  <1>3. \A name, columns, fixed, first :
          /\ Table(name, columns, fixed, first).sorting = first
          /\ Table(name, columns, fixed, first).columns = columns
          /\ Table(name, columns, fixed, first).visibility = <<>>
    BY DEF Table
  <1>4. /\ TenantsTable.sorting = <<Asc("name")>> /\ TenantsTable.columns = tenantColumns
        /\ ResourceTable.sorting = <<Asc("alias")>> /\ ResourceTable.columns = resourceColumns
        /\ DomainTable.sorting = <<Asc("hostname")>> /\ DomainTable.columns = domainColumns
        /\ TenantsTable.visibility = <<>> /\ ResourceTable.visibility = <<>> /\ DomainTable.visibility = <<>>
    BY <1>3 DEF TenantsTable, ResourceTable, DomainTable
  <1>5. /\ ClientsTable.sorting = <<Desc("created_at")>> /\ ClientsTable.columns = clientColumns
        /\ ClientsTable.visibility = [flags |-> FALSE]
    BY DEF ClientsTable, Table
  <1>6. /\ TargetsTable.sorting = <<>> /\ TargetsTable.columns = targetColumns
        /\ DeliveriesTable.sorting = <<>> /\ DeliveriesTable.columns = deliveryColumns
        /\ TargetsTable.visibility = <<>> /\ DeliveriesTable.visibility = <<>>
    BY DEF TargetsTable, DeliveriesTable, Table
  <1>7. /\ AuditTable.sorting = <<Desc("occurred_at")>> /\ AuditTable.columns = auditColumns
        /\ SessionsTable.sorting = <<Desc("last_used_at")>> /\ SessionsTable.columns = sessionColumns
        /\ AuditTable.visibility = <<>> /\ SessionsTable.visibility = <<>>
    BY DEF AuditTable, SessionsTable, Table
  <1>8. {"name", "alias", "hostname", "created_at", "occurred_at", "last_used_at"} \subseteq Columns
    <2>1. /\ "name" \in tenantColumns /\ "alias" \in resourceColumns /\ "hostname" \in domainColumns
          /\ "created_at" \in clientColumns /\ "occurred_at" \in auditColumns
          /\ "last_used_at" \in sessionColumns
      BY DEF tenantColumns, resourceColumns, domainColumns, clientColumns, auditColumns, sessionColumns
    <2> QED
      BY <1>4, <1>5, <1>7, <2>1 DEF Columns, DataTableSet, TenantTables, OperationTables
  <1>9. Fits(t)
    <2>1. Fits(TenantsTable) /\ Fits(ResourceTable) /\ Fits(DomainTable)
      BY <1>2, <1>4, <1>8
    <2>2. Fits(ClientsTable)
      BY <1>2, <1>5, <1>8
    <2>3. Fits(TargetsTable) /\ Fits(DeliveriesTable)
      BY <1>2, <1>6, <1>8
    <2>4. Fits(AuditTable) /\ Fits(SessionsTable)
      BY <1>2, <1>7, <1>8
    <2> HIDE DEF Fits
    <2> QED
      BY <2>1, <2>2, <2>3, <2>4 DEF DataTableSet, TenantTables, OperationTables
  <1>10. Over(<<>>, <<>>) = <<>> /\ Over([flags |-> FALSE], [flags |-> FALSE]) = [flags |-> FALSE]
    BY DEF Over
  <1> QED
    BY <1>1, <1>9, <1>10 DEF Columns

\* Whatever a click makes of a sorting by columns is one.
LEMMA SortingsClosed ==
  ASSUME TableFits, layout.sorting \in Sortings, NEW c \in Free
  PROVE  /\ \A desc, multi \in BOOLEAN : Toggled(c, desc, multi) \in Sortings
         /\ Sorted(c) # {} => Cleared(c) \in Sortings
         /\ <<Asc(c)>> \in Sortings
  <1>1. c \in Columns
    BY DEF Free, TableFits
  <1>2. \A desc \in BOOLEAN : [id |-> c, desc |-> desc] \in SortKey
    BY <1>1 DEF SortKey
  <1>3. Len(layout.sorting) \in Nat /\ \A i \in 1..Len(layout.sorting) : layout.sorting[i] \in SortKey
    BY DEF Sortings
  <1>4. ASSUME NEW desc \in BOOLEAN PROVE Turned(c, desc) \in Sortings
    BY <1>2, <1>3 DEF Turned, Sortings
  <1>5. ASSUME NEW desc \in BOOLEAN, NEW multi \in BOOLEAN PROVE Toggled(c, desc, multi) \in Sortings
    <2>1. Append(layout.sorting, [id |-> c, desc |-> desc]) \in Sortings
      BY <1>2 DEF Sortings
    <2>2. <<[id |-> c, desc |-> desc]>> \in Sortings
      BY <1>2 DEF Sortings
    <2> QED
      BY <1>4, <2>1, <2>2 DEF Toggled
  <1>6. ASSUME Sorted(c) # {} PROVE Cleared(c) \in Sortings
    <2> DEFINE i == CHOOSE i \in Sorted(c) : TRUE
    <2>1. i \in 1..Len(layout.sorting)
      BY <1>6 DEF Sorted
    <2> HIDE DEF i
    <2>2. /\ SubSeq(layout.sorting, 1, i - 1) \in Seq(SortKey)
          /\ SubSeq(layout.sorting, i + 1, Len(layout.sorting)) \in Seq(SortKey)
      BY <1>3, <2>1, SubSeqProperties DEF Sortings
    <2>3. RemoveAt(layout.sorting, i) \in Seq(SortKey)
      BY <2>2, ConcatProperties DEF RemoveAt
    <2> QED
      BY <2>3 DEF Cleared, Sortings, i
  <1>7. <<Asc(c)>> \in Sortings
    <2>1. Asc(c) \in SortKey
      BY <1>1 DEF Asc, SortKey
    <2> QED
      BY <2>1 DEF Sortings
  <1> QED
    BY <1>5, <1>6, <1>7

\* The layout of a table that is reset.
LEMMA FirstLayoutFits == TableFits => Layout(FirstLayout)
  <1> SUFFICES ASSUME TableFits PROVE Layout(FirstLayout)
    OBVIOUS
  <1>1. FirstPageSize \in PAGE_SIZE_OPTIONS
    BY DEF TableFits, FirstPageSize, PAGE_SIZE_OPTIONS
  <1> QED
    BY <1>1 DEF TableFits, FirstLayout, Layout

\* Nothing stored, or stored by the hook before versions, names no page size
\* and no sorting.
LEMMA TablesInitially == TablesInit => TablesInv
  <1> SUFFICES ASSUME TablesInit PROVE TablesInv
    OBVIOUS
  <1>1. TableFits
    BY FirstTables DEF TablesInit, TableFits
  <1>2. Layout(layout)
    BY <1>1, FirstLayoutFits DEF TablesInit
  <1>3. loadPreferences(kept).pageSize = None /\ loadPreferences(kept).sorting = None
    <2>1. /\ Nothing.pageSize = None /\ Nothing.sorting = None
          /\ \A c : Legacy(c).pageSize = None /\ Legacy(c).sorting = None
      BY DEF Nothing, Legacy
    <2>2. CASE kept \in {Stored("none", Nothing), Stored("broken", Nothing)}
      BY <2>1, <2>2 DEF loadPreferences, Stored
    <2>3. CASE kept \in {Stored("legacy", Legacy(c)) : c \in Free}
      <3>1. PICK c \in Free : kept = Stored("legacy", Legacy(c))
        BY <2>3
      <3> QED
        BY <2>1, <3>1 DEF loadPreferences, Stored
    <2> QED
      BY <2>2, <2>3 DEF TablesInit
  <1> QED
    BY <1>1, <1>2, <1>3 DEF TablesInit, TablesInv, PageInRange

\* A new layout, stored as it is taken, and the page that is shown with it.
LEMMA LayoutTaken ==
  ASSUME TablesInv, NEW L, Layout(L), Lay(L), table' = table, UNCHANGED <<rows, allRows>>,
         \/ pageIndex' = 0
         \/ pageIndex' = pageIndex /\ L.pageSize = layout.pageSize /\ onTable
         \/ pageIndex' = (pageIndex * layout.pageSize) \div L.pageSize /\ onTable
  PROVE  TablesInv'
  <1>1. layout' = L /\ loadPreferences(kept)' = L
    BY DEF Lay, Stored, loadPreferences
  <1>2. layout.pageSize \in PAGE_SIZE_OPTIONS /\ L.pageSize \in PAGE_SIZE_OPTIONS
        /\ pageIndex \in Nat /\ rows \in Nat
    BY DEF TablesInv, Layout
  <1>3. PageCount = PagesOf(rows, layout.pageSize) /\ PageCount' = PagesOf(rows, L.pageSize)
    BY <1>1 DEF PageCount, PagesOf
  <1>4. pageIndex' \in Nat
    BY <1>2, PageArithmetic
  <1>5. PageInRange'
    BY <1>2, <1>3, PageArithmetic DEF TablesInv, PageInRange
  <1> QED
    <2>1. Layout(layout)' /\ TableFits'
      BY <1>1 DEF TablesInv, Layout, TableFits
    <2>2. loadPreferences(kept)' = L /\ kept' = Stored("v1", layout') /\ L.sorting \in Sortings
      BY <1>1 DEF Lay, Layout
    <2> QED
      BY <1>2, <1>4, <1>5, <2>1, <2>2 DEF TablesInv

\* Every step of the user and of the data.
LEMMA TablesInductive == TablesInv /\ [TablesNext]_tableVars => TablesInv'
  <1> SUFFICES ASSUME TablesInv, [TablesNext]_tableVars PROVE TablesInv'
    OBVIOUS
  <1>0. TableFits /\ Layout(layout) /\ Layout(FirstLayout)
    BY FirstLayoutFits DEF TablesInv
  <1>1. CASE UNCHANGED tableVars
    BY <1>1 DEF tableVars, rowVars, TablesInv, TableFits, loadPreferences, PageInRange, PageCount, Layout
  <1>2. CASE MountTable
    <2> DEFINE L == restored(loadPreferences(kept))
    <2>1. Layout(L)
      BY <1>0, OverAgain DEF TablesInv, TableFits, restored, Layout, FirstLayout
    <2>2. Lay(L) /\ pageIndex' = 0 /\ rows' = 0 /\ allRows' = 0 /\ table' = table
      BY <1>2 DEF MountTable
    <2> HIDE DEF L
    <2>3. layout' = L /\ loadPreferences(kept)' = L /\ kept' = Stored("v1", layout')
      BY <2>2 DEF Lay, Stored, loadPreferences
    <2> QED
      BY <1>0, <2>1, <2>2, <2>3 DEF TablesInv, TableFits, PageInRange, Layout
  <1>3. CASE UnmountTable
    BY <1>3 DEF UnmountTable, rowVars, TablesInv, TableFits, loadPreferences, PageInRange, Layout
  <1>4. ASSUME NEW data \in Nat, NEW filter, Filtered(data, filter) PROVE TablesInv'
    <2>1. rows' \in Nat /\ allRows' \in Nat /\ pageIndex' = 0 /\ UNCHANGED <<table, kept, layout, onTable>>
      BY <1>4, RowsAssumption DEF Filtered
    <2>2. layout.pageSize \in PAGE_SIZE_OPTIONS /\ PageCount' = PagesOf(rows', layout.pageSize)
      BY <1>0, <2>1 DEF Layout, PageCount, PagesOf
    <2>3. PageInRange'
      BY <2>1, <2>2, PageArithmetic DEF PageInRange
    <2> QED
      BY <2>1, <2>3 DEF TablesInv, TableFits, loadPreferences, Layout
  <1>5. CASE Turn
    <2>1. UNCHANGED <<table, kept, layout, rows, allRows, onTable>>
      BY <1>5 DEF Turn, rowVars
    <2>2. PageCount = PagesOf(rows, layout.pageSize) /\ PageCount' = PageCount
          /\ layout.pageSize \in PAGE_SIZE_OPTIONS /\ rows \in Nat /\ pageIndex \in Nat
      BY <2>1 DEF PageCount, PagesOf, TablesInv, Layout
    <2>3. PageCount \in Nat
      BY <2>2, PageArithmetic
    <2>4. pageIndex' \in Nat /\ PageInRange'
      BY <1>5, <2>1, <2>2, <2>3 DEF Turn, GoToLast, GoToNext, GoBack, TablesInv, PageInRange
    <2> QED
      BY <2>1, <2>4 DEF TablesInv, TableFits, loadPreferences, Layout
  <1>6. ASSUME NEW s \in Sortings, SortBy(s) PROVE TablesInv'
    <2> DEFINE L == [layout EXCEPT !.sorting = s]
    <2>1. Layout(L)
      BY <1>0 DEF Layout
    <2> QED
      BY <1>6, <2>1, LayoutTaken DEF SortBy, Chosen, rowVars
  <1>7. CASE ResetTable
    BY <1>0, <1>7, LayoutTaken DEF ResetTable, Chosen, rowVars
  <1>8. ASSUME NEW n \in PAGE_SIZE_OPTIONS, SetPageSize(n) PROVE TablesInv'
    <2> DEFINE L == [layout EXCEPT !.pageSize = n]
    <2>1. Layout(L) /\ L.pageSize = n
      BY <1>0 DEF Layout
    <2>2. Lay(L) /\ table' = table /\ UNCHANGED <<rows, allRows>> /\ onTable
          /\ pageIndex' = (pageIndex * layout.pageSize) \div n
      BY <1>8 DEF SetPageSize, Chosen, rowVars
    <2> HIDE DEF L
    <2> QED
      BY <2>1, <2>2, LayoutTaken
  <1>9. ASSUME NEW c \in Free, ToggleVisibility(c) PROVE TablesInv'
    <2>1. PICK v : Lay([layout EXCEPT !.visibility = Over(v, layout.visibility)])
      BY <1>9 DEF ToggleVisibility
    <2> DEFINE L == [layout EXCEPT !.visibility = Over(v, layout.visibility)]
    <2>2. Layout(L) /\ L.pageSize = layout.pageSize
      BY <1>0, OverMore DEF Layout
    <2>3. Lay(L) /\ table' = table /\ UNCHANGED <<rows, allRows>> /\ onTable /\ pageIndex' = pageIndex
      BY <1>9, <2>1 DEF ToggleVisibility, Chosen, rowVars
    <2> HIDE DEF L
    <2> QED
      BY <2>2, <2>3, LayoutTaken
  <1>10. ASSUME NEW c \in Free, SelectSort(c) PROVE TablesInv'
    <2>1. Sorted(c) = {} => {layout.sorting[i].desc : i \in Sorted(c)} = {}
      OBVIOUS
    <2>2. Cleared(c) \in Sortings \/ Sorted(c) = {}
      BY <1>0, SortingsClosed DEF Layout
    <2>3. \A desc, multi \in BOOLEAN : Toggled(c, desc, multi) \in Sortings
      BY <1>0, SortingsClosed DEF Layout
    <2> QED
      BY <1>6, <1>10, <2>1, <2>2, <2>3 DEF SelectSort
  <1>11. ASSUME NEW c \in Free, NEW d \in BOOLEAN, NEW m \in BOOLEAN, ToggleHeader(c, d, m) PROVE TablesInv'
    <2>1. Sorted(c) = {} => {layout.sorting[i].desc : i \in Sorted(c)} = {}
      OBVIOUS
    <2>2. (Cleared(c) \in Sortings \/ Sorted(c) = {}) /\ <<Asc(c)>> \in Sortings
      BY <1>0, SortingsClosed DEF Layout
    <2>3. \A desc, multi \in BOOLEAN : Toggled(c, desc, multi) \in Sortings
      BY <1>0, SortingsClosed DEF Layout
    <2> QED
      BY <1>6, <1>11, <2>1, <2>2, <2>3 DEF ToggleHeader
  <1>12. CASE FacetedFilter \/ ClearFilters
    BY <1>4, <1>12 DEF FacetedFilter, ClearFilters, TablesInv
  <1>13. ASSUME NEW n \in RowCounts, RowsChange(n) PROVE TablesInv'
    BY <1>4, <1>13, RowsAssumption DEF RowsChange
  <1>14. CASE ResetSorting
    BY <1>0, <1>6, <1>14 DEF ResetSorting, TableFits
  <1> QED
    BY <1>1, <1>2, <1>3, <1>5, <1>7, <1>8, <1>9, <1>10, <1>11, <1>12, <1>13, <1>14 DEF TablesNext

\* The inductive invariant of a table holds in every reachable state.
THEOREM TablesInvariant == TablesSpec => []TablesInv
  BY TablesInitially, TablesInductive, PTL DEF TablesSpec

\* A table with rows never shows an empty page, for any rows a search or the
\* data leaves and any sequence of turned pages, sizes, sortings and resets.
THEOREM PagesStayInRange == TablesSpec => []PageInRange
  <1>1. TablesInv => PageInRange
    BY DEF TablesInv
  <1> QED
    BY <1>1, TablesInvariant, PTL

\* Whatever the user has hidden, sorted, unsorted, resized or reset, and
\* whatever an older version had stored, a reload shows the table as it is:
\* the stored layout is complete, so nothing of it gives way to a default.
THEOREM LayoutsSurviveReload == TablesSpec => []PreferencesStick
  <1>1. TablesInv => PreferencesStick
    <2> SUFFICES ASSUME TablesInv, onTable PROVE restored(loadPreferences(kept)) = layout
      BY DEF PreferencesStick
    <2>1. loadPreferences(kept) = layout
      BY DEF TablesInv, Stored, loadPreferences
    <2>2. layout.pageSize # None /\ layout.sorting # None
      BY LayoutAssumption DEF TablesInv, Layout, Sortings
    <2> QED
      BY <2>1, <2>2 DEF TablesInv, Layout, restored
  <1> QED
    BY <1>1, TablesInvariant, PTL

-----------------------------------------------------------------------------
(* The scale gate *)

\* Of count samples the first slow ones take the time at, the others none: the
\* 95th percentile is the time at exactly when fewer than its rank take none.
LEMMA PercentileOfSamples ==
  ASSUME NEW count \in Nat \ {0}, NEW slow \in 0 .. count, NEW at \in Nat \ {0},
         NEW rank \in 1 .. count, rank = (count * 95 + 99) \div 100
  PROVE  p95Ms(Samples(count, slow, at)) = IF count - slow >= rank THEN 0 ELSE at
  <1> DEFINE s == Samples(count, slow, at)
             Covers(v) == Cardinality({k \in DOMAIN s : s[k] <= v}) >= rank
             Least(v) == v \in Range(s) /\ Covers(v) /\ \A w \in Range(s) : Covers(w) => v <= w
             x == IF count - slow >= rank THEN 0 ELSE at
  <1>1. DOMAIN s = 1 .. count /\ Len(s) = count
    <2>1. s \in Seq({at, 0})
      BY DEF Samples
    <2> QED
      BY <2>1 DEF Samples
  <1>2. \A k \in 1 .. count : s[k] = IF k <= slow THEN at ELSE 0
    BY DEF Samples
  <1>3. \A v : v \in Range(s) <=> \E k \in 1 .. count : s[k] = v
    BY <1>1 DEF Range
  <1>4. \A v \in Range(s) : v = 0 \/ v = at
    BY <1>2, <1>3
  <1> HIDE DEF s
  <1>5. Cardinality({k \in DOMAIN s : s[k] <= at}) = count
    <2>1. {k \in DOMAIN s : s[k] <= at} = 1 .. count
      BY <1>1, <1>2
    <2>2. Cardinality(1 .. count) = count
      BY FS_Interval
    <2> QED
      BY <2>1, <2>2
  <1>6. Cardinality({k \in DOMAIN s : s[k] <= 0}) = count - slow
    <2> DEFINE I == slow + 1 .. count
    <2>1. {k \in DOMAIN s : s[k] <= 0} = I
      BY <1>1, <1>2
    <2>2. Cardinality(I) = count - slow
      <3>1. slow + 1 \in Int /\ count \in Int
        OBVIOUS
      <3>2. Cardinality(I) = IF slow + 1 > count THEN 0 ELSE count - (slow + 1) + 1
        BY <3>1, FS_Interval
      <3> QED
        BY <3>2
    <2> QED
      BY <2>1, <2>2
  <1>7. Covers(at) /\ (Covers(0) <=> count - slow >= rank)
    BY <1>5, <1>6
  <1>8. x \in Range(s)
    <2>1. CASE count - slow >= rank
      <3>1. count \in 1 .. count /\ s[count] = 0
        BY <1>2, <2>1
      <3> QED
        BY <1>3, <2>1, <3>1
    <2>2. CASE ~(count - slow >= rank)
      <3>1. 1 \in 1 .. count /\ s[1] = at
        BY <1>2, <2>2
      <3> QED
        BY <1>3, <2>2, <3>1
    <2> QED
      BY <2>1, <2>2
  <1> HIDE DEF Covers
  <1>9. Least(x)
    BY <1>4, <1>7, <1>8
  <1>10. \A v : Least(v) => v = x
    BY <1>4, <1>7, <1>8
  <1>11. p95Ms(s) = CHOOSE v \in Range(s) : Covers(v) /\ \A w \in Range(s) : Covers(w) => v <= w
    BY <1>1 DEF p95Ms, nearestRank, Covers
  <1> HIDE DEF x
  <1>12. p95Ms(s) = x
    BY <1>9, <1>10, <1>11
  <1> QED
    BY <1>12 DEF s, x

\* An endpoint reaches its threshold when more than 5 of its 100 samples do, a
\* page when more than 1 of its 30 do.
LEMMA MeasuredTimes ==
  /\ \A slow \in 0 .. 100 : measureHTTP(slow) = IF slow > 5 THEN 300 ELSE 0
  /\ \A slow \in 0 .. 30 : measureBrowser(slow) = IF slow > 1 THEN 150 ELSE 0
  <1>1. ASSUME NEW slow \in 0 .. 100 PROVE measureHTTP(slow) = IF slow > 5 THEN 300 ELSE 0
    <2>1. (100 * 95 + 99) \div 100 = 95
      OBVIOUS
    <2>2. p95Ms(Samples(100, slow, 300)) = IF 100 - slow >= 95 THEN 0 ELSE 300
      BY <2>1, PercentileOfSamples
    <2> QED
      BY <2>2 DEF measureHTTP, SCALE_THRESHOLDS
  <1>2. ASSUME NEW slow \in 0 .. 30 PROVE measureBrowser(slow) = IF slow > 1 THEN 150 ELSE 0
    <2>1. (30 * 95 + 99) \div 100 = 29
      OBVIOUS
    <2>2. p95Ms(Samples(30, slow, 150)) = IF 30 - slow >= 29 THEN 0 ELSE 150
      BY <2>1, PercentileOfSamples
    <2> QED
      BY <2>2 DEF measureBrowser, SCALE_THRESHOLDS
  <1> QED
    BY <1>1, <1>2

-----------------------------------------------------------------------------
\* What a file can hold.
List == [bytes : {0, 256000, 512000}, concurrency1 : {0, 300}, concurrency10 : {0, 300}]

File(size) == [http : [Endpoints -> List], browser : [Profiles(size) \X Surfaces -> [Metrics -> {0, 150}]]]


\* Every measurement is such a file.
LEMMA MeasurementsAreFiles ==
  ASSUME NEW size, NEW file \in Measurements(size)
  PROVE  file \in File(size)
  <1>1. /\ measureHTTP(0) = 0 /\ measureBrowser(0) = 0
        /\ \A slow \in {5, 6} : measureHTTP(slow) \in {0, 300}
        /\ \A slow \in {1, 2} : measureBrowser(slow) \in {0, 150}
    BY MeasuredTimes
  <1>2. QuietList \in List
    BY <1>1 DEF QuietList, List
  <1>3. QuietPage \in [Metrics -> {0, 150}]
    BY <1>1 DEF QuietPage
  <1>4. NotableLists \subseteq List
    <2>1. \A b \in {256000, 512000} : [QuietList EXCEPT !.bytes = b] \in List
      BY <1>2 DEF List
    <2>2. \A t \in {0, 300} : [QuietList EXCEPT !.concurrency1 = t] \in List
      BY <1>2 DEF List
    <2>3. \A t \in {0, 300} : [QuietList EXCEPT !.concurrency10 = t] \in List
      BY <1>2 DEF List
    <2>4. SCALE_THRESHOLDS.softPayloadBytes = 256000 /\ SCALE_THRESHOLDS.hardPayloadBytes = 512000
      BY DEF SCALE_THRESHOLDS
    <2> QED
      BY <1>1, <2>1, <2>2, <2>3, <2>4 DEF NotableLists
  <1>5. NotablePages \subseteq [Metrics -> {0, 150}]
    BY <1>1, <1>3 DEF NotablePages
  <1>6. QuietLists \in [Endpoints -> List]
        /\ QuietPages(size) \in [Profiles(size) \X Surfaces -> [Metrics -> {0, 150}]]
    BY <1>2, <1>3 DEF QuietLists, QuietPages
  <1>7. \A e \in Endpoints, l \in NotableLists : [QuietLists EXCEPT ![e] = l] \in [Endpoints -> List]
    BY <1>4, <1>6
  <1>8. \A s \in Profiles(size) \X Surfaces, p \in NotablePages :
          [QuietPages(size) EXCEPT ![s] = p] \in [Profiles(size) \X Surfaces -> [Metrics -> {0, 150}]]
    BY <1>5, <1>6
  <1> QED
    BY <1>6, <1>7, <1>8 DEF Measurements, Quiet, File

\* What is confirmed by both files of a size is too much for it.
LEMMA CapacityOfSize ==
  ASSUME NEW size, NEW pair \in [Runs -> File(size)]
  PROVE  LET c == capacity(size, Range(pair)) IN
           /\ c.cardinality = size
           /\ (c.hardTriggers # {} \/ (c.softItemCount /\ c.softPayload)) <=> TooMuch(size, pair)
  <1> DEFINE files == Range(pair)
             Payload(e) == \A r \in Runs : pair[r].http[e].bytes = 512000
             Slow(e) == \A r \in Runs : 300 \in {pair[r].http[e].concurrency1, pair[r].http[e].concurrency10}
             SlowPage(s) == \A r \in Runs : \E m \in Metrics : pair[r].browser[s][m] = 150
             Sizeable == \A r \in Runs : \E e \in Endpoints : pair[r].http[e].bytes # 0
             T == SCALE_THRESHOLDS
             PayloadFiles(x) == {f \in files : f.http[x].bytes >= T.hardPayloadBytes}
             SlowFiles(x) == {f \in files : \/ f.http[x].concurrency1 >= T.hardHTTPP95Ms
                                            \/ f.http[x].concurrency10 >= T.hardHTTPP95Ms}
             PageFiles(x) == {f \in files : \E m \in Metrics : f.browser[x][m] >= T.hardBrowserP95Ms}
             SizeableFiles == {f \in files : \E e \in Endpoints : f.http[e].bytes >= T.softPayloadBytes}
             d == DOMAIN (CHOOSE f \in files : TRUE).browser
             P == Profiles(size) \X Surfaces
             triggers == confirmedCapacityTriggers(files)
  <1>0. /\ T.softItems = 500 /\ T.softPayloadBytes = 256000 /\ T.hardPayloadBytes = 512000
        /\ T.hardHTTPP95Ms = 300 /\ T.hardBrowserP95Ms = 150
    BY DEF SCALE_THRESHOLDS
  <1>1. files = {pair[r] : r \in Runs}
    BY DEF Range
  <1>2. ASSUME NEW r \in Runs
        PROVE  /\ \A e \in Endpoints : /\ pair[r].http[e].bytes \in {0, 256000, 512000}
                                       /\ pair[r].http[e].concurrency1 \in {0, 300}
                                       /\ pair[r].http[e].concurrency10 \in {0, 300}
               /\ \A s \in P, m \in Metrics : pair[r].browser[s][m] \in {0, 150}
               /\ DOMAIN pair[r].browser = P
    BY DEF File, List
  <1>3. d = P
    <2>1. \E f \in files : TRUE
      BY <1>1 DEF Runs
    <2>2. (CHOOSE f \in files : TRUE) \in files
      BY <2>1
    <2>3. \A f \in files : DOMAIN f.browser = P
      BY <1>1, <1>2
    <2> QED
      BY <2>2, <2>3
  <1> HIDE DEF files, T
  <1>4. \A e \in Endpoints : Confirmed(files, PayloadFiles(e)) <=> Payload(e)
    BY <1>0, <1>1, <1>2 DEF Confirmed
  <1>5. \A e \in Endpoints : Confirmed(files, SlowFiles(e)) <=> Slow(e)
    BY <1>0, <1>1, <1>2 DEF Confirmed
  <1>6. \A s \in P : Confirmed(files, PageFiles(s)) <=> SlowPage(s)
    BY <1>0, <1>1, <1>2 DEF Confirmed
  <1>7. Confirmed(files, SizeableFiles) <=> Sizeable
    BY <1>0, <1>1, <1>2 DEF Confirmed
  <1>8. triggers = {<<e, "payload">> : e \in {x \in Endpoints : Confirmed(files, PayloadFiles(x))}} \cup
               {<<e, "http-p95">> : e \in {x \in Endpoints : Confirmed(files, SlowFiles(x))}} \cup
               {<<s, "ui-p95">> : s \in {x \in d : Confirmed(files, PageFiles(x))}}
    BY Zenon DEF confirmedCapacityTriggers, T
  <1> HIDE DEF triggers, d, P, Payload, Slow, SlowPage, Sizeable, PayloadFiles, SlowFiles, PageFiles, SizeableFiles
  <1>9. triggers # {} <=> (\E e \in Endpoints : Payload(e) \/ Slow(e)) \/ (\E s \in P : SlowPage(s))
    <2> DEFINE A == {x \in Endpoints : Confirmed(files, PayloadFiles(x))}
               B == {x \in Endpoints : Confirmed(files, SlowFiles(x))}
               C == {x \in d : Confirmed(files, PageFiles(x))}
    <2>1. A # {} \/ B # {} \/ C # {} <=> (\E e \in Endpoints : Payload(e) \/ Slow(e)) \/ (\E s \in P : SlowPage(s))
      BY <1>3, <1>4, <1>5, <1>6
    <2>2. triggers = {<<e, "payload">> : e \in A} \cup {<<e, "http-p95">> : e \in B} \cup {<<s, "ui-p95">> : s \in C}
      BY <1>8, Zenon
    <2> HIDE DEF A, B, C
    <2>3. triggers # {} <=> A # {} \/ B # {} \/ C # {}
      BY <2>2
    <2> QED
      BY <2>1, <2>3
  <1>10. TooMuch(size, pair) <=> \/ \E e \in Endpoints : Payload(e) \/ Slow(e)
                                 \/ \E s \in P : SlowPage(s)
                                 \/ size >= 500 /\ Sizeable
    BY DEF TooMuch, Payload, Slow, SlowPage, Sizeable, P
  <1> DEFINE c == capacity(size, files)
  <1>11. /\ c.cardinality = size /\ c.hardTriggers = triggers
         /\ c.softItemCount <=> (size >= T.softItems)
         /\ c.softPayload <=> Confirmed(files, SizeableFiles)
    BY DEF capacity, T, SizeableFiles, triggers
  <1> HIDE DEF c
  <1>12. /\ c.cardinality = size
         /\ (c.hardTriggers # {} \/ (c.softItemCount /\ c.softPayload)) <=> TooMuch(size, pair)
    BY <1>0, <1>7, <1>9, <1>10, <1>11
  <1> QED
    BY <1>12 DEF c, files

\* The decision looks at the largest size in the directory that the volume reaches.
LEMMA DecisionLooksAtLargest ==
  ASSUME NEW volume \in Volumes, NEW dir, NEW largest \in bySize(dir) \cup {0}, largest <= volume,
         \A size \in bySize(dir) : size <= volume => size <= largest,
         largest # 0 => dir[largest] \in [Runs -> File(largest)]
  PROVE  decision(volume, dir) = "OPEN_PAGINATION_EPIC"
           <=> volume >= 2000 \/ (largest # 0 /\ TooMuch(largest, dir[largest]))
  <1> DEFINE At(size) == capacity(size, Range(dir[size]))
             points == {At(size) : size \in bySize(dir)}
             reached == {p \in points : p.cardinality <= volume}
             operational == {p \in reached : \A q \in reached : q.cardinality <= p.cardinality}
             Opens(p) == p.hardTriggers # {} \/ (p.softItemCount /\ p.softPayload)
  <1>0. volume \in Nat /\ \A size \in bySize(dir) : size \in Nat \ {0}
    BY ScaleAssumption DEF bySize
  <1>1. \A size \in bySize(dir) : At(size).cardinality = size
    BY DEF capacity
  <1>2. decision(volume, dir) = "OPEN_PAGINATION_EPIC"
          <=> volume >= 2000 \/ \E p \in operational : Opens(p)
    BY DEF decision, decideScaleGate, SCALE_THRESHOLDS
  <1> HIDE DEF At
  <1>3. CASE largest = 0
    <2>1. operational = {}
      <3>1. \A size \in bySize(dir) : ~(size <= volume)
        BY <1>0, <1>3
      <3>2. \A p \in points : ~(p.cardinality <= volume)
        BY <1>1, <3>1
      <3>3. reached = {}
        BY <3>2
      <3> HIDE DEF points, reached
      <3> QED
        BY <3>3
    <2> HIDE DEF operational, Opens
    <2> QED
      BY <1>2, <1>3, <2>1
  <1>4. CASE largest # 0
    <2>1. largest \in bySize(dir)
      BY <1>4
    <2>2. operational = {At(largest)}
      <3>1. reached = {At(size) : size \in {z \in bySize(dir) : z <= volume}}
        BY <1>1
      <3>2. At(largest) \in reached /\ \A p \in reached : p.cardinality <= largest
        BY <1>1, <2>1, <3>1
      <3>3. \A p \in reached : p.cardinality = largest => p = At(largest)
        BY <1>1, <3>1
      <3>4. \A p \in reached : p.cardinality \in Nat
        BY <1>0, <1>1, <3>1
      <3>5. At(largest).cardinality = largest /\ largest \in Nat
        BY <1>0, <1>1, <2>1
      <3> HIDE DEF reached
      <3> QED
        BY <3>2, <3>3, <3>4, <3>5
    <2>3. Opens(At(largest)) <=> TooMuch(largest, dir[largest])
      BY <1>4, CapacityOfSize DEF At
    <2> HIDE DEF operational, Opens
    <2> QED
      BY <1>2, <1>4, <2>2, <2>3
  <1> QED
    BY <1>3, <1>4

-----------------------------------------------------------------------------
\* The files that exist or may exist.
Files == (UNION {File(size) : size \in Sizes}) \cup {Missing}

Invocation == [at : {"new", "armed", "measuring", "refused", "failed", "killed", "decided"},
               sizes : SUBSET Sizes, todo : SUBSET (Sizes \X Runs),
               volume : Volumes \cup {0}, decision : {"OPEN_PAGINATION_EPIC", "KEEP_FULL_LISTS", Missing}]

ScaleTypeOK ==
  /\ bench \in [Starts -> Invocation]
  /\ rawFiles \in [Sizes -> [Runs -> Files]]
  /\ taken \in [Starts -> [Sizes -> [Runs -> Files]]]
  /\ usurped \in BOOLEAN

\* Who measures holds the lock, so nobody else measures.
LockIsHeld == \A i \in Starts : bench[i].at = "measuring" => benchLock = i

\* While it measures, the files of its finished measurements are its own.
OwnFiles ==
  \A i \in Starts : bench[i].at = "measuring" =>
    /\ bench[i].todo \subseteq bench[i].sizes \X Runs
    /\ \A size \in bench[i].sizes, r \in Runs : <<size, r>> \notin bench[i].todo =>
         /\ rawFiles[size][r] = taken[i][size][r]
         /\ rawFiles[size][r] \in File(size) /\ rawFiles[size][r] # Missing

\* The gate, for one invocation.
GateAt(i) ==
  \A largest \in ReachedBy(bench[i].volume) \cap (bench[i].sizes \cup {0}) :
    (\A size \in ReachedBy(bench[i].volume) : size <= largest) =>
      (bench[i].decision = "OPEN_PAGINATION_EPIC" <=>
         bench[i].volume >= 2000 \/ (largest # 0 /\ TooMuch(largest, taken[i][largest])))

\* What was measured stays in the directory, so a size that becomes the largest
\* one later was not measured by who decided.
DecidedRight == \A i \in Starts : bench[i].at = "decided" => bench[i].sizes \subseteq bySize(rawFiles) /\ GateAt(i)

OneAtATime == ScaleTypeOK /\ LockIsHeld /\ OwnFiles /\ DecidedRight

\* One invocation at a time, unless an interrupted newcomer took the lock away.
ScaleInv == ScaleTypeOK /\ (~usurped => OneAtATime)

\* A measurement writes one file, and its author remembers it.
LEMMA MeasureTypes ==
  ASSUME ScaleTypeOK, NEW i \in Starts, NEW size \in Sizes, NEW r \in Runs, Measure(i, size, r)
  PROVE  ScaleTypeOK'
  <1> DEFINE b == [bench[i] EXCEPT !.todo = bench[i].todo \ {<<size, r>>}]
  <1>1. b \in Invocation
    BY DEF ScaleTypeOK, Invocation
  <1>2. bench' = [bench EXCEPT ![i] = b] /\ usurped' = usurped
    BY Zenon DEF Measure
  <1> HIDE DEF b
  <1>3. PICK file \in Measurements(size) : /\ rawFiles' = [rawFiles EXCEPT ![size][r] = file]
                                           /\ taken' = [taken EXCEPT ![i][size][r] = file]
    BY DEF Measure, MeasurementsAt
  <1>4. file \in Files
    BY MeasurementsAreFiles DEF Files
  <1>5. bench' \in [Starts -> Invocation]
    BY <1>1, <1>2 DEF ScaleTypeOK
  <1>6. rawFiles' \in [Sizes -> [Runs -> Files]]
    BY <1>3, <1>4 DEF ScaleTypeOK
  <1>7. taken' \in [Starts -> [Sizes -> [Runs -> Files]]]
    <2> DEFINE t == [taken[i] EXCEPT ![size][r] = file]
    <2>1. t \in [Sizes -> [Runs -> Files]]
      BY <1>4 DEF ScaleTypeOK
    <2>2. taken' = [taken EXCEPT ![i] = t]
      BY <1>3, Zenon
    <2> HIDE DEF t
    <2> QED
      BY <2>1, <2>2 DEF ScaleTypeOK
  <1> QED
    BY <1>2, <1>5, <1>6, <1>7 DEF ScaleTypeOK

\* Where every step leads, whoever holds the lock.
LEMMA ScaleTypes == ScaleTypeOK /\ [ScaleNext]_scaleVars => ScaleTypeOK'
  <1> SUFFICES ASSUME ScaleTypeOK, [ScaleNext]_scaleVars PROVE ScaleTypeOK'
    OBVIOUS
  <1>1. \A x \in {"failed", "killed", "refused"} : Undecided(x) \in Invocation
    BY DEF Undecided, NotBegun, Invocation
  <1>2. ASSUME NEW i \in Starts, NEW b \in Invocation, bench' = [bench EXCEPT ![i] = b],
               UNCHANGED <<rawFiles, taken>>, usurped' \in BOOLEAN
        PROVE  ScaleTypeOK'
    BY <1>2 DEF ScaleTypeOK
  <1>3. ASSUME NEW i \in Starts, NEW S \in SUBSET Sizes \ {{}}, Begin(i, S) PROVE ScaleTypeOK'
    <2> DEFINE b == [NotBegun EXCEPT !.at = "measuring", !.sizes = S, !.todo = Plan(S)]
    <2>1. b \in Invocation
      BY DEF NotBegun, Invocation, Plan
    <2>2. bench' = [bench EXCEPT ![i] = b] /\ UNCHANGED <<rawFiles, taken, usurped>>
      BY <1>3, Zenon DEF Begin
    <2> HIDE DEF b
    <2> QED
      BY <1>2, <2>1, <2>2 DEF ScaleTypeOK
  <1>4. ASSUME NEW i \in Starts, Arm(i) PROVE ScaleTypeOK'
    <2> DEFINE b == [bench[i] EXCEPT !.at = "armed"]
    <2>1. b \in Invocation
      BY DEF ScaleTypeOK, Invocation
    <2>2. bench' = [bench EXCEPT ![i] = b] /\ UNCHANGED <<rawFiles, taken, usurped>>
      BY <1>4, Zenon DEF Arm
    <2> HIDE DEF b
    <2> QED
      BY <1>2, <2>1, <2>2 DEF ScaleTypeOK
  <1>5. ASSUME NEW i \in Starts, AlreadyRunning(i) \/ MeasureFails(i) \/ Interrupted(i) \/ Killed(i)
        PROVE  ScaleTypeOK'
    <2>1. PICK x \in {"failed", "killed", "refused"} : bench' = [bench EXCEPT ![i] = Undecided(x)]
      BY <1>5, Zenon DEF AlreadyRunning, MeasureFails, Interrupted, Killed, Ends
    <2>2. UNCHANGED <<rawFiles, taken>> /\ usurped' \in BOOLEAN
      BY <1>5 DEF AlreadyRunning, MeasureFails, Interrupted, Killed, ScaleTypeOK
    <2> QED
      BY <1>1, <1>2, <2>1, <2>2
  <1>6. ASSUME NEW i \in Starts, NEW size \in Sizes, NEW r \in Runs, Measure(i, size, r) PROVE ScaleTypeOK'
    BY <1>6, MeasureTypes
  <1>7. ASSUME NEW i \in Starts, NEW volume \in Volumes, Summarize(i, volume) PROVE ScaleTypeOK'
    <2> DEFINE d == decision(volume, rawFiles)
               b == [bench[i] EXCEPT !.at = "decided", !.volume = volume, !.decision = d]
    <2>0. d \in {"OPEN_PAGINATION_EPIC", "KEEP_FULL_LISTS"}
      BY DEF decision, decideScaleGate
    <2>1. bench' = [bench EXCEPT ![i] = b] \/ bench' = [bench EXCEPT ![i] = Undecided("failed")]
      BY <1>7, Zenon DEF Summarize, Ends
    <2> HIDE DEF d
    <2>2. b \in Invocation
      BY <2>0 DEF ScaleTypeOK, Invocation
    <2> HIDE DEF b
    <2>3. UNCHANGED <<rawFiles, taken, usurped>>
      BY <1>7 DEF Summarize
    <2> QED
      BY <1>1, <1>2, <2>1, <2>2, <2>3 DEF ScaleTypeOK
  <1>8. CASE UNCHANGED scaleVars
    BY <1>8 DEF scaleVars, ScaleTypeOK
  <1> QED
    BY <1>3, <1>4, <1>5, <1>6, <1>7, <1>8 DEF ScaleNext

\* A decision stays right while the directory only fills up.
LEMMA DecisionKept ==
  ASSUME DecidedRight, NEW i \in Starts, bench[i].at = "decided", bench'[i] = bench[i], taken'[i] = taken[i],
         bySize(rawFiles) \subseteq bySize(rawFiles')
  PROVE  bench'[i].sizes \subseteq bySize(rawFiles') /\ GateAt(i)'
  <1> DEFINE v == bench[i].volume
             old == {size \in bySize(rawFiles) : size <= v} \cup {0}
             new == {size \in bySize(rawFiles') : size <= v} \cup {0}
             Right(largest) == bench[i].decision = "OPEN_PAGINATION_EPIC"
                                 <=> v >= 2000 \/ (largest # 0 /\ TooMuch(largest, taken[i][largest]))
  <1>1. /\ bench[i].sizes \subseteq bySize(rawFiles)
        /\ \A largest \in old \cap (bench[i].sizes \cup {0}) :
             (\A size \in old : size <= largest) => Right(largest)
    BY DEF DecidedRight, GateAt, ReachedBy
  <1>2. \A largest \in new \cap (bench[i].sizes \cup {0}) :
          (\A size \in new : size <= largest) => Right(largest)
    BY <1>1
  <1> QED
    BY <1>1, <1>2 DEF GateAt, ReachedBy

\* Steps that write no file: an invocation begins, is refused, fails, is
\* interrupted or killed.
LEMMA NoFileStep ==
  ASSUME OneAtATime, NEW i \in Starts, NEW b \in Invocation, bench' = [bench EXCEPT ![i] = b],
         bench[i].at # "decided", b.at # "decided", UNCHANGED <<rawFiles, taken>>, usurped' \in BOOLEAN,
         \/ b.at # "measuring" /\ (benchLock' = benchLock \/ bench[i].at = "measuring")
         \/ b.at # "measuring" /\ \A j \in Starts : bench[j].at # "measuring"
         \/ b.at = "measuring" /\ benchLock = Missing /\ benchLock' = i /\ b.todo = b.sizes \X Runs
  PROVE  OneAtATime'
  <1>1. bench'[i] = b /\ \A j \in Starts \ {i} : bench'[j] = bench[j]
    BY DEF OneAtATime, ScaleTypeOK
  <1>2. ScaleTypeOK'
    BY DEF OneAtATime, ScaleTypeOK
  <1>3. LockIsHeld'
    BY <1>1, MissingAssumption DEF OneAtATime, LockIsHeld, Starts
  <1>4. OwnFiles'
    <2> SUFFICES ASSUME NEW j \in Starts, bench'[j].at = "measuring"
                 PROVE  /\ bench'[j].todo \subseteq bench'[j].sizes \X Runs
                        /\ \A size \in bench'[j].sizes, r \in Runs : <<size, r>> \notin bench'[j].todo =>
                             /\ rawFiles[size][r] = taken[j][size][r]
                             /\ rawFiles[size][r] \in File(size) /\ rawFiles[size][r] # Missing
      BY DEF OwnFiles
    <2>1. CASE j = i
      BY <1>1, <2>1
    <2>2. CASE j # i
      BY <1>1, <2>2 DEF OneAtATime, OwnFiles
    <2> QED
      BY <2>1, <2>2
  <1>5. DecidedRight'
    <2> SUFFICES ASSUME NEW j \in Starts, bench'[j].at = "decided"
                 PROVE  bench'[j].sizes \subseteq bySize(rawFiles') /\ GateAt(j)'
      BY DEF DecidedRight
    <2> QED
      BY <1>1, DecisionKept DEF OneAtATime
  <1> QED
    BY <1>2, <1>3, <1>4, <1>5 DEF OneAtATime

\* A measurement writes one file of the only invocation that measures.
LEMMA MeasureStep ==
  ASSUME OneAtATime, NEW i \in Starts, NEW size \in Sizes, NEW r \in Runs, Measure(i, size, r)
  PROVE  OneAtATime'
  <1> DEFINE b == [bench[i] EXCEPT !.todo = bench[i].todo \ {<<size, r>>}]
  <1>0. bench[i] \in Invocation /\ bench[i].at = "measuring"
    BY DEF OneAtATime, ScaleTypeOK, Measure
  <1>1. /\ b \in Invocation /\ b.at = "measuring" /\ b.sizes = bench[i].sizes
        /\ b.todo = bench[i].todo \ {<<size, r>>}
    BY <1>0 DEF Invocation
  <1>2. bench' = [bench EXCEPT ![i] = b] /\ benchLock' = benchLock
    BY Zenon DEF Measure
  <1> HIDE DEF b
  <1>3. PICK file \in Measurements(size) : /\ rawFiles' = [rawFiles EXCEPT ![size][r] = file]
                                           /\ taken' = [taken EXCEPT ![i][size][r] = file]
    BY DEF Measure, MeasurementsAt
  <1>4. file \in File(size) /\ file # Missing /\ file \in Files
    BY MeasurementsAreFiles, MissingAssumption DEF Files
  <1>5. bench'[i] = b /\ \A j \in Starts \ {i} : bench'[j] = bench[j] /\ taken'[j] = taken[j]
    BY <1>2, <1>3 DEF OneAtATime, ScaleTypeOK
  <1>6. \A s \in Sizes, q \in Runs :
          /\ rawFiles'[s][q] = IF s = size /\ q = r THEN file ELSE rawFiles[s][q]
          /\ taken'[i][s][q] = IF s = size /\ q = r THEN file ELSE taken[i][s][q]
    BY <1>3 DEF OneAtATime, ScaleTypeOK
  <1>7. ScaleTypeOK'
    BY MeasureTypes DEF OneAtATime
  <1>8. \A j \in Starts \ {i} : bench[j].at # "measuring"
    BY <1>0 DEF OneAtATime, LockIsHeld
  <1>9. LockIsHeld'
    BY <1>0, <1>1, <1>2, <1>5, <1>8 DEF OneAtATime, LockIsHeld
  <1>10. OwnFiles'
    <2> SUFFICES ASSUME NEW j \in Starts, bench'[j].at = "measuring"
                 PROVE  /\ bench'[j].todo \subseteq bench'[j].sizes \X Runs
                        /\ \A s \in bench'[j].sizes, q \in Runs : <<s, q>> \notin bench'[j].todo =>
                             /\ rawFiles'[s][q] = taken'[j][s][q]
                             /\ rawFiles'[s][q] \in File(s) /\ rawFiles'[s][q] # Missing
      BY DEF OwnFiles
    <2>1. j = i
      BY <1>5, <1>8
    <2>2. /\ bench[i].todo \subseteq bench[i].sizes \X Runs
          /\ \A s \in bench[i].sizes, q \in Runs : <<s, q>> \notin bench[i].todo =>
               /\ rawFiles[s][q] = taken[i][s][q]
               /\ rawFiles[s][q] \in File(s) /\ rawFiles[s][q] # Missing
      BY <1>0 DEF OneAtATime, OwnFiles
    <2>3. bench[i].sizes \subseteq Sizes
      BY <1>0 DEF Invocation
    <2>4. ASSUME NEW s \in bench[i].sizes, NEW q \in Runs, <<s, q>> \notin b.todo
          PROVE  rawFiles'[s][q] = taken'[i][s][q] /\ rawFiles'[s][q] \in File(s) /\ rawFiles'[s][q] # Missing
      <3>1. CASE s = size /\ q = r
        BY <1>4, <1>6, <3>1
      <3>2. CASE ~(s = size /\ q = r)
        <4>1. <<s, q>> \notin bench[i].todo
          BY <1>1, <2>4, <3>2
        <4> QED
          BY <1>6, <2>2, <2>3, <3>2, <4>1
      <3> QED
        BY <3>1, <3>2
    <2> QED
      BY <1>1, <1>5, <2>1, <2>2, <2>4
  <1>11. DecidedRight'
    <2>1. bySize(rawFiles) \subseteq bySize(rawFiles')
      BY <1>4, <1>6 DEF bySize
    <2> SUFFICES ASSUME NEW j \in Starts, bench'[j].at = "decided"
                 PROVE  bench'[j].sizes \subseteq bySize(rawFiles') /\ GateAt(j)'
      BY DEF DecidedRight
    <2> QED
      BY <1>1, <1>5, <2>1, DecisionKept DEF OneAtATime
  <1> QED
    BY <1>7, <1>9, <1>10, <1>11 DEF OneAtATime

\* An invocation that has measured all its sizes decides on its own files.
LEMMA SummarizeStep ==
  ASSUME OneAtATime, NEW i \in Starts, NEW volume \in Volumes, Summarize(i, volume)
  PROVE  OneAtATime'
  <1> DEFINE f == Undecided("failed")
             d == decision(volume, rawFiles)
             b == [bench[i] EXCEPT !.at = "decided", !.volume = volume, !.decision = d]
  <1>0. bench[i] \in Invocation /\ bench[i].at = "measuring" /\ bench[i].todo = {} /\ UNCHANGED <<rawFiles, taken, usurped>>
    BY DEF OneAtATime, ScaleTypeOK, Summarize
  <1>1. CASE ~ExactlyTwo(rawFiles)
    <2>1. f \in Invocation /\ f.at = "failed"
      BY DEF Undecided, NotBegun, Invocation
    <2>2. bench' = [bench EXCEPT ![i] = f]
      BY <1>1, Zenon DEF Summarize, Ends
    <2> HIDE DEF f
    <2> QED
      BY <1>0, <2>1, <2>2, NoFileStep DEF OneAtATime, ScaleTypeOK
  <1>2. CASE ExactlyTwo(rawFiles)
    <2>0. d \in {"OPEN_PAGINATION_EPIC", "KEEP_FULL_LISTS"}
      BY DEF decision, decideScaleGate
    <2>1. bench' = [bench EXCEPT ![i] = b]
      BY <1>2, Zenon DEF Summarize, Ends
    <2> HIDE DEF d
    <2>2. b \in Invocation /\ b.at = "decided" /\ b.sizes = bench[i].sizes /\ b.volume = volume /\ b.decision = d
      BY <1>0, <2>0 DEF Invocation
    <2> HIDE DEF b
    <2>3. bench'[i] = b /\ \A j \in Starts \ {i} : bench'[j] = bench[j]
      BY <2>1 DEF OneAtATime, ScaleTypeOK
    <2>4. ScaleTypeOK'
      BY <1>0, <2>1, <2>2 DEF OneAtATime, ScaleTypeOK
    <2>5. \A j \in Starts : bench'[j].at # "measuring"
      BY <1>0, <2>2, <2>3 DEF OneAtATime, LockIsHeld
    <2>6. LockIsHeld' /\ OwnFiles'
      BY <2>5 DEF LockIsHeld, OwnFiles
    <2>7. \A size \in bench[i].sizes, r \in Runs :
            /\ rawFiles[size][r] = taken[i][size][r]
            /\ rawFiles[size][r] \in File(size) /\ rawFiles[size][r] # Missing
      BY <1>0 DEF OneAtATime, OwnFiles
    <2>8. /\ bench[i].sizes \subseteq Sizes
          /\ \A size \in Sizes : /\ rawFiles[size] \in [Runs -> Files] /\ taken[i][size] \in [Runs -> Files]
      BY <1>0 DEF OneAtATime, ScaleTypeOK, Invocation
    <2>9. bench[i].sizes \subseteq bySize(rawFiles)
      BY <2>7, <2>8 DEF bySize, Runs
    <2>10. ASSUME NEW size \in bench[i].sizes
           PROVE  rawFiles[size] = taken[i][size] /\ rawFiles[size] \in [Runs -> File(size)]
      BY <2>7, <2>8
    <2> DEFINE R == {size \in bySize(rawFiles) : size <= volume} \cup {0}
    <2>11. ASSUME NEW largest \in R \cap (bench[i].sizes \cup {0}), \A size \in R : size <= largest
           PROVE  d = "OPEN_PAGINATION_EPIC"
                    <=> volume >= 2000 \/ (largest # 0 /\ TooMuch(largest, taken[i][largest]))
      <3>1. /\ largest \in bySize(rawFiles) \cup {0}
            /\ largest <= volume
            /\ \A size \in bySize(rawFiles) : size <= volume => size <= largest
        BY <2>11, ScaleAssumption
      <3>2. largest # 0 => rawFiles[largest] = taken[i][largest] /\ rawFiles[largest] \in [Runs -> File(largest)]
        BY <2>10, <2>11
      <3>3. d = "OPEN_PAGINATION_EPIC"
              <=> volume >= 2000 \/ (largest # 0 /\ TooMuch(largest, rawFiles[largest]))
        BY <3>1, <3>2, DecisionLooksAtLargest DEF d
      <3> QED
        BY <3>2, <3>3
    <2>12. GateAt(i)'
      <3>1. bench'[i].volume = volume /\ bench'[i].decision = d /\ bench'[i].sizes = bench[i].sizes
        BY <2>2, <2>3
      <3>2. rawFiles' = rawFiles /\ taken' = taken
        BY <1>0
      <3> QED
        BY <2>11, <3>1, <3>2 DEF GateAt, ReachedBy
    <2>13. DecidedRight'
      <3> SUFFICES ASSUME NEW j \in Starts, bench'[j].at = "decided"
                   PROVE  bench'[j].sizes \subseteq bySize(rawFiles') /\ GateAt(j)'
        BY DEF DecidedRight
      <3>1. CASE j = i
        BY <1>0, <2>2, <2>3, <2>9, <2>12, <3>1
      <3>2. CASE j # i
        BY <1>0, <2>3, <3>2, DecisionKept DEF OneAtATime
      <3> QED
        BY <3>1, <3>2
    <2> QED
      BY <2>4, <2>6, <2>13 DEF OneAtATime
  <1> QED
    BY <1>1, <1>2

\* While nobody took the lock away, one invocation at a time is preserved.
LEMMA OneAtATimeStep == OneAtATime /\ ~usurped' /\ [ScaleNext]_scaleVars => OneAtATime'
  <1> SUFFICES ASSUME OneAtATime, ~usurped', [ScaleNext]_scaleVars PROVE OneAtATime'
    OBVIOUS
  <1>1. \A x \in {"refused", "failed", "killed"} : Undecided(x) \in Invocation /\ Undecided(x).at = x
    BY DEF Undecided, NotBegun, Invocation
  <1>2. ASSUME NEW i \in Starts, NEW S \in SUBSET Sizes \ {{}}, Begin(i, S) PROVE OneAtATime'
    <2> DEFINE b == [NotBegun EXCEPT !.at = "measuring", !.sizes = S, !.todo = Plan(S)]
    <2>1. b \in Invocation /\ b.at = "measuring" /\ b.sizes = S /\ b.todo = S \X Runs
      BY DEF NotBegun, Invocation, Plan
    <2>2. /\ bench' = [bench EXCEPT ![i] = b] /\ benchLock = Missing /\ benchLock' = i
          /\ UNCHANGED <<rawFiles, taken, usurped>> /\ bench[i].at = "armed"
      BY <1>2, Zenon DEF Begin, LockFree
    <2> HIDE DEF b
    <2> QED
      BY <2>1, <2>2, NoFileStep DEF OneAtATime, ScaleTypeOK
  <1>3. ASSUME NEW i \in Starts, Arm(i) PROVE OneAtATime'
    <2> DEFINE b == [bench[i] EXCEPT !.at = "armed"]
    <2>1. b \in Invocation /\ b.at = "armed"
      BY DEF OneAtATime, ScaleTypeOK, Invocation
    <2>2. /\ bench' = [bench EXCEPT ![i] = b] /\ benchLock' = benchLock
          /\ UNCHANGED <<rawFiles, taken, usurped>> /\ bench[i].at = "new"
      BY <1>3, Zenon DEF Arm
    <2> HIDE DEF b
    <2> QED
      BY <2>1, <2>2, NoFileStep DEF OneAtATime, ScaleTypeOK
  <1>4. ASSUME NEW i \in Starts, AlreadyRunning(i) \/ MeasureFails(i) \/ Interrupted(i) \/ Killed(i)
        PROVE  OneAtATime'
    <2>1. PICK x \in {"refused", "failed", "killed"} : bench' = [bench EXCEPT ![i] = Undecided(x)]
      BY <1>4, Zenon DEF AlreadyRunning, MeasureFails, Interrupted, Killed, Ends
    <2>2. UNCHANGED <<rawFiles, taken>> /\ usurped' \in BOOLEAN /\ bench[i].at # "decided"
      BY <1>4 DEF AlreadyRunning, MeasureFails, Interrupted, Killed, OneAtATime, ScaleTypeOK
    <2>3. \/ benchLock' = benchLock
          \/ bench[i].at = "measuring"
          \/ \A j \in Starts : bench[j].at # "measuring"
      BY <1>4 DEF AlreadyRunning, MeasureFails, Interrupted, Killed
    <2> QED
      BY <1>1, <2>1, <2>2, <2>3, NoFileStep
  <1>5. CASE UNCHANGED scaleVars
    <2>1. UNCHANGED <<benchLock, bench, rawFiles, taken, usurped>>
      BY <1>5 DEF scaleVars
    <2>2. ScaleTypeOK' /\ LockIsHeld' /\ OwnFiles'
      BY <2>1 DEF OneAtATime, ScaleTypeOK, LockIsHeld, OwnFiles
    <2>3. DecidedRight'
      BY <2>1, DecisionKept DEF OneAtATime, DecidedRight
    <2> QED
      BY <2>2, <2>3 DEF OneAtATime
  <1> QED
    BY <1>2, <1>3, <1>4, <1>5, MeasureStep, SummarizeStep DEF ScaleNext

\* Only an interrupted newcomer takes the lock away, and that is remembered.
LEMMA UsurpedStays == [ScaleNext]_scaleVars /\ usurped => usurped'
  <1> SUFFICES ASSUME [ScaleNext]_scaleVars, usurped PROVE usurped'
    OBVIOUS
  <1> QED
    BY DEF ScaleNext, scaleVars, Arm, Begin, AlreadyRunning, Measure, MeasureFails, Interrupted,
           Summarize, Killed

\* The inductive invariant of the benchmark.
THEOREM ScaleInvariant == ScaleSpec => []ScaleInv
  <1>1. ScaleInit => ScaleInv
    <2> SUFFICES ASSUME ScaleInit PROVE ScaleInv
      OBVIOUS
    <2>1. NotBegun \in Invocation /\ NotBegun.at = "new"
      BY DEF NotBegun, Invocation
    <2>2. NoFiles \in [Sizes -> [Runs -> Files]]
      <3>1. Missing \in Files
        BY DEF Files
      <3> QED
        BY <3>1 DEF NoFiles
    <2> HIDE DEF NotBegun, NoFiles
    <2> QED
      BY <2>1, <2>2 DEF ScaleInit, ScaleInv, OneAtATime, ScaleTypeOK, LockIsHeld, OwnFiles, DecidedRight
  <1>2. ScaleInv /\ [ScaleNext]_scaleVars => ScaleInv'
    BY ScaleTypes, OneAtATimeStep, UsurpedStays DEF ScaleInv
  <1> QED
    BY <1>1, <1>2, PTL DEF ScaleSpec

\* For any lists, pages, sizes, volumes and number of invocations, the gate
\* opens exactly on what an invocation measured twice itself, as long as no
\* interrupted newcomer took the lock away from one that was measuring.
THEOREM GateHolds == ScaleSpec => []GateOpensOnConfirmed
  <1>1. ScaleInv => GateOpensOnConfirmed
    BY DEF ScaleInv, OneAtATime, DecidedRight, GateAt, GateOpensOnConfirmed
  <1> QED
    BY <1>1, ScaleInvariant, PTL
=============================================================================
