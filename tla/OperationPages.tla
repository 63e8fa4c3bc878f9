--------------------------- MODULE OperationPages ---------------------------
(***************************************************************************)
(* The pages of the Operations and System menus (web/src/routes/usage,      *)
(* operations-health, integrations, audit-events, sessions, settings).      *)
(* What the settings page writes is in RuntimeSettings.                       *)
(***************************************************************************)
EXTENDS ConsoleData

UsageQueries == {apiClientUsage, apiClients}
UsagePage    == Page(<<"/usage">>, UsageQueries, {})
HealthPage   == Page(<<"/operations/health">>, {operationalHealth}, {})
SettingsPage == Page(<<"/operations/settings">>, {settings}, {settings})

----------------------------------------------------------------------------
(* routes/integrations: the answer opens the secret and closes the form; a   *)
(* form dismissed while its request is pending changes nothing of that.      *)
WebhooksRoute == <<"/integrations/webhooks">>
WebhookQueries == {webhookTargets, webhookDeliveries}
WebhooksPage  == Page(WebhooksRoute, WebhookQueries, {})

refreshWebhookQueries == WebhookQueries

createTarget ==
  [Handler("createTarget", WebhooksRoute, {Targets}, <<refreshWebhookQueries>>) EXCEPT
     !.in = {"createOpen"}, !.busy = "settled", !.closes = {"createOpen"},
     !.opens = {"createdTarget"}, !.at = "answer"]
toggleTarget ==
  Handler("toggleTarget", WebhooksRoute, {Targets}, <<refreshWebhookQueries>>)
replayDelivery ==
  Handler("replayDelivery", WebhooksRoute, {Deliveries}, <<refreshWebhookQueries>>)

NewTarget    == Dialog("createOpen", WebhooksRoute, {})
TargetSecret == [Dialog("createdTarget", WebhooksRoute, {}) EXCEPT !.over = {}]

targetColumns   == {"name", "endpoint", "format", "status", "actions"}
deliveryColumns == {"event_type", "target_name", "status", "attempt_count", "actions"}
TargetsTable ==
  [Table("tenancit.webhooks.targets.columns", targetColumns, {"actions"}, <<>>) EXCEPT
     !.pageSize = 10]
DeliveriesTable ==
  [Table("tenancit.webhooks.deliveries.columns", deliveryColumns, {"actions"}, <<>>) EXCEPT
     !.pageSize = 10]

----------------------------------------------------------------------------
(* routes/audit-events *)
AuditRoute == <<"/audit-events">>
AuditQueries == {auditEvents, auditHealth}
AuditPage  == Page(AuditRoute, AuditQueries, {})

(* The panel of an export appears with the job and polls its state; the     *)
(* query of a new job has a key of its own, without data.                   *)
ExportPanel ==
  [Dialog("exportJob", AuditRoute, {}) EXCEPT !.over = {}, !.queries = {auditExport}, !.modal = FALSE]
exportMutation ==
  [Handler("exportMutation", AuditRoute, {Export}, <<>>) EXCEPT
     !.needs = {"audit.export"}, !.busy = "answer",
     !.removes = {auditExport}, !.opens = {"exportJob"}, !.at = "answer"]
downloadAuditExport == {Export}
(* The download spends the export; the page marks nothing and stops polling, *)
(* and the panel goes on showing the status polled last.  Closing the dialog *)
(* stands for the end of the polling.                                        *)
consumeExport ==
  [Handler("consumeExport", AuditRoute, downloadAuditExport, <<>>) EXCEPT
     !.in = {"exportJob"}, !.closes = {"exportJob"}, !.at = "answer"]

(* The holds are refetched before the counters are marked. *)
HoldMutation(name) ==
  [Handler(name, AuditRoute, {Holds}, <<{legalHolds}, {auditHealth}>>) EXCEPT
     !.in = {"legalHolds"}, !.busy = "settled"]
createHold  == HoldMutation("createHold")
releaseHold == HoldMutation("releaseHold")
AuditLegalHoldsDialog ==
  [Dialog("legalHolds", AuditRoute, {"audit.manage"}) EXCEPT !.queries = {legalHolds}]

auditColumns == {"occurred_at", "actor", "action", "target", "result", "request_id"}
AuditTable ==
  [Table("tenancit.audit.columns", auditColumns, {}, <<Desc("occurred_at")>>) EXCEPT
     !.pageSize = 10]

----------------------------------------------------------------------------
(* routes/sessions: the confirmation closes with the answer. *)
SessionsRoute == <<"/security/sessions">>
SessionsPage  == Page(SessionsRoute, {sessions}, {})
revokeSession ==
  [Handler("revokeSession", SessionsRoute, {AdminSessions}, <<{sessions}>>) EXCEPT
     !.in = {"revokeTarget"}, !.busy = "settled", !.closes = {"revokeTarget"}, !.at = "answer"]
ConfirmRevoke == Dialog("revokeTarget", SessionsRoute, {})

sessionColumns == {"principal", "roles", "last_used_at", "expires_at", "status", "actions"}
SessionsTable ==
  [Table("tenancit.sessions.columns", sessionColumns, {"actions"}, <<Desc("last_used_at")>>) EXCEPT
     !.pageSize = 10]

----------------------------------------------------------------------------
OperationPageSet == {UsagePage, HealthPage, SettingsPage, WebhooksPage, AuditPage, SessionsPage}
OperationHandlers ==
  {createTarget, toggleTarget, replayDelivery, exportMutation, consumeExport,
   createHold, releaseHold, revokeSession}
OperationDialogs ==
  {NewTarget, TargetSecret, ExportPanel, AuditLegalHoldsDialog, ConfirmRevoke}
OperationTables == {TargetsTable, DeliveriesTable, AuditTable, SessionsTable}
=============================================================================
