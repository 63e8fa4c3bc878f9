---------------------------- MODULE ClientPages ----------------------------
(***************************************************************************)
(* The page of the API clients (web/src/routes/api-clients).  One dialog    *)
(* holds the form of a new client, the form of a client that is edited, and *)
(* the token of the client just created or rotated.                         *)
(***************************************************************************)
EXTENDS ConsoleData

ApiClientsRoute == <<"/api-clients">>
ClientQueries   == {apiClients, settings}
ApiClientsPage  == Page(ApiClientsRoute, ClientQueries, {})

Lifecycle(name) ==
  [Handler(name, ApiClientsRoute, {Clients}, <<invalidateApiClients>>) EXCEPT
     !.flag = "isLifecyclePending", !.busy = "settled", !.at = "answer"]

(* create: the token appears, or the dialog closes, with the answer; the     *)
(* button stays disabled until the list is refetched.                        *)
createClient ==
  [Lifecycle("create") EXCEPT !.flag = "isCreating", !.in = {"clientForm"}, !.opens = {"clientForm"}]
updateClient ==
  [Lifecycle("update") EXCEPT !.flag = "isCreating", !.in = {"clientForm"}, !.closes = {"clientForm"}]

(* The buttons of a row ask nothing of can(). *)
rotate == [Lifecycle("rotate") EXCEPT !.opens = {"clientForm"}]
revoke == Lifecycle("revoke")
removeClient ==
  [Lifecycle("removeClient") EXCEPT !.in = {"pendingDelete"}, !.closes = {"pendingDelete"}]

(* start and startEdit open it; changeDialogOpen refuses to close it while   *)
(* the flag is up.                                                           *)
changeDialogOpen == "isCreating"
ClientForm == [Dialog("clientForm", ApiClientsRoute, {}) EXCEPT !.locked = changeDialogOpen]
HelpDialog == [Dialog("helpOpen", ApiClientsRoute, {}) EXCEPT !.modal = FALSE]
ConfirmRemoveClient ==
  [Dialog("pendingDelete", ApiClientsRoute, {}) EXCEPT !.after = "isLifecyclePending"]

clientColumns ==
  {"name", "token", "created_at", "scopes", "rpm_limit", "expires_at", "last_used_at",
   "status", "flags", "actions"}
ClientsTable ==
  [Table("tenancit.api-clients.columns", clientColumns, {"flags", "actions"}, <<Desc("created_at")>>)
     EXCEPT !.visibility = [flags |-> FALSE]]

ClientHandlers == {createClient, updateClient, rotate, revoke, removeClient}
ClientDialogs  == {ClientForm, HelpDialog, ConfirmRemoveClient}
=============================================================================
