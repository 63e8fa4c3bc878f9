---------------------------- MODULE ConsoleViews ----------------------------
(***************************************************************************)
(* The console at work: one tab, its query cache, the pages the user goes   *)
(* through, the dialogs open on them, the writes in flight and the secrets  *)
(* revealed.  A write is one request: the server applies or refuses it, the *)
(* answer may be late, lost, or arrive when the user is somewhere else.     *)
(*                                                                          *)
(* The cache follows TanStack Query as the console uses it (lib/query-      *)
(* client.ts, lib/query-options.ts): a mounted query with no data, marked   *)
(* data or data older than 30 s is fetched; marking the data of a mounted   *)
(* query starts its fetch again, but a first fetch in flight is left alone; *)
(* the fetch of a query nobody mounts any more is cancelled.                *)
(*                                                                          *)
(* Cached views do not act on each other, so a behaviour follows one view,  *)
(* any of them, and the handlers that can make a difference to it.          *)
(***************************************************************************)
EXTENDS TenantPages, DefinitionPages, ClientPages, OperationPages

CONSTANTS
  Granted,     \* permissions of the session
  MaxWrites,   \* writes submitted in a behaviour
  MaxVisits    \* pages the user goes to in a behaviour

ASSUME BoundsAssumption == MaxWrites \in Nat /\ MaxVisits \in Nat
ASSUME GrantedAssumption == Granted \subseteq AdminPermission

VARIABLES
  view,     \* the key followed in this behaviour
  page,     \* route shown
  visit,    \* number of pages mounted so far: which life of a component
  dialogs,  \* open dialogs, innermost last
  cache,    \* None, or the writes the view's data reflects and the mark on it
  fetch,    \* the view's fetch: none, sent, or read by the server
  calls,    \* per write: None, or the handler, the server's and the client's side
  reveal,   \* the revealed values of the tenant shown (useTransientResourceReveal)
  owed      \* ghost: the writes acknowledged while the view had data

vars == <<view, page, visit, dialogs, cache, fetch, calls, reveal, owed>>

----------------------------------------------------------------------------
Pages    == TenantPageSet \cup DefinitionPageSet \cup {ApiClientsPage} \cup OperationPageSet
Handlers == TenantHandlers \cup DefinitionHandlers \cup ClientHandlers \cup OperationHandlers
Dialogs  == TenantDialogs \cup DefinitionDialogs \cup ClientDialogs \cup OperationDialogs

Routes    == {p.name : p \in Pages}
PageAt    == [r \in Routes |-> CHOOSE p \in Pages : p.name = r]
Ids       == {<<h.page, h.name>> : h \in Handlers}
HandlerOf == [i \in Ids |-> CHOOSE h \in Handlers : <<h.page, h.name>> = i]
DialogsAt == [r \in Routes |-> {d \in Dialogs : d.page = r}]
ShownBy   == [k \in adminQueryKeys |-> Shows(k)]
Writes    == 1..MaxWrites

(* A write on its way, and the data of a view: neither is the absence of one. *)
Call   == [by : Ids, visit : Nat, server : {"sent", "applied", "refused"},
           client : {"waiting", "settling", "done", "failed"}, stage : Nat]
Cached == [data : SUBSET Writes, invalid : BOOLEAN]
ASSUME NoneAssumption == None \notin Call /\ None \notin Cached

Idle   == [at |-> "idle", saw |-> {}]
Sent   == [at |-> "sent", saw |-> {}]
Hidden == [at |-> "hidden", saw |-> {}]

(* What can make a difference to a view: the handlers that write what it     *)
(* shows, mark it or drop it, the pages that mount it or hold one of those   *)
(* handlers, the dialogs that do, and the ones those are opened from.        *)
Touches(h, k) ==
  \/ h.writes \cap Shows(k) # {}
  \/ k \in h.removes
  \/ \E i \in 1..Len(h.marks) : k \in h.marks[i]
Around(k) ==
  LET own == {h \in Handlers : Touches(h, k)}
      holding == {d \in Dialogs : \/ k \in d.queries
                                 \/ \E h \in own : h.page = d.page /\ d.name \in h.in}
  IN [handlers |-> own,
      pages    |-> {p.name : p \in {q \in Pages : k \in q.queries}} \cup
                   ((UNION {{h.page, h.to} : h \in own}) \ {None}),
      dialogs  |-> holding \cup {d \in Dialogs :
                     \E e \in holding : e.page = d.page /\ d.name \in e.over}]
Scene == [k \in adminQueryKeys |-> Around(k)]

(* lib/admin-capabilities: what a button or an item of the menu asks. *)
can(needs) == needs \subseteq Granted

(* lib/admin-navigation: the menu, and the items of it that are shown.  A    *)
(* tenant or a definition is reached from its list.                          *)
NAV_GROUPS ==
  [r \in {WebhooksRoute, AuditRoute, SessionsRoute} |->
     IF r = WebhooksRoute THEN "integration.manage"
     ELSE IF r = AuditRoute THEN "audit.read" ELSE "session.manage"]
visibleNavGroups ==
  {r \in Routes : can({IF r \in DOMAIN NAV_GROUPS THEN NAV_GROUPS[r] ELSE "admin.read"})}

Used    == {w \in Writes : calls[w] # None}
By(w)   == HandlerOf[calls[w].by]
Applied == {w \in Used : calls[w].server = "applied"}

----------------------------------------------------------------------------
(* What is mounted, what the user can reach *)
Opened(name, open) == \E i \in 1..Len(open) : open[i] = name

(* Whether the page, with these dialogs open, mounts the view. *)
Mounts(route, open) ==
  \/ view \in PageAt[route].queries
  \/ \E d \in DialogsAt[route] : view \in d.queries /\ Opened(d.name, open)
Mounted == Mounts(page, dialogs)

ModalsOpen ==
  SelectSeq(dialogs, LAMBDA n : \E d \in DialogsAt[page] : d.name = n /\ d.modal)

(* A modal dialog keeps the user from what is under it. *)
InReach(place) ==
  /\ view \in PageAt[page].main => cache # None
  /\ IF ModalsOpen # <<>> THEN place = Last(ModalsOpen)
                          ELSE place = None \/ Opened(place, dialogs)

(* A pending flag is state of the mounted component. *)
Pending(flag) ==
  \E w \in Used :
    /\ By(w).flag = flag /\ calls[w].visit = visit
    /\ \/ calls[w].client = "waiting"
       \/ calls[w].client = "settling" /\ By(w).busy = "settled"

Without(open, names) == SelectSeq(open, LAMBDA n : n \notin names)
With(open, names)    == Without(open, names) \o SetToSeq(names)

----------------------------------------------------------------------------
(* The cache.  C and F are the view's data and fetch before the step. *)
NeedsFetch(C) == C = None \/ C.invalid

(* The dialogs open become these: a view they mount is fetched if it has no  *)
(* data or marked data, the fetch of a view nobody mounts any more is        *)
(* cancelled.                                                                *)
Remounted(C, F, open) ==
  IF ~Mounts(page, open) THEN Idle
  ELSE IF ~Mounted /\ NeedsFetch(C) THEN Sent ELSE F

(* invalidateQueries: mark, then fetch again what is mounted. *)
Marked(C, keys) == IF view \in keys /\ C # None THEN [C EXCEPT !.invalid = TRUE] ELSE C
Refetched(C, F, keys) ==
  IF view \in keys /\ Mounted /\ (C # None \/ F.at = "idle") THEN Sent ELSE F

(* removeTenantQueries: cancel and drop; a mounted query starts anew. *)
Dropped(C, keys)   == IF view \in keys THEN None ELSE C
Restarted(F, keys) == IF view \in keys THEN (IF Mounted THEN Sent ELSE Idle) ELSE F

(* The user goes to a page, by a link or taken there by a handler: the old   *)
(* components are unmounted with their dialogs, flags and revealed values.   *)
GoTo(route, aged) ==
  /\ page' = route /\ visit' = visit + 1 /\ dialogs' = <<>> /\ reveal' = Hidden
  /\ fetch' = IF view \in PageAt[route].queries /\ (NeedsFetch(cache) \/ aged) THEN Sent ELSE Idle

Init ==
  /\ view \in {k \in adminQueryKeys : Scene[k].handlers # {}}
  /\ page \in Scene[view].pages \cap visibleNavGroups
  /\ visit = 0 /\ dialogs = <<>> /\ reveal = Hidden
  /\ cache = None
  /\ fetch = IF view \in PageAt[page].queries THEN Sent ELSE Idle
  /\ calls = [w \in Writes |-> None]
  /\ owed = {}

----------------------------------------------------------------------------
(* The query *)
Visit(route, aged) ==
  /\ visit < MaxVisits /\ route # page /\ (aged => cache # None)
  /\ route \in visibleNavGroups
  /\ GoTo(route, aged)
  /\ UNCHANGED <<view, cache, calls, owed>>

ServerRead ==
  /\ fetch.at = "sent"
  /\ fetch' = [at |-> "read", saw |-> {w \in Applied : By(w).writes \cap ShownBy[view] # {}}]
  /\ UNCHANGED <<view, page, visit, dialogs, cache, calls, reveal, owed>>

(* What a deleted tenant's key would show is answered with an error. *)
Answer ==
  /\ fetch.at = "read"
  /\ \A w \in fetch.saw : view \notin By(w).removes
  /\ cache' = [data |-> fetch.saw, invalid |-> FALSE]
  /\ fetch' = Idle
  /\ UNCHANGED <<view, page, visit, dialogs, calls, reveal, owed>>

(* An error, after the retries of shouldRetryQuery. *)
FetchFails ==
  /\ fetch.at # "idle"
  /\ fetch' = Idle
  /\ UNCHANGED <<view, page, visit, dialogs, cache, calls, reveal, owed>>

(* The data is older than staleTime and the window gets the focus, or the    *)
(* polling interval of the query has passed.                                 *)
Refetch ==
  /\ Mounted /\ cache # None /\ fetch.at = "idle"
  /\ fetch' = Sent
  /\ UNCHANGED <<view, page, visit, dialogs, cache, calls, reveal, owed>>

----------------------------------------------------------------------------
(* Dialogs *)
Open(d) ==
  /\ d.page = page /\ ~Opened(d.name, dialogs)
  /\ \E place \in d.over : InReach(place)
  /\ can(d.needs)
  /\ d.after = None \/ ~Pending(d.after)
  /\ dialogs' = Append(IF d.replaces THEN Without(dialogs, {"selectedResource"}) ELSE dialogs, d.name)
  /\ fetch' = Remounted(cache, fetch, dialogs')
  /\ UNCHANGED <<view, page, visit, cache, calls, reveal, owed>>

Close(d) ==
  /\ d.page = page /\ Opened(d.name, dialogs) /\ InReach(d.name)
  /\ d.locked = None \/ ~Pending(d.locked)
  /\ dialogs' = Without(dialogs, {d.name})
  /\ fetch' = Remounted(cache, fetch, dialogs')
  /\ UNCHANGED <<view, page, visit, cache, calls, reveal, owed>>

----------------------------------------------------------------------------
(* Writes *)
Submit(w, h) ==
  /\ w = Cardinality(Used) + 1
  /\ h.page = page /\ can(h.needs)
  /\ \E place \in h.in : InReach(place)
  /\ h.busy = "no" \/ ~Pending(h.flag)
  /\ calls' = [calls EXCEPT ![w] = [by |-> <<h.page, h.name>>, visit |-> visit,
                                    server |-> "sent", client |-> "waiting", stage |-> 0]]
  /\ reveal' = IF h.hides = "before" THEN Hidden ELSE reveal
  /\ UNCHANGED <<view, page, visit, dialogs, cache, fetch, owed>>

Commit(w) ==
  /\ w \in Used /\ calls[w].server = "sent"
  /\ calls' = [calls EXCEPT ![w].server = "applied"]
  /\ UNCHANGED <<view, page, visit, dialogs, cache, fetch, reveal, owed>>

Refuse(w) ==
  /\ w \in Used /\ calls[w].server = "sent"
  /\ calls' = [calls EXCEPT ![w].server = "refused"]
  /\ UNCHANGED <<view, page, visit, dialogs, cache, fetch, reveal, owed>>

Here(w) == calls[w].visit = visit

(* The handler goes on when everything it marked last has been refetched. *)
Awaited(w) ==
  Mounted /\ calls[w].stage > 0 =>
    (view \in By(w).marks[calls[w].stage] => fetch.at = "idle")

(* The dialogs a handler closes and opens, if its component is still there. *)
After(w) ==
  IF Here(w) THEN With(Without(dialogs, By(w).closes), By(w).opens) ELSE dialogs

(* Mutant: values already shown are erased, a request for them goes on. *)
EraseShown(w) ==
  IF By(w).hides = "after" /\ Here(w) /\ reveal.at = "shown" THEN Hidden ELSE reveal

(* cancelAndErase: the values and the request for them are dropped. *)
CancelAndErase(w) == IF By(w).hides = "after" /\ Here(w) THEN Hidden ELSE reveal

(* The answer: revealed values hidden, queries dropped, the first views      *)
(* marked.  Every view with data from before is owed the write.              *)
Succeed(w) ==
  LET h == By(w)
      C == Dropped(cache, h.removes)
      F == Restarted(fetch, h.removes)
      first == IF h.marks = <<>> THEN {} ELSE h.marks[1]
      D == IF h.at = "answer" THEN After(w) ELSE dialogs
  IN
  /\ w \in Used /\ calls[w].server = "applied" /\ calls[w].client = "waiting"
  /\ reveal' = CancelAndErase(w)
  /\ cache' = Marked(C, first)
  /\ dialogs' = D
  /\ fetch' = Remounted(cache', Refetched(C, F, first), D)
  /\ owed' = CASE view \in h.removes -> {}
              [] view \notin h.removes /\ cache # None /\ h.writes \cap ShownBy[view] # {} -> owed \cup {w}
              [] OTHER -> owed
  /\ calls' = [calls EXCEPT ![w].client = "settling", ![w].stage = IF h.marks = <<>> THEN 0 ELSE 1]
  /\ UNCHANGED <<view, page, visit>>

(* The next views are marked once the last ones are refetched. *)
MarkNext(w) ==
  LET next == calls[w].stage + 1 IN
  /\ w \in Used /\ calls[w].client = "settling" /\ Awaited(w)
  /\ next <= Len(By(w).marks)
  /\ cache' = Marked(cache, By(w).marks[next])
  /\ fetch' = Refetched(cache, fetch, By(w).marks[next])
  /\ calls' = [calls EXCEPT ![w].stage = next]
  /\ UNCHANGED <<view, page, visit, dialogs, reveal, owed>>

(* The end of the handler: it closes its dialogs, or takes the user to its   *)
(* page, wherever the user is by then.                                       *)
Finish(w) ==
  LET h == By(w) IN
  /\ w \in Used /\ calls[w].client = "settling" /\ Awaited(w)
  /\ calls[w].stage = Len(h.marks)
  /\ calls' = [calls EXCEPT ![w].client = "done"]
  /\ IF h.to # None
     THEN \/ h.to # page /\ GoTo(h.to, FALSE)
          \/ h.to = page /\ UNCHANGED <<page, visit, dialogs, fetch, reveal>>
     ELSE /\ dialogs' = IF h.at = "settled" THEN After(w) ELSE dialogs
          /\ fetch' = Remounted(cache, fetch, dialogs')
          /\ UNCHANGED <<page, visit, reveal>>
  /\ UNCHANGED <<view, cache, owed>>

(* Refused, or the connection lost before or after the server acted. *)
Fail(w) ==
  /\ w \in Used /\ calls[w].client = "waiting"
  /\ calls' = [calls EXCEPT ![w].client = "failed"]
  /\ dialogs' = IF Here(w) THEN Without(dialogs, By(w).failing) ELSE dialogs
  /\ fetch' = Remounted(cache, fetch, dialogs')
  /\ UNCHANGED <<view, page, visit, cache, reveal, owed>>

----------------------------------------------------------------------------
(* Revealed values: useTransientResourceReveal, behind toggleSecrets.  A     *)
(* request is dropped with the values by hide, by leaving the page and by a  *)
(* new request (epoch and abort).                                            *)
Show ==
  /\ page \in {TenantRoute(t) : t \in Tenants} /\ view = tenantResources(page[2])
  /\ InReach("selectedResource") /\ can({"secret.reveal"})
  /\ reveal.at = "hidden"
  /\ reveal' = Sent
  /\ UNCHANGED <<view, page, visit, dialogs, cache, fetch, calls, owed>>

RevealRead ==
  /\ reveal.at = "sent"
  /\ reveal' = [at |-> "read",
                saw |-> {w \in Applied : Resources(page[2]) \in By(w).writes}]
  /\ UNCHANGED <<view, page, visit, dialogs, cache, fetch, calls, owed>>

RevealAnswer ==
  /\ reveal.at = "read"
  /\ reveal' \in {[reveal EXCEPT !.at = "shown"], Hidden}
  /\ UNCHANGED <<view, page, visit, dialogs, cache, fetch, calls, owed>>

Hide ==
  /\ InReach("selectedResource") /\ reveal.at = "shown"
  /\ reveal' = Hidden
  /\ UNCHANGED <<view, page, visit, dialogs, cache, fetch, calls, owed>>

----------------------------------------------------------------------------
Next ==
  \/ \E r \in Scene[view].pages, aged \in BOOLEAN : Visit(r, aged)
  \/ ServerRead \/ Answer \/ FetchFails \/ Refetch
  \/ \E d \in Scene[view].dialogs : Open(d) \/ Close(d)
  \/ \E w \in Writes, h \in Scene[view].handlers : Submit(w, h)
  \/ \E w \in Writes : Commit(w) \/ Refuse(w) \/ Succeed(w) \/ MarkNext(w) \/ Finish(w) \/ Fail(w)
  \/ Show \/ RevealRead \/ RevealAnswer \/ Hide

Spec == Init /\ [][Next]_vars

----------------------------------------------------------------------------
Done(w) == w \in Used /\ calls[w].client = "done"

(* Handlers that leave a view of what they changed unmarked: three of the    *)
(* list of definitions leave the detail, removing a definition from its page *)
(* leaves the lists it goes back to, a consumed export its status, and what  *)
(* changes the deliveries or the clients the polled counters of health and   *)
(* usage.                                                                    *)
LeavesAside(h, k) ==
  \/ h.name \in {"saveListed", "toggleListed", "removeListed"} /\ k \in {definition(d) : d \in Definitions}
  \/ h.name = "removeDefinition" /\
       k \in {overview, definitions} \cup {definition(d) : d \in Definitions}
  \/ h.name = "consumeExport" /\ k = auditExport
  \/ k \in {operationalHealth, apiClientUsage}
LeftAside(w) == LeavesAside(By(w), view)

Fresh == cache # None /\ ~cache.invalid

(* When a handler has finished, no view that was cached when its write was   *)
(* acknowledged can be served as fresh without that write: whatever fetch    *)
(* was in flight, whatever page the user went to, it is marked or refetched. *)
FreshIsCurrent ==
  Fresh => \A w \in owed : Done(w) /\ ~LeftAside(w) => w \in cache.data

(* Values revealed on this page are never older than a change the page has   *)
(* acknowledged, for the handlers that hide them with the answer.            *)
RevealedIsCurrent ==
  reveal.at = "shown" =>
    \A w \in Used :
      /\ calls[w].client \in {"settling", "done"} /\ Here(w)
      /\ By(w).hides = "after" /\ Resources(page[2]) \in By(w).writes
      => w \in reveal.saw
=============================================================================
