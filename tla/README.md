# Verification of tenancit

TLA+ models of the tenancit server and of its web console, the TLC instances that
check them and the TLAPS proofs of their main properties. `PROJECT.json` lists components, runs,
mutants, hazards and theorems and maps every definition to the lines it models.

    tlc -workers 2 -config MCWebhookDelivery.cfg MCWebhookDelivery
    tlapm WebhookDeliveryProofs.tla

Paths below are under `src/server/internal` unless they start with `src/`, or with
`web/` for `src/web/src`.

## 1. Inventory

tenancit is a Go server over PostgreSQL (and Valkey, when rate limits are
shared). Several replicas of it run at once behind a balancer; each serves the
administrative API, the consumer API and the background loops. Two commands run
beside them: `tenancit-rewrap` and `tenancit-audit-jobs`. Nearly all state is in
the database, so components interact through rows, locks, unique indexes and
triggers, and what is hard is what happens between two statements.

The console is a single page application over the administrative API. Its state is
in a browser tab: cached answers, open dialogs, requests in flight, forms with
the key of their last attempt; and in the browser's storage, which all tabs share.
The server decides every request again, so what the console can get wrong is what
it shows and what it sends: an answer from before a write, or from before a change
of credential, a retry taken for a new request, a save over values nobody saw.

| Component | State | Operations | What is hard | What makes it correct |
|---|---|---|---|---|
| Outbox and webhooks (`webhook/`, `store/db/outbox.go`) | events, targets, deliveries, dead letters; the batch a worker holds | publish in the mutation's transaction, claim under a lease, post, record the outcome, replay, toggle a target, retain | leases that lapse during a post, crashes, lost answers, replays during retention | an outcome is recorded by the lease holder only; an owed delivery is settled and never lost |
| Tenant directory (`service/identity.go`, tenant handlers) | tenants, domains | create, update, remove, map hostnames | hostnames and slugs that change owner while others are read | a slug or a hostname names one tenant that exists |
| Resource catalogue (`service/provision.go`, `resource_update.go`, `resource_fields.go`) | definitions, fields, resources, values | define, provision, duplicate, update, clear an override, remove | validation before insertion; flags of a field read before a write; inheritance from a source that changes | links one level deep in one tenant; required values stay |
| Resolution (`service/resolve.go`, `httpapi/consumer.go`) | a request in progress, the consumer's cached answer | read tenant, headers, values; 304; consumer writes | three statements, no transaction | a 304 confirms the present answer |
| Administrative idempotency (`idempotency/`) | records per actor, operation and key | claim, mutate, store the answer, replay, expire, clean up | waiting on the unique index; rollback; cleanup between two statements | one mutation per life of a key; faithful replays |
| Audit exports (`auditops/`) | jobs, encrypted payloads | create, process, store, fail, download once, expire | two makers of one job; a maker that dies; late results | one download, recorded; jobs end |
| Key rotation (`crypto/`, `rewrap/`) | key rings per replica, ciphertexts, campaign, reports | redeploy, write, rewrap in batches, report | mixed key rings; writers beside batches; a lost lock | secrets keep their value and stay readable |
| API clients (`service/apikey.go`, `httpapi/api_client_lifecycle.go`, `auth.go`) | clients, policies, tokens, grace periods | create, update, rotate, revoke, remove, authenticate | long sequences; an expiry between check and commit; the principal is a copy | dead credentials stay dead |
| Rate limiter (`ratelimit/`) | a bucket per client | admit, refuse, expire | concurrent replicas, limits that change, key expiry | no more than a full bucket and its refill |
| Usage (`usage/`) | channel and batch per replica, daily counts, last use | record, flush, touch, upsert | full channel, partial failure, end of the process | never counted twice, never moved back |
| Settings (`settings/`, `httpapi/admin_governance.go`, `web/routes/settings`) | revision and values; the page's answer, draft and saves | compare-and-set, snapshot, edit, save a section | revision and values read apart; a draft that outlives its answer | a save replaces only what its sender has seen |
| Pages and cached views (`web/routes`, `web/lib/query-*.ts`) | the cached answer of each query, its fetch, open dialogs, writes in flight, revealed secrets | visit, fetch, open, submit, mark, drop, reveal | late answers; handlers that go on after the user left | a fresh view has every write it was owed; no stale secret |
| Session of a tab (`web/components/app-shell.tsx`, `web/lib/api.ts`) | token, session, shell, storage events, cached answers | load, sign in and out, 401, another tab | events in flight, timers, a 401 for an old credential | nothing asked under one credential is shown under another |
| Keyed forms (`web/lib/idempotency.ts` and its callers) | content, attempt, requests | edit, submit, retry, leave | timeouts, requests still on their way | one effect per intent; no replay taken for a success |
| Tables (`web/hooks/use-data-table.ts`) | columns, sorting, page, stored layout | toggle, sort, resize, turn, filter, reset, remount | entries of older versions, page sizes on a late page | a reload shows the same; no empty page |
| Preferences (`web/lib/i18n.tsx`, `theme.tsx`) | language, theme, listeners, the default asked for | pick, load, system change | late default, listeners of an earlier choice | the choice is what is shown |
| Scale gate (`src/scripts/benchmark-scale.sh`, `web/lib/scale-gate.ts`) | lock directory, raw files, decision | begin, measure, summarise | invocations at once, interrupted, failed or killed ones | the gate opens on confirmed evidence only |
| Administrator sessions (`adminauth/`) | login attempts, sessions | begin, call back, authenticate, revoke | sliding expiry, permissions of the sign-in | not modelled |
| Audit trail (`auditops/maintenance.go`, `src/server/migrations/00010_audit_operations.sql`) | partitions, legal holds | maintain, hold, release | a hold placed while a partition is dropped | not modelled |
| Change feed (`httpapi/change_feed.go`) | a reader's cursor | list | commits out of time order | not modelled |
| Operational reports (`httpapi/operational_reports.go`) | reports per kind and key | store, list | retries | partly, in KeyRotation |
| Telemetry, migration runner, static files, widgets, delivery scripts | | | | not modelled, see section 8 |

The hazards of this code, each at its line and with the properties that would
catch it, are in `PROJECT.json`.

## 2. Modules

| Module | Extends | Models |
|---|---|---|
| `WebhookDelivery` | | outbox, worker, targets, retention |
| `DeliveryContract` | | what the outbox promises per event and target; implemented by `WebhookDelivery` |
| `IdempotencyContract` | | what a server promises for requests with a key; implemented by `AdminIdempotency`, and by `KeyedForms` seen from its forms |
| `AdminIdempotency` | | idempotent mutations and the cleanup |
| `AuditExport` | | export jobs, makers, downloads, expiry |
| `KeyRotation` | | cut-over, writers, campaigns, reports |
| `TenantDirectory` | | tenants, domains |
| `ResourceCatalog` | `TenantDirectory` | definitions, resources, values, resolve, consumer writes |
| `ApiClients` | | clients, tokens, authentication |
| `RateLimiter`, `UsageCollector` | `ApiClients` | shared bucket; collectors |
| `ConsumerAccess` | the previous two | the middleware chain of a consumer request |
| `RuntimeSettings` | | settings on the server and the page that edits them |
| `ConsoleData` | | permissions, query keys, what each key shows, invalidations, records for pages, dialogs, tables and handlers |
| `TenantPages`, `DefinitionPages`, `ClientPages`, `OperationPages` | `ConsoleData` | the pages, each with its queries, dialogs, handlers and tables |
| `ConsoleViews` | the four | one tab at work: cache, fetches, dialogs, writes, revealed values |
| `DataTables` | the four | the tables of those pages and their stored layout |
| `ConsoleSession` | | the credential of a tab |
| `KeyedForms` | | forms with an idempotency key |
| `ConsolePreferences` | | language and theme |
| `ScaleGate` | | benchmark invocations and their decision |
| `WebhookDeliveryProofs`, `AdminIdempotencyProofs`, `AuditExportProofs`, `KeyRotationProofs` | their component, TLAPS | theorems |
| `CatalogProofs` | `ResourceCatalog`, TLAPS | theorems about directory, catalogue and resolution |
| `ApiClientsProofs` | `ConsumerAccess`, TLAPS | theorems about clients, limiter, usage and requests |
| `ConsoleProofs` | `ConsoleSession`, `KeyedForms`, `ConsolePreferences`, `RuntimeSettings`, TLAPS | theorems about what arrives late in a tab |
| `ConsoleViewsProofs` | `ConsoleViews`, `DataTables`, `ScaleGate`, TLAPS | theorems about cached views, tables and the scale gate |
| `MC*` | one component each, `MCConsole` all of the console's | symmetry sets and small definitions for TLC |

An operation that runs in one transaction and locks the rows it decides on is
one action. Code that reads, releases and then writes takes one action per
statement: provisioning, storing and clearing a value, policy updates, consumer writes,
resolution, the worker's claim and outcome, the export makers, the rewrap batches, the usage flush and the chain of
middleware. Definitions marked "Mutant"
in their comment belong to no specification: each is a plausible defect, and shows
that a property can fail.

**WebhookDelivery.** `Publish` stores the event and a row per active target.
`Claim` takes due or lapsed rows under a new token and copies counts into the
worker's `batch`; `Attempt` is the post, `MarkDelivered` and `MarkFailed` the
fenced updates, `LeaseLost` their zero-row case, `StoreError` and `Crash` what
drops a batch. Timestamps are only compared with the clock, so each is a flag
that says whether it has passed; passing time sets it, in any order, which also
covers replicas whose clocks differ.

**AdminIdempotency.** `Claim` is the insert that succeeds, `Conflict` the one that
finds a committed row after waiting for the `holder`; `Lookup` and `LookupGone`
the select that follows, before or after the cleanup; `Commit` and `Rollback` end
the transaction with the mutation in it. Seen from outside (`IdempotencyContract`) there
are four steps and no transactions, locks or clocks: a request is asked, performed,
answered with what was performed before, or its key is forgotten. A request that is
refused or fails is never answered there.

**AuditExport.** A maker is a create request or a worker. `Retry` finds the job of
the same key and, as in the code, produces it again when it is still processing.
`Abandon` is a maker that dies.

**KeyRotation.** `Redeploy` moves a replica through the stages of the runbook, in
the order it gives; `BeginWrite` and `EndWrite` hold the row lock, `Select` skips
locked rows, `CommitBatch` is the compare-and-set, `FailBatch`, `Interrupt` and
`LoseLock` the ways a run goes wrong. A ciphertext is a pair of a write's serial
number and a key version.

**TenantDirectory, ResourceCatalog.** Rows with a `stamp` for `updated_at`, which
is what tags are made of. Provisioning is validation (`CheckProvision`,
`CheckDuplicate`) and then insertion (`StoreProvision`) under the source lock and the
trigger `tenant_resource_source_contract`. Storing or clearing a value locks the row of
the resource and reads the field's flags without a lock (`UpdateResourceField`,
`ClearResourceFieldOverride`); the write is a later step (`StoreValue`, `DeleteValue`), and
`edit` is what the transaction carries in between. A consumer's write checks before its
transaction (`CheckWrite`) and again in it (`BeginWrite`). `strict` is a history: the
fields that have been required since before any resource had them. `Headers`, `Mark` and
`ComputeETag` follow `Version`. Identification by hostname reads one row and answers the
slug with a tag that contains it, so there is nothing to state about it.

**ApiClients, RateLimiter, UsageCollector, ConsumerAccess.** `UpdateAPIClient` locks the row
and checks the expiry, `CommitUpdate` writes, and time may pass in between; the other
handlers do not look at the clock after they decided. A request carries the
principal copied by `Authenticate`; administrators, time and crashes interleave
with each middleware. Bucket amounts are scaled by `TicksPerMinute`, so that
refills are whole numbers; `recent` is a history of what the last minute admitted. Daily buckets, operations and status classes are
folded into one count of requests and one of refusals.

**ConsoleData and the page modules.** What a page is for the cache is data: the
queries it mounts, the dialogs over it (what they need, what keeps them closed or
open), and its handlers: what they write, the views they mark stage by stage, what
they close, open, hide and go to, and until when their button is disabled. Each
record is read off its component; `ConsoleViews` gives all of them one meaning.

**ConsoleViews.** A behaviour follows one cached view, any of them, with the pages,
dialogs and handlers that can make a difference to it (`Scene`); views do not act
on each other. `Submit`, `Commit` or `Refuse`, then `Succeed`, `MarkNext` and
`Finish`, or `Fail`, are the two sides of a write; a fetch is sent, read by the
server and answered. TanStack Query is external and modelled as the console relies
on it: a marked, mounted query is fetched again, a first fetch in flight is left
alone, the fetch of an unmounted query is cancelled. `owed` is a ghost.

**ConsoleSession.** `ConfigLoaded` and `SessionLoaded` are the two awaits of
`loadAuthentication`; `SignOut` is what a 401 does; `StorageEvent` arrives any time
after `OtherTabStores`, and `Remount` is the timer of `syncAdminTokenState`.

**KeyedForms.** One form of five; keys are named after the request that first sent
them, so the server's memory is a function of the key. `turn` counts intents. The server of
this module answers by the key alone, without comparing contents. That makes no
difference, because no key comes back with other contents (`KeyMeansContents`), so the
forms and their server keep the contract too (`FormsKeepContract`).

**RuntimeSettings.** `GetSettings` takes two steps, the revision and then the values.
A value is the number of the edit that made it. `seen` and `shown` are ghosts: what
the tab was answered, and what the page displayed.

**DataTables, ConsolePreferences.** The layout a table has and the one that would be
restored; `Toggled` is the library's sorting. Effects of React run from the inside
out, which decides whether a stored language is found.

**ScaleGate.** A measurement is quiet or crosses one threshold, at the percentile's
edge: as many slow samples as the 95th leaves aside, or one more. The percentile is
an order statistic; the sizes of an invocation are measured in any order, each twice
in a row. An invocation sets its trap (`Arm`), then makes the lock directory (`Begin`) or
finds it made (`AlreadyRunning`); `Interrupted` runs the trap in either place, and the
trap removes the directory whoever made it. `usurped` is a ghost: the lock was taken from
one that was measuring.

## 3. Runs

| Run | Instance | Shows |
|---|---|---|
| `webhook_safety` | 2 workers, 2 events, 1 target, 2 attempts, 1 fault, 1 replay | outcomes are fenced by the lease; dead letters are complete; the contract is implemented |
| `webhook_liveness` | 2 workers, 1 event | an owed delivery settles or its target is inactive |
| `idempotency` | 3 attempts, 2 keys, 2 payloads, 2 lives | the contract is implemented; at most one mutation per life; faithful replays; every attempt is answered |
| `rotation` | 2 rows, 2 replicas, 2 campaigns, 1 write | secrets keep their value and stay readable; a healthy report is true; campaigns end |
| `rotation_targets` | 1 of each | finding: webhook targets are left under the retired key |
| `export` | 2 jobs, 3 makers, 2 readers | one download, recorded; finished jobs stay; all jobs end |
| `catalog` | four instances, below: 2 tenants, 3 resources, 3 aliases; a required or optional field; a consumer | links and values stay sound under the check-then-insert race; required values are not lost; a 304 confirms the present answer, cleared overrides aside |
| `resolve_cleared` | 1 tenant, 2 resources | finding: clearing an override leaves the ETag |
| `access` | 1 client, 2 tokens, 2 replicas, 2 requests, 5 instants | revocation, limits, usage; dead tokens stay dead, an expiry during an update aside |
| `expired_returns` | 1 client, 1 token, 3 instants | finding: an update that was checked before the expiry and commits after it brings the token back |
| `console` | 1 tenant, 1 definition, 1 write and 2 visits per view; 2 credentials; 3 requests; 2 saves; 8 tables; 3 invocations | the twelve properties of the console, below |
| `settings_overwrite` | 2 settings of one section, 1 save | finding: a save replaces a concurrent change that was never displayed |

*The catalogue run* (`OneInstance`) holds the states of four instances, each a state
constraint: `Directory`, tenants and hostnames; `Links`, three resources of a tenant or two
of two, so that a source and its dependents are provisioned, moved and removed around each
other; `Writers`, two resources with a required or optional field, console edits,
clears and a consumer that writes; `Readers`, two resources and a consumer that resolves.

* `LinksAreSound`, `ValuesBelong`: a source stays, in the same tenant and definition and
  unlinked itself, and values are of live fields of the resource's definition, although
  both are validated before they are inserted.
* `RequiredNeverLost`: no step takes the last value of a required field from a resource,
  except a clear that read the field as optional (`ReadAsOptional`). Without the exception
  the run finds the race: the clear reads the flag, the field becomes required, the value
  is deleted.
* `StrictStayFilled`: that race cannot touch a field that was required before any
  resource had it and has stayed so: every resource has a value for it, always.
* `NotModifiedIsCurrent`: a tag that matches confirms the kept answer.

*The access run.* `TokensDieForGood` excepts the one token that a client still has when it
expires between the check and the commit of an update; `TokensNeverReturn` of
`expired_returns` states the promise without the exception, and is violated.
`RevocationTakesEffect` is about authentication: a revoked or removed client is refused
from the next request on, under its current and its replaced tokens. A request that was
authenticated before goes on with its copy of the client, by design.

*The console run* composes seven specifications that share no state. `MCConsole`
adds `focus`: a behaviour follows one of them while the others stand still, so the
states add up instead of multiplying.

* `FreshIsCurrent`: when a handler has finished, no view that had data when its
  write was acknowledged is served as fresh without it. The exceptions are listed
  in `LeftAside` and in section 7.
* `RevealedIsCurrent`: revealed secrets are never older than a change the page
  knows of, for the handlers that hide them with the answer.
* `NothingFromBefore`, `PageBelongsToCredential`: once a tab knows of a change of
  credential, no cached answer, request or secret of the old one is left, and the
  page was mounted for the new one.
* `OneEffectPerIntent`, `EachSuccessIsItsOwn`: retries of a form act once, a new
  submission is never answered by the replay of an earlier one.
* `KeyMeansContents`: a key is only ever sent again with the contents it was first
  sent with, so no submission is refused as `idempotency_mismatch`.
* `NoUnseenOverwrite`: an accepted save of settings replaces only values the tab was
  answered, in spite of the two statements of the snapshot. It depends on their
  order: read the other way round, an update is lost.
* `PreferencesStick`, `PageInRange`: a remounted table is the table the user left; a
  table with rows never shows an empty page.
* `ChoiceIsShown`: the theme chosen, applied to the system as it is; the language
  chosen, in a tab that found one stored.
* `GateOpensOnConfirmed`: a decision equals the one of a separately written
  reference over the two measurements the invocation took itself, unless an interrupted
  newcomer has removed a lock that was in use.

*Bounds.* Two of each actor is what the races need: a lapsed lease needs an old
and a new holder, a second maker a first, a replay an original; idempotency has
three attempts so that one rolls back while another waits and a third comes after
the record expired; three resources give a source two dependents. `MaxAttempts`
and `FailureThreshold` of 2 reach the last attempt and an open circuit. Faults
and replays are capped by `MaxDisruptions` and `MaxReplays`; each fault is
followed by every behaviour of the recovery. Five instants with a two-tick minute
cover a bucket that fills and is forgotten, a grace that ends and a policy that
expires; the instance has a single limit, because with two requests a second, higher limit
could never be exceeded, so changes of the limit are in the model and not in this
instance. The stamps and touches of the catalogue bound how often rows change, and
two changes between a reader's statements are possible.

In the catalogue, three touches of resources are a source, a dependent and a change of
either; three touches of a definition are its creation, a field and a change of the field.
`Links` has no fields, `Writers` no readers and `Readers` no required field and no consumer
that writes; at most two transactions or requests are under way at once in the latter two. The theorems
of section 5 have none of these bounds. In the access run `OpenUpdates` keeps
updates from being open after the third instant once both requests were sent; with one
request under way they may be open at any instant.

In the console, one write and two visits let a write meet every fetch and every page
it can meet: a view is disturbed by one handler at a time and `owed` relates one
write to one view. Three requests are a success between two attempts, or two
timeouts; three changes of credential are a second storage event while the timer of
the first is set; tables of 6 and 11 rows have a last page of one row with pages of 5
and 10; one edit of a setting, by either side, and two saves put an update of another
administrator between any two steps of a save, and the theorem of section 5 has no
such bound; two measured sizes and volumes of 499, 500 and 2000 are on both sides of each
limit. Three invocations are one at work, one that is interrupted before it makes the lock
and one that is let in: without the condition `~usurped` the run finds the decision that
the third one spoils. `FewAtOnce` reduces what is measured as invocations are added: with
a second, the measurements that breach a threshold are alike; with a third, 250 is the
only size, measured by two of them.

*Deadlock* is not checked where identities are a finite supply that gets used up
(requests, attempts, jobs, tokens, serial numbers, instants): such an instance
ends when nothing is left to begin. The two webhook runs check it.

*Symmetry* is used for interchangeable identities and in no run with a liveness
property.

## 4. Fairness

* Webhooks: weak fairness of each worker's step, since `Run` comes round on a
  ticker in every replica, and of passing time (leases, due times, circuits).
  Operators and faults are under no obligation; faults are bounded.
* Idempotency: weak fairness of each handler; the holder of a key always commits
  or rolls back, because its transaction ends with its connection.
* Rotation: weak fairness of a running campaign only. A writer may hold its lock
  for ever, which is why the no-progress timeout matters.
* Exports: time and the expiry loop. Makers may die and nobody need download.
* Console: none. A user need not go on and an answer need not come; all its
  properties are safety.

## 5. Proofs

For all values of the constants under the named assumptions, which TLC evaluates
in the runs. The assumptions say that bounds and counters are natural numbers
(limits and the ticks of a minute positive, rows finite), and that the marker of
an absent value is not one of the values it stands beside (`RowAssumption`,
`BucketAssumption`, `BlankAssumption`, `NoneAssumption`, `LayoutAssumption`, ...): a
row, a bucket, a submission, a cached answer, a sorting. Nothing is assumed about
schedules, clocks or failures.

Of the 39 properties that the passing runs check, 35 are stated by a theorem: all that
are safety. `ContractHolds`, `IdempotencyKept` and `FormsContractKept` say that a model
implements a contract.

* `WebhookDeliveryProofs` proves `TypeCorrect`,
  `DeliveredIsAcknowledged`, `DeadLettersAreComplete`, `EventsOutlive`,
  `FencedOutcomes` and `ContractHolds`. Fencing is not
  inductive alone: a second holder of a token is excluded only if tokens of
  different workers differ and a worker's batch comes from one claim
  (`BatchShape`), rows carry a token exactly while delivering (`LeaseShape`), the
  holder's copy of the attempt count is the row's (`HolderIsCurrent`) and a
  pending success was acknowledged (`AckedOutcomes`). `IInv` is their conjunction
  with the safety invariants; there is one lemma per action. The refinement uses
  the same invariant: each step maps to a contract step or a stutter.
* `AdminIdempotencyProofs` proves `MutationAtMostOnce`, `ReplaysAreFaithful`,
  `RecordsOutliveRetries` and the types. The strengthening relates the history of
  mutations to the records: a committed record is the trace of the mutation of the
  key's present life (`RecordIsEffect`), a mutation of the present life left a
  record (`EffectIsRecorded`), and a key has a holder exactly while that attempt
  is in its transaction and no row is committed (`HolderIsClaimant`). The same
  invariant proves the refinement (`IdempotencyKept`): a commit performs a request whose
  key has no record, because its holder is the claimant (`CommitPerforms`); a lookup
  repeats the answer of a record that says the same (`LookupRepeats`), the cleanup
  forgets, and claims, conflicts, rollbacks and passing time are not seen.
* `AuditExportProofs` proves `SingleDownload`, `DownloadsAreRecorded`,
  `PayloadsMatch`, `SettledJobsStay` and the types from `ExportInv`. A second maker of
  a job is harmless because every maker works with the filter of its job
  (`MakersHaveTheFilter`), because only ready rows hold a payload
  (`PayloadsAreReady`), and because a downloaded row has left the only status that
  a maker may write to (`TakenRowsAreDone`).
* `KeyRotationProofs` proves `NoSecretIsLost`, `SecretsStayReadable`,
  `ReportsAreTrue` and the types from `RotationInv`. The argument is the order of the
  cut-over: a replica writes with the new key only when all can read it
  (`StagesInOrder`, `OldKeyWhileOld`), campaigns run only when all write with it
  (`RunsAfterCutOver`), an uncommitted write carries the key of its replica
  (`WritesFollowStages`); so a count of zero stays zero and the old key is taken away
  only after it (`ReportStaysTrue`).
* `CatalogProofs` first shows that the composed system implements the specification of
  the directory (`DirectoryRefined`, `DirectoryInvariant`).
  `RowsInv` gives `LinksStaySound`, `StoredValuesBelong` and `CatalogTypes`: rows that
  were born keep tenant, definition and source (`RowsAreNamed`), and what a provisioning or
  an edit carries between its check and its write was made for fields of its definition.
  `RequiredValuesStay` follows step by step: a clear that read the field as required
  found a value of the source, and a source, which is unlinked, is never cleared (`EditsFit`).
  `StrictFieldsFilled` adds `StrictInv`: a provisioning under way gives every strict field a
  value or has a source that does, and no clear under way has read a strict field as
  optional, because a field becomes strict only while nothing uses its definition.
  `UnchangedTagIsCurrent` rests on `ConsumerInv`: marks that were kept, or read by
  a request under way, were the stamps of their rows once (`RequestFits`,
  `CacheFits`), and stamps only grow, so a mark that equals the present one has been
  the mark all along. The theorem covers what the runs leave out, consumers that
  write while others resolve.
* `ApiClientsProofs` proves `CredentialsDieForGood` from `ClientsInv`: types, every
  client that exists has a token, grace periods belong to clients that exist, and an update
  under way was checked before the expiry of its client, which is still active
  (`UpdatesInTime`); the lock on the row makes that last.
  A token that is not accepted is neither current nor in its grace at an active,
  unexpired client, no handler grants a token that was issued before, and a commit finds
  its client unexpired or falls under the exception.
  `ClientsRefined` carries this over to the composed system
  (`CredentialsDieInTheWholeSystem`). There,
  `RevocationIsEffective` needs that a token names its owner for good (`OwnersAgree`)
  and that a late request carries a token of a dismissed client
  (`LateIsDismissed`); `LastUseOnlyAdvances` is one lemma on the collectors.
  `LimitHolds` needs `Spent(h)`, for a limit `h` that no client exceeds: what a caller
  with limit `h` would find in the bucket, with what this tick and the `i` before it
  admitted, is at most a full bucket and `i` refills. A caller with a lower limit
  finds less (`LowerLimitFindsLess`) and takes what it is admitted for
  (`TakeSpends`), a tick adds one refill; a key that expires hands out a full bucket,
  which is sound because nothing was admitted for longer than a minute, the last
  clause of `Spent`. The run has one limit; the theorem has any.
  `UsageIsNeverOvercounted` needs a sum over replicas, and how a sum changes with one
  term is an induction; so the sum is stated as the number of elements of a set with one
  element per event (`Events`), and the library's facts about finite sets give what
  recording, losing, draining and storing do to it (`EventsMembers` and the lemmas after
  it). `UsageCovered` adds to the property that the events under way are finitely many.
* `ConsoleProofs` has four invariants. `SessionInv` gives `NothingCarriedOver` and
  `PageIsOfItsCredential`: nothing is known before the shell is ready, with OIDC the
  session is the only credential, with a shared token what opens the page stands for a
  token the tab will find, and the remount timer runs while the page is closed.
  `FormsInv` gives `IntentActsOnce` and `SuccessesAreDistinct`: keys are named after
  their first request (`KeysAreNamed`), the refs hold keys of this life of the page
  none of whose requests has ended (`RefsAreOfThisLife`), the requests of the present
  intent carry the remembered key (`IntentIsRemembered`), and requests made after
  others ended have keys of their own (`LaterKeysDiffer`). `FormsContractKept` adds
  `KeyContents`: requests with one key say the same (`KeysCarryOneContent`), and a ref
  remembers with a key what its requests say; so an answer given by the key alone is one
  the contract repeats.
  `PreferencesInv` gives
  `ChoicesAreShown`. `SettingsInv` gives `AcceptedSavesWereInformed`, which is
  `NoUnseenOverwrite`: an answer, a finished read and an accepted
  save are honest (`AnswerHonest`, `ReadingHonest`, `SavesHonest`): their revision is not ahead
  of the server's, and if it is the server's, so are their values. A read that has
  the revision and not yet the values needs only the first half, which is why the
  order of the two statements matters. `SavesAnswered` says that a save was prepared
  from an answer.
* `ConsoleViewsProofs` first settles the data of the pages: `HandlersTell` goes through
  every handler and shows that each view that reports what the handler writes is
  marked, dropped or listed in `LeavesAside`, for any tenants and definitions.
  `FreshStaysCurrent` then needs `ViewsInv`: handlers go on only after the server
  applied their write and end with everything marked (`HandlersFollow`), and once the
  handler has marked a view that is owed its write, an answer under way has read it or
  the view is still invalid (`OwedIsComing`), which depends on fetches being
  cancelled on leaving (`UnmountedIsIdle`). `RevealedStaysCurrent` is the clause
  `RevealIsCurrent`. For the tables, `TablesInv` gives `PagesStayInRange` and
  `LayoutsSurviveReload`: what is stored while a table is mounted is its layout, and
  what was stored before has a page size of the menu and a sorting by columns.
  `GateHolds` is the gate of the benchmark, for any sizes, lists, pages and number of
  invocations: the 95th of 100 samples is slow exactly when more than five are, and of
  30 when more than one is (`PercentileOfSamples`, by counting samples and not by
  sorting them), so what the summary confirms of a size is what the reference asks of
  its two measurements (`CapacityOfSize`). While no lock was taken away (`UsurpedStays`:
  once it was, that stays so), who measures holds the lock (`LockIsHeld`), so
  the files of its sizes are its own (`OwnFiles`), and a size that a later invocation
  adds was not measured by who decided (`DecidedRight`).

Only model-checked:

* liveness (`EveryDeliverySettles`, `EveryAttemptAnswered`, `CampaignEnds`,
  `EveryJobSettles`), whose proofs need fairness and ENABLED, out of the prover's reach;
* the four findings, which are violations.

Proved and in no run: the types of the webhook, idempotency, export, rotation, access and
catalogue models, `StoredUntilExpired`, `FormsKeepContract`, and two invariants that the
contracts a run checks contain: `DeliveredWasAcked` (a delivery is completed only when it
was acknowledged) and `ReplayIsOriginal` (an answer that is repeated was performed for
the same key and contents).

## 6. Findings

* `rotation_targets`: the campaign rewraps `tenant_resource_values` only; the
  conditions that `src/docs/developers/design/aes-key-rewrap.md:244` gives for
  removing the old key hold while webhook targets are still sealed with it.
* `resolve_cleared`: clearing an override touches no timestamp, so the ETag stays
  although the effective value changed, against
  `src/docs/developers/03-contratos-http.adoc:171`.
* `expired_returns`: `updateAPIClient` checks the expiry at
  `httpapi/api_client_lifecycle.go:51` and commits at `:79`, with an update that asks for an
  active client only (`store/queries/resources.sql:221`). A client that expires in between is
  refused and, after the commit, accepted again, against
  `src/docs/developers/design/api-client-policy.md:274`.
* `settings_overwrite`: the draft is copied at the first edit and kept when the
  settings are fetched again, and a save takes the revision of the newer answer: a
  concurrent change in the section is replaced without ever being displayed, against
  `src/e2e/flows/operational-settings-management.md:28`.

## 7. Divergences without a run

Noticed while modelling; the models do what the code does.

* `webhook/worker.go:120` decides about the circuit from the count copied at the
  claim, so a batch with many failures may open it later than
  `src/docs/runbooks/webhook-delivery.md:8` suggests.
* `service/resource_update.go:102`: whether a field is required is read without a lock on
  the field, before its value is deleted (`:118`); a field that `updateField` makes required
  in between loses its value. The exception `ReadAsOptional` of `RequiredNeverLost`.
* `src/scripts/benchmark-scale.sh:29` sets the trap before `:31` makes the lock directory: an
  invocation interrupted in between removes the lock of the one at work (`:26`), and a third
  one may write into the same output directory. The condition `~usurped` of
  `GateOpensOnConfirmed`.
* `service/provision.go:201`: an empty override of a required field is accepted
  when the source has a value, and then hides it.
* `httpapi/consumer.go:207,219`: whether a field is secret is read before the
  transaction that writes the value.
* `rewrap/reporter.go:67`: a report sent again has the same key and a new
  `occurred_at`.
* `httpapi/api_client_lifecycle.go:129`: an expired client is told to rotate, but
  rotation keeps the expiry that has passed.
* Views left unmarked (`LeftAside`): removing a definition from its page marks only
  tenants' resources (`web/routes/definition-detail/-components/page.tsx:182`); edits
  in the list of definitions do not mark the detail; a consumed export keeps its
  status; the counters of health and usage wait for their poll.
* `web/routes/api-clients/-components/page.tsx:265`: the expiry of a new client comes
  from the clock, so a retry has another key, unlike
  `src/docs/runbooks/admin-idempotency.md:12`; `:252`: editing a client with its name
  unchanged is refused as a duplicate; the token of a rotation and that of a creation
  share one place, and the later answer replaces the earlier.
* `web/components/app-shell.tsx:107`: a 401 for a request of the old token clears the
  new one; `:141`: any storage event closes and remounts the page, a preference
  changed in another tab too; `web/lib/api.ts:191`: a 401 of a download does not
  reach the shell.
* `web/components/app-shell.tsx:95`: the default language counts only if the settings
  answer before the configuration of the sign-in, because the provider stores its own
  on the first mount; it may also undo a language picked meanwhile.
* `web/routes/settings/-components/page.tsx:41`: what is typed in a section while its
  save is in flight is replaced by the answer.
* Dialogs can be closed while their request is in flight, and its success then
  closes whatever is open under that name; creating or deleting a tenant takes the
  user along after they left the page. Three handlers of the tenant page hide
  revealed values before they send, so a reveal asked in between stays.
* `src/web/scripts/summarize-scale.mjs:13` takes every raw file of the directory, so
  a reused one brings sizes of earlier invocations into the decision.

## 8. Not modelled

Telemetry, health probes, static files, the migration runner, administrative reads
and listings: they change no state a property is about. The server side of
administrator sessions, audit retention and the change feed: their hazards are
listed, with the line where they bite. In the console, rendering, wording and layout,
the widgets and the linter of its source tree. The planning prototype, chart and
delivery scripts. Cryptography, encodings, URL checks and templates are abstracted
to what they decide. Clock differences matter for leases (modelled by passing time in
any order) and are left out for API clients, where the server's clock and the
database's are one.

Bounds that hide something: one tab is followed, other tabs only write what is
stored; a cached view sees one write per behaviour; the pages of the console have
one tenant and one definition, so a view of a second tenant is only ever an
unrelated view.

## 9. Plan

Done, in this order: webhook delivery with its contract and proofs; idempotency
with its proofs; key rotation; exports; directory and catalogue with resolution;
consumer access with the proofs about credentials; the console, runtime settings and
the scale gate.

The proofs: webhook delivery, idempotency, credentials and settings; then exports,
rotation, directory and catalogue, consumer access, session, forms, preferences,
cached views and tables; last the usage counts, the scale gate and the idempotency
contract, on the server and seen from the forms.

Next:

1. A strengthening of the delivery contract by what replays and retention may do.
2. The forms composed with `AdminIdempotency` itself, so that expiry and cleanup of a
   record meet a retry of its form; today they meet through the contract only.
3. The server side of administrator sessions, and the change feed.
