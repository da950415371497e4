# A TLA+ verification of trivy-viewer

trivy-viewer collects the reports that trivy-operator leaves in Kubernetes
clusters (`VulnerabilityReport`, `SbomReport`) and shows them. One binary runs in
two modes that share one SQLite file: the *scraper* watches the clusters and
writes the `reports` table, the *server* answers the REST API and serves the web
UI. This directory models the parts of the program whose correctness depends on
the order in which things happen – the processes and their goroutines on one side,
the pages of the web UI and their requests on the other –, checks them with TLC on
small instances and proves the main safety properties with TLAPS for every instance.

Paths below are relative to `src/`. Contents:

1. [Inventory](#1-inventory) – components, state, operations, interaction, hazards
2. [Plan](#2-plan) – modules, order, abstract specifications, runs, theorems
3. [The modules](#3-the-modules) – how state and actions correspond to the code
4. [The runs](#4-the-runs) – what each shows, bounds, fairness
5. [The proofs](#5-the-proofs) – assumptions, invariants, arguments
6. [Findings](#6-findings)
7. [Limits](#7-limits) – only model-checked, not modelled

To run everything: `tlc -config <Name>.cfg MC<Module>.tla` for each run in
section 4, and `tlapm <Module>Proofs.tla` for each module in section 5.

## 1. Inventory

    watched clusters        +------------------- scraper process ---------------------+
     reports  --informers-->| watcher.Watcher --handler--> channel --> 4 workers --+  |
                            |    ^ Run / cancel                                    |  |
    central cluster         | hub.Manager  --OnPurge--------------------------+    |  |
     Secrets  --informer--->|   active map, gauge                             |    |  |
        ^                   +-------------------------------------------------|----|--+
        | create, get,                                                        v    v
        | update, delete    +------------------- server process --------+   SQLite file
        +-------------------| api.Server: clusters, reports, search,    |<->  reports
         web UI <---HTTP--->| notes, admin logs; middleware             |     api_logs
                            +-------------------------------------------+     schema_migrations

| Component | State | Operations | Interacts with |
|---|---|---|---|
| Event pipeline, `internal/scraper` | bounded channel (1024), the event each of 4 workers holds, whether it returned | `handler` (blocking send or ctx done), `worker`, `process`, `wait` | callbacks of the watchers; store |
| Report watcher, `internal/watcher` | an informer cache per (namespace, report type) | add, update, delete callbacks, ten-minute resync, initial list; `Run` with sequential namespaces; `Normalize` | cluster API server; handler |
| Cluster manager, `internal/hub` | `active` map Secret key -> (cluster, version, cancel), Secret informer cache, gauge, watcher goroutines | `upsert`, `remove`, `stopAll`, `reportCount`, `ParseClusterSecret`, `BuildClients` | central API server; watchers; `OnPurge` -> store |
| Start and end, `cmd/trivy-viewer`, `internal/health`, `internal/storage` | stage of `run`, readiness flag, health goroutine, schema tables and recorded version | `run`, `runScraper`, `runServer`, `Open`, `migrate`, `Serve`, SIGTERM, exit | the shared file and SQLite's write lock |
| Report store, `internal/storage` | `reports` rows with timestamps and notes | `UpsertReport`, `DeleteReport`, `DeleteByCluster`, `UpdateNotes`, `ListReports`, searches | workers, purge, API handlers |
| Registration API, `internal/api/clusters.go` | none of its own: the Secrets | register (create, get, update), list, delete matching | central API server, hence the manager |
| Report, search, dashboard API, `internal/api` | none | queries, notes | store |
| HTTP server, `internal/api/server.go` | listener, middleware | `Run`, shutdown, request logging | health readiness; audit log |
| Audit log, `internal/storage/api_logs.go` | `api_logs`, `api_log_cleanups` | insert after the response, list, statistics, cleanup | middleware, admin page |
| Configuration, `internal/config` | none | defaults, `Validate` | everything, once |
| Data model, `internal/model` | none | JSON shapes | store, API |
| Metrics, `internal/metrics` | gauge of watched clusters; counters | set, increment | manager, pipeline, HTTP |
| Web UI, `web/src` | filters and query (in the URL), offset, what the last answer was, requests under way, popups, drafts, timers | fetch and apply, page, filter, search, suggest, register and delete clusters, save notes, poll | REST API |
| Alert and token pages, `web/src` | list, form or dialog, requests under way, a token that is shown once | list, create, edit, delete, preview | a service that this server does not have: it answers 501 or constants |
| Kubernetes clients, `internal/kube`, `internal/hub/client_builder.go` | none | build clients from kubeconfig, token or certificate | manager, start |
| Logging, build information, embedded assets | none | - | - |
| Deployment, `charts/` | - | one scraper (`Recreate`), several servers, one volume | decides what runs concurrently |

### What is hard, and what makes each component correct

**Event pipeline.** Informer callbacks block on a full channel; workers take
events of one report in order but commit them in any order; a select between a
done context and a ready channel is random; an error is logged and the event is
gone; what is in memory at shutdown is gone. Correct means: until an overlap or a
loss happens the table follows the informer in order; the resync repairs
everything that still exists; nobody stays blocked at shutdown.

**Cluster manager.** Callbacks run one at a time, but release the mutex between
deciding, attaching, reporting the count and starting the goroutine, while
`stopAll` runs on another goroutine. Correct means: each Secret has at most one
live watcher and that is the one in the map; a replaced or removed watcher is
cancelled; the gauge settles on the size of the map; a registration ends up
watched at its version; a removed one ends up unwatched; nothing outlives `Run`.

**Hub pull** (manager, watchers, pipeline, store together). `remove` cancels a
watcher and purges without waiting for it, nor does the watcher's `Run` wait for its
informers. Correct means: the table only has rows of clusters somebody watches.

**Start and migration.** Two processes migrate one fresh file; a process is
killed between a migration's SQL and its record; a failing start must leave and
be restarted, though `run` waits for the health server. Correct means: tables and
recorded version agree; ready implies migrated; the race costs at most a restart;
no process hangs on its way out.

**Report store and its readers.** Two statements for one page, timestamps taken
before the statement waits for the lock.

**Notes.** A user's notes share a row with a report that the scraper rewrites at any
time and that trivy-operator deletes and recreates; a save carries no version; the
page applies answers in the order they come, also those of a report it no longer
shows. Correct means: the scraper never changes the notes of a row that stays; a page
shows its own report and the notes that are stored; a save replaces the notes its user
has seen – each with the exceptions the code really has, named one by one.

**Registration API.** Create, then get and update, against concurrent requests and
users; delete several Secrets with a failure in the middle; responses lost after the
call took effect. Correct means: nothing is overwritten unseen, a delete that answers
with success is complete, and nothing fails without an outside cause.

**Audit log.** The log grows with every request, also those of its own page, and is
shortened by anybody's cleanup, while a page of it is an offset and two statements.
Correct means: the page shows the answer to its offset and filters; paging does not
lead where there is nothing, nor to a place from where there is no way back.

**Web UI.** No page cancels its requests, but for one: answers are applied in the order
they arrive, to whatever the page shows by then, and one that fails leaves what was
there, or nothing. Buttons stay enabled while a request is under way; the handler of
its answer closes the form, the dialog or the step that is open by then. Correct means:
a page that waits for nothing shows what it asked for; what a user is entering is not
taken away by the answer to something else; what is offered belongs to what is shown;
a token that is shown once is shown; polling comes right again – each with the
exceptions the code really has, named one by one.

The complete list of hazards, each at its line and with the properties that cover
it, is in `PROJECT.json`. Section 7 says why some have none.

## 2. Plan

| Step | Module | What | Status |
|---|---|---|---|
| 1 | `EventPipeline` | handler, channel, workers, cancellation, restart | done, proved |
| 2 | `EventChannel` | abstract specification of 1: events under way, in any order, or lost | done; 1 implements it (theorem and run) |
| 3 | `ClusterManager` | Secrets, active map, watcher goroutines, stopAll | done, proved |
| 4 | `HubPull` | 3 composed with 2, purge | done, proved; implements 3 (theorem) |
| 5 | `Startup`, `MigratedFile` | migration race, readiness, exit, crash; abstract: one file, migrated in order | done, proved; implements it (theorem) |
| 6 | `Registration` | concurrent register and delete requests against the API server, split at every call | done, proved |
| 7 | `ReportNotes` | the page of a report, its GET and PUT requests, the rows they share with scraper, purge and other users | done, proved |
| 8 | `AuditPage` | the audit log, its cleanup, and the page that filters and pages through it | done, proved |
| 9 | `ReportsPage`, `SearchPage`, `DashboardView` | the pages that ask and show | done, proved |
| 10 | `AlertsPage`, `TokensPage`, `ClustersPage` | the pages with lists, forms, dialogs and a wizard | done, proved |
| 11 | `AlertPreview`, `Viewing` | the one part that cancels its requests; abstract: what is shown answers the present question | done; implements it (run, safety also theorem) |
| 12 | `App` | the sum of 8 to 11: one page is mounted | done, proved |
| 13 | `ReportReaders` | timestamps and two-statement readers of the report store | open, see 7 |
| 14 | `WatcherRun` | namespaces synced one after the other; readiness against what is served | open, see 7 |

What would come next, beside 13 and 14: the local watcher in `HubPull`, which shares the
pipeline but not the manager, and with it the theorem that a purge only ever removes
rows of a name some Secret registered; and `Registration` with `ClusterManager`: a
registration that was answered with success and is left alone ends up watched (the
manager's API server already allows every write, so its properties hold with the
requests as writers).

## 3. The modules

### EventPipeline – `internal/scraper/scraper.go`, `internal/watcher/watcher.go`

| Variable | Code |
|---|---|
| `resource` | report objects at the clusters (external) |
| `seen` | the informers' caches |
| `callback` | the event inside a handler call, one per informer: an informer runs its callbacks one at a time |
| `queue` | `pipeline.events` |
| `holding`, `exited` | the worker goroutines |
| `table` | the rows of `reports` |
| `phase` | whether the context is done, whether there is a process |
| `disturbed` | history variable: keys whose last event was overtaken or lost |

| Action | Code |
|---|---|
| `Notify`, `Resync` | `AddFunc`, `UpdateFunc`, `DeleteFunc` (`watcher.go`), with `emitUpsert`, `emitDelete`; a malformed object sends nothing |
| `Send`, `Abandon` | the two cases of the select in `handler` |
| `Take`, `WorkerExits` | the two cases of the select in `worker` |
| `TakeAfterCancel` | the channel case chosen although the context is done; the store call fails |
| `Store`, `StoreFails` | `process`, both event types, with and without an error |
| `Cancel`, `ProcessEnds`, `Start` | SIGTERM; the end of the process at any point, `p.wait()` included; the next pod |

An event is its key and the row it leaves (`NoRow` for a delete). A report's
content is a model value; some contents are `Malformed` (`Normalize` rejects them).
`UpsertReport` and `DeleteReport` are one statement each, hence atomic.

### EventChannel – the abstract specification

A set of events under way and a table. An event may be stored or lost at any time,
in any order; equal events may be stored together or apart; the end of the process
loses all of them; the table changes by nothing else. `EventPipeline` implements it
with `flight` mapped to the events in handler calls, in the channel and at workers.
`HubPull` uses its actions literally, so what is shown of the composition holds of
the pipeline as it is, without dragging its channel and workers along.

### ClusterManager – `internal/hub/manager.go`, `secret.go`, `types.go`

| Variable | Code |
|---|---|
| `secret`, `revision`, `gone` | the API server's Secrets, its last resource version, the deletions not yet delivered (external) |
| `cache` | the Secret informer's cache |
| `task` | the callback the dispatch goroutine is in, and how far: after each place where the mutex is released or a call leaves the manager |
| `active` | `Manager.active` |
| `uncancelled` | watches whose own cancel function was never called |
| `watchers` | goroutines running `Watcher.Run` |
| `gauge` | `metrics` watched-clusters gauge |

`upsert` is `UpsertCallback` or `ResyncCallback` (first section of the mutex), then
`SkipSecret` (does not parse, or no client) or `Attach` (second section), then
`ReportCount`, then `Spawn`. `remove` is `RemoveCallback`, `ReportCount`, `Purge`.
`StopAll` may come between any two of them. Secrets may be unparsable, may change
their cluster name, and two may carry the same. A deletion followed by a new Secret
in a gap of the watch is delivered as an update, as client-go does.

### HubPull – the composition

Extends `ClusterManager`, with `EventChannel` between its watchers and the table.
One report stands for the reports of a cluster: purge and watchers treat them all
alike, and it comes and goes at its cluster as it likes: any callback of an informer
may be that of an object that is there, and that of a deletion if the object is in its
cache (`seenBy`). `factory.Start` runs the informers in goroutines of their own, and
`Run` returns on `ctx.Done()` without `factory.Shutdown`; so `informers` is apart from
`watchers`: they start with `SpawnStep`, `WatcherStops` (the return of `Run`) does not
touch them, and they end on their own once the watch is cancelled (`InformersEnd`),
at any time, also after the purge. `Emit` is a callback of such an informer, be its
watch cancelled and its `Run` returned or not; the handler takes the pipeline's context,
not the watch's, so it sends. `PurgeSucceeds` and `PurgeFails` are `OnPurge`.
`leftover` is a history variable: the clusters for which one of four things
happened – a purge failed; events or informers of the cluster were still under way
at its purge; a Secret changed its cluster name; an earlier process left rows.

### Startup – `cmd/trivy-viewer`, `internal/storage/database.go`, `migrations.go`, `internal/health`

Each process has a place (`pc`); the seven places of `storage.Open` are the
statements it runs. SQLite's one write lock is `writer`: a transaction takes it
with its first write and keeps it until commit or rollback. `CREATE ... IF NOT
EXISTS` writes only when the table is missing. `StatementFails` is the busy timeout
or any error, `OpeningCancelled` a statement on a done context. The tail of `run` is
`Stop`, `HealthStops`, `Exit`: `run` waits for the health goroutine, which ends with
the context (or has ended at once because the port was taken).

### MigratedFile – the abstract specification

What somebody sees who only looks at the recorded version and at the processes that
report ready: the version goes up by one, never back and never beyond the last, and a
process serves after the last. `Startup` implements it with `version` mapped to
`recorded` and `serving` to the processes that are `ready`; reads, locks, refused
records, rollbacks and crashes are stutters.

### Registration – `internal/api/clusters.go`

| Variable | Code |
|---|---|
| `secret`, `revision` | the Secrets in the API server, its last resource version (external) |
| `at` | the API call a handler makes next, or the answer it has given |
| `asked` | the cluster name of the request |
| `read` | `existing` of `registerCluster` |
| `left` | the part of `secrets.Items` that `deleteRegisteredCluster` still has to delete |
| `interfered` | history variable: handlers that met a failing call, or whose Secret somebody else wrote or deleted |
| `standing` | history variable: the Secrets that have registered the name ever since the delete was called |

`registerCluster` is `Create` or `CreateRefused`, then `Get`, then `Update` or
`UpdateRefused`; any error of Create leads to Get, as in the code.
`deleteRegisteredCluster` is `List`, then `Delete` for each match or `DeleteRefused`.
Every call may fail without effect (`CallFails`) or take effect and lose its response
(`Written`), and a handler may end anywhere (`Leave`: the answer is out, or the
process ends). Users write and delete the same Secrets by hand, from the template of
`manifests.go` or otherwise; a Secret without the label or the name is `Unlisted`.
Requests that are refused with 400 or 412 make no call and are left out.

### ReportNotes – `web/src/components/DetailView.tsx`, `Notes.tsx`, `internal/storage/report_store.go`

| Variable | Code |
|---|---|
| `row` | the notes of each row of `reports`, or that there is no row |
| `page` | the report in the address, hence in the header of `DetailView` |
| `detail`, `loading` | the state of `DetailView` |
| `draft` | `draft` of `Notes` while `editing`, else `Closed` |
| `load` | the GET requests of the mounted `DetailView`, each with the answer it has got |
| `save` | the PUT requests; each with the values `handleSave` closed over, whether it is stored, and whether the components that wait for it (`view`, `box`) are still mounted |
| `overlapped`, `stale`, `fresh` | history: the page asked again while it waited; the row changed otherwise since the page's GET; nothing has come between a save and what its user saw |

One tab of one user; other tabs and users are `OthersSave`. A request is sent
(`Open`, `PressSave`), served (`ServeLoad`, `ServeSave`) and its answer applied
(`ApplyLoad`, `SaveSucceeds`) in three steps; it may fail before or after it is served
(`LoadFails`, `SaveRefused`, `LoseSave`). `Open` is the effect of `DetailView`: it runs
for another report (React Router keeps the component when only the parameters change)
and again for the same one, since `DetailPage` makes a new `report` object whenever it
is rendered. `Render` is what the three-way conditional of `DetailView` does to
`Notes`: it keeps the component, unmounts it with its draft, or makes a new one.
`SaveSucceeds` puts back the detail that `handleNotesSaved` closed over, whichever
report the page shows by then. `Upsert` is the scraper's statement, whose conflict
clause does not name the notes.

### App – `web/src/App.tsx` and the pages

`App` is the sum of eight modules, one for each page (and one for a part of a page that
has a life of its own). The routes mount one page at a time and a page that is mounted
again starts anew, so a behaviour of `App` is one mount of one page, `page`, over any
data; the other modules' variables rest at one initial value. The exception is
`ReportsPage`: the layout stays mounted from page to page, with the cluster that it was
told last, the namespaces it has and the requests for them. A behaviour of that module
starts with the application, at any URL, and has any number of mounts: `ComeBack` leaves
the page and mounts it again by any URL, `GoTo` is the browser's back and forward within
a mount. The modules share their way of looking at a page:

- a *question* is the state an effect depends on; what is shown is known by the question
  that it answers, or by a sentinel when it answers none;
- requests under way are a sequence, in the order they were sent; any of them may be
  served, answered, refused or lost next;
- the action for an answer does what the code after the `await` or in `then` does, with
  what the closure has captured (the record of the request) and with the page as it is
  by then (the primed variables);
- history variables are named for what they remember: `...Crossed`, asked again before
  the answer to another question was there; `...Missed`, the data changed behind the
  page, or an answer was lost; `hasty...`, opened while a request of the same kind was
  under way; `own`, the form a request was sent from is still open.

| Module | Code | Question | What it keeps besides |
|---|---|---|---|
| `AuditPage` | `AdminPage.tsx`, `internal/storage/api_logs.go`, the middleware in `server.go` | offset and filter | the log as the number of rows each filter matches; the two statements of a page (`Count`, `LogsArrive`); the cleanup with the `fetchLogs` it has captured; popup and dialog; the error that list and statistics share |
| `ReportsPage` | `ReportsPage.tsx`, `ReportsView.tsx`, `FilterPopup.tsx`, `Layout.tsx` | type, cluster, namespace | the popup, which keeps its value when it is switched to another filter; the namespaces on offer, fetched by the layout when the cluster it is told is another one than before, on whichever mount |
| `SearchPage` | `VulnSearchPage.tsx`, `ComponentSearchPage.tsx` | the query of the URL | text, and whether its error is shown; debounced suggestions, the selected one, whether the list is open (it stays open when a name is picked that `submitSearch` refuses) |
| `DashboardView` | `DashboardView.tsx` | range and cluster | countdown, automatic refresh, and whether a refresh resets the countdown when it is answered |
| `AlertsPage` | `AlertsPage.tsx` | (the list) | the form and what it is for; saves and deletions under way |
| `TokensPage` | `AuthPage.tsx` | (the list) | both dialogs, a created token (`unseen` until it was on display), a creation and deletions under way |
| `ClustersPage` | `ClustersPage.tsx` | (the list) | polls with the answers of both endpoints; the wizard's step and name; registrations under way; the dialog |
| `AlertPreview` | `PreviewSection` in `AlertsPage.tsx` | the matchers of the form | the timer of 350 ms, requests with their `cancelled` flag, `loading` |

The rows of `AuditPage` are inserted and deleted by everybody: `Insert`,
`OthersCleanup`. `DeleteStatement` is the cleanup's first statement, `CleanupSucceeds`
its end with its history row, `CleanupFails` a failure before, between or after the two.
`NoneFound` is the branch of the page that shows neither table nor paging. In
`ClustersPage` what `Registration` and the report store keep is reduced to two sets of
names that may change at any time: a registration of a name that is there already
updates its Secret in place and answers 200 like the first (`clusters.go:117-135`), so it
takes its wizard back to the start as well. The services behind `AlertsPage` and `TokensPage` are
external: they do what `web/src/api.ts` expects of them, atomically, and may refuse.

### Viewing – the abstract specification

`asked`, the present question, and `shown`, the question that what is shown answers.
A new question may leave or clear what is shown; what comes to be shown answers the
present question, or is nothing; and what is outdated does not stay (fairness).
`AlertPreview` implements it, since it cancels what it asked before. The other pages do
not, and `ListsAreTrue` says for each of them what holds instead: the `...Crossed`
exceptions are exactly where they fail to implement `Viewing`. `ViewsUnlessCrossed` is
that half turned into a refinement: for the audit log, the reports and their namespaces,
the searches and the dashboard, every step that changes the question or what is shown is
a step of `Viewing` unless the page's own exception is on record (`LogIsViewing`,
`ReportsAreViewing`, `SearchIsViewing`, `TrendsAreViewing`). `DetailIsViewing` says the
same of the page of a report in `ReportNotes`, whose question is the report in its header.

## 4. The runs

| Run | Config | Shows |
|---|---|---|
| `pipeline_safety` | `EventPipeline_safety.cfg` | types and capacity; a settled row is what the informer has seen unless an overlap or a loss is on record; the inductive invariant behind it; the pipeline implements `EventChannel` |
| `pipeline_live` | `EventPipeline_live.cfg` | existing reports appear, deleted ones vanish unless the delete was lost or overtaken, workers leave, blocked callbacks return |
| `pipeline_restart` | `EventPipeline_restart.cfg` | expected violation, see 6 |
| `manager` | `ClusterManager.cfg` | no leaked context, the gauge, registered is watched, unregistered is not, shutdown ends every watcher |
| `hub` | `HubPull.cfg` | a row without a watcher has one of the four causes above |
| `hub_purge` | `HubPull_purge.cfg` | expected violation, see 6 |
| `registration` | `Registration.cfg` | an update in place overwrites nothing its request has not read; an answered delete leaves no Secret that registered the name all along; a request only fails for an outside cause |
| `notes` | `ReportNotes.cfg` | the scraper never changes the notes of a row that stays; the page shows its report and its stored notes, a save replaces what was seen, unless an overlap, another writer or a lost answer is on record |
| `startup` | `Startup.cfg` | schema and version agree, ready is migrated, every process ends up serving, none hangs |
| `app` | `App.cfg` | every page but the preview: lists are those of their questions, drafts survive answers to others, suggestions and namespaces are on offer, tokens are seen, paging leads past the end only after a deletion; what is newly shown answers the present question (`ViewsUnlessCrossed`); each with its named exceptions |
| `app_live` | `App_live.cfg` | the polled list of clusters comes right again and again; the preview implements `Viewing` and does not evaluate for ever |
| `app_none` | `App_none.cfg` | expected violation, see 6 |

### Bounds, and why they are enough

- **Pipeline.** `BufferSize` is 2 (1 in the liveness runs) for 1024, two workers for
  four, two keys for the reports of a cluster. The code distinguishes an empty,
  a partly filled and a full channel, and an idle and a busy worker; an overlap
  needs two workers and two events of one key, and with two keys another report's
  event can stand between them. The safety run gives each report one storable and one
  malformed content; the liveness run has two contents of one report, so that an
  older version can overwrite a newer one. The theorems hold for every value.
- **Manager.** `MaxRevision = 2` bounds the writes to all Secrets together: one
  Secret written twice (a restart of its watcher, a rename, a break), or two written
  once (the same name or two). Deletions, resyncs, cancellations and restarts are
  unbounded.
- **Hub.** The same, with any number of events under way and of informers that outlive
  their watches. `hub_purge` needs one
  Secret, one write and one deletion only.
- **Registration.** Two requests, two clusters, a third Secret that may register
  either, any Secrets to begin with. `MaxRevision = 2` writes: one that comes between
  a request's calls and the request's own. Deletes, failures and requests are
  unbounded.
- **Notes.** Two reports of one cluster, so that a page can change from one to the
  other and a purge takes both; notes that are empty or not; two GET and two PUT
  requests, `MaxPending = 3` of them under way: two answers of one kind can pass one
  another, and an answer of the other kind them both. Openings, edits, saves, upserts
  and deletions are unbounded.
- **Startup.** `LastVersion = 1` as in the code; `MaxFaults = 3` crashes, signals,
  lock timeouts or failing calls at any place, enough to hit both processes and one of
  them twice. The theorems hold for any number of processes and migrations.
- **App.** Two requests under way on a page, of any kind (of the clusters' page two polls
  and a write; three previews): what is checked is what one answer does to the page while
  another one is still to come. Actions are unbounded in number but for the rows of the
  log (`MaxRows = 2`, of pages of one row: a first page, a last one, and past the end).
  Two values where the code compares values (texts, rules, tokens, ranges, report types),
  one where it only distinguishes set from unset (a filter of the log, a cluster). The one
  cluster on offer has no namespace and a namespace of none exists: the filter can be
  wrong. The URLs (`UrlFilters`) ask for any of these, a namespace without its cluster
  included, in one of the two lists; the tab leads to the other. Mounts are unbounded. One
  text has one suggestion and another two: a selected place can be past the end.
  `RefreshInterval = 3` for 30. The theorems hold for every value.
- Symmetry is used in safety runs only, and only on sets whose members the
  specification treats alike.

Deadlock is checked except in two runs. In `startup` the model rests once the faults are
used up and both processes serve; `StartupConverges` shows it rests nowhere else. In
`hub_purge`, whose process is not restarted, it rests once the hub was stopped, its
watchers and informers are gone and the API server's writes are used up.

### Fairness, and why the code justifies it

- Goroutines are scheduled and a select with a ready case returns: weak fairness on
  workers, dispatch, watchers, the informers of a cancelled watch, and the steps of a
  process.
- Blocked senders and receivers of a Go channel are served in FIFO order: strong
  fairness on `Send`. A select that is entered again and again with both cases ready
  picks each at some point: strong fairness on `WorkerExits`.
- The informer delivers every change and resyncs every cached key. Callbacks of one
  informer exclude one another, so each key's callback is enabled again and again,
  not all the time: strong fairness.
- Store errors and failing clients are transient: strong fairness on a store call
  for each key that succeeds and on a successful `Attach`. Without it nothing can be
  promised about a table that cannot be written.
- A waiting SQLite statement gets the lock at some point, because the busy handler
  polls for it: strong fairness on the statements that write.
- Deployments restart their pods: weak fairness on `Start`.
- The interval of the clusters' page ticks (`PollAgain`), its oldest poll is answered
  (`ServePoll`, `PollArrives`, weak fairness: a request ends, with an error at the latest
  by a timeout of the browser), and again and again both endpoints answer with 200
  (`PollAnswered`, strong fairness: errors are transient). The timer of the preview fires
  and its requests end (weak fairness). No user has to do anything.
- Nothing forces a cluster to change, a Secret to be written, a signal or a crash.

`ExistingReportsAppear`, `DeletedReportsVanish`, `RegisteredIsWatched` and the like
have the form "if the outside finally stays as it is, then finally ...": while a
report or a Secret keeps changing, the program owes it no particular moment.

## 5. The proofs

Each module has its assumption on the constants (`PipelineAssumption`,
`ManagerAssumption`, `HubAssumption`, `RegistrationAssumption`, `StartupAssumption`,
`NotesAssumption` with `FreeAssumption`, and one for each page: `AuditAssumption` with
`UnaskedAssumption`, `AlertAssumption`, `TokenAssumption`, `ClusterAssumption`,
`ReportsAssumption`, `SearchAssumption`, `DashboardAssumption`, `PreviewAssumption`,
`RoutesAssumption`):
a channel of positive capacity, a Secret for every cluster name, sentinels outside
the sets they are sentinels of, finitely many Secrets for the manager's count.
TLC evaluates them in every run. Nothing else is assumed.

| Theorem | Statement | Argument |
|---|---|---|
| `EventPipelineProofs!TypeCorrect` | `[]TypeOK` | one lemma per action; that a handler call belongs to the key's informer is part of it |
| `PipelineInOrder`, `SettledRowsAreSeen` | `[]InOrderInv`, `[]SettledRowIsSeen` | below |
| `PipelineImplementsChannel` | `Spec => Channel!Spec` | each action maps to `Send`, `Apply`, `Lose`, `LoseAll` or a stutter of the abstract channel |
| `RightRowsStayRight`, `OrphansStay` | `RightRowsStay`, `OrphanedRowsStay`, action properties | below |
| `HandlersAlwaysHaveAWayOut` | `[]HandlersHaveAWayOut` | inductive with `TypeOK`: nobody leaves before the context is done, and the end of a process ends its handler calls |
| `ClusterManagerProofs!ManagerTypeCorrect` | `[]TypeOK` | one lemma per action; the counts stay within the number of Secrets |
| `WatchersNeverLeak` | `[]NoLeakedWatcher` | inductive together with `TypeOK` |
| `GaugeSettles` | `[]GaugeIsActiveCount` | strengthened to `GaugeInv`: while a count is on its way it is the right one |
| `LiveWatchersAreThoseOfEntries`, `UpToDateIsWatched`, `GoneAreRemoved` | `[]LiveWatchersAreEntries`, `[]SameRevisionIsWatched`, `[]GoneIsRemoved` | from `EntriesInv`, below |
| `WatchedStays` | `WatchedStaysWatched`, an action property | from the same invariant |
| `HubPullProofs!HubImplementsManager` | `HubSpec => Spec` | every step of the composition is a step of the manager or leaves its variables alone; so the manager's theorems hold of the composition |
| `HubTypeCorrect` | `[]HubTypeOK` | one lemma per action; what is sent carries the cluster's name of its watch, and a cache ends with its informer, not with the watcher |
| `RowsAlwaysHaveWatcher` | `[]RowsHaveWatcher` | below |
| `RowsAlwaysHaveSecret` | `[]RowsHaveSecret` | the theorem above with the manager's `GoneAreRemoved`, which holds here by `HubImplementsManager` |
| `ForgottenClustersStay` | `ForgottenStaysForgotten`, an action property | below |
| `RegistrationProofs!RegistrationTypeCorrect`, `DeletedIsAlwaysGone`, `FailuresHaveCauses` | `[]TypeOK`, `[]DeletedIsGone`, `[]FailureHasCause` | below |
| `UpdatesAreNeverLost` | `NoLostUpdate`, an action property | from the same invariant |
| `StartupProofs!StartupTypeCorrect`, `SchemaAlwaysWhole`, `ReadyAlwaysMigrated` | `[]TypeOK`, `[]SchemaWhole`, `[]ReadyIsMigrated` | below |
| `LockHolderProceeds` | `[]LockInv` | inductive with the invariant behind these: only the holder records a version |
| `StartupImplementsMigratedFile` | `Spec => Volume!Spec` | each action maps to `Migrate` (`Commit`), `Serve` (`NextMigration` at the end of the loop), `Restart` (`Start`) or a stutter |
| `ReportNotesProofs!NotesTypeCorrect`, `PagesShowTheirReport`, `PagesShowStoredNotes` | `[]TypeOK`, `[]ShowsItsReport`, `[]ShowsStoredNotes` | below |
| `NotesSurviveTheScraper`, `SavesReplaceWhatWasSeen` | `NotesOutliveUpserts`, `OverwritesAreSeen`, action properties | from the same invariant |
| `PagesAreViewing` | `DetailIsViewing`, `Viewing` unless the page asked again | `AskedOnce`, after the step |
| `AppProofs!AppInvariant` | `[]AppInv` | the conjunction of the pages' inductive invariants, one lemma per action; `AdminPagesProofs` has those of the four pages that administrate |
| `AppTypeCorrect`, `AppListsAreTrue`, `AppPicksAreOnOffer`, `AppPastTheEnd`, `AppEvaluationEnds` | the invariants `AppTypeOK`, `ListsAreTrue`, `PicksAreOnOffer`, `PastTheEndOnlyAfterCleanup`, `EvaluationEnds` | below |
| `AppDraftsSurvive`, `AppTokensAreSeen` | `DraftsSurvive`, `TokensAreSeen`, action properties | from the same invariants |
| `PreviewImplementsViewing` | `AppSpec => Shown!Init /\ [][Shown!Next]_Shown!vars` | a request that is not cancelled asks about the present matchers |
| `AppViewsUnlessCrossed` | `ViewsUnlessCrossed`, an action property | an answer is applied by a step that leaves the question alone, and unless the requests crossed the invariant after the step says whose answer is shown |
| `AppListStaysTrue` | `ListStaysTrue`, an action property | below |

**The pipeline.** `SettledRowIsSeen` speaks of keys with nothing under way and is
not inductive: it says nothing of the events that will make the row right.
`InOrderInv` adds that. For an undisturbed key the latest event, wherever it is –
in the handler call, else last of its key in the channel, else at a worker – carries
what the informer has seen, and at most one worker holds an event of the key. A step
either moves the latest event on (`Send`, `Take`, `Store`), adds a later one
(`Notify`, `Resync`), or puts the key among the disturbed. A new event of a key with
nothing queued or held makes the key undisturbed again: this is how the resync
repairs a row.

Two more theorems say what becomes of a row while its report stays as it is.
`RowIsRight`: the row is the report, the informer has seen it or nothing yet, and every
event under way says the same; then callbacks, resyncs, a new process's initial list,
overlaps, failures and crashes leave it so (`RightRowsStayRight`). `RowIsOrphaned`: the
report is gone, its row is there, and there is neither an event nor an informer that
remembers it; then nothing removes the row (`OrphansStay`). The second is why
`NextStartRepopulates` is refuted, and not by one unlucky behaviour: no later start
makes up for the delete that was lost.

**The manager.** `NoLeakedWatcher` equates the contexts nobody cancelled with those
of the entries of the map. Every action that replaces or removes an entry cancels
exactly its watch, whatever `stopAll` did between the sections of a callback.

`EntriesInv` adds what an entry stands for. `CacheInv`: the informer's cache is never
ahead of the API server, and the deletion of a Secret that is gone but cached is still to
come. `EntryInv`: an entry is not newer than the cached Secret, and of the same version
it has the same cluster; a callback works on what is cached. `ServedInv`: while the
manager runs, the watcher of an entry is there or the callback that made the entry is
about to start it. From these: the watchers that go on are those of the map's entries;
the early return of `upsert`, which goes by the version alone, never leaves a Secret
without its watcher; a Secret that is gone is either out of the map or about to be; and
a Secret that is watched as it is registered stays so. They are what
`RegisteredIsWatched` and `UnregisteredIsUnwatched` need of the code; the rest is
fairness.

**Hub pull.** `RowsInv`: as long as nothing on the list went wrong for a cluster, its
rows, its events and its informers are answered for by an entry of the map or by a
purge on its way; an entry that is about to be counted or spawned is in the map while
the manager runs (`stopAll` only runs when it no longer does). An informer that outlives
its watcher is among them: the purge that finds one puts its cluster among the left over,
since whatever it sends comes after. `RowsHaveWatcher` is
`RowsInv` between callbacks, when no purge is on its way.

`Forgotten` describes a cluster that no Secret names, cached or not, no entry, callback,
event, or informer that still runs. Every action works for a cluster that one of these names
(`DispatchForOthers`, `StepOfForgotten`), so the rows of a forgotten one are not touched:
a purge that left nothing stays good until somebody registers the cluster again, and
what one left behind stays as well. That is the counterexample of `hub_purge` for any
number of Secrets and any continuation.

**Registration.** `HandlerInv`: no Secret has a version beyond the last one handed
out, so a Secret that still has the version a handler has read is the object it has
read; the standing Secrets of a delete are among those it has left to delete, and
none once it has answered; a handler nobody interfered with finds its Secret as its
last call left it. `OtherHandler` is the lemma that carries the interleaving: a write
by anyone else either concerns a Secret the handler has nothing to do with, or marks
it as interfered with and outdates what it has read.

**Startup.** `MigrationInv`: what a process has read is recorded; a process about to
commit holds the lock and the version just before its own. Since a version is only
recorded with the lock, and the primary key refuses one that is there, two racing
processes cannot both commit it, and a crash releases the lock with nothing written.
`LockInv`: whoever holds the lock is at the record or the commit of the version after
the recorded one, so its record is not refused and nobody waits for a transaction that
cannot go on. With `MigrationInv` every `Commit` is a `Migrate` of `MigratedFile`: it
raises the recorded version by exactly one.

**Notes.** `NotesInv` has four parts. `MountInv`: only what is mounted waits for
answers. `AskedOnce`: a page that has not asked again waits for one answer of its own
report – a GET while it is loading, or a PUT while its editor is mounted, never both.
`AgreesWithTable`: if moreover nobody else has changed the row, the answer on its way,
or the save that is stored, or else the page itself agrees with the table.
`FreshIsSeen`: a save nobody has overtaken finds the notes it is based on. The steps
that matter: `ServeLoad` makes the answer current, and since the page is loading it
has no save under way; `ServeSave` changes the row from under the page, but its own
answer brings the notes; `LoseSave` of a stored save leaves the page outdated, and is
on record as such. Without `AskedOnce` the invariant is false: that is the hazard of
an effect that does not cancel its request.

**The pages.** `ListsAreTrue` speaks of pages that wait for nothing and is not inductive.
What makes it so is the same for all of them: unless it is on record that the page asked
across another question, every request under way asks the present one, or the last answer
does. `Emptiness`, `Sending`, `Answering` and `Marking` are the lemmas about sequences of
requests that all pages cite: a request is added at the end, any of them may leave, and
what is left is what was there. The pages add what they need: `StaysWithin` (audit), an
offset that was reached from rows of its own question has rows as long as nothing was
deleted, and what was counted is no more than what is there now; `ListIsTrue` (alerts)
and `TokenListIsTrue`, every change that is not shown yet has a write or a listing under
way that will bring it, unless it was missed; `SavesAreOwn`, `DialogsOwn`,
`RegistrationsAreOwn`, of a form that was not opened hastily every request of its kind
under way is its own; `SelectsAnOffer`, the selected place is in the list also while that
is hidden (it may be shown again by a focus); `PopupKnowsItsCluster`, a namespace in the
popup is one of the cluster it was offered for; `AsksItsFilters`, what the layout waits
for, or has, is of the cluster it was told last, whichever mount told it, unless that
was asked for across an older request or the last one failed (`AskNamespacesFacts`, which
a new question and a new mount share). `App` only has to know that a step is one
of one page and leaves the others' variables alone (`AppStepIsPageSteps`).

`ListStaysTrue` is about the polled list of clusters. `RowsAreTrue`: the rows are the
registrations, or none; the statuses are known and right; and so is every answer that
was served and is still to arrive, in whichever of its halves it succeeded. While
registrations and synced clusters stay as they are, every step keeps this: a poll that is
served is served the truth, and a half that failed leaves the statuses or empties the
rows. What `ClustersSettle` adds is fairness: older answers arrive, and one poll succeeds.

Together: `EventPipeline` implements `EventChannel`, `HubPull` is `ClusterManager`
with `EventChannel` in the place of the pipeline, and its theorem holds for any
number of Secrets, names and events under way.

## 6. Findings

**`pipeline_restart`** (documentation and code disagree). The comment at
`internal/scraper/scraper.go:112-116` says that events dropped at shutdown are
harmless because the next start's initial list repopulates the table. This is so for
upserts. A buffered *delete* is lost for good: the initial list has no object to call
a delete callback for, and nothing compares the table with the list. The row stays.

**`hub_purge`** (code). `internal/hub/manager.go:23-25` says that deleting a
registration Secret stops the watcher and purges the cluster's reports.
`remove` cancels the watcher without waiting for it and purges at once; an upsert of
that watch still on its way to the store, or sent by an informer that has not ended yet,
is committed after the purge, and nothing deletes the row later. The counterexample has no failing call and no restart.

**`app_none`** (code). `web/src/pages/AdminPage.tsx:300-301` puts "No API logs found." in
the place of the table whenever the page of rows is empty. When the log is shortened by a
cleanup while its user is on a later page, the next refresh asks past the end: the page
says that there are none although rows match, and the filters in the table's head and the
buttons below it have gone with the table. Nothing resets the offset. The theorem
`AppPastTheEnd` says that this is the only way there, together with one more: paging on
from rows of an earlier question before the answer to the new one is there.

Other behaviours that the models show and no text of the repository contradicts: a save
or a registration that is answered late closes the form, or leaves the step, that is open
by then; the statistics' answer wipes the error of a list that was not loaded; an answer
to an earlier filter replaces that to the current one and stays. They are the named
exceptions of `DraftsSurvive` and `ListsAreTrue`.

## 7. Limits

**Only model-checked.** All liveness properties (`ExistingReportsAppear`,
`DeletedReportsVanish`, `WorkersLeave`, `LateCallbacksReturn`, `RegisteredIsWatched`,
`UnregisteredIsUnwatched`, `RunStopsWatchers`, `StartupConverges`, `ProcessLeaves`,
`ClustersSettle`, and the fairness in `PreviewIsViewing`): fairness and `ENABLED` are
beyond the prover. What they need of the code apart from fairness is proved for most of
them: `RightRowsStayRight` and `HandlersAlwaysHaveAWayOut` for the pipeline,
`UpToDateIsWatched`, `GoneAreRemoved` and `WatchedStays` for the manager,
`LockHolderProceeds` for the start, `AppListStaysTrue` for the list of clusters; there is
no such theorem for `WorkersLeave`, `RunStopsWatchers` and `ProcessLeaves`, which are
progress and little else. The three violations are TLC's; `OrphansStay` and
`ForgottenClustersStay` prove that what two of them find is not repaired later, and
`AppPastTheEnd` the ways to the third.

**Only proved.** The runs check every invariant and action property that the theorems
about them name, except those stated beside the proofs for their sake: the manager's four
about entries, the pipeline's three about rows and handlers, `RowsHaveSecret`,
`ForgottenStaysForgotten`, `LockInv`, `MigratesInOrder`, `DetailIsViewing`, `ListStaysTrue`
and the inductive invariants. Any of them can be added to the `.cfg` of its component's
run, with the `...Proofs` module extended by the `MC` module where it is stated there.

**Abstracted.** `ReportNotes` sets the page and `loading` in one step; React may paint
the new header over the old content before the effect runs. A response 401 sends the
user to the login page, which is `Leave`. Timestamps of notes are left out.
`ShowsItsReport`, `ShowsStoredNotes` and `OverwritesAreSeen` except pages that asked
again while they waited: on those the code makes no promise, and the content of one
report can stand, and be edited, under the header of another.

In `App`: the effect of a new question runs in the step that sets it. The database does
not change behind lists of reports, searches and trends: they are known by their question,
and the answer to an old one is old in that sense only. A row of the audit log matches the
filters it matches; the order of rows is left out. The second statement of a page of the
log runs when its answer arrives. The statistics' answer may come at any time. Going back
in the browser is `Navigate` in the searches and `GoTo` in the lists; the runs have URLs of
lists that name clusters and namespaces that exist, or none, the theorems any. What an old mount
of a list still asks for is dropped, as its answer is; only the layout's requests go on.
Texts of one character, which suggest nothing, are left out; so is
the filter for an application, a text that is asked for like the others. The services
behind alerts and tokens are what `api.ts` says of them.

**Not modelled yet.** The two statements and the timestamps of the report store's readers
(no page relates the two answers); several namespaces of one watcher; readiness against the
listener and the watchers; `Normalize`, `validateCluster` and `Config.Validate` as functions;
the history of cleanups; the test message of an alert rule. Two Secrets of one name: the
`hub` run shows that no row is left over; the reverse, that deleting one of them purges rows
the other's watcher has stored, which come back only with its next resync, needs the resync
in the composition. `GaugeIsActiveCount` is about a manager that runs: an upsert that
`stopAll` overtakes may set the gauge of the ending process to its old count, in the model
as in the code, and no property forbids it.

**Not modelled, and why.** Building Kubernetes clients and TLS (pure I/O; that it may
fail is in `SkipSecret` and `RunFails`), configuration (read once), logging, build
information, embedded assets, counters and histograms (nothing reads them), the figures of
statistics and the sidebar's polled ones (the fetcher of `usePolling` never changes here),
sorting, markup and styles. Charts and examples were read for what runs concurrently, and
are not modelled themselves.
