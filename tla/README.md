# A verification development of flooks

flooks is an advertising-analytics workspace: a Go API (`cmd/api`, `internal/`)
that stores charts and dashboards as revisioned assets in PostgreSQL, queries an
analytics database through governed query specifications, and tells open pages
about new revisions over Redis and server-sent events; and a React client
(`apps/web`).  The modules here are translated from that source.  TLC checks them
on small instances and TLAPS proves the safety results for all sizes.

## Inventory

| Part | State it keeps | Operations | Talks to |
| --- | --- | --- | --- |
| Asset store, `internal/assets/store.go`, `db/migrations` | tables `assets`, `asset_revisions`, `outbox_events`, the id sequence | Create, Update, Restore, Archive; List, Get, Revisions | PostgreSQL transactions |
| Asset handlers, `internal/httpapi/server.go:154-274` | the request in progress | create, update, archive, restore, reads | asset store |
| Event stream, `server.go:276-301` | one Redis subscription per open page | subscribe, forward | Redis, pages |
| Outbox dispatcher, `internal/events/dispatcher.go` | the batch of the current flush | flush each second | `outbox_events`, Redis |
| Query service, `internal/query/service.go`, `internal/domain` | manifests, Redis cache, calls in flight | Validate, Execute | connector, Redis |
| PostgreSQL connector, `internal/connector/postgres` | semaphore of 10 | Execute, Compile, ValidateManifest | analytics database |
| Process, `cmd/api/main.go` | pools, server, signal context | start, shutdown | all of the above |
| Asset list of the client, `apps/web/src/App.tsx` | react-query caches, the selected chart | load, invalidate on events, seed | API, event stream |
| Dashboard editor, `DashboardEditor.tsx`, `dashboardPlacements.ts` | draft document, panel results, resolved charts, drawer | place, pin, run, save | API |
| Chart editor, `ChartEditor.tsx`, `chartEditing.ts` | draft, baseline, result | edit, run, save, restore | API |
| Manifests, contracts, generated types, renderer, load test, deployment | none, or constant | | |

How they interact: a save is one transaction that moves the head, adds a revision
and adds an outbox row; the dispatcher of each process polls the outbox and
publishes; the event handler of each process forwards what it hears to the pages
subscribed to it; a page answers every message by fetching the list and every
asset of it again.  Queries go the other way: page, query service, cache or
connector.

What is hard, and what makes each part correct:

* Asset store - concurrent saves under row locks at READ COMMITTED, a restore that
  reads outside its transaction, failures between statements, ids drawn before the
  commit.  Correct: no save is lost, revisions are dense, a restore is faithful, the
  outbox mirrors the revisions in their order.
* Dispatcher - crash between publish and mark, lost replies, two processes at once.
  Correct: nothing marked unsent, first messages in revision order, everything sent
  in the end.
* Event stream and list - at-most-once delivery, messages between the reads of a
  fetch, retries.  Correct: a page shows what it was told of and never goes back.
* Query service - shared calls, cancellation, cache staleness, slots.  Correct: every
  answer belongs to the question, slots are given back, a caller gets an answer.
* Connector's Compile - arguments numbered while the text is emitted, checks spread
  over the loader, Validate and the connector.  Correct: the statement with its
  arguments asks what the specification asks, and what was let through compiles.
* Process - handlers that outlive Shutdown, pools closed under them.  Correct: it
  ends, answers its callers until then and leaves no query behind.
* Editors - loads, heads and answers of saves arriving late, drafts over old
  revisions, refetches under unsaved edits.  Correct: a save does not silently
  overwrite a revision its author has not seen, and a panel shows what it pins.

The hazards are listed with their lines in `PROJECT.json`.

## Modules

```
RevisionLog            what the store promises (abstract)
  |-- AssetStore         store.go + handlers, statement by statement; implements RevisionLog
  |-- OutboxRelay        what the dispatchers promise (abstract): RevisionLog + onRedis
  |     |-- Dispatcher     dispatcher.go, one or more processes; implements OutboxRelay
  |     |-- EventFanout    streams and pages listening to the relay
  |     |-- Workspace      AssetStore, Dispatcher and EventFanout over the same tables
  |-- ChartEditor        one page: its lists, its chart section, the saves it sends
        |-- DashboardEditor  the same page with its dashboard section and drawer;
                             implements RevisionLog (Log == INSTANCE RevisionLog)
QueryService           query service and connector slots of one process
  |-- ApiProcess         the process around it: start, signal, Shutdown, closing
QueryCompile           manifest checks, Validate and Compile for one request after another
```

`MC<module>` is the instance of a module for TLC, `<module>Proofs` its theorems
(`EditorProofs` has those of both editors, `QueryServiceProofs` those of ApiProcess
too).

**RevisionLog.**  The committed rows of the three tables.  `Create`, `Update` and
`Restore` each append one revision on top of the head together with one event;
`Archive` touches the row only.  A revision row carries, besides its columns, two
history fields: `base`, the If-Match revision of the request that wrote it, and
`title`, the title the asset got with it.  `source` is what the summary of a
restored revision says.  Documents are reduced to their kind and a body that is only
compared; slugs and titles are values of small sets.

**AssetStore.**  One `Handler` per request in progress.  `req[h]` is the request and
the statement it is at, `tx[h]` what its transaction has written and not committed;
`InTx(h)` therefore means that h holds the lock of its asset's row.  Each SQL
statement is an action: `InsertAsset` (waits for a pending insertion of the same
slug, as the unique index makes it), `GetSource` (the read of `Store.Restore`,
outside the transaction), `UpdateAsset` (waits for the row's lock and evaluates
`WHERE` on the row it then finds), `insertRevision`, `insertEvent` (draws the id),
`Commit`.  `Fail` can end a request before every one of them: a statement error, a
client that went away or a process that died; the id drawn is gone, nothing else
remains.  `archiveAsset` is a single autocommitted statement.  A request's If-Match
is a revision that was the head at some time, because clients take it from an
answer.  `MaxEventId` bounds the events; a sequence that has reached it is an error
of `insertEvent`, as in PostgreSQL.

**OutboxRelay.**  Rows reach Redis (`onRedis`), possibly again and again, and for
the first time in the order of the asset's revisions.

**Dispatcher.**  Per process the rows of the current flush (`pending`) and whether
its first row has been published and not marked (`sent`).  `FlushAll` reads up to
`BatchLimit` rows by id; `FlushCut` is the unchecked `rows.Err`, a reading that
ended early; `Refused` and `ReplyLost` are the two ways a publish fails; `MarkLost`
is the dropped error of the UPDATE; `Stop` ends the process or its context.

**EventFanout.**  `events` opens a stream, `Subscribed` is the moment Redis takes the
subscription, `SubscriptionLost` and `StreamLost` the two connections it depends on.
The page's query is the list followed by a read per asset (`List`, `Get`, `Show`),
`FetchFails` a failing request with react-query's retries, `invalidate` a message
(it never looks at the payload), `Focus` a refetch for another reason.  react-query
and go-redis are external: they are modelled by what App.tsx and server.go rely on.
In particular a refetch replaces a fetch in flight only once the query has data.
`due` is history: what the page was told of while it had data.  The dispatchers are
`PublishFirst` and `PublishAgain`, any sender that keeps the relay's order.

**Workspace.**  The three components above with nothing assumed in between: where
Dispatcher and EventFanout stand on a RevisionLog that commits by itself, here the
handlers of AssetStore do it, statement by statement, and where EventFanout assumes a
relay, the dispatchers publish (`Announce`: a `Publish` or a `ReplyLost` that the
subscribed streams hear).  `StoreStep`, `FlushStep` and `PageStep` are the steps only
one component takes.  A process that dies takes handlers, dispatcher and streams with
it; here they stop one by one, in any order and with anything between.

**QueryService.**  One `Caller` per request to `/query/execute`: it reads the cache
(`CacheHit`, `CacheMiss`), then leads or joins the call in flight for its key (`Do`,
singleflight's Group as `group`).  The leader runs the connector's Execute -
`Acquire` or `GiveUp` at the semaphore, `Snapshot`, `RowsEnd` or `QueryFails` - stores
the result and returns, which answers everyone who waits for the key with what it
got, errors too (`Return`).  `over` is the end of the leader's `queryCtx`: its client
left or the manifest's timeout is up; the database then ends the query (`Cancelled`).
`normalized` is Validate's treatment of the limit, and a cache key is the question
with the normalised limit: the hash is taken to be injective.  A result is the
question and limit it answers together with the state of the analytics data it was
computed from; `since` is history, the state when the call a caller took part in
began.  One process is modelled: each has a singleflight group of its own, and the
Redis cache could be written by two of them in any order (`CacheForward` says nothing
of that); the deployment runs one.  A write to Redis whose reply is lost has either
been applied by then or never is.  Requests that Validate refuses touch no state.

**ApiProcess.**  `main.go` around QueryService: `Start` (which may refuse), `Signal`,
`Shutdown` when nothing is served any more or `Deadline` after its ten seconds, then
the deferred calls, `AnalyticsClosed` and `Exit`, each of which waits for the
connections its pool has lent.  `Serve` composes the query service's own steps with
the process: once Redis is closed there is no `CacheHit` and no `CacheSet`, once the
pool is closing `Acquire` becomes `PoolRefuses`, and what Shutdown has given up on
goes on until `Exit`.  `streams` and `writes` are the open event streams and the
handlers with a metadata connection.  The status handler's pings are left out; the
dispatcher's end is `Stop` of Dispatcher.

**QueryCompile.**  A process with one manifest and one request after another:
`NewService` (with the loader's check and `ValidateManifest`), `Validate`, then
Compile in its own order, `Select`, one `AddFilter` per filter, `Limit`.  The text is
kept as a record of clauses with the numbers of their placeholders, `args` as the
arguments with the kind of value each is; a placeholder's number is the length of
`args` when it is emitted, as in the code.  Quoting and the spelling of SQL are
left out, and a conversion of a value (`fmt.Sprint` into `text[]`, `%` around a pattern)
is its tag, so that `StatementReadsBack` compares values up to that conversion;
a field's column is identified with its key, and
a manifest allows only operators Compile has a case for.  `chartDocumentReady` is the
client's check, with which `ReadyCompiles` compares.

**ChartEditor.**  One page and the server as it meets it.  `saves` is the sequence of
committed revisions, from which `Log` computes the tables of RevisionLog; `Accepted`
is the server's comparison of If-Match.  `list` is the newest revision of each asset
in the page's queries; it may be older than the head.  `Select` and `NewChart` set
App's snapshot and with it the draft; `SaveChart` names the snapshot, whose answer
changes nothing on the page, so that the save just joins `sent` and is handled or
lost at some time (bound `MaxSent`).  What a draft says is its user's business: a
document is the revision it was opened from.  `blind` is history and marks a save
whose document was opened before the revision its If-Match names, with the editor
that sent it.

**DashboardEditor.**  `Board` is the one dashboard the workspace shows,
`dashboards.data?.[0]` (`App.tsx:46`); that the first of the list could become another
one is not modelled.  The dashboard section adds the document with its panels and
pins, `resolved` and the `loads` under way, the drawer and its save.  Every change of
the document is `setDocument`, which cancels the loads and starts one per panel;
`LoadList` runs `dashboardEffect`; `DrawerEffects` are the drawer's two effects,
evaluated after each step that renders.  `SaveDrawer` binds the panel and the
document of its render, `HandleSave` is the server, `SaveAnswered` runs
`pinSavedChart` over what was bound, unless the section was left (`page`).  `from` and
`revived` are history: the dashboard revision the document came from, and whether a
chart save's callback put it back after that revision had been replaced.  A load that
fails is one that never arrives, and so is one of a pin whose revision does not exist:
the drawer's answer becomes the head of the panel that is open by then, whose chart
may have fewer revisions, JSON text may name anything, and reading such a pin is a
404 (the guard of `ChartLoaded`).  Query results, the manual `executePanel` and dirty flags
are left out.  JSON text (`EditJson`) may name any panels; the revisions it names are
the constant `JsonRevision`, not 0, which would read the head.  New panels get fresh
ids (`newPlacementID`); one save of a drawer is under way at a time, as its button allows within one drawer:
a second drawer opened while the first one's save is under way saves after that.

## Runs

| Run | Instance | What it shows |
| --- | --- | --- |
| `asset_store` | 1 asset, 2 handlers, 2 titles, 2 bodies, 3 events | Two racing requests of any sort with failures at every statement: dense revisions, no lost save, faithful restores, archiving sticks; the store implements `RevisionLog` |
| `asset_store_races` | 2 assets, 2 slugs, 2 handlers, 2 events | Outbox mirrors the revisions and keeps their order, racing slugs stay unique, every request ends |
| `asset_kinds` (violation) | 1 asset, both kinds | An asset can get a document of the other kind |
| `dispatcher` | 2 assets, 2 processes, 2 events, batches of 2 | Nothing is marked unsent, an asset's revisions are first sent in order, every committed event is published and marked in the end; the dispatchers implement `OutboxRelay` |
| `event_fanout` | 2 assets, 1 page, 2 events, 1 retry, 1 resend, all faults | A page at rest shows what it was told of, it never goes back, and it ends up showing it, or in error |
| `event_fanout_missed` (violation) | 1 asset, 1 page, no fault at all | A revision can miss a page for good |
| `workspace` | 1 asset, 1 handler, 1 process, 1 page, 2 events, 1 resend, no retries, lost streams | No page shows, reads or hears of what is not committed; store and dispatchers are the source of messages that `EventFanout` assumes |
| `query_service` | 3 callers, 1 question, limits 0, 2 and 5 (default 2, at most 3), 1 slot, 1 change of the data | Slots come back, calls are shared, answers fit question and limit, the cache never goes back |
| `api_process` | 2 callers, limits 0 and 5, 1 slot, 1 stream, 1 asset handler | Callers are answered or the process ends; a stop comes to its end and leaves no query |
| `query_compile` | 9 manifests, some 3700 specifications, up to 3 filters of 14 sorts | Statements read back, parameters are used, normal forms are stable, ready documents compile |
| `dashboard_editor` | 1 chart, 1 panel, 3 revisions, JSON text that pins the second, 1 save under way beside the drawer's | Chart editor and dashboard saves are seen, panels are current, every If-Match names a revision the server has; the pages implement `RevisionLog` |
| `drawer_overwrites` (violation) | the same without JSON text | The drawer can overwrite a revision its user never saw |

Why the bounds are enough.  Three events give a creation and two racing saves of
one head with another one after them, which is where a lost update, a stale restore
and a gap would show; restores see revisions 0 (the head), the oldest, the newest
and one that does not exist.  With two assets the ids of two open transactions can
commit in the other order.  In `dispatcher` the two
events are of one asset or of two: one asset's rows can go out in the wrong order, and
the smaller id of the other asset can show up when the larger one has been published;
a batch that is cut short leaves a row behind.  Safety is proved for any number of
rows.  In `workspace` one handler can roll back between any two statements and
create or save again, and a page can hear of a row twice; two handlers, two processes
or two assets are beyond five minutes of TLC and are covered by `WorkspaceProofs`, and
failing fetches by `event_fanout`.  Pages do not influence each other, so one page is
enough; two assets are
needed for a fetch that is between two reads.  In `asset_store_races` the assets are
as many as the slugs: a free slug always finds a fresh id, as
`gen_random_uuid()` gives it.  In `query_service` limits 0 and 2 share a key and 5
has another one, so that of three callers one leads, one joins and one competes for
the slot; one change of the data tells a result from an older one.  In `api_process`
two callers are a leader and a follower, or two keys at one slot; a stream and an
asset handler each hold Shutdown and the metadata pool.  `query_compile` has every
shape of value under every operator, three of them in a row, and every choice of the
rest with one filter; its nine manifests pass or fail each check of the start.  Three
revisions in `dashboard_editor` are a dashboard and two revisions of its chart, or
two dashboards and a chart: enough for a pin that falls behind, a callback that
revives a document and a save against an old head.  Two panels are more than five
minutes of TLC; what depends on them (`PanelsCurrent`, the callback into a panel that
is no longer open) is proved for any number; with one panel id cloning is never enabled,
and a new panel is one of a chart of the list.  Symmetry is used in runs without liveness only, over
values that are only compared.

Fairness.  `FairStoreSpec` is strong fairness of each handler's statements: a
statement that waits for a row's lock may be overtaken, but PostgreSQL queues the
waiters of a row, so a lock that is freed again and again is obtained.  Failures
stay possible and get no fairness.  `DispatchFairness` is strong fairness of reading
a batch, of a publish and of a mark: the ticker never stops, and Redis and the
database come back often enough for one success after another; without that nothing
can be promised.  `FanoutFairness` is weak fairness of requests, deliveries, the
dispatcher's publishing and EventSource's reconnecting, and strong fairness of the
subscription, which lost streams keep interrupting; nothing makes a window get the
focus.  Resends, retries and events are bounded, so a page is not kept refetching
for ever by messages alone.

`FairProcessSpec` is weak fairness of the steps of the process and the service
themselves (`Deadline`, `AnalyticsClosed`, `Exit`, each caller's `Advance`), of the
query timeout (`TimeUp`) and of the end of asset handlers (`WriteEnds`); none of the
analytics database (a query may hang), of the slot (a leader may wait in vain) or of
the clients (a stream may stay open): the timeout and the deadline are what end
those.  Asset handlers have no timeout, so that they end is an assumption.

`api_process` and `query_compile` say `CHECK_DEADLOCK FALSE`: a process that has
exited, or that was refused at start, does nothing more.  The other systems cannot
stop, and the check is on.

## What the violations say

`KindMatches`: `updateAsset` validates the document against the kind in the URL and
updates by id alone (`server.go:206-209`), so that a save of a dashboard under the charts' URL makes a
chart document a revision of the dashboard, and the other way round, against
validDocument's own "kind must be" (`server.go:325`).

`BrowsersRefreshed`: `docs/architecture/mvp-plan.md:23` asks that two browsers
refresh each other over SSE.  A page reads once and then only on messages; a
revision that is committed after its list was read and published before Redis took
its subscription never reaches it, although nothing failed.  What does hold is
`QuietShowsDue`: no message that arrives at a page with data is lost on it.

`DrawerSavesSeen`: `docs/playbooks/dashboard-chart-editing.md:32` says that a chart
someone else saved first is not overwritten, and
`docs/architecture/dashboard-contract.md:44` that the conflict is shown.  The drawer's
If-Match follows the list, which every event refetches (`DashboardEditor.tsx:96`),
while its draft stays what it was loaded from (`:95`): the save after a refetch names
the newer revision and drops what it changed.  The chart editor, whose snapshot gives
both, keeps the promise (`EditorSavesSeen`), and so does a dashboard save unless a
chart save's callback has put an older document back (`DashboardSavesSeen`).

## Proofs

All are for arbitrary assets, kinds, slugs, titles, bodies, handlers, processes, pages,
panels, callers, manifests, specifications and bounds.  The assumptions are the named
ASSUMEs only: kinds are `chart` or `dashboard`, `None` is no member of the sets it is
told from, callers are finitely many, revisions in JSON text are positive, limits and days are integers, slots, retries and
bounds natural numbers, and a filter's value that is no array is one value.

* **RevisionLogProofs.**  `LogInv` is inductive: the properties plus `RowsBelowHead`,
  `RowsComplete` and `RowsUnique` (together `RevisionsDense`, in a form that can be
  pushed through an append) and `HeadTitle` (the head's row carries the asset's
  title, without which `RestoreFaithful` says nothing of the title after the next
  save).  `AppendKeeps` does the common work for the three writing actions.
  Theorems `LogSafety` and `LogArchiveSticky`.
* **AssetStoreProofs.**  `StoreImplementsLog` is the refinement: `Commit` is one step
  of the log, every other statement a stutter.  Its inductive invariant adds to
  `LogInv` that each handler's transaction is a well-formed append on the head
  (`HandlerOK`: the row it holds is the committed one plus one revision, its
  document is the one its source names, its event id is above the asset's) and
  that no two handlers hold the same asset or slug (`Apart`).  The safety theorems
  `StoreNoLostUpdate`, `StoreRevisionsDense`, `StoreRestoreFaithful`, `StoreOutbox`,
  `StoreSlugsUnique` and `StoreArchiveSticky` then follow from `LogSafety` through
  the refinement, and `StoreTypeOK` from the invariant.  Two more say what TLC's runs
  leave open.  `StoreKindsByUrl`: the run `asset_kinds` breaks `KindMatches`; as long as
  every save comes by the URL of its asset's kind (`UrlsAgree`) it holds, so that the
  URL is the only way a document of the wrong kind gets in.  The invariant behind it
  (`KindInv`) also follows the document through the transaction and shows that an
  asset's kind never changes.  `StoreNoHoldAndWait`: a handler that waits, for a row or
  for a racing INSERT, holds neither, so that whoever it waits for waits for nobody:
  no number of handlers can wait in a circle, which TLC sees of two only.
* **DispatcherProofs.**  `SentInOrder` is not inductive: it needs `BatchComplete` (a
  row in a batch comes with every earlier row of its asset, unless Redis has that
  one) and, for marks, `SentFirst`.  The store's `OutboxOrdered` is what makes ids
  and revisions agree.  Theorems `DispatcherTypeOK`, `DispatcherMarkedWasSent`,
  `DispatcherSentInOrder` and the refinement `DispatcherImplementsRelay`.
* **QueryServiceProofs.**  `CallsInv` adds to `CallsShared` that what a caller holds
  fits its question (`GotFits`), that a caller who waits has the `since` of its leader
  (`SinceCall`), that the cache holds results of their own key (`CacheFits`), and that
  whoever leads a call began it after the cached result was computed (`CacheBehind`),
  which is what `CacheForward` rests on.  `GoesOnInv` does the work for the steps that
  touch one caller only.  `SlotsInv` is separate and counts: `SlotTaken`,
  `SlotReturned`, `SlotsUntouched`.  Theorems `ServiceTypeOK`,
  `ServiceSlotsConserved`, `ServiceCallsShared`, `ServiceAnswersFit` and
  `ServiceCacheForward`, for any number of callers and slots and any limits.
  Of ApiProcess: `ProcessSteps` divides a step of the process into main's own, one of
  the query service and `PoolRefuses`; the first two keep the service's invariants, the
  third by `PoolRefusesKeeps`.  Only `Acquire` starts a query (`OnlyAcquireStarts`), and
  not once the pool is closing, which is `ProcessLeavesNoQuery`.
  `ProcessKeepsService` carries over the service's invariants, and
  `ProcessCacheForward` its action property: what closing Redis and the pools takes
  away, the writes to the cache that remain are still in order (`CacheStays` for the
  steps that do not write).
* **EventFanoutProofs.**  `FanoutInv` is `LogInv` with `PageOK` for each page over the
  heads of the assets (`heads`): nothing on a page is ahead of the log (`NotAhead`), a
  read that is not to be repeated is at least what the page was told of
  (`ReadsFresh`), and `Quiet` is the property.  Each step of a page is a lemma on one
  page's record (`PageHears`, `PageReads`, `PageShows`, ...), and `PageGrows` lets the
  log move under it.  Theorems `FanoutTypes`, `FanoutQuietShowsDue` and
  `FanoutViewForward`.
* **QueryCompileProofs.**  `CompileInv` says what holds between two clauses: so many
  filters are done, each finished one means what was asked for over the arguments so
  far (`Means`), later arguments do not move earlier ones (`MeansStays`), and each
  argument has a name (`AllNamed`).  `CompilerReadsBack` and `CompilerUsesParameters`
  follow for any number of filters.  `CompilerNormalizes` assumes `LimitsSane`, that
  no manifest has a maximum below one with a default below that; the loader does not
  check it.
* **EditorProofs.**  `EditorsInv` (types, revisions that exist, lists no newer than the
  head, the drawer's and the save's panel) is the basis.  `SavesInv` relates saves to
  the documents behind them: the chart editor's draft and snapshot are one
  (`OneSnapshot`), the document comes from the list's dashboard or was revived
  (`BoardCurrent`), and no save in flight is blind (`Seen`).  `PanelsInv` adds that
  loads are of the current pins (`LoadsCurrent`).  `EditorsImplementLog` is the
  refinement: a commit is `Create` or `Update` of the log, all else a stutter.  TLC
  checks it as `PagesKeepLog`, which asks every step that commits to be one of the
  log and from which, the tables being functions of `saves`, the refinement follows.
  `BasesInv` follows the numbers an If-Match can come from: what the drawer took for
  the head (`HeadCommitted`), what was sent (`SentCommitted`) and what is under way
  (`SaveCommitted`) are revisions the server has, each still so after others have
  saved (`LatestGrows`).  `EditorBasesCommitted` thereby discharges, for the saves of
  the client, what AssetStore assumes of its requests; restoring is not in the model
  of the client.
* **WorkspaceProofs.**  Projection: every step of the whole is, on the variables of one
  component, a step of that component or a stutter (`StoreProjection`,
  `DispatchProjection`, `FanoutProjection`).  The second needs the store's invariant,
  by which a `Commit` is a step of the log, the third the dispatchers' too, by which
  what they publish is a `Send`; so the invariant is the conjunction of the three and
  is shown inductive with the components' own lemmas.  `WorkspaceKeepsStore`,
  `WorkspaceKeepsDispatch` and `WorkspaceImplementsFanout` state that the workspace
  implements the specification of each part; `WorkspaceShowsCommitted` and
  `WorkspaceSafe` carry the parts' promises to the whole: from the save, through the
  outbox and Redis, to the screens.

Model-checked only: liveness (`RequestsAnswered`, `EventuallyPublished`, `DueShown`,
`CallersAnswered`, `ProcessEnds`): it rests on fairness, that is on ENABLED, which the
prover has no rules for.  Every invariant and
action property of the passing runs is a theorem, `NormalizedStable` under the
assumption above.

## Not modelled, and why

HTTP parsing and status codes, logging, the read-only handlers: no state.  Generated
types, contracts, deployment, renderer, load test: no behaviour of the program's own.
Request contents beyond what the properties compare.  A page's two queries are one in
EventFanout: they are alike, and each message invalidates both.  The archived flag on
a page: archiving writes no event, so nothing is promised of it.  In the editors: the
results of queries and previews, the revision list and its restore button (the
server's side of restoring is in AssetStore), dirty flags, the settings form.  The
seeding of starter charts: seven creations in a row, each of them AssetStore's
`createAsset`; of two pages that seed at once, the one that loses a slug stops there.
How a compiled statement fares in the database belongs to QueryService, which does not
look at the statement.

## Plan

1. Query results of the panels: `executePanel` for a preview or a refresh is not
   cancelled, so that a late answer can replace a newer one; composed with
   QueryService.
2. Restoring from the chart editor, with the head of `If-Match` and the draft it
   resets.
3. Two processes over one Redis cache, and a restart with an edited manifest of the
   same version.
4. Several manifests in one process, and an operator of a manifest that Compile has no
   case for.
