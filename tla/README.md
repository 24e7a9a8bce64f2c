# Formal models of the netball results service

The repository is a Next.js site with a custom Node server. One process serves
pages, an HTTP API and Socket.IO, and may also run the background worker, which
polls the Champion Data feed (and, when enabled, the official Glasgow 2026
feed), stores what it finds in PostgreSQL, keeps the standings, and pushes what
changed to the pages that watch a match. A release is rolled out by starting a
new process before the old one has ended, so two workers and two socket
servers may be alive at once; they share nothing but the database.

This directory holds TLA+ modules of the parts whose correctness depends on the
order of events, TLC configurations that check them on small instances, and
proofs that TLAPS checks for every value of the constants.

All paths below are relative to `src/lib/` of the repository unless they say
otherwise.

## 1. Inventory

### Result pipeline

| Part | State | Operations | Correct when |
|---|---|---|---|
| `worker.ts` `pollChampionData` | nothing of its own but the poll lock; reads and writes `Match`, `PollLog`, `Standing` | one poll: ingest, filter, sync, live detail, reconcile, detect stale, choose and finalize | an answer that arrives late never undoes a newer one; an official result changes only as a correction; nothing completed is lost |
| `ingestion.ts`, `champion-data.ts` | `PollLog` | request fixture and details, take the time each request *started* as its ordering token, validate, log | the token orders observations as they were asked for |
| `processing.ts` | `Match`, `PollLog`, statistics | `syncFixtureMatches`, `applyChanges`, `reconcileCompletedMatches`, `detectStaleCompletedMatches`, `reconcileStaleCompletedScores`, `finalizeCompletedMatches` | each write is conditional on the revision it was decided on |
| `standings.ts` | `Standing` | rebuild a competition's table inside the transaction that changes a result | the table counts exactly the public results |
| `serializable-transaction.ts` | – | run a transaction, retry on a serialization conflict | a transaction is one atomic step, or none |
| `worker.ts` scheduling, `worker-health.ts`, `worker-startup.ts`, `src/server.ts` | `isRunning`, `pollTimer`, the health record on the Node global | start, stop, chain of timers, shutdown with a deadline | one chain of timers; a stopped worker stays stopped; health tells the truth |
| `live-state.ts`, `useLiveStatus.ts` | a short cache; the page's poll | decide the poll interval; tell pages what is live | an error never lengthens the interval beyond the fallback |

### From a commit to a page

| Part | State | Operations | Correct when |
|---|---|---|---|
| `public-match.ts`, `edition-capabilities.ts` | `pendingLookups` (one promise per match) | `resolvePublicMatchAccess` and the policy on its answer | nobody sees what is not public; a revocation is observed |
| `broadcasting.ts` | – | live changes, score flow, statistics, events, completion | what is sent is of the revision it is said to be of |
| `socket-server.ts` | rooms, `requestedMatches` per socket | subscribe, unsubscribe, disconnect, `canEmit`, emit | a socket is in the room it asked for last; every emission is checked at its end |
| `src/hooks/useMatchSocket.ts` | the newest revision seen, the shown state | connect, reconnect, `acceptsRevision`, handlers | the page never goes back to an earlier state |

### Editions and imports

| Part | State | Operations | Correct when |
|---|---|---|---|
| `glasgow/official-feed.ts`, `official-feed-sync.ts` | none of their own: two reads at the start of a sync | read matches and receipts, request two dates at a time, match fixtures to matches, plan a quality, apply each result in a transaction of its own | a first final result is unofficial until a second poll agrees; a different one is a correction that names the newest receipt; an overlapping sync with old reads changes nothing it should not |
| `glasgow/results-import.ts` | `Match`, `MatchSlot`, period scores, coverage, `Standing`, receipts | validate, record a dry run, apply with its token, replay | the bracket follows the results, started matches keep their teams, the standings count the results |
| `sources/*`, `scripts/import-glasgow-2026.ts`, `glasgow/source-manifest.ts` | `ImportRun`, `SourceEntityMapping`, the rows of the edition | plan, record the plan, apply it in one transaction, replay | a bundle is written once; the last one written is what the edition holds; results survive a revision |
| `glasgow/receipt-verification.ts` | – | compare receipts and journal after the fact | reads only |
| `edition-publication.ts`, `edition-publication-readiness.ts` | `Competition.publicationStatus`, `Stage.isPublished` | print a token, publish with it, unpublish | only a ready edition is published, and the one its token was printed for |
| `tournament/service.ts`, `edition-schedule.ts`, `edition-rules.ts`, `competitions.ts`, `edition-context.ts` | – | pool tables, brackets, schedules, selection of the edition | pure functions of the stored data |

### Analytics, questions, simulation

| Part | State | Operations | Correct when |
|---|---|---|---|
| `analytics/snapshot-cache.ts`, `cache-epoch.ts`, `rankings/service.ts`, `records/service.ts` | `inFlightSnapshots`, Next's cache | read the epoch, form a key, share the computation of a key, cache it or hand it over, compute without it | an answer is not older than its request |
| `analytics` schema (`prisma/migrations`), `analytics/repository.ts` | the views, `cache_epoch` | triggers on every table the views read | a view changes only together with the epoch |
| `stat-query/*`, `app/api/stats/query` | rate-limit buckets in the database, a result cache per process, telemetry | check, count, parse, decide, execute within a time limit, record | an answer is of the data of its question's time or newer, keeps every scope that was asked for, and is counted |
| `simulation/*` | `simState`, `tickTimer`, the simulation's rows | start, stop, pause, jump, tick, serve the simulated feed | the rows are those of the running simulation; what is served of a match agrees with itself |

### Pages and readers

| Part | State | Operations | Correct when |
|---|---|---|---|
| `home-feed.ts`, `HomeResults.tsx` | a cached list of candidates; the reader's cards and cursor | a page of finished matches, the next one | each finished match is seen once; a card keeps to its match's score until that is observed again |
| `competitions.ts`, `edition-schedule.ts`, `tournament/service.ts`, `cached-queries.ts` | Next's caches, with fixed lives | resolve an edition, its fallback, its pages | no page shows what was not public during its request |
| `live-state.ts`, `useLiveStatus.ts` | the badge of a page and its timer | candidates, then their access | a match that is on all the while is not overlooked; the badge catches up |
| `broadcasting.ts`, `LiveGameClient.tsx`, `stat-events` | the rows of a detail, the messages on the way, the page | render, join, merge what is sent | the page shows what the rows say, and they add up |
| `match-timeline.ts`, `MatchTimeline.tsx` | the list, its filter and cursors | filter, extend, receive | no event is left out |
| `GlobalSearch.tsx`, `api/search` | the text, the results, searches that wait or run | type, abort, send, receive, choose | the panel shows what was found for its text, or waits for that, or says that it failed |
| `ExploreClient.tsx` | the question, the address, the answer and one that is about to be rendered | ask in five ways, abort, answer, render | the answer is that of the address |
| `settings/page.tsx`, `MatchActions.tsx` | what is shown as saved, the requests under way | load, save, remove, take back | what is shown is what is saved |

### Access, operation and measurement

| Part | State | Operations | Correct when |
|---|---|---|---|
| `auth.ts`, `api/auth/signup`, `user-resource-route.ts`, `request-security.ts` | users, saved resources, windows of requests in a Map | sign up, sign in, save, remove | limits hold under overlapping requests; what was answered as saved is there |
| `scoped-database-boundary.ts` | the shared verdict on a role | probe, share, expire | no verdict outlives its probe and its life |
| `scripts/production-smoke.ts` | the evidence of a run | ten checks with retries | a smoke that passes saw what it says |
| `scripts/production-glasgow.ts`, `scripts/lib/glasgow-production-guard.ts`, `production-target-guard.ts`, `production-psql.ts`, `preview-database-target.ts` | evidence files, the environment of a child process | wrap a command, check target and evidence before it acts | what is done to production is accounted for by evidence that stands |
| `scripts/monitor-navigation-performance.ts`, `server-timing.ts`, `scripts/summarize-server-timing.ts` | samples, counters, a log | observe, sum, gate, exit | success means that all of it was measured |
| `verify-preview-*.ts`, `provision-*` and `ci.yml` of a rehearsal | the ledger, the schema, the roles and grants of a preview | verify, record, deploy, provision, verify again | what is recorded is there; what passes is as it was reviewed |
| `scripts/stress-phase2-memory.ts` | the server it starts, its monitor, samples and failures | start, send waves, probe, stop, judge, clean up | a verdict has a reason; no server is left behind |

### How the parts interact

`worker.ts` calls ingestion, then processing, which writes through transactions
and rebuilds the standings in them. After a commit it calls broadcasting, which
looks the match up through `public-match.ts`, reads the row again and emits
through `socket-server.ts`, which looks it up once more. The same functions
serve a `match:subscribe`: a completed match is replayed to the room. Imports,
publication and scripts change the same tables from other processes. What makes
the behaviour hard:

- every `await` is a place where another process, poll, request or socket event
  comes in between, and what was read before it may be old after it;
- answers of the upstream may be late, wrong, missing or contradict earlier
  ones; any request, transaction or log update may fail; a process may die
  between any two steps and only the database survives;
- lookups that overlap share one promise, so a check made *now* may rest on a
  read made *earlier*;
- pages reconnect, to the same or to another process.

`PROJECT.json` lists the components with the status of their models, and every
hazard at the line where it bites with the properties that guard it.

## 2. Modules

| Module | Models | Kind |
|---|---|---|
| `CanonicalResult` | what a reader may see of a match's result | abstract specification |
| `MatchRevision` | one poll cycle of any number of workers, for one match | detailed specification; refines `CanonicalResult` |
| `MatchRealtime` | broadcasts, subscriptions, shared lookups, one page | detailed specification |
| `WorkerSchedule` | polls, timers, start and stop, the health record | part of `ServerProcess` |
| `ServerProcess` | one process from its start to its exit, with the requests and rooms of its sockets | composition with `WorkerSchedule` |
| `ResultLifecycle` | how the result of a Glasgow match may change | abstract specification |
| `GlasgowResults` | the official feed and the operator's files, on one writer | detailed specification; refines `ResultLifecycle` |
| `GlasgowRecovery` | `GlasgowResults` with a provider that may come to rest | liveness |
| `FoundationImport` | plan, record, apply and repeat a bundle | part of `EditionPublication` |
| `EditionPublication` | an edition from its bundle to the public, with results | composition |
| `AnalyticsEpoch` | the tables, views and triggers of one edition | part of `SnapshotCache` |
| `SnapshotCache` | rankings and records, shared and cached under the epoch | composition |
| `ResultsFeed` | the archive of results, read page by page | part of `SiteParts` |
| `MatchDay` | what the site says of the matches that are on | part of `SiteParts`, `MCQuietWorld` |
| `SimulationControl` | the simulator's requests and rows | part of `SiteParts` |
| `SimulationPlay` | how a simulated match plays | part of `SiteParts` |
| `NavigationMonitor`, `TimingSummary` | what is measured of pages and of server operations, to the exit code | parts of `SiteParts` |
| `MatchTimeline` | the play by play of a match and its reader | part of `SiteParts` |
| `SiteParts` | the nine parts of the site, for all constants | composition |
| `LivePage` | the rows that details are written to, and the live page over them | part of `SiteParts` |
| `SourceIdentities` | the rows of teams and players that the revisions of a bundle are written to | part of `SiteParts` |
| `OfficialFeed` | one fetch of the official feed for a date | part of `ServiceParts` |
| `EditionPages` | the pages of editions while they are published and withdrawn | part of `ServiceParts` |
| `ScopedDatabases` | the verified access to a scoped database role | part of `ServiceParts` |
| `ProductionSmoke` | the smoke of a release against a site that changes | part of `ServiceParts` |
| `StatQuestions` | Ask CentrePass, from the request to its record | part of `ServiceParts` |
| `Accounts` | sign-up, sign-in and saved resources of overlapping requests | part of `ServiceParts` |
| `ProductionGuard` | which database an operator's command reaches, and its evidence | part of `ServiceParts` |
| `ReaderControls` | the search box and the two reads of its search; the page of Ask CentrePass, from a question to its rendering; what a reader has saved, on the pages that show and change it | three parts of `ServiceParts` |
| `MemoryStress` | the memory stress of a release and the server it measures | part of `ServiceParts` |
| `PreviewRehearsal` | the rehearsal of a release on a preview that others change | part of `ServiceParts` |
| `ServiceParts` | the twelve services, for all constants | composition |
| `*_proofs` | theorems of the module they are named after (`Parts_proofs` of `ServiceParts`) | proofs |
| `MC*` | symmetry sets and the data of TLC's instances; `MCSiteParts` adds the room (`MatchRealtime`) to `SiteParts`, `MCQuietWorld` composes what is to come to rest, and has the quiet upstream of `MatchRevision` | model checking |

A serializable transaction is one action everywhere. A retry after a conflict
begins again from nothing, so it is the same action later; where the code has no
retry (`applyWithMode`), the failed transaction is an action of its own.

### MatchRevision

The state is the match row (`row`: status, result quality, score,
`sourceRetrievedAt`, `sourceUpdatedAt`, whether a detail was ever stored), its
contribution to the standings (`ladder`), the open `final-detail-correction`
logs (`openFix`, `lostFix`), and for each worker the poll it is in (`job`): a
label for the `await` it is at, the tokens of its requests and what they
answered. Labels follow the code in order; each action is the code between two
awaits.

| Labels | Code |
|---|---|
| `idle`, `fixture`, `detail` | `ingestFromChampionData` |
| `filter` | `filterSupersededFixtureObservation` |
| `sync` | `syncFixtureMatches` |
| `live` | the transaction on one detail in `pollChampionData` |
| `reconcile` | `reconcileCompletedMatches` |
| `detect`, `detectTx` | `detectStaleCompletedMatches`: the read and the conditional update |
| `plan` | `reconcileStaleCompletedScores` and the scans for pending and corrected results |
| `finalRead` to `finalClear` | `finalizeCompletedMatches` |

Abstractions: the score stands for the whole canonical detail; whether the
clock of a LIVE row says that it has ended is a free choice; workers' clocks
agree, and two requests may fall into one instant; teams, venue and stage of the
fixture are left out. Every failure in the code is an action: of a request
(`FixtureFailed`, `DetailFailed`, `FinalFailed`), of a write (`SyncFailed`), of
a whole poll (`PollFailed`) and of the process (`Crash`).

### MatchRealtime

The row is what `loadPublicMatchAccess` reads; `lookup[p]` is the pending
promise of process `p`; a task is a broadcast of a worker or a subscription with
the label it waits at. `AwaitAt` joins or starts a lookup, `ReadLookup` is the
query's snapshot, `ResolveLookup` answers every task that shares the promise,
and `Turn` says that a process runs the continuations that are ready before it
handles another event. `score` stands for `score:update` and `match:status`,
which carry the match row, `flow` for the collections, each of which is read by
a query of its own after a lookup of its own. A payload is the revision of the
row it was read from: in `MatchRevision` a score changes only under a newer
revision (`RevisionsOrderScores`, a theorem), so equal revisions mean equal
scores. The page is `useMatchSocket`: the newest revision it has seen and what
it shows. Delivery to a connected page is immediate; an event to a page that is
not connected is lost. The hook's `enabled` flag is not a variable: the live page is
only rendered with it set (`live/page.tsx:166, 281`), the court page with what the
match was then, and no code renders a mounted page again (there is no
`router.refresh` or revalidation), so `latestRevisionRef` is not reset under a page
that goes on showing what it had. Every live commit is taken to change the score, and the
readiness, capability and stage conditions of `public-match.ts` are the
one flag `public`. `Disturbances` names the kinds of events an instance takes
place among (a lookup that fails, a lookup begun by another request, a commit, a
closed page, a revocation); all of them are the code's, and the small instances
divide them up.

### WorkerSchedule and ServerProcess

`chain` says where the one chain of polls is: in a poll, in the lookup of the
live state that follows it, in a timer. `pollTimer` is the instant at which the
timer is due. Time passes during all of them, and a timer may fire late by any
amount. `health` is the record on the Node global, `Healthy` what
`getWorkerHealth` answers from it. `punctual` is a history variable: polls,
lookups and timers have kept within their bounds so far. `extra` counts the polls
that began after the worker was stopped: `scheduleNextPoll` looks at `isRunning`
before its lookup, `stopWorker` clears a timer that is not set yet, and the
callback of the timer does not look again, so there may be one.

`ServerProcess` keeps for its sockets (`RoomsNext`) `requested`, the closure variable
`requestedMatches`, and `waiting`, the subscriptions whose lookup is in flight. The
answer of a lookup is free.

The process begins with the gate: which environments may serve, whether the
worker starts, whether a simulation is cleaned up after. Requests are a count, and
each may last for ever. `Shutdown` is the handler of a signal in `server.ts`: it
stops the worker, asks both servers to close, and sets the deadline. Each
closure's callback is an action, and the last one exits. External to the
repository: Node calls back when no request and no socket is left; Socket.IO
detaches some time after it was asked to close. A signal before its handler is
installed ends the process with a code that is not success. That `startWorker`
rejects is left out, as each source of a poll catches what it throws.

### ResultLifecycle, GlasgowResults and GlasgowRecovery

`row` is a match with its slots, its periods and the coverage of them; `table`
the pool standings; `log` the inputs of the imports that wrote, in order, and
`latest` the newest receipt, which may be that of a replay; `previews` the dry
runs an operator has recorded; `job` each worker's sync.

| Actions | Code |
|---|---|
| `StartSync`, `ReadMatches`, `ReadReceipts` | `syncOfficialGlasgowResults`: its instant, and two queries in either order |
| `Fetch` with `Plan` | the requests and `planOfficialGlasgowUpdates`, on what was read |
| `ApplyScheduled`, `ApplyRefused`, `ApplyFailed` | one planned result in `applyScheduledGlasgowResultsInput` |
| `RecordPreview`, `ApplyManual` | the guarded workflow with its token |
| `Valid`, `Clean` | `validateGlasgowResultsInput`, `buildDatabasePreview` |
| `RowsAfter`, `Blocked`, `Standings` | the writes of `applyWithMode` |

`agreeing` and `newest` are history variables for two properties and no action
reads them. Abstractions: a checksum is the position of its input in `log`; of
the periods we keep how many there are and what they add up to; `OFF` is
delayed, postponed, cancelled or abandoned; an observation that is ambiguous or
malformed is one that was not made; a file has one or two results.

`ResultLifecycle` is the table of accepted transitions of
`docs/runbooks/glasgow-2026-live-feed.md` with the status and quality rules of
`docs/runbooks/glasgow-2026-results.md`: it knows nothing of syncs, receipts or
teams. `GlasgowRecovery` gives the provider a state and lets it come to rest.

### FoundationImport and EditionPublication

`runs` is the sequence of successful receipts, `known` the mapped identities,
`rows`, `slots` and `squad` the content, `job` the command an operator is
running. A command plans outside any transaction, and its plan is bound to what
it saw: a checksum is the bundle, a plan is the bundle with the identities of it
that were mapped, as these decide between INSERT and UPDATE. `Apply` and `Replay`
are one transaction each, which locks the competition row (`FOR UPDATE`) and
decides again on what is stored then. Receipts are ordered by their commits.

`ReadEdition`, `PrintToken`, `AcceptToken`, `Publish` are `publishEdition`: its
first query, the parallel reads and the decision (one step), and the transaction,
which reads nothing. A token is the two receipts it names. `StartMatch` and
`FinishMatch` stand for `GlasgowResults` while the edition is public.

### AnalyticsEpoch and SnapshotCache

`AnalyticsEpoch` holds the rows of one edition of which the analytics views make
a difference (`match`, `slotted`, `stats`, `coverage`, `imported`, `structure`)
and what the views show of them (`views`, after the migrations that define
`competition_directory`, `player_match_read`, `team_power_match` and the
directories). A `Write*` is one committed transaction on one table; whether it
advances `epoch` is decided by its branch of `queue_match_invalidation`. `version`
is a history variable, the commit that last changed each view. Two transactions
that are open at once and whose triggers do not see each other are not
represented: the writers of a match hold its row, and the importers are
serializable.

In `SnapshotCache` a request (`Ask`) reads the epoch, forms its key and joins a
flight or starts one (`Join`, which is `runAnalyticsSnapshotSingleFlight`). A flight
looks its key up (`Hit`, `Miss`), else reads one view after another (`Load`) and
stores the answer (`Land`). Without an epoch or a key the request reads for itself
(`DirectRead`). A query's answer is represented by the `version` of its view, so
the pieces of one answer may be of different moments, as in the code, where no
transaction spans the queries. Records have two flights: one for the editions,
which become part of the second key, unless the page has brought the ones it
listed. `people` stands for the directory queries after the facts, `Expire` for
every way in which an entry leaves Next's cache. That Next may recompute an entry
in the background is not represented: the result is that of a flight for the same
key.

### The parts of the site

`SiteParts` composes nine parts that share no state: `part` says which one a
behaviour is of, and the others stay at rest. It is a specification with CONSTANTS
of its own, about which theorems are stated; `MCSiteParts` gives TLC its values and
adds the room of a live match. Each part is a module of its own, and what follows
is how its state and actions correspond to the code.

- **`ResultsFeed`**: `cached` holds the list of candidates of each cursor, for up to
  15 minutes, `walk` the request in progress with what it has read (list, rows,
  access), `pages` what the reader was served. A page is three reads, with commits
  between them; the scan limit and the continuation cursor are those of
  `home-feed.ts`. A list is a set, as its order is that of the archive. A result has
  one of two scores and its `sourceUpdatedAt`, which an observation moves (`Observe`), a
  completion by the fixture alone and a change of coverage do not (`Relabel`), and an
  import may leave as it is under another score (`Restate`). `rewritten` and `restated`
  are history variables of `CardsAreCurrent`: a card on the client's pages shows the
  score of its match unless that was observed since it was served. While the edition
  is not public a request is answered 404 and nothing else changes, so that is left out.
- **`MatchDay`**: `reading` is the one reader at work (the worker's interval, the
  live hub, the badge), between its candidates and their access; `badge` is the
  snapshot of `useLiveStatus`, `watching` its listeners, `pollTimer` its timer.
  `steady` is a history variable: the matches that were live, or due, ever since the
  reader began, and whether its lists had room (`MAX_LIVE_STATE_CANDIDATES`).
- **`SimulationControl`**: `sim` is the state object, replaced as a whole; a start
  holds a reference to the one it made over its `await`. `rows` are the rows in
  the database, each with the number of the start that made it. **`SimulationPlay`**
  is `tickMatch` with the operator's jumps, and what `data-generator.ts` serves.
- **`NavigationMonitor`**: one sample after another (idle page, hover, click,
  navigation), with requests that begin, are answered, aborted or sized at any
  moment; gates and exit code from the counters. `history` is what the samples
  were, whatever was counted of them. **`TimingSummary`**: `read` is the input byte by
  byte, `scan` what the scanner keeps of the pending line, `sums` and `samples` the
  counters from which the gate on attributed time is decided. Operations, phases and
  queries are counted by group, with the limits on groups, on the samples of a group
  and on all of them.
- **`MatchTimeline`**: the two tables a page merges, the route's cursor, and the
  list with its filter; loads that overlap a change of filter or another load are
  answered in any order. A query takes one row more than a page holds, counted from
  the second of the cursor on, as in the code.
- **`LivePage`**: `applyChanges` and `writeFinalStats` on rows
  of players, score flow, scorers and inferred events; the messages of a revision,
  which are dropped when the next revision has been applied; joining, missing and
  merging them in `LiveGameClient.tsx`.
- **`SourceIdentities`**: the commands of the import on teams, entries, players,
  mappings and coverage, beside the rows of the league: a preview, its record, an
  apply with its checks (a whole transaction of `prisma-writer.ts`), a repetition.

### The services

`ServiceParts` composes twelve parts in the same way, but as a specification with
its own CONSTANTS, so that theorems can be stated about it; `MCServiceParts`
gives TLC its values.

- **`OfficialFeed`**: `nextIndex` and `failure` are the closure variables that the
  two loops of `fetchPhaseResultsWithConcurrencyTwo` share; `heard` is a history
  variable, all that well-formed answers reported.
- **`EditionPages`**: `status` is the stored state of each edition and `cached`
  what Next's caches hold; `page` is a request at the read it has got to.
  `wasReady` is a history variable, the editions that were ready at some instant
  of the request.
- **`ScopedDatabases`**: `entry` is the shared probe and its verdict with its life;
  `drifted` is the privilege that is not as reviewed; `since` is a history variable,
  since when the role can, or cannot, be used. No code but the tests empties the cache,
  and nothing passes `forceRefresh`, so an entry is replaced only once it has expired.
- **`ProductionSmoke`**: `attempt` is the request under way with its retries,
  `checks` the outcomes so far, `files` the evidence; `held` is a history variable,
  the checks the site has satisfied at some instant of the run.
- **`StatQuestions`**: `buckets` are the counters in the database, `cache` the
  results of the process under the epoch each was read for, `request` each
  question with the epoch it has read and the answer it has; the parser's verdict
  is computed from words, entities, metric and scopes as in the source.
- **`Accounts`**: `saved` is the rows of a user, `handler` each request at its
  `await` (`request` in the module); a save creates its row, counts, and takes the
  row back when there are too many. `rateLimits` is the Map in its order of use;
  `uses` and `told` are history variables, what was counted and what was answered.
  An account may be the Google provider's (`EnterWithGoogle`): it has no password, a
  sign-up with its address is answered as any other, and no password opens it.
- **`ProductionGuard`**: `run` is each run of the wrapper with the command it
  starts, `evidence` what was left in each file, `last` the last deed on a database,
  by whom and where. Each start has a shell, and so an environment, of its own; the
  clock may be set to any time; `psql` and the tools for a preview have shells of
  their own kind.
- **`ReaderControls`**, the search box: `tasks` are the searches that the cleanup of
  the effect has not aborted, each at its timer, its request, or between the two reads
  of `api/search`; `access` is what the public may see of each player, team and match,
  and `witnessed`, a history variable, what it could see since the text was typed.
- **`ReaderControls`**, the page of Ask CentrePass: `flights` are the requests that
  `abortRef` has not aborted; `response` is what is rendered, `coming` what a pending
  transition is about to render. A later update of the same state is applied last, so
  a failure leaves nothing to come.
- **`ReaderControls`**, saved items: `rows` is what the server has, `shown` what the
  open page shows; a call holds what was shown before it (`was`), which is what a
  failure sets again: a team or a button alone, a list of the settings as a whole.
  `strained` is a history variable: items whose requests met another of their list, or
  the first load, or were lost.
- **`MemoryStress`**: the harness at its step, its monitor beside it, and the server,
  which may grow, print a rejection, answer badly, hang or end at any time;
  `troubled` is a history variable: whether anything but the stop went wrong.
- **`PreviewRehearsal`**: `job` is the command of the workflow and its step, `ledger`
  the rows of `_prisma_migrations`, `effects` how much there is of what each migration
  makes, `roles` and `acl` the privileges. Any step may be the last one of a
  rehearsal. People change the same preview by hand between any two steps (`altered`,
  `quiet`: history variables, which migrations they changed and whether they changed
  anything during the rehearsal). Prisma's own commands are external; the query that
  shows the effects is left out, and so is the proof of the telemetry, which rolls back.
  A rehearsal that ends between two of its four `migrate resolve` leaves a ledger that
  is neither empty nor complete, which the next one refuses: the model reaches it.

### The quiet world

`MCQuietWorld` composes, in the same way, what owes something once its
surroundings are quiet: a worker of `MatchRevision` with an upstream that may come to
rest (`RecoveryNext`, written there), `GlasgowRecovery`, `MatchDay` and
`MatchRealtime`, each with its fairness while it is at work.

## 3. Runs

| Run | Bounds | Question |
|---|---|---|
| `match_revision_two` | 2 workers, 2 scores, 3 instants (895,624 states) | Do the standings, the official result and the ordering tokens stay right whatever two overlapping workers do and whatever fails? Does the row follow `CanonicalResult`? |
| `match_revision_pending` | the same | Is a completion that only the fixture reports kept out of the standings? (no) |
| `glasgow_feed` | 2 workers, 1 match, 3 instants, 3 imports (923,470) | Does a result become official only when two polls agree, and does only fresh information change it, however two syncs overlap? |
| `glasgow_manual` | 1 worker, a semifinal and its final, 4 files, 2 dry runs, 4 imports (398,555) | Do bracket, teams, periods and lifecycle hold when an operator's files and the feed interleave? |
| `glasgow_batch` | a file of two results that contradict each other | Does the bracket follow the results? (no) |
| `edition_publication` | 2 operators, a bundle and its revision, 4 receipts (887,652) | Do the receipts tell the content, is a bundle written once, do results survive a revision? |
| `edition_revision` | 1 operator, a revision that replaces a player | Can a revision be published? (not this one) |
| `server_process` | 1 socket, 2 matches, 1 request, 7 instants, intervals 3 and 4 (908,358) | Is health truthful, is a socket only in the room it asked for last, does a shutdown end? |
| `snapshot_cache` | 2 requests of any kind, 1 transaction, a gated fixture of 2 matches, 2 values (919,756) | Can a change of what the views show escape the triggers? Can a ranking or record be older than its request? |
| `site_parts` | the parts of `SiteParts` and the room, below (2,287,720) | Can an event that names a revision carry something older, or a page go back to an earlier score? Is the archive walked once, is a match that is on overlooked, do simulation, measurements, play by play, live page and sources agree with what they are of? |
| `service_parts` | the parts of `ServiceParts`, below (1,774,686) | Do pages, verdicts, smokes, answers, accounts, fetches, production commands, the boxes and buttons of a reader, a stress and a rehearsal keep to what they were told, when their reads and the world interleave? |
| `quiet_world` | one worker each, 6 instants (`MatchRevision`), 1 file (`GlasgowResults`), 1 match and 2 components (`MatchDay`), 1 process, 1 subscription, 2 revisions (`MatchRealtime`) (147,472) | Does a completion, correction or live score reach the row, a final result become official, the badge catch up, a live update or a replay reach the page? |

Why the bounds are enough for the cases that matter.

- Two workers give every pair of an older and a newer observation, in both
  orders of request and of commit. Three instants let a fixture, a detail and a
  final request of the two be ordered in any way, with ties. Two scores tell a
  change from a repetition; the data plays no other part.
- For recovery one worker suffices, as the question is what one worker owes the
  match. Tokens are re-based between polls (`Rebase`), receipts forgotten
  between syncs (`Forget`), so that polls may repeat for ever in a finite model.
- Three revisions let a commit fall before, between and after the lookups of a
  broadcast. Failing lookups and lookups begun by other requests double every
  interleaving, so that instance (`Disturbed`) has two revisions.
- In `server_process` seven instants hold two intervals, or an interval and a
  shutdown with its deadline; a poll may be late by more than the longest
  interval. One socket that changes its mind meets every order of requests and
  answers, as sockets do not touch each other's rooms; one request is one that is
  open during a shutdown. The deadline is shorter than the intervals, as in the
  code outside a simulation (5 s and 30 s), but a late exit lets a timer fire
  during a shutdown. The intervals exceed twice the lag, as the code's do.
- In `glasgow_feed` three imports are a result, its repetition or correction,
  and one by the other worker that planned on an old state. In `glasgow_manual`
  four are the semifinal, its correction, and the final or the feed in between.
- In `edition_publication` four receipts are a dry run and an apply of each of two
  bundles, or the same with a repetition; two operators plan and begin in any
  order. One fixture takes the winner of another, and the revision replaces a
  player and brings a result, so each branch of the writer that keeps or
  overwrites state is met.

- In `snapshot_cache` one transaction of every kind, from an edition before its
  first result or in the middle of its fixture, meets every step of two requests
  that share a flight, an entry, or neither. `Gated` makes the edition the one
  whose directory row depends on its whole fixture, where most can go wrong for
  the triggers. The theorems cover sequences of transactions.

- In `site_parts`: an archive of four results with pages of one and scans of two
  has a page that is refilled and one that ends at the scan limit; two matches an
  hour apart with days of two hours let one begin while another ends, and a list of
  one has room for one of them; three
  control requests are two starts and a stop in any order; periods of two ticks
  have a first and a last one; one request and one mishap meet each step of a
  sample; a log of three lines, in five bytes of twelve kinds of event and two line ends,
  has every neighbourhood of them, a group with its two samples and a third too many; seven rows put a cursor between entries of one second of both tables,
  and three of one table at one second are more than a page of two leaves room for;
  three details add, take back and leave out; five
  revisions of a bundle swap a slug, review players, have one under another identity,
  and take the slug of a club of the league.
- In `service_parts`: two editions, one of them with the Glasgow gate, are enough
  for a fallback to be wrong; lives of 4 and 2 timeouts order every probe and
  expiry; one retry and one change of the site fall at each check; two questions
  of nine kinds and one commit share an entry or not; two requests of a user at a
  time, three in all, with a limit of one, are the second and the one too many;
  three phases for two workers leave one to be taken; two runs of the wrapper and
  one name of a file let evidence of one be found by the other, one tick after it
  was written, when it is too old; two texts of the search box and two changes of
  what is public put a withdrawal and its reverse between any two steps; three
  questions give an answer that is rendered, one that is coming and one that is
  asked; two teams and a list of two matches with two requests at a time are two that
  share what is set again, and two that do not; two waves of two requests with one
  advance are a wave that it follows and one that it does not; two rehearsals and one
  change by hand, on a chain of six migrations, are one that finds what the other has
  left, and each of its steps with a change before and after it.

Deadlock is not checked where the system may really stop: the instants,
revisions or receipts of the bounded models run out, a process exits, a part has
done all its bounds allow.

Each property is paired in `PROJECT.json` with a mutation of the model that
stands for a plausible bug (a dropped guard, a rebuild before the write, a
missing first lookup...) under which the same run refutes it. The mutated
operators are next to the originals in the modules, under a comment that says
"A mutation"; no specification uses them.

### Fairness

- `MatchRevision` with its upstream and `GlasgowRecovery` (in `quiet_world`): a worker
  that can take a step takes it (`Work`), since the chain of timers in
  `scheduleNextPoll` never ends while the process runs, and every request has a time
  limit, so it is answered or fails. `Rebase` and `Forget` keep the model finite and
  take nothing from the code. Nothing says that the world ever becomes calm; the
  properties speak of behaviours in which it does. `FinalBecomesOfficial` names two
  states it excludes, and in both the system waits for an operator by design: a final
  result below a live score the provider once gave (`Overshot`), and an unofficial
  result whose periods only an operator brought (`OperatorsOwn`).
- `MatchDay`: the interval of the badge runs (`Poll`) and a read that has begun is
  answered (`Read`). Matches, hours and readers are not fair.
- `MatchRealtime`: the database answers a query (`ReadLookup`), its promise is
  resolved (`ResolveLookup`), and Node runs a continuation that is ready
  (`Proceed`). Commits, requests, revocations and reconnections are not fair.
  This instance leaves out failing lookups: the code drops an update whose lookup
  fails, by design.
- `ServerProcess`: time passes, and a timer that is due runs. Nothing is said of
  requests, lookups, polls or closures: a shutdown ends without them.

## 4. Proofs

Each theorem holds for every value of the constants that meets the named
assumption of its module. Every one of them rests on an inductive invariant,
shown to hold initially and to be kept by each action, and on
`Spec => []Invariant` by temporal logic.

**`MatchRevision_proofs`** (any workers, scores, bound on the clock):
`TypeCorrect`, `LadderCorrect`, `OfficialProtected`, `RevisionsOrdered`, the
invariants and the action property of `match_revision_two`, and `Refinement`, that
`Spec` implements `CanonicalResult`. They rest on `Invariance`,
`Spec => []IInv`. The stated invariants are not inductive: that a first
finalization never replaces an official result holds because making it official
needs a detail newer than the fixture the attempt rests on. `IInv` therefore adds
how the row's tokens relate to its status and quality (`RowFits`), when a
correction log can be open (`CorrectionsFit`), and what a worker's poll knows at
each label about its fixture, its detail and the row (`PollFits`,
`AttemptFits`). One lemma per group of actions shows that it is kept.

**`MatchRealtime_proofs`** (any processes, subscriptions, revisions, disturbances):
`EventsAreCurrent`, that no versioned event is older than its label and a score is
exactly its label's. Its invariant (`TaskOK`) says that nothing a task expects or
has been answered is from the future and that what is about to be sent is what
was expected. It does not mention which lookups are shared: that is why the
argument survives any sharing. `ScoreGoesForward`, that a page never goes back to
an earlier score, rests on `ScoreInv`: every broadcast that waits expects a revision
(`Versioned`), and the score on the page is not newer than the newest revision
the page has seen, so that what the page accepts is not older than what it shows.
Its hypothesis is `0 \notin FirstRevisions`, that the match has a revision when the
page opens: a match without one is replayed without a comparison
(`socket-server.ts:118`), and its replay may show an older score.

**`GlasgowResults_proofs`** (any workers, matches, bracket, provider and files):
`TypeCorrect`; `SlotsFollow`, `StartedKeep` and `StandingsCount`; `PeriodsAddUp`
and `FreshestWin`; `OfficialIsConfirmed`; and `ResultsFollowLifecycle`, that `Spec`
implements `ResultLifecycle`. In the first seven nothing is assumed of what a sync
has read or planned, as it may be out of date: the arguments use only what the
transaction validates again and how it writes. `BracketInv` adds to the stated
properties that a match's teams and its slots agree, that a match which has
started has two teams, and that a completed result has a final quality (`Settled`).
`SlotsFollow`, `StartedKeep` and `StandingsCount` assume `SingleResults`, files of
one result, which is what the feed sends; for files of two the run `glasgow_batch`
shows that the first fails. The refinement is proved for both: two results of a
file are of different matches, and each is one step of its match. `FreshestWin` is
that an accepted result older than the row is a repetition of it (`FreshStep`);
`PeriodsAddUp` that a write either brings periods that were validated against its
score or withdraws the coverage of those it keeps. `OfficialIsConfirmed` does
depend on what a sync read: `ConfirmInv` says that what was read as completed is
completed still (`ReadCompleted`), since nothing reopens a result, that a sync makes
official only what is completed (`PlannedOfficial`), and that every completed row has
been observed at least once (`ObservedOnce`); that the row may have been corrected
since the read does no harm, as the promotion is then refused unless it repeats
what is stored.

**`EditionPublication_proofs`** (any operators, bundles, squads and receipts):
`TypeCorrect`, `ContentInvariance`, `OneRoot`, `PublicIsFrozen`, `Participants`,
`HiddenResults`. The arguments are short where the transaction decides on what it
reads under its lock, and `TypeInv` carries that a match has a row exactly when it
is mapped.

**`ServerProcess_proofs`** (any intervals, lag, deadline, sockets, requests):
`NoFalseAlarm`, `StoppedWorkerEnds`, `OneRoomPerSocket` (of `RoomsSpec`),
`RoomsFollowInProcess`, `SuccessIsDrained`. `WorkerInv` adds how the record of
health, the timer and the time relate at each place of the chain (`ChainFits`) and
what is left after a stop (`StopFits`); `ClosureInv` ties the count of pending
closures to the two servers. `NoFalseAlarm` needs `ScheduleAssumption`, that every
interval exceeds twice the lag: a timer and a lookup may each be late by it before
the next poll begins.

**`SnapshotCache_proofs`** (any matches, fixture, requests, transactions):
`TypeCorrect`, `ViewsFollow`, `AnswersStayCurrent`. `QuietWritesAreUnseen` is the
heart of the second: a write whose trigger stays quiet leaves the official
matches, their rows and the gate as they were, and `UnseenChange` shows that the
views read nothing else. The third rests on it: `CurrencyInv` says that what a
flight or entry of the current epoch has read is what the views still show
(`StoredInv`), that what is stored under a request's epoch is as new as the
request (`PairInv`), and the same of what the request has read (`RequestInv`). A
request that reads the epoch enters `PairInv` by `StoredInv`; a transaction keeps
`StoredInv` by advancing the epoch.

**`Parts_proofs`** (`ServiceParts`): the parts share nothing, so each has an
invariant of its own, proved of its own specification (`AskedIsSafe` and the like);
`XAlone` then says that a behaviour of `PartsSpec` is either one of that part from
its first state, or never at work in it, and the two give the theorem about
`PartsSpec`.

- `AnswersFollow` (Ask CentrePass, its page and the search box; any questions, clients,
  limit and texts). `AskedInv`:
  the counters of a minute are what was granted in it and no more than the limit
  (`CountsStand`); what the cache holds was read at its epoch or later
  (`CacheStands`); and what a question has read, been given and been answered is not
  older than its beginning (`RequestStands`). `ParsedIsSound`: what the parser and
  the validation let pass has only scopes that its executor passes on. `SearchInv`
  says of each search what it has read and of which text (`TaskStands`), and that
  none is of another text than the box; that the answer on the page is of its address
  is inductive as it stands.
- `AnswersAreComplete` (the fetch of a date; any number of workers). `FeedInv`: a
  fetch at rest holds nothing (`AtRest`); under way, each index up to the next is in
  flight, answered, or lost to a failure (`UnderWay`), and each answer came to what
  was heard.
- `ChecksFollow` (verdicts, smokes, the memory stress and the rehearsal). `ScopedInv`: a
  probe that is not settled is not older than the timeout, a verdict expires at its life, and
  either says what was so since it began (`ProbeHolds`, `AnswerHolds`). `SmokeInv`:
  what the site satisfies now is among what it was seen to satisfy. `StressFlow` is
  where the harness and its monitor may be together, `StressCauses` that what is held
  against the server came of the server, as no probe or request is left when it is
  stopped, and `StressJudged` what a verdict was of. `PreviewInv` adds to
  `LedgerIsEarned` what has been verified or made and is not recorded yet
  (`PreviewVerified`), which a change by hand does not take away, as what it changes is
  excepted; and, while nobody else is at work, what each verification has found
  (`PreviewStands`), which no later step of the rehearsal undoes.
- `PagesFollow` (any editions, seasons and page size). `PagesInv` says what was seen
  of the publication (`Seen`), where the walk of the editions has got to
  (`WalkStands`) and what the page has chosen and read (`PageStands`). That the live
  hub falls back on the newest ready edition, over pages with a cursor, rests on
  lemmas on the order of editions (`OrderIsStrict`, `FirstIsOffered`,
  `CandidatesSuffice`).
- `AccountsFollow` (any overlapping requests and any things to save). `AccountsInv`
  has the rows that were made but not yet counted, of each request (`RowsStand`), what
  is left without them within the limit (`CountedStand`), the passwords that a sign-up
  is about to write (`PasswordsStand`). For the rates `RatesInv` says of the uses of a
  scope what the property does not (`ScopeStands`): the open count is of the last
  uses, all within the open window, and the uses before them but for a limit's worth
  are older by two windows; so a new window after a full one never holds two limits
  within one length. `SavedInv` says of each request of a page at each of its places
  how what is shown, what is saved and what is to be set again agree (`CallsAgree`),
  and that without requests they do (`RestAgrees`); `OthersKept` is that setting a
  list again touches only items that the request has strained.
- `GuardCorrect` (any shells, commands, runs and files). `GuardInv` says of each
  run (`RunStands`), each file (`FileStands`) and the last deed (`DeedStands`) what
  they are of: what a command believes of a file is what its own wrapper left in it,
  since a nonce is of one run, and the file was fresh when it was looked at.

**`SiteParts_proofs`** (`SiteParts`): here the steps of a part are those of the
composition in which it is at work (`PartAtWork`), so each invariant is proved of
the composition directly. What a recursive function over numbers computes is proved
by a least counterexample (`LeastNumber`): a function is given the equation it
satisfies (`IsRun`), and the first number at which a claim of it fails contradicts
the equation there.

- `ArchiveWalked` and `CardsCurrent` (any number of matches, sizes of a page and a
  scan, writes). `FeedInv`: every cached list, and the one the walk has read, has
  whatever is public and unchanged all along below its cursor, as far as it reaches
  (`ListsCover`); the rows are of matches of the list (`RowsStand`); what the walk
  has passed was shown, once, and what was shown is not below the cursor
  (`WalkedSoFar`). That a list may be old does no harm, since it can only lack what
  has changed. That a set of matches has a first and a last one, which the cursors
  are made of, rests on `LeastNumber`. For the cards, `CardsInv` adds what a revision
  tells between the two reads (`RevisionsTell`): it never falls, and one that is the same
  is of the same score unless an import replaced the score under its date; and no match
  of a new page has a card already (`WalkedSoFar`).
- `NoGaps` (any rows, filters, sizes of a page, overlapping requests). `ReaderInv`:
  the list ends at its cursor and leaves out nothing that the filter wants but what is
  newer, older or crowded out (`ListStands`), and at most one request of the present
  filter is under way, for what follows the cursor (`RequestsStand`); what the route
  answers continues the list (`PageStands`). Rows recorded meanwhile are newer than
  all that there are.
- `RowsFollow` (any clients, slots and starts). The property speaks of the moments
  between two requests, and `ControlInv` of those within: a start that waits has made
  the rows up to the slot it has come to (`StartStands`); of any number of stops that
  overlap at most one has deleted rows, of the matches that are served, and the others
  find the first of theirs gone and end (`StopsStand`); and the matches that are served
  are those of the last start, whole (`MatchesStand`).
- `NothingIsOverlooked` (any matches, schedule, listeners, length of the lists).
  `DayInv`: what the history calls steady is so still (`SteadyHolds`), and once a list
  with room was read, the steady matches are in it, in their present state
  (`SteadyRead`). The property is about readers whose lists had room; one that had none
  reads the earliest, and `RoomForAll` is where that is used.
- `IdentitiesSettled` (any bundles, league and other competitions). `IdentInv`: a mapping
  leads to a row of the edition; each row was there before or is mapped; of a reviewed
  player there is one row (`OneForEachReview`); the other competitions are as they were
  (`OthersStand`); and what was applied is mapped and can be read again
  (`MappedByApplied`), so that a repetition finds every identity. What the plans of a
  bundle make of a row is that of the last plan that changes it (`Settled`), which is
  why two identities of one player may meet in a bundle.
- `MeasurementsEarned` (any transitions, samples and requests; any log). `MonitorInv`:
  the groups before the one at hand are full, those after it empty (`SampleHolds`); of
  each group the samples that were clicked are one, two, up to the one counted last or
  the next (`Clicks`); and a sum that is full was of samples each of which had what is
  summed (`GroupEvidenced`). `TimingInv`: what the scanner keeps is what was read since
  the last line feed, and the counters agree with the lines before it (`CountsAgree`),
  also per group. That the time attributed to phases is no more than the time spent in
  them (`AttributedIsBusy`) is by a run over the phases in their order, in which the
  union so far is at most the ticks that some phase covers.
- `PlayInvariant`, a lemma, is the simulated half of `ServedMatchesAddUp`: unless the
  operator jumped, the scores after the periods never fall and lead to the score, and
  no later period has an entry (`EntriesLead`).

The proof modules assume nothing but the named ASSUMEs, each of which says what
kind of thing a constant is and is evaluated by TLC: `ConstantsAssumption` (the
absent score is not a score), `RealtimeAssumption` (names are distinct),
`RoomsAssumption` (a malformed identifier is not a match), `ResultsAssumption`
(matches are numbers; no slot is filled by two matches or by its own),
`FoundationAssumption`, `PublicationAssumption`, `ScheduleAssumption`,
`ServerAssumption`, `RowsAssumption`, `KindsAssumption` (the kinds of questions), and
`PartsAssumption` of `ServiceParts` and `SitePartsAssumption` of `SiteParts`, which
are the assumptions of each of their parts (sets are finite, lives exceed the
timeout, a limit is a number, what the environments of the shells may be, rows come
in the order in which they are listed).

Only model-checked:

- liveness (`CompletionIsDurable`, `LiveScoreIsFollowed`, `FinalBecomesOfficial`,
  `BadgeCatchesUp`, `BroadcastsReachTheRoom`, `ShutdownEnds`), as fairness and
  ENABLED are outside the prover;
- of `site_parts` the live half of `ServedMatchesAddUp` (`LivePageIsTrue`), whose
  totals are sums over the goals of a match and whose scorers are taken from
  sequences made by recursive operators;
- what a `violation` run refutes.

Proved and not model-checked in a run of its own: `StoppedWorkerStops`,
`SuccessMeansDrained`, `ParticipantsAgree`, `FrozenWhilePublished`, which TLC has
checked on the instances of their runs.

## 5. Where the code and its documents disagree

Shown by runs:

- **A file of two results** (`glasgow_batch`). Every result of a file is compared
  with the participants stored before the file (`glasgow/results-import.ts:780`),
  then all are written in order. A file that holds a semifinal and a final not
  played by its winner is accepted, and the bracket contradicts the result;
  the same two results in two files are refused.
- **A revision that drops a player** (`edition_revision`). Mappings are never
  removed and publication demands exactly those of the bundle
  (`edition-publication.ts:213`): the way the rollback runbook prescribes ends in
  an edition that cannot be published.

Met while modelling, part of the models, not the subject of a run:

- A broadcast or replay of a match without a revision may carry its old content
  under the revision of a correction committed meanwhile, as `canEmit` does not
  compare a missing expectation (`socket-server.ts:118`). The theorem on events
  speaks of versioned ones for this reason; the correction's own broadcast
  follows.
- An open live page gives a period points that were scored in another after a
  correction that moves a goal to a later period and keeps the score. Only a message
  of the score tells the page of the period, and it is sent when the score has
  changed (`broadcasting.ts:128`); the goals are sent with every detail. The page has
  the new goals and the old period, and that period gets the whole score
  (`LiveGameClient.tsx:154-161`) until the next goal, though the quarters are said to
  update "live as new goals arrive" (line 217). `RoomShowsTheMatch` claims the
  quarters of pages whose period covers their goals (`PeriodCoversGoals`); the
  details of `site_parts` have such a correction.
- `public-match.ts:223` says that a revocation must be observed by the next
  emission. A check that joins a lookup in flight takes its answer, read before
  the revocation. The window is one query long.
- The feed cannot promote a result with an operator's periods, as a result
  without periods counts as different (`results-import.ts:515`): the exception
  `OperatorsOwn` of `FinalBecomesOfficial`. The live-feed runbook (line 75) does
  not mention it.
- A replay counts as the latest apply. After a bundle, its revision, and the
  first bundle again, which writes nothing but a receipt, publication is
  confirmed for the first bundle with the content of the revision
  (`edition-publication.ts:191`; the launch runbook, line 121, binds the token to
  the bundle that was checked). An import that commits between the comparison of
  the token and the transaction that publishes has the same effect.
  `ContentFollowsReceipts` says which bundle the content is of.
- Of a result that is repeated, a file stores the time of the repetition, which may
  be the earlier one: a later change is then compared with that
  (`results-import.ts:824`). `FreshestWins` speaks of changes for this reason.
- The wrapper sends a command to whatever project its shell names, and asks for
  evidence on production only (`glasgow-production-guard.ts:165`):
  `ProductionIsGuarded` speaks of the production project.
- Of what a page shows as saved, `ShownIsSaved` leaves out what the code cannot keep:
  the first load of a match may answer after a save, and the button then shows the
  state before it (`components/match/MatchActions.tsx:33`); a removal that fails sets
  its list again as a whole (`app/settings/page.tsx:119`), so that a match removed
  meanwhile is shown again; and a request whose answer is lost may have been served.
  Each lasts until the page is opened again.
- A search that fails leaves the results of an earlier text on the page, under its
  alert (`GlobalSearch.tsx:60`), which `SearchIsSettled` admits.
- A page of the play by play that continues another asks for the rows from the
  second of the cursor on, and for one more than it holds, to know whether there are
  any left (`match-timeline.ts:88`, `:133`, `:157`). Among those rows is at least the one
  the cursor was made of, which is dropped after the query (`:189`): with rows of one
  table only, 76 are read, 75 are left, and the list ends although there are older ones
  (`nextCursor` is null, `:201`). Where rows of one table share the second at which a
  page ended, one may be skipped. `PlayByPlayHasNoGaps` speaks of what lies between the
  first and the last entry of the list, and makes an exception of such a second
  (`Crowded`); without the exception the run refutes it.
- A stopped worker may begin one more poll (`worker.ts:668`):
  `docs/history/` says that the timer is cleared on shutdown. `StoppedWorkerStops`
  states what holds.

## 6. Plan

Done: the modules of section 2, their runs, and the proofs of section 4. What is
left, in order:

1. `LivePage`: `LivePageIsTrue` for all constants, with sums and scorers that are
   cardinalities.
2. `ReadinessIsRegainedByPolls` of `WorkerSchedule`, from `WorkerInv`.
3. Pure modules with reference definitions: standings arithmetic and order
   (`standings.ts`), pool tables and tie-breaks (`tournament/service.ts`), schedule
   and home feed order.

New questions share runs with those that exist where their models compose, so
that each run stays a question of its own. Every INSTANCE is part of the context of
every obligation, so a composition of many parts makes each proof step slower: the
nine of `SiteParts` are about as many as is practical.

## 7. Not modelled

Rendering, sessions and tokens and configuration keep no state whose
order matters, or belong to the framework. Formulas over real numbers (win
probability, player impact, the scores of rankings) have no discrete behaviour to
explore. The other scripts that verify a release run against
databases of their own.
`PROJECT.json` has the reason for each component.

Met while reading and left out of the models:

- `scripts/verify-production-catalog.ts:338` looks at the form of
  `sourceMigrationThrough` and compares it with nothing.
- `scripts/reset-glasgow-2026-preview.ts` accepts whatever project references its
  environment declares; `ProductionGuard` models them as they are declared.
- A second tab of a reader, whose saves the first one learns of when it is loaded again.
- `prisma/seed.ts:63` empties the tables one statement after the other before it
  requests the feeds; when a request fails, nothing is put back.
