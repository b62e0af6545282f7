# Verification of wayback-archiver

TLA+ models, TLC configurations and TLAPS proofs for the server of
wayback-archiver. Paths below are relative to the repository (`src/`).
`PROJECT.json` maps every definition to the lines it models.

## The system

A userscript in the browser captures a page and posts it to a Go server. The
server stores the HTML and a row at once, answers, and downloads the resources,
rewrites the HTML and finalizes the page in a background task. Later captures
update the page; superseded HTML waits a week in a deletion queue; a share pins
one snapshot for the public.

| Component | State | Operations | Hard behaviour |
|---|---|---|---|
| Page lifecycle (`storage/deduplicator.go`, `page_archiver.go`, `api/archive_handler.go`) | rows of `pages` and `page_resources`, HTML files | create, retry of a failed page, update, delete | background tasks overlap; a task works for seconds between reading a page and writing it; a stale check is never atomic with the write it guards |
| Task sequencing (`concurrency_manager.go`) | a number per page, keyed locks, download semaphore, WaitGroup | `NextPageTask`, `IsLatestPageTask`, `finishPageTask`, `LockPage`, `LockResource` | entries are freed and restarted while others still refer to them |
| Deletion queue (`deletion_queue.go`) | a JSONL file | `Add`, `ProcessDeletionsWithProtection` | failures and crashes between the removal of a file and the rewrite of the queue; a loop that stops early |
| Shares (`api/share_handler.go`) | `page_shares`, `page_share_resources` | create, revoke, expire, view | pins a file others supersede and delete |
| Resources (`resource_deduplicator.go`, `resource_downloader.go`, `filesystem.go`) | rows of `resources`, files by hash, temporary files | `processResource`, `processInlineResource` | calls are serialized by URL, files are shared by hash; revalidation, fallback, retries |
| Resource cache (`resource_cache.go`) | a `sync.Map`, a byte counter | `Load`, `Delete`, `Store`, `CleanupExpired` | half of the operations take no lock |
| Integrity scan (`resource_integrity.go`) | rows and files | quarantine | copies, marks and removes in three steps |
| Database (`database/sqlite.go`, `postgres.go`, `factory.go`) | the tables, `PRAGMA user_version`, an advisory lock | statements, migrations | transactions cover single statements of a longer operation; an upgrade stops half-way, or two run at once |
| Viewing (`api/view_handler.go`, `share_handler.go`) | none | up to five lookups for a URL inside a page or a share | the page is captured again, or the share ends, between two lookups |
| Lists (`api/pages_handler.go`, `favorites_handler.go`, `web/index.html`, `web/favorites.html`) | `favorites`; in the tab: inputs, timers, the request under way | list, search, count, delete, star | three queries for one answer; answers of superseded requests |
| Rewriting (`html_rewriter.go`, `css_parser.go`, `injector.go`, ...) | none | string transformations | frames within frames |
| Sessions and routes (`api/session.go`, `routes.go`) | sessions in memory | login, expiry | |
| Logging (`logging/logger.go`) | log files, the date, number and size of the current one | write, rotate, clean up | rotation under concurrent writers, a rotation that fails half-way |
| Log page (`api/log_handler.go`, `web/logs.html`) | in the tab: the ranges shown | first range, older, newer, reload | answers late, out of order or not at all while the file grows |
| Start and shutdown (`cmd/server/main.go`) | | drain, deadline, nightly cleanup | tasks cut off by the deadline |
| Userscript (`browser/src`) | capture state of the tab | capture, monitor, update | answers that arrive after a navigation |

They interact through the database, the data directory and, in the process, the
`ConcurrencyManager`: handlers call `Deduplicator`, which starts page tasks;
a task calls the resource components for each URL, with the lock of the URL, and
touches the page's row at its end; updates and deletions append to the queue; the
nightly cleanup asks the shares before it removes a file. Before all of it a process opens
the database and brings it to the current schema. The views read the rows the
tasks write, in several queries each and under no lock.

What makes each correct, as the modules state it: a ready page shows one whole
capture with its file on disk; no page is lost, left pending or stored twice; the
cleanup never takes what a page or a share still shows, and forgets nothing; a
resource call returns the version the origin serves; shared files are whole; the
locks exclude, do not leak and are given to everyone who waits; a process that serves
has a whole schema, from whatever an earlier one left; a view answers with the
closest resource of its own page or share; a list at rest shows what its inputs
ask for; the log is never lost, and its page shows whole lines without a gap.

## Modules

| Module | What it is |
|---|---|
| `PageArchive` | The page lifecycle with its tasks, shares and cleanup. One action per access to shared state. |
| `PageArchiveProofs` | Its inductive invariant and theorems. |
| `KeyedLock` | What callers of `LockPage` and `LockResource` assume. |
| `KeyedMutex` | `keyedMutex` step by step; implements `KeyedLock`. |
| `KeyedMutexProofs` | Its theorems, the refinement among them. |
| `FileRetention` | What the deletion queue promises. |
| `DeletionQueue` | The JSONL file and each step of a pass; implements `FileRetention`. |
| `DeletionQueueProofs` | Its theorems, the refinement among them. |
| `ResourceStore` | Downloads, cache, rows, content-addressed files and the quarantine scan. |
| `ResourceStoreProofs` | The newest row of an order, the inductive invariants, and theorems. |
| `ResourceCache` | The map and its counter, one access at a time. |
| `ResourceCacheProofs` | Sums over sets, the inductive invariant, and theorems. |
| `SchemaUpgrade` | Opening a database of any earlier release, SQLite or PostgreSQL, by several processes that stop between any two statements. |
| `SchemaUpgradeProofs` | Its inductive invariant and theorems. |
| `SnapshotView` | The cascade of lookups for a URL inside a page or a share. |
| `PageList` | A tab with the lists of pages or favorites, its requests, and the changes others make. |
| `ViewProofs` | The inductive invariants of `SnapshotView`, for scope and for closeness, and of `PageList`, and theorems. |
| `LogFiles` | The log files: writes, rotation by date and size, retention, restart. |
| `LogView` | `ReadLogRange` and the log page that shows a growing file. |
| `LogProofs` | The inductive invariants of `LogFiles` and `LogView`, and theorems. |
| `MC...` | Instances for TLC. |

How they compose: `PageArchive` and `ResourceStore` use a keyed lock as a guard
(`PageLockFree`, `UrlFree`) that `KeyedMutex` is shown to implement. `PageArchive`
has the deletion queue as a set of records, `DeletionQueue` the file and the pass;
the promise that joins them is `FileRetention`. `ResourceStore` has the cache as
entries that turn stale or vanish at any moment, which is what `ResourceCache`
does to them. A page task of `PageArchive` processes its resources within the step
that ends in `CreateRewrite` or `UpdateRewrite`; what a call inside does is
`ResourceStore`'s. `SnapshotView` takes the links of a page or a share as the sets
`PageArchive` writes (`CreateFinalize`, `UpdateCommit`, `ShareInsert`), and
`PageList` the rows as free changes, which is what captures, updates and deletions
are to a tab. `LogView` reads a file that grows by whole lines, which is what
`LogFiles` writes. `SchemaUpgrade` is over for a process before it serves.

### PageArchive

An element of `Op` is an HTTP request with the task it may start; since it saves at
most one HTML file and inserts at most one row, it names both. `pc` is its place,
`old` the `html_path` it read, `rlinks` the resources a share request read, `seq`
its task number; `latest` is `pageTaskSeq` (0 for no entry). A `content` is the
capture's hash, and the set of resource links of a page is named by the capture it
was made from. `pages`, `files`, `queue` and `shares` are durable, the rest is lost
in `Crash`, which is also the 30 s deadline of a graceful shutdown.

Create: `CreateLookup` (lock, `GetPageByURLAndHash`, `SaveHTML`), `CreateInsert` or
`RetryReset` and `RetryDropOld`, `Enqueue`, then the task: `TaskStart`,
`CreateRewrite`, `CreateLastCheck`, `CreateFinalize`, with `CreateDropStale`,
`CreateOnError` and `CreateMarkFailed` on the other paths, and `TaskFinish`.
Update: `UpdateRequest`, `Enqueue`, `TaskStart`, `UpdateRead`, `UpdateRewrite`,
`UpdateCommit`, `QueueOld`, `TaskFinish`. Delete: `DeleteRead`, `DeleteRow`,
`QueueOld`. Share: `ShareRead`, `ShareReadLinks`, `ShareInsert`, `ShareEnd`.

### DeletionQueue

`lines` is the file, a line a record or `Junk`; `torn` says that the last line has
no newline, be it junk or a whole record (`AddTorn`). What `Add` writes next is glued to
it, and both are lost (`Appended`); `Unsure` is the record that may be lost so, which
`FileRetention` knows as one whose retirement failed. `pass` is the local state of a pass: the records read, the index and
the records kept. `Tick` moves days; a share can only pin a path its page showed
when the request began (`Share`).

### ResourceStore

An element of `Op` is one call; it names the row it may insert. A content stands
for its hash and its file; `files[c]` is the op that truncated the file last, until
that op is through. `order` sorts the rows by `last_seen`, the newest last. `cuts`
remembers the files a failed or interrupted write left cut short; no decision
depends on it. The scan runs with the server stopped, as
`docs/technical/snapshot-and-update.md:209` demands.

### ResourceCache

`entries` holds `cachedAt`; `owed` the size a thread took out of the map and has
not yet subtracted. `takeExpired` is a removal by key of an entry seen expired.

### SchemaUpgrade

The schema is a set of names (`objects`): tables, columns and leftovers of earlier
releases. `pc[p]` names the next statement of process `p`, `seen[p]` the version it
has reached, `version` is `PRAGMA user_version`, `lock` the holder of
`pg_advisory_lock`. Of the rows of `pages` only what an upgrade changes is kept: who
has no domain, no state, is pending, or has timestamps of the old format. Each
migration of `sqlite.go` is one to three actions (check, change, `SetVersion`), each
statement of `postgres.go` one. `Stop` is a crash or a failing statement. `IterationCut`
is an iteration over rows that ends with an error: nothing asks `rows.Err`, so the step
counts as done and its version is recorded. `gap` remembers which backfills of SQLite
left rows out, by either. `Origins` chooses what is found: nothing, or the schema of an
earlier release.

### SnapshotView

A URL is a record of what the queries tell apart: its path, whether a space is
written raw, query and fragment. `Found(q)` is what the query a reader is at returns,
`NextTry` the order of the cascade with the conditions under which a step is skipped.
Any of these queries may fail: `QueryFails` answers 500, `ReferenceFails` leaves the
reference of a style sheet as it was; `ReadFails` and `LocalReadFails` are files that
cannot be read. `Like23` and `LikeCase` are the pairs of URLs that a `LIKE` pattern takes
for one another (see Deviations); they are constants, since which pairs they are depends
on the spelling of paths, which the model leaves out. `snap[p]`
is the snapshot a page shows; `Capture`, `DeletePage`, `Revoke` and `Expire` come
between any two queries. `kept` remembers the rows that were linked during the whole
lookup, `handed` the local paths a rewritten style sheet has handed out.

### PageList

`req` is the request under way with its stage: sent, listed, marked (favorite
states), answered, failed; the handler reads slice, states and total in three steps.
`timers` are the debounced inputs, `act` a deletion or a star under way. A request
that is superseded is aborted, so its answer is never rendered (`Load`, `Invalidate`).
`gone` remembers what this tab has deleted.

### LogFiles and LogView

In `LogFiles` a line is a unit of size; `size[n]` is the length of file `n`, `curSize`
the counter the writers raise without the lock, `inflight` what they have written and
not yet counted, `rot` the place of the rotation. `recovery` is the writer that
`gin.Recovery` was given at the start (`main.go:234`). In `LogView` a file is the set
of offsets at which lines end; `asked` and `answered` are requests on their two ways,
in any order; `shown` the ranges on the page.

## Runs

| Run | Instance | Shows |
|---|---|---|
| `archive_create` | 3 creates, updates or deletes, 1 URL, 2 contents, 1 fault, fair goroutines | the inductive invariant of the proofs; captures never duplicate or lose a page, leave no orphan, and every pending page is resolved |
| `archive_change` | a ready page and 3 updates, deletes or shares, 3 ticks (retention 2), 1 fault, 1 crash | the page stays one whole snapshot, its file out of the queue; a shared file survives the cleanup |
| `keyed_mutex` | 4 goroutines, 2 keys, 4 addresses | exclusion, no leak, refinement, and no caller waits for ever |
| `deletion_queue` | 2 paths, 3 additions, 3 ticks (retention 1), a fault, an append torn in its record or before its newline, a crash | refinement of `FileRetention`, the order, the shares, and that what expired goes in the end |
| `resource_store` | 1 seeded and 2 new rows, a downloaded URL and a frame, 2 contents (one streamed), 1 permit, 1 retry, 1 fault, 1 crash, 1 change of the origin, 1 late touch, 1 scan | answers are the version served; shared files whole; a scan heals; no version twice; nobody stuck |
| `resource_cache` | 3 calls and the cleaner, 3 URLs of two sizes, 4 stores, TTL 2 of 3 ticks | the counter does not drift, the budget holds, lookups take out only what expired |
| `schema_upgrade` | 2 processes, 2 pages, 5 origins of SQLite and 4 of PostgreSQL, 2 stops or iterations cut short | the version promises only what is there, upgrades exclude, domain search is complete, who serves has everything, a pending page stays pending, and after the last stop everyone serves what can be upgraded |
| `log_files` | files of 2 lines, 3 days, 4 files a day, 6 lines, 2 loggers, 1 fault, 1 restart | the size counter never falls behind, no full file is appended to, a failed rotation mends itself |
| `log_view` | ranges of 2 bytes, lines of 2 or 3, a file of up to 5, 2 selections, 1 lost answer | one unbroken stretch of whole lines; scrolling up advances; the page catches up |
| `snapshot_view` | 2 pages, 1 share, 1 reader, 3 snapshots, 8 resources, 5 URLs, 2 captures, any failures | the answer is the closest of what was linked all the while, whatever else a `LIKE` pattern matches and whatever fails; never from outside, and nothing after the share ended |
| `page_list` | 3 pages, 1 a slice, 2 changes, 2 inputs, 1 fault | the list at rest answers its inputs; slices tile; what was deleted is gone; redirects end |
| `find_mixed` | creates and updates | a finalize writes its links over an update's snapshot |

Where a run checks `Inv` (`ViewInv`, `ListInv`), it is the module's type invariant with the parts that say
what holds at every moment; the module names and explains each: `Ordered`
(`DeletionQueue`), `SharedFileWhole` (`ResourceStore`), `Budget` (`ResourceCache`),
`VersionHonest`, `DomainFilled`, `OneUpgradeAtATime` (`SchemaUpgrade`), `LogGoesToFile`
(`LogFiles`), `Tiled`, `LinesWhole` (`LogView`), `Scoped`, `EndedShareClosed`,
`HandedOutServed` (`SnapshotView`), `GoneNotShown`, `NoEmptyPage`, `FavoriteTotal`
(`PageList`). `Rotates` is `OpensBelowLimit` and `LogReopens`, `Progress` is
`OlderAdvances` and `CatchesUp`.

Why the bounds are enough. The hazards are races of two handlers that a third
provokes or reveals, so three ops (four with a seeded page) reach them, and every
deviation below appears with two or three. The requests of one page are what interact:
one URL suffices, and two contents distinguish "same" from "changed". One
failing call shows what each error path leaves behind. One crash suffices since
what survives it is the durable state, from which another crash starts no
differently. Retention 2 of 3 ticks lets a file expire while the requests that
read it have ended. Four goroutines on two keys have a holder, a waiter and a
newcomer on one key while the other key takes the freed address. A scan with two
rows of one file shows whether it treats all of them. Two processes are what an
advisory lock or a version record can get wrong, and two stops let one of them die
in the repair of what the other left. A range of 2 bytes with lines of 2 and 3 has
lines that fit, that straddle and that exceed a range. One reader suffices because
readers share nothing. The eight resources have a row of each rank for some URL that is
asked for, an encoded form, and one row for each `LIKE` pattern that is taken for
another. Two changes and two inputs let a change fall between the two
queries of an answer that an input then supersedes; slices of one row make a page
past the end and two adjacent ones out of three rows. Symmetry is used where no
liveness property is checked and the set carries no order.

The budget for liveness is small, so `archive_create`, `keyed_mutex` and
`deletion_queue` check it without symmetry.

`CHECK_DEADLOCK FALSE` is set where requests, additions, lines, inputs or time are
bounded and a behaviour therefore ends. `keyed_mutex`, `resource_cache` and
`snapshot_view` check deadlock.

### Fairness

`PageArchive`: weak fairness of every step of the server (`Advance`): Go runs every
goroutine, and the database and disk calls return. Clients, failures, shares and
crashes are free. `KeyedMutex`: weak fairness of the closure's steps, strong
fairness of `entry.mu.Lock`, since `sync.Mutex` switches to starvation mode after
1 ms; what runs under a key waits for downloads with timeouts, never for a key.
`DeletionQueue`: a pass runs every midnight (`main.go:211`) and days go by.
`SchemaUpgrade`: the statements of each process answer, and the container that exits is
started again (`docker-compose.yml:18`); crashes are free but bounded. `LogFiles`: the
ticker and the midnight timer fire and the clock goes on. `LogView`: requests are
answered, but for one that is lost, and the timer asks for new lines as long as the
reader is at the bottom. `PageList`: the server answers or fails, timers fire and the
tab renders; inputs and changes are free. `SnapshotView` has no liveness.
`ResourceStore` checks `NobodyStuck`, that some call can always step, with no
fairness at all.

## Proofs

The theorems hold for any number of requests, calls, threads, pages, paths, bodies,
failures and crashes. `PROJECT.json` lists them with the properties of the runs they
state. Each rests on an inductive invariant (`IInv` of the module) that was first
checked by TLC on the run's instance.

### Page lifecycle (`PageArchiveProofs`)

- `Invariance`: `Spec => []IInv`. `NoLiveQueued` and `TypeOK` are not inductive by
  themselves. That no queued path is live has to follow from who may still point a
  row at a file and who may still queue it: a file is named by one op, only that op
  ever writes its name into a row, and once the row has let go of it nobody restores
  it. `IInv` therefore says, for each label of `pc`, what the op knows about its page,
  its own file and its `old` path. The proof has a lemma per action and within it a
  step per conjunct the action disturbs; conjuncts that speak of a single op are kept
  apart from those about two. `TypeCorrect`, `LiveNeverQueued` and `HtmlNeverShared`
  are consequences.
- `ReadyFiles` (`ReadyHasFile`): `FilesInv` adds what is on disk. The dangerous steps
  are removals: of a stale create's own HTML, of the HTML a retry replaces, of what
  the cleanup finds expired. For each, `FilesInv` says why the path is no ready row's;
  only a row that is not ready may be without its file.
- `PageConsistent` and `ShareKeepsFile` (`SnapshotConsistent`, `SharedFileKept`) assume
  `"create" \notin Kinds`: with captures both are false, as `find_mixed` and the
  deviation about retries show. `ChangeInv` relates what an update or a share has read
  to the row: a share that read a page pins what the page still shows or what the
  queue has for less than the retention.
- `CapturesUnique` (`UniqueSnapshot`), for a database that starts with at most one page
  of the URL (as a table written by this program has): a create that is about to insert
  holds the page lock and has seen no row of its content.
- `NoOrphans` (`NoOrphanAtRest`) is about the absence of failures, hence `OrphanInv` is
  a chain of implications from `Undisturbed`: nothing failed, so every file that was
  saved is shown, or is in the hands of one op that is about to show or to queue it.
- `PageNotLost` (`faults <= 1 => PageKeepsFile`) needs no assumption on the requests. A
  superseded create deletes its HTML although its row names it; `LossInv` says why another
  file replaces it, or why it was not superseded. `OwnInv`: a row is inserted by the
  create of its own name, before the page has a task. `AloneInv`, for a page that no
  update was requested for, with at most one failed call: the task whose file the row
  shows has the latest number, and when it is a retry the failed task before it may still
  have to finish, with a lower number, or one that the page has not given out again.
  `LedInv`, while nothing has failed or crashed: there are no retries, and a page whose
  first HTML is at risk is led by its latest task, the create itself or an update that
  will commit, since the handlers queue only updates with another content. With a second
  failed call `AloneInv` breaks, and with it the property (Deviations).

### Locks (`KeyedMutexProofs`)

`CountInvariance`: `refs` is the cardinality of the users of an entry, from which
`Exclusion`, `NothingLeaks` and `Refinement` follow. `Entry` may be infinite, `Thread`
is finite (needed for cardinalities).

### Deletion queue (`DeletionQueueProofs`)

`QueueOrdered` needs that no clock reading of a handler under way is later than what
`Add` appends after it. `SharesKept` follows from the invariant of a pass: what it
keeps and what it has still to look at is what the file had. `QueueImplementsRetention`
is the whole refinement, `Spec => ImplementsRetention`: `NextRetention` maps `Add` and
the removal of a file to steps of `FileRetention`, and every failure, crash and rewrite
of the file to a step or a stutter. The hard steps are the rewrite, where the records of
the new file are those of the old one without what was removed, whatever `Junk` lay
between, and the append after a torn one, which takes from the file exactly what was in
doubt (`AppendedLines`, `AppendRetention`).

### Resources (`ResourceStoreProofs`, `ResourceCacheProofs`)

- `IInv` of `ResourceStore`: at most one call of a URL in flight (`Locked`); a row is
  there only once its call is done, and is in `order` (`Table`); a validator of a cache
  entry, or of a call that sent it, stands for the body of the row it is kept with
  (`Stands`, `Call`), whatever became of that row; a file that is being written has its
  writer, and a call links only files that are whole or excused (`Writers`); the scan has
  made whole or quarantined what it has been through (`Scanning`). `FilesWhole`,
  `AnswersFaithful` and `ScanLeavesWhole` (`Inv`, `AnswerFaithful`, `ScanHeals`) follow.
- `VersionsOnce` (`OneVersion`) needs `VInv`, which is about the order of `last_seen`:
  `GetResourceByURL` returns the newest row only, so a version is found again only while
  it is the newest. While the origin changes at most once and no late touch happens, a
  version that is served, or held by the call with the lock, is either new or the newest
  row of its URL. The lemmas before it (`NewestIs`, `NewestAppended`, `NewestTouched`,
  `NewestOfLess`) say what insertion, touch and quarantine do to the newest of any set of
  rows.
- `SomeoneGoes` is `NobodyStuck` with the guards of `Advance` in the place of `ENABLED`: a
  call waiting for a permit waits for calls that are downloading, which wait for no other
  call (`PermitsBounded` counts them), and a call with a 304 has a row to
  return. The latter is `FitInv`, why the second, unconditional download that
  `Revalidate` leaves out is never made: the scan that quarantines rows has the process
  to itself and starts with an empty cache.
- `CounterNeverDrifts` (`CounterExact`) equates the counter with a sum over the entries,
  plus what threads owe, minus what is due. The lemmas on `SumFunctionOnSet` say what a
  sum does when an element enters, leaves or changes. `CacheInBudget` adds what a thread
  in `Store` has seen before it puts its entry (`PutFits`).

### Schema (`SchemaUpgradeProofs`)

`Invariance`: for any number of processes, pages and stops and from every origin, what a
process may rely on at each statement of its upgrade. `VersionHonest` is not inductive: a
process records the version after the step it believes to be at, so the invariant says for
each label what this process and the others have already put in place; and since names are
only added (but for the leftovers), another process can never take it away. Timestamps that
an iteration cut short has left out are the one exception (`gap`). `FillFacts`
says who still has to fill which rows, `StartFacts` that the first start of SQLite is
alone. `UpgradeCorrect` (`Inv`) and `ServesComplete` (`UpMeansComplete`, assuming
`CutSchema = FALSE`) follow. `PendingKept` (`PendingSurvives`) goes through every statement
of both upgrades.

### Viewing and lists (`ViewProofs`)

`AnsweredInScope` (`Inv`): for each query of the cascade, what the reader has (`Kind`), what
it may have found (`Answer`), and what the past guarantees (`History`, `StaysEnded`).
`ClosestServed` (`BestLinked`) has an invariant of its own, `CInv`: no row that stayed linked
is closer than what the cascade has still to try. It rests on what each query matches of
each rank, a case analysis of the URL forms, and it assumes nothing of the two `LIKE`
relations: it says up to which rank a row that only a pattern takes for the URL can stand in
the way of a closer one, namely not before the prefix query, and by the path query only of
the rows with another query string. That a failing query ends the request is `FailKeeps`;
if it went on to the next one, `CInv` would break.

The lists are first counted. `Place` is the number of rows before a row; that time and id
order the rows in one way (`OneOrder`) makes places a bijection with `0 .. n - 1`
(`PlaceOrders`, `PlaceTaken`), so that a slice is a window of places with as many rows as
places (`SliceIs`, `WindowSize`), and the last page is the one of the last row
(`LastPageIs`). The invariant `PInv` then says what an answer knows in spite of what others
do between its three queries: `SliceInv`, what is called fresh is a slice of the rows as
they are; `TurnInv`, the tab goes beyond what it shows only as far as the total that came
with it; `GoneInv`, what the tab took off is in nothing read afterwards; `StarsInv`, a list
of favorites offers only their removal. `ListHolds` (`ListInv`), `ListFollowsInputs`
(`ShownMatches`) and `PagesDoTile` (`PagesTile`) follow for any rows, any page size and any
number of inputs and changes. `TurnInv` is why `PagesTile` says that the first of two
neighbours is full: the tab asks for the next page only while the total says there is one.

### Logs (`LogProofs`)

`LogFiles`: what the file has is at most what is counted and on its way, through a rotation
that changes the file under the writers, one that fails half-way, and a restart. `LogFound`
(`Inv`), `CounterNeverBehind` (`CounterCovers`) and `NeverOpensFull` (the safety half of
`Rotates`) follow.

`LogView`: `CutStays` and `SizeGrows` say that what a file has been cut into stays so while
it grows, so an old answer is still an answer. `PieceIs` says what `ReadLogRange` returns of
any range: bytes between two line ends, or a part of one line that is longer than the range
(`LongBefore`, `LongAfter`). `JoinTiles` puts a piece before or after what is shown. The
invariant `VInv` says of each request in flight where it will join (`TopInv`, `EndInv`), so
`LogPageIsWhole` (`ViewInv`) holds whatever is answered late, lost or asked again.
`OlderLinesAreOlder` is the safety half of `Progress`.

### Assumptions on the constants

`Null` is none of the other values, and the bounds are naturals. Retention is at least 2
ticks, that is, no request or task outlives half a week. The threads of `ResourceCache` and
its URLs are finitely many, as are the resources of a page and the rows there are at first:
what the code holds in memory or a table is finite. A file of `ResourceStore` is named by its
state or by a call, so no call has the name of a state. In `SnapshotView` every row has a
`file_path` (`NOT NULL` in `init_sqlite.sql:31`, `init_postgres.sql:39`). In `PageList` the
favorites there are at first are pages that exist (`init_sqlite.sql:79` refers to `pages`).
TLC evaluates each
of them on the run of its module.

### Induction and sums

A theorem of the library that takes an operator (`NatInduction`, say) cannot be used, but
`WFMin` is stated with sets only: every set of numbers has a least one, from which induction
over the numbers of a set follows (`Least`, `NatInduct`). The records of the queue file
(`Records`, a recursive function) and sums over finite sets are proved about in this way.

### Model-checked only

- Liveness under fairness: `Served`, `PendingResolved`, `Purged`, `Healed`, `Settles`,
  and the leads-to parts of `Rotates` and `Progress`. `NobodyStuck` has
  `ENABLED`; `SomeoneGoes` proves it with the guards written out. The prover reaches
  neither liveness nor `ENABLED`.
- `PageKeepsFile` with two failing calls or more: there it is false. TLC finds a behaviour in
  which the restart of the numbering (`concurrency_manager.go:77`) makes a task stale that
  nothing has superseded, see Deviations. For at most one it is the theorem `PageNotLost`.

## Findings

`find_mixed` ends in a counterexample to what `sqlite.go:974` says of a page update: a
create whose finalize has passed its last check writes its links over the snapshot
an update has just committed, and the page shows one capture with the resources of
another. `PROJECT.json` quotes the line.

## Deviations

Reproduced with these modules, or visible in their actions, and not runs of their own.

Page lifecycle, shares and queue:

- A page pending over a restart is answered from and never finalized again
  (`deduplicator.go:260`); `docs/technical/snapshot-and-update.md:176` says that a
  pending hit is reset and queued for finalize like a failed one.
- Of two updates of a page that overlap, or an update and a deletion, the second queues
  the HTML it read before the first committed (`deduplicator.go:945`,
  `pages_handler.go:228`): the first one's is never queued (`NoOrphanAtRest` leaves this
  case out).
- A superseded create deletes the HTML its row still shows (`deduplicator.go:339`), and
  if the update that superseded it fails, the page stays pending without a file
  (`UpdateMayFail`).
- A retry of a failed page deletes its old HTML at once (`deduplicator.go:289`), also
  when a share pins it.
- An update that was superseded after its last `staleCheck` (`deduplicator.go:921`)
  still commits over the newer one: `UpdateCommit` has no condition on the number.
- `finishPageTask` deletes the counter (`concurrency_manager.go:77`), so numbers
  restart at 1 and an older running task may be the latest again. With two failing
  calls a page is left pending without its file: a create fails and is marked failed
  but has not finished; its retry fails too, and its end frees the counter; a second
  retry gets the number 1 again, the end of the first create (also 1) frees the counter
  under it, and it takes itself for superseded and drops its HTML (`PageKeepsFile` with
  `MaxFaults = 2`).
- `onError` (`deduplicator.go:345`) checks and marks in two calls: an update that
  commits in between is marked failed.
- A share reads the page and its resources in two calls (`share_handler.go:103`).
- A torn `Add` has no newline; the next record is glued to it and skipped, and with it a
  whole record that lacked only its newline (`deletion_queue.go:54`, `Appended`). The
  former failed and may be forgotten; that the record after it is lost, whose `Add`
  succeeded, is a stuttering step of the refinement and not excluded by it.

Resources:

- `Store` meets an expired entry that a lookup has just removed; `Range` ends, no
  older entry was seen, the loop breaks and the map exceeds `maxBytes`
  (`resource_cache.go:107`, `GoneExpired`).
- A failed or interrupted write of a resource leaves a truncated file that the next
  `Stat` takes for complete (`filesystem.go:509`, `cuts`).
- A scan that stops between marking the rows and removing the file
  (`deduplicator.go:439`) leaves the corrupted file to be reused by the next save.
- A late `last_seen` update (`sqlite.go:553`) makes an older version the newest; the
  current one may then be inserted again, and a fallback returns the older.
- The download that is repeated without validators after an unusable cache hit
  (`resource_deduplicator.go:164`) does not ask whether it was answered 304; a server
  that answers so unconditionally is outside the model.

Schema upgrade:

- The initial script of SQLite commits statement by statement. A crash (or a second
  process) in the middle of a first start makes the next start take the historical
  path, which stamps version 8 without ever creating `page_resources`
  (`sqlite.go:99-122`): with `CutSchema = TRUE` TLC violates `UpMeansComplete`.
- A PostgreSQL table of the releases without `domain` (`Origins = {"postgres_0"}`):
  `init_postgres.sql` indexes `pages(domain)` before `ensureDomainColumn` adds it, so
  every start fails (`NotUpgradable`, which `Healed` excepts).
- The domain backfill of SQLite runs only in the start that adds the column
  (`sqlite.go:352`): cut short, it is never resumed (`gap`).
- No migration of SQLite asks `rows.Err` (`sqlite.go:249`, `sqlite.go:287`,
  `sqlite.go:377`): an iteration that ends with an error counts as complete, and the
  version is recorded over rows without a domain or with the old timestamps
  (`IterationCut`; `VersionHonest` and `DomainFilled` except the rows of `gap`).

Viewing:

- `README.md:270` promises that later updates do not change a shared snapshot. Its
  links are fixed, but the prefix and path lookups order by `last_seen` of rows that
  later captures touch, so which of two candidates answers may change.
- `escapeLikePattern` escapes the URL that is asked for (`common.go:82`), but the pattern
  `%23%` appended to it (`sqlite.go:898`, `postgres.go:968`) begins with a wildcard: a URL
  that begins like the one asked for and has "23" further on matches (`Like23`), and so
  does, by SQLite's `LIKE`, a path in another case, and by the path pattern a `?` within
  the fragment (`LikeCase`). Such a row is served in the place of one that only a later
  query would find, or of a 404. `BestLinked` says so: it comes after what the earlier
  queries ask for. Taking either exception out of `Best` makes TLC violate it.
- URLs with a raw space are found by the exact lookups only, and `%25` is decoded twice.

Logs:

- `gin.Recovery` keeps the writer of the first log file (`main.go:234`).
- A rotation whose `OpenFile` fails leaves `l.file` at the file it has closed: not nil, so
  it is not opened again (`logger.go:99`), and with the counter already set for the next
  file, so its size does not ask for a rotation either. Lines go to stdout only until the
  next date (`LogReopens`). One whose `Stat` fails is repeated only if it was for the size.
- After a restart the counter starts from the file's length while lines of the old
  process may still be counted: the counter covers the size and may exceed it.
- File names sort wrongly beyond 999 files a day; the date in a name is parsed as UTC,
  so the border of the retention depends on the time zone (`Cleanup` takes either).
- A refresh before the first answer shows a short file twice (`early`).

Lists:

- PostgreSQL's `ListPages` orders by `last_visited` alone; rows that tie may be shown
  twice or skipped (`BeforeByTime`).
- A star toggled while a list loads may show the state before the toggle.
- When the count fails, `total` is the length of the slice and the tab redirects from
  a later page to the first.
- `AddFavorite` checks the page and inserts in two statements: a deletion in between
  is answered with 500. `GetFavoritesCount` counts without the join of the list.

## Not modelled

The synchronous `ProcessCapture` and `UpdateCapture` (kept for old callers and
tests); HTML and CSS rewriting and the injected bar (pure string work whose outcome is
one step here); the HTML of a viewed page and the local `resources/` paths of a page
view; search highlights, the timeline, page details, the list of log files and the
plain tail of one (read only); token hashing, cookies, headers and URL validation;
sessions (one map under one mutex); configuration and the backfill tool.
PostgreSQL's statements for captures are those of SQLite and modelled once.
Resources have one type, so that equal content has one file name. The copy that
`CreateResourceQuarantineCopy` leaves behind when a scan dies is not tracked.
The drain of a shutdown (`Crash` stands for its deadline) and the userscript's own state
are left for later (Plan).

## Plan

Done: the page lifecycle, the keyed mutex, the deletion queue, the resource store and
cache, the schema upgrade, viewing, the lists, the log files and the log page. In
order, what is left:

1. `Shutdown`: the drain of `serveWithGracefulShutdown`, `background.Add` against
   `Wait`, the deadline; that every answered capture is finished or cut off as
   `Crash` says. 3 handlers, 1 deadline.
2. `Userscript`: capture, monitor and update loop of a tab against navigation and
   late answers (`browser/src/main.ts`); abstract specification: an update goes to
   the page its DOM came from. 2 navigations, 2 answers in flight.
3. `Session`: login, expiry and eviction.
4. Composition of `PageArchive` with `DeletionQueue` (the set implemented by the
   file) as a refinement with `INSTANCE`.
