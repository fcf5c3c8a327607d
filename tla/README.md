# A formal model of topsrv

topsrv is a monitoring agent: one Go binary that collects metrics of a host and
of the services it finds there, pushes them to a control plane, ships events
read from access logs, and updates itself. This directory models the parts of
the agent whose correctness depends on order, failure or restarts, checks them
with TLC on small instances, and proves the core of them with TLAPS for every
value of the constants.

## The system

| component | source | state it keeps | operations | talks to |
|---|---|---|---|---|
| Event shipper | `internal/topsrv/shipper` (wired for bots by `botlog/pusher.go`) | queue, batch, spool directory, counters | `Enqueue`, `Run` (flush, retry, spool, replay, trim, drain) | called by the log collector; POSTs to `/v1/...` of the control plane |
| Updater | `internal/topsrv/updater.go` | binary, `.topsrv-backup/`, `update-state.json` | `Run`, `check`, `checkRollback`, `markStableAfter`, `markGraceful` | update endpoint; ends the process with exit code 42, systemd starts it again |
| Metrics pusher | `internal/topsrv/push.go`, `collector.go` | spool directory | `push`, `Flush`, `retrySpool`, `sendMeta`, `sendInventory` | gathers from the registry; drains the inventory of the package collector |
| Log tailing and life cycle | `internal/app/app.go`, `cmd/topsrv/main.go`, `nginx/log.go` | wait group, closers, HTTP server, channel of lines | `App.Run`, `App.Shutdown`, `LogCollector.Run`, `tailFile` | starts and stops every goroutine |
| Access log metrics | `nginx/log.go`, `nginx/uricounters.go` | request counts, URI series, latency histograms | record a line, collect, sweep, overflow | read by scrapes and by the metrics pusher |
| Postgres collector | `internal/topsrv/postgres` | pool, last statement counters, query metadata, cached settings and bloat | `Collect`, connect and detect, statement deltas, cache refreshes, `Close` | PostgreSQL; the metrics pusher reads `QueryMeta` |
| Package inventory | `internal/topsrv/packages` | cached metrics, pending snapshot | `scan`, `Inventory`, `OnInventoryPushed` | the metrics pusher |
| SMART collector | `internal/topsrv/smart` | cached metrics, bytes written per disk | `Run`, `Collect` | smartctl |
| Bot and web log observers | `botlog`, `weblog`, `text.go` | what was validated at startup: indexes, accepted paths, filters that are on | validate formats, decide each line | the shippers |
| Host collectors | `system.go`, `process.go`, `network.go`, `netstat.go`, `disk.go`, `discovery.go` | none | `Collect` | /proc |
| nginx and Angie discovery | `nginx/{discover,ssl,stub}.go`, `angie` | none | parse configuration and status pages | local HTTP |

The goroutines are: `main` (signals, then cancel and `App.Shutdown`), `App.Run`,
the metrics pusher, one shipper per event stream, the log collector and one
tail per log file, the SMART and package scanners, the updater with its
`markStableAfter` (which the wait group of the agent does not cover), a sampler
of PostgreSQL application names, and the HTTP scrapes.

### What is hard in it, and what makes it correct

- *Shipper.* A batch is sent, retried, spooled, replayed, evicted or given up,
  and at any step the disk may fail, the receiver may take a batch whose answer
  is lost, the process may die, or the context may be cancelled while the
  collector still enqueues. Correct means: no event vanishes without a reason,
  each is delivered under one batch id, the spool stays within its budget, and
  neither a batch nobody can digest nor a shutdown blocks it for ever.
- *Updater.* The protocol runs across processes, each of which may crash or be
  killed, and two goroutines rewrite one file without a lock. Correct means:
  a rollback installs a whole binary, a crash loop leads back to the version the
  last install replaced, exactly once, and restarts that are not crashes do not.
- *Metrics pusher.* Files are replayed oldest first and the first failure stops
  the pass; names are milliseconds, writes are not atomic, a crash may come
  between a send and the removal. Inventory files are written and never read.
- *Life cycle.* A signal may come while `App.Run` still registers, two deadlines
  cut the wait for the goroutines and for the HTTP server, a gather may hold the
  Postgres pool when it is closed, a tail may block on a channel nobody reads.
  Correct means: the agent always ends, and unless a deadline passed nothing is
  closed that is in use. The exit of an update skips `App.Shutdown` altogether.
- *Access logs.* What the agent reads of a line is decided at startup from the
  configuration, from what discovery finds in the files of nginx, and from the
  formats of *all* logs together; two event streams and the operator's labels
  share eight fields. Correct means: a stream loses a line only for a cause, or
  after a warning. While it runs, a scanner fills the URI series: their number
  must be bounded, what does not fit counted, and idle series must make room.
- *Postgres.* Two gathers overlap over one pool that the first replaces, over
  caches each may refresh, and over counters whose deltas the other also takes.
- *SMART, packages.* A scan in the background and a snapshot for scrapes.

## The plan

What was planned first comes first; all but the last are done.

1. `Shipper`, `Delivery`, `ShipperRefinement`, `ShipperProofs`; `Sums`, what the
   proofs know of finite sums.
2. `Updater`, `UpdaterProofs`.
3. `MetricsPush`, `MetricsPushProofs`.
4. `Discovery` and `AccessLog` with `AccessLogProofs`: from the configuration
   to the metrics and the decision of each stream about a line.
5. `Statements`, `StatementsProofs`; `PgCollector`, `PgCollectorProofs`: the
   Postgres collector with its overlapping gathers.
6. `Agent`, `AgentProofs`: `App.Run`, `App.Shutdown` and `main`, composed with
   the access logs and the Postgres collector.
7. `Telemetry`, `MetricsPushRefinement`: the promise of the metrics pusher, and
   that it keeps it.
8. Left: pure functions over bounded inputs (the order of backup names, the
   conversion of SMART units, the top groups of processes).

## The modules

### Shipper

One shipper with its queue, goroutine, spool, receiver and process. Variables
name the code's state: `queue` is `p.queue` (capacity `2 * BatchSize`), `batch`
the slice `Run` fills, `spool` and `tmp` the files of the spool directory,
`cur` the batch or file in hand, `todo` the files a loop of `retrySpool` or
`trimSpool` has yet to visit, `fails` its failures in a row. `pc` is the place of
the goroutine of `Run` in the call it executes and
`stage` tells a run from the drain and the drain from its overtime.

The actions follow the code's calls: `Boot` (temporary files are removed, the
first `retrySpool`), `TakeEvent`, `Tick` and `BeginDrain` (the three cases of
`select`), `Encode` .. `Backoff` (`flush`, `flushFinal`, `sendWithRetry`),
`SpoolRefused` .. `TrimEnds` (`spool`, `trimSpool`), `PassEnds` .. `ReplayFailed`
(`retrySpool`, `replayOne`), `DrainEvent`, `DrainChunk`, `Stop`
(`drainAndFlushAll`). `Enqueue` and `CollectorStops` are the collector;
`ReceiverTakes`, `Cancel`, `BudgetElapses`, `ProcessEnds` and `Restart` the
environment. The system calls of a write of the spool (create, write, rename,
each removal of a trim) are steps of their own, so a crash comes between any two.

Abstractions. Events are numbers in the order of arrival. File sizes are counted
in events, so the budget `MaxSpool` is a number of events. A batch id is a
number. Ids ascend when `IdsAscend` is TRUE and are arbitrary unused ones when it
is FALSE. `newBatchID` is a time in milliseconds and a random suffix; a batch that
is spooled has waited out a backoff before the next is made, so those in the spool
ascend, except when the clock steps back, and after a cancellation, when nothing
waits and the batches of a drain may share a millisecond. An answer that comes after the timeout is the same
as a batch taken whose answer is lost. A crash is the end of the process, not of
the machine: what a system call has written stays. A poison event stands for a
batch on which the receiver fails with 5xx for ever.

`Delivery` is what the shipper promises: an offered event is held, then taken in
one batch of bounded size under an id of its own, or lost; taken and lost are
final. `ShipperRefinement` maps the shipper to it and
`ImplementsDelivery` is checked as a property of the crash run.

### Updater

The agent across restarts. The disk is `bin` (the binary at `binPath`, its
version and whether it is whole), `backups` (per version no copy, a torn or a
whole one) and `file` (`update-state.json`). The process is `pc` (where `Run`
is), `mine` (the state it is about to save), `new`, and `stable`, `zeroed` for
`markStableAfter`. `ended`, `crashes`, `replaced` and `saved` are history.

`Boot`, `CheckRollback`, `Tidy`, `SaveCount` are `checkRollback`;
`RollbackReplaces`, `RollbackExits`, `RollbackFails` are `rollback`; `Check`,
`Backup`, `BackupFails`, `SaveNew`, `Replace`, `ReplaceFails` are `check`; the
`Stable...` actions are `markStableAfter`, its load and its save apart;
`MarkLoad`, `MarkSave` are `markGraceful`. `Terminate`, `CleanEnd`, `Crash` and
`Start` are SIGTERM, the end that `Shutdown` waits for, an unplanned end, and
systemd.

Abstractions. Versions are numbers in the order of `compareVersionedNames`.
`LastUpdate` is reduced to `recent`, whether it lies within `updateCrashWindow`;
`WindowCloses` ends the window for every copy of it. A download that fails, a
wrong checksum, an archive without the binary or a binary that does not start
leave nothing behind, so `Check` is the offer that passes all of them. Restart
counts above the limit are not told apart. `Interleaved = FALSE` takes the load
and the save of `markStableAfter` as one step; the stale-marker run shows what
happens when they are two. A process ends unplanned at the points of
`CrashPoints`: `boot`, `run`, `replace` (between the saved state and the rename)
and `write` (within the copy of a backup, the trim and the writes of the state
file), which only `updater_races` includes: see the divergences below.

### MetricsPush

The metrics pusher, the scan and hand-over of the package collector, and the
spool directory with its `inventory` subdirectory. `pc` is where the goroutine of
`Pusher.Run` is and `stage` the call it is in (the `retrySpool` at the start,
`push`, or `Flush`); `cur` is the payload or file in hand, `todo` the files a
loop has yet to visit, `outgoing` the payloads `sendInventory` has yet to post,
`pending` the buffer of the collector. An item is a sample, or what one scan
found about one package manager.

`Boot`, `Tick` and `Flush` begin the three calls; `ReplayEnds` .. `ResendFails`
are `retrySpool`; `Gather` .. `SendFails` are `gather` and `send`; `SpoolRefused`
.. `TrimEnds` are `spoolFile`, the creation of a file, its write and each removal
apart; `TakeInventory` .. `PushEnds` are `Inventory` and `sendInventory`; `Scan`
is the collector's scan, which takes effect under its mutex.

Abstractions. A file is its name (milliseconds), its item and whether it is
whole. The clock does not step back, and two files of one directory may get the
same millisecond, in which case the second replaces the first. A torn file is a
truncated gzip stream, which the receiver refuses like a poison item. A request
is one that the receiver may take at any moment until the sender stops waiting,
so a lost answer and a late one are the same. Files that `os.Remove` could not
remove are remembered in `stuck`. `GatherMore` stands for the samples after
`MaxSamples`, which are taken and not told apart. A scan is one step, because
only its last lines change what others see; metrics and error counts of the scan
are left out, and so are `sendMeta`, which keeps no state, and the timestamp that
`OnInventoryPushed` sets.

`Telemetry` is what the pusher and the package collector promise together: a sample
is owed from the moment it is gathered, a snapshot waits until a push claims it or a
later scan replaces it, what is owed is taken or lost, and neither comes back.
`MetricsPushRefinement` maps the pusher to it (`waiting` is `pending`, `owed` what is
in hand, outgoing or in a whole file and was not received);
`ImplementsTelemetry` is checked as a property of `push_order`.

### Statements

The statements phase of the PostgreSQL collector. The scrape handler and the
metrics pusher gather one registry, so two calls of `collectStatements` overlap:
`Gatherers` names the two, `stmtMu` is the mutex, `pc` the place of each in the
phase and `snap`, `seen`, `delta`, `topMeta` its locals. `prevStmts`,
`prevTopKeys`, `queryMeta` and `histBuckets`, `histCount`, `histSum` are the
fields of the collector; `stats` is `pg_stat_statements`. `ran`, `fed`, `base`,
`shown`, `disturbed` and `metaFailures` are history.

`Execute` and `Forget` are PostgreSQL. `Query` and `QueryFails` take the mutex
and send the first query, `ScanRow` is one row of `scanStatements` with
`feedHistogram`, `RowsEnd` the end of the result with `selectTopStatements` and
`debounceTop`, and `NoMeta`, `MetaFails`, `StoreMeta` are `collectQueryMeta`.
`WriteMetric` is the client library, which writes out a metric some time after
the collector has sent it.

Abstractions. The gatherer that finds the mutex locked does nothing, so it takes
no step. The order of the rows and the ranking of equals are arbitrary. Rows of
several users are one row, as after the `GROUP BY`; a reset or an eviction
removes the whole row. Times are whole numbers and of the counters only calls and
time are named (`Dims` may hold more). The extension is installed. The emitted
counters are left out; what is emitted is the set `shown`.

### Discovery and AccessLog

`Discovery` is the search of the configuration of nginx or Angie: includes are
replaced by the files they match and that can be read, log formats and access
logs are collected, of two formats of one name the later counts, but a name once
marked as JSON stays marked (`found.json`). A configuration
is a function from files to sequences of directives, a log format a set of
variables, each under the name its parser will find it by (a JSON key, or the
variable itself).

`AccessLog` is what the agent makes of it. A host (`Setups`) says which server
has a section or is running, with which logs, labels and streams. The startup
is three steps of `App.Run`: `RegisterCollectors` chooses the server, the logs
and their formats, resolves the aliases, merges and caps the extracted fields
and warns; `RegisterBotLogs` and `RegisterWebLogs` validate each stream, check
every format (`Fatal`, `Advice`) and switch filters off. Then `StartTailing`:
each log has a goroutine with a line in hand (`TailRead`, `TailSend`,
`TailStop`), all send into one channel `lines`, and `Process` handles a line:
`fillLine` reads what the format yields, `recordLine` counts it, and the two
observers decide (`BotShips`, `WebOutcome`). `CollectorReturns` is the end of
`runPaths`. `requests` are the request counts, `uris` the counters of
`uricounters.go` with `sweep` and `add`. `last`, `hits`, `evicted` and `written`
are history. `panicked` is the end of the process when more than eight labels
index past the array of a tagged key. A text format that is marked as JSON (`Misread`) is handled
as the code does: the names that discovery reads off it are those of no key
(`AsRead`), and no line of it is parsed (`Unparsed`). `HasOwn`,
`Canonical` and `RawURI` belong to the properties: they say of which logs a
stream can be expected to read a variable at all. `SetupAssumption` says that labels are a sequence.

Abstractions. A request is a function from the variables it sets to opaque
values. The URI variables differ in form only. The tokenising of a line is
abstracted to what a format yields, the regular expressions of discovery to the
directives they find. Duration histograms and cache counters, which are sums that
nothing bounds or reads back, are left out.

### PgCollector

The gather of the Postgres collector apart from its statements. `pool` is
`c.pool`, known by its database, `opened` the pools that are not closed, `pc`
the place of each gather: `EnsurePool` and `Ping` (`ensureReady`),
`SwitchToLargest` and `Features` (the detection of the first gather, under
`initMu`), `CollectSettings` and `SettingsRefreshed` (the settings under
`settingsMu`), `tryBeginBloatRefresh`, `ScanEnds` and `StoreBloat` (the claim by
a timestamp, the two scans of one refresh and the storing of their results),
`SamplerReturns` for the sampler of application names, and `Close`, `ClosePool`,
`PoolClosed` for `Close`. Any query may fail, and fails on a closed pool. A
result is known by the number of its scan, in the order in which they began, so
that a stale result that replaces a newer one shows.

`age` bounds a gather: `collectTimeout` (10 s) ends its queries, and a unit of
the clock is longer than that, so a gather spans at most one tick. The refresh
intervals (15 min and 1 min) are given in such units; `PgAssumption` needs the
first to be at least one, which the code's constants satisfy ninety times over.

### Agent

`App.Run`, `App.Shutdown` and `main` around the two: the composition EXTENDS
`AccessLog` and `PgCollector` and each of its actions is one of theirs with its
effect on the application, or leaves them alone. `run` is the place of `App.Run`,
`main` that of `main`, `bg` the goroutines of the wait group `a.bg`, `closers`
whether the Postgres collector is in `a.closers`, `srv` the HTTP server.
`RunCollectors` .. `RunReturns` are `App.Run`; `StartGather` a scrape or a gather
of the pusher; `Finish` the end of a goroutine after the cancellation; `Signal`,
`Shutdown`, `HttpShutdown`, `HttpDown`, `HttpTimeout`, `Timeout`, `Drained`,
`CloseClosers`, `Exit` the way down. The shippers, the metrics pusher, the
updater and the SMART and package scanners are names in `bg`: what they do is
in their own modules or not modelled. `late` records that the signal came before
`App.Run` had set `a.srv`.

## The runs

| run | what is in it | what it shows |
|---|---|---|
| `shipper_crash` | 3 events, batches of 2, budget 2, every fault, 1 restart, shutdown, ids that ascend | types, `NothingVanishes`, `GoneForGood`, `OneBatchPerEvent`, `OnlyWholeBatches`, and that the shipper implements `Delivery` |
| `shipper_limits` | 5 events, one malformed, budget 2, disk faults other than a failing removal, 1 restart, no shutdown, ids that ascend | `SpoolWithinBudget`, `EvictsOldestOnly` |
| `shipper_liveness` | 2 events, one poison, rejections and failing writes, ids in any order, 1 restart, shutdown | `EventsSettle`, `ShutdownCompletes` |
| `updater_rollback` | 4 versions, version 3 bad, 4 installs, 2 SIGTERMs, failing renames, crashes while running and between the saved state and the rename | `BackupStaged`, `RollsBackToReplaced`, `CrashLoopEnds` |
| `updater_races` | 3 versions, version 2 bad, 3 installs, 2 SIGTERMs, all steps of the two goroutines interleaved, older versions on offer, every fault, crashes at every point, within a write too | `RollbackIsWhole`, `RollbackNeedsCrashes`, `RollsBackOnce` |
| `updater_stale_marker` | violated | `markStableAfter` writes a stale state over the one of a new install, and a rollback goes to the wrong version |
| `push_order` | 2 samples, 2 scans of 1 manager, spool of 1 file, failing writes, reads, removals and gathers, 1 restart | `SpoolBounded`, `OldestFirst`, `SnapshotsOnce`, and that the pusher with the collector implements `Telemetry` |
| `push_liveness` | 2 samples, the first refused for ever, 1 scan, failing writes, reads and scans, 1 restart at any step, shutdown | types, `ItemsAccounted`, `ItemsSettle` |
| `statements` | one statement in two databases, fast or slow, 4 runs, 1 eviction or reset, two gatherers, failing queries and cut results | types, `NoCallCountedTwice`, `NothingMissed`, `LatenciesWithinBounds`, `OneOffsStayOut`, `EmittedHasText` |
| `statements_histogram` | violated | the mutex is said to guard the plain map `histBuckets`; a metric that refers to it is read after the mutex is released, while another phase writes it |
| `agent` | 648 configurations of logs and streams, one with a text format whose name an earlier JSON one had, with one line of six kinds of request, of which one is no request line; scanners of three URIs over a cap of two, one on a clock that lets the series age, one that comes back to an overflow that went idle; two overlapping gathers with aging caches; signals at any time with Postgres, with two logs, and without a server | types, `PoolStaysOpen`, `QuietBeforeClose`, `SeriesBounded`, `CountsConserved`, `BotLossIsWarned`, `FilteredForCause`, `OverflowIsCrowded`, `CachesOnlyForward`, `ShutdownEnds` |
| `weblog_filter` | violated | a warning says that the upstream allowlist is off when `$proxy_host` was truncated away; it is on, reads "" and drops every line |

Bounds, and why they are enough. Two events fill a batch and a third starts the
next, so three tell a batch from its successor and make a partial one, and a
budget of two makes the second spooled batch evict the first; five events with a
malformed one fill the queue (four) while a batch is in hand. One restart
suffices because what a process leaves behind (the spool) is the same kind of
state after one as after several. For the updater, four versions and two kept
backups make the trim choose among three copies; four installs allow a rollback,
the re-install of the rolled-back version and a further update.

For the pusher, a spool of one file and two samples make a sample evict
another, and a removal that fails or a process that ends before the trim leaves
two files for a replay to take in order; a spool of one file also
suffices for a sample to stand behind a refused one; two scans replace each
other's snapshots while one is posted.

For the statements, four runs are the three that an emission takes and one that
is reset, missed or the other database's; two keys with one `queryid` let a text
come from the other database; the top set of one statement and the meta set of
two make the ranking choose. The gatherers and the two keys are interchangeable,
so the run uses their symmetry (no liveness is checked).

For the agent, the hosts of a configuration are every combination of eight sets
of access logs (one format; a static host without upstream variables; a format
with a cookie, one without a client address; a JSON format that renames the user
agent, also on a second log only; one that renames the upstream time; a format
without times, and one whose name is unknown), logs that are named or
discovered, four label lists (none, one, four that with the aliases and
`$proxy_host` need nine fields, nine), a bot stream that is off, on or with an override, and a web
stream that is off, asks for an upstream or has an allowlist. One line of each
kind decides every filter, as `OnLogLine` keeps no state. Six further hosts run
what takes time: four lines with three URIs, a cap of two series and a clock of
five seconds, in which a series idles away and is swept; six lines in which the
overflow itself is swept and begun again while others stay; two overlapping
gathers while the settings and the bloat age; and three that get a signal. The clocks
only move where something ages (`until`), and the Postgres clock only once a
gather began.

The budget is claimed outside `trimSpool` and before a restart, because a crash
between a rename and its trim leaves one batch too many until the next spool.
`EvictsOldestOnly` needs ids that ascend and a directory of the agent's own.

Fairness. The goroutine of a component is scheduled (weak fairness of its
steps); a `select` that finds a case ready again and again takes it (strong
fairness of the cases, which Go's random choice justifies); the receiver answers
what it can again and again; `main` returns once the goroutines have; systemd
starts the agent again as long as the bound allows. For the updater, a bad
version does crash, and a rollback tried again and again finds a disk it can
write to. `EventsSettle` does not claim anything for an agent that is shut down
and never started again, nor for more than `MaxTransient - 1` poison batches.
For the metrics pusher, the ticker and the closed context are each chosen again
and again, and a request under way is answered again and again. `ItemsSettle`
is checked without failing gathers, because a push that cannot gather returns
before it posts the inventory. It
claims nothing for a sample behind a file the receiver refuses (`retrySpool` stops
at the first failure, so only the trim removes such a file) nor for a snapshot in
`SpoolDir/inventory`, which nothing reads.
`CrashLoopEnds` claims nothing when the window closes between two crashes, and
the run has no crash before the updater's goroutine starts: such a crash is
never counted, and a version that always fails that early (in the configuration
file, or in a collector's constructor) restarts for ever.
For the agent, `main` runs and its timer fires, the queries of a gather end at
`collectTimeout`, and the sampler looks at its context between two queries.
Nothing is assumed to make the other goroutines end: a tail that blocks on the
channel, a scanner or a shipper may never, and `ShutdownEnds` holds by the
deadline.

## What is proved

`ShipperProofs` proves, for all batch sizes, budgets, fault sets and bounds that
`ConstantsAssumption` allows:

- `TypeCorrect`: `Spec => []TypeOK`. Inductive with one addition (`TypeInv`): a
  file being replayed is in the spool and no longer to be visited.
- `Safety`: `Spec => []SafeInv`, the inductive invariant. `NothingVanishes` and
  its companions are not inductive alone: that a spooled file may be replayed
  without creating a second batch needs that ids in use were issued, that no two
  files, nor a file and the batch in hand, share an id or an event, that a
  temporary file under its final content is the batch in hand, and that events
  in memory are distinct and have arrived. `SafeInv` is the conjunction of these
  parts; each action has one step per part it can disturb.
- `NothingEverVanishes`, `LossIsFinal`, `DeliveryIsIdempotent`,
  `DeliveryIsWhole`: the four safety invariants of the crash run, from `SafeInv`.
- `SpoolIsBounded`: `SpoolWithinBudget`, on a disk where removals work
  (`"remove" \notin Faults`) and, where a foreign file may lie in the directory,
  for budgets of at least one, because it lies there before any trim. `BudgetInv`: a
  trim under way has yet to visit exactly the files there are, so it ends within
  the budget.
- `EvictionIsOldestFirst`: `EvictsOldestOnly`, on the same disk and where ids
  ascend (`IdsAscend`), which the code does not ensure for the batches that a drain
  spools within a millisecond, nor when the clock steps back. `OrderInv`: events move from the queue to the batch and
  on to files in the order they were offered, so a batch with a larger id holds
  only newer events; it takes the ids to be issued in order.
- `ShipperImplementsDelivery`: every behaviour of the shipper is one of
  `Delivery`. With `SafeInv`, what `Delivery` holds is exactly what has
  arrived and is neither delivered nor given up (`OwedIsRest`); so a step that
  offers nothing and that the receiver does not see loses, for `Delivery`,
  what it adds to the losses (`QuietImplements`), whichever of the shipper's
  twenty-odd such steps it is. The other two are `Enqueue`, which offers, and
  `ReceiverTakes`, which takes a batch or, a second time, changes nothing. One
  addition to the invariant bounds the ids issued.

Lemmas about sequences (what `Append` and `Tail` do to the range, and to
distinctness), about losses (`GiveAdds`) and about removals (`RemoveTyped`) are
stated once and cited.

`UpdaterProofs` proves, for every number of versions and installs, of kept
backups and of restarts allowed (`UpdaterAssumption`):

- `UpdaterTypeCorrect`: `Spec => []TypeOK`, with the addition (`TypeInv`) that a
  state on its way to a rollback names a version and that an install begins
  below the bound of installs.
- `UpdaterSafety`, `RollbackIsReady`, under `Undisturbed`: no
  older version is on offer, the two goroutines do not interleave their load and
  save of the state file, no save or copy fails or is cut short; a
  failing rename and a crash anywhere else, also between the saved state and the
  rename, are allowed. The code ensures none of these conditions, and
  `BackupStaged` needs each of them. The inductive invariant (`StagedInv`) says
  that within the window the version the state names
  has a whole copy and no newer version has one (which is why the trim, which
  keeps the newest, spares it). TLC refutes `BackupStaged` without any one of them:
  the divergences below describe what a copy cut short does; `trimBackups` removes
  the copy that a downgrade just made; and where a save fails, or with one kept copy
  a stale state is written over a new one, the trim removes what the state names.
- `RollbackIsRight`: `RollsBackToReplaced`, with every fault, crash point and
  downgrade, as long as each save worked, under the one condition `~Interleaved`:
  without it the violated run of the updater shows the failure. `ReplacedInv`: the
  state names the version the last install replaced, in the file and in every copy
  of it in hand.
- `RollbackHappensOnce`: `RollsBackOnce`, with every fault, interleaving, crash point
  and downgrade, as long as each save worked. `OnceInv`: the process after a
  rollback starts outside of the window.
- `RollbackTakesCrashes`: `RollbackNeedsCrashes` for every fault, interleaving
  and crash point, as long as the bound on crashes is not below
  `updateMaxRestarts`. The invariant (`CountInv`) keeps every copy of the restart
  counter, on disk or in hand, behind the crashes since the last install, plus
  one for the restart that the install causes, so that the bound is one less than
  the documented one; it holds while no `saveState`
  failed, as the property itself requires.
- `RollbackInstallsWhole`: `RollbackIsWhole`, without any of these conditions:
  whatever fails or is cut short, and also when older versions are on offer and the
  goroutines interleave, what a rollback installs is whole or is the version
  already running (see the divergences). The invariant (`WholeInv`) says that the
  file and the copies in hand name no torn copy of another version:
  an install completes its copy before it saves the state that names it; and that
  after a rollback the file can only name the version now installed, because
  `markStableAfter` waits for the end of `checkRollback`.

`MetricsPushProofs` proves, for every spool size, fault set and bound:

- `PushTypeCorrect`: `Spec => []TypeOK`.
- `PushSafety`: the inductive invariant `SafeInv`. `ItemsAccounted` alone is
  inductive only with `Control` (which loop walks which directory, when payloads
  wait in `outgoing`, that the file replayed or written is there) and `OnePlace`
  (an item is in one of the hand, `outgoing`, `pending` and the files, and in one
  file only, so that removing or replacing a file gives up exactly what it holds;
  a scan to come finds items of its own).
- `NoItemVanishes`, `DropIsFinal`: `ItemsAccounted` and `DroppedForGood`.
- `PostedOnce`: `SnapshotsOnce`, from `SafeInv` and `NotYetPosted` (a snapshot
  waiting in `pending` or `outgoing` was never posted).
- `PushSpoolIsBounded`: `SpoolBounded`. `SpoolInv`: the files of a directory have
  names of their own, none later than the clock, and during a trim every file
  already visited has fewer than `pushMaxSpoolSize` newer ones. A set of files of
  which each has fewer than n newer ones has at most n (`FewNewer`).
- `PushOldestLeavesFirst`: `OldestFirst`. `OrderInv`: items are numbered in the
  order they are made, files are named in the order of their items, and a loop
  under way has yet to visit every removable file, or, in a trim, only files older
  than those it passed.
- `PushImplementsTelemetry`: every behaviour of the pusher is one of `Telemetry`.
  As for the shipper, what is owed is what was made and is neither taken, dropped nor
  waiting (`OwedIsRest`), so every step but four implements a loss or a stutter
  by what it adds to the losses (`QuietSteps`, `QuietImplements`); the four are
  `Gather`, `Scan`, `TakeInventory` and `ReceiverTakes`. One addition to `SafeInv`
  (`NotYetTaken`): nothing that waits in the collector was received.

`StatementsProofs` proves, for every set of statements and gatherers, all costs,
buckets, ranked counters and top-set sizes:

- `StatementsTypeCorrect`: `Spec => []TypeOK`, with `TypeInv`: only the
  holder of the mutex is in a phase, and it scans rows of its own snapshot. A
  bucket never shrinks (`PlacedTyped`), because an outlier is placed on its own
  only while another call is left.
- `CallsCountedOnce`: `NoCallCountedTwice`. The invariant (`CountInv`) adds to
  the calls already fed those that the next differences may still add: of the
  live row to the previous one and, during a phase, of the snapshot to it.
- `OneOffsAreNotEmitted`: `OneOffsStayOut`. `EverInv`: between the previous row, the
  snapshot and the live row a counter grows only by a run, so a statement of the
  last top set ran twice and one that grew again a third time.
- `EveryCallIsFed`: `NothingMissed`. `MissInv`: an undisturbed statement of
  `prevStmts` still has its row, in `stats` and in the snapshot in hand, with
  counters that only grow.
- `LatenciesStayWithinBounds`: `LatenciesWithinBounds`. `feedHistogram` knows of a
  window only the two counters and whether the extremes moved. `WindowInv`: between
  any two rows of an undisturbed statement a new extreme is a call of that window,
  so the calls besides the outliers number at least zero, and their time is at most
  (at least) their number times the slowest (fastest) cost. The products are
  opened by distributivity, one call at a time (`OneMoreCall`).
- `EmittedStatementsHaveText`: `EmittedHasText`. `TextInv`: between phases the
  statements that led last have their texts, unless the last text query failed,
  in which case those emitted do, because they led before it too.

`AccessLogProofs` proves, for every set of hosts and of requests, all caps, times
to live and sweep intervals:

- `LogTypeCorrect`: `LogSpec => []LogTypeOK`, with `LogTypeInv` (the shapes of
  the counters and of the channel).
- `SeriesSafety` and `OverflowSafety`: `SeriesBounded` and `OverflowIsCrowded`.
  That tagged request series stay within their cap rests on the theorem alone: the
  host with labels of the run handles fewer lines than the cap.
  The invariant (`LogInv`) says that each family is `Sound`: a finite map within
  its cap, whose keys had been hit within the time to live at the last sweep,
  which lies in the past. `add` keeps it because a full map is swept first and a
  key that still does not fit becomes the overflow key, which the cap excepts;
  that a full map is crowded follows because every key was hit within the time to
  live at a sweep at most one interval ago.
- `CountSafety`: `CountsConserved`. `CountInv` is the property with the domains of
  the counters, and with what the request series count before and after it is known
  whether they have labels. The sums are those of `Sums`.
- `BotSafety` and `FilterSafety`: `BotLossIsWarned` and `FilteredForCause`.
  The invariant (`Wired`) ties what the startup left behind: the fields, indexes
  and paths of the collector to the host and its formats, the observers to what
  was validated and warned about, and the last line to what the two decided.
  The rest is about the sequences that carry a field from a format to an observer:
  what `Unique` and `Names`, which are folds, hold (`UniqueHas`, `NamesHas`), what
  a search finds (`FirstFinds`, `FirstMisses`), and that a field within the cap is
  read back as the format wrote it (`ExtraField`, `OwnField`, `ExtractHas`).

`PgCollectorProofs` proves, for every set of gathers, all refresh intervals and
bounds, from `PgAssumption`:

- `PgTypeCorrect`: `PgSpec => []PgTypeOK`.
- `PoolSafety`: `PoolStaysOpen`. `PoolInv` says that until `Close` the pool is the
  one that is open, that a gather that detects holds `initMu` before `initDone`,
  and that nobody is past `ensureReady` without a pool.
- `CacheOrder`: `CachesOnlyForward`. `CacheInv`: the settings query under way is
  the newest, because its gather holds `settingsMu`; a bloat scan under way is the
  newest and the only one, because it began less than a refresh interval ago,
  which is longer than a gather may last. No lock protects the second: without
  the bound on the gather (`age`) it does not hold.

`AgentProofs` proves that the agent implements its parts (`AgentTails`:
`AgentSpec => LogSpec`; `AgentCollects`: `AgentSpec => PgSpec`), so that all of
the above holds in the agent (`AgentParts`), and

- `AgentTypeCorrect`: `AgentSpec => []AgentTypeOK`.
- `QuietSafety`: `QuietBeforeClose`. `QuietInv`: a signal that is not late finds
  every goroutine registered, so that none is added while the group is waited
  for; a gather under way has its pusher in the group or a server, whose drain is
  in the group and takes no new request. The assumption is that gathers come from
  these two (`AgentAssumption`).

`Sums` holds what those proofs use of finite sums. `SumFunctionOnSet` is, like every
fold of the community modules, a recursive function over the subsets of a set. The
induction theorems of the library take an operator, which the provers cannot
instantiate, so induction is by a least counterexample (`LeastNatural`, from the
well-foundedness of `<` on `Nat`): from it come `FoldExists` (there is such a
function on a finite set), `SumRemove` (any element may be taken first), and
what a sum is after one more element, over a part, or when an element is counted
once more (`SumAdd`, `SumSplit`, `SumPart`, `SumIncrement`).

Three properties are as they are because the proof of a simpler one failed. An
overflow series may be swept and begun again in the same step, which a history of
evictions must see: `agent` has a host for it. A stream may lose a field unwarned
when a JSON format has an empty key or names two variables by one key, so
`BotLossIsWarned` and `FilteredForCause` speak of variables that a log gives a name
of their own (`HasOwn`, `Canonical`). And the binary need not be whole after a
rollback when a crash cut a copy short: `RollbackIsWhole` says what is true even
then, and `updater_races` checks it with such crashes.

Only model-checked: liveness (`EventsSettle`, `ShutdownCompletes`, `CrashLoopEnds`,
`ItemsSettle`, `ShutdownEnds`), which is out of the prover's reach. Every
invariant and action property of the passing runs is a theorem, under the
conditions given above. A run also
says what a proof does not: that the interesting states are reached.

## Divergences noticed without a run

Smaller things met while modelling, each visible in the source: a batch
delivered by a replay never reaches the `sent` counter (`pusher.go`, `replayOne`)
while `docs/metrics.md` calls it "acked by ingest"; `spooled` counts batches, not
events; the drain may flush more than the two batches its budget was sized for;
the restart an update causes is counted, so two crashes trigger the rollback that
`updateMaxRestarts` puts at three ("the crash count that triggers a rollback",
`updater.go:50`): TLC refutes `crashes >= updateMaxRestarts`, and
`RollbackNeedsCrashes` states the bound that holds, one less;
`saveState` ignores errors, so a rollback whose state is not saved may be
repeated (`RollsBackOnce` and `RollsBackToReplaced` require that saves worked); a rolled-back version is offered and installed again. The drain is said
to ship every queued event (`pusher.go:336`), but one enqueued after it found the
queue empty stays there. `internal/topsrv/collector.go:29-30` says a provider may
re-queue on failure; the package collector does not, and a spooled snapshot is
never replayed. Trimming is said to cap the spool directory (`push.go:238`), but a
`WriteFile` that fails after it created the file (a full disk) leaves the file and
trims none. With an older version on offer, `trimBackups` (`updater.go:492`)
removes the copy just made, which a rollback needs. A reset after which the
counters have already outgrown the old values looks like growth, so a statement
may appear on the first scrape after it, not on the third
(`docs/metrics.md:157`). `prevTopKeys` is wiped by a gather that closely follows
another, so a busy statement may lead every full window and not appear.

The copy of a backup is made in place (`updater.go:458`), not as the "atomic
rename" of `updater.go:528`: a crash within it leaves a torn copy under the name a
rollback may use, also when the copy of a second attempt fails after a crash
between `saveState` and the rename, while the window names the running version;
the rollback then installs it. `trimBackups` runs before `saveState`, so a crash
between the two may leave a state whose copy is gone: after a rollback the two
kept copies need not include it, although two are said to suffice
(`updater.go:32`).

Dropped events are said to carry one of four reasons (`docs/metrics.md:317`); a
spooled batch that is rejected at replay (`pusher.go:499`), a file that cannot be
read (`:494`) and a batch that cannot be encoded (`:317`) are dropped without a
count.

Of the access logs. More than eight `ExtraLabels` index past the array of a tagged
key and the panic ends the agent, where the warning `missing_extract` says that
"those label values will be empty". `botlog_no_ua_field` is never given, because
`DefaultAliases` supplies the name (`README.md:455`, `docs/metrics.md:387`). With
named logs and no `LogFormat`, the default format is set in the collector's copy
of the configuration only: the web stream refuses every path for want of a client
address. A log without `$request_time` is not tailed unless the bot stream is on,
and the web stream then calls its path unknown. A sweep deletes counts, so the
sum that `uricounters.go:14` says "still matches" only does until then
(`CountsConserved` adds what was evicted); with labels, new request series stop
silently at the cap. A request for the path `/:other` itself is counted in the
overflow series (`OverflowIsCrowded` excepts it). A JSON format that renames
`$upstream_response_time` or `$proxy_host` passes the check of formats, which
looks at variables, and is then read by key, so the filter drops every line
(`FilteredForCause` excepts it by `Canonical`): the loss that `format.go:49-53`
says the check prevents, since a filter that a format cannot feed "would silently
drop that file's entire traffic", and that `README.md:508-510` rules out, "a silent
zero stream is indistinguishable from" a site without traffic. `JSONFormats` is "true if
format is JSON" (`discover.go:15`), but it is set and never cleared
(`discover.go:251`): a text format that follows a JSON one of its name, which may be
commented out since discovery reads comments too, stays marked, and every line of
its logs is dropped by the JSON parser without a word. `BotLossIsWarned` and
`FilteredForCause` except it by `Misread` and `Unparsed`; without that TLC refutes the
former. When `runPaths` returns, the lines
in the channel are dropped and a tail with a line in hand blocks for ever. A wall
clock that steps back delays sweeps.

Discovery takes a directive that is commented out for a live one, the word after
the path of an `access_log` for its format also across a line, and a double-quoted
`log_format` for one without parts; `findDirective` (`discover.go:145`) keeps the
port and the location of an earlier server block.

Of Postgres. A probe that fails is taken to say that the feature is absent until
the agent restarts, and the label of the database stays empty if its query failed.
`pgxpool.NewWithConfig` connects lazily, so that a reconnect that cannot work is not
noticed where `collector.go:396` restores the old database. `Close` takes no
lock: after a deadline, a gather still in `ensureReady` may make a pool or a
sampler that nobody closes (`PoolStaysOpen` speaks of the time before that).

A signal during `App.Run` is handled by a `Shutdown` that may find no server and no
closers yet; the agent ends, but what `Run` still starts is not waited for
(`QuietBeforeClose` excepts it by `late`).

## Not modelled

Host collectors, status pages and certificates are reads turned into metrics
without state. SMART keeps one pointer behind a mutex; its scan is ioctls and the
reading of vendor fields. Of the packages, the parsers of databases; of the access
logs, the tokenising of lines, the regular expressions of discovery, the duration
histograms and cache counters, the contents of events (truncation, masking); of
Postgres, the map of application names and the queries that are only passed on.
The HTTP routes and the registration with Prometheus keep no state of their own.
The shippers, the metrics pusher and the updater are not composed with `Agent`
beyond their start and end: the product of their states is out of TLC's reach, and
nothing but the channel, the queue and the context connects them. HTTP, gzip, JSON
and SQL are abstracted to what they do to a batch, a version or a snapshot.
