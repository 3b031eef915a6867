# Verification of datajobs

`datajobs` is a Go server that runs data jobs: a scheduler fires them, a worker
pool runs and retries them, an audit log records them, and handlers fetch market
data and calendars and put them into QuestDB and SQLite. This directory holds
TLA+ models of the parts where the program decides something, the TLC
configurations that check them on small instances, and TLAPS proofs of all the
safety properties that the runs check, for every instance.

Paths below are relative to the repository (`internal/...`, `cmd/...`).

## 1. Inventory

```
 HTTP requests --> handlers --> scheduler --(cron, run)--> worker pool --> handlers of jobs
                      |                                     |  ^  |           |  |  |
                  watchlists,                        audit log |  dead        | IB, FMP, earnings
                  audit pages                        (SQLite)  |  letters     | behind rate limiters
                      |                                        retry          |
                   SQLite <-- migrator                        QuestDB: ILP, line sender   SQLite
```

| Component | State it keeps | Hard behaviour | What makes it correct | Model |
|---|---|---|---|---|
| Worker pool, `internal/worker/pool.go` | `running`, three channels, the dead-letter list, one job per worker | unlocked window between check and send, channels closed under senders, workers that feed their own queue, panics, bounded lists | a job is in one place, runs at most its budget, ends if its handler returns, and Stop waits for it | all of it |
| Scheduler, `internal/scheduler/`, `internal/handlers/jobs.go`, `system.go` | map of jobs, cron entries | check and act in two locks, closures over copies, a goroutine per firing | one entry per create, current definitions, sane retries, whatever requests overlap | all of it |
| Rate limiter, `internal/ratelimiter/` | tokens, lastRefill, a mutex | waits with the mutex held, cancellation, lazy refill | the rate is kept, nobody waits too long or for ever | all of it |
| Migrator, `internal/migrate/`, `cmd/migrate` | `schema_migrations`, the tables, the files | two processes, failure between statements, a stale copy of the versions | a recorded version has its tables, no holes, Up is complete | all of it |
| Audit log, `internal/audit/logger.go`, `internal/handlers/audit.go` | table `job_runs` | writes that fail, a process that ends with rows `running`, pages cut by OFFSET under insertions | a row never lies about its attempt, pages miss nothing, statistics add up | all of it |
| Application, `cmd/server/`, `internal/jobs/registry.go` | what is open, which handlers there are | parts that could not be made, shutdown under running jobs, the end of the process | nothing uses what was closed, except where the program does not wait | start, stop, end; no router |
| Watchlists, `internal/repository/watchlist.go`, `internal/handlers/watchlist.go` | two tables, one connection | statements of several requests interleave and fail one by one, rows left behind | each call takes effect at one instant or not at all; a deleted list loses its symbols; lookups show public lists | all of it |
| Historical data job, `internal/jobs/historical/` | pages of bars | page limit, a gateway that repeats its last bar, failures that are only logged | no hole, no end too early, an end | all of it |
| QuestDB store, `internal/database/questdb.go` | the row buffer of one LineSender | shared without a lock; a flush that fails is only noted | what is counted is stored | the writing half |
| IB client, `internal/providers/ib/client.go`, `internal/jobs/monitoring/ib.go` | client, authenticated, closed, two mutexes | a call of itself under its own mutex, a client replaced under requests | no request on a closed client, only that mutex blocks | what has a caller |
| ILP ingestion, `internal/ingestion/ilp.go`, `internal/jobs/ingestion/` | one connection, a mutex | partial writes, reconnects, a dead peer, two jobs on one connection | no row twice, an error for what is missing | what has a caller |
| Earnings and calendar sync, `internal/jobs/stocks/`, `internal/jobs/calendar/` | two tables | failures passed over day by day and row by row, reads and writes in two statements | what was fetched is stored; rows do not go back | all of it |
| Market data API, `internal/handlers/marketdata.go` | none | DownloadHistoricalData shares the LineSender | - | that function |
| Instruments import, HTTP ingestion, data providers, health, configuration, logging, metrics, tracing, metadata | none, or filled once at start-up | none beyond I/O | - | none, see section 6 |

The components interact by calls and shared state. The scheduler and
`POST /jobs/{id}/run` call `Pool.Submit`; a worker calls the audit logger before
and after a handler; handlers call the providers through one token bucket per
provider and share one `ILPClient`, one `LineSender`, one IB client and one
SQLite connection. `App.Stop` stops the scheduler and closes what is open, but
never stops the pool, and `main.go` never calls `App.Stop`: it returns after
`WaitForShutdown`, so a signal ends the process under its jobs.
`Pool.Stop` and `App.Stop` are called by tests only. `WorkerPool` models the
pool's shutdown as it is written, `AppLifecycle` what the program does.

## 2. Plan, and where it stands

The most important behaviour came first: the pool with the promise it implements
(`JobLifecycle`), the scheduler in front of it, then the parts that jobs share.
All of the plan is on disk:

1. `WorkerPool` implements `JobLifecycle`: checked and proved.
2. `Scheduler`, `TokenBucket`, `Migrator`: checked and proved.
3. `ILPClient`, `HistoricalData`: checked and proved.
4. `AuditLog` composed with `AppLifecycle`: checked and proved.
5. `IBClient`, `CalendarSync`: checked and proved.
6. `Watchlist` implements `WatchlistStore`: checked and proved.

Every invariant and every action property of the runs is a theorem; liveness is
model-checked only. The modules that are proved about use functions and set
operators, no RECURSIVE operator, and have named assumptions.

Runs are few by choice: one per component, two for the pool (it promises more
while nobody stops it), and one that shows the deadlock of the keep-alive.

## 3. Modules and the code

Every module models a goroutine, a request or a process by its steps between
points where another can be seen: a lock, a channel operation, a statement on a
database, a system call, a sleep. Code between two such points is one action.
Definitions marked `mutant` are wrong on purpose: they replace the definition
next to them to see that a property would notice. They take no part in the
specifications.

**WorkerPool** (`internal/worker/pool.go`, with `audit/logger.go` Start and
complete). A member of `Jobs` is one call of Submit. `submit`, `pc` and `stopPc`
are the positions of the callers of Submit, of the workers and of the callers of
Stop; `held` is the `Job` value of a worker, whose `attempt` is the 0-based field
that travels with it through the queue; `jobChan`, `deadLetter` and
`deadLetterQ` are the two channels and the list; `closeStage` counts the three
`close` calls; `row` and `audit` are what the closures of the audit logger refer
to. A handler call ends with an outcome, or hangs (`HandlerHangs`): a context
cannot end the call of `pool.go:303`. `SubmitCheck`/`SubmitSend` are the two halves of Submit. `Receive` to `Bury`
are the worker: `pc = r` for a reason r means that it is about to call
`sendToDeadLetter(job, r)`. The send on a closed channel panics: what each
deferred recover does is in `SubmitSend`, `RetryClosed` and `Bury`. `ran` and
`fate` are history. Not modelled: job timeouts as a separate cause of failure
(an error like any other), spans, logs, and the counters but for the
dead-letter gauge. `WorkerPoolProperties` has the properties.

**JobLifecycle** is what the pool promises for a job: refused or taken once, run
at most `MaxRuns` times, one run at a time, ended once. `WorkerPoolProperties`
maps the pool to it with `Phase`.

**Scheduler** (`scheduler.go`, `handlers/jobs.go`, `handlers/system.go`,
`app.go` initScheduler). `jobs` is the map, `entries` what go-cron holds: each a
closure over a copy of the job. `creating` is, for each of the
clients whose requests overlap, a POST between its existence check and AddJob. An
entry remembers the client or the row of the file that added it (`by`), and
`contested` the ids that two creates were after at once, or that the file names
twice: history. `triggers` are executeJob goroutines, `submitted` the jobs handed to
the pool. go-cron is external: any entry fires at any time while it runs. A cron
expression is empty, accepted or rejected. `SchedulerProperties` has the
properties.

**TokenBucket** (`ratelimiter.go`). A token is `K` units, a tick earns one; so a
fraction of a token is a number of units. `mu` is the holder of the mutex while
it waits; locking, refilling and taking are one action because nobody can look
in between. `credit`, `conforms` and `waited` are a bucket that is refilled at
every tick and pays for the same grants: history.

**Migrator** (`migrate.go`, `cmd/migrate/main.go`, `sqlite.go` RunMigrations).
Each statement is a step, `applyMigration` one, being a transaction. `Fail` ends
a command between any two statements, for an error or the end of its process.
`alone` and `whole` remember what excuses a hole or a missing table: a Down,
Reset or force that overlapped another command, a Reset cut short, a forced
version.

**AuditLog** (`audit/logger.go`, `handlers/audit.go`). `rows` is the table
`job_runs`, `seq` its AUTOINCREMENT, `run` the id an attempt's closures hold.
`StartRow`, `EndRow` and `Cleanup` write; a reader takes pages (`LIMIT`,
`OFFSET`, newest first: `GetByJobID`) or the four counts of GetStats one query after
the other. The clock is read (`logger.go:50`) and the row inserted in one step, so
that the order of the ids is the order of `started_at`; two starts at once may
exchange two neighbours.
The actions that a failing or closed database changes take that as a parameter.

**AppLifecycle** (`cmd/server/main.go`, `app.go`, `jobs/registry.go`) EXTENDS
AuditLog and composes it with the life of the process. NewApp makes the optional
parts or leaves them nil, registers the handlers whose parts it finds, Start
serves, `Crash` (the signal) and `Panics` end the process, `StopNext` is one line of
App.Stop after the other. An attempt runs a handler that uses its part when the part is
there, and panics on a nil one that the registry did not notice. After the end
of the process everything is gone but `rows` and `seq`, and it may be started
again. An attempt stands for a job: the retries are WorkerPool's.

**ILPClient** (`ilp.go`, `bulk.go`, `incremental.go`). `conn` is the client's
connection and the state of its socket, `stub` the unfinished line the server
holds for it, `stored` what the server has stored. `pc` walks an ingest through
connect, read, lock, ping, write, backoff. The lines of a batch (`lines`) are the
set of their rows' numbers in the file, as they are written in that order: the
socket may take the first ones (`Begun`), any number of them, before a write
fails, in the middle of a line too. The server is external,
described by what the client's comments rely on: a line counts when its newline
arrives, and an empty line is ignored.

**HistoricalData** (`jobs/historical/`, `questdb.go`, `marketdata.go`
DownloadHistoricalData). A job goes over the instruments, asks the gateway for
page after page backwards from now, cuts at the start of its period, and upserts
in batches through the LineSender; a download fetches and stores one page.
`building`, `mixed` and `buffer` are the LineSender: whose row is in the making,
whether another is mixed into it, and the rows waiting for a flush. A row begun
while another is being built is refused or mixed into it, and both count as a race
(`trouble` remembers it). `At` fails in the model only when the row is mixed: the automatic
flush of the client library that may happen, and fail, inside it (`questdb.go:238-245`)
is left out. It would leave a mark in `trouble`, under which `CountedBarsAreStored`
says nothing. The gateway and the client library are external.
Time is in minutes.

**IBClient** (`providers/ib/client.go`, `jobs/monitoring/ib.go`). `authMu`, and
`readers` and `writer` of `mu`, with Go's rule that a waiting writer keeps new
readers out. A keep-alive calls EnsureAuthenticated and then Ping; a fetch calls
HistoricalData; `Closer` is App.Stop. When the ping inside EnsureAuthenticated
fails, the call waits for the mutex it holds (`pc = "relock"`). `used` remembers which
client a call made its request with.

**CalendarSync** (`jobs/stocks/`, `jobs/calendar/`). Runs of earnings_sync walk
the days from today; a run of economic_sync does today. A row is the *edition* of
the provider's calendar it was fetched from. Fetch, look-up of the rows that are
there, and batch upsert are steps; another run or the provider's edits come in
between. `due` are the rows a run has fetched, without those the database refused and
those of a day that failed; `due`, `tried` and `overlapped` are history.

**Watchlist** (`repository/watchlist.go`, `handlers/watchlist.go`). A request
goes from statement to statement (`at`); `conn` is the one SQLite connection when
a transaction holds it, `tx` the tables as that transaction sees them. Any
statement may fail. `view` and `answer` are what the caller gets. A create that
fails rolls back and frees the connection in the step of its answer; in the code
database/sql may do so a moment earlier, when the context ends.
**WatchlistStore** is the promise: a call changes the tables at one instant, at
most once; an "ok" means it did; a failed create or delete means it did not, and
the other errors may hide a change. A deleted list takes its symbols along, as the
comment at `watchlist.go:224` and the cascade of migration 008 say. `Watchlist`
implements it: the symbols of the store are those whose list exists
(`ListedSymbols`), and `changed` is the instant. One step is excepted: a create that
finds symbols left by a delete, and takes them over (`TakesLeftovers`).

**MC modules** (`MCWorkerPool`, `MCScheduler`, ... `MCWatchlist`) hold the constants
of the instances.

## 4. Runs

| Run | Expected | What it asks |
|---|---|---|
| `pool_core` | pass | Safety and progress of the pool while nobody stops it, with handlers that may hang; what the dead-letter list keeps. |
| `pool_stop` | pass | The same safety with a Stop, handlers that panic or hang and a failing audit table; Stop waits, and returns if handlers do; the pool implements JobLifecycle. |
| `sched_core` | pass | With two clients at once: one entry per create, current definitions, sane retries, when a job is scheduled. |
| `bucket_core` | pass | Exact waits, an exact bucket until a wait ends, and every call returns. |
| `migrate_core` | pass | Recorded migrations have tables, no holes, complete Ups, with overlaps and failures. |
| `app` | pass | A truthful log over crashes and restarts, pages that miss nothing, statistics that add up, parts that outlive their users. |
| `ilp` | pass | No row twice, the row limit, a clean result is complete, termination. |
| `historical` | pass | Bars without holes, counted bars are stored, termination. |
| `ib` | pass | No request on a closed client, keep-alives use the session, nothing else blocks. |
| `ib_keepalive` | violation | EnsureAuthenticated waits for itself when the session has expired (`EnsureAuthenticatedReturns`). |
| `sync` | pass | What a run fetched, was not refused and does not belong to a failed day is stored, by both jobs; rows go back only under overlapping runs; termination. |
| `watchlist` | pass | The connection is given back, requests keep the promises of WatchlistStore but for a create that meets leftovers, every one is answered. |

What the properties say, next to the comments in the modules:

* `OnePlace`, `AttemptsExact` and `BurialJustified` tie the places of a job, its
  attempt number and the reason it is buried to the calls made for it. They
  are about jobs that change workers between attempts, about a queue that is
  full when a retry comes back, and about the three closes of Stop.
* `AuditTrail` finds an open row only with the attempt that runs, also when a
  statement on the table fails.
* `DeadLettersAccountedFor`: each entry of the dead-letter list is justified; up to
  `MaxDeadLetterSize` burials none is forgotten, beyond that half of the limit is
  kept at least; and a step cuts entries at the old end only, off a list that has
  reached its limit. It bounds neither the list nor the gauge: section 7.
* `PoolMakesProgress` includes the absence of the deadlock where all workers want
  to put a job back into a full queue. A job whose handler hangs does not end, nor
  do any when every worker is in such a handler; every other job does.
* `FiringsAreCurrent`, `ScheduledWhenFirstAdded` and `ScheduleIsConsistent` relate
  the map and the cron entries, which no operation changes together but AddJob,
  while two clients create, enable and delete jobs. A create adds one entry at
  most, and only ids that two creates were after at once have two: these are
  excepted by name (`contested`), and how such an id behaves is said as well.
* `ExactUntilAWaitEnds` is the whole rate guarantee the code gives: as long as
  nobody waits to the end, an exact bucket could pay for all grants and holds what
  the code's bucket holds.
* `SchemaIsConsistent`, `NoHoles` and `UpCompletes` hold for Ups that overlap,
  because `applyMigration` is a transaction whose row has a primary key. `NoHoles`
  needs every file to have a down file, `UpCompletes` needs distinct versions.
* `LogTellsTheTruth` follows rows into the next process: ids are not used again,
  what was left `running` stays so, a closed row is its own attempt's. `PagesMissNothing`
  is what a reader of consecutive pages gets although rows are inserted before
  them: rows twice, none missed. `StatsAddUp` holds when
  no row was written between the four queries.
* `PartsOutliveTheirUsers`: a request meets a closed database only after the
  server's shutdown timed out; only handlers of the IB and the ILP client end the
  process with a nil one. Jobs do meet closed clients, see section 7.
* `IngestIsExact` rests on a detail no line of the code states: after a partial
  write the connection holds half a line, and the newline of `ping` would
  complete it. Only because the write deadline has passed does ping fail, so
  that the client reconnects and the half line is dropped. The mutant
  `PingMayFailRearmed` is a ping that sets the write deadline, as it sets the read one.
* `FillIsExact`: what a job collected of an instrument reaches back without a hole,
  and to the start of the period or to the last bar the gateway has, unless the
  page limit stopped it. `CountedBarsAreStored` holds while no flush failed and
  nobody raced for the LineSender.
* `SessionIsKept` and `OnlySelfLockBlocks` are what the two mutexes are for;
  `RequestsAndCloseEnd` says that requests and Close get through even behind a
  keep-alive that waits for itself.
* `SyncIsComplete`: a failed day costs that day and a refused row that row, and
  every other row that was fetched is in its table: for earnings_sync the one it
  fetched or, skipped, one that was there, also under overlapping runs;
  `RowsDoNotGoBack` is about the read and the write of a run being two statements.
* `TablesAreInOrder` and `ListsKeepPromises` are about Create, the only request
  with a transaction on the only connection, about the requests that use two
  statements without one, and about the symbols of deleted lists, which stay in
  their table and must not be seen through any list but one that takes them over.

### Bounds, and why they are enough

* `pool_core`: 4 jobs with budgets 1, 2 and 3 and one without a handler, 2
  workers, capacity 1, list limit 2; a call may hang. Two workers that both retry
  meet a full queue; the dead-letter channel overflows; a fourth burial makes the
  list trim.
* `pool_stop`: 2 jobs (budgets 0 and 2: the 0 of an unset configuration), 2
  workers, one caller of Stop: each close, each send and each worker step
  interleave. With two jobs a retry and a submission race for the one slot.
* `sched_core`: two clients, so that creates and every other request overlap; 3
  ids, one that the file names once, one that it names twice, one that only
  requests create; 4 requests and 3 triggers, with complete, negative and absent
  retry numbers and rejected cron expressions. No trigger changes the map or the
  entries, and a request reads one id, so longer histories repeat these.
* `bucket_core`: 2 callers of Allow, one of AllowImmediate, 2 tokens of 3 units:
  a remainder of one or two thirds of a token, a full bucket, a waiter behind a
  waiter. The state space is finite without a bound on time.
* `migrate_core`: 3 files, the server and `cmd/migrate`, each as often as they
  like.
* `app`: two attempts, one of bulk_ingest (whose part the registry does not test)
  and one of earnings_sync (tested); QuestDB and the earnings client may be missing;
  pages of one row, two starts, one failing statement. Two rows are enough for an
  insertion before a page and for a row of an earlier process.
* `ilp`: two ingests of 3 rows in batches of 2 (a full and a partial batch, a
  malformed row, a limit of one batch), 1 retry, 1 failed read, 1 Close, one peer
  that dies per connection, unbounded deadlines.
* `historical`: one job and one download; two instruments with bars at 60, 120 and
  180 and at 180 only; periods of 2 and 8 hours, an invalid one, and 1 hour for the
  download; pages of 2, at most 3 of them, batches of 2, one network failure of a
  flush, counters up to 2. So a period ends within a page, between pages and
  before the oldest bar, and the page limit is met.
* `ib`: three keep-alives, a fetch and Close on three workers (`ib_keepalive`: two
  keep-alives): one that waits for itself, one behind it, one that ended before.
* `sync`: two runs of each job, one symbol, one event, today and tomorrow, two
  editions: the second run can overlap the first or follow it.
* `watchlist`: any two requests, from every content of the tables: 2 ids, 1
  symbol, 1 owner, at most 2 symbols (the same one twice) in a create. All
  conflicts between statements are between two requests.

`CHECK_DEADLOCK FALSE` is set where the system may rest: all jobs ended, all
bounds used up, all ingests, runs or requests done.

### Fairness, and why the code justifies it

The Go scheduler runs every runnable goroutine, which is weak fairness of each
goroutine's steps. That a handler returns is not assumed: a call may hang for ever,
as one does that waits for itself (`client.go:157`), and the liveness properties of
the pool name what a hung call holds up. Backoffs, dials,
requests and socket writes have timeouts; these are steps that must happen. That an
authentication of the IB client ends rests on its gateway library alone: `auth.go:82`
passes it no context. Where a
goroutine waits for a mutex that others take again and again, strong fairness is
assumed: `sync.Mutex` hands the lock to a waiter that starves, and a waiting
writer of a `sync.RWMutex` keeps new readers out. No run assumes that a request, a
Submit, a cron firing, a cancellation, a failure, a signal or a Stop happens. The
migrator and the application have no liveness property, as a command or the process
may end at every step; nor has the scheduler, whose goroutines only hand over a job.

## 5. Proofs

The theorems hold for every value of the constants under the named assumption of
each module, and for infinite sets where the assumption does not say otherwise.
`AppLifecycleProofs` and `CalendarSyncProofs` have two parts each, about the
component they are named after and about a client it uses (the IB client, the token
bucket); each part uses the assumption of its own component only.

**WorkerPoolProofs** (`PoolAssumption`). `TypeCorrect`, `NoJobLostOrDoubled`,
`AttemptsAreExact`: none of the three is inductive. `PoolInv` is
`TypeOK /\ StopOrder /\ Hands /\ Apart /\ Kept /\ Counted`. `StopOrder`: only the
caller that found `running` closes channels, and at most three times; without it
`closeStage` has no bound. `Hands`: a worker holds a job exactly when it is
neither at its select nor gone. `Apart` and `Kept` are the two directions of
`OnePlace`, stated on positions and workers instead of on a set of places.
`Apart` also says that what was not accepted is nowhere, without which a
submission could add a second copy. `Counted` refines `AttemptsExact` by the
program counter. The lemma `Kinds` reduces every step to one of six effects on the
places of jobs, and the preservation of `Apart` and `Kept` goes by these cases.
`AuditRowsAreTrue` and `SafeWhileItStops` add `ReasonsFit` (only jobs with a
handler are called; a worker buries for the end of the pool only when it is over)
and `RowsFit` (a worker's row is the last of its job's): together `EndsInv`. The
order of the dead-letter entries is kept by a trim (`RecordShifts`), so that a
justified entry stays so. `StopWaitsForAll` needs that one caller calls Stop.
`DeadLettersAreAccountedFor` (`AccountsFit`) cannot be had from the number of
buried jobs alone: as no job has two entries (`BurialJustified`), there are as many
jobs listed as entries (`ListedCount`), and what a trim leaves becomes a fact about
the length of the list.
`PoolKeepsLifecycle` is the step simulation of JobLifecycle: a worker step can
change the phase of its own job only (`PhaseElsewhere`), and the invariant gives
that phase before and after the step.

**SchedulerProofs**. `SchedulesAreConsistent`, `FiringsStayCurrent`,
`ScheduledOnce`, for any number of clients whose requests overlap and any file,
ids that it names twice included. The invariant adds to the properties that the
entries of an id without a race are copies of the map but for `enabled`, and what a
POST between its two locks may rely on: it has added no entry for its id yet, and
either the id is contested, or it is not in the map and no other POST is after it.

**MigratorProofs**. `RecordedVersionsHaveTables`; `VersionsHaveNoHoles` if every
file has a down file; `SuccessfulUpsAreComplete` if versions are distinct. The
invariant says for each command at each statement what its stale copy of the
recorded versions still guarantees: what it saw recorded is recorded, unless a
Down, Reset or force has run (`UpsFit`, `DownsFit`, `TargetsFit`, `Exclusive`).

**AppLifecycleProofs** (`LifeAssumption`, `AuditAssumption`). `LogIsTruthful` (an attempt's `run` is a row of its own,
and rows of ended processes have no attempt behind them) and `PartsOutliveUsers`
(how far App.Stop is tells what is open; which handlers exist tells what was made).
`PagesAreComplete`: that no row is missed says nothing about the rows not seen yet,
so `PagesFit` counts: a row of the reader's base that is left was seen or has at
least `offset` rows before it. Its place never gets smaller (`PlacesGrow`), since
new rows come before it and Cleanup takes old ones only; and a page that is short
has nothing behind it. `StatsAreConsistent` (`StatsFit`): each count taken is
still the count of the table while no row was written.
Second part (`ClientAssumption`): `RequestsAndSessions`. Who is where tells who holds `authMu`
and `mu`; under them a client of the session is not replaced before its ping.

**ILPClientProofs** (`IngestAssumption`). `IngestsAreExact`, `CleanResultsAreComplete`, from
`IngestInv`. That a row is not stored twice needs `StoredFits` (what is to be sent, or
not yet read, is not stored), which needs `BatchFits` (what is to be sent belongs to the
last batch read) and `StubFits`: a connection with half a line behind it takes no
more bytes. `LimitFits`: an ingest that goes on has taken whole batches, so the row
limit is overrun by less than one. `CleanFits`: without a note in the result
every well-formed row read so far is stored or still to be sent. Every step of an
ingest is of one of five kinds (`Kind`): it waits, reads a batch, meets a read
error, finishes a batch or goes on with it; the parts are preserved kind by kind.

**HistoricalDataProofs** (`HistoricalAssumption`). `FillsAreExact`, from `FillInv`. It is
about what is there after each page, which holds only because of where the next page
starts: between two pages a job has exactly the bars from `startTime` on, and that is
not before the period (`PageOf`); the instrument at hand was not filled before
(`PlaceOf`); and a page has the newest bars of its period, at least one if there is any
(`AnswerFacts`), so that an empty page or a bar before the period is the end.
`CountedBarsStayStored` adds `SenderFits` (the sender knows who is in the middle of a
row; without a race it holds bars of the gateway only) and `SentFits`: while nothing
went wrong, each bar at hand is in the table, in the buffer or still to be sent,
at least as often as the job has it. A flush by anybody moves it from the second to the
first. `Alone` says that a step changes one process only, `Quiet` that it leaves the
sender as it is.

**CalendarSyncProofs** (`SyncAssumption`). `SyncsAreComplete`, `RowsGoForward`: without an overlap a
run's answer is not older than the rows it found. That what is due is stored needs
to be known row by row while a day is under way (`StoredInv`): what a run did not
find absent was there, and rows are never deleted, so it still is.
Second part (`BucketAssumption`): `BucketTypeCorrect`, `WaitsAreExact`,
`ExactUntilThen`. The wait that is left and the units missing move together, which
keeps the bucket from being overfilled when the timer fires. The two halves of
`ExactUntilAWaitEnds` are proved together, because an exact bucket can pay for
a grant only if it holds what the code's bucket holds.

**WatchlistProofs**. `TablesStayInOrder`, and `PromisesAreKept`, the
implementation of WatchlistStore but for `TakesLeftovers`: `CallsFit` says at each
statement whether the call has taken effect.

Only model-checked: every liveness property (`PoolMakesProgress`, `StopReturns`, `EveryCallReturns`, `IngestEnds`, `JobsEnd`, `SyncEnds`,
`RequestsAreAnswered`, `RequestsAndCloseEnd`, `OnlySelfLockBlocks`). The prover
has no means for them: it reasons neither about ENABLED nor about fairness.

What the theorems assume about the world is in the assumptions. Of `HistoricalData`
they say that times are natural numbers of minutes up to `Now`, and that the
periods of a download are valid ones (the others the gateway refuses: `FetchFails`);
a job's period may be anything. Of `ILPClient`: files are finite, the batch size is
positive, limits and retries are not negative.

## 6. Not modelled

* Instruments import (`handlers/instruments.go`): one transaction in one function
  with no other actor inside it. HTTP ingestion: stateless, and without a caller.
* Provider clients, `GetHistoricalData`, the instrument list, the table endpoints
  of QuestDB: a request passed on and its answer formatted.
* Health (read-only; the ready flag is set and never read), configuration,
  logging, metrics, tracing, metadata, router and middleware: wiring and output.
* Code without a caller in the program: `BufferedILPClient` (it forgets its buffer
  when a flush fails), `CompleteSuccess` and `CompleteFailure` of the audit log,
  `Reconnect`, `AuthStatus`, `IsConnected` and `IsAuthenticated` of the IB client,
  the single-row `Upsert` of the calendars. Cleanup, DownloadHistoricalData,
  `Pool.Stop` and `App.Stop` have no caller either, or tests only; they are
  modelled because they share state with what runs.
* Rounding of float64 in the token bucket; the text of SQL, CSV and ILP lines;
  names, notes, positions and generated ids of watchlists.

## 7. Divergences between the code and what it says

Shown by a run: when the ping of an expired session fails, EnsureAuthenticated
calls itself with `authMu` held and never returns (`client.go:157`,
`ib_keepalive`). The worker is lost, and so is every later keep-alive.

Stated as a definition that no run uses; adding it to the configuration named
gives the trace:

* `NoCrash` (`pool_stop`): a dead letter after Stop closed its channel ends the
  process, though the comment at `sendToDeadLetter` expects it handled.
* `NilMeansQueued` (`pool_stop`): Submit returns nil for a job that it rejected.
* `ListWithinLimit`, `GaugeIsCurrent` (`pool_core`): the dead-letter list is cut only
  when an entry finds it longer than `MaxDeadLetterSize` (`pool.go:93`, "maximum
  number of dead letter entries to keep"), so it reaches one more; the gauge
  (`metrics.go:148`, "current number of jobs") counts entries that were dropped or
  cut as well.
* `StopAlwaysReturns` (`pool_stop`): Stop waits for ever for a worker whose handler
  hangs.
* `CreatesAreExclusive` (`sched_core`): two overlapping creates of one id pass the
  check of `jobs.go:74` both; both are answered 201, and cron fires the id twice.
* `DisabledJobsDoNotFire` (`sched_core`): disabling or deleting a job does not
  unschedule it.
* `NoJobsAfterStop` (`sched_core`): run requests, and firings already under way, hand
  jobs to the pool after the scheduler was stopped ("no new jobs", `app.go:167`).
* `DeletedSymbolsStayAway` (`watchlist`): foreign keys are declared and not enforced,
  so Delete leaves the symbols (`watchlist.go:224`, "deletes a watchlist and its
  symbols"), and a later list with the same id has them. A read of the symbols of
  a deleted list shows them too.
* `WithinRate` (`bucket_core`): a wait of Allow gives away the fraction of a token
  that was left when it began.

With other constants: files 001 and 002 of one date and 001 of another in
`migrate_core` are not all applied (`UpCompletes`), because only NNN counts.

Met while modelling:

* No `recover` is active while a handler runs (the two in `pool.go` are at 215 and
  352). The registry's test for a nil IB client (`registry.go:80`) does not see
  a nil pointer in an interface, and bulk_ingest is registered without a test: with
  QuestDB or the gateway down at start-up, the first such job ends the server.
* A second caller of Stop returns at once while the first still waits
  (`pool.go:465`): `StopWaits` holds for one caller.
* `App.Stop` never stops the pool: jobs meet closed clients and a closed database,
  and their rows stay `running`. Nothing closes such rows at the next start.
* Cleanup deletes rows that are still `running`, if they are old enough.
* EnableJob of a job that was added disabled never schedules it
  (`scheduler.go:232`; `ScheduledWhenFirstAdded`).
* The metadata of a configured job never reaches a cron run (`scheduler.go:108`),
  though the examples configure jobs through it.
* AllowImmediate waits for the mutex while an Allow waits for its token, and an
  Allow that is queued behind another does not notice its cancellation.
* A cancelled ingest reads its file to the end (`ilp.go:259`), a persistent read
  error loops for ever (`ilp.go:267`), RowsIngested counts rows that were not sent
  (`ilp.go:302`), and the jobs ignore `result.Errors`.
* A historical job succeeds when instruments failed or the page limit stopped it,
  counts bars whose flush failed, and shares the LineSender with other jobs, which
  its library forbids. A bar at `startTime` is fetched by two pages and
  stored twice.
* A row of stocks_earnings that was stored with an estimate is never updated with
  the actual figure: rows that exist are skipped (`stocks/handler.go:151`).
* A symbol added to a watchlist without a position keeps NULL.
* Down passes over applied versions without a down file and rolls back an earlier
  one (`migrate.go:112`); version 0 can never be rolled back (`migrate.go:130`).
