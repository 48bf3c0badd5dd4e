# Verification of mcim-rust-sync

`mcim-rust-sync` copies information about mods from CurseForge and Modrinth into
the MongoDB cache of MCIM. Every task runs as a one-off process from the command
line, or again and again inside a daemon. This directory holds TLA+ models of
the program's core, TLC configurations that check them on small instances, and
proofs for TLAPS. `PROJECT.json` says which definition stands for which lines.

## 1. Inventory of the system

| Component | State | Operations | Where |
| --- | --- | --- | --- |
| Modrinth sync and refresh | four collections: projects, versions, files, translations; in memory the batch, dead and outdated ids | `sync_project`, `remove_project`, `refresh`, `refresh_full` | `src/sync/modrinth.rs`, `src/task/modrinth.rs` |
| CurseForge sync and refresh | three collections: mods, files, translations | `sync_mod`, `fetch_all_files`, `refresh`, storing hidden files | `src/sync/curseforge.rs`, `src/task/curseforge.rs` |
| Queue tasks | Redis sets filled by the web API; in memory what was taken from them | `drain`, resolve, sync, `requeue`, accounting | `src/db/queue.rs`, `src/task/*.rs` |
| Search tasks | position in the list of newest projects | page, known ids, sync, requeue, stop | `src/task/*.rs` |
| Dictionary tables | three Modrinth tables without a key | `sync_tags`, `refresh_collection` | `src/sync/modrinth.rs`, `src/db/mongo.rs` |
| Daemon | next time and slot of every job, running tasks, metrics | `spawn_due`, `claim`, `shutdown` | `src/daemon.rs` |
| Task history | collection of task runs | insert, update, mark interrupted | `src/runner.rs`, `src/models/task_run.rs`, `src/db/mongo.rs` |
| HTTP client | token bucket per host | `send` with retries, `acquire` | `src/http.rs`, `src/error.rs` |
| API clients, data models | none | one request or one document each | `src/api`, `src/models` |
| Metrics, task API, freshness | counters; read-only queries | | `src/metrics.rs`, `src/task_api.rs` |
| Configuration, command line, wiring | none after the start | parsing | `src/config.rs`, `src/cli.rs`, `src/app.rs` |

**How they interact.** The daemon spawns a tokio task per due job; so several
tasks, and processes started by hand, work on the same collections and queues
with nothing between them but the order of their writes. mcim-rust-api puts ids
into the queues. Search and refresh put what failed into the queues too. All
requests pass through one HTTP client.

**What is hard.** Every `await` between two requests or writes is a point where
another task, an edit upstream, an error or the death of the process may come in.
There are no transactions. The refresh tasks look at nothing but a stamp of the
main document, so whatever that stamp hides is never repaired. SPOP removes a
request before it is served. A list fetched in pages moves under the pages. A
task may panic or hang.

**What makes each part correct.**

* Sync and refresh: a main document that compares as up to date vouches for the
  other collections; refresh converges; only what an answer was without is removed,
  and completely. That nothing live is removed would be right too, but does not hold
  (section 5).
* Queues: no request is lost between Redis and memory; the accounting agrees with
  what was put back; every request is served in the end.
* Search: what it has not found is newer than all it knows; `--full` finds all.
* Dictionary tables: a table that once held a complete listing always holds one,
  whatever fails.
* Daemon and history: no job overlaps itself, no slot leaks, no shift runs twice,
  a stop signal works though tasks hang, recorded results stay.
* HTTP client: retries are bounded, take tokens, and only retry what is retryable.

## 2. Modules

| Module | Models | Properties |
| --- | --- | --- |
| `ModrinthSync` | Modrinth sync, refresh, removal | `CurrentMeansMirrored`, `StampsAdvance`, `RemovesOnlyTheDead`, `RemovalLeavesNothing`, `Converges`, `IInv` |
| `ModrinthSync_proofs` | theorems about it | |
| `CurseforgeSync` | CurseForge sync, paging, refresh, hidden files | `CurrentMeansMirrored`, `HiddenSurvives`, `Converges`, `CleanMeansCurrent` |
| `CurseforgeSync_proofs` | theorems about it | |
| `QueueTask` | both queue tasks | `NoneLost`, `FailedIsRequeued`, `RequeuedIsFailed`, `OnlyFaultsLose`, `EventuallyServed` |
| `QueueTask_proofs` | theorems about it | |
| `Search` | search tasks of both services | `NothingMissed`, `FullFindsAll` |
| `Search_proofs` | theorems about it | |
| `DictRefresh` | `modrinth tags` | `StaysWhole`, `AloneMeansClean`, `IInv`, `ImplementsTable` |
| `Table` | abstract: a table whose listings come and go as wholes | |
| `DictRefresh_proofs` | theorems about `DictRefresh`, and that it implements `Table` | |
| `Daemon` | daemon and task history | `NoSelfOverlap`, `SlotMeansRunning`, `OncePerShift`, `RunningIsLive`, `ResultsStay`, `DueIsDispatched`, `StopIsObeyed` |
| `Daemon_proofs` | theorems about it | |
| `Http` | `HttpClient::send`: attempts, retries, timeout, token bucket | `RateBound`, `GivesUpOnlyWhenItMust`, `ImplementsCall`, `NoHang` |
| `Call` | abstract: a request as the other modules see it | |
| `Http_proofs` | theorems about `Http`, and that it implements `Call` | |

Each component's module has an `MC` module that the configurations are for.

### ModrinthSync

A job is what one task does to one project. Its `step` names the await it is at:
`FetchProject` and `FetchVersions` are the two requests of `sync_project`;
`UpsertFile`, `UpsertVersion`, `DropVersions`, `DropFiles`, `ReadTranslation`,
`WriteTranslation` and `WriteProject` its writes in the order of the code, where
an `upsert_many` writes one document at a time in any order. `RemoveFiles` to
`RemoveProject` are `remove_project`. `OpenCursor`, `ReadBatch`, `CompareBatch`,
`ScanDone`, `RemovalDone` and `Finish` are `refresh`; `Submit` stands for the
tasks that call `sync_projects` with ids from elsewhere. `JobFails`, `FetchFails`,
`BatchFails` and `Crash` are the error paths and the death of a task.

Data is reduced to what `is_outdated` compares: `updated` is a counter, the
content of a version is the `updated` of its last edit. `game_versions` behaves
as the version list does. The history variable `overlapped` records that the last
sync of a project to complete did not run alone; without it most of the properties
would be false, which `modrinth_overlap` shows. A removal counts as a job from the
comparison on, so these properties say nothing of a project that was synced between
comparison and deletion. `RemovesOnlyTheDead` knows no such exception: `DeadOnce`
compares what the task was told with upstream as it is. `modrinth_removal` shows what
can happen in between.

Assumed of Modrinth: every edit moves `updated`, except that a version is
withdrawn; and a project that disappears and comes back has a new `updated`
(`RelistTouches`). Without the second, a removal that fails half-way and a
project that comes back in time leave a document that looks current beside
deleted versions: with `RelistTouches = FALSE` the invariant fails. Nothing in the
source says what Modrinth does here. Assumed too is that no two edits of a project
fall into one second: `same_second` compares no finer, and `CurseforgeSync` says
what it costs when they do.

### CurseforgeSync

One mod, since mods do not interact: refresh decides mod by mod, and a failed
batch only means that it does not. `GetMod` is the first request of `sync_mod`,
`GetFiles` and `GetPage` are `fetch_all_files`, where each page sees the list as it
is by then; then the writes as above. `Refresh` reads the stamp, `Compare` gets
the answer. `StoreHidden` is the write in `resolve_file_ids`. `EmptyPages` allows
a page with nothing before the end of the list: `fetch_all_files` then stops, and
the sync deletes the rest of the files and writes the mod as current. Whether
CurseForge ever sends one cannot be read from the code, so the run assumes not.

`second` gives every value of `dateModified` the second it falls into, in any way
that is possible: `Compare` knows no more of it (`SameSecond`). An edit in the very
second of the one before is therefore not seen until a third follows in a later
second (`Blurred`); `Converges` leaves just that case out. `asOf` is history, the
`dateModified` upstream had when the task began: `CleanMeansCurrent` says that a
task which ends without an error has left the mod document no older than that, and
files and translation as upstream has them if nothing changed there meanwhile.

### QueueTask

`queues` are the Redis sets, `run` is the memory of each process, `owed` the
history of requests not served. `Drain` is one SPOP with a count, `TakeMods`,
`Resolve`, `StoreHidden` and `PutBack` are the resolution of a queue in chunks,
`DropUnaccepted` the filter by `MIN_MOD_ID`, `Settle` and `SyncFails` the sync of
one mod as a single step, `Retry` the final requeue. `DrainAllFirst` tells the
CurseForge order (drain all, then resolve) from the Modrinth one.

### Search

Projects are numbers in the order of their publication, and a page is cut out of
what is listed when it is requested. `steady` is the history of the conditions
under which an incremental search leaves no gap: nothing known by other ways,
nothing withdrawn, no run cut short, and no stop at a project that the run itself
has synced because the pages moved. A full run re-establishes it. `source` tells
the services apart: CurseForge shows no more than `SearchLimit` mods of a list
(`Reachable`), and a full run reads it in descending and then in ascending order
(`ListDone`), which reaches all there is as long as `Within` holds.

### DictRefresh

A document is `<<run, item>>`. `Insert` and `Delete` are single documents of
`insert_many` and `delete_many`, which are not atomic. Two runs may have the same
timestamp. `Table` is what the readers are promised, and `ImplementsTable` that the
module keeps it: seen through the set of runs of which a table holds the complete
listing (`holds`), inserts of single documents are stutters but for the last, and
the deletes of a listing are one step, that of its first document.

### Http

One host with its bucket, since hosts share nothing. A tick of the clock is the time
in which the bucket gains one token. The configuration is chosen in `Init`: any of
`Capacities`, or none for a host that is not in `DOMAIN_RATE_LIMITS`. A request of a
task goes from `Begin` to `wait` (in `acquire`), through `Send` to `flight`, and ends
by `Receive` (an answer) or `Break` (the connection, the timeout, the body); then it
is returned, or it pauses (`backoff`) and `Retry` brings it back to `wait`.
`until_ready` keeps no queue: any task that waits may take the next token. An answer
of upstream (`Reply`) may sit in the connection while `Break` gives up the attempt.

`Call` is what the other modules take a request to be: a call returns something
upstream showed between its begin and its return, or an error. `had` is the history
that both use. Of upstream it is assumed that 404 is only answered when there is
nothing under the URL; of the rest, anything at any time. The buckets belong to
a process: a task run from the command line beside the daemon has its own, so
`RateBound` is about one process, which is all that the code claims.

### Daemon

`next`, `slot`, `failures` are the fields of `Job`; a run is a record with a stage,
from `Dispatch` (`spawn_due`) over `Begin`, `Insert`, `Work`, `Update` to `End`, or
`Panic`, `GraceOver`, `Crash`. `RunOnce` is a task started from the command line in
a process of its own, which shares only the collection of records.

## 3. Runs

| Run | Shows | Bounds |
| --- | --- | --- |
| `modrinth` | safety and convergence of the Modrinth mirror | one project with one version, a refresh and a queue task, two states of upstream, one fault |
| `modrinth_overlap` | *violated*: syncs of one project by two tasks leave a current document beside old versions | two tasks, no fault |
| `modrinth_removal` | *violated*: refresh deletes a project that came back after the comparison and was synced by another task | one project with one version, a refresh and a queue task, no fault |
| `modrinth_leftover` | *violated*: the file of a version whose file was replaced is never deleted | one task |
| `curseforge` | safety and convergence of the CurseForge mirror with moving pages, and with edits in one second | two files in pages of two or less, one fault, two tasks and one edit, then refresh alone and a second edit |
| `queue_modrinth` | no request is lost or starves | two processes, four ids in three queues, two faults |
| `queue_faults` | which faults may lose requests; accounting | six kinds of ids in two queues, two faults of any kind |
| `search` | when searches of either service leave no gap | five projects in pages of two, CurseForge showing four, one fault |
| `search_gap` | *violated*: a publication between two pages ends the search early | three projects, pages of one |
| `dict` | tables stay whole | two runs, two tables, two items |
| `daemon` | schedule, slots, shutdown and history | one job, one task from the command line, two runs each, one crash, one fault |
| `http` | rate, retries, answers and end of requests | two tasks, three attempts, capacities 0 and 2 or no limit, windows up to two ticks, one status of each class |

**Why the bounds are enough.** Jobs of different projects share no state but
their task's phase, so one project shows what can happen to one; batches and the
sequence of removals are covered for any number by the proofs, which know no
bound. One version suffices for a list that can be empty, full, edited, and
withdrawn while a write is in the air. Two states of upstream make old and new; a
third would need two syncs to straddle two edits each. In `search`, five projects
in pages of two are the least with a page that moved by one and something unseen
behind it; CurseForge shows two pages of them, so that only both orders together
reach the fifth. Two dictionary runs are what an overlap takes. The daemon's clock has
three values, so that a job can be due, run, be late and be due again. `http` has
two retries where the code has three: a first, a middle and a last attempt are all
there is to tell apart, and the proofs hold for any number, as they do for windows
of any length. Of error statuses, 403, 429 and 500 are one of each class of
`is_retryable`, beside 404 and errors without a status. In `curseforge` an edit may
share the second of the one before, or not; that one is missed then until another
follows, and so there is a third value of `dateModified`, in a second of its own, which
refresh has to see. Behind it only refresh goes on (`Explored`, a state constraint; the
safety of two tasks and more edits is proved). Faults
are bounded because each ends a run; one or two reach every error path, and a
second one during the repair of the first.

**Deadlock** is checked for `modrinth`, `curseforge`, `queue_*`, `http`. It is switched
off (`CHECK_DEADLOCK FALSE`) for `daemon` (time and the number of runs are
bounded, and the daemon may be asked to stop and never be started), `dict` (each
run happens once) and `search` (nothing may be left to publish or to find).

**Fairness.** `Converges`: the steps of a task that is not idle are weakly fair,
since tokio polls every task it has spawned and each request has a timeout; and
the daemon starts refresh again and again. Nothing makes upstream edit, anybody
ask, or a fault happen. `EventuallyServed`: the same of a run of the queue task.
`DueIsDispatched`, `StopIsObeyed`: the loop is woken (by the time of a job, at the
latest after `MAX_SLEEP`) and shutdown has a timeout; nothing is assumed of the
tasks, which may hang for ever. `NoHang`: a request that can go out, has an answer
or can time out does so (`REQUEST_TIMEOUT`), a pause ends, time goes on. Upstream
need not answer. Strong fairness of `Send` is not assumed, since nobody queues for
a token: a task may be overtaken again and again, and `NoHang` excepts that.

## 4. What is proved

Every safety property that a passing run checks, invariants and action properties
alike, is a theorem for all values of the constants, and so are both refinements.
Each component has its inductive invariant `IInv` at the end of its module, after
the properties it is for, and its proofs in a module of their own. `TLC` agrees
with each `IInv`: in the runs `modrinth` and `dict` it is an invariant of
the configuration; in the others it was added to that of the run (`search` with
other sizes of page and limit too), which anybody can repeat.

`ModrinthSync_proofs`, for any sets of projects, versions and tasks, any chunk size
and any bounds:

| Theorem | Statement |
| --- | --- |
| `TypeCorrect` | `Spec => []TypeOK` |
| `Inductive` | `Spec => []IInv` |
| `FreshnessCorrect` | `Spec => []CurrentMeansMirrored` |
| `StampsNeverRecede` | `Spec => StampsAdvance` |
| `RemovalRestsOnAnswer` | `Spec => RemovesOnlyTheDead` |
| `RemovalComplete` | `Spec => RemovalLeavesNothing` |

Assumptions: the types of the constants (`BoundsAssumption`), that a task either
refreshes or syncs given ids (`TaskAssumption`), and, all but for `TypeCorrect`,
`RelistTouches`.

The argument. `CurrentMeansMirrored` says nothing of the syncs under way, so it is
not inductive. `IInv` adds, for each project, that no snapshot is ahead of
upstream, and that one with the same `updated` can only have missed withdrawals
(`NotAhead`); that a job either has met no other or the project counts as
overlapped; and for a job that has met no other, what it has achieved at each
step *provided that its first answer is still current* (`Progress`): if it is, then
all later answers and writes belong to the same state of upstream, and when the
project document is written the other collections are already right. If it is not,
the document it writes compares as outdated and nothing is claimed. For a
removal, `RemovalInv` says that the document it will delete is not current, and
what is gone by each step. An upstream edit moves `updated`, which falsifies
"still current" and makes the claims vacuous; a withdrawal changes the version
list, which does the same. `TLC` checks `IInv` in the run `modrinth`.

`RemovesOnlyTheDead` has an invariant of its own (`WordInv`), which knows nothing of
overlaps: each step of a task ends a job, goes on with the answer the job began
with, or begins one with the answer of that moment (`JobMoves`); a removal begins on a
hidden project only, and upstream can leave that state only by a newer `updated`.

`DictRefresh_proofs`, for any sets of runs and items and any number of tables:

| Theorem | Statement |
| --- | --- |
| `TypeCorrect` | `Spec => []TypeOK` |
| `Inductive` | `Spec => []IInv` |
| `NeverHalfATable` | `Spec => StaysWhole` |
| `AloneLeavesClean` | `Spec => AloneMeansClean` |
| `Implements` | `Spec => ImplementsTable` |

`RefreshAssumption` is all they assume. That a table holds a complete listing is not
inductive either: a run that deletes might take the only one. `IInv` says why it does
not. What a run has inserted into the table it is at is still there, or some
complete listing with a later timestamp is (`InsertedStays`); so a run that has
inserted everything and begins to delete is covered by a complete listing which is
not older than itself (`DeleterIsCovered`), and it only takes documents that are
older (`DeleteTakesOlder`). If what it takes was inserted by another run, that
run is older than the covering listing, hence superseded by it
(`DeleteKeepsInserted`). This part is `RunsInv`. `AloneInv` adds what no overlap
gives: the run has the latest timestamp of all (`Latest`), since the clock has moved
on between the answers and any earlier stamp; so every document that is not its own
is older, those of failed runs included; what it finds to delete is all of them, and
the tables behind it hold its own listing (`LeftClean`). `TLC` checks `IInv` in the run
`dict`. The refinement follows from `RunsInv`: what a delete takes is covered by a later listing, which is the guard of
`Retire`, and no document of a run is in a table before the run has its timestamp,
which is that of `Stamp`.

`Http_proofs`, for any sets of tasks, contents and statuses, any number of retries,
any capacities and windows of any length:

| Theorem | Statement |
| --- | --- |
| `TypeCorrect` | `Spec => []TypeOK` |
| `Inductive` | `Spec => []IInv` |
| `RateKept` | `Spec => []RateBound` |
| `GivesUpRightly` | `Spec => []GivesUpOnlyWhenItMust` |
| `Implements` | `Spec => ImplementsCall` |

`HttpAssumption` is all they assume. `RateBound` counts requests only; what makes it
inductive is to count the tokens left too (`BucketInv`): those sent in the last *k*
ticks and those in the bucket are together no more than the burst and *k* - 1. A
send moves one from the bucket to the count, a tick adds one to both sides, and a
full bucket in a new window is the burst itself. For `Implements`, `CallInv` says
that an answer which lies in a connection is from the time of the call it belongs
to, and that none lies there when no attempt is in flight.

`QueueTask_proofs`, for any number of processes, any finite set of members of any
kinds, either order of the work, and any bounds:

| Theorem | Statement |
| --- | --- |
| `TypeCorrect` | `Spec => []TypeOK` |
| `Inductive` | `Spec => [](TypeOK /\ IInv)` |
| `LostToFaults` | `Spec => OnlyFaultsLose` |
| `PutBackIsReported` | `Spec => []RequeuedIsFailed` |
| `ReportedIsPutBack` | assuming `~ StoreFails`, `Spec => []FailedIsRequeued` |
| `NothingIsLost` | assuming no Redis errors, failing writes and crashes, `Spec => []NoneLost` |

The first four hold whatever fails. The assumptions of the last two are constants of
the model that switch faults off, not claims about the code: section 5 says what
Redis errors and failing writes do. `IInv` says
where in a run a request can be by each stage (`InOrder`): queues are resolved in
their order, nothing is left of them once the sync begins, the batch in hand is one
that is to be stored or put back. Without it a run in the stage `done` might still
hold something, which the end of the run would drop. `Accounted` says the same of the
counters: what was put back before the sync is counted already, what is put back
after it is `bad`. A step then moves each request from one place to another: from its
queue to the run (`Drain`), from there back (`PutBack`, `Retry`) or to the mod it
belongs to and on to `served`. `TypeOK` and `IInv` are proved together, as the counters
stay natural numbers only because of the order.

`Daemon_proofs`, for any sets of jobs and one-off tasks, any schedules and bounds:

| Theorem | Statement |
| --- | --- |
| `TypeCorrect` | `Spec => []TypeOK` |
| `Inductive` | `Spec => []IInv` |
| `OneRunPerJob` | `Spec => []NoSelfOverlap` |
| `SlotsAgree` | `Spec => []SlotMeansRunning` |
| `HistoryIsLive` | `Spec => []RunningIsLive` |
| `ShiftsRunOnce` | `Spec => OncePerShift` |
| `ResultsRemain` | `Spec => ResultsStay` |

`DaemonAssumption` is all they assume. A job starts only with its slot free, and
`SlotMeansRunning` says that then none of its runs is under way; so `NoTwins` and the
slots need each other. `Numbered` and `RecordInv` tie the collection to the runs: the
name of a run to come is unused, a run that works has no result yet, and one that
has updated its record is no longer `running` there. That is why an update overwrites
no result but its own mark `interrupted`, and why a record that says `running` has
its run. `ShiftsAhead` says that a job waits for a time later than its last start,
after a restart too, since `next_after` looks strictly ahead.

`CurseforgeSync_proofs`, for any sets of files and tasks, pages of any size and any
bounds:

| Theorem | Statement |
| --- | --- |
| `TypeCorrect` | `Spec => []TypeOK` |
| `Inductive` | `Spec => []IInv` |
| `CurrentIsMirrored` | assuming `~ EmptyPages`, `Spec => []CurrentMeansMirrored` |
| `HiddenStays` | `Spec => HiddenSurvives` |
| `CleanIsCurrent` | assuming `~ EmptyPages`, `Spec => CleanMeansCurrent` |

`EmptyPages` is the question of section 5 that the code cannot answer; where a
theorem speaks of files and translation it needs it, and the others hold with empty
pages too. The argument is that of `ModrinthSync`: what a sync that has met no
other has achieved *if its first answer is still current* (`Progress`). The pages
add to it: as long as the answer is current the list has not moved, so the pages
read so far are a beginning of it without a hole (`Between(0, index)`), and a page
with nothing on it is its end. `AloneInv` adds that such a sync is ahead of the
document and of whatever another task has read from it, and `JobInv` that a stamp
once read is never ahead of upstream; these and `CurrentMeansMirrored` give
`CleanMeansCurrent`, by way of `second` being monotone, which is proved from its steps by a least counterexample
rather than by induction.

`Search_proofs`, for any number of projects, pages of any size, any limit and both
services:

| Theorem | Statement |
| --- | --- |
| `TypeCorrect` | `Spec => []TypeOK` |
| `Inductive` | `Spec => []IInv` |
| `NoGapsLeft` | `Spec => []NothingMissed` |
| `FullRunFindsAll` | `Spec => FullFindsAll` |

`SearchAssumption` is all they assume. `NothingMissed` speaks of the time between runs;
`OrderInv` says what a run under way has secured. In descending order publication
moves every project to a later position and never back, so what the pages turned
have not shown is newer than all they have (`DescendingInv`), and after the last page
nothing is left. An incremental run may stop earlier, at a known project that is not
of its own making: all that is unseen is newer than that (`FrontierInv`). A full run
of CurseForge stops at the limit and begins again from the other end, where
publication moves nothing but lengthens the list (`AscendingInv`); a project whose
position is beyond the limit in one order is within it in the other, since the two
positions add up to the length of the list, and `Within` bounds that (`BothWays`,
`BothOrders`). The lemmas about pages (a full page, a short one, an empty one; what
`Rank` does when a project is published) rest on the library's theorems on finite
cardinalities.

**Only model-checked**: `Converges` of both mirrors, `EventuallyServed`,
`DueIsDispatched`, `StopIsObeyed` and `NoHang`. They are liveness under fairness and
need `ENABLED`, which is out of this prover's reach. The four violations of section 5
are counterexamples and need no proof.

## 5. Where code and documents differ

With a run that shows it: `modrinth_overlap`, `modrinth_removal`, `modrinth_leftover`,
`search_gap` (see the findings in `PROJECT.json`). Without one:

* Every `drain` and `requeue` ends the run by `?` when Redis fails
  (`src/task/curseforge.rs:72`), and what was taken before is lost with the memory of
  the run, against line 44 of the program's README and the comment at
  `src/task/mod.rs:70`. With `RedisFails = TRUE`, `NoneLost` fails; `OnlyFaultsLose`
  counts it as a run cut short.
* A write of hidden files that fails counts them as failed, but does not put them
  back (`src/task/curseforge.rs:156-168`, against line 44 of the program's README). In
  `QueueTask` with `StoreFails = TRUE`, `FailedIsRequeued` fails.
* A starting daemon marks as interrupted also the record of a task that another
  process is still running (`src/db/mongo.rs:259`, README line 219). `ResultsStay`
  holds all the same: the task overwrites the mark when it ends.
* An empty page ends `fetch_all_files` (`EmptyPages`, above).
* `task_running` stays 1 after a panic until a later run of the job ends: it is set
  to 0 by the last statement of the task (`src/daemon.rs:247`, against README line
  134). `SlotMeansRunning` says so with `faults = 0`; without that conjunct it fails.
* An edit in the same second as the one that was mirrored is not seen by refresh
  (`src/task/mod.rs:13`); `Converges` fails without the exception for `Blurred`.
* README line 40 reads the difference of `checked_at` and `sync_at` as "confirmed to
  be the newest still". `touch_checked` stamps every id of a batch that was answered
  (`src/task/modrinth.rs:162`, `src/task/curseforge.rs:252`), those that are outdated
  or missing included, and before their sync; after a sync that fails the stamp
  says less. No run shows it, since `checked_at` is not modelled.

## 6. Not modelled

Decoding of answers and the fields of documents; the length of pauses between
retries; `checked_at` and the freshness statistics; metrics other
than `task_running` and `task_failures_streak`; the task API; configuration; the
CurseForge categories (one `upsert_many`) and of its search more than one slice
(all are treated alike) and `MIN_MOD_ID`; a clock of the machine that goes backwards
(`OncePerShift` would not survive it); indexes; functions no task calls
(`remove_mod`, `sync_files_by_ids`, `fetch_mods`).

## 7. Plan

Done, in this order, by importance: `ModrinthSync` and its proofs, `QueueTask`,
`Daemon`, `DictRefresh` and its proofs, `CurseforgeSync`, `Search`, `Http` and its
proofs, with `Call` and `Table` as abstract specifications; then the proofs of
`Daemon`, `QueueTask`, `CurseforgeSync`, `Search` and of `AloneMeansClean`. To come:

1. Abstract specifications of the mirror (at any time current or known to be
   outdated) and of a queue that delivers at least once, and proofs that
   `ModrinthSync`, `CurseforgeSync` and `QueueTask` implement them.
2. Freshness: what `checked_at` promises, with `touch_checked` of failed batches.
