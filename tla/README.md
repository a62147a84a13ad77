# TLA+ models of the local services of the App Engine SDK

`scriptfile` is a collection: shell and Python scripts, configuration, a small
Qt program, and copies of larger projects. The one part of it with a core of
concurrent logic of its own is the App Engine Python SDK under
`src/software/googleAppEngine`, whose local services ("stubs") reimplement the
production services in threads and locks, and whose client libraries and tools
run protocols over those services. Modelled are

* the transactions of the local datastore (`DatastoreTxn`),
* memcache and its client (`MemcacheStub`, `Memcache`),
* the protocol by which NDB keeps memcache in step with the datastore
  (`NdbCache`, composed with `MemcacheStub`),
* the task queue with its scheduler (`TaskQueue`),
* the adaptive thread pool (`ThreadPool`) and the bulk loader that runs on it,
  with its progress database, crashes and resumption (`BulkTransfer`).

Paths below are relative to
`src/software/googleAppEngine/google/appengine/` unless they begin with `src/`.

## Inventory

| component | state | operations | interacts with |
|---|---|---|---|
| Datastore transactions, `datastore/datastore_stub_util.py` 1200-2090 | per transaction: status, per entity group a tracker (snapshot, read position, buffered puts and deletes), queued tasks; per entity group: log position, apply queue, cached snapshot, write lock; the manager's `_meta_data_lock` | BeginTransaction, Get, Put, Delete, AddActions, Commit, Rollback, Groom, Flush, SetConsistencyPolicy, Clear | store (`_Put`, `_Delete`), task queue (`taskqueue.Add` after the log), callers' threads |
| Datastore operations outside transactions, same file 2217-2600 | none of its own | Get, Put, Delete, Touch, `_RunInTxn`, query entry points | one internal transaction per entity group, with retries |
| Index manager, same file 2090-2214 | index definitions and their states | Create, Update, Delete, GetIndexes | queries |
| Queries and cursors, `datastore/datastore_query.py`, `datastore_index.py` | cursor positions | filters, orders, batches | a snapshot or the live store |
| File store, `api/datastore_file_stub.py` | entities by kind and by group, id counter, data file | `_Put`, `_Delete`, `_AllocateIds`, Read, Write, Clear | Flush calls Write; entities lock, file lock |
| SQLite store, `datastore/datastore_sqlite_stub.py` | tables | the same, in SQL | the same manager |
| Datastore client, `api/datastore.py`, `datastore/datastore_rpc.py` | current connection | RunInTransaction, asynchronous calls | datastore RPCs |
| Memcache, `api/memcache/memcache_stub.py`, `api/memcache/__init__.py` | entries with value, expiry, delete lock and compare-and-set id; per client the ids it fetched | Get, Set (set, add, replace, cas), Delete, Increment, FlushAll | NDB |
| NDB context, `ext/ndb/context.py` | in-context cache, batchers, on-commit queue | get, put, delete, transaction | memcache locks around datastore calls |
| NDB tasklets, `ext/ndb/tasklets.py`, `eventloop.py` | futures, event queue | yield, set_result, wait, run_idle | every NDB call |
| Task queue, `api/taskqueue/taskqueue_stub.py` | tasks by name, by ETA and by tag, tombstones, next wake-up | Add, Delete, lease, modify lease, purge, background execution and retry | datastore (transactional tasks) |
| Thread pool, `tools/adaptive_thread_pool.py`, `tools/requeue.py` | gate width, semaphore permits, queue of new and of put back items, exit flags | SubmitItem, StartWork, FinishWork, Get, Reput, Shutdown | bulk loader |
| Bulk loader, `tools/bulkloader.py`, `ext/key_range` | progress and result databases, progress queue, work items with their key ranges and states | upload, download, split, resume | thread pool, the application's datastore |
| MapReduce, `ext/mapreduce` | shard and job state entities | slices, controller callbacks | task queue and datastore |

The rest is listed in `PROJECT.json` with the reason it is left out: thin
tables or plain input and output (other stubs, development servers, the Qt
program `src/software/WiFi_Hostapd_AP`, the scripts of `src/py` and `src/sh`),
and third-party projects kept in the tree (git, Mantis, the SDK's `lib`).

### What is hard in it

* **Threads and locks.** A request runs on its own thread. A commit holds the
  write locks of all its groups; a groom or a flush holds `_meta_data_lock` and
  takes write locks under it. Snapshots need both, one after the other.
* **Positions instead of data.** Contention is detected by comparing the log
  position of a group with the one at the time of the snapshot; whether this is
  enough depends on when the cached snapshot is dropped and on catching up.
* **Late application.** A committed transaction waits in the apply queue of
  each of its groups, is applied group by group, key by key, by whichever
  thread gets there first, in the sight of readers that take no lock.
* **Side effects.** Tasks are sent in the middle of the commit, under the locks.
* **Expiry, locks and ids of memcache.** Each request runs under one mutex, so
  its threads are simple, but what an entry answers depends on a clock, on a
  delete lock that each operation treats in its own way, and on ids that
  clients carry from one call to the next.

* **Caches beside the datastore.** NDB writes memcache before and after the
  datastore, never with it; a get fills memcache from a read that may be old by
  then; locks expire, and any call may end with an exception between two steps.
* **Work done with no lock held.** The scheduler executes a task while clients
  delete it, purge the queue or add the name again; workers perform items while
  the main thread shuts the pool down.
* **Wake-ups.** The scheduler sleeps until a time that adders, its own round and
  its retries each set by parts.
* **Crashes.** The bulk loader is meant to be killed: rows in one database stand
  for entities in another or on a server, committed at different times.

The hazards, each at its line and with the properties that watch it, are in
`PROJECT.json`; those without a property say why.

### What makes each component correct

* Transactions: the committed ones are serialisable in commit order; an open
  one reads a consistent cut; store and queues add up to the committed state;
  what is committed is applied exactly once, and eventually; tasks come from
  committed transactions only; no call waits for ever.
* Operations outside transactions: each group's part is atomic, retries are
  bounded, Touch applies what is outstanding.
* File store: after a flush and a restart the data file holds the entities of
  some moment not before the last completed flush; no id is handed out twice.
* Memcache: a compare-and-set succeeds only if nothing changed the entry since
  the gets it refers to; a locked key is not readable until its lock expires.
* NDB: memcache serves what the datastore holds unless a writer has yet to see
  to it; nothing uncommitted is shown by memcache or the context's cache.
* Task queue: the indexes hold the same tasks; no two clients hold a lease; a
  task runs no more often than its retry limit allows; the scheduler deletes
  what it executed and nothing else; a push task is executed in the end.
* Thread pool: permits and running workers add up to the enabled count; every
  item is in one place; a joined queue means that all is done; the pool ends.
* Bulk loader: an upload posts every line and no line twice at once, through any
  number of kills; a download that is resumed misses nothing; runs end.

## Plan

| | modules | state |
|---|---|---|
| 1 | `TransactionalStore` (abstract), `DatastoreTxn` (implements it), `MCDatastoreTxn`, `DatastoreTxnProofs`, `DatastoreDataProofs`, `DatastoreCommitProofs` | done |
| 2 | `MemcacheStub`, `Memcache`, `MCMemcache`, `MemcacheProofs` | done |
| 3 | `NdbCache` over `MemcacheStub`, `MCNdbCache`, `NdbCacheProofs` | done for one call per context at a time |
| 4 | `ThreadPool`, `ThreadPoolProofs` | done |
| 5 | `BulkTransfer`, with the pool of `ThreadPool` as a set, `BulkTransferProofs` | done but for mapper and restore runs |
| 6 | `TaskQueue`, `TaskQueueProofs` | done for one queue |
| 7 | the tasklets of one context that share its client and batchers | left |
| 8 | `DatastoreOps`: Put, Delete and Touch of several groups outside transactions, as a client of `TransactionalStore` | left |
| 9 | `DatastoreFile`: the data file with overlapping flushes, crashes and restarts | left |

## Modules

### `DatastoreTxn`

A transaction is a process, since `_SynchronizeTxn` lets one call at a time
into it. Two more kinds of thread matter: one that runs a global query and so
Groom, and one that runs Flush; they are the processes of `Queries`. `call[p]`
is the API call in progress, `pc[p]` the place in it, `cur[p]` the group it
works on and `todo[p]` the groups it has yet to visit.

| variable | code |
|---|---|
| `state`, `xg`, `acts` | `LiveTxn._state`, `_allow_multiple_eg`, the length of `_actions` |
| `view` | a tracker's `_read_pos` and `_snapshot`, or `NoView` before the snapshot |
| `put`, `ins`, `del` | keys in the trackers' `_put` (with `insert` or not) and `_delete` |
| `logPos`, `queue`, `cache`, `wlock` | `_log_pos`, `_apply_queue`, `_snapshot`, `_write_lock` of `EntityGroupMetaData` |
| `done` | the keys of the transaction being applied that are in the store already |
| `mdlock`, `store` | `_meta_data_lock`, the entities of the backing store |
| `tasks` | tasks the task queue has accepted |
| `db`, `hist` | history: the committed state and the order of the commits; no action reads them |

An entity is identified with the transaction that put it: what the properties
need of it is whose write it is. Within a transaction a second put of a key
replaces the first, which shows in `ins` only.

Steps are cut where the code takes a lock or where another thread can look:
each write-lock acquisition, each key of an apply, the end of an apply, each
group of a sweep, the validation of a commit and its log, each task sent. What
happens between two of these under the same locks is one action:
`TakeSnapshot` stands for the cached or fresh copy and the release, `CommitLog`
for setting the state and `Log` on every tracker.

* A read of a group not read before: `Read`, `LockForSnapshot`, the apply steps
  of `CatchUp`, `TakeSnapshot`, then `LockOther` and `CheckOthers` if other
  groups were read. A read of a group already read changes nothing and is no
  action. `ReadVersion` is the same through `EntityGroupPseudoKind.Get`, which
  skips the check and also works on a failed transaction.
* Commit: `Commit`, per tracker `GrabForCommit` and `CheckTracker` or
  `InsertCollides`; `CommitEmpty`, or `StartLocking` and `LockTracker` per
  group; `CommitConflict` or `Validate`, `CommitLog`, `SendAction` per task,
  `CommitRelease`, or `SendFails`, an error other than an `ApplicationError`, which
  leaves by the `finally`: the transaction is committed, its further tasks are not
  sent, and the policy is not told; under Master/Slave `LockToCatchUp`, the apply steps and
  `CaughtUp` per group, then the flush.
* Groom and Flush: `StartSweep`, `VisitGroup`, `LockForSweep`, the apply steps,
  `LeaveGroup`, `EndSweep`. `LeaveGroup` of a groom may leave transactions
  unapplied when none is half applied, as `_ShouldApply` decides.

Abstracted: keys without an id (allocated before the put), entity contents and
sizes, index writes and costs, which have no effect on the control; the
time and the hash that drive `_ShouldApply` are a choice. Not in the model: Clear
and SetConsistencyPolicy, reuse of handles, two client threads in one
transaction (the second waits at `_txn_lock`). `_apply_lock` (1600, 1626) is left
out too: all who apply to a group hold its write lock, the lock is taken last, and
nothing under it waits for another lock, so that it can neither change an
outcome nor close a circle of waits.

### `TransactionalStore`

What a client may rely on: a transaction sees groups as the commits so far
left them, and commits in one step when all it has seen is unchanged. It has
three variables and no locks, positions, queues or caches. `DatastoreTxn`
implements it under the mapping `Promise` (`status <- state`, `seen <-` the data
of the views, `db <- db`); the property is `Serializable`.

### `MCDatastoreTxn`

Constant values for TLC: two or three groups of which the last is the group of
`Key('__global__', 1)`, two keys in different groups or in one, transactions
as symmetric model values.

### `MemcacheStub` and `Memcache`

`MemcacheStub` is the server: `cache`, `nextCas` and the clock `now` stand for
`_the_cache`, `_next_cas_id` and `_gettime`. Every request handler holds the
stub's mutex from beginning to end (`Synchronized`), so a request is one step, but
the mutex does not stop the clock. `_GetKey` reads it, `CheckLocked` reads it again,
and so does the constructor of a new entry; a request carries these readings as
`now`, `checked` and `dated`, each no earlier than the one before, and the clock
stands at the last when it ends.
`_Dynamic_Increment` is not synchronized but does all its work in
`_internal_increment`, which is.

| operator | code |
|---|---|
| `NewEntry`, `Deadline`, `Expired`, `LockedEntry` | `CacheEntry`: its constructor, `_SetExpiration`, `CheckExpired`, `ExpireAndLock` |
| `GetKey`, `Purge` | `_GetKey`, which also removes an expired entry |
| `CheckLocked`, `Visible` | `CheckLocked`; whether `_Dynamic_Get` returns the entry |
| `Stores`, `StubSet` | the policies of `_Dynamic_Set` |
| `CanIncrement`, `Offset`, `StubIncrement` | `_internal_increment` |
| `StubGet`, `StubDelete`, `StubFlushAll` | `_Dynamic_Get`, `_Dynamic_Delete`, `_Dynamic_FlushAll` |

`Memcache` adds clients (`memcache.Client`), each with `casIds`, the ids it
remembers from `gets()` and sends with `cas()`. `changed` and `lockedTill` are
history: since whose `gets()` a key was stored, deleted or flushed, and until
when the last delete locks it; no action reads them. `CacheEntry.expiration_time` and `will_expire`
are one field, `expires`. Values are texts, of which only the identity matters,
and numbers. The 64 bits of a counter and the 30 days that tell a duration
from a moment are constants, `Modulus` and `MaxRelative`. The keys are those of
one namespace; the calls are the synchronous ones, whose id is remembered in
the step that fetches the value. `MCMemcache` gives the constants their values.

Three things that the model shows and no run states. When the lock of a delete ends
between `_GetKey` and `CheckLocked` (`memcache_stub.py:171`, `105`), the deleted
entry is there and counts as unlocked: a `gets()` in that moment returns the deleted
value with its id, and a `replace()` or a `cas()` with the old id stores over it,
although `Client.cas` (`api/memcache/__init__.py:840`) requires that no changes were
made. `CasSeesNoChange` excepts exactly this moment (`LockEnds`), and
`DeletedStaysDeleted` says that before it the lock holds. An increment keeps the
compare-and-set id (`memcache_stub.py:322`), so a `cas()` whose `gets()` came
before it succeeds and discards it, against the same docstring; `CasSeesNoChange` says
that these two are the only exceptions. And a key
deleted with a lock can be incremented without an initial value
(`memcache_stub.py:284`), although `Client.incr` says that it must exist; it
stays hidden, as `DeletedStaysDeleted` says.

### `NdbCache`

The contexts of different requests, each with its in-process cache and a
memcache client of its own, over `MemcacheStub` and a datastore that is a map
from keys to entities. A context handles one call about one key at a time; the
steps of a call are its RPCs, which is where a tasklet yields.

| variable | code |
|---|---|
| `ds` | what a non-transactional get of the datastore returns |
| `local`, `casIds` | `Context._cache`, `Client._cas_ids` of `Context._memcache` |
| `pc`, `at`, `val` | the yield a call stands at, its key, the entity it has read or writes; in a transaction, what the transaction's own context caches |
| `snap` | whether the transaction has read the key, and whether somebody has written it since |
| `tries` | what is left of `xrange(1 + retries)` |
| `was`, `mark`, `loose` | history: what the datastore has held of a key; the id of the lock that a delete stored; whether the last writer of a key left without seeing to memcache |

| action | code of `ext/ndb/context.py` |
|---|---|
| `Get` | the caches, 588-629 |
| `LockToFill`, `GetsLock`, `ReadDatastore`, `Fill` | the miss: `memcache_set(_LOCKED)`, `memcache_gets`, the datastore, `memcache_cas`, 631-668 |
| `Put`, `Write`, `Clear` | 671-722: lock, write, delete from memcache |
| `Delete`, `Erase` | 725-739: lock, delete |
| `Transaction`, `GetInTxn`, `WriteInTxn`, `Commit`, `CommitFails`, `Clear` | 824-926 and `_clear_memcache`, 961-970 |
| `Raise` | an exception or the deadline of the request, at any yield |
| `NewContext`, `Flush`, `Clock` | the next request, somebody's flush of memcache, time |

A transaction validates at its commit that what it has read is unchanged, as
`DatastoreTxn` promises; its reads are of the committed state. Snapshots are of
one key here, so `snap` is all that is left of them. An entity is immutable: the
code keeps the caller's object in `Context._cache` (`context.py` 666, 720), so a
caller that changes it without a put sees its changes in later gets of the same
context, which `OnlyWrittenShown` says nothing of. `delete()` locks by storing a
value and no memcache delete here has a lock time, so no entry is locked and
`CheckLocked` is without effect.

`MemcacheCurrent` excuses three situations. `Pending`: a put or a commit is
between the datastore and its delete in memcache. `loose`, first case: it was cut
off there. `loose`, second case: a plain `delete()` reached the datastore when its
lock was gone or had been fetched by a get. That one deserves a word.
`delete()` never deletes from memcache after the datastore (line 736 asks "TODO:
Delete from memcache here?"). A get that finds nothing stores a lock of its own
over that of the delete; it may read the entity before it is deleted and
compare-and-set it after, and from then on memcache serves a deleted entity
until a writer or a timeout removes it. Puts and transactions do not have this
window, because of the delete at their end. The comments at lines 26 and 880
speak of a lock-out for `_LOCK_TIME`, which a `set` by another request does not
respect.

### `ThreadPool`

Workers that loop through `WorkOnItems`, the data source thread and the main
thread of the bulk loader (its wait, `Shutdown` and `JoinThreads`).

| variable | code |
|---|---|
| `queue`, `requeue`, `unfinished` | the two queues of `ReQueue` and the count of `queue.Queue` |
| `enabled`, `permits`, `backoff` | `ThreadGate.__enabled_count`, the semaphore, whether `__backoff_time` is above zero |
| `exitFlag`, `pc`, `held`, `result` | per worker: flag, place in `WorkOnItems`, item, outcome |
| `source`, `sourceExit`, `fresh` | the data source, its flag, the items not yet submitted |
| `main`, `toStop`, `toEnable`, `shutdowns` | the main thread and what `Shutdown` has left to do |

A step is what a thread does between two operations on a shared object. Two
merges are justified in the module's head: a release of the semaphore goes with
the update before it, since it only enables others; a test of an exit flag, which
only the main thread sets, goes with the step before it. The length of the
backoff is left out; that a worker sleeps and can be interrupted is not.

Notes from reading: `SubmitItem` documents a timeout of 0.0 as "to block
indefinitely" (`adaptive_thread_pool.py:289`) and raises `Queue.Full` at once;
`EnableAllThreads` computes how many to enable without the lock, so the enabled
count may pass the number of threads, which is why `GateConserved` does not bound
it; the put of a stop marker blocks, and `MarkerStuck`, the exception in
`PoolEnds`, is the case that all workers are gone and the queue is full. The bulk
loader sizes its queue so that this does not happen (`bulkloader.py:4204`).
`InterruptibleQueueJoin` looks for dead workers, not for a dead progress thread.

### `BulkTransfer`

| variable | code |
|---|---|
| `arrived` | entities at the server, or in the committed result database |
| `disk`, `db`, `ops`, `stored` | the progress database as committed and as its connection sees it, `operation_count`, the uncommitted batch of the result database |
| `messages`, `waiting` | `progress_queue`, the items' `progress_event` |
| `pool`, `todo`, `own`, `pc` | items in the pool, items a thread has yet to record and submit, a worker's item, the place of each thread |
| `app`, `error`, `sent`, `toSend`, `code`, `runs` | the main thread, its error flag, the counts of `ReportStatus`, the exit code, the runs so far |
| `lost` | history: entities that no later run will transfer |

Actions are, for the source and the workers, `MarkAsRead`, `SubmitItem`,
`MarkAsTransferring`, `PostEntities` or `GetEntities`, `MarkAsError`, `Reput`; for
the progress thread `StoreKeys`, `UpdateState`, `StoreEntities`, `DeleteKey`, one
message in one or two steps; for the main thread `Start`, `QueueJoined`,
`SeesDeath`, `Interrupt`, `ThreadsJoined`, `Return`; and `Crash`, which keeps
`disk` and the result database and loses all else. The pool's order does not
matter to what is recorded, so the pool is a set; that items are in one place
and that the pool ends is what `ThreadPool` shows.

Keys are numbers and a range is a `KeyRange` with its include flags and its
direction. A row has no include flags: a resumed range has both, and entities at
its ends are downloaded again, which does no harm. `ConsumedTo` is where a resumed
upload goes on: behind the last row, or, if some rows are unfinished, behind the last
of these, since the loop over them reuses the variable (2266-2297). Lines sent behind
it are therefore read, recorded and posted once more, see `bulk_resend`; `NotTwice` and
`UploadExitsTrue` are about the items and the counts of one run. A post that fails may have
arrived. With a batch of one a range may be split for ever (`key_range:473`),
which the runs avoid. Not modelled: mapper and restore runs, the death of the
progress thread, errors of the data source. After an interrupt the main thread
waits only some seconds for the progress queue; the model lets it finish or
`Crash`. A download whose worker dies after the data source ended exits with 0
(`SeesDeath`; the hazard at line 3505).

### `TaskQueue`

One queue, push or pull; clients of the service, the console of the development
server, and the scheduler thread.

| variable | code |
|---|---|
| `name`, `eta`, `retries` | the attributes of a task object |
| `byName`, `byEta`, `archive` | `_sorted_by_name`, `_sorted_by_eta`, `task_name_archive` |
| `call`, `told` | a call between two locks; the eta a client was told with its lease |
| `spc`, `cur`, `deadline`, `nextWakeup`, `event` | the scheduler: its place, task, wait, `_next_wakeup`, `_event` |
| `runs`, `withdrawn`, `freed` | history: executions and leases; whether somebody removed a task; names the console freed |

A step is what a thread does under one of the two locks, or between them. The
properties name two races they excuse. `withdrawn`: an adder announces the oldest
task after it has released the queue's lock; if somebody deletes that task first,
the scheduler hears of another one or of none, and a due task waits until the next
add. `freed`: the console deletes the tombstone after the task, so an executed
task's name may be taken by a new task, which the scheduler then deletes. By the
same door a lease outlives its task: `ModifyTaskLease` finds a task by name and
compares its eta with the one told to the client (1316, 1326), which a later task
of the name may have; `LeaseExclusive` excepts freed names, and TLC finds two holders
of a lease without that exception. `NoLimit` stands for a queue or task
without `retry_limit`, which is the default (941-947); `RunsBounded` is about queues that
have one.
`GetNextPushTask` does not look at whether the queue is paused, so pausing is
nothing here. Left out: the index and leases by tag, age limits, several queues
and their reload from `queue.yaml`, the scheduler's shutdown, and the check of an eta
against the largest allowed.

## Runs

| run | instance | shows |
|---|---|---|
| `hr_isolation` | High Replication, 2 cross-group transactions, 2 keys in 2 of 3 groups, 2 writes each, fair threads | types, `CacheCurrent`, `PositionTellsChange`, `NoLostUpdate`; `Serializable`, the refinement of `TransactionalStore`; `ConsistentSnapshots`; `LocksOrdered`; `CallsReturn`: no call waits for ever |
| `hr_applied` | 2 transactions that also read versions of groups, a thread that grooms and flushes, grooms keep coming | `EventuallyApplied`, `LocksHeld`, `StorePlusQueue`, `QueuedOnce` |
| `ms_returns` | Master/Slave, 2 transactions, cross-group or not, with a task each that may fail, inserts, fair threads | `CallsReturn`, `MasterSlaveApplied`, `TasksOnlyOfCommitted`, `InsertNeverOverwrites` |
| `mc_requests` | memcache, 2 keys, every request, entries and locks that expire | types, `CasSeesNoChange`, `DeletedStaysDeleted` |
| `ndb_fill` | 2 contexts, 2 entities, 1 key, all four calls | `MemcacheCurrent`, `OnlyWrittenShown` |
| `tp_pool` | 2 workers, 3 items, queues of 2, 2 retries, fair threads | types, `GateConserved`, `ReputFits`, `UnfinishedCounts`, `InOnePlace`, `WaitMeansDone`, `PoolEnds` |
| `bulk_resume` | 2 workers, 4 entities in batches of 2, 2 runs, upload or download, fair threads | `UploadResumable`, `OnlyInHandAtRisk`, `NotTwice`, `UploadExitsTrue`, `NobodyStuck`, `JoinedMeansArrived`, `RunEnds` |
| `tq_tasks` | 2 clients, 2 names, 2 tasks, push or pull, with retry limits, fair scheduler | `IndexesAgree`, `RunsBounded`, `LeaseExclusive`, `DeletesItsOwn`, `PushTasksRun` |
| `version_cut` | reads of group versions, several groups | violates `ConsistentSnapshots`, see Findings |
| `bulk_lost` | as `bulk_resume`, download | violates `DownloadResumable`, see Findings |
| `bulk_resend` | as `bulk_resume`, upload | violates `NothingSentAgain`, see Findings |
| `tq_died` | as `tq_tasks`, push, no retry limit | violates `SchedulerSurvives`, see Findings |

Each module states its types once, as `TypeOK`. Those of `NdbCache`, `TaskQueue`
and `BulkTransfer` are proved (`NdbTypes`, `QueueTypes`, `TransferTypeOK`), and no
run repeats them.

### Bounds, and why they are enough

`Txns` is finite and a transaction object is used once, so log positions and
queues are bounded by the number of transactions without further limits.
`MaxWrites` bounds the keys a transaction writes (the code has no such limit),
`MaxActions` and `MaxEG` are the code's own limits set low enough to be
reached. Two transactions and two groups suffice for write skew, a broken
snapshot and a lock cycle; a groom or flush thread adds the second kind of
lock. `QueuedOnce` shows that an apply queue holds at most one transaction, so
more transactions do not make longer queues.
Inserts and single-group transactions are in `ms_returns`, reads of versions in
`hr_applied` and `version_cut`; the theorems are about all of them together.
`CHECK_DEADLOCK FALSE` is set since a finished system stops: transactions are
used once.

Of memcache, `MaxCas` and `MaxTime` bound the values stored and the clock, and
no others are needed. A modulus of 4 lets a counter wrap in one step from the
value it is given. Relative expirations of 2 and an absolute one of 3 occur
with a `MaxRelative` of 2 and a clock that reaches 3, so entries and locks
expire and are made again. The server does not know who calls it, so one
client's own requests do to the ids it holds what another's would. Keys do not interact except
through the next id, for which the second key of `mc_requests` is there. These
systems never stop, so deadlock is checked.

Of NDB, `MaxCas` lets four values be stored: the races of a fill need the lock
of the filler, that of a writer and what the filler stores, in any order, and one
more. With a lock of 1 and a clock that reaches 1 every lock may expire at any
step. A failed attempt and its retry occur with one retry. Keys interact only
through the next id; there is one. Contexts and entities are alike, hence
symmetric.

Of the pool, two workers make contention for the gate (which opens and closes
with results), for the queue and its last place, and one can die while the other
lives. Each item may be submitted once and `MaxRetries` bounds what is retried.
Of the bulk loader, four entities make two batches of an upload, and of a
download a range that is split after a first batch; commits lag behind by one
operation (`CommitEvery = 2`). The second run resumes what the first left and is
neither killed nor interrupted, so that it has to finish; it may lose a worker.
Of the task queue, two tasks are one that is executed and one added meanwhile,
under its name or another; the clock is bounded (by 4) for the pull queue only,
where leases end and are taken again; the one eta asked for, 1, is to come at 0, due
at 1 and past later; for the push queue time stops when there is
nothing to wait for. In `tp_pool`, `bulk_*` and `tq_*` the program, or all clients,
really may stop.

### Fairness

`FairSpec` has weak fairness of the steps of each thread inside a call: threads
are scheduled by the operating system, and a lock is not held for ever by the
code (that is what the property shows). `threading.Lock` makes no promise of
fairness, but a lock that keeps changing hands needs infinitely many calls and
each transaction makes finitely many; no strong fairness of locks is assumed.
Clients are not fair: they need not commit. `GroomedSpec` adds that global
queries keep coming and that a groom which is again and again free to apply a
transaction does so in the end; the time-based policy only waits for a time, a
random one with a probability above zero decides so at last.

## Findings

`version_cut` (`datastore_stub_util.py:2727`). `LiveTxn._GrabSnapshot` documents
"a CONCURRENT_TRANSACTION exception is thrown if we no longer have a consistent
snapshot", and checks the positions of the groups read before.
`EntityGroupPseudoKind.Get` calls `tracker._GrabSnapshot` and so skips the
check. A cross-group transaction that reads one group, then the version of a
second one in which, and in the first, another transaction has committed
meanwhile, holds snapshots of two moments. A later Get of the second group
answers from the snapshot without a check. A transaction that goes on to write
is stopped by the validation in Commit, which is why `Serializable` and
`NoLostUpdate` are proved for transactions that read versions too; one that only reads
is not stopped.

`bulk_resend` (`tools/bulkloader.py:2289`). The generator that a resumed upload reads
selects the largest `key_end` of all rows, and then rebinds the variable in its loop
over the unfinished rows; the record `DATA_CONSUMED_TO_HERE` at its end carries the end
of the last unfinished row. With two workers the first batch may be unsent when the
second is sent and recorded as sent; after a kill the upload sends the first batch and
reads on behind it, so that it records and posts the second again. The docstring of
`UseProgressData` (2123-2126) says "we resume sending after all the successful data",
that of the generator (2248) that `key_end` is "the last data source key that was handled
by the previous run". Nothing is lost (`UploadResumable`), and an entity with a key of
its own is written over; one without is stored twice.

`bulk_lost` (`tools/bulkloader.py:1073`). A worker that has fetched part of a key
range reports it as got, whereupon the progress thread deletes the row of the
whole range and commits, and then records what is left range by range, waiting for
the progress thread each time. A kill in between leaves the rest of the range in
no row: a resumed download never asks for it, and ends as if it had all. The
docstring of `KeyRangeItem` says that the ranges "covering the undownloaded range
are generated and stored". `OnlyInHandAtRisk` says that nothing more than this is
lost (and the kinds that the data source has not come to).

`tq_died` (`api/taskqueue/taskqueue_stub.py:1982`). The scheduler executes a task
with no lock held. If a client deletes the task or purges the queue meanwhile, and
the execution fails, `PostponeTask` finds the task gone; its assertion, or the
index lookup before it, raises, nothing catches it, and the scheduler thread ends.
`PushTasksRun` excuses it through `withdrawn`.

## Proofs

TLAPS proves the theorems below. Those of `DatastoreTxn` hold for every set of
transactions, sweeping threads, groups and keys, finite or not, and for both
policies. The only assumption is `ConstantsAssumption` of `DatastoreTxn`, which every run
evaluates: groups are numbers (so that they have a lock order), every key has a
group, transactions and other threads are different, and the model values for
"nothing" are none of the values they stand beside.

| module | theorem | states |
|---|---|---|
| `DatastoreTxnProofs` | `TypeCorrect` | `Spec => []TypeOK` |
| | `LocksAreHeld` | `Spec => []LocksHeld` |
| | `NoCircularWait` | `Spec => []LocksOrdered` |
| `DatastoreDataProofs` | `QueuesAddUp` | `Spec => []StorePlusQueue` |
| | `CacheIsCurrent` | `Spec => []CacheCurrent` |
| | `PositionsTell` | `Spec => []PositionTellsChange` |
| | `AtMostOneQueued` | `Spec => []QueuedOnce` |
| | `NoUpdateLost` | `Spec => NoLostUpdate` |
| | `Refines` | `Spec => Serializable`, the refinement of `TransactionalStore` |
| `DatastoreCommitProofs` | `TasksAreCommitted` | `Spec => []TasksOnlyOfCommitted` |
| | `MasterSlaveReturnsApplied` | `Spec => []MasterSlaveApplied` |
| | `InsertsFindNothing` | `Spec => InsertNeverOverwrites` |
| | `SnapshotsAreConsistent` | `VersionReads = FALSE => (Spec => []ConsistentSnapshots)` |

The argument goes in layers, each an inductive invariant over the one
before.

1. `TypeInv`: `TypeOK` alone is not inductive, since `EndApply` marks the
   tracker of the head of a queue and needs it to have a snapshot.
   `QueueViewed` says that it has one. It holds because a commit grabs a
   snapshot of every group before it logs, which `CommitPlace` says place by
   place.
2. `LockInv`: `LocksHeld`, and `LockPlan`, which says what `todo` means while
   locks are being taken one by one (what is not yet locked comes after what
   is). `LocksOrdered` follows. The lemmas whose names begin with `Frame` say
   that a step of one process leaves the program place, the trackers and so
   the locks of the others alone; only `EndApply` reaches into another
   transaction, and only into the position of its tracker.
3. `DataInv`: `CacheCurrent`, `PositionTellsChange` and `StorePlusQueue` (key
   by key, `KeyAdds`) hold each other up. A snapshot taken when nothing is
   queued is the committed state because store and queue add up; positions
   tell changes because every log moves the position of each group written.
   `PlaceInv` carries the state of a transaction through its calls, and
   `LogReady` the result of the validation from `Validate` to `CommitLog`: the
   write locks of layer 2 keep other commits away in between. Most actions are
   `Quiet`: they leave all this data alone, and one lemma settles them.
4. `QueueInv`: a group with something queued has nobody up to date (`Behind`),
   so nobody can pass the validation there until it is applied: a queue never
   holds two.
5. `CommitInv`: a tracker of a committed transaction is applied or the
   transaction is still in the queue of the group (`Reaches`), and
   `MasterProgress` says which groups `_OnCommit` has caught up so far; at the
   end that is all of them, whichever thread did the work, unless the commit was
   left with actions to send. `InsertInv`: the
   check that an inserted key is free is made against the snapshot, before any
   lock is taken; `LogReady` makes the snapshot the committed state at the log,
   and `Vacant` keeps the store without the key until the transaction is
   applied, because a queue holds no other.
6. `ReadInv`: `HistInv` says that log positions count the commits in `hist`.
   The moment that explains all snapshots of a transaction is that of the last
   one taken: other groups may have moved on since they were read, but then the
   check of `_GrabSnapshot`, made later still, finds them moved and ends the
   transaction (`CutAt`); if they have not moved at the check they had not at
   the snapshot, since counts only grow. `VersionReads = FALSE` says that
   nobody reads group versions, which skip the check; where they do,
   `version_cut` refutes the property.

`NoUpdateLost` and `Refines` follow from layer 3. Under the refinement mapping
`TakeSnapshot` is `See`, `CommitLog` is `CommitTransaction`, `Begin`,
`Rollback`, the abandoned commits and the failed check map to the abstract steps
of their kind, and every other step is a stutter.

`MemcacheProofs` proves about `Memcache`, for all clients, keys, values, times
and bounds, from `StubAssumption` and `ClientAssumption` (numbers where the
code has numbers, policies among the four, `NoEntry` not an entry):

| theorem | states | argument |
|---|---|---|
| `MemcacheTypes` | `Spec => []TypeOK` | each request keeps the types; counters because of the modulus (`OffsetNumber`) |
| `LocksHoldDeletes` | `Spec => []DeletedStaysDeleted` | `HeldInv`: while a delete lock runs, the entry is there, locked, and expires exactly when the lock does, so no policy but SET finds the key free |
| `CasIsSafe` | `Spec => []CasSeesNoChange` | `CasInv`: ids handed out are older than the next one, so an entry with the id a client remembers is the one it fetched, or one deleted with a lock since, and then the lock has just ended |

Every conjunct of the inductive invariants of `DatastoreTxn` was first checked by
TLC, on instances like those of `hr_applied` and `ms_returns`; those of
`BulkTransfer` on that of `bulk_resume`.

`NdbCacheProofs` proves about `NdbCache`, for all contexts, keys, entities, times
and retries, from `StubAssumption` and `NdbAssumption` (entities are texts and
neither numbers, which locks are, nor the model values):

| theorem | states | argument |
|---|---|---|
| `NdbTypes` | `Spec => []TypeOK` | `TypeInv`: with `StubInv`, entries are locks or entities and older than the next id |
| `MemcacheIsCurrent` | `Spec => []MemcacheCurrent` | `CurrentInv`: see below |
| `OnlyWrittenIsShown` | `Spec => []OnlyWrittenShown` | `ShownInv`: what is in memcache, in a context's cache, or in a call that will put it there, the datastore has held; what a transaction or a put has yet to write is in neither |

`MemcacheCurrent` is not inductive: a fill under way carries an old entity. The
invariant says when it may land. A fill stores only over an entry whose id the
context fetched, and every lock stored has a new id (`IdsOld`: the ids in hand are
older than the next). So while memcache holds the entry that a filler fetched,
either what the filler read is what the datastore holds, or the key is excused
(`FillSafe`, `EntrySafe`). A put, a commit or a filler that stores a lock makes
all fills in flight harmless; a write to the datastore by a put or a commit makes
the key `Pending` at once, and its delete takes the entry away; an entry with the
id of a delete's lock is that lock (`MarkSafe`), so a delete that finds it
unfetched leaves neither an entity in memcache nor a fill that could match it. Steps of one context leave the rest alone (`Alone`), which settles the other
contexts in every case.

`ThreadPoolProofs`, for any finite set of workers, items and queue size, from the
five assumptions of `ThreadPool`:

| theorem | states |
|---|---|
| `PoolTypes` | `Spec => []TypeOK` |
| `PermitsConserved` | `Spec => []GateConserved` |
| `CountIsRight` | `Spec => []UnfinishedCounts` |
| `ReputAlwaysFits` | `Spec => []ReputFits` |
| `ItemsInOnePlace` | `Spec => []InOnePlace` |
| `JoinMeansDone` | `Spec => WaitMeansDone` |

Types need the counts: `unfinished` stays a number because it counts what is there,
`permits` because a thread leaves the gate only if it is inside. The cardinalities
of the threads inside and of those that hold an item change by one with each step
that enters or leaves. `ReputFits` needs that put back and held items together are
no more than the workers: `ReQueue.get` takes a put back item before a new one.
`InOnePlace` needs that a queue holds an item once and that what the data source is
about to submit is nowhere else (`Places`); `WaitMeansDone` that while the main
thread waits no item goes missing (`Waiting`) and, from `UnfinishedCounts`, that a
join with nothing unfinished leaves no item queued, put back or held.

`TaskQueueProofs`, for any clients, consoles, names, etas, leases and limits (or none):

| theorem | states | invariant |
|---|---|---|
| `QueueTypes` | `Spec => []TypeOK` | `TypeInv`: the scheduler is at work only on tasks that exist |
| `IndexesMatch` | `Spec => []IndexesAgree` | `StoreInv` |
| `LeasesExclude` | `Spec => []LeaseExclusive` | `LeaseInv`: what a client was told of a task is at most its eta, so whoever leases it finds the others' leases ended; it includes `NameInv`, by which a lease finds the task it is of unless the name was freed |
| `RunsAreBounded` | `Spec => []RunsBounded` | `RunInv`: executions and leases are retries, or one more while the scheduler is at it; retries pass no limit there is |
| `DeletesOnlyItsOwn` | `Spec => DeletesItsOwn` | `NameInv`: a name in use or in the archive is not given to another task, unless freed |

`BulkTransferProofs`, for any workers, sizes, batches, commit periods and numbers
of runs, uploads and downloads, from the three assumptions of `BulkTransfer`:

| theorem | states | invariant |
|---|---|---|
| `TransferTypeOK` | `Spec => []TypeOK` | `TypeInv` |
| `TransferKeys` | `Spec => []KeyInv` | `KeyInv` |
| `TransferJoined` | `Spec => JoinedMeansArrived` | `CoverInv` |
| `TransferAtRisk` | `Spec => []OnlyInHandAtRisk` | `CoverInv`; for uploads `UploadInv` |
| `TransferResumable` | `Spec => []UploadResumable` | `UploadInv` |
| `TransferNotTwice` | `Spec => []NotTwice` | `KeyInv`, `UploadInv` |
| `TransferExitsTrue` | `Spec => []UploadExitsTrue` | `UploadInv` |
| `TransferNotStuck` | `Workers # {} => (Spec => []NobodyStuck)` | `TransferInv` and `WaitInv` |

The module begins with what the model's operators compute, proved without
induction: the batches of a file (`LinesAfter`) tile the lines after the given
one; the rows of a database that are open are listed once each (`RecordedItems`,
from the `n`-th of a finite set, `NthOf`); a batch fetched with something left is
not empty (`FetchedOf`); and whatever key a range is split at, what is fetched, what
is left and its parts together have every entity of the range (`DivisionsOf`).
Then four layers:

1. `TypeInv`: what a message says follows from where its sender is (`MessageInv`),
   what a thread has in hand from its place (`ThreadInv`), and nothing is left of a
   run that ended (`RestInv`). Here belongs that a thread waits for one message only.
2. `KeyInv`: an item with a row is in one place - in a thread's list, in the pool,
   with a worker, or in the message that reports it as got - and its row is open and
   says its range (`RowFor`).
3. `CoverInv`: while a run goes on, every entity that has not arrived and is not
   lost is in a range of some thread or of the pool, in a message on its way, or in
   the open row of an item that was dropped at a shutdown. `JoinedMeansArrived` is
   what is left of it when nothing is in hand, `OnlyInHandAtRisk` when each of these
   but the unrecorded items is known to be in an open row, by layer 2.
4. `UploadInv`: the rows leave no gap before the last line they reach (`NoGap`), and
   those that are open do not overlap (`Batched`); those that are sent may overlap
   others, since what was sent behind the last open row is recorded again. What the data
   source has yet to record follows the open rows (`LinesInOrder`, `LinesLeft`); a row
   marked as sent is at the server (`Arrives`). All this holds of the committed rows as
   well, since what is committed is what the rows were at some moment; and as the lines
   up to `ConsumedTo` are in rows without a gap, what a next run leaves out is
   marked as sent. The lines sent in a run and those it still owes, of open rows or to be
   recorded, are together no more than what it read (`sent + Cardinality(Owed) <=
   toSend`), which is why a count that comes out even means that all is sent.

`NobodyStuck` is the safety part of `RunEnds`: in every state of a run some thread
can take a step, so no deadlock is hidden behind the fairness. `ThreadCan`,
`ProgressCan` and `MainCan` are the guards of the threads' steps. `WaitInv` adds that
whoever waits has a message with the progress thread; the message at its head is one
that the thread can handle, by layers 1 and 2; and with no message left a thread that
cannot go on is idle or dead, or is the source and waits for room, which an idle
worker makes as long as there is one. Hence the hypothesis: `bulkloader.py` takes any
`--num_threads`, and an upload without workers waits for room for ever.

## Not modelled, and only model-checked

* Only model-checked: the liveness properties (`CallsReturn`, `EventuallyApplied`,
  `PoolEnds`, `RunEnds`, `PushTasksRun`), since fairness and ENABLED are out of the
  prover's reach. `NoCircularWait` and `NobodyStuck` are the safety parts of
  `CallsReturn` and `RunEnds`. Every
  safety property of a passing run is proved.
* Of the transactions: Clear and SetConsistencyPolicy while transactions are
  open, reuse of transaction handles (a handle is `id(txn)`, so a finished
  transaction's may come back), queries and their cursors inside a transaction
  beyond the snapshot they take, index writes, and the data file at the end of a
  flush. `Touch` commits an empty transaction, whose group is not grabbed again.
* Of memcache: the statistics, RPCs that fail, asynchronous calls of one client
  that overlap, and the pickling and encoding of values.
* Of NDB: tasklets of one context whose calls overlap. They share the client, so
  one may send the id that another fetched; they share the read of `add_once`, so
  one may fill with what another read before a lock; and a get may overwrite what a
  put of the same context has left in `_cache`. Also memcache RPCs that fail
  silently, values too large, policies that switch a cache off, several keys in
  one call, queries, and the tasklets themselves.
* Of the thread pool, the bulk loader and the task queue: what their sections name.
* Of the system: every other component of the inventory. The operations of the
  datastore outside transactions and its data file are next in the plan: a put of
  several groups is one internal transaction each, so a failure leaves some of them
  written; the data file is not written when the store is empty, its writers may
  rename in either order, and the id counter is derived anew at a restart. The
  parts without logic of their own are listed in `PROJECT.json`.
