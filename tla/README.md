# TLA+ models of the scribe store tree

This directory holds the model-checking project for the storage-routing core
of the log aggregation daemon in `src/src/` (scribe with a Redis sink): TLA+
modules, the TLC configurations that check them, and `PROJECT.json`, which
lists components, runs, mutants, the map from definitions to source lines,
findings and hazards.

Check one configuration with

    tlc -workers 2 -config MCThriftFileStore_rotate.cfg MCThriftFileStore

Every run takes less than three minutes, so that all of them can be repeated
whenever the code changes.

## 1. The system

A *store* accepts batches of category-tagged messages (`handleMessages`), is
opened and closed by its owner, and is visited by a timer (`periodicCheck`).
Stores form a tree: terminal stores write to a medium, combinators route,
replicate or buffer for their children. All stores implement the interface of
`Store` (`store.cpp`): `configure, open, isOpen, close, handleMessages,
periodicCheck, flush, copy`, the read side `readOldest, replaceOldest,
deleteOldest, empty`, a status string and a trigger hook.

The contract of `handleMessages(batch)`: `true` means every message of the
batch is handled; `false` means the batch has been replaced by the messages
that were not handled, in their original order. The caller owns the retry.

| Component | Source | State it keeps | Operations that change state |
|---|---|---|---|
| Store base, factory | `store.cpp` | `status` under `statusMutex`; category, type, trigger path | `createStore`, `setStatus`, default read side (fails, and `empty` answers true), `runTrigger` (fork/exec) |
| FileStoreBase | `store_filebase.cpp/.h` | configuration; `currentSize`, `lastRollTime`, `currentFilename`, `eventsWritten` | `configure`, `copyCommon`, `periodicCheck`, `rotateFile`, `printStats`; pure: file naming, `findNewestFile`, `findOldestFile`, `getFileSuffix`, `bytesToPad` |
| ThriftFileStore | `store_thriftfile.cpp/.h` | `thriftFileTransport` (the open file) and the base's fields | `configure`, `open`, `close`, `handleMessages`, `openInternal` |
| FileStore | `store_file.h` (declaration only) | `writeFile`, `isBufferFile` | write side and the readable side used by a buffer's secondary |
| NetworkStore | `store_network.cpp/.h` | `opened`, `unpooledConn`, `servers`, `lastServiceCheck`; the process-wide `g_connPool` | `configure`, `open`, `close`, `handleMessages`, `copy`, the destructor |
| Connection pool | `conn_pool.h` (not in `src/`) | endpoint -> connection with a reference count | `open`, `close`, `send` |
| NullStore | `store_null.cpp/.h` | none | counts what it ignores |
| RedisStore | `store_redis.cpp/.h` | the `redisContext* c` | `configure`, `copy`, `open`, `close`, `handleMessages` (connects, pushes, disconnects) |
| CategoryStore, MultiFileStore, ThriftMultiFileStore | `store_category.cpp`, `store_multifile.cpp/.h`, `store_thriftmultifile.h` | `modelStore`, the map `stores`: category -> child | `configure`, `handleMessages` (creates children), fan-out of `open/close/periodicCheck/flush` |
| BufferStore | `store_buffer.h` (declaration only) | `state` in {STREAMING, DISCONNECTED, SENDING_BUFFER}, retry timers, primary and secondary store | failover state machine |
| BucketStore | `store_bucket.h` (declaration only) | the buckets, bucketizer configuration | `bucketize`, per-bucket delegation |
| MultiStore | `store_multi.h` (declaration only) | the children, `report_success` | replication under "any"/"all" |
| Configuration accessor, front end, wire protocols | not in `src/` | | environment |

### How the components interact

* **Calls down the tree.** A combinator calls the same operation on its
  children. CategoryStore creates a child on the first message of a category
  (`modelStore->copy(category)`, `open()`, insert into `stores`).
* **The batch is shared and mutated.** The vector passed to `handleMessages`
  is an in/out parameter; every level rewrites it on failure.
* **Shared state.** `g_connPool` is the one object shared by stores of
  different branches (and threads). The directory of a file store is shared
  with whatever else writes there (the `_current` symlink, `scribe_stats`).
* **Time.** `periodicCheck` and `open` read the clock; rotation compares the
  clock with `lastRollTime`.
* **Threads.** The design lets several workers call `handleMessages` on the
  root at the same time; `CategoryStore` has no lock on its map of children.
  The timer and the owner drive a store from one thread.

### What is hard

| Where | What can go wrong |
|---|---|
| `ThriftFileStore::handleMessages` | a write fails in the middle of a batch; the file is rotated in the middle of the call and the rotation itself fails |
| `openInternal` | `lastRollTime` is recorded before the file is opened; files already in the directory after a restart; names in the directory that are no data files |
| `FileStoreBase::periodicCheck` | the daily and the hourly test compare the minute on its own; a closed store is reopened by a rotation |
| `CategoryStore::handleMessages` | a child whose `open()` failed is cached; one message fails among others of the batch; two threads create the same child; the timer or the owner rotates, closes or reopens a child between a worker's lookup and its write |
| `NetworkStore::open/close` | `open()` on an open store takes a second pool reference; the server list is cached for a TTL even when the lookup failed; another store closes the shared connection |
| `RedisStore` | `handleMessages` ignores a failed connect and reports success; `close()` frees a context that was freed or never set; an empty payload; `copy()` forgets the configured server |
| BufferStore | primary fails during replay; the retry timer; both stores down with a bounded queue |

The full list, with the line of each hazard and the properties that cover it,
is `hazards` in `PROJECT.json`.

### What makes each component correct

* **Terminal stores**: no phantom success (`true` only when all is written),
  no loss and no duplication across partial failure, order preserved.
* **File stores**: a rotation opens a file that did not exist, with a suffix
  above all others of its base name; counters equal what is in the file;
  a file that is too large or too old is rotated in the end.
* **CategoryStore**: every message goes to the child of its category and to
  no other; one child per category for the life of the store; the failed
  messages are returned in order; a category whose sink recovers is served
  again (which the code does not do, see `cat_stuck`).
* **NetworkStore**: the pool's reference count of an endpoint is the number
  of open stores that use it; a store that is not open sends nothing.
* **RedisStore**: the context is freed once; `true` implies pushed.
* **BufferStore**: no message is dropped silently; replay is oldest first
  and deletes only after a confirmed forward.

## 2. Plan

Modules are written in the order of the list; each later one may compose the
earlier ones.

| # | Module | Models | State of work |
|---|---|---|---|
| 1 | `FileStoreBase` | the configuration fields with constructor and `configure`, naming, suffix search, rotation test, padding, the `rotate_period` parser with a `time_t` of fixed width | done |
| 2 | `ThriftFileStore` (extends 1) | one thrift file store, its directory, caller, timer, failures, restart | done |
| 3 | `CategoryStore` | the category router with `configure`, the factory, and children that behave as the type of the model says (file, null, redis); MultiFileStore and ThriftMultiFileStore as its configurations | done |
| 4 | `NetworkStore` | network stores sharing the connection pool | done |
| 5 | `RedisStore` | `configure`, `copy` and the context life cycle of the Redis sink | done |
| 6 | `StoreContract` | abstract specification of `handleMessages`; `ThriftFileStore`, `CategoryStore` and `BufferStore` are shown to implement it | done |
| 7 | `CategoryThreads` | `CategoryStore::handleMessages` called by two threads, cut at the accesses to the map of children, beside the timer (`periodicCheck`) and the owner (`open`, `close`), one child a step | done |
| 8 | `BufferStore` | the failover state machine over a primary seen through the Store interface and a secondary that is a directory of files (from `store_buffer.h`, `store_file.h` and the specification; the `.cpp` files are not in `src/`) | done |
| 9 | `MultiStore` | replication under any/all | not planned, see section 7 |
| 10 | `BucketStore` | bucket routing | not planned, see section 7 |
| 11 | compositions | BufferStore over NetworkStore with the pool; CategoryStore over BufferStore children | covered by the modules of the parts, see section 7 |

The number of runs stays at a dozen, so that all of them are repeated
whenever the code changes. A run that shows a disagreement between the code
and its documentation is kept until the disagreement is settled; what was
found and has no run is in section 6.

## 3. Modules

Every module starts with a comment that says what it models and how the data
is abstracted. `map` in `PROJECT.json` names, for every definition, the lines
of the source it stands for; a definition of code that is not in `src/` is
marked `spec_modelled` there.

Common to all modules:

* A handler (`configure`, `open`, `close`, `handleMessages`, `periodicCheck`,
  `copy`) is one action and one atomic step, and what it calls
  (`rotateFile`, `printStats`, `openInternal`, the pool) is part of its
  action. The exception is `CategoryThreads`, where the handler is cut into
  steps.
* The caller is part of the model. It submits messages numbered 1, 2, ...
  (`Submit`), owns the batch `messages`, hands it to `handleMessages` and
  keeps what the call leaves in it. Batches are not empty.
* The environment decides what the code cannot: whether a write, an open, a
  connect or a lookup succeeds, and how time passes. Failures are counted in
  `faults` and bounded by `MaxFaults`; this bound is what makes the liveness
  properties meaningful (a sink that fails for ever never takes a message).
* Text is abstracted to what the code's decisions depend on. Status strings
  are kept as they are, because they are the store's only report of an error.

### StoreContract

The abstract specification: a `batch` (the caller's vector) and the set
`handled`. `Submit` appends a message that was never submitted;
`HandleMessages` moves any subset of the batch into `handled` and leaves the
rest in order. Everything else a store does must leave both as they are. A
store implements the contract under a refinement mapping that says what
`handled` is made of:

| Store | `batch` | `handled` |
|---|---|---|
| `ThriftFileStore` | `messages` | the messages in the files of the directory (`Durable`) |
| `CategoryStore` | `messages` | the messages in the logs of the children |
| `BufferStore` | `messages` | the messages the primary took and those in the files of the secondary (`Safe`) |

### FileStoreBase

The variables are the configuration fields that decide rotation (`maxSize`,
`rollPeriod`, `rollPeriodLength`, `rollHour`, `rollMinute`, `writeStats`,
`createSymlink`). `Defaults` is what the constructor gives them;
`BaseConfigure(given)` is `configure()` for a configuration that has the
keys of `given`: a key that is absent leaves the field, `create_symlink` and
`write_stats` are true for `yes` only, the numbers are taken without a range
check. `RotatePeriod` is the parser of `rotate_period`: the words, and
numbers as `strtol` reads them (value, whether digits were read, `ERANGE`,
the characters that follow), with the validity test made before the
multiplication and the product wrapping at `TimeBits` bits.

A file name `<base>_<suffix>` is the record `[stem, kind, n]`: `stem` is the
date of the base name (`NoDate` when `rotate_period` is `never`), `kind` says
whether a number, other text or nothing follows the last `_`, `n` is the
number. `GetFileSuffix` gives `n` for a number and `ParseFail` otherwise: the
code reads the suffix with `stream >> int`, which leaves -1 or stores 0 when
the text is no number, depending on the language standard
(`ZeroOnParseFail`). `FindNewestFile` and `FindOldestFile` are the maximum
and minimum the loops compute.

Time is a count of minutes; `Tm` is `localtime_r` for days of `HoursPerDay`
hours of `MinutesPerHour` minutes. `PeriodPassed` is the `switch` of
`periodicCheck`, `OverMaxSize` its size test.

### ThriftFileStore

| Code | Model |
|---|---|
| `thriftFileTransport`, `currentSize`, `eventsWritten`, `lastRollTime`, `currentFilename`, `status` | variables of the same names; the transport is the name of the file it writes to, `NoFile` when reset |
| the directory `filePath` | `dir`: file name -> the messages in the file; `symlink`; `stats` (the lines of `scribe_stats`) |
| `configure()` | `Configure`: once, before anything else, `BaseConfigure` with one of the configurations `Confs` |
| `open()` | `Open`: `OpenInternal` with `incrementFilename` |
| `close()` | `Close` |
| `handleMessages()` | `HandleMessages`: not open; the write of message k+1 throws (`HandleMessagesFailed`); all written, then the rotation by size inside the call (`HandleMessagesWritten`) |
| `periodicCheck()` | `PeriodicCheck`: `ShouldRotate`, then `RotateFile` = `PrintStats` + `OpenInternal` |
| `openInternal()` | `OpenInternal`: directory cannot be made; the transport's constructor throws (the old transport stays, `lastRollTime` is already set); opened, with the symlink replaced, removed or left |
| process restart | `Restart`: the store is constructed anew and configured as before, the directory stays |

`checked` is an auxiliary variable: `periodicCheck` has run in the current
minute. The buffering inside `TFileTransport` is not modelled: a write that
returns has reached the file.

### CategoryStore

`Configure` is `configure()` with `configureCommon` for a configuration
`[model, type]`: no model section and a model without type set the status
and leave `modelStore` empty; `CreateStore` is the factory, which gives the
empty pointer for a type it does not know, and `configure()` called on it
ends the process (`phase = "aborted"`). `MultiFileStore` and
`ThriftMultiFileStore` are the configurations their `configure()` passes on.

`stores` is the map of the code; a child is `[id, open, log]`, a store seen
through the `Store` interface (`ChildCopy`, `ChildOpen`, `ChildClose`,
`ChildIsOpen`, `ChildHandleMessages`, `ChildPeriodicCheck`). The type of the
model decides how a child behaves: a NullStore is open at all times and
takes everything (`Discards`), a RedisStore never says it is open
(`NeverOpen`), a file store opens, writes and rotates with the failures the
environment picks. `HandleMessages` folds `Route`, the body of the loop,
over the batch. `Open`, `Close` and `PeriodicCheck` fan out to the children.

### CategoryThreads

`handleMessages` of one CategoryStore called by several threads, each with a
batch of its own. One pass of the loop is three steps, cut where the code
reads or writes the map the threads share: `Find` (`stores.find`, and
`copy` and `open` of a new store), `Insert` (`stores[category] = store`),
`Hand` (`isOpen`, `handleMessages` of the store, the bookkeeping of the
failed messages, the return after the last message). `heap` holds every
store that was made, also those the map has dropped. The children are those
of `CategoryStore`, instantiated for a file model. Every access to the map
is atomic: the model is about the order of the steps, not about the memory
of a `std::map` under unsynchronised access.

Beside the workers run the timer and the owner. `periodicCheck`, `open` and
`close` of the CategoryStore are loops over the map that call one child per
pass, and a pass is a step: `PeriodicCheck(c)` lets the child of `c` rotate
(it is open afterwards) or fail to, `Open(c)` opens it or fails to,
`Close(c)` closes it. All three are written with `Visit(c, Call)`, the pass
of a loop that applies `Call` to `iter->second`. A pass may fall between any
two steps of a worker, so a child is closed, reopened or rotated between a
worker's `Find` and its `Hand`. The passes of one call of `open` or `close`
are not tied together: the model allows the owner to visit the children in
any order and any number of times, which includes what the loops do. `Hand`
stays one step: a close between its `isOpen()` and its `handleMessages()`
makes the child refuse the message, which is the outcome of a close before
the test.

### NetworkStore

Several store objects: one configured by `Configure`, the others made by
`Copy`. `connMap` is `g_connPool`. `conn_pool.h` is not in `src/`: the pool
and the connection (`PoolOpen`, `PoolClose`, `PoolSend`, `ConnSend`) are
modelled from the design of the pool, an entry per endpoint that counts its
users, takes a reference on every successful `open` and drops the entry with
the last `close`. A server list is the version of the registry it was read
from; `Relocate` changes the registry, `Tick` ages the lookup cache.
`Open` has the branches of the code: lookup not due, due and answered, due
and failed, no servers, bad static configuration, connect through the pool
or on a connection of the store's own, which is made once and kept.
`Close` is `close()` with its test of `opened`; `Destroy` is the destructor:
`close()`, and the object is gone with the connection of its own, so that
`Copy` can make the object anew.

### RedisStore

`redisHost` is the server (host and port) the store pushes to: the
constructor's `localhost:6379`, or what `Configure` reads. `Copy` replaces
the store under study by the copy a category store makes of it: a store
newly constructed, with the defaults and a pointer never assigned. `c` is
the pointer, a context is a number, `live` the contexts that are allocated,
`list` the list of every server. `Open` allocates a context and overwrites
`c`; `Close` frees what `c` points to and leaves `c`; `HandleMessages` is
`open()`, an `LPUSH` per message, `runTrigger` per message, `close()`,
`return true`, where the first k commands reach the server (k below the
length of the batch when the connect failed or the connection broke). Calls
with undefined behaviour (free of a freed or never assigned pointer, a write
before the buffer) are taken and recorded in `damage`: the process goes on,
which is one of the outcomes of such a call. The key of the list (category
and hour) is left out.

### BufferStore

`src/` has the declaration only. The states, the configuration and the
state fields are those of `store_buffer.h`; the methods follow the failover
state machine of the specification.

| Code | Model |
|---|---|
| `state`, `retryInterval`, `lastOpenAttempt` | `state`, `retryInterval`, `sinceOpenAttempt` (the time since the last attempt, counted up to the largest interval) |
| `primaryStore` | `[open, log]`: a store seen through the Store interface |
| `secondaryStore` | a directory: file name -> messages, written at the file `findNewestFile` gives, read and deleted at the file `findOldestFile` gives (both of `FileStoreBase`); `secondaryType` says whether the store is a `file` store, which can be read, or of another type, whose `empty()` is that of `Store` (`store.cpp:129`) and answers true |
| `bufferSendRate`, `avgRetryInterval`, `retryIntervalRange` | constants of the same names |
| `replayBuffer` | a variable, set when the store is configured |
| `open()` | `Open`: the primary opens and the store is SENDING_BUFFER, or it does not and the store is DISCONNECTED |
| `close()` | `Close` |
| `handleMessages()` | `HandleMessages`: STREAMING, to the primary; the primary fails, DISCONNECTED and to the secondary; in the other states to the secondary; the secondary fails, the batch stays with the caller |
| `periodicCheck()` | `PeriodicCheck`: `Retry` when DISCONNECTED and the timer has expired; `SendBuffer` when SENDING_BUFFER, up to `bufferSendRate` files, STREAMING when nothing is left, DISCONNECTED when the primary fails, with the file that was read and not sent left in place |
| `getNewRetryInterval()` | `NewRetryInterval`: any value of `RetryIntervals` |
| process restart | `Restart`: the store is constructed anew, the primary's log and the directory stay |

Choices where the specification is silent are named at the definitions: a
store is constructed DISCONNECTED; `close()` closes the primary and leaves
the state; `max_queue_length` and the queue in memory are left out.

## 4. Runs

`expect: pass` runs finish without error; `expect: violation` runs check one
property that the documentation of the code states and the code does not
have, and TLC shows the behaviour. Deadlock is not checked where the bounded
caller, clock and owner stop when their bounds are reached (a store with
nothing to do waits for its caller); it is checked for `BufferStore`, whose
timer never stops.

### ThriftFileStore

| Run | Configuration | Properties |
|---|---|---|
| `tfs_rotate` (pass, 502 192 states) | configured with `max_size` 2, a period of 3 minutes and statistics, or hourly at minute 1 without size limit, or daily at 00:01 without size limit, or with `max_size` 2 and no period (file names without a date); hours of 2 minutes, days of 2 hours; 3 messages of length 2, 1, 2; time 0..6, start at 0 or 1; 1 failure; 2 `open()`, `close()` or restarts; fair timer | `TypeOK`, `WrittenOnceInOrder`, `CountersMatchFile`, `NotDueAfterCheck`, `RotationOpensFreshFile`, `StatsDescribeClosedFile`, `OversizeEventuallyRotates`, `ImplementsContract` |
| `tfs_retry` (violation) | hourly without symlink, 1 message, 1 failure | `DueUntilRotated` |

* `WrittenOnceInOrder`: the files read oldest first, followed by the caller's
  batch, are the messages 1..submitted in order. It is the contract of
  `handleMessages` across partial writes, rotations inside the call, failed
  rotations, close, reopen and restart.
* `RotationOpensFreshFile`: when the store moves to another file, that file
  did not exist and has the highest suffix of its base name, whatever else
  lies in the directory (`scribe_stats`, and `_current`, which
  `getFileSuffix` looks into when the names carry no date).
* `CountersMatchFile`: `currentSize` and `eventsWritten` are the size and
  length of the file the transport writes to.
* `StatsDescribeClosedFile`: a statistics line describes the file that is
  left as it is at the end of the call.
* `NotDueAfterCheck`: right after a `periodicCheck` without failure the
  test of `periodicCheck` is false, so that no store rotates at every check:
  what the switch of `openInternal` records as `lastRollTime` is what the
  switch of `periodicCheck` compares the clock with. It does not say that
  the test is true whenever a rotation is due, which is false (section 6,
  "Daily and hourly rotation").
* `OversizeEventuallyRotates`: a file above `max_size` is rotated out in the
  end.
* `ImplementsContract`: the store implements `StoreContract`.
* `TypeOK` includes that `lastRollTime` holds what the rotation period of
  the store makes of a time (an hour, a day of the month, a time).

The bounds are enough for the cases that matter: three messages with
`max_size` 2 give a batch that crosses the limit in its middle and a batch
after a rotation; one failure can hit the write, the directory, the open,
the statistics or the symlink of any rotation; days of two hours let an
hour number repeat on the next day, and the times 4 to 6 are the second
day, with the minute before the daily rotation, the minute of it and the
hour after it; two restarts let a restarted store meet
the files of a restarted store.

Before each run of `MCThriftFileStore` TLC evaluates its assumptions:
`RotatePeriodMeetsGrammar` (the parser accepts exactly
`<N>[s|m|h|d|w]` with N > 0 and gives the length in seconds when it fits
`time_t`), `RotatePeriodWraps` (14 weeks with a `time_t` of 24 bits is
accepted with a negative length) and `BytesToPadAligns` (after the padding a
message no longer than a chunk lies in one chunk).

### CategoryStore and CategoryThreads

| Run | Configuration | Properties |
|---|---|---|
| `cat_route` (pass, 3 110 states) | configured as MultiFileStore, ThriftMultiFileStore, with a model of type null or redis, without a model, with a model without type or of a type the factory does not know; 2 categories, 3 messages, 2 failures, 1 `close()` | `TypeOK`, `RoutedOnce`, `ChildrenAreKept`, `ImplementsContract` |
| `cat_stuck` (violation) | a model of type network; 2 categories, 2 messages, 1 failure; the caller is fair | `EventuallyHandled` |
| `cat_threads` (pass, 1 670 086 states) | 2 threads, the timer and the owner; 2 categories, 5 messages, 1 disturbance (a failing call of a child, or a `close` by the owner); symmetric in threads and categories | `TypeOK`, `TakenOnce` |
| `cat_race` (violation) | 2 threads, 1 category, 2 messages | `OneStorePerCategory` |

* `RoutedOnce`: for every category, what its child wrote and what is left in
  the batch are the messages submitted for it, none twice, and the batch is
  in submission order.
* `ChildrenAreKept`: the child of a category stays the same store and its
  log only grows.
* `EventuallyHandled`: a batch the caller keeps offering is taken in the
  end, once the failures have stopped. The design says so of a child whose
  `open()` failed ("not cached as ready -- the next message for that
  category retries clone+open"); the code does not do it (section 5).
* `ImplementsContract`: the store implements `StoreContract`.
* `TakenOnce`: whatever two threads do to the map, and whenever the timer
  and the owner rotate, open and close the children, every message is in the
  log of exactly one store or still with its thread, a store has messages of
  one category, and what a thread gives back is in submission order.
* `TypeOK` of `CategoryThreads` includes that a thread makes at most one
  store per category: the stores made are bounded by threads times
  categories.

Three messages over two categories give a batch with two messages for one
child around one for the other; two failures let the open of a new child and
a later write fail. Five messages for two threads and two categories are
more than threads times categories, so a third store for a category would
be made if a thread could make one. One disturbance is enough for a child
to be closed, or to fail, between the lookup of a worker and its write, and
for the timer or the owner to open it again while the other worker writes;
opens and rotations that succeed are not bounded. In `cat_stuck` one
failure and one message of a category are the whole case; the second
category shows that the others are served meanwhile.

### NetworkStore

| Run | Configuration | Properties |
|---|---|---|
| `net_conn` (pass, 16 067 states) | two store objects, made by `copy()` and destroyed in any order, each of the 6 configurations `configure()` can give (pooled or not, service or host and port, valid or not), 4 `open()` calls, 2 registry versions, cache timeout 2, time 2..4; symmetric in the stores | `TypeOK`, `OpenStoresHoldConnections`, `ClosedStoresHoldNoConnection` |
| `net_leak` (violation) | one pooled store, 2 `open()` calls | `PoolCountsOpenStores` |

* `OpenStoresHoldConnections`: the pool holds at least one reference for
  every open store that uses an entry, and an open store without the pool
  has a connection: no store loses its connection to a `close()` or the
  destructor of another.
* `ClosedStoresHoldNoConnection`: a store whose `opened` is false has no
  open connection of its own, whether it was closed, failed to connect or
  lost its service: `close()`, which returns at once when `opened` is
  false, leaves no socket behind.

### RedisStore

| Run | Configuration | Properties |
|---|---|---|
| `redis_push` (pass, 121 693 states) | configured for `redis1:6379` or left at the default; messages of length 1 and 2, 4 messages, 2 calls of the owner (`open`, `close`, `copy`), a trigger | `TypeOK`, `PushedInOrder` |
| `redis_ack` (violation) | 2 messages | `AcknowledgedIsPushed` |
| `redis_free` (violation) | 1 message, 2 calls of the owner | `NoContextFreedTwice` |

* `PushedInOrder`: the list of a server read from its tail is in submission
  order, no message is on two lists or twice on one, and each has the
  payload `handleMessages` makes of it.
* `TypeOK` includes that the allocated contexts are at most those the owner
  opened: a batch frees the connection it made.

### BufferStore

| Run | Configuration | Properties |
|---|---|---|
| `buffer_failover` (pass, 116 844 states) | with and without replay; a secondary of type file and one of type thriftfile; 2 files per `periodicCheck`; retry interval 1..3; 4 messages; 2 failures of the primary or the secondary; 2 calls of `open()`, `close()` or restart; timer, clock and caller fair | `TypeOK`, `ForwardedInOrder`, `ImplementsContract`, `BacklogDrains` |

* `ForwardedInOrder`: what the primary took, the files of the secondary
  and the caller's batch are the messages 1..submitted, each once and each
  of the three in order; for a store that replays a secondary it can read,
  the three one after the other, the files from the lowest suffix to the
  highest, are in order as a whole. It fails when new
  messages reach the primary before the backlog, when a file is deleted
  before the primary took it, and when the replay does not start at the
  oldest file.
* `ImplementsContract`: the store implements `StoreContract`, with the
  messages in the primary or in the secondary as what it has taken: a call
  leaves the messages it did not take in the batch, in their order, and
  neither failover nor replay nor restart loses a message that was taken or
  gives one back.
* `BacklogDrains`: the caller's batch, and the files of the secondary when
  the store replays and `empty()` reports them, are forwarded in the end.

Four messages give up to four files in the secondary, so that a replay of
two files per check is interrupted with files sent, a file read and not
sent, and files not yet read; two failures let the primary fail again
during the replay that follows its first failure; the two calls let a
restart find files a restart left.

### Fairness

* `ThriftFileStore!FairSpec` is weak fairness of `PeriodicCheck`: the store
  is visited by a timer of fixed cadence for as long as the process runs.
  Nothing else is fair; in particular the caller need not call again and
  time need not pass.
* `CategoryStore!FairSpec` is weak fairness of `HandleMessages`: the caller
  offers a batch again until it is taken. Only `cat_stuck` uses it. The
  owner may call `open()` at any time and nothing obliges it to: no
  fairness is put on `Open`. None is put on `PeriodicCheck` either, because
  whether a check rotates a child, and so opens it, is decided by a
  configuration (`rotate_period`, by default never) the module leaves to the
  environment.
* `BufferStore!FairSpec` is weak fairness of `PeriodicCheck` (the timer),
  of `Tick` (time passes, which is what lets the retry timer expire) and of
  `HandleMessages` (the caller offers a batch again until it is taken).

### Mutants

For every property of a passing run `PROJECT.json` names a definition and a
variant of it with a plausible defect (the written messages are not erased
from the batch, the suffix is not incremented, `periodicCheck` leaves out the
size test, `close()` does not look at `opened` or leaves the connection
open, the newest file is replayed first, the file that was read is not put
back, the cases of the daily and the hourly store are exchanged in
`openInternal`, ...). With the variant in
place of the definition the property is violated under the run's own
configuration.

## 5. Findings

The six violation runs:

| Run | Where | What |
|---|---|---|
| `tfs_retry` | `store_thriftfile.cpp:153` | `openInternal` sets `lastRollTime` before it opens the file. When the open fails the period seems to have just begun, and the rotation is not tried again before the next hour or day. |
| `cat_race` | `store_category.cpp:149` | Two threads that meet a new category at the same time both find no store and both make one; the second assignment to the map replaces the store of the first, which goes on being written to by the first thread and is never closed or rotated by the owner. No message is lost by this (`cat_threads`). |
| `cat_stuck` | `store_category.cpp:149` | `handleMessages` puts the child it made into the map whatever `open()` returned, and for a category that has a child it only asks `isOpen()`: no later message opens the child or makes another. The design says the child is not cached as ready and the next message retries clone and open. With a network model whose server is down at the first message of a category, the category is not served when the server is back, until the owner calls `open()` on the whole store. With a file model a rotation by the timer opens the child, which never happens with the default `rotate_period` never. |
| `net_leak` | `store_network.cpp:128` | `open()` on an open pooled store takes another reference. `CategoryStore::open` does this to all its children. This rests on the pool counting every successful `open`, which is how the pool is described; `conn_pool.h` itself is not in `src/`. |
| `redis_ack` | `store_redis.cpp:94` | Neither the connect nor the commands are checked; `handleMessages` returns `true` for messages that were not pushed, and starts the trigger for them. |
| `redis_free` | `store_redis.cpp:67` | `handleMessages` frees the context and leaves the pointer; the owner's `close()` frees it again. |

## 6. Known behaviour outside the runs

These were met while the code was modelled. They are transcribed into the
models or listed as hazards, and no run is spent on them.

* **A configuration without a usable model** (`store_category.cpp:120`,
  `:147`). `configureCommon` calls `configure()` on what the factory
  returned, and the factory returns an empty pointer for a type it does not
  know (`store.cpp:84`): a misspelt type ends the process inside
  `configure`. A store without a model, or with a model without type, is
  left with `modelStore` empty and ends the process at its first message
  (`modelStore->copy`). The design says a configuration error is logged and
  leaves the store degraded. `cat_route` configures the store in all these
  ways; the phase `aborted` is the end of the process.
* **A secondary that cannot be read** (`store.cpp:129`). `empty()` of
  `Store`, NullStore, RedisStore and MultiStore answers true and
  `readOldest` fails. A buffer store whose secondary is a thrift file store
  writes to it while the primary is down, takes it to be empty when the
  primary is back, and never sends what it wrote. Nothing is lost or
  repeated (`ForwardedInOrder`), the files stay where they are. The design
  says the read side of a write-only store fails explicitly; `empty` does
  not.
* **`RedisStore::copy`** (`store_redis.cpp:35`) makes a store with the
  constructor's defaults and copies neither `redisHost` nor `redisPort`. The
  children a category store makes of a redis model configured for another
  server push to `localhost:6379`. In `RedisStore` this is `Configure`,
  `Copy`, `HandleMessages`: the messages are on the list of `Localhost`.
* **A redis model in a category store** (`store_category.cpp:154`,
  `store_redis.cpp:57`). `CategoryStore::handleMessages` asks `isOpen()`
  before it hands a message over, and `RedisStore::isOpen()` is always
  false: every message of every batch fails, whatever is opened.
  `cat_route` has this model among its configurations (`NeverOpen`);
  `EventuallyHandled` is false for it from the first batch on.
* **A context lost at the first batch** (`store_redis.cpp:43`). `open()`
  overwrites `c` without freeing what it pointed to, and `handleMessages`
  calls `open()`: the connection the owner opened is never freed.
* **Order within a category** (`store_category.cpp:165`). After a message
  failed the loop goes on; a later message of the same category is written
  before the retry of the earlier one. The batch keeps its order
  (`RoutedOnce`), the child's log does not.
* **The unpooled connection is never renewed** (`store_network.cpp:113`).
  It is made with the first server list and reused; refreshed lists never
  reach it.
* **Daily and hourly rotation** (`store_filebase.cpp:218`, `:223`). The
  daily test is `tm_hour >= rollHour && tm_min >= rollMinute`, the hourly
  one `tm_hour != lastRollTime && tm_min >= rollMinute`: the minute is
  compared on its own. A daily store with rotation at 00:01 that starts at
  00:00 of one day and is next checked at 01:00 of the following day does
  not rotate, and stays in the file of the day before until a check falls
  into the minutes `rollMinute..59` of an hour. `tfs_rotate` has this
  configuration and these times; its properties hold across the late
  rotation, and none of them says that a store is in the file of the
  current period after a check, because that is false. A timer of a few
  seconds hits the minutes `rollMinute..59` of the hour the rotation is due
  in, so the rotation is late only when the process is down or stalled
  during them.
* **`rotate_hour` and `rotate_minute` out of range**
  (`store_filebase.cpp:168`) are accepted; with `rotate_minute` above 59 the
  store never rotates by time.
* **`rotate_period` overflow** (`store_filebase.cpp:110`): see
  `RotatePeriodWraps` above.
* **`NetworkStore::copy`** (`store_network.cpp:178`) does not copy
  `serviceOptions` and `serviceCacheTimeout`; `CopyOf` resets them.
* **`ThriftFileStore::copy`** (`store_thriftfile.cpp:53`) does not copy
  `useSimpleFile`.
* **Empty message in RedisStore** (`store_redis.cpp:105`):
  `msg[leng_msg - 1]` writes before the array; for every other message the
  last byte of the payload is replaced by the terminator and never sent
  (`Payload`).
* **`RedisStore::close()` before any `open()`** frees an uninitialised
  pointer (`FreeDamage`).
* **The constructor of RedisStore** passes the type `"null"` to `Store`.
* **A buffer store that does not replay** (`replay_buffer` = no) leaves the
  files in its secondary where they are; `ForwardedInOrder` and the
  secondary's part of `BacklogDrains` are about stores that replay.
* **The category is part of a path** (`store_filebase.cpp:193`).
  `copyCommon` appends the category of the message to `baseFilePath` and
  makes it the file name; nothing in `src/` restricts its characters, so a
  category with `/` or `..` makes `createFileDirectory` create, and the store
  write, outside the configured directory. The models take a category as a
  value without a name.

## 7. Not modelled

| What | Why |
|---|---|
| the path of a file store's directory (`file_path`, `sub_directory`, `setHostNameSubDir`, `copyCommon`) | a store has one directory; which one it is decides nothing the models tell apart |
| `flush` | does nothing in `ThriftFileStore`; fan-out only in `CategoryStore` |
| a crash in the middle of a handler | `Restart` happens between handlers; what a half-written Thrift frame does to a reader is a matter of the file format |
| the memory of `std::map` under unsynchronised access | every access to the map is atomic in `CategoryThreads`; a torn map is undefined behaviour with no bound on its outcomes |
| the locks inside the connection pool | `conn_pool.h` is not in `src/`; every call of the pool is atomic |
| the destructors of the other stores | they release memory; `~NetworkStore` calls `close()` and is the action `Destroy` |
| the statements of `periodicCheck` in the timer thread interleaved with the statements of `handleMessages` of the same child | the file stores have no lock, and a rotation that replaces `thriftFileTransport` while a worker writes through it is a use of a freed object, undefined behaviour with no bound on its outcomes. The calls themselves, in any order, are `CategoryThreads` |
| BufferStore over NetworkStore children, CategoryStore over BufferStore children | a parent sees a child through `open`, `close`, `isOpen`, `handleMessages` and `periodicCheck` only. `NetworkStore` lets its stores be copied, opened, closed and destroyed in any order, and the primary of `BufferStore` and the children of `CategoryStore` take or refuse every call: each side is checked against more than the other side does, and the product would add states and no behaviour |
| the children the process forks in `runTrigger`, `setHostNameSubDir` after a failed `gethostname` | operating system state outside the store tree |
| `redisConnectWithTimeout` returning NULL | out of memory only |
| the process `runTrigger` starts | `RunTrigger` records for which messages it is started |
| `max_queue_length` of BufferStore | the code is not in `src/` and the design leaves open what is dropped |
| FileStore on its own (newline framing, chunk padding, `max_write_size`) | only the declaration is in `src/`; its read side is part of `BufferStore` |
| BucketStore | only the declaration is in `src/`, and the design leaves open what a model would have to decide: the bucket of a message without key, how `key_range` counts, whether a message handed back after `remove_key` still has its key. Routing by a function of the message, a child per value, partial failure and the merge of what failed are checked on `CategoryStore`, whose code is in `src/` |
| MultiStore | only the declaration is in `src/` (the children, the enum of `report_success`, a read side that is always empty): a model of `open`, `close` and `handleMessages` would be a model of the design alone. That a batch is taken in the end under `all` would rest on an owner that reopens a store whose `isOpen()` is false, which nothing in `src/` or in the design schedules. Fan-out over children that fail in part is checked on `CategoryStore` |
| `readOldest`, `replaceOldest`, `deleteOldest` of stores that cannot be read | they fail or do nothing; `BufferStore` never calls them, because `empty()` answers true first |
