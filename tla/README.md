# TLA+ models of DatabaseEngine

DatabaseEngine is a relational database in C: a SQL front end, a heap and
B-tree storage layer over a buffer pool, a write-ahead log, transactions, and a
server that speaks PostgreSQL's wire protocol with one thread per connection.
This directory holds TLA+ models of the parts of it whose correctness depends on
the order of events, TLC configurations that check them on small instances, and
TLAPS proofs of what holds for every instance.

Paths like `14_pool.c` are under `src/DatabaseEngine/`. `PROJECT.json` ties every
definition to the lines it models, every property to a mutation of the code that
breaks it, and every hazard to the properties that would catch it.

    tlc -workers 2 -config MCPager.cfg MCPager      # a run
    tlapm PagerProofs.tla                           # the proofs of a module

## The system

| Part | State it keeps | Operations | Talks to |
|---|---|---|---|
| Buffer pool, `14_pool.c` | frames (page id, pins, dirty, logged, referenced), page directory, CLOCK hand, page count, freed ids, all under one mutex | pin, unpin, allocate, free, commit, checkpoint, rollback | log, database file |
| Write-ahead log, `15_wal.c` | an append-only file of page images with checksums; the last frame of a commit carries the page count | open, append, sync, truncate, discard, recover | database file at start-up |
| Persistence, `12_persist.c` | `schemaChanged`, `transactionOpen`, `transactionPages`; the catalog as a chain of pages from page 0 | BEGIN, COMMIT, ROLLBACK, commit of a statement, save, load, close | pool, log, catalog |
| Statement processing, `10_controller.c` | `holdingForTransaction` of the thread, damage counter | `ProcessStatement`: parse, lock, execute, commit, unlock | executor, persistence, lock |
| Locks, `18_thread.c` | one reader-writer lock for the engine, one mutex for the pool, the counter of sessions | take and give back, acquire and release a slot | the platform |
| Sessions, `16_wire.c` | a `Session` per connection: buffers, prepared statements, portals | accept, handshake, serve a message, time out, close | statement processing |
| Executor, `06_executor.c` | the thread's `joinHeap`, arenas for results | INSERT, UPDATE, DELETE, SELECT with joins, DDL, VACUUM | heaps, indexes, catalog |
| Heaps, `07_storage.c` | the page list of a table, slotted pages, tombstones | insert, mark deleted, scan, compact, drop | pool |
| Indexes, `11_index.c` | a B-tree per indexed column | insert, exact, prefix and range scan, rebuild | pool |
| Databases, `13_database.c` | eight slots, the current one per thread | create, use, drop | catalog |
| Catalog, `02_catalog.c` | lists of tables and columns | create, find, drop | heaps, indexes |
| Front end, `03`-`05`, `17` | none between statements | lex, parse, check, evaluate | executor |
| Start-up, `main.c` | none | recover, load, attach a log, serve or prompt, close | all of the above |

What makes each part correct, and hard to test:

* **Pool, log and persistence.** A statement that was reported done survives a
  crash at any later point, a statement that was not is either there as a whole
  or not at all, a rolled back transaction leaves no trace. The order of log
  writes, page writes, syncs and the removal of the log decides it, and a test
  can only stop the process between two of them by luck.
* **Pool under threads.** A pointer that `poolPin` returned stays good until it
  is given back, and no page is resident twice. Readers really are concurrent
  here: each faults, evicts, and allocates the pages of its own joins.
* **Sessions and the lock.** The lock is kept across statements by a transaction.
  Two flags, one of the engine and one of the thread, say so and have to agree
  through failing statements, lost connections and idle timeouts.
* **Page ids.** Tables and `joinHeap`s take ids from one allocator that a
  ROLLBACK rewinds.
* **Heaps, indexes, constraints.** What an index finds is what a scan finds, and
  UNIQUE, NOT NULL and CHECK hold after every statement, failing ones included.
  Indexes keep entries of dead rows, keys cut to a prefix and remembered column
  positions; compaction numbers the rows anew.
* **Answers.** A hash join, a hashed grouping, a heap of the best rows and rows
  permuted in place answer what the statement says.
* **Databases.** Sessions know their database by the number of a slot; other
  sessions free slots, and a reload deals the numbers out again.
* **Portals.** A client may describe, execute in parts, bind and run other
  statements in any order over one statement arena.

## The modules

| Module | Models | Composition |
|---|---|---|
| `AtomicStore` | what a client is promised: atomic, durable statements and transactions | abstract specification |
| `Pager` | pool page states, log, transactions, checkpoint, crash, recovery | implements `AtomicStore` |
| `Sessions` | connection threads, the engine lock, transaction flags, slots | |
| `PageOwners` | page ids of tables, joins and the free list | extends `Sessions`, shown to implement it |
| `Pool` | frames, pins, directory, CLOCK hand, shared by threads | |
| `BTree` | the trees of `11_index.c`, as operators | |
| `Table` | one table: heap, indexes, constraints, the statements that change them | extends `BTree` |
| `Select` | joins, grouping, DISTINCT, ORDER BY, LIMIT, as operators | extends `Table` |
| `Databases` | slots, catalogs, the current database of each session, what is saved | |
| `Portals` | the extended query protocol of one connection | |
| `PagerProofs`, `PoolProofs`, `PortalsProofs`, `DatabasesProofs` | the proofs | extend the module they are about |
| `PageOwnersProofs` | the proofs about threads and about their pages | extends `PageOwners`, and so `Sessions` |
| `Folding` | proofs about folds and recursion, for whatever operator is folded | instantiated for every loop of `BTree` and `Table` |
| `StorageProofs` | the proofs about the trees of the indexes and the pages of the heap | extends `Table`, and so `BTree` |
| `TableProofs` | the proofs about the statements | extends `StorageProofs` |
| `MC...` | symmetry sets, inputs and constraints of the runs | extend the module they run |

A definition whose comment starts with `(mutant)` is a wrong version of the
definition after it. No specification uses it; putting it in the place of the
right one breaks the property `PROJECT.json` names, which shows that the
property looks at that part of the code.

### Pager

The state is that of the pool (`resident`, `image`, `dirty`, `logged`), the
in-memory catalog and allocator (`owned`, `freeIds`, `pageCount`,
`schemaChanged`), the transaction (`transactionOpen`, `transactionPages`), and
the two files. Each file is kept twice over: as the operating system has it and
as a crash may leave it. `diskPages[p]` is the set of versions of page `p` that
may be on the disk: a write adds to it, an fsync makes it one. A page with more
than one version may also come out `Torn`. The log survives up to `synced` and
then for any length beyond; a log that was removed may come back (`staleLog`)
until its successor is synced.

Calls into the engine are cut at every write and sync. `phase` says where the
session is: a statement executes (`rows`, `schema`), its commit appends one frame
at a time and syncs (`append`, `sync`), a checkpoint flushes one page at a time,
writes the header, syncs, empties the log (`flush`, `fsync`, `truncate`,
`checkpointed`), and a start replays the log one frame at a time (`down`,
`replay`, `recovered`, `load`). `Crash` may fall in any of them, recovery
included. `Faults` selects the failures that may strike short of a crash: a
statement that fails after changing pages, a log append or sync that fails, a
flush that fails, a log that cannot be created again.

`current` and `committed` are ghosts: what the statements so far add up to, and
what the client was last told. No guard reads them.

What is abstracted: rows are a `Value` per page; the catalog chain is page 0,
and its content is the set of pages the tables own, which is what the catalog
decides about the rest of the file; the scratch pages of joins, which are never
read back, are left to `PageOwners` and `Pool`; frames are unlimited, and
eviction strikes any page it may, which includes every choice of the CLOCK hand.

External to the code, and assumed: fsync of a file makes the file's content, and
for a newly created log its directory entry, durable; an append leaves a prefix;
a checksum tells a damaged page or frame from a good one.

### Sessions

`pc[s]` follows a connection thread: waiting for a message (`idle`), for the lock
(`waiting`), in `executeStatement` (`running`), before the end of
`ProcessStatement` (`ran`), sending (`replying`), in `closeSession` (`closing`,
`closed`). The lock is `readers` and `writer`. A transaction's thread comes back
to `idle` with the lock in its hands. The statements that fail, a client that goes
away, a client that goes quiet inside a transaction (`TimeOut`,
`IDLE_IN_TRANSACTION_SECONDS`), and a connection accepted without memory for a
`Session` are actions of their own.

### PageOwners

Adds to `Sessions` the page lists of tables and of each thread's `joinHeap`, the
stack of freed ids and the page count. Freeing and filling the scratch heap of a
join is one step per page, as the pool's mutex is given up between them and other
readers run meanwhile. What a writer does to one heap is one step, since the
engine lock keeps everyone else out. `catalog` is the tables as last committed.
Commits that fail are left out; `Pager` has them.

### Pool

Each call is a step, because it is made under the pool's mutex. A thread keeps
the frame it was given and may write through that pointer at any time until it
unpins, into whatever the frame holds by then. A frame and the file each record
only whether they have the last written content of the page. `Sweep` is
`acquireFrame`'s loop with its second chances, `Acquired` its two ways to come up
with a frame; growing may get less than it asks for, down to one frame. A write
that fails during an eviction is left out.

### BTree

A tree is a record of nodes numbered by the order their pages were taken. Every
function of `11_index.c` that changes or reads one is an operator: `InsertInto`
descends, `SplitLeaf` and `SplitInternal` cut a full node, `GrowRoot` puts a root
over two halves, `IndexScan` and `IndexPrefixScan` walk the leaf chain. Pages come
from an allowance, and where it runs out the operators stop where the code does,
with what was done by then done. Texts are sequences of numbers, of which
`MakeKey` stores the first `KeyMax`; other types sort as their values do and are
not distinguished.

### Table

The state is a table's columns, its CHECK with the slots it was bound to, its heap
(pages of slots, free room, `nlive`, `nslots`) and its indexes. Each statement is
a step, because `ProcessStatement` holds the write lock around it. `StoreRow`,
`RewriteRows`, `RebuildIndexes` go row by row as the code does and may fail at any
allocation, by the allowance the statement started with. `damaged` becomes true
where the code leaves something it cannot repair: a tree with its right half cut
off, a heap with rows of two shapes. `CollectRows` is the choice between index and
scan. `EvaluateCondition` has three truth values. `Reload` is what a restart or a
ROLLBACK makes of the saved table: counters counted anew, indexes in the opposite
order, the CHECK bound by name.

### Select

No variables: what a SELECT answers over `Table`'s heap. Tables are joined with
themselves. `HashValue` may collide and the bucket arrays are small, so that
probes run into each other; they are as large as this statement needs or as an
earlier one of the thread left them. The result of `EvaluateCondition` is
what the WHERE says; that an index finds the same rows is `Table`'s business, so
the properties look at tables without indexes. The pages of the join's heap are
`PageOwners`'. Left out: SUM and AVG, scalar subqueries, items that compute.

### Databases

`names` and `used` are the slots; `catalog` and `heaps` what `02_catalog.c` and
`07_storage.c` keep for each; `current` the slot of each session; `saved` the
catalog in the file and its log. Every statement but SELECT is a step under the
write lock, which `holder` keeps for a transaction. `LoadDatabase` empties the
slots and fills them from the file in its order, the default database in slot 0
and every other in the first free slot. `FinishSchemaChange` is the flag of
`10_controller.c:130-140`. A heap remembers which database its creator took itself
to be in; no guard reads that.

### Portals

One connection: `prepared` statements, the one `portal`, `ignoring` for
`ignoringUntilSync`. Each message is a step, `replies` its answers. Running a
statement is `Outcomes`, any number of rows or an error, and `WindBack`, which
marks the rows a portal keeps as overwritten. `runs` and `given` count for the
properties only.

## The runs

| Run | Instance | States | Shows |
|---|---|---|---|
| `pager` | 3 pages, 2 values, 2 statements, 2 crashes, no faults | 903 thousand | pages read as written, the write-ahead rule, the refinement of `AtomicStore` |
| `pager_faults` | 2 pages, 1 value, 1 statement, 2 crashes, all faults | 74 thousand | what still holds when writes fail, and that every call returns |
| `torn_append` | failing appends | violation | finding 1 |
| `sessions` | 4 clients, 3 slots | 36 thousand | lock and flags agree, slots suffice, waiters are served |
| `page_owners` | 2 sessions, 2 tables, 3 pages | 306 thousand | no page has two owners, no table moves under a reader |
| `scratch_pages` | 2 sessions, 1 table, 3 pages | violation | finding 2 |
| `pool` | 2 threads, 1 frame growing to 2, 3 pages | 1.36 million | pointers stay good, no page is resident twice, no write is lost |
| `table` | nodes of 3 keys, heap pages of 4 slots, 5 slots, 1 index, 2 columns | 12 thousand | indexes, constraints, counters, trees, answers |
| `renamed_check` | the same, renaming the column of a CHECK | violation | finding 3 |
| `databases` | 2 sessions, 3 slots, 2 names besides the default, 2 tables | 263 thousand | catalog, heaps, file and sessions agree |
| `portals` | 2 names of each kind, 1 prepared statement, 3 rows | 2.6 thousand | statements run once, rows are sent once, errors silence the batch |
| `stale_rows` | the same | violation | finding 4 |

**pager.** `ReadsLatest`: the session sees exactly what its statements wrote on
top of what was committed, whatever was evicted, faulted in, folded back, rolled
back or replayed meanwhile. `WriteAhead`: at every moment the synced part of the
log, or else every version on the disk, gives each committed page its committed
content. `LogBeforeFile`: a running session overwrites the file only with logged
pages. `ImplementsAtomicStore`: the refinement. Its mapping takes a stopped engine
for `down`, a commit between its first frame and the end of its sync for `commit`,
where the abstract store too may fail either way, and anything open for `work`.

Two statements and one crash are enough for a commit over a logged page, a
rollback after a commit, a page freed by one statement and taken by the next, a
crash in a checkpoint with the old log in place, and recovery from each. The second
crash falls into that recovery (`CrashAgain`), and the search ends where the
engine is back (`UntilSecondRecovery`). Three pages give the catalog and two
tables' worth of data, so that a commit is several frames. `InPageOrder` takes the
pages of one commit or checkpoint in ascending order. It loses nothing: the frames
of a commit are about different pages and are replayed all or not at all, and a
crash leaves any version of each page since the last sync, whatever order they were
written in.

**pager_faults.** `FileIsBeforeImage`: the file stands still during a transaction.
`CleanMatchesFile`: a clean frame may be dropped. `Returns`: every call returns and
a stopped engine comes back. Both crashes may fall anywhere. One statement and one
value suffice, as no property looks at content beyond whether two copies of a page
agree; the first two are proved for any bounds besides.

**sessions.** Four clients for three slots, so that one is refused while a
transaction, a reader and a waiting writer coexist. `CHECK_DEADLOCK FALSE`, here
and in `page_owners`: when every slot has leaked and every client is gone, the
server accepts nobody; in `pager_faults` too, where a file that cannot be read is
refused for good.

**page_owners.** `OneOwner` is claimed up to the first rollback that reclaims a
page some `joinHeap` still lists (`outlived`); `StopAtOutlived` ends the search
there, and `scratch_pages` shows what follows. Three pages suffice for a table's
page, a join's page and one that changes hands.

**pool.** Two frames for three pages and two threads make every way to be short
of a frame happen: pinned, unlogged, referenced, free, and memory running out.

**table.** `IndexAgreesWithScan`: whatever the WHERE, the access path `collectRows`
chooses gives the rows a scan gives, each once, into the buffer reserved for them.
`RowsKeepPromises`, `UniqueHolds` and `CheckHolds`: NOT NULL and lengths, UNIQUE,
CHECK. `HeapIsCounted`: the counters that size those buffers are right, also after a
statement that stopped half way, and the records a page has fit beside its slots,
added up from the rows and not taken from the counter of free room.
`EntriesAreSlots`: an index has each slot of the heap at most once.
`TreesAreOrdered`: order, separators, reachability. `StatementKeepsRows`: which
statements may not change rows, and that an UPDATE that stops half way loses and
doubles none. `LikeIsSQL`, `JoinsFindEveryPair`, `AnswersAreSQL`: LIKE against its
definition by cuts of the text, joins against the pairs their ON and WHERE are true
of, and the stages of a SELECT against groups, duplicates and ranks written as
sets. A key keeps one character, so that different texts share one; five slots are
what it takes for an internal node of three keys to split, and more slots than a
page has. A statement has one page to spend or more than it needs. One text is too
long for any page. `Bounded` stops after damage, keeps heaps of more than three slots
free of tombstones and tables of two columns small. `ALTER TABLE` renames the added
column only; `renamed_check` renames the other.

**databases.** Three slots and two names make a slot that is freed, taken under
another name and skipped by a reload. `UsedSlotsAreSaved`: outside a transaction,
loading the file would bring back the databases in use with their tables. A free slot
is not among them; see "Other departures" for what a session may do in one.
`StandsSomewhere`: a session's own statements leave it in a database that exists,
and another's do not move it. Not claimed of the end of another's transaction,
which may load the slots anew: see "Other departures".

**portals.** One place for two names of prepared statements, limits 0, 1 and 2 over
up to three rows, so that a portal is suspended twice.

## Findings

Each is a run that `PROJECT.json` expects to fail, with the line it contradicts.

1. `torn_append`: a failing append leaves a torn frame, and commits appended after
   it and reported to their clients are not replayed.
2. `scratch_pages`: after a ROLLBACK a SELECT with a join can free a page a table
   owns.
3. `renamed_check`: a CHECK whose column was renamed stops checking at the next
   load.
4. `stale_rows`: describing a prepared SELECT overwrites the rows of a suspended
   portal.

Other departures met while reading, which no run checks:

* BEGIN checkpoints every dirty page (`14_pool.c:807`), those of a failed statement
  included, which no commit has logged.
* A connection accepted without memory for its `Session` keeps its slot
  (`16_wire.c:1543`). `AcceptNoMemory` is in the model.
* `allocateLocked` leaves an evicted page's number on its frame when the directory
  cannot grow (`14_pool.c:647`).
* A reload renumbers the databases, and a dropped slot may be taken by another
  database, under sessions that know theirs by number (`13_database.c:38-42` says
  they do not see each other move).
* A session stays in the slot of a database that another session drops
  (`13_database.c:86-92` moves only the one that drops it). A CREATE TABLE there
  reports success, but `saveCatalog` writes used slots only (`12_persist.c:315-317`),
  so the table is gone after the next load: the "change that reported success and was
  not kept" of `10_controller.c:125-129`. A CREATE DATABASE that takes the slot before
  that finds the table in it. Both are behaviours of `Databases`, and the reason why
  `UsedSlotsAreSaved` is about slots in use.
* An UPDATE that runs out of pages leaves the rows it had come to changed, where
  `06_executor.c:1262-1271` says a statement either happens or it does not.
* `ALTER TABLE ... ADD ... NOT NULL DEFAULT NULL`, and a default longer than its
  `varchar(n)`, are taken for a table with rows (`05_semantic.c:412-420` asks only
  whether there is a default), so rows come to break what INSERT refuses. It is the
  hypothesis `DefaultsFit` of `RowsArePromised` that rules this out.
* `heapInsert` (`07_storage.c:437`) compares a record with `PAGE_SIZE`, though a
  page's last bytes are its checksum (`07_storage.c:12-13`): the largest records it
  takes reach over slot 0. `HeapIsCounted` has them as its exception: such a record is
  alone on its page and reaches over its own slot only. The slot's bytes then replace
  the record's first ones, which the model does not follow; the `table` run has no row
  of such a length.
* `UPDATE ... SET id = <expression>` can give several rows one value of a UNIQUE
  column (`06_executor.c:1302`). The updates of the `table` run give different
  rows different values.
* `-0.0` and `0.0` are equal to a scan, and two values to an index, a hash join,
  GROUP BY and DISTINCT.
* `sum(2)` and `min(2)`, aggregates over no column, answer 0 and whatever the
  accumulator held (`06_executor.c:1718`).

### Fairness

`Pager!FairSpec` has weak fairness on `Progress`, the steps of a call that is
already under way. Nothing in a commit, a checkpoint or a recovery waits for
anyone, so the only thing assumed is that the process is scheduled and its I/O
calls return. Starting statements, evictions and crashes are not assumed.

`Sessions!FairSpec` has weak fairness on each thread's own steps: it is
scheduled, the receive timeout fires, and the client reads its answer. The last is
an assumption about clients; there is no send timeout in the code. The lock is
SRWLOCK or `pthread_rwlock_t` and promises no order, so `WaitersAreServed` says
that waiters are served once clients stop asking, and no more. It excludes that
anyone leaves with the lock.

Both runs with liveness use these: `pager_faults` and `sessions`. `Table`,
`Databases` and `Portals` are about sequences of statements and messages, each of
which is a step; nothing in them waits.

## What is proved

For every value of the constants that meets the named assumptions: any number of
pages, values, statements, crashes, sessions, slots, frames, threads, names, tables
and columns, and any order of the trees.

**PagerProofs.** `TypeCorrect`, `CleanFramesMatch` and `FileIsKept` hold for any
set of faults. `LogComesFirst` assumes that no statement, append or log creation
fails, `Faults \cap {"statement", "append", "truncate"} = {}`; without the first
it does not hold, as BEGIN flushes what a failed statement left.

* `TypeInv` strengthens `TypeOK` with what the content of a catalog page is (a
  load turns page 0 of the file into `owned`, so everything that can get there,
  the frames of both logs included, has to be a set of pages) and with what may be
  left in `todo` and `position` in each phase.
* `CleanInv` adds that a stopped engine has no frames, since a replay writes
  pages without looking at them.
* `TransactionInv` says that no page is logged while a transaction is open: the
  checkpoint of BEGIN flushed them all. That is why evictions cannot reach
  the file.
* `LoggedInv` says that between statements, outside a transaction, every dirty
  page is logged, and that this is still so when a checkpoint flushes it.

**PagerProofs, durability.** `ReadsItsWrites`, `WriteAheadRule` and `PagerIsAtomic`, the
refinement of `AtomicStore`, under the same assumption about faults. That leaves
flushes that fail and any number of crashes, in the middle of a recovery too. The
three faults it excludes do break the promise: finding 1 is an append that fails,
a log that cannot be created again loses every later commit, and a failed
statement's pages reach the file at the next BEGIN. `Replays` says what the first
n frames of a log make of a page, `Rebuilds` that this is so whatever version the
disk has. `PagerInv` adds to the invariants above:

* `LogShape`, `Purposes`: the log is whole commits, then the frames of the one
  being appended, and only these go beyond `synced`; a removed log that may come
  back was folded into the file before.
* `DurableInv`: in each phase, the part of the log a crash cannot take, together
  with any version of each page the disk may have, rebuilds `committed`
  (`FileShape`, `Settled`, `Kept`, `Replayed`); the frames of a commit under way
  rebuild `current` (`Appending`).
* `Viewed`, `Backed`: what the session would read is `current`, and a page that is
  not resident reads from the file as it should, which is what lets an eviction
  happen.
* `CatalogFollows`, `Counted`: the in-memory catalog and page count are those of
  the pages.

No part is inductive alone. That a checkpoint may overwrite the file rests on the
log's being synced before; that the log may be removed rests on the file's being
synced after; that a commit's frames decide every page rests on `LoggedInv`.

**PageOwnersProofs, the threads.** `TypeCorrect` and `SlotsSuffice` from an invariant that
bounds the connections by the counter. `TransactionIsOwned`, `ReadersAreAlone`
and `LockIsReturned` from one invariant in three parts: who is where when they
hold the lock, readers and the writer exclude each other, and the engine's flag
agrees with the thread's except between the end of a statement and the end of
`ProcessStatement`.

**PageOwnersProofs, the composition.** `OwnersImplementSessions`: every step of the
composition is a step of `Sessions` or leaves it alone, so all of the above holds of
the composition. `TablesStandStill` follows from it: who changes a table has the lock
exclusively. `PagesHaveOneOwner` proves `OneOwner`, which like the property is
about behaviours up to the first page that outlives a rollback. `PagesInv` has
three parts: page lists and the free stack have no duplicates and stay below the
page count (`Lists`), they are apart from each other (`Apart`), and the catalog as
last committed is apart from itself and from the joins of sessions that did not
start the open transaction (`CatalogApart`), since a rollback puts it back. That
a rollback meets no reader half way through a join is `Sessions`' invariant. Tables
and threads are both owners, so the constants that name them are assumed apart.

**PoolProofs.** `TypeCorrect`, `NoPageTwice` (`DirectoryAgrees`), `PinsHold`
(`PointersStayGood`), `WritesAreFound` (`NothingIsLost`), and the action properties
`FileFollowsTheLog` and `GrowsLast`, for any number of threads, pages and frames.
`PoolInv` says besides the types that the directory and the frames' page numbers
are inverse to each other (`DirectoryAgrees`), that a page is in one frame
(`Alone`, `Separate`), that the pins of a frame are as many as the threads that
hold it (`Pointers`), and that a resident page's frame is the last written content
or is nobody's, and a page that was evicted is right in the file (`Copies`, `Away`).
Pins are counted, so the set of threads is assumed finite.

`acquireFrame` is a loop over the frames with a recursive function, `Sweep`'s
`after`. Its existence for any number of frames is proved by a least counterexample
(if some length has none there is a shortest, and the function one shorter extends
to it), which needs no induction rule with an operator parameter. From there: two
rounds of the hand find a frame if there is one to take, and what they find is
neither pinned nor unlogged. So the pool grows only when nothing can be evicted.

**PortalsProofs.** `PortalTypes`, `BoundOnceRunOnce` (`RunsOnce`), `RowsComeOnce`
(`EachRowOnce`) and `ErrorsEndTheBatch` (`SilentAfterError`). `PortalInv` adds where
a portal's position is in each of its states and how `runs` and `given` relate to
it. `PortalsAssumption` bounds the row limit of an Execute by
2147483647 - `MaxRows`: beyond that, position plus limit overflows the `int` of
`16_wire.c:1176`, and nothing is claimed.

**DatabasesProofs.** `NamesStayUnique`, `ListsStayEqual`, `UsedSlotsStaySaved` and
`SessionsStand` prove all four properties of the `databases` run, for any number of
slots, sessions, names and tables. `DatabasesInv` has two parts. `SlotsInv` is the
first two properties with the types. `FileInv` is what a file has to be for a load
to bring all of it back (`FileShape`: different names, the default one among them,
no more databases than slots, tables of different names), and that it agrees with
the slots unless `changed` says otherwise, which only an open transaction may leave
so. `CatalogMatchesHeaps` is what a save rests on, as it takes each table's heap by
name; `NamesAreUnique` what a load rests on, as it takes each slot by name; and
`Room` counts names to show that a load finds a free slot for every database. The
two loops, over a file's databases and over a dropped database's tables, are folds;
the functions they define by recursion are shown to exist by the same argument as
`Sweep`'s (`FoldExists`).

**Folding.** Every loop of the code that `BTree` and `Table` model is a fold or a
recursive function. The proof system has no induction rule that takes an operator,
so this module has the operator as a CONSTANT, proves what a fold and a recursion do
by a least counterexample, and is instantiated once for each loop. `FoldSteps`: a
fold goes through states, each the operator applied to the one before. `Recursion`: a
recursion that only asks for values of less depth defines a function. Each use then
shows for its loop that a property holds of every state, by `Climb`: if it fails of
some number it fails of a first one.

**StorageProofs.** `InsertKeeps` and `EntriesFromIs`. `TreeOK` says that every child
of a node has less depth than the node, and every leaf less rank than the one before
it on the chain, for some assignment of numbers to the nodes; that a node has one
child more than keys; and that the leaves have no row twice. The numbers are what
makes the recursion over a tree one that ends, and so what gives an induction over
it. A split puts the new node at the depth of the old and between its rank and the
next, which is why ranks are renumbered; a failed split leaves the node as it was.
A tree whose new root could not be had loses a half and is still `TreeOK` without the
promise that rows are found. The rest is about heaps: the positions of a scan are
those of the live rows, each once (`ScanIs`), `nlive` and `nslots` count them
whatever is stored, tombstoned or copied (`StoreKeeps`, `MarkKeeps`, `CompactIs`),
filling and rebuilding an index enters slots of the heap once (`FillIs`,
`RebuiltIs`), and an access path gives different slots of the table (`ChosenAre`).

**TableProofs.** One inductive invariant, `TableInv`, and one lemma for each of the
statements, which says that it keeps the invariant and what became of the rows
(`InsertIsKept`, `UpdateIsKept`, ... `ReloadIsKept`). `TableOK` is its heart: column
names differ, the heap's counters are those of its pages, its rows are `Allowed`,
every index reads the slot of the column it is named after, and its leaves have slots
of the heap, each at most once. What is allowed hangs on `damaged`. As long as no
ALTER TABLE or root split has stopped half way, a row has a value for each
column that keeps NOT NULL and the length, and passes the CHECK; afterwards it
has at least that many values. That is still enough for every later statement to
read it, so the counters are proved for damaged tables too (`HeapStaysCounted`).
None of the parts is inductive alone: that a row may be stored rests on the columns,
that an index may be filled from the heap on the rows, that an UPDATE changes each
row once on the entries of the index it was found by being different slots. While
ALTER TABLE rewrites the rows, the heap has rows of two shapes; `RewriteRowsIs` is
about that stretch, and `AddComesTo` and `DropComesTo` close it.

From it follow `TableIsTyped`, `HeapStaysCounted`, `RowsArePromised`, `ChecksHold`,
`IndexEntriesAreSlots` and, with the statements' lemmas, `StatementsKeepRows`.
`HeapStaysCounted` has no hypothesis: the largest records that `heapInsert` takes are
part of what it states. What records take is a sum over the slots (`RoomTaken`), and
`Fitted` says that it and the free room add up to no more than the page; an insert
adds a slot and a record (`RoomOfAnother`), a tombstone takes no more than the row
before it (`RoomOfTombstone`). Two theorems have a hypothesis about the constants,
each where the code does not keep the promise without it:

* `ChecksHold` assumes that no column a CHECK names is renamed (`ChecksKeepNames`).
  The `renamed_check` run is what happens otherwise.
* `RowsArePromised` assumes that the default of an added column is a value that
  INSERT would take (`DefaultsFit`).

The second is in the list of departures; the `table` run's constants meet both. For the CHECK it is shown that the truth of a condition does not change when a
column is put behind those it asks for (`SameAnswer`). The named assumptions of
`Table` say what the parser and `semanticCheck` let through: a condition names nodes
before it, a CHECK is about its own table's columns, columns have different names.

Only model-checked:

* `TreesAreOrdered`, and with it `IndexAgreesWithScan` and `UniqueHolds`, which need
  that a descent comes to the first key that is not smaller: order is a property of
  all keys below a node, not of its depth and rank, and a proof has to carry bounds
  down every path through a split.
* `LikeIsSQL`: `likeMatch` goes back to the last %, so that its invariant is about all
  the cuts given up on the way; an induction over two sequences at once.
* `JoinsFindEveryPair` and `AnswersAreSQL`: what hash tables and heaps of rows contain
  after any number of steps.
* Liveness (`Returns`, `WaitersAreServed`): it rests on fairness and ENABLED, which the
  proof system does not treat.

`Portals` and `Sessions` have type invariants that are proved and no run checks.

## Not modelled, and why

* Lexer, parser, expressions, result formatting: functions of one statement with
  no state between statements. Conditions compare columns with literals and with
  each other.
* The types of values: texts stand for all of them, being the type whose stored
  order and value order differ. Floats are the exception the list of departures
  names.
* The encodings of pages, rows, catalog and wire messages: no property here is
  about bytes. Checksums appear as the ability to tell a damaged page, a record as
  its size.
* The two platforms' primitives behind `18_thread.c` and the file calls are
  external; what is assumed of them is said above.
* Some failures within failures: the log that a ROLLBACK cannot create again
  (`12_persist.c:1140`; `FailTruncate` is BEGIN's), a flush that wrote part of a page
  and goes on running (`14_pool.c:421`; a partly written page is left by crashes only),
  a ROLLBACK that cannot read the file and goes on (`12_persist.c:1133-1135`;
  `RefuseDatabase` stops the engine), a second pin of one page by one thread
  (`06_executor.c:2566-2590`, a hash join of a table with itself; the pins are counted
  alike).
* Whole-file saves, older file formats and dot commands. The prompt uses them,
  alone, between statements.
* The damage counter of `10_controller.c:117`, which is global: a page one reader
  finds damaged can fail another's statement.
* A stream of readers may keep a writer out: the lock promises no order, and
  nothing is claimed.

## Plan

Done: all modules of the plan, and proofs about all of them but `Select`. Left, in
this order:

1. In `StorageProofs`: that a tree's keys are in order and a descent finds the first
   one not smaller, and with it `IndexAgreesWithScan`.
2. In `Pager`: the catalog as a chain of pages that grows and is reused, and
   whole-file save and load.
3. In `Select`: values with two representations of zero, and aggregates over no
   column.
