# TinyDB C: models, model checking and proofs

This directory specifies TinyDB in TLA+: the pager and its buffer pool, both
kinds of B+ tree, the index and catalog files beside the database, schema
changes with the migration that repacks a table, and the routes a generic SQL
statement can take. TLC checks the specifications on small instances; TLAPS
proves the most important invariants for every instance. A source file
named without a directory is in `src/` of the repository, and `README.md` with a
line number is the repository's own.

## 1. The system

TinyDB is one process with one database file and a few files beside it. From
the top:

| part | source | state it keeps | operations |
|---|---|---|---|
| REPL | `src/main.c` | input buffer | dot commands (`.checkpoint`, `.check`), SQL lines |
| engine facade | `src/engine.c`, `engine_open_guard.c` | open database, last result | open, execute, close; DDL = execute, checkpoint, save catalog |
| generic SQL routes | `src/generic_*.c` | one statement at a time | predicates, OR/IN/BETWEEN/LIKE, multi-row mutation, grouped and ordered reads |
| index planner and statistics | `src/generic_index_*` | index snapshots, epochs, statistics | rebuild, invalidate, estimate, choose a path |
| compiler | `src/compiler.c` | none | text to statement |
| virtual machine | `src/vm.c` | statement in progress | transaction statements, row loops, `commit_table_changes` |
| catalog | `src/multitable.c`, `schema_catalog_*` | tables, roots, shapes; a sidecar file with generations | create, drop, alter, save, load |
| B+ trees | `src/table.c` (fixed rows), `slotted_*`, `record_*`, `leaf_*`, `internal_*` (slotted rows) | pages | find, insert, delete, split, merge, borrow |
| migration and repack | `compact_v2_*`, `schema_repack*` | staging tree, manifest file | prepare, publish, recover at open |
| pager | `src/pager.c`, `pager.h`, `pager_checkpoint_order.c` | frames, spills, committed shadows, free stack, transaction, savepoints; `.db`, `.wal`, `.free`, `.free.wal` | get, allocate, free, shrink, BEGIN, COMMIT, ROLLBACK, savepoints, checkpoint, recover, pins and locks |

Everything above the pager sees pages through `get_page`, changes them in place,
and calls `mark_page_dirty`, `get_unused_page_num`, `pager_free_page` or
`pager_shrink`. Statements reach durability through `commit_table_changes`
(`vm.c:5`) or SQL `COMMIT`, both of which end in `pager_commit`. The catalog and
the index snapshots are files of their own, written before or after it.

What is hard here:

- **Crashes.** COMMIT, checkpoint, recovery and CREATE TABLE are several durable
  steps each; `.free` and `.free.wal` have a publication protocol of their own;
  recovery may crash and run again.
- **Many copies of a page.** Frame, spill, committed shadow, held-back overlap
  image, log and file can all hold one page in different versions.
- **Allocation across rollback.** The free stack is changed by statements,
  restored by ROLLBACK and ROLLBACK TO, logged by COMMIT, and reloaded from
  whichever source survived.
- **Threads.** Handles, page locks, the pin barrier and eviction run under
  `pager_lock` in short stretches with gaps between them.

What makes each part correct, in a sentence:

- pager: a transactional page store, with nothing of frames or logs visible;
- allocator: no page twice, none in use, none lost;
- recovery: the file ends as the complete records say, however often it crashes;
- buffer pool: a handle's frame keeps its page, pins count owners, destructive
  operations exclude owners;
- B+ trees: sorted, balanced, linked leaves, one owner per page;
- catalog and migration: a reader after a crash sees the old or the new schema;
- statement atomicity: a failed statement changes nothing;
- planner: every path returns the rows a scan returns.

## 2. Modules

```
  TxStore  (what the pager promises)      WalLog  (a log, composed)
     ^ implemented by                      /    \
  PagerProps --EXTENDS--> Pager --EXTENDS-+      +-- WalRecovery --> WalRecoveryProofs (TLAPS)
     ^                                                  |
  PagerInv <-- PagerProofs (TLAPS)                      +--> MCWalRecovery
     ^            ^--- StoreProofs                      |
  MCPager                              SchemaFiles <-- Migration
                                                        ^
  BufferPool <-- MCBufferPool            MigrationInv --+
     ^---------- BufferPoolProofs (TLAPS)    ^--- MigrationProofs (TLAPS)

  BTreeV1 <-- BTreeInv <-- MCBTreeV1
                 ^--- BTreeProofs <-- BTreeRowsProofs (TLAPS)

  TreeV2Insert <-- TreeV2Delete <-- TreeV2 <-- MCTreeV2

  GenericPredicate <-- GenericRoutes <-- GenericLoads, GenericSql <-- MCQueries
              IndexProofs (TLAPS) --> IndexSidecars <--------------------+
```

Layers meet at one assumption each. The trees, the index files, the catalog and
the statements take a transaction of the pager as one atomic, durable step; that
is what `Pager` is proved to implement (`TxStore`). `GenericSql` takes an index
to list every row; that is what `IndexProofs` proves of `IndexSidecars`.
`Migration` takes a tree as a root with its pages; that a tree is that,
`BTreeProofs` proves of the fixed rows and `TreeV2` checks of the slotted ones.

### TxStore
The abstract specification. `committed` and `working` map the pages in use to
their contents, `marks` are the savepoints. An unanswered commit is all or
nothing in a crash. It knows no file and no cache.

### WalLog
`Logged` appends one record to a composed log, `Replayed` is what replaying the
log does to a file. `WalRecovery` checks that this composition is what the code
does record by record, which is why `Pager` may use it.

### Pager
The single-client pager. Variables carry the names of `struct Pager`
(`pager.h:46`): `numPages`, `spills` (`dirty_page_spills`), `shadows`
(`committed_pages`), `freePages`, `inTxn`, `txn` (the `transaction_*` fields),
`savepoints`. `cache` is `page_table` and the frames together: the image of each
cached page. Durable state is `file`, `fileLen`, `wal`, `freeFile`, `freeWal`.
`owned`, `cowned` and `leaked` are history: the pages that the trees and the
catalog reach, for the session and as committed, and the pages lost to earlier
crashes.

| action | code |
|---|---|
| `Fetch` | `get_page` of any existing page, with its eviction (`lru_evict`) |
| `Claim`, `Write`, `Free`, `Truncate` | statements: `get_unused_page_num`, `mark_page_dirty`, `pager_free_page`, `table_truncate` with `pager_shrink` |
| `CreateTable`, `EndDdlCheckpoint`, `SaveCatalog` | `table_create_table`, then `engine.c:592-600` |
| `Savepoint`, `RollbackTo`, `Release`, `Rollback` | the functions of those names |
| `StartCommit`, `SyncLog`, `EndCommit` | `pager_commit`: checks, append and fsync, the rest |
| `WriteFreeWal`, `RemoveFree`, `RenameFree` | `persist_free_list_snapshot` |
| `StartCheckpoint`, `FlushPages`, `SecondPass`, `EndCheckpoint`, `EndBegin`, `EndClose` | `pager_checkpoint` of `pager_checkpoint_order.c` around the one of `pager.c`; BEGIN calls the latter directly |
| `Open`, `ReplayLog`, `EndRecovery`, `LoadFreeList` | `pager_open`, `recover_wal`, `load_free_list_snapshot` |
| `ChecksumExit` | the exit of `get_page` on a page whose checksum fails |
| `Crash` | the process or the machine dies; before a sync each page written is old, new or torn |

A multi-step operation advances `pc` one durable step at a time. No other
client action is enabled meanwhile, because the code holds the calling thread;
`Crash` always is. `Uses` selects what the client and the world do in a run;
every member is a call the code accepts.

### PagerProps, PagerInv and their proofs
`PagerProps` states the properties and the mapping to `TxStore`. `PagerInv`
states an inductive invariant, which `PagerProofs` proves, and with it that no
page is lost. On top of it `StoreProofs` proves that the pager implements the
store.

### WalRecovery, WalRecoveryProofs
`recover_wal` over a log of records in three formats (with free list, with page
count, with neither), up to the first record it rejects; file sync, publication,
deletion, with a crash and restart between any two of them. Its properties
compare against a definition that never replays: for each page, the last record
that writes it or cuts it off decides. `WalRecoveryProofs` proves them for logs
of any length.

### BufferPool, BufferPoolProofs
Threads over shared frames. One action is one stretch under `pager_lock`
(`pager.h`), or one wait for a frame's rwlock. It has pin admission and
publication with retries, the try-pin variant, handles, page locks by handle and
by page number, LRU replacement, the guards of free, shrink, rollback, rollback
to savepoint (with its barrier) and close, and the exit when every frame is
pinned. Images are left out: they are `Pager`'s. `lru` is the order that the
list is in, a set of pairs; `Candidates` are the frames `get_page` may use, and
`OneFramePerPage` shows that there is never a choice between two.
`BufferPoolProofs` proves the safety properties.

Two things in the code take a pin or a lock away from a thread that owns it: the
scan of SAVEPOINT and COMMIT (`Scan`, `ScanUnpin`), and the release of a page
lock that was refused (`NumberLockRefused`, then `NumberUnlock`). Both are
actions that any thread may take at any time, and `stolen` is history: it becomes
true in the step in which one of them gives back what is another thread's.
`HandleStable`, `PinsAreOwned` and `LocksProtectPages` are stated up to that step,
`OneFramePerPage` and the gap half of `BarrierExcludesPins` without it. The run
`stolen_pin` shows what follows the step.
`NumberUnlock` looks the page up again, as the code does, and unlocks whichever
frame it finds, whoever holds its lock; that it is the frame that was locked is
one of the things proved. `NoSuchSavepoint` is the early return of a rollback to an
unknown name, behind the barrier.

### BTreeV1, BTreeInv, BTreeProofs, BTreeRowsProofs
The trees of fixed rows (`table.c`), one per table, over one page file and one
stack of free pages. An operator per C function, from a database record to a
database record, composed as the functions call each other: `LeafInsert`,
`SplitAndInsert`, `CreateNewRoot`, `UpdateSeparator`, `Deleted`,
`RemoveEmptyLeaf`, `CollapseRoot`, `Truncated`.

| action | statement |
|---|---|
| `Insert`, `Delete` | INSERT; DELETE of one key |
| `Truncate` | DELETE without WHERE on `users` alone |
| `DeleteAllRecords`, `DeleteRecord`, `RowsGone` | the same on a generic table: the cell under `table_start` until none is left, then one commit |
| `DeleteAllStatements`, `DeleteStatement`, `RowsGone`, `KeyNotFound` | the same on `users` beside another table: a committed statement for each row, ending early where the search misses the key |
| `CreateTable`, `SetUserVersion` | CREATE TABLE; `PRAGMA user_version` |
| `Vacuum`, `VacuumReads`, `VacuumInserts`, `VacuumEnds` | VACUUM: read leaf by leaf, truncate, insert row by row, restore the version and commit |
| `Exit` (an outcome), `Reopen` | the process ends; it is started again |

A statement that loops takes a step per row, and an exit inside one loses what it
wrote since the last commit: `committed` is that commit, `running` names the
loop, `at` is the leaf VACUUM's cursor is on and `todo` the rows it has read. The
split of a full internal node exits (`InternalSplit`), so no tree is higher than
two levels. `MutationSupported` is the structural check of
`leaf_mutation_policy.c` that a generic mutation runs first, without its refusal
of slotted leaves, which these trees do not have.

`misrouted` is history: the tables in which a leaf was split under a stale
separator (finding 4). Scans, lookups and the check are stated for the others;
the partition of the pages is stated for all. `BTreeInv` states `TreesInv` in two
parts: `PageInv` for the pages, which `BTreeProofs` proves inductive, and `RowInv`
for the rows in them, which `BTreeRowsProofs` does.

### TreeV2Insert, TreeV2Delete, TreeV2
Trees of slotted leaves (`slotted_*`, `record_*`, `leaf_*`, `internal_*`). A
mutation maps a page file to the set of page files it may leave, empty when it
is refused: the code stages every image before it publishes one, so a refusal
leaves no trace. `TreeV2Insert` has the search, the page claims, the split of a
leaf and of any number of full levels above it. `TreeV2Delete` has the 21 routes
by which a tree is repaired after a leaf's last row goes, tried in the order of
`record_delete_v2_empty_route.c`. `TreeV2` puts single-row statements over them.
Rows have a size in units; an UPDATE that does not fit in place is refused.
Key 0 is a key like the others, but the helpers that split or lower an internal
node take a separator or maximum of 0 for a missing one and refuse
(`NoSeparatorZero`); `SplitsAtZero` names that cause of a refused INSERT.

Every behaviour starts from an empty table. It first inserts the rows of `load`,
one statement each, and then makes `steps` statements on the keys in `use`.
`refused` is history: an INSERT of a new key or a DELETE of a row that was
refused, which ends the behaviour.

### IndexSidecars, IndexProofs
The files beside the database that index lookups trust: the username index of
`users` with its log and the catalog entry that calls it valid, and the range
snapshot and the epoch of an index on another table, with the equality cache in
memory. Memory changes at once; file operations are queued in `todo` and reach
the disk one at a time, with a crash possible between any two of them and in the
middle of one. `watch` is history: `SnapshotsComplete` is stated for indexes
that were not dropped and created again around a change of rows (section 4).
`IndexProofs` proves both completeness properties for any rows and values.

`sec` is the name of the one column index that `users` may have; a lookup by that
column goes through it first and through the username index only if there is
none (`LookupUsername`, `LookupSec`). `UsernameIndexComplete` therefore speaks of
the username index and not of every lookup by username. Of the entries of the
column index, which go stale (section 4), nothing is claimed.

### GenericPredicate, GenericRoutes, GenericSql, GenericLoads
`GenericPredicate` has predicates, boolean expressions and the bounds an index
takes from them. `GenericRoutes` says for each route what statement it accepts
and which keys it looks at, in which order. `GenericSql` has one action per
route and the row-by-row execution of a mutation inside its transaction or
savepoint, where the record layer may refuse any row. Where the code compares
costs both outcomes are possible. `GenericLoads` holds the statements and the
tables of the run.

### SchemaFiles, Migration, MigrationInv, MigrationProofs
Schema changes and the repack of a table, with the three files they keep.
`SchemaFiles` is what the files hold: trees and the claiming of pages in the
database, catalog files with the derivation of identities and generations, and
the manifest with the classification of an interrupted repack. `Migration` is
the process over them. `MigrationInv` states the inductive invariant that
`MigrationProofs` proves.

| state | code |
|---|---|
| `disk` | the database file as page count, free pages and trees |
| `main`, `wal` | `.schema` and its log, which hold roots, shapes, ids and generations |
| `manifest`, `durable` | the manifest under its name, and as of the last sync of its directory |
| `catalog`, `prepared`, `step`, `work` | the process: table catalog, prepared repack, the step it is at |
| `stored`, `overtaken`, `behind` | history: rows each table should hold, tables written since staging, a save that began on another file than the catalog in memory |

| action | code |
|---|---|
| `ReadLog`, `CopyLog`, `DropLog`, `Load` | the catalog part of `tinydb_open`: recover the log, load the catalog |
| `CheckManifest`, `Reclaim`, `Unlink`, `SyncUnlink` | classify an interrupted migration, free the tree that lost, remove the manifest |
| `LoadRefused`, `ManifestRefused`, `ReclaimRefused` | the open fails |
| `Insert`, `Delete`, `AlterTable`, `CreateTable` | statements; DDL is execute, checkpoint, save |
| `BeginSave`, `WriteLog`, `WriteMain`, `RemoveCatalogLog` and their failures | `multitable_catalog_save` |
| `Stage`, `WriteManifest`, `SyncManifest`, `PublishCatalog` | prepare and publish a repack |
| `Close`; `MigrationCrash` | `tinydb_close`; the process dies, at any step |

### MC modules
They give the constants their values. Two of them put modules side by side in
one run, each behaviour exploring one: `MCWalRecovery` has the page log and then
the catalog log and the migration, which is what opening a database replays;
`MCQueries` has the index files and the routes that rely on them.

## 3. Runs

| run | instance | what it shows |
|---|---|---|
| `pager_crash` | 3 pages, 3 frames, 2 images, no savepoints, crashes | the pager implements `TxStore` across crashes in COMMIT, checkpoint, publication, CREATE TABLE and recovery; the recovered free list is sound; pages are lost only to a crash in CREATE TABLE; the log is deleted only when redundant; `IInv` holds |
| `pager_savepoint` | 2 pages, 1 frame, 2 images, 2 savepoints of 2 names | the same refinement with nested and same-named savepoints over a pool that evicts on every change of page, with shadows and overlapping dirty pages, truncation, DDL and close |
| `wal_recovery` | logs of up to 2 records of 3 formats over 3 pages; migrations over 6 pages and 2 tables | recovery gives the predicted file and free list, idempotently, and agrees with `WalLog`; tables survive every crash in a save or a repack; an open refuses only for the causes named; no page is lost but to those named; generations advance by one |
| `buffer_pool` | 3 threads, 3 pages, 2 frames, 2 attempts | handles, pins, locks, barrier, close, in every behaviour up to the first stolen pin or lock |
| `buffer_pool_live` | 2 threads, 3 pages, 1 frame, 3 attempts | a pin request is answered; a barrier is lifted, also when the rollback finds no savepoint; stolen pins included |
| `btree_v1` | 2 tables, keys 1..4 and 1..3, 2 cells, 2 keys, 6 pages | `TreesInv` holds, with the types and one owner for every page; a scan returns each row once and in order; a lookup finds exactly the rows, also half way through a DELETE of all rows or a VACUUM; the structural check accepts what statements built; `user_version` survives growth, VACUUM and exits |
| `tree_v2` | leaves of 2 units, 2 separators, 56 pages, trees of 1 to 18 leaves in up to 5 levels, key 0 among the keys | separators are exact, pages have one owner, rows are reached, and statements are refused only for the causes the documents bound or for a split beside the separator 0 |
| `queries` | 1 row id and 2 values, epochs up to 3; keys 0..3, 2 columns of 2 values | neither the username index nor an index of the other table misses a row, in memory or after a crash; all routes answer as the definition of the statement does; a mutation is all or nothing and durable as a whole |
| `dot_checkpoint` | 2 pages | violation: finding 1 |
| `hole_page` | 3 pages, 1 savepoint | violation: finding 2 |
| `stolen_pin` | 2 threads, 2 pages, 1 frame | violation: finding 3 |
| `btree_v1_lost_row` | 3 cells, keys 1..6 | violation: finding 4 |

**Bounds of the pager and the pool.** `MaxPages` bounds page numbers: a claim
beyond it is disabled. Three pages are a root, a page in use and a page that is
free, cut off or claimed by a CREATE TABLE, so double allocation, growth over a
hole and shrink-then-regrow all occur. Two images tell an old version of a page
from a new one; a page is rewritten as often as wanted, so any number of
versions alternates. One frame forces an eviction for every page but one. Two
savepoints are the least for nesting and for equal names. A log of two records
has an older and a newer writer, a truncation by either, and a torn second one.
Two frames for three pages and three threads give a full pool with a pinned and
an unpinned victim, and a third thread that interferes. In `buffer_pool_live`
each thread can fill the pool, so that requests fail for want of a frame, and
fetches of three pages through one frame make a pin lose its frame at every
attempt. `Attempts` is 64 in the code; two or three keep the retry, more than one
of them in a row, and the giving up. The constraint `Unstolen` of `buffer_pool` follows
a behaviour up to the step in which a pin or lock is taken from its owner: most
of its properties say nothing of what comes after.

`pager_crash` leaves savepoints out and `pager_savepoint` leaves crashes out:
savepoints are volatile, and their product is too large to enumerate. The proofs
in section 5 cover the two together.

**Bounds of the trees.** Two cells to a leaf and two separators to a node are
the least with which a node can be full, split into unequal parts and be left
with one entry. In `btree_v1` a users tree has up to three leaves, and the split
that would follow ends the process; the other table splits too and competes for the
free pages. The constraint `OneMisrouted` follows a misrouted tree only while it
is the only one, or while its rows are all deleted beside an empty one, which is
where the search may miss a key (`KeyNotFound`). In `tree_v2` one load is empty
and eight statements follow; the others insert rows, ascending or descending, up to the edge of a height, and
then change the table by up to three statements that name the keys and the gaps
between them, 0 included.

**Bounds of the files.** One row with two values makes an index stale or not;
three epochs give a snapshot one, two and three changes old. Behaviours change
the rows of one table only, because the two kinds of index share no file. Three
pages are a staged tree of two leaves and a root, six leave room for the old and
the new tree of one of two tables and make free pages and growth both occur.
`MaxRows`, `MaxWidth` and `MaxColumns` bound how often one table is written and
altered; each is one, which tells before from after. The constraint `Known`
stops at the first open after an I/O error left the catalog behind (section 4).

**Bounds of the statements.** Keys 0 to 3, of which 3 stands for the largest
`u32`, with two values for each of two columns. Queries are asked of 24 tables
with each set of indexes, narrow and wide: single predicates, pairs, three-way
ANDs, ORs, bracketed groups, COUNT, LIMIT, OFFSET and ORDER BY. Mutations run in
sequences of three, in and out of a transaction, with a refusal at any row.

**CHECK_DEADLOCK FALSE** is set where the system may stop: recovery has ended or
an open is refused, the pool is closed or its process has exited, a tree has
had its last statement.

**Fairness.** Only `buffer_pool_live` needs it: `FairSpec` is weak fairness, for
each thread, of going on with its operation or exiting from it. Fetching a page
and exiting because every frame is pinned are two outcomes of one call of
`get_page` by a scheduled thread, so they are one fairness condition. That is the
operating system scheduling a runnable thread. No fairness is assumed for
callers: they need not release handles, ask for anything, or be granted a frame
lock.

Every property has a mutant: an operator beside the real one, marked `Fault:`,
that changes a definition as a plausible bug would and makes the property fail.

## 4. Findings

Shown by a run:

1. `.checkpoint` typed inside a transaction calls `db_checkpoint`
   (`main.c:263`) with no look at `in_transaction`, unlike the SQL statement
   CHECKPOINT. The checkpoint writes uncommitted pages into the file, which
   `README.md:285` excludes. A later ROLLBACK restores memory and not the file.
2. A page claimed at the end of the file and freed in the same transaction is
   never written, but the file is extended over it (`pager.c:1104`). Its zero
   bytes fail the checksum in `get_page`, and SAVEPOINT, which reads every page,
   ends the process with a corruption report on a healthy database.
3. `pager_savepoint` and `pager_commit` unpin pages that they did not pin
   (`pager.c:1183`, `1020`). The macros of `pager.h:521` that make such calls
   harmless are off in `pager.c`, because the build defines `pager_checkpoint`
   for that file. Another thread's handle loses its pin, and the next page that
   needs a frame gets the one it reads.
4. Deleting the largest row of a leaf of fixed rows leaves its separator
   (`table.c:859`). When the leaf splits later, `update_internal_node_key` looks
   for the largest key, finds no such separator, and the two halves are filed in
   the wrong order (`table.c:1332`). Rows that a scan passes are then not found
   by their key, against `table.c:168`.

Met while modelling; the properties name these cases and leave them out:

- *Trees of fixed rows.* The split of a full internal node always ends the
  process, after some 3576 ascending inserts, though `README.md:266` lists
  internal node splitting. `user_version` becomes 0 when the root collapses
  after deletes and when all rows are deleted; VACUUM keeps it.
- *Trees of slotted rows.* Key 0 is inserted as any other
  (`tests/compact_v2_read_probe.c:307`), but the split of a full node refuses a
  separator or a maximum of 0 (`internal_root_split_stage.h:60`,
  `internal_split_cascade_stage.h:117`). While 0 is alone in the first leaf, every
  INSERT that needs such a split is refused, though its row fits.
- *Closing the pager.* A thread whose frame was taken between `get_page` and its
  pin gives its admission back and goes round the loop of
  `pager_pin_page_handle` (`pager.h:159`), which locks `pager_lock` again. In
  between nothing counts it: `pager_try_close` may succeed, and `pager_close`
  destroys that lock and frees the pager (`pager.c:1133-1141`), although
  `pager.h:147` says that no destructive operation begins between fetch and pin.
  `CloseLeavesNoOwner` speaks of pins and admissions, not of this thread.
- *Page locks by number.* The lock is refused when the page is not resident or the
  barrier stands, and `pager_acquire_read_lock` and its write twin do not say so
  (`pager.h:494-508`). The release that follows looks the page up afresh; if
  another thread has the page resident and locked by then, its lock and its pin
  are given back for it, though `tests/pager_growth_probe.c:142` and
  `tests/pager_concurrent_pin_probe.c:228` take it that acquiring protects.
- *Indexes.* A column index of `users` is marked dirty at CREATE INDEX and at
  open, and not by INSERT, UPDATE, DELETE or ROLLBACK (`vm.c:511`, `1235`, `1199`,
  `1268`). Lookups by that column go through it first (`vm.c:912`), past a good
  username index, and miss the rows changed since, though
  `tests/test_secondary_index.py:263` says that it is maintained lazily. DROP
  INDEX and a CREATE INDEX of the same name in one process reuse the equality cache
  (`generic_index_snapshot_sql.c:597`); a crash inside DROP INDEX can leave a
  range snapshot that a later index of that name adopts.
- *Migration.* An old tree with separators that deletes left behind, or one that
  is compact already, cannot be taken apart after publication: the open refuses
  from then on. So it does when the table was altered, or never saved, between
  prepare and publication. Rows written between staging and publication are
  lost: only root and generation are compared. A crash after the staged tree is
  durable and before its manifest is, and a second prepare over a first, lose
  its pages.
- *Catalog.* A save whose write of `.schema` fails has succeeded by its log; a
  later save builds on the short file and truncates that log first.
- *Statements.* A narrow UPDATE or DELETE that fails at a later row inside a
  transaction of the user keeps its earlier changes; a wide one has a savepoint
  and does not. COUNT with an OFFSET or LIMIT 0 gives 0. A lone LIKE on a wide
  table is refused as a syntax error though EXPLAIN plans it.

## 5. Proofs

### The pager

Proved for any number of pages, frames, images, names and savepoints, under
`PagerAssumption` and with no `.checkpoint` inside a transaction
(`"dotckpt" \notin Uses`; finding 1 shows why). In `PagerProofs`:

- `InvariantHolds`: `Spec => []IInv`
- `TypesHold`: `Spec => []TypeOK`
- `DirtyPagesHaveImages`: `Spec => []DirtyHasImage`
- `FreeListIsSound`: `Spec => []FreeListSound`
- `RecoveredFreeListIsSound`: `Spec => []RecoveredFreeListSound`
- `NoPageIsLost`: `Spec => []NoPageLost`
- `OnlyCreateTableLeaks`: `Spec => LeaksOnlyInCreateTable`

In `StoreProofs`:

- `ImagesHold`: `Spec => []ImgInv`
- `PagerImplementsStore`: `Spec => StoreSpec`, the refinement of `TxStore`
- `LogIsRemovedWhenRedundant`: `Spec => LogRemovedWhenRedundant`

**The argument.** `FreeListSound` alone is not inductive: ROLLBACK, ROLLBACK TO
and recovery replace the free list by one from elsewhere. So `IInv` carries the
soundness of every list that may come back:

- `SavedSound`: the lists of BEGIN and of each savepoint are sound for the pages
  they would make the session own again;
- `DurableSound`: while a log exists its list rules and is sound for the
  committed pages; without a log, committed pages lie in the file and *both*
  sidecars are harmless to them whatever length a crash gives the file. A
  sidecar that would only be accepted for another file length has to be harmless
  too, because a crash during a checkpoint leaves any length in between;
- `Ownership`: committed and session pages coincide outside a statement and past
  the commit point, and during CREATE TABLE the session only adds to them;
- `Steps`: what each durable step finds of the ones before it, such as the
  sidecar being published when the log is about to be deleted;
- `Control`: which operation runs at which step;
- `Typed`, `Bounded`: the types, and where the newest image of a dirty page is.
  A typed frame needs the free list to be sound (a page popped from it has to
  exist) and a sound list needs types, so they are proved in one induction.

The lemmas `PushSound`, `PopSound`, `GrowSound`, `EmptyIsSound` and `KeptOfOne`
are the four ways the code changes the stack. Each conjunct then has one lemma
with one step per action or group of actions that can disturb it, and
`NextIInv` puts them together.

**No page is lost.** `LossInv` says of every list that may come back what
`NoPageLost` says of the present one: the pages below its page count are in use,
free, or were lost before. `CrashInv` adds what a crash needs: outside CREATE
TABLE the list that recovery would load accounts for every page. Where the log is
gone it asks the same of `.free` alone, because a crash may tear `.free.wal`, and
it fixes the length of the file from one log to the next, because the length
decides which sidecar is accepted.

**The store.** `ImgInv` says where the image of each page is:

- `CleanPages`: a page in use that is not dirty is read, from whichever of
  frame, shadow and file get_page would take it, as recovery would find it;
- `CommittedThere`, `CommittedPages`: recovery finds every committed page, and
  past the commit point these are what the session reads;
- `TxnOverFile`: a transaction starts over a file with no log and no shadows, so
  ROLLBACK, which drops all frames, finds its pages in the file; a savepoint has
  saved each dirty page, and the file has the others;
- `CheckpointReady`, `WrittenPages`, `ReplayedPages`: what the writes of a
  checkpoint and of a replay leave for the removal of the log that follows;
- `NothingPending`, `FilesTidy`, `RootOwned`: what is empty, and when.

The committed pages of the store are those that recovery would find now, and
that makes a crash the store's crash at every step. There is one lemma per action
(`CommitPoint`, `RollbackToStep`, `FlushStep`, ...), which proves `ImgInv'` and
that the step is a step of the store or invisible to it. Invisible are evictions,
checkpoints and recovery, and their lemmas are the long ones.

### Recovery

`WalRecoveryProofs` proves, for logs of any length, any set of records and any
number of pages, under `RecoveryAssumption` (page counts are numbers, the mark
for no page is not the mark for a hole):

- `RecoveryInvHolds`: `Spec => []RecoveryInv`
- `RecoveryIsExact`: `Spec => []RecoveryIsIdempotent`
- `PublishedListIsTheLogs`: `Spec => []FreeListMatchesLog`
- `PublicationFollowsSync`: `Spec => PublishedAfterSync`
- `ComposedLogIsFaithful`: `Spec => []ComposedLogAgrees`

**The argument.** The properties speak of the end of a recovery, `RecoveryInv`
of its middle: of the records read so far, the newest that concerns a page
decides it (`PagesReplayed`), and so for the length (`LenReplayed`) and the free
list (`ListReplayed`). At the end all records are read (`ReplayedAll`). A crash
in between may leave any page old, new or torn, so nothing that a record decides
can be relied on at the next start; `Tidy` says what can be: pages that no record
decides are the original ones, nothing lies beyond the end of the file, and a
file whose length no record sets is no shorter than the original one and no
longer than a replay makes it: a crash may stop its growth anywhere. The length is
the delicate part: a record without a page count grows the file, one with a
count cuts it, and `Ends` collects the lengths that can result. The one lemma
that takes more than a case split is `ReplayRecordStep`; `LatestExists`, a
bounded set of numbers has a greatest one, rests on the well-foundedness of the
finite subsets.

`ComposedLogIsFaithful` ties this module to `Pager`, which keeps the log as one
composed record. `Composed` is a recursive function; what its value at `n` is
cannot be had by an induction theorem of the library, so `UpTo` derives induction
up to a bound from `LatestExists` (a statement true at 0 that fails somewhere has
a greatest true number before the failure), `CompositionExists` builds
the function up to the length of the log, and `RecordComposed` is the step: one
more record composed decides each page, the length and the list as the records
together do.

### The buffer pool

`BufferPoolProofs` proves, for any finite set of threads and any number of
pages, frames and attempts, under `PoolAssumption` and for all of the actions,
the two that steal included:

- `FramesHoldOnePage`: `Spec => []OneFramePerPage`
- `HandlesAreStable`: `Spec => []HandleStable`
- `PinsAreCounted`: `Spec => []PinsAreOwned`
- `BarrierKeepsPinsOut`: `Spec => []BarrierExcludesPins`
- `LocksProtect`: `Spec => []LocksProtectPages`
- `CloseIsClean`: `Spec => []CloseLeavesNoOwner`

What rests on pins is claimed while `~stolen`: up to the step in which a scan of
SAVEPOINT or COMMIT, or a caller that was refused its page lock, gives back what
is another thread's. The proof thereby shows that these two are the only ones
that can. After it there still is one frame per page and one order of the
frames in use, the admissions are counted, and nobody is in the gap while the
barrier stands or after the close. `CloseLeavesNoOwner` leaves out the thread
between two attempts of a pin: one may be there (section 4).

**The argument.** None of these is inductive alone, and they lean on each other.
A handle is stable because its frame is pinned, which needs pins to be counted;
a load resets the count of its frame, which is right only if nobody owns a frame
that is empty or unpinned, and a hit must be in the one frame that has the page.
A drop of all frames is harmless only because the barrier excludes pins, and
that rests on the count of admissions: a thread between its admission and its
pin owns nothing yet. So `IInv` joins them and adds what they need of the threads:

- `AdmissionsCounted`: `pin_admissions` is the number of threads in that gap;
- `OneRaises`: one thread at a time stands behind the barrier, and only that one
  lowers it;
- `LocksHeld`: a thread inside a lock is recorded in it, nobody else is, and a
  writer is alone.

The proof looks at every action once for each of four questions: which frames it
touches (`FramesStep`: it loads a page, drops unpinned frames, or does neither),
whose pin it takes or gives back (`PinsStep`), who enters or leaves the gap
(`AdmissionsStep`), who raises or lowers the barrier (`BarrierStep`). The
conjuncts then follow from the answers, with no action in sight.
`LocksProtectPages` follows from `IInv`: two handles of one page are stable, so
they name the same frame, whose lock excludes. The unlock by page number looks
the page up afresh and may by its text hit any frame; `NumberUnlockIsOwn` shows that
for a thread inside the lock it is the frame it locked, because the thread's
pin kept the page there and a page is in one frame only. For a thread that was
refused, a frame found pinned is another's, which is the theft.

### The index files

`IndexProofs` proves, for any row ids, values and `MaxEpoch`, under
`IndexAssumption` (a missing epoch file is no number):

- `IndexInvHolds`: `Spec => []IndexInv`
- `UsernameIndexIsComplete`: `Spec => []UsernameIndexComplete`
- `SnapshotsAreComplete`: `Spec => []SnapshotsComplete`

**The argument.** A statement changes memory at once and queues up to ten file
operations, so neither memory nor files alone tell whether an index is right.
`IndexInv` says that the queue leads somewhere: `Leads(disk, todo, e, watch)`,
by way of files each of which is `Good`, to files `e` with which memory
`Agrees`. `Good` is what a crash must find at any point:

- while a catalog, or its log, calls the username file valid (`Trusts`), the
  file and its log show every committed row (`Matching`);
- a snapshot is no newer than the epoch, and one as new as the epoch shows every
  committed row (`SnapshotSafe`).

`Agrees` is what the next statement relies on. Its delicate part is an open
transaction: rows that differ from the committed ones have made the cache and
both snapshots older than the epoch (`TooOld`), which is why a snapshot that
loads in a transaction or after a rollback is right.

There is one lemma for each kind of write that keeps files good
(`CatalogWrite`, `NamesWrite`, `SnapshotWrite`, `EpochWrite`, `RowsWrite`,
`TornWrite`); `LeadsThen` chains them into the sequences of the code, and the
order of those writes is what the lemmas' hypotheses ask for: the catalog
withdraws its trust before the rows are committed and gives it back after the
file is rebuilt, and the epoch is raised before the rows change. Then there is
one lemma per action. `FileStep` and `Crash` are short: they take the next, or
the present, of the good files on the way.

### Schema changes and migration

`MigrationProofs` proves, for any number of tables, rows, pages, columns and
repacks and any size of a staged tree, under `FilesAssumption` (a staged tree
has a page; an absent, torn or short file is no catalog and no manifest):

- `MigrationInvHolds`: `MigrationSpec => []Inv`
- `TablesAreIntact`: `MigrationSpec => []TablesIntact`
- `OpensAreRefusedForCause`: `MigrationSpec => []OpenRefusedForCauseOnly`
- `GenerationsOnlyAdvance`: `MigrationSpec => GenerationsAdvance`
- `PagesAreLostOnlyByDying`: `MigrationSpec => PagesLostOnlyByDying`

**The argument.** `TablesIntact` speaks of the catalog that the next open would
adopt, `Lasting`, which a step may change by renaming nothing and writing no
page: a log that becomes whole commits it, a log that names a root that is gone
does not. So `Inv` follows three things through every step, while `~behind`
(after an I/O error that left a log the process does not know of, the code does
lose rows, section 4, and nothing is claimed):

- `DiskOK`: trees never overlap, and each lies wholly in the free list or wholly
  outside it;
- `FilesInv`: which of the two catalog files may be torn or short, and that a
  log, if there is one, commits;
- `AtRest`: `Lasting` is intact, and each manifest on the disk, the one under
  its name and the one a crash may bring back, is `Decidable` against it: in the
  generation of the manifest the root is the old one and the staged pages are
  nobody's, one generation on the root is one of the two.

A process that runs knows more than the files. `InUse` says it of `Base`, the
catalog in memory without what a save has not settled: it extends `Lasting`, is
intact, keeps the trees of every manifest out of the free list, and the copy of
a prepared repack has the rows of its table until they are overtaken. `SaveInv`,
`WriteLogInv`, `PlanOK` and `MarkInv` are the same for the catalog that a save
is about to make the lasting one. `RunningAtRest` derives `AtRest` from
`InUse`, and with it closing and dying at any of the steps need one short proof
each.

Two operations on the file carry the statements: `PutDisk` and `PutCatalog` say
what happens to trees and catalogs when a tree is written over freshly claimed
pages and over one live tree or none (`Puts`), and `WriteClaimed` that what
`Claims` gives out is such a place. `NextFileIs` shows that the derived file
goes one generation on exactly where an entry changed, which keeps a manifest
decidable (`AdvanceDecidable`). The proof also shows that the loader refuses no
catalog (`LoadRefusedNever`): every refusal comes from a manifest.

`GenerationsAdvance` follows because `Lasting` moves in one way only, to the
plan of a save when its log is whole (`LastingMoves`). For
`PagesLostOnlyByDying` the roots have to be followed: `NamesInv` says that what
memory or a save's fallback names is named by the plan or a manifest, so a step
drops no name (`LastingStaysNamed`, `MemoryStaysNamed`, `PendingStays`), and a
tree put in the place of another accounts for its pages (`PutAccounts`). The
property leaves out the steps taken while a manifest is not durable, because a
second prepare over a first does lose pages there.

### The trees of fixed rows

Proved for any sets of keys and versions and any `MaxCells`,
`MaxKeys` and `MaxPages`, under `BTreeAssumption` (keys and versions are numbers;
a leaf and a node have room for an entry). In `BTreeProofs`:

- `PagesInOrder`: `Spec => []PageInv`
- `BTreeTypeCorrect`: `Spec => []TypeOK`
- `PagesArePartitioned`: `Spec => []PagesPartitioned`
- `VersionIsKept`: `Spec => VersionSurvivesGrowth`

In `BTreeRowsProofs`:

- `RowsInOrder`: `Spec => []RowInv`, and `TreesStayInOrder`: `Spec => []TreesInv`
- `RowsAreReachable`: `Spec => []RowsReachable`
- `HealthyTreesAccepted`: `Spec => []PolicyAcceptsHealthyTree`

**The pages.** That pages are partitioned says nothing of the fields by which
the next statement finds them. A split goes up by `parent` and by the root flag,
an unlink writes the two neighbours that the page names, an emptied child is
removed only because no other child is empty, and a collapse turns an only child
into the root. `PageInv` adds these, of the last commit and of the file that the
running process works on:

- `File`: the page array ends at `num`, and free pages are blank and listed once;
- `Tree`: a root is a leaf without siblings (`RootLeaf`) or a node over distinct
  leaves (`RootInner`, `ChildLeaf`) that are never empty, have the root as parent
  and are `Linked`: links are mutual and follow some strict order. Which order is
  left open, because in a misrouted tree it is not that of the keys;
- `AllPages`: what one tree and the free pages leave over is the other tree;
- what a loop relies on: outside one the file is the commit, VACUUM's cursor is
  on a leaf of the tree, and nothing else has a table while it runs.

An operation on one tree must not disturb the other, and the code has nothing
that separates them but the numbers of pages. `Kept` states the frame: the tree
is in order again, the file has not shrunk, and the pages in `Rest` are the same
ones and untouched. From that alone the other tree stays in order
(`OtherTree`), so each operation is proved on one tree (`KeyInserted`,
`KeyDeleted`) and holds for both (`UsersChanged`, `OtherChanged`). `KeyInserted`
rests on a lemma per place where a key may go, `LeafRewritten`, `RootSplit` and
`InnerSplit`; `KeyDeleted` on `CellDeleted` and `LeafRemoved`. The long ones are
`InnerSplit` and `LeafRemoved`, which
change the order along which the leaves are linked: a new leaf takes the place
after the one it was split from, a removed one is skipped. `SplitExits` shows that a
split which finds the node full ends in `exit`, whatever it wrote before, so
nothing need be known of that file. There is one lemma per action, and
`StepPages` joins them.

`user_version` is the parent field of page zero. It survives because a new root
is written over the old one with its field kept, because page zero is in `Rest`
of the other tree, and because between statements the file is the commit that
VACUUM reads the version from.

**The rows.** A lookup goes by the separators and a scan by the links, and a
statement that follows one of them changes both. `RowInv` says of each table that
is not misrouted, in the process as in the last commit, that they agree
(`Arranged`):

- `Chained`: the links follow the children from left to right, which `PageInv`
  leaves open;
- `Separated`: the i-th separator is at or above every key of the first i leaves
  and below every other. It need not be a key: deletes leave stale ones;
- `Holding`: the leaves are sorted and their keys are the rows;
- in VACUUM, the rows read are those of the leaves left of the cursor
  (`ReadUpTo`), and the rows still to insert are larger than all in the tree
  (`LeftToInsert`), which is why its inserts never split under a stale separator.

The separators are handled apart from the pages, as keys that divide a sequence
of sets (`Apart...`): a key put at its place, a set divided, a set taken out with
the separator on its one side or the other. `SplitArranged`, `OutArranged` and
`CollapseStores` bring these back to trees. The delicate step is
`ParentRejoined`: `update_internal_node_key` finds the separator of a leaf that
splits only if it is the leaf's largest key, and `internal_node_insert` files the
new half by its own. When the separator is found, or the leaf is the last, the
halves end up side by side; when not, the table becomes misrouted (finding 4) and
`RowInv` claims no more of it. Then there is one lemma per action, and `StepRows`
joins them.

`RowsAreReachable` and `HealthyTreesAccepted` are about every state: `SearchEnds`
says where `Below` ends, and `WalkGathers` what a cursor has collected after m
leaves. `Walk` is a recursive function of a number; `UpTo`, induction up to a
bound derived from the cardinality of an interval, gives its value.

### Only model-checked

- The properties of `TreeV2`: `TypeOK`, `PagesPartitioned`, `SeparatorsExact`,
  `RowsReachable`, `RefusedForCauseOnly`. Its searches climb and descend by
  functions recursive over pages, through any number of levels, so every step of
  a proof would be an induction over the height of a tree.
- The properties of the statements: `RoutesAgree`, over folds of what the
  branches of a condition return, `StatementAllOrNothing` and
  `DurableByWholeSteps`.
- The liveness properties `PinAnswers` and `BarrierLifted`: liveness and ENABLED
  are beyond this prover.

Induction over data is too, because the induction theorems of the library take an
operator as a parameter. `Composed` and `Walk` are recursive functions of one
number, for which `UpTo` is enough.

## 6. Not modelled, and why

- A brand-new database file, for the pager: `Init` is a formatted root that was
  closed cleanly. `Migration` does start from a new database.
- Errors of the C library: in the pager, the trees and the index files every one
  exits the process, a crash at that step. In the catalog and the manifest they
  return, and are modelled.
- Bytes: checksums are "the page stored here matches or does not", a log record
  is acceptable or not, a file decodes, is torn or is too short. So too the slot
  directory of a leaf, the row encodings, the format of catalog and manifest.
- A file whose length is no multiple of the page size (`pager.c:696`).
- Binary search in separators that are out of order, which occurs in a misrouted
  tree only: `Below` counts the smaller ones. What is proved of such a tree uses
  no more than that the search returns one of the children.
- Trees that mix fixed and slotted leaves, and the narrow carrier path
  `record_insert_v2_*`.
- How a staged tree is laid out level by level: `Migration` claims its pages.
- Views, DROP TABLE, and the retirement of page zero in the catalog.
- Statistics and correlation files: a route may be chosen or not, whatever they
  say. The wrap-around of an epoch and its seed from the clock.
- Text: parsing, EXPLAIN, output, diagnostics, profiling, joins and row loops of
  the first table in `vm.c`. They keep no state that outlives a statement.
- Sources that the build leaves out (`generic_index_anchor_sql.c`,
  `generic_index_range_sql.c`) and routes that an earlier one always shadows
  (`generic_index_sql.c`, `generic_range_mutation_sql.c`).
- VACUUM INTO, which writes a second file by the calls modelled here.

## 7. Plan

What would come next, in this order:

1. `StatementAllOrNothing` of `GenericSql`, for any rows and columns.
2. The staging of a repack level by level, over `TreeV2`.
3. DROP TABLE and views in the catalog; VACUUM INTO.
4. Trees in which fixed and slotted leaves meet, and the narrow carrier path.
5. Epochs that wrap around, and statistics as a bound on the work of a route.

Modules that belong together share a run, so that the suite stays quick to repeat.
