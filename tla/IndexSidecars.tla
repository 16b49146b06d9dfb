--------------------------- MODULE IndexSidecars ---------------------------
(***************************************************************************)
(* The indexes of tinydb live beside the database file, not in its pages.  *)
(* The indexes of the first table (users) are rebuilt when a dirty flag    *)
(* says so, and the username one is kept in a file the index catalog calls *)
(* valid or not.  An index of any other table is a snapshot stamped with   *)
(* an epoch, a counter in a file of its own that is raised before the rows *)
(* change.  This module composes both with the statements, transactions,   *)
(* crashes and restarts that can make an index disagree with the rows.     *)
(*                                                                         *)
(* What a table holds, and what an index says it holds, is a function from *)
(* row ids to the indexed value.  Memory changes at once when a statement  *)
(* runs; its file operations are queued in todo and reach the disk one by  *)
(* one, so that a crash can come between any two of them.                  *)
(***************************************************************************)
EXTENDS Naturals, Sequences

CONSTANTS
    RowId,      \* row ids
    Value,      \* values of the indexed column
    None,       \* no row, no savepoint, no index
    Absent,     \* a file that does not exist
    Torn,       \* a file whose last write was cut short
    MaxEpoch    \* bound: no more row changes than this with an index enabled

ASSUME IndexAssumption == Absent \notin Nat

VARIABLES
    rows,           \* rows of each table, as the session sees them
    savepoint,      \* rows at SAVEPOINT, or None
    inTransaction,  \* Table.in_transaction
    names,          \* the username index of users: enabled, dirty, entries
    sec,            \* the name of the secondary index of users, or None: its entries
                    \* are built at its creation and at open, and not again
    wide,           \* the index of the other table: enabled, and the cache of
                    \* the equality route (epoch, dirty, entries)
    disk,           \* the files
    todo,           \* file operations of the running statement, in order
    up,             \* the process runs
    watch           \* history: "never" had the other table an index, or it has
                    \* been "kept", or rows changed "unseen" while it was dropped

vars == <<rows, savepoint, inTransaction, names, sec, wide, disk, todo, up, watch>>
memory == <<rows, savepoint, inTransaction, names, sec, wide>>

Table == {"users", "other"}
Content == [RowId -> Value \cup {None}]
Empty == [i \in RowId |-> None]

(* The files: the committed rows, the index catalog and the username index *)
(* with their logs, the epoch, and the two snapshots of the other table.   *)
File == {"rows", "catalog", "catalogWal", "names", "namesWal", "epoch", "eq", "range"}

\* Written in place, so a crash can leave half of one.  The rows are committed
\* through the pager's log; the epoch and the range snapshot are renamed into place.
InPlace == {"catalog", "catalogWal", "names", "namesWal", "eq"}

Catalog == [names : BOOLEAN, valid : BOOLEAN, sec : {None, "username", "email"},
            wide : BOOLEAN]
Readable(f) == f \notin {Absent, Torn}
WriteFile(f, c) == <<[file |-> f, content |-> c]>>
Remove(f) == WriteFile(f, Absent)

NoCache == [epoch |-> None, dirty |-> TRUE, entries |-> Empty]
NoNames == [enabled |-> FALSE, dirty |-> FALSE, entries |-> Empty]
NoWide == [enabled |-> FALSE, cache |-> NoCache]

-----------------------------------------------------------------------------
(* The indexes of users. *)

SaveCatalog(nm, sc, wd, valid) ==
    LET c == [names |-> nm.enabled, valid |-> valid, sec |-> sc, wide |-> wd.enabled]
    IN  WriteFile("catalogWal", c) \o WriteFile("catalog", c) \o Remove("catalogWal")

PersistNames(content) ==
    WriteFile("namesWal", content) \o WriteFile("names", content) \o Remove("namesWal")

MarkDirty(nm) == [nm EXCEPT !.dirty = nm.dirty \/ nm.enabled]

\* Inside a transaction the entries are rebuilt but stay dirty and unsaved.
EnsureNames(nm, content, inTx) ==
    IF nm.enabled /\ nm.dirty
    THEN [nm EXCEPT !.entries = content, !.dirty = inTx]
    ELSE nm

EnsureNamesFiles(nm, sc, wd, content, inTx) ==
    IF nm.enabled /\ nm.dirty /\ ~inTx
    THEN PersistNames(content) \o SaveCatalog(nm, sc, wd, TRUE)
    ELSE <<>>

\* Fault: the catalog goes on calling the file valid while the rows are committed.
FaultPrepareCommit(nm) == <<>>

PrepareCommit(nm) ==
    IF nm.enabled /\ nm.dirty THEN SaveCatalog(nm, sec, wide, FALSE) ELSE <<>>

FinalizeCommit(nm, content) == EnsureNamesFiles(nm, sec, wide, content, FALSE)

(* commit_table_changes: the catalog calls the username file invalid, the  *)
(* rows are committed, the file is rebuilt and called valid again.         *)
CommitTableChanges(nm, content) ==
    /\ names' = EnsureNames(nm, content.users, FALSE)
    /\ todo' = PrepareCommit(nm) \o WriteFile("rows", content)
                 \o FinalizeCommit(nm, content.users)

-----------------------------------------------------------------------------
(* The epoch and the snapshots of the other table. *)

FreshSeed == 0

\* Reading the epoch when there is none drops the range snapshot and starts anew.
CurrentEpoch == IF disk.epoch = Absent THEN FreshSeed ELSE disk.epoch
CurrentEpochFiles ==
    IF disk.epoch = Absent THEN Remove("range") \o WriteFile("epoch", FreshSeed) ELSE <<>>

EpochBeforeMutation ==
    IF ~wide.enabled THEN <<>>
    ELSE (IF disk.epoch = Absent THEN Remove("range") ELSE <<>>)
           \o WriteFile("epoch", CurrentEpoch + 1)

LoadsSnapshot(f) ==
    /\ ~inTransaction
    /\ Readable(disk[f])
    /\ disk[f].epoch = CurrentEpoch

Snapshot(content) == [epoch |-> CurrentEpoch, entries |-> content]

StaleCache(c) == c.dirty \/ c.epoch # CurrentEpoch

\* The equality route keeps its snapshot in memory between statements.
\* Fault: a cache built inside a transaction counts as clean.
FaultEnsureCache(c) ==
    IF ~StaleCache(c) THEN c
    ELSE [epoch |-> CurrentEpoch, dirty |-> FALSE, entries |-> rows.other]

EnsureCache(c) ==
    IF ~StaleCache(c) THEN c
    ELSE IF LoadsSnapshot("eq")
    THEN [epoch |-> CurrentEpoch, dirty |-> FALSE, entries |-> disk.eq.entries]
    ELSE [epoch |-> CurrentEpoch, dirty |-> inTransaction, entries |-> rows.other]

EnsureCacheFiles(c) ==
    IF StaleCache(c) /\ ~LoadsSnapshot("eq") /\ ~inTransaction
    THEN WriteFile("eq", Snapshot(rows.other))
    ELSE <<>>

\* The range route reads its snapshot from the file for every statement.
RangeEntries == IF LoadsSnapshot("range") THEN disk.range.entries ELSE rows.other
RangeFiles ==
    IF LoadsSnapshot("range") \/ inTransaction
    THEN <<>>
    ELSE WriteFile("range", Snapshot(rows.other))

-----------------------------------------------------------------------------
(* Statements.  One runs at a time, when the last one has finished.        *)

Ready == up /\ todo = <<>>

Inserted(content) ==
    {[content EXCEPT ![i] = v] : i \in {j \in RowId : content[j] = None}, v \in Value}
Updated(content) ==
    {[content EXCEPT ![i] = v] : i \in {j \in RowId : content[j] # None}, v \in Value}
Deleted(content) ==
    {[content EXCEPT ![i] = None] : i \in {j \in RowId : content[j] # None}}

WriteUsers(contents) ==
    /\ Ready
    /\ \E c \in contents :
        LET new == [rows EXCEPT !.users = c]
        IN  /\ rows' = new
            /\ IF inTransaction
               THEN names' = MarkDirty(names) /\ UNCHANGED todo
               ELSE CommitTableChanges(MarkDirty(names), new)
    /\ UNCHANGED <<savepoint, inTransaction, sec, wide, disk, up, watch>>

InsertUser == WriteUsers(Inserted(rows.users))
UpdateUser == WriteUsers(Updated(rows.users))
DeleteUser == WriteUsers(Deleted(rows.users))
DeleteAllUsers == WriteUsers({Empty})

BelowMaxEpoch == wide.enabled => CurrentEpoch < MaxEpoch

\* The epoch is raised on disk before the row changes in memory.
WriteOther(contents) ==
    /\ Ready /\ BelowMaxEpoch
    /\ \E c \in contents :
        LET new == [rows EXCEPT !.other = c]
        IN  /\ rows' = new
            /\ todo' = EpochBeforeMutation
                         \o IF inTransaction THEN <<>> ELSE WriteFile("rows", new)
    /\ watch' = IF watch = "kept" /\ ~wide.enabled THEN "unseen" ELSE watch
    /\ UNCHANGED <<savepoint, inTransaction, names, sec, wide, disk, up>>

InsertOther == WriteOther(Inserted(rows.other))
UpdateOther == WriteOther(Updated(rows.other))
DeleteOther == WriteOther(Deleted(rows.other))

\* The key is taken or missing, or the page has no room: the epoch is raised already.
FailOther ==
    /\ Ready /\ BelowMaxEpoch
    /\ todo' = EpochBeforeMutation
    /\ UNCHANGED <<memory, disk, up, watch>>

Begin ==
    /\ Ready /\ ~inTransaction
    /\ inTransaction' = TRUE
    /\ UNCHANGED <<rows, savepoint, names, sec, wide, disk, todo, up, watch>>

Commit ==
    /\ Ready /\ inTransaction
    /\ inTransaction' = FALSE /\ savepoint' = None
    /\ CommitTableChanges(names, rows)
    /\ UNCHANGED <<rows, sec, wide, disk, up, watch>>

Rollback ==
    /\ Ready /\ inTransaction
    /\ rows' = disk.rows
    /\ names' = MarkDirty(names)
    /\ inTransaction' = FALSE /\ savepoint' = None
    /\ UNCHANGED <<sec, wide, disk, todo, up, watch>>

Savepoint ==
    /\ Ready /\ inTransaction
    /\ savepoint' = rows
    /\ UNCHANGED <<rows, inTransaction, names, sec, wide, disk, todo, up, watch>>

RollbackTo ==
    /\ Ready /\ inTransaction /\ savepoint # None
    /\ rows' = savepoint
    /\ names' = MarkDirty(names)
    /\ UNCHANGED <<savepoint, inTransaction, sec, wide, disk, todo, up, watch>>

Checkpoint ==
    /\ Ready /\ ~inTransaction
    /\ names' = EnsureNames(names, rows.users, FALSE)
    /\ todo' = PrepareCommit(names) \o FinalizeCommit(names, rows.users)
    /\ UNCHANGED <<rows, savepoint, inTransaction, sec, wide, disk, up, watch>>

(* A lookup by username takes the secondary index of that column if there  *)
(* is one, and the username index if not.                                  *)
LookupUsername ==
    /\ Ready /\ sec # "username" /\ names.enabled
    /\ names' = EnsureNames(names, rows.users, inTransaction)
    /\ todo' = EnsureNamesFiles(names, sec, wide, rows.users, inTransaction)
    /\ UNCHANGED <<rows, savepoint, inTransaction, sec, wide, disk, up, watch>>

LookupSec ==
    /\ Ready /\ sec # None
    /\ names' = EnsureNames(names, rows.users, inTransaction)
    /\ todo' = EnsureNamesFiles(names, sec, wide, rows.users, inTransaction)
    /\ UNCHANGED <<rows, savepoint, inTransaction, sec, wide, disk, up, watch>>

LookupEqual ==
    /\ Ready /\ wide.enabled
    /\ wide' = [wide EXCEPT !.cache = EnsureCache(wide.cache)]
    /\ todo' = CurrentEpochFiles \o EnsureCacheFiles(wide.cache)
    /\ UNCHANGED <<rows, savepoint, inTransaction, names, sec, disk, up, watch>>

LookupRange ==
    /\ Ready /\ wide.enabled
    /\ todo' = CurrentEpochFiles \o RangeFiles
    /\ UNCHANGED <<memory, disk, up, watch>>

-----------------------------------------------------------------------------
(* CREATE INDEX and DROP INDEX; both are refused inside a transaction.     *)

CreateIndex(nm, sc, wd) ==
    /\ Ready /\ ~inTransaction
    /\ names' = EnsureNames(nm, rows.users, FALSE)
    /\ sec' = sc
    /\ wide' = wd
    /\ todo' = EnsureNamesFiles(nm, sc, wd, rows.users, FALSE) \o SaveCatalog(nm, sc, wd, TRUE)
    /\ UNCHANGED <<rows, savepoint, inTransaction, disk, up>>

\* idx_users_username makes a username index and a secondary index of its name.
CreateUsersIndex ==
    /\ sec = None
    /\ UNCHANGED watch
    /\ \/ CreateIndex([names EXCEPT !.enabled = TRUE, !.dirty = TRUE], "username", wide)
       \/ CreateIndex(names, "email", wide)

CreateOtherIndex ==
    /\ ~wide.enabled
    /\ watch' = IF watch = "never" THEN "kept" ELSE watch
    /\ CreateIndex(names, sec, [wide EXCEPT !.enabled = TRUE])

DropNamesFiles(wd) ==
    Remove("names") \o Remove("namesWal") \o SaveCatalog(NoNames, None, wd, FALSE)

DropUsersIndex ==
    /\ Ready /\ ~inTransaction
    /\ \/ /\ sec = "username"
          /\ names' = NoNames
          /\ todo' = DropNamesFiles(wide) \o SaveCatalog(NoNames, None, wide, FALSE)
       \/ /\ sec = "email"
          /\ todo' = SaveCatalog(names, None, wide, FALSE)
          /\ UNCHANGED names
       \/ /\ sec = None /\ names.enabled
          /\ names' = NoNames
          /\ todo' = DropNamesFiles(wide)
    /\ sec' = None
    /\ UNCHANGED <<rows, savepoint, inTransaction, wide, disk, up, watch>>

\* The cache of the equality route is left as it was.
DropOtherIndex ==
    /\ Ready /\ ~inTransaction /\ wide.enabled
    /\ wide' = [wide EXCEPT !.enabled = FALSE]
    /\ todo' = Remove("eq") \o SaveCatalog(names, sec, wide', FALSE) \o Remove("range")
    /\ UNCHANGED <<rows, savepoint, inTransaction, names, sec, disk, up, watch>>

-----------------------------------------------------------------------------
(* Files, crashes and restarts. *)

FileStep ==
    /\ up /\ todo # <<>>
    /\ disk' = [disk EXCEPT ![Head(todo).file] = Head(todo).content]
    /\ todo' = Tail(todo)
    /\ UNCHANGED <<memory, up, watch>>

Forget ==
    /\ rows' = disk.rows /\ savepoint' = None /\ inTransaction' = FALSE
    /\ names' = NoNames /\ sec' = None /\ wide' = NoWide
    /\ up' = FALSE

Close ==
    /\ Ready
    /\ Forget
    /\ UNCHANGED <<disk, todo, watch>>

TornWrites ==
    {f \in InPlace : todo # <<>> /\ Head(todo).file = f /\ Head(todo).content # Absent}

Crash ==
    /\ up
    /\ Forget
    /\ todo' = <<>>
    /\ \/ UNCHANGED disk
       \/ \E f \in TornWrites : disk' = [disk EXCEPT ![f] = Torn]
    /\ UNCHANGED watch

\* A complete log replaces its file; an incomplete one is ignored.
Recovered(wal, file) == IF Readable(wal) THEN wal ELSE file
RecoverFiles(wal, file) ==
    IF disk[wal] = Absent THEN <<>>
    ELSE (IF Readable(disk[wal]) THEN WriteFile(file, disk[wal]) ELSE <<>>) \o Remove(wal)

LoadedNames(cat, file) ==
    IF ~cat.names THEN NoNames
    ELSE IF cat.valid /\ Readable(file)
    THEN [enabled |-> TRUE, dirty |-> FALSE, entries |-> file]
    ELSE [enabled |-> TRUE, dirty |-> TRUE, entries |-> Empty]

RecoveredCatalog ==
    LET c == Recovered(disk.catalogWal, disk.catalog)
    IN  IF Readable(c) THEN c
        ELSE [names |-> FALSE, valid |-> FALSE, sec |-> None, wide |-> FALSE]
RecoveredNames == LoadedNames(RecoveredCatalog, Recovered(disk.namesWal, disk.names))

Open ==
    /\ ~up
    /\ up' = TRUE
    /\ names' = RecoveredNames
    /\ sec' = RecoveredCatalog.sec
    /\ wide' = [NoWide EXCEPT !.enabled = RecoveredCatalog.wide]
    /\ todo' = RecoverFiles("namesWal", "names") \o RecoverFiles("catalogWal", "catalog")
    /\ UNCHANGED <<rows, savepoint, inTransaction, disk, watch>>

-----------------------------------------------------------------------------
(* An older database may have a username index and no secondary index; its *)
(* file may hold anything if the catalog does not call it valid.           *)

FreshDisk ==
    [f \in File |-> IF f = "rows" THEN [t \in Table |-> Empty] ELSE Absent]
OlderCatalog == [names |-> TRUE, valid |-> FALSE, sec |-> None, wide |-> FALSE]

Init ==
    /\ disk \in {FreshDisk, [FreshDisk EXCEPT !.catalog = OlderCatalog]}
    /\ rows = disk.rows /\ savepoint = None /\ inTransaction = FALSE
    /\ names = NoNames /\ sec = None /\ wide = NoWide
    /\ todo = <<>> /\ up = FALSE /\ watch = "never"

Statement ==
    \/ InsertUser \/ UpdateUser \/ DeleteUser \/ DeleteAllUsers
    \/ InsertOther \/ UpdateOther \/ DeleteOther \/ FailOther
    \/ Begin \/ Commit \/ Rollback \/ Savepoint \/ RollbackTo
    \/ Checkpoint \/ LookupUsername \/ LookupSec \/ LookupEqual \/ LookupRange
    \/ CreateUsersIndex \/ CreateOtherIndex \/ DropUsersIndex \/ DropOtherIndex
Next == Statement \/ FileStep \/ Close \/ Crash \/ Open

Spec == Init /\ [][Next]_vars

-----------------------------------------------------------------------------
(* Properties. *)

\* An index that does not show some row as it is: candidates are checked against
\* their rows, so too many do no harm, but a row without one is not found.
Misses(entries, content) == \E i \in RowId : content[i] # None /\ entries[i] # content[i]

(* The username index, `names`, misses no row, now and after a crash at    *)
(* any moment: what the catalog would call valid is the index of what the  *)
(* database would hold (vm.c commit_table_changes, table.c recovery).  A   *)
(* lookup that finds a column index on username goes through that one      *)
(* instead, whose entries are not kept up to date.                         *)
UsernameIndexComplete ==
    /\ up /\ names.enabled /\ ~names.dirty => ~Misses(names.entries, rows.users)
    /\ RecoveredNames.enabled /\ ~RecoveredNames.dirty
         => ~Misses(RecoveredNames.entries, disk.rows.users)

(* Lookups by equality and by range on another table find every row, in    *)
(* and out of a transaction, after rollbacks and crashes, as long as no    *)
(* row changed while the index was dropped (generic_index_epoch.c).        *)
SnapshotsComplete ==
    Ready /\ wide.enabled /\ watch = "kept"
        => /\ ~Misses(EnsureCache(wide.cache).entries, rows.other)
           /\ ~Misses(RangeEntries, rows.other)
=============================================================================
