------------------------------- MODULE Pager -------------------------------
(***************************************************************************)
(* The pager: buffer frames, no-steal spills, committed shadows, the free  *)
(* page stack, the write-ahead log, the free-list sidecars, transactions   *)
(* and savepoints, and what a crash leaves of them.                        *)
(*                                                                         *)
(* One client drives it, as the executor does: statements change pages     *)
(* with Claim, Write, Free and Truncate, either between BEGIN and COMMIT   *)
(* or as an autocommit statement; CREATE TABLE claims a root page,         *)
(* checkpoints, then saves the catalog.  The multi-step operations (commit,*)
(* checkpoint, recovery) advance `pc` one durable step at a time, and      *)
(* Crash may strike between any two of them.                               *)
(*                                                                         *)
(* Page images are data values.  Files are functions on Page with `Hole`   *)
(* where no page with a matching checksum is stored; `None` means "no such *)
(* copy" and `Blank` is a frame nobody has written (memset 0).             *)
(***************************************************************************)
EXTENDS WalLog, FiniteSets

CONSTANTS
    Datum,          \* page images the client writes
    Name,           \* savepoint names
    PoolSize,       \* MAX_BUFFER_POOL_SIZE
    MaxSavepoints,  \* MAX_SAVEPOINTS
    Uses,           \* what the client and the world do, out of Feature
    Blank           \* a frame nobody has written yet (memset 0)

\* "dotckpt" is the .checkpoint command typed inside a transaction.
Feature == {"read", "autocommit", "begin", "truncate", "ddl", "crash",
            "close", "dotckpt"}

ASSUME PagerAssumption ==
    /\ MaxPages \in Nat \ {0}
    /\ PoolSize \in Nat \ {0}
    /\ MaxSavepoints \in Nat
    /\ Uses \subseteq Feature
    /\ {None, Hole, Blank} \cap Datum = {}
    /\ None # Hole /\ None # Blank /\ Hole # Blank

VARIABLES
    \* durable
    file,        \* image of each page in the database file
    fileLen,     \* its length in pages
    wal,         \* the log's complete records, composed in replay order
    freeFile,    \* the .free sidecar
    freeWal,     \* the .free.wal sidecar
    \* volatile
    numPages,    \* pager->num_pages
    cache,       \* page_table and frames: image of each cached page
    dirty,       \* is_dirty
    spills,      \* dirty_page_spills
    shadows,     \* committed_pages
    freePages,   \* free_pages[0 .. free_page_count-1], top of stack last
    inTxn,       \* in_transaction
    txn,         \* transaction_file_length, _num_pages, _free_pages
    savepoints,  \* savepoints[0 .. savepoint_count-1]
    held,        \* overlap_images of the ordered checkpoint
    \* control
    pc,          \* durable step the running operation is about to take
    task,        \* the operation that is running
    stmt,        \* autocommit statement in progress
    \* ownership: which pages the trees and the catalog reach
    owned,       \* as the running session sees them
    cowned,      \* as the committed pages and the saved catalog record them
    leaked       \* pages in use by nobody and not in the free list either

durableVars == <<file, fileLen, wal, freeFile, freeWal>>
frameVars   == <<cache, dirty, spills, shadows>>
txnVars     == <<inTxn, txn, savepoints>>
controlVars == <<pc, task, stmt, held>>
ownVars     == <<owned, cowned, leaked>>
vars == <<durableVars, numPages, frameVars, freePages, txnVars, controlVars,
          ownVars>>

Image == Datum \cup {Blank}
NoTxn == [num |-> 0, len |-> 0, free |-> <<>>, owned |-> {}]
Absent == [state |-> "absent", num |-> 0, free |-> <<>>]
Torn == [state |-> "torn", num |-> 0, free |-> <<>>]
Snapshot(n, f) == [state |-> "valid", num |-> n, free |-> f]

----------------------------------------------------------------------------
(* Reading *)

\* Does get_page find an image for p, or does it reach a page of the file
\* whose checksum does not match and exit?
Readable(p) ==
    \/ cache[p] # None
    \/ p \in dirty /\ spills[p] # None
    \/ shadows[p] # None
    \/ p >= fileLen
    \/ file[p] # Hole

\* The image get_page returns: frame, else spill, else shadow, else file.
View(p) ==
    IF cache[p] # None THEN cache[p]
    ELSE IF p \in dirty /\ spills[p] # None THEN spills[p]
    ELSE IF shadows[p] # None THEN shadows[p]
    ELSE IF p < fileLen THEN file[p]
    ELSE Blank

\* Fault: a dirty victim leaves its frame without a spill.
LoadWithoutSpill(p, d) ==
    /\ \E V \in IF Cardinality({q \in Page : cache[q] # None} \cup {p}) > PoolSize
                THEN {{q} : q \in {r \in Page : cache[r] # None}} ELSE {{}} :
          cache' = [q \in Page |-> IF q = p THEN d
                                  ELSE IF q \in V THEN None ELSE cache[q]]
    /\ UNCHANGED spills

\* Frames and spills once p sits in a frame with image d: when the pool is
\* full an unpinned victim leaves first, and goes to its spill if dirty.
Load(p, d) ==
    LET cached == {q \in Page : cache[q] # None}
        full == p \notin cached /\ Cardinality(cached) >= PoolSize
        victims == IF full THEN {{q} : q \in cached} ELSE {{}}
    IN  \E V \in victims :
            /\ cache' = [q \in Page |-> IF q = p THEN d
                                        ELSE IF q \in V THEN None
                                        ELSE cache[q]]
            /\ spills' = [q \in Page |-> IF q \in V \cap dirty THEN cache[q]
                                         ELSE spills[q]]

Running == pc = "idle"

\* Any get_page of an existing page: scans, SAVEPOINT and integrity checks.
Fetch(p) ==
    /\ "read" \in Uses
    /\ Running /\ stmt # "ddl"
    /\ p < numPages
    /\ cache[p] = None
    /\ Readable(p)
    /\ Load(p, View(p))
    /\ UNCHANGED <<durableVars, numPages, dirty, shadows, freePages, txnVars,
                   controlVars, ownVars>>

----------------------------------------------------------------------------
(* Statements *)

MayChange ==
    /\ Running /\ stmt # "ddl"
    /\ inTxn \/ "autocommit" \in Uses

\* A change outside a transaction is an autocommit statement under way.
Touch == stmt' = IF inTxn THEN stmt ELSE "dml"

\* get_unused_page_num: the top of the free stack, else the page after the
\* last one.
Unused == IF freePages # <<>> THEN freePages[Len(freePages)] ELSE numPages

\* Faults: the page handed out is not the one taken off the stack; or none is.
PopWrongEnd == IF freePages # <<>> THEN Tail(freePages) ELSE freePages
PopNothing == freePages

PopFree == IF freePages # <<>> THEN SubSeq(freePages, 1, Len(freePages) - 1)
           ELSE freePages

Acquire(d) ==
    /\ Unused < MaxPages
    /\ Readable(Unused)
    /\ Load(Unused, d)
    /\ dirty' = dirty \cup {Unused}
    /\ freePages' = PopFree
    /\ numPages' = IF Unused >= numPages THEN Unused + 1 ELSE numPages
    /\ owned' = owned \cup {Unused}

Claim(d) ==
    /\ MayChange
    /\ Acquire(d)
    /\ Touch
    /\ UNCHANGED <<durableVars, shadows, txnVars, pc, task, held, cowned,
                   leaked>>

Write(p, d) ==
    /\ MayChange
    /\ p \in owned
    /\ View(p) # d
    /\ Load(p, d)
    /\ dirty' = dirty \cup {p}
    /\ Touch
    /\ UNCHANGED <<durableVars, numPages, shadows, freePages, txnVars, pc,
                   task, held, ownVars>>

\* pager_free_page: the frame and the spill go, the shadow stays.
Free(p) ==
    /\ MayChange
    /\ p \in owned \ {0}
    /\ cache' = [cache EXCEPT ![p] = None]
    /\ spills' = [spills EXCEPT ![p] = None]
    /\ dirty' = dirty \ {p}
    /\ freePages' = Append(freePages, p)
    /\ owned' = owned \ {p}
    /\ Touch
    /\ UNCHANGED <<durableVars, numPages, shadows, txnVars, pc, task, held,
                   cowned, leaked>>

\* Fault: the pages cut off stay in the free list.
KeptAll(n) == freePages

\* The free pages below n, in their order: the k-th is the one whose place
\* among the kept ones is k.
Kept(n) ==
    LET keep == {i \in DOMAIN freePages : freePages[i] < n}
        place(i) == Cardinality({j \in keep : j <= i})
    IN  [k \in 1 .. Cardinality(keep) |->
           freePages[CHOOSE i \in keep : place(i) = k]]

\* pager_shrink(n).
Shrunk(n) ==
    /\ numPages' = n
    /\ freePages' = Kept(n)
    /\ shadows' = [q \in Page |-> IF q < n THEN shadows[q] ELSE None]
    /\ owned' = owned \cap Below(n)

\* table_truncate: drop every page but the root, rewrite the root.
Truncate(d) ==
    /\ "truncate" \in Uses
    /\ MayChange
    /\ numPages > 1
    /\ Readable(0)
    /\ Shrunk(1)
    /\ cache' = [Nothing EXCEPT ![0] = d]
    /\ spills' = [Nothing EXCEPT ![0] = spills[0]]
    /\ dirty' = {0}
    /\ Touch
    /\ UNCHANGED <<durableVars, txnVars, pc, task, held, cowned, leaked>>

\* CREATE TABLE: table_create_table formats a root page that no WAL record
\* will describe; the engine checkpoints it before it saves the catalog.
CreateTable(d) ==
    /\ "ddl" \in Uses
    /\ Running /\ stmt = "none" /\ ~inTxn
    /\ Acquire(d)
    /\ stmt' = "ddl"
    /\ UNCHANGED <<durableVars, shadows, txnVars, pc, task, held, cowned,
                   leaked>>

----------------------------------------------------------------------------
(* Savepoints and rollback *)

\* Reads every page below num_pages: all of them must be readable.
Savepoint(n) ==
    /\ Running /\ inTxn
    /\ Len(savepoints) < MaxSavepoints
    /\ \A p \in Below(numPages) : Readable(p)
    /\ savepoints' = Append(savepoints,
           [name |-> n, num |-> numPages, free |-> freePages, dirty |-> dirty,
            img |-> [p \in Page |-> IF p < numPages THEN View(p) ELSE None],
            owned |-> owned])
    /\ UNCHANGED <<durableVars, numPages, frameVars, freePages, inTxn, txn,
                   controlVars, ownVars>>

Newest(n, i) ==
    /\ i \in DOMAIN savepoints
    /\ savepoints[i].name = n
    /\ \A j \in DOMAIN savepoints : j > i => savepoints[j].name # n

\* With the frames dropped, get_page must still find every page it refills.
Refillable(num) ==
    \A p \in Below(num) : shadows[p] # None \/ p >= fileLen \/ file[p] # Hole

\* The dirty pages of the snapshot come back as spills and the clean ones
\* read as they did: which of them sit in frames afterwards is up to Fetch.
RollbackTo(n) ==
    /\ Running /\ inTxn
    /\ \E i \in DOMAIN savepoints :
        LET sp == savepoints[i] IN
        /\ Newest(n, i)
        /\ Refillable(sp.num)
        /\ cache' = Nothing
        /\ dirty' = sp.dirty
        /\ spills' = [p \in Page |-> IF p \in sp.dirty THEN sp.img[p]
                                     ELSE None]
        /\ numPages' = sp.num
        /\ freePages' = sp.free
        /\ owned' = sp.owned
        /\ savepoints' = SubSeq(savepoints, 1, i)
    /\ UNCHANGED <<durableVars, shadows, inTxn, txn, controlVars, cowned,
                   leaked>>

Release(n) ==
    /\ Running /\ inTxn
    /\ \E i \in DOMAIN savepoints :
        /\ Newest(n, i)
        /\ savepoints' = SubSeq(savepoints, 1, i - 1)
    /\ UNCHANGED <<durableVars, numPages, frameVars, freePages, inTxn, txn,
                   controlVars, ownVars>>

\* pager_rollback; the shadows stay, BEGIN emptied them.
Rollback ==
    /\ Running /\ inTxn
    /\ cache' = Nothing
    /\ spills' = Nothing
    /\ dirty' = {}
    /\ numPages' = txn.num
    /\ freePages' = txn.free
    /\ owned' = txn.owned
    /\ fileLen' = txn.len
    /\ file' = [p \in Page |-> IF p < txn.len THEN file[p] ELSE Hole]
    /\ inTxn' = FALSE
    /\ txn' = NoTxn
    /\ savepoints' = <<>>
    /\ UNCHANGED <<wal, freeFile, freeWal, shadows, controlVars, cowned,
                   leaked>>

----------------------------------------------------------------------------
(* COMMIT *)

\* The record pager_commit appends: every dirty page below num_pages.
CommitImages ==
    [p \in Page |-> IF p \in dirty /\ p < numPages THEN View(p) ELSE None]

\* Fault: the record carries the free list that BEGIN saved.
CommitLogOldFreeList ==
    Logged(wal, numPages, CommitImages, IF inTxn THEN txn.free ELSE freePages)

CommitLog == Logged(wal, numPages, CommitImages, freePages)

\* An invalid free list makes pager_commit exit instead.
StartCommit ==
    /\ Running
    /\ inTxn \/ stmt = "dml"
    /\ ValidFreeList(numPages, freePages)
    /\ pc' = "append"
    /\ task' = "commit"
    /\ UNCHANGED <<durableVars, numPages, frameVars, freePages, txnVars,
                   stmt, held, ownVars>>

\* The fsync of the record is the commit point.
SyncLog ==
    /\ pc = "append"
    /\ wal' = CommitLog
    /\ shadows' = [p \in Page |-> IF CommitImages[p] # None
                                  THEN CommitImages[p] ELSE shadows[p]]
    /\ cowned' = owned
    /\ pc' = "free1"
    /\ UNCHANGED <<file, fileLen, freeFile, freeWal, numPages, cache, dirty,
                   spills, freePages, txnVars, task, stmt, held, owned,
                   leaked>>

EndCommit ==
    /\ pc = "free3" /\ task = "commit"
    /\ freeFile' = freeWal
    /\ freeWal' = Absent
    /\ spills' = [p \in Page |-> IF p \in dirty /\ p < numPages THEN None
                                 ELSE spills[p]]
    /\ dirty' = {p \in dirty : p >= numPages}
    /\ inTxn' = FALSE
    /\ txn' = NoTxn
    /\ savepoints' = <<>>
    /\ pc' = "idle"
    /\ task' = "none"
    /\ stmt' = "none"
    /\ UNCHANGED <<file, fileLen, wal, numPages, cache, shadows, freePages,
                   held, ownVars>>

----------------------------------------------------------------------------
(* persist_free_list_snapshot: write .free.wal, remove .free, rename *)

\* Recovery publishes the last record's list, the others the pager's own.
ListToPersist ==
    IF task = "recover" THEN Snapshot(wal.num, wal.free)
    ELSE Snapshot(numPages, freePages)

WriteFreeWal ==
    /\ pc = "free1"
    /\ freeWal' = ListToPersist
    /\ pc' = "free2"
    /\ UNCHANGED <<file, fileLen, wal, freeFile, numPages, frameVars,
                   freePages, txnVars, task, stmt, held, ownVars>>

RemoveFree ==
    /\ pc = "free2"
    /\ freeFile' = Absent
    /\ pc' = "free3"
    /\ UNCHANGED <<file, fileLen, wal, freeWal, numPages, frameVars,
                   freePages, txnVars, task, stmt, held, ownVars>>

RenameFree ==
    /\ pc = "free3" /\ task # "commit"
    /\ freeFile' = freeWal
    /\ freeWal' = Absent
    /\ pc' = "rmwal"
    /\ UNCHANGED <<file, fileLen, wal, numPages, frameVars, freePages,
                   txnVars, task, stmt, held, ownVars>>

----------------------------------------------------------------------------
(* Checkpoint *)

\* Fault: checkpoint without the ordering, as the legacy base runs it.
NoOverlap(t) == {}

\* pager_checkpoint hides a dirty page that also has an older shadow until
\* the shadow has been written; BEGIN calls the legacy base, which does not.
Overlap(t) == IF t = "begin" THEN {}
              ELSE {p \in dirty : p < numPages /\ shadows[p] # None}

StartCheckpoint(t) ==
    /\ Running
    /\ \/ t = "begin" /\ ~inTxn /\ stmt = "none" /\ "begin" \in Uses
       \/ t = "ckpt"  /\ stmt = "none" /\ (inTxn => "dotckpt" \in Uses)
       \/ t = "close" /\ ~inTxn /\ stmt = "none" /\ "close" \in Uses
       \/ t = "ddl"   /\ stmt = "ddl"
    /\ pc' = "write"
    /\ task' = t
    /\ held' = [p \in Page |-> IF p \in Overlap(t) THEN View(p) ELSE None]
    /\ dirty' = dirty \ Overlap(t)
    /\ UNCHANGED <<durableVars, numPages, cache, spills, shadows, freePages,
                   txnVars, stmt, ownVars>>

\* Fault: the committed shadows are forgotten.
FlushedWithoutShadows ==
    [p \in Page |-> IF p >= numPages THEN Hole
                    ELSE IF p \in dirty THEN View(p)
                    ELSE IF p < fileLen THEN file[p]
                    ELSE Hole]

\* What the legacy checkpoint leaves in the file: dirty images first, then
\* the shadows over them, then a truncation to num_pages.
Flushed ==
    [p \in Page |-> IF p >= numPages THEN Hole
                    ELSE IF shadows[p] # None THEN shadows[p]
                    ELSE IF p \in dirty THEN View(p)
                    ELSE IF p < fileLen THEN file[p]
                    ELSE Hole]

FlushPages ==
    /\ pc = "write"
    /\ file' = Flushed
    /\ fileLen' = numPages
    /\ spills' = [p \in Page |-> IF p \in dirty /\ p < numPages THEN None
                                 ELSE spills[p]]
    /\ dirty' = {p \in dirty : p >= numPages}
    /\ shadows' = Nothing
    /\ pc' = "free1"
    /\ UNCHANGED <<wal, freeFile, freeWal, numPages, cache, freePages,
                   txnVars, task, stmt, held, ownVars>>

Holding == held # Nothing
Checkpointing == task \in {"begin", "ckpt", "close", "ddl"}

\* The log is removed; a second pass then writes the held images.
SecondPass ==
    /\ pc = "rmwal" /\ Checkpointing /\ Holding
    /\ wal' = NoWal
    /\ cache' = [p \in Page |-> IF held[p] # None THEN None ELSE cache[p]]
    /\ spills' = [p \in Page |-> IF held[p] # None THEN held[p] ELSE spills[p]]
    /\ dirty' = dirty \cup {p \in Page : held[p] # None}
    /\ held' = Nothing
    /\ pc' = "write"
    /\ UNCHANGED <<file, fileLen, freeFile, freeWal, numPages, shadows,
                   freePages, txnVars, task, stmt, ownVars>>

RemoveLog(t, next) ==
    /\ pc = "rmwal" /\ task = t /\ ~Holding
    /\ wal' = NoWal
    /\ pc' = next
    /\ UNCHANGED <<file, fileLen, freeFile, freeWal, held>>

EndCheckpoint ==
    /\ RemoveLog("ckpt", "idle")
    /\ task' = "none"
    /\ UNCHANGED <<numPages, frameVars, freePages, txnVars, stmt, ownVars>>

\* pager_begin_transaction, after its checkpoint.
EndBegin ==
    /\ RemoveLog("begin", "idle")
    /\ task' = "none"
    /\ inTxn' = TRUE
    /\ txn' = [num |-> numPages, len |-> fileLen, free |-> freePages,
               owned |-> owned]
    /\ savepoints' = <<>>
    /\ UNCHANGED <<numPages, frameVars, freePages, stmt, ownVars>>

EndDdlCheckpoint ==
    /\ RemoveLog("ddl", "catalog")
    /\ UNCHANGED <<numPages, frameVars, freePages, txnVars, task, stmt,
                   ownVars>>

\* multitable_catalog_save makes the new root reachable.
SaveCatalog ==
    /\ pc = "catalog"
    /\ cowned' = owned
    /\ pc' = "idle"
    /\ task' = "none"
    /\ stmt' = "none"
    /\ UNCHANGED <<durableVars, numPages, frameVars, freePages, txnVars,
                   held, owned, leaked>>

----------------------------------------------------------------------------
(* What a crash now would leave, and recovery *)

RecNum == IF wal.present THEN wal.num ELSE fileLen

RecFile == IF wal.present THEN Replayed(file, wal) ELSE file

\* read_free_list_snapshot accepts a list only for the page count at hand.
Accepts(s, num) == s.state = "valid" /\ s.num = num

LoadedFree(num) ==
    IF Accepts(freeWal, num) THEN freeWal.free
    ELSE IF Accepts(freeFile, num) THEN freeFile.free
    ELSE <<>>

\* Fault: recovery ignores the free list of the log's records.
RecFreeFromSidecar == LoadedFree(RecNum)

RecFree == IF wal.present THEN wal.free ELSE LoadedFree(RecNum)

Down(nextPc) ==
    /\ pc' = nextPc
    /\ numPages' = 0
    /\ cache' = Nothing
    /\ dirty' = {}
    /\ spills' = Nothing
    /\ shadows' = Nothing
    /\ freePages' = <<>>
    /\ inTxn' = FALSE
    /\ txn' = NoTxn
    /\ savepoints' = <<>>
    /\ held' = Nothing
    /\ task' = "none"
    /\ stmt' = "none"
    /\ owned' = cowned'

\* db_close: rolls back, checkpoints (t = "close"), frees the pager.
EndClose ==
    /\ pc = "rmwal" /\ task = "close" /\ ~Holding
    /\ wal' = NoWal
    /\ UNCHANGED <<file, fileLen, freeFile, freeWal, cowned, leaked>>
    /\ Down("closed")

\* Before its fsync a rewrite of the file leaves each page old, new or torn.
Unsynced(new, newLen) ==
    LET changed == {p \in Page : file[p] # new[p]}
        low == IF newLen < fileLen THEN newLen ELSE fileLen
        high == IF newLen < fileLen THEN fileLen ELSE newLen
    IN  \E written \in SUBSET changed : \E torn \in SUBSET written :
            /\ fileLen' \in low .. high
            /\ file' = [p \in Page |->
                   IF p >= fileLen' \/ p \in torn THEN Hole
                   ELSE IF p \in written THEN new[p] ELSE file[p]]

\* Nobody owns them and the recovered free list does not list them.
Orphans(num, free, own) == Below(num) \ (own \cup Elements(free))

Crash ==
    /\ "crash" \in Uses
    /\ pc # "closed"
    /\ \/ pc = "write" /\ Unsynced(Flushed, numPages)
       \/ pc = "replay" /\ Unsynced(Replayed(file, wal), wal.num)
       \/ pc \notin {"write", "replay"} /\ UNCHANGED <<file, fileLen>>
    /\ \/ pc = "append" /\ wal' = CommitLog /\ cowned' = owned
       \/ UNCHANGED <<wal, cowned>>
    /\ \/ pc = "free1" /\ freeWal' \in {Torn, ListToPersist}
       \/ UNCHANGED freeWal
    /\ \/ pc = "load" /\ Accepts(freeWal, fileLen) /\ freeFile' = Absent
       \/ UNCHANGED freeFile
    /\ leaked' = Orphans(RecNum', RecFree', cowned')
    /\ Down("closed")

\* recover_wal runs if there is a log; pager_open then reads the file length.
Open ==
    /\ pc = "closed"
    /\ pc' = IF wal.present THEN "replay" ELSE "load"
    /\ task' = "recover"
    /\ UNCHANGED <<durableVars, numPages, frameVars, freePages, txnVars,
                   stmt, held, ownVars>>

ReplayLog ==
    /\ pc = "replay"
    /\ file' = Replayed(file, wal)
    /\ fileLen' = wal.num
    /\ pc' = "free1"
    /\ UNCHANGED <<wal, freeFile, freeWal, numPages, frameVars, freePages,
                   txnVars, task, stmt, held, ownVars>>

EndRecovery ==
    /\ RemoveLog("recover", "load")
    /\ UNCHANGED <<numPages, frameVars, freePages, txnVars, task, stmt,
                   ownVars>>

\* load_free_list_snapshot publishes a valid .free.wal and drops a bad one.
LoadFreeList ==
    /\ pc = "load"
    /\ numPages' = fileLen
    /\ freePages' = LoadedFree(fileLen)
    /\ freeFile' = IF Accepts(freeWal, fileLen) THEN freeWal ELSE freeFile
    /\ freeWal' = IF Accepts(freeFile, fileLen) /\ ~Accepts(freeWal, fileLen)
                  THEN freeWal ELSE Absent
    /\ pc' = "idle"
    /\ task' = "none"
    /\ UNCHANGED <<file, fileLen, wal, frameVars, txnVars, stmt, held,
                   ownVars>>

\* get_page meets a page whose checksum fails, and the process exits:
\* SAVEPOINT reads every page, ROLLBACK TO refills every page, an allocation
\* reads the page it takes from the free list.
ChecksumExit ==
    /\ Running
    /\ \/ inTxn /\ Len(savepoints) < MaxSavepoints
          /\ \E p \in Below(numPages) : ~Readable(p)
       \/ inTxn /\ \E i \in DOMAIN savepoints : ~Refillable(savepoints[i].num)
       \/ stmt # "ddl" /\ Unused < MaxPages /\ ~Readable(Unused)
    /\ leaked' = Orphans(RecNum, RecFree, cowned)
    /\ UNCHANGED <<durableVars, cowned>>
    /\ Down("closed")

----------------------------------------------------------------------------
\* A database with a formatted root page that was closed cleanly.
Init ==
    /\ file \in [Page -> Datum \cup {Hole}]
    /\ \A p \in Page : file[p] = Hole <=> p # 0
    /\ fileLen = 1
    /\ wal = NoWal
    /\ freeFile = Snapshot(1, <<>>)
    /\ freeWal = Absent
    /\ numPages = 0
    /\ cache = Nothing
    /\ dirty = {}
    /\ spills = Nothing
    /\ shadows = Nothing
    /\ freePages = <<>>
    /\ inTxn = FALSE
    /\ txn = NoTxn
    /\ savepoints = <<>>
    /\ held = Nothing
    /\ pc = "closed"
    /\ task = "none"
    /\ stmt = "none"
    /\ owned = {0}
    /\ cowned = {0}
    /\ leaked = {}

Next ==
    \/ \E p \in Page : Fetch(p) \/ Free(p)
    \/ \E d \in Datum : Claim(d) \/ Truncate(d) \/ CreateTable(d)
    \/ \E p \in Page, d \in Datum : Write(p, d)
    \/ \E n \in Name : Savepoint(n) \/ RollbackTo(n) \/ Release(n)
    \/ Rollback
    \/ StartCommit \/ SyncLog \/ EndCommit
    \/ WriteFreeWal \/ RemoveFree \/ RenameFree
    \/ \E t \in {"begin", "ckpt", "close", "ddl"} : StartCheckpoint(t)
    \/ FlushPages \/ SecondPass
    \/ EndCheckpoint \/ EndBegin \/ EndDdlCheckpoint \/ SaveCatalog \/ EndClose
    \/ Crash \/ Open \/ ReplayLog \/ EndRecovery \/ LoadFreeList
    \/ ChecksumExit

Spec == Init /\ [][Next]_vars
=============================================================================
