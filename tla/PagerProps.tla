----------------------------- MODULE PagerProps -----------------------------
(***************************************************************************)
(* What the pager of module Pager has to get right, and the mapping under  *)
(* which it implements the transactional page store of module TxStore.     *)
(***************************************************************************)
EXTENDS Pager

----------------------------------------------------------------------------
(* Types *)

SomeImage == Image \cup {None}
FileImage == Datum \cup {Hole}
FreeRec == [state : {"absent", "torn", "valid"}, num : 0 .. MaxPages,
            free : Seq(Page)]

\* Every variable of the pager keeps its shape (pager.h, struct Pager).
TypeOK ==
    /\ file \in [Page -> FileImage]
    /\ fileLen \in 0 .. MaxPages
    /\ wal \in [num : 0 .. MaxPages, free : Seq(Page), present : BOOLEAN,
                img : [Page -> FileImage \cup {None}]]
    /\ freeFile \in FreeRec
    /\ freeWal \in FreeRec
    /\ numPages \in 0 .. MaxPages
    /\ cache \in [Page -> SomeImage]
    /\ dirty \subseteq Page
    /\ spills \in [Page -> SomeImage]
    /\ shadows \in [Page -> SomeImage]
    /\ freePages \in Seq(Page)
    /\ inTxn \in BOOLEAN
    /\ txn \in [num : 0 .. MaxPages, len : 0 .. MaxPages, free : Seq(Page),
                owned : SUBSET Page]
    /\ savepoints \in Seq([name : Name, num : 0 .. MaxPages, free : Seq(Page),
                           dirty : SUBSET Page, img : [Page -> SomeImage],
                           owned : SUBSET Page])
    /\ held \in [Page -> SomeImage]
    /\ pc \in {"closed", "idle", "append", "write", "free1", "free2", "free3",
               "rmwal", "catalog", "replay", "load"}
    /\ task \in {"none", "commit", "begin", "ckpt", "close", "ddl", "recover"}
    /\ stmt \in {"none", "dml", "ddl"}
    /\ owned \subseteq Page
    /\ cowned \subseteq Page
    /\ leaked \subseteq Page

----------------------------------------------------------------------------
(* The free list *)

\* A free list F over n pages is sound for a session that reaches the pages
\* in own: no page twice, never the root, all of them existing, none in use.
SoundFree(n, F, own) ==
    /\ own \subseteq Below(n)
    /\ ValidFreeList(n, F)
    /\ Elements(F) \cap own = {}

Started == pc \notin {"closed", "replay", "load"} /\ task # "recover"

\* The allocator never holds a page twice, page 0, or a page a tree still
\* reaches, whatever sequence of statements, rollbacks to savepoints, crashes
\* and recoveries led here (get_unused_page_num, pager_free_page,
\* validate_free_page_list).
FreeListSound == Started => SoundFree(numPages, freePages, owned)

\* If the process died now, the free list that recovery would load would be
\* sound for the committed pages: no page of a committed tree could be handed
\* out again (persist_free_list_snapshot, read_free_list_snapshot,
\* recover_wal).
RecoveredFreeListSound == SoundFree(RecNum, RecFree, cowned)

\* No page is lost while the process runs: below num_pages each page is in
\* use, in the free list, or was already lost to an earlier crash.
NoPageLost ==
    Started => Below(numPages) \subseteq owned \cup Elements(freePages)
                                            \cup leaked

\* Only a crash inside CREATE TABLE loses pages: pager_checkpoint's comment
\* has the WAL carry the allocator state across any other crash.
LeaksOnlyInCreateTable ==
    [][pc # "closed" /\ pc' = "closed" /\ task # "ddl" /\ stmt # "ddl"
         => leaked' \subseteq leaked]_vars

\* The log is deleted only when the database file holds, without it, all that
\* replaying it would give the committed pages, and the sidecar lists the
\* free pages of that file (pager_checkpoint, recover_wal).
LogRemovedWhenRedundant ==
    [][wal.present /\ ~wal'.present
         => /\ \A p \in cowned : file[p] = RecFile[p]
            /\ cowned \subseteq Below(fileLen)
            /\ Accepts(freeFile, fileLen)]_vars

\* A dirty page always has its newest image in a frame or in its spill:
\* evicting never drops an uncommitted change (lru_evict).
DirtyHasImage ==
    \A p \in dirty : cache[p] # None \/ spills[p] # None

----------------------------------------------------------------------------
(* What the README and the comments say, and the code does not do *)

\* README: uncommitted pages never reach the main database file, not even
\* by a checkpoint.  Between BEGIN and COMMIT the file stays as it is
\* (pager_checkpoint reached through .checkpoint).
NoUncommittedInFile ==
    [][inTxn /\ inTxn' => UNCHANGED <<file, fileLen>>]_vars

\* A database only this program wrote, and that never crashed, is never
\* reported corrupt (get_page's checksum exit).
NoChecksumExit == [][~ChecksumExit]_vars

----------------------------------------------------------------------------
(* The pager implements the page store *)

Recovering == pc \in {"closed", "replay", "load"} \/ task = "recover"
PastCommitPoint == task = "commit" /\ pc \in {"free1", "free2", "free3"}

Committed == [p \in cowned |-> RecFile[p]]
Working ==
    IF Recovering THEN Committed
    ELSE [p \in owned |-> IF held[p] # None THEN held[p] ELSE View(p)]
Marks ==
    IF PastCommitPoint THEN <<>>
    ELSE [i \in DOMAIN savepoints |->
            [name |-> savepoints[i].name,
             store |-> [p \in savepoints[i].owned |-> savepoints[i].img[p]]]]

Store == INSTANCE TxStore WITH
    committed <- Committed,
    working <- Working,
    inTxn <- inTxn /\ ~PastCommitPoint,
    marks <- Marks,
    committing <- pc = "append" \/ (task = "ddl" /\ pc # "closed")

\* Every behaviour of the pager is one of the page store: reads see the
\* newest write whatever was evicted, ROLLBACK and ROLLBACK TO restore what
\* they promise, an answered COMMIT survives every crash and an unanswered
\* one is all or nothing.
StoreSpec == Store!Spec
=============================================================================
