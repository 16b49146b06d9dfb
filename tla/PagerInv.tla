------------------------------ MODULE PagerInv ------------------------------
(***************************************************************************)
(* An inductive invariant of the pager: what has to hold between any two   *)
(* of its steps so that the free list stays sound through transactions,    *)
(* savepoints, checkpoints, crashes and recoveries.  PagerProofs proves    *)
(* it; the runs check it on small instances.                               *)
(***************************************************************************)
EXTENDS PagerProps

----------------------------------------------------------------------------
(* Images *)

MaybeDatum == Datum \cup {None}

\* What keeps Hole and Blank out of frames, spills and files where they would
\* be taken for page images: the newest image of a dirty page is one that the
\* client wrote, and so is every shadow, held image and saved dirty image.
ImagesOK ==
    /\ \A p \in dirty : \/ cache[p] \in Datum
                        \/ cache[p] = None /\ spills[p] \in Datum
    /\ shadows \in [Page -> MaybeDatum]
    /\ held \in [Page -> MaybeDatum]
    /\ \A i \in DOMAIN savepoints :
          \A p \in savepoints[i].dirty : savepoints[i].img[p] \in Datum

Typed == TypeOK /\ ImagesOK

----------------------------------------------------------------------------
(* The inductive invariant *)

Ckpt == {"begin", "ckpt", "close", "ddl"}

\* Which operation runs at which step, and when a statement or a transaction
\* can be open.
Control ==
    /\ pc \in {"idle", "closed"} => task = "none"
    /\ pc \in {"replay", "load"} => task = "recover"
    /\ pc = "append" => task = "commit"
    /\ pc = "write" => task \in Ckpt
    /\ pc \in {"free1", "free2", "free3"}
          => task \in Ckpt \cup {"recover", "commit"}
    /\ pc = "rmwal" => task \in Ckpt \cup {"recover"}
    /\ pc = "catalog" => task = "ddl"
    /\ Recovering => ~inTxn /\ stmt = "none" /\ dirty = {}
    /\ inTxn => stmt = "none"
    /\ task \in Ckpt \ {"ddl"} => ~inTxn /\ stmt = "none"
    /\ task = "ddl" => stmt = "ddl"
    /\ held # Nothing => task \in Ckpt /\ pc # "catalog"

\* Dirty pages, live, saved or held back, exist.
Bounded ==
    /\ dirty \subseteq Below(numPages)
    /\ \A i \in DOMAIN savepoints :
          savepoints[i].dirty \subseteq Below(savepoints[i].num)
    /\ \A p \in Page : held[p] # None => p < numPages

\* How the pages of the session relate to the committed ones.
Ownership ==
    /\ ~inTxn /\ stmt = "none" => owned = cowned
    /\ stmt = "ddl" => cowned \subseteq owned
    /\ PastCommitPoint => /\ owned = cowned
                          /\ wal.present
    /\ inTxn /\ ~PastCommitPoint => txn.owned = cowned

\* What each durable step finds of the ones before it.
Steps ==
    /\ task \in Ckpt /\ pc \in {"free1", "free2", "free3", "rmwal"}
          => fileLen = numPages
    /\ task = "recover" /\ pc \in {"free1", "free2", "free3", "rmwal"}
          => wal.present /\ fileLen = wal.num
    /\ pc \in {"free2", "free3"} => freeWal = ListToPersist
    /\ pc = "rmwal" => freeFile = ListToPersist /\ freeWal = Absent
    /\ pc = "catalog" => /\ ~wal.present
                         /\ fileLen = numPages
                         /\ freeFile = Snapshot(numPages, freePages)
                         /\ freeWal = Absent
    /\ pc = "load" => ~wal.present
    /\ pc = "replay" => wal.present

\* The lists that ROLLBACK and ROLLBACK TO would bring back are sound for the
\* pages they would bring back.
SavedSound ==
    /\ txn.len = txn.num
    /\ SoundFree(txn.num, txn.free, txn.owned)
    /\ \A i \in DOMAIN savepoints :
          SoundFree(savepoints[i].num, savepoints[i].free, savepoints[i].owned)

Harmless(s) ==
    s.state = "valid" => /\ ValidFreeList(s.num, s.free)
                         /\ Elements(s.free) \cap cowned = {}

\* While the log exists its list rules; without it both sidecars are harmless
\* to the committed pages, whatever length a crash leaves the file with.
DurableSound ==
    /\ wal.present => SoundFree(wal.num, wal.free, cowned)
    /\ ~wal.present => /\ cowned \subseteq Below(fileLen)
                       /\ Harmless(freeFile)
                       /\ Harmless(freeWal)

\* The inductive invariant, for sessions that type no .checkpoint inside a
\* transaction: types, which operation runs at which durable step, who owns
\* which page, and the soundness of the free list in memory, in the saved
\* copies of it, in the log and in the sidecars (pager_commit,
\* pager_checkpoint, persist_free_list_snapshot, recover_wal).
IInv ==
    /\ Typed
    /\ Control
    /\ Bounded
    /\ Ownership
    /\ Steps
    /\ FreeListSound
    /\ SavedSound
    /\ DurableSound
=============================================================================
