---------------------------- MODULE PagerProofs ----------------------------
(***************************************************************************)
(* Theorems about the pager: its types, its free list, and the pages it    *)
(* may lose, for any number of pages, frames, images and savepoints.       *)
(***************************************************************************)
EXTENDS PagerInv, SequenceTheorems, FiniteSetTheorems, TLAPS

----------------------------------------------------------------------------
(* Images *)

\* get_page of a readable page gives an image.
LEMMA ViewIsImage ==
    ASSUME Typed, NEW p \in Page, Readable(p)
    PROVE  View(p) \in Image
BY PagerAssumption DEF Typed, TypeOK, ImagesOK, Readable, View, Image, SomeImage, FileImage,
      MaybeDatum, Page

\* The view of a dirty page is an image that the client wrote.
LEMMA ViewOfDirty ==
    ASSUME Typed, NEW p \in dirty
    PROVE  View(p) \in Datum
BY PagerAssumption DEF Typed, TypeOK, ImagesOK, View, Image, SomeImage

\* Loading a page keeps frames and spills typed, and evicts no dirty image
\* without a spill.
LEMMA LoadKeepsImages ==
    ASSUME Typed, NEW p \in Page, NEW d \in Image, Load(p, d)
    PROVE  /\ cache' \in [Page -> SomeImage]
           /\ spills' \in [Page -> SomeImage]
           /\ cache'[p] = d
           /\ \A q \in dirty \ {p} : \/ cache'[q] \in Datum
                                     \/ cache'[q] = None /\ spills'[q] \in Datum
BY PagerAssumption, SMTT(60) DEF Typed, TypeOK, ImagesOK, Load, SomeImage, Image

----------------------------------------------------------------------------
(* The free page stack *)

\* An empty list is sound for any set of existing pages.
LEMMA EmptyIsSound ==
    ASSUME NEW n \in Nat, NEW own \in SUBSET Below(n)
    PROVE  SoundFree(n, <<>>, own)
BY DEF SoundFree, ValidFreeList, Elements

\* pager_free_page: the page pushed is in use, so it is not on the stack yet.
LEMMA PushSound ==
    ASSUME NEW n \in Nat, NEW F \in Seq(Page), NEW own,
           NEW p \in own \ {0}, SoundFree(n, F, own)
    PROVE  SoundFree(n, Append(F, p), own \ {p})
<1> DEFINE G == Append(F, p)
<1>1. /\ DOMAIN F = 1 .. Len(F) /\ Len(F) \in Nat
      /\ DOMAIN G = 1 .. Len(F) + 1
      /\ \A i \in 1 .. Len(F) : G[i] = F[i]
      /\ G[Len(F) + 1] = p
  BY DEF SoundFree, Below, Page
<1>2. Elements(G) = Elements(F) \cup {p}
  BY <1>1 DEF Elements
<1>3. p \notin Elements(F)
  BY DEF SoundFree
<1>4. \A i, j \in DOMAIN G : G[i] = G[j] => i = j
  BY <1>1, <1>3 DEF SoundFree, ValidFreeList, Elements
<1> QED
  BY <1>2, <1>3, <1>4 DEF SoundFree, ValidFreeList

\* get_unused_page_num with a free page at hand: the page popped leaves the
\* list for good.
LEMMA PopSound ==
    ASSUME NEW n \in Nat, NEW F \in Seq(Page), F # <<>>, NEW own,
           SoundFree(n, F, own)
    PROVE  SoundFree(n, SubSeq(F, 1, Len(F) - 1), own \cup {F[Len(F)]})
<1> DEFINE G == SubSeq(F, 1, Len(F) - 1)
<1>1. /\ Len(F) \in Nat \ {0} /\ DOMAIN F = 1 .. Len(F)
      /\ DOMAIN G = 1 .. Len(F) - 1
      /\ \A i \in 1 .. Len(F) - 1 : G[i] = F[i]
  BY EmptySeq, LenProperties
<1>2. Elements(G) \subseteq Elements(F) \ {F[Len(F)]}
  BY <1>1 DEF Elements, SoundFree, ValidFreeList
<1>3. \A i, j \in DOMAIN G : G[i] = G[j] => i = j
  BY <1>1 DEF SoundFree, ValidFreeList
<1>4. F[Len(F)] \in Below(n)
  BY <1>1 DEF SoundFree, ValidFreeList, Elements
<1> QED
  BY <1>2, <1>3, <1>4 DEF SoundFree, ValidFreeList

\* The page on top of a sound list exists.
LEMMA TopExists ==
    ASSUME NEW n \in Nat, NEW F \in Seq(Page), F # <<>>, NEW own,
           SoundFree(n, F, own)
    PROVE  F[Len(F)] \in Below(n) \ {0}
<1>1. Len(F) \in DOMAIN F
  BY EmptySeq, LenProperties
<1> QED
  BY <1>1 DEF SoundFree, ValidFreeList, Elements

\* get_unused_page_num with an empty stack: the database grows by a page.
LEMMA GrowSound ==
    ASSUME NEW n \in Nat, NEW F, NEW own, SoundFree(n, F, own)
    PROVE  SoundFree(n + 1, F, own \cup {n})
<1>1. Below(n) \subseteq Below(n + 1) /\ n \in Below(n + 1)
      /\ n \notin Below(n)
  BY DEF Below
<1> QED
  BY <1>1 DEF SoundFree, ValidFreeList

\* A claimed page leaves the allocator sound, wherever it came from.
LEMMA AcquireSound ==
    ASSUME Typed, SoundFree(numPages, freePages, owned), NEW d, Acquire(d)
    PROVE  /\ SoundFree(numPages', freePages', owned')
           /\ Unused \in Page
           /\ Unused < numPages'
           /\ numPages' \in numPages .. MaxPages
           /\ freePages' \in Seq(Page)
<1>0. /\ numPages \in 0 .. MaxPages
      /\ MaxPages \in Nat
      /\ freePages \in Seq(Page)
  BY PagerAssumption DEF Typed, TypeOK
<1>1. CASE freePages = <<>>
  <2>1. /\ Unused = numPages /\ Unused < MaxPages
        /\ numPages' = numPages + 1 /\ freePages' = freePages
        /\ owned' = owned \cup {numPages}
    BY <1>0, <1>1 DEF Acquire, Unused, PopFree
  <2> QED
    BY <1>0, <1>1, <2>1, GrowSound DEF Page
<1>2. CASE freePages # <<>>
  <2> DEFINE top == freePages[Len(freePages)]
  <2>1. Unused = top /\ PopFree = SubSeq(freePages, 1, Len(freePages) - 1)
    BY <1>2 DEF Unused, PopFree
  <2>2. SoundFree(numPages, PopFree, owned \cup {top}) /\ top \in Below(numPages)
    BY <1>0, <1>2, <2>1, PopSound, TopExists
  <2>3. top \in Page /\ top < numPages
    BY <1>0, <2>2 DEF Below, Page
  <2>4. /\ numPages' = numPages
        /\ freePages' = PopFree
        /\ owned' = owned \cup {top}
    BY <1>0, <2>1, <2>3 DEF Acquire, Page
  <2>5. PopFree \in Seq(Page)
    <3>1. Len(freePages) \in Nat
      BY <1>0
    <3> QED
      BY <1>0, <2>1, <3>1, SubSeqProperties
  <2> QED
    BY <1>0, <2>1, <2>2, <2>3, <2>4, <2>5
<1> QED
  BY <1>1, <1>2

\* table_truncate keeps the root alone, so no free page survives it.
LEMMA KeptOfOne ==
    ASSUME freePages \in Seq(Page), ValidFreeList(numPages, freePages)
    PROVE  Kept(1) = <<>>
<1> DEFINE keep == {i \in DOMAIN freePages : freePages[i] < 1}
           place(i) == Cardinality({j \in keep : j <= i})
           page(k) == freePages[CHOOSE i \in keep : place(i) = k]
<1>1. \A i \in DOMAIN freePages : ~(freePages[i] < 1)
  BY PagerAssumption DEF ValidFreeList, Elements, Page, Below
<1>2. keep = {}
  BY <1>1
<1>3. Cardinality(keep) = 0
  BY <1>2, FS_EmptySet
<1>4. Kept(1) = [k \in 1 .. Cardinality(keep) |-> page(k)]
  BY DEF Kept
<1> HIDE DEF keep, page
<1> QED
  BY <1>3, <1>4

----------------------------------------------------------------------------
(* Types are kept *)

\* Between operations the live list is sound and no image is held back.
LEMMA Idle ==
    ASSUME IInv, Running
    PROVE  /\ task = "none"
           /\ Started
           /\ SoundFree(numPages, freePages, owned)
           /\ held = Nothing
BY DEF IInv, Control, Running, Started, FreeListSound, Ckpt

\* get_page alone: an eviction keeps the types and the dirty images.
LEMMA TypedFetch ==
    ASSUME IInv, NEW p \in Page, Fetch(p)
    PROVE  Typed'
<1>1. View(p) \in Image
  BY ViewIsImage DEF IInv, Fetch
<1>2. p \in dirty => View(p) \in Datum
  BY ViewOfDirty DEF IInv
<1>3. Load(p, View(p))
  BY DEF Fetch
<1>4. /\ cache' \in [Page -> SomeImage]
      /\ spills' \in [Page -> SomeImage]
      /\ cache'[p] = View(p)
      /\ \A q \in dirty \ {p} : \/ cache'[q] \in Datum
                                \/ cache'[q] = None /\ spills'[q] \in Datum
  BY <1>1, <1>3, LoadKeepsImages DEF IInv
<1>5. UNCHANGED <<durableVars, numPages, dirty, shadows, freePages, txnVars,
                  controlVars, ownVars>>
  BY DEF Fetch
<1>6. TypeOK'
  BY <1>4, <1>5 DEF IInv, Typed, TypeOK, durableVars, txnVars, controlVars, ownVars
<1>7. ImagesOK'
  BY <1>2, <1>4, <1>5 DEF IInv, Typed, ImagesOK, durableVars, txnVars, controlVars, ownVars
<1> QED
  BY <1>6, <1>7 DEF Typed

\* A page allocated, by a statement or by table_create_table.
LEMMA TypedClaim ==
    ASSUME IInv, NEW d \in Datum, Running, Acquire(d), Load(Unused, d),
           stmt' \in {stmt, "dml", "ddl"},
           UNCHANGED <<durableVars, shadows, txnVars, pc, task, held, cowned,
                       leaked>>
    PROVE  Typed'
<1>1. d \in Image
  BY DEF Image
<1>2. /\ Unused \in Page
      /\ numPages' \in numPages .. MaxPages
      /\ freePages' \in Seq(Page)
  BY AcquireSound, Idle DEF IInv
<1>3. /\ cache' \in [Page -> SomeImage]
      /\ spills' \in [Page -> SomeImage]
      /\ cache'[Unused] = d
      /\ \A q \in dirty \ {Unused} :
            \/ cache'[q] \in Datum
            \/ cache'[q] = None /\ spills'[q] \in Datum
  BY <1>1, <1>2, LoadKeepsImages DEF IInv
<1>4. dirty' = dirty \cup {Unused} /\ owned' = owned \cup {Unused}
  BY DEF Acquire
<1>5. numPages \in 0 .. MaxPages
  BY DEF IInv, Typed, TypeOK
<1>6. TypeOK'
  BY <1>2, <1>3, <1>4, <1>5, SMTT(60) DEF IInv, Typed, TypeOK, durableVars, txnVars
<1>7. ImagesOK'
  BY <1>3, <1>4 DEF IInv, Typed, ImagesOK, txnVars
<1> QED
  BY <1>6, <1>7 DEF Typed

\* A page of a tree changed through mark_page_dirty.
LEMMA TypedWrite ==
    ASSUME IInv, NEW p \in Page, NEW d \in Datum, Write(p, d)
    PROVE  Typed'
<1>1. d \in Image /\ Load(p, d) /\ p \in owned
  BY DEF Image, Write
<1>2. /\ cache' \in [Page -> SomeImage]
      /\ spills' \in [Page -> SomeImage]
      /\ cache'[p] = d
      /\ \A q \in dirty \ {p} : \/ cache'[q] \in Datum
                                \/ cache'[q] = None /\ spills'[q] \in Datum
  BY <1>1, LoadKeepsImages DEF IInv
<1>3. /\ dirty' = dirty \cup {p}
      /\ stmt' = IF inTxn THEN stmt ELSE "dml"
      /\ UNCHANGED <<durableVars, numPages, shadows, freePages, txnVars, pc,
                     task, held, ownVars>>
  BY DEF Write, Touch
<1>4. TypeOK'
  BY <1>2, <1>3 DEF IInv, Typed, TypeOK, durableVars, txnVars, ownVars
<1>5. ImagesOK'
  BY <1>2, <1>3 DEF IInv, Typed, ImagesOK, txnVars
<1> QED
  BY <1>4, <1>5 DEF Typed

\* pager_free_page.
LEMMA TypedFree ==
    ASSUME IInv, NEW p \in Page, Free(p)
    PROVE  Typed'
BY SMTT(60) DEF IInv, Typed, TypeOK, ImagesOK, Free, Touch, SomeImage, durableVars, txnVars

\* table_truncate, with its pager_shrink(1).
LEMMA TypedTruncate ==
    ASSUME IInv, NEW d \in Datum, Truncate(d)
    PROVE  Typed'
<1>1. freePages' = <<>>
  BY Idle, KeptOfOne DEF IInv, Typed, TypeOK, Truncate, Shrunk, MayChange, SoundFree
<1>2. freePages' \in Seq(Page)
  BY <1>1
<1>3. 0 \in Page /\ 1 \in 0 .. MaxPages
  BY PagerAssumption DEF Page
<1>4. /\ numPages' = 1
      /\ cache' = [Nothing EXCEPT ![0] = d]
      /\ spills' = [Nothing EXCEPT ![0] = spills[0]]
      /\ dirty' = {0}
      /\ shadows' = [q \in Page |-> IF q < 1 THEN shadows[q] ELSE None]
      /\ owned' = owned \cap Below(1)
      /\ stmt' = IF inTxn THEN stmt ELSE "dml"
      /\ UNCHANGED <<durableVars, txnVars, pc, task, held, cowned, leaked>>
  BY DEF Truncate, Shrunk, Touch
<1>5. TypeOK'
  BY <1>2, <1>3, <1>4 DEF IInv, Typed, TypeOK, Nothing, SomeImage, Image, durableVars, txnVars
<1>6. ImagesOK'
  BY <1>3, <1>4 DEF IInv, Typed, ImagesOK, Nothing, MaybeDatum, txnVars
<1> QED
  BY <1>5, <1>6 DEF Typed

SavepointRec == [name : Name, num : 0 .. MaxPages, free : Seq(Page),
                 dirty : SUBSET Page, img : [Page -> SomeImage],
                 owned : SUBSET Page]

\* pager_savepoint copies every page, the dirty ones as the client wrote them.
LEMMA TypedSavepoint ==
    ASSUME IInv, NEW n \in Name, Savepoint(n)
    PROVE  Typed'
<1> DEFINE sp == [name |-> n, num |-> numPages, free |-> freePages,
                  dirty |-> dirty,
                  img |-> [p \in Page |-> IF p < numPages THEN View(p) ELSE None],
                  owned |-> owned]
<1>1. \A p \in Below(numPages) : View(p) \in Image
  <2>1. \A p \in Below(numPages) : Readable(p) /\ p \in Page
    BY PagerAssumption DEF Savepoint, Below, Page, IInv, Typed, TypeOK
  <2> QED
    BY <2>1, ViewIsImage DEF IInv
<1>2. \A p \in Page : p < numPages => View(p) \in Image
  BY <1>1, PagerAssumption DEF Page, Below, IInv, Typed, TypeOK
<1>3. sp \in SavepointRec
  BY <1>2 DEF SavepointRec, SomeImage, IInv, Typed, TypeOK
<1>4. \A p \in dirty : sp.img[p] \in Datum
  BY ViewOfDirty, PagerAssumption, SMTT(60) DEF IInv, Bounded, Below, Typed, TypeOK, Page
<1>5. /\ savepoints' = Append(savepoints, sp)
      /\ UNCHANGED <<durableVars, numPages, frameVars, freePages, inTxn, txn,
                     controlVars, ownVars>>
  BY DEF Savepoint
<1>6. savepoints \in Seq(SavepointRec)
  BY DEF IInv, Typed, TypeOK, SavepointRec
<1> HIDE DEF sp
<1>7. /\ savepoints' \in Seq(SavepointRec)
      /\ DOMAIN savepoints' = DOMAIN savepoints \cup {Len(savepoints) + 1}
      /\ savepoints'[Len(savepoints) + 1] = sp
      /\ \A i \in DOMAIN savepoints : savepoints'[i] = savepoints[i]
  BY <1>3, <1>5, <1>6, AppendProperties
<1>8. TypeOK'
  BY <1>5, <1>7, SMTT(60) DEF IInv, Typed, TypeOK, SavepointRec, durableVars, frameVars,
                    controlVars, ownVars
<1>9. sp.dirty = dirty
  BY DEF sp
<1>10. ImagesOK'
  BY <1>4, <1>5, <1>7, <1>9 DEF IInv, Typed, ImagesOK, frameVars, controlVars
<1> QED
  BY <1>8, <1>10 DEF Typed

\* A prefix of the savepoints is a stack of savepoints again.
LEMMA PrefixOfSavepoints ==
    ASSUME IInv, NEW m \in 0 .. Len(savepoints),
           savepoints' = SubSeq(savepoints, 1, m)
    PROVE  /\ savepoints' \in Seq(SavepointRec)
           /\ DOMAIN savepoints' \subseteq DOMAIN savepoints
           /\ \A i \in DOMAIN savepoints' : savepoints'[i] = savepoints[i]
<1>1. savepoints \in Seq(SavepointRec)
  BY DEF IInv, Typed, TypeOK, SavepointRec
<1>2. /\ Len(savepoints) \in Nat
      /\ DOMAIN savepoints = 1 .. Len(savepoints)
      /\ \A i \in 1 .. m : savepoints[i] \in SavepointRec
  BY <1>1
<1>3. SubSeq(savepoints, 1, m) = [i \in 1 .. m |-> savepoints[i]]
  BY <1>1, <1>2
<1> QED
  BY <1>2, <1>3

\* pager_rollback_to_savepoint refills the spills from the copies.
LEMMA TypedRollbackTo ==
    ASSUME IInv, NEW n \in Name, RollbackTo(n)
    PROVE  Typed'
<1>1. PICK i \in DOMAIN savepoints :
         /\ cache' = Nothing
         /\ dirty' = savepoints[i].dirty
         /\ spills' = [p \in Page |-> IF p \in savepoints[i].dirty
                                      THEN savepoints[i].img[p] ELSE None]
         /\ numPages' = savepoints[i].num
         /\ freePages' = savepoints[i].free
         /\ owned' = savepoints[i].owned
         /\ savepoints' = SubSeq(savepoints, 1, i)
  BY DEF RollbackTo
<1>2. UNCHANGED <<durableVars, shadows, inTxn, txn, controlVars, cowned,
                  leaked>>
  BY DEF RollbackTo
<1>3. savepoints[i] \in SavepointRec
  <2>1. savepoints \in Seq(SavepointRec)
    BY DEF IInv, Typed, TypeOK, SavepointRec
  <2> QED
    BY <2>1
<1>4. i \in 0 .. Len(savepoints)
  BY SMTT(60) DEF IInv, Typed, TypeOK
<1>5. /\ savepoints' \in Seq(SavepointRec)
      /\ DOMAIN savepoints' \subseteq DOMAIN savepoints
      /\ \A k \in DOMAIN savepoints' : savepoints'[k] = savepoints[k]
  BY <1>1, <1>4, PrefixOfSavepoints
<1>6. TypeOK'
  BY <1>1, <1>2, <1>3, <1>5, ZenonT(60) DEF IInv, Typed, TypeOK, SavepointRec, Nothing,
      SomeImage, durableVars, controlVars
<1>7. \A p \in savepoints[i].dirty : p \in Page /\ savepoints[i].img[p] \in Datum
  BY <1>3 DEF IInv, Typed, ImagesOK, SavepointRec
<1>8. ImagesOK'
  BY <1>1, <1>2, <1>5, <1>7 DEF IInv, Typed, ImagesOK, Nothing, controlVars
<1> QED
  BY <1>6, <1>8 DEF Typed

\* pager_release_savepoint.
LEMMA TypedRelease ==
    ASSUME IInv, NEW n \in Name, Release(n)
    PROVE  Typed'
<1>1. PICK i \in DOMAIN savepoints : savepoints' = SubSeq(savepoints, 1, i - 1)
  BY DEF Release, Newest
<1>2. UNCHANGED <<durableVars, numPages, frameVars, freePages, inTxn, txn,
                  controlVars, ownVars>>
  BY DEF Release
<1>3. i - 1 \in 0 .. Len(savepoints)
  BY SMTT(60) DEF IInv, Typed, TypeOK
<1>4. /\ savepoints' \in Seq(SavepointRec)
      /\ DOMAIN savepoints' \subseteq DOMAIN savepoints
      /\ \A k \in DOMAIN savepoints' : savepoints'[k] = savepoints[k]
  BY <1>1, <1>3, PrefixOfSavepoints
<1>5. TypeOK'
  BY <1>2, <1>4, SMTT(60) DEF IInv, Typed, TypeOK, SavepointRec, durableVars, frameVars,
                    controlVars, ownVars
<1>6. ImagesOK'
  BY <1>2, <1>4 DEF IInv, Typed, ImagesOK, frameVars, controlVars
<1> QED
  BY <1>5, <1>6 DEF Typed

\* The map without copies is a map of frames, of spills and of shadows.
LEMMA NothingIsTyped ==
    /\ Nothing \in [Page -> SomeImage]
    /\ Nothing \in [Page -> MaybeDatum]
    /\ \A p \in Page : Nothing[p] = None
BY DEF Nothing, SomeImage, MaybeDatum

\* No transaction is a transaction record of empty fields.
LEMMA NoTxnIsTyped ==
    NoTxn \in [num : 0 .. MaxPages, len : 0 .. MaxPages, free : Seq(Page),
               owned : SUBSET Page]
BY PagerAssumption DEF NoTxn

\* pager_rollback.
LEMMA TypedRollback ==
    ASSUME IInv, Rollback
    PROVE  Typed'
<1> USE NothingIsTyped, NoTxnIsTyped DEF Rollback
<1>1. savepoints' = <<>> /\ savepoints' \in Seq(SavepointRec)
  OBVIOUS
<1>2. TypeOK'
  BY <1>1, ZenonT(60) DEF IInv, Typed, TypeOK, FileImage, SavepointRec, controlVars
<1>3. ImagesOK'
  BY <1>1 DEF IInv, Typed, ImagesOK, controlVars
<1> QED
  BY <1>2, <1>3 DEF Typed

\* The record that pager_commit appends holds images the client wrote.
LEMMA CommitImagesAreData ==
    ASSUME IInv
    PROVE  /\ CommitImages \in [Page -> MaybeDatum]
           /\ CommitLog \in [num : 0 .. MaxPages, free : Seq(Page),
                             present : BOOLEAN,
                             img : [Page -> FileImage \cup {None}]]
<1>1. CommitImages \in [Page -> MaybeDatum]
  BY ViewOfDirty DEF IInv, CommitImages, MaybeDatum
<1>2. /\ numPages \in 0 .. MaxPages /\ freePages \in Seq(Page)
      /\ wal.img \in [Page -> FileImage \cup {None}]
  BY DEF IInv, Typed, TypeOK
<1> QED
  BY <1>1, <1>2 DEF CommitLog, Logged, MaybeDatum, FileImage

\* The commit point of pager_commit.
LEMMA TypedSyncLog ==
    ASSUME IInv, SyncLog
    PROVE  Typed'
<1> USE CommitImagesAreData DEF SyncLog
<1>1. TypeOK'
  BY SMTT(60) DEF IInv, Typed, TypeOK, MaybeDatum, SomeImage, Image, txnVars
<1>2. ImagesOK'
  BY DEF IInv, Typed, ImagesOK, MaybeDatum, txnVars
<1> QED
  BY <1>1, <1>2 DEF Typed

\* The end of pager_commit.
LEMMA TypedEndCommit ==
    ASSUME IInv, EndCommit
    PROVE  Typed'
<1>1. savepoints' = <<>> /\ savepoints' \in Seq(SavepointRec)
  BY DEF EndCommit
<1>2. Absent \in FreeRec
  BY PagerAssumption DEF Absent, FreeRec
<1>3. TypeOK'
  BY <1>1, <1>2, NoTxnIsTyped DEF EndCommit, IInv, Typed, TypeOK, SomeImage,
                                  SavepointRec, ownVars
<1>4. \A p \in dirty' : p \in dirty /\ cache'[p] = cache[p] /\ spills'[p] = spills[p]
  BY PagerAssumption DEF EndCommit, IInv, Typed, TypeOK, Page
<1>5. shadows' = shadows /\ held' = held
  BY DEF EndCommit
<1>6. ImagesOK'
  BY <1>1, <1>4, <1>5 DEF IInv, Typed, ImagesOK
<1> QED
  BY <1>3, <1>6 DEF Typed

\* Whatever a sidecar may hold.
LEMMA SidecarsAreTyped ==
    ASSUME IInv
    PROVE  /\ Absent \in FreeRec
           /\ Torn \in FreeRec
           /\ ListToPersist \in FreeRec
BY PagerAssumption DEF IInv, Typed, TypeOK, Absent, Torn, Snapshot, FreeRec, ListToPersist

\* persist_free_list_snapshot.
LEMMA TypedPersist ==
    ASSUME IInv, WriteFreeWal \/ RemoveFree \/ RenameFree
    PROVE  Typed'
<1> USE SidecarsAreTyped DEF IInv, Typed, frameVars, txnVars, ownVars
<1>1. ImagesOK'
  BY DEF WriteFreeWal, RemoveFree, RenameFree, ImagesOK
<1>2. TypeOK'
  BY SMTT(60) DEF WriteFreeWal, RemoveFree, RenameFree, TypeOK
<1> QED
  BY <1>1, <1>2

\* pager_checkpoint holds back images the client wrote.
LEMMA TypedStartCheckpoint ==
    ASSUME IInv, NEW t \in Ckpt, StartCheckpoint(t)
    PROVE  Typed'
<1>1. held' \in [Page -> MaybeDatum]
  BY ViewOfDirty DEF IInv, StartCheckpoint, Overlap, MaybeDatum
<1>2. /\ pc' = "write" /\ task' = t
      /\ dirty' \subseteq dirty
      /\ UNCHANGED <<durableVars, numPages, cache, spills, shadows, freePages,
                     txnVars, stmt, ownVars>>
  BY DEF StartCheckpoint
<1>3. TypeOK'
  BY <1>1, <1>2 DEF IInv, Typed, TypeOK, Ckpt, MaybeDatum, SomeImage, Image,
                    durableVars, txnVars, ownVars
<1>4. ImagesOK'
  BY <1>1, <1>2 DEF IInv, Typed, ImagesOK, txnVars
<1> QED
  BY <1>3, <1>4 DEF Typed

\* What pager_checkpoint leaves in the file.
LEMMA FlushedIsTyped ==
    ASSUME IInv
    PROVE  Flushed \in [Page -> FileImage]
<1>1. \A p \in dirty : View(p) \in Datum
  BY ViewOfDirty DEF IInv
<1> QED
  BY <1>1 DEF Flushed, IInv, Typed, TypeOK, ImagesOK, MaybeDatum, FileImage

\* The legacy checkpoint's page writes.
LEMMA TypedFlushPages ==
    ASSUME IInv, FlushPages
    PROVE  Typed'
<1> USE NothingIsTyped, FlushedIsTyped DEF FlushPages
<1>1. TypeOK'
  BY DEF IInv, Typed, TypeOK, SomeImage, txnVars, ownVars
<1>2. ImagesOK'
  <2>1. \A p \in dirty' : /\ p \in dirty /\ p \in Page
                           /\ cache'[p] = cache[p] /\ spills'[p] = spills[p]
    BY DEF IInv, Typed, TypeOK, Page
  <2> QED
    BY <2>1 DEF IInv, Typed, ImagesOK, txnVars
<1> QED
  BY <1>1, <1>2 DEF Typed

\* An empty log is a log.
LEMMA NoWalIsTyped ==
    NoWal \in [num : 0 .. MaxPages, free : Seq(Page), present : BOOLEAN,
               img : [Page -> FileImage \cup {None}]]
BY PagerAssumption DEF NoWal, Nothing

\* The second pass of pager_checkpoint.
LEMMA TypedSecondPass ==
    ASSUME IInv, SecondPass
    PROVE  Typed'
<1> USE NothingIsTyped, NoWalIsTyped DEF SecondPass
<1>1. TypeOK'
  BY DEF IInv, Typed, TypeOK, SomeImage, txnVars, ownVars
<1>2. ImagesOK'
  BY DEF IInv, Typed, TypeOK, ImagesOK, MaybeDatum, txnVars
<1> QED
  BY <1>1, <1>2 DEF Typed

\* The ends of checkpoints and recovery, and the starts of COMMIT and db_open.
LEMMA TypedEndOfCheckpoint ==
    ASSUME IInv, \/ EndCheckpoint \/ EndBegin \/ EndDdlCheckpoint
                 \/ SaveCatalog \/ EndRecovery \/ Open \/ StartCommit
    PROVE  Typed'
<1> USE NoWalIsTyped DEF IInv, Typed, RemoveLog, durableVars, frameVars,
                         txnVars, controlVars, ownVars
<1>1. <<>> \in Seq(SavepointRec)
  OBVIOUS
<1>2. ImagesOK'
  BY <1>1 DEF ImagesOK, EndCheckpoint, EndBegin, EndDdlCheckpoint, SaveCatalog,
              EndRecovery, Open, StartCommit
<1>3. CASE EndCheckpoint
  BY <1>2, <1>3 DEF TypeOK, EndCheckpoint
<1>4. CASE EndBegin
  BY <1>1, <1>2, <1>4, SMTT(60) DEF TypeOK, EndBegin, SavepointRec
<1>5. CASE EndDdlCheckpoint \/ EndRecovery
  BY <1>2, <1>5, SMTT(60) DEF TypeOK, EndDdlCheckpoint, EndRecovery
<1>6. CASE SaveCatalog
  BY <1>2, <1>6, SMTT(60) DEF TypeOK, SaveCatalog
<1>7. CASE Open \/ StartCommit
  BY <1>2, <1>7, SMTT(60) DEF TypeOK, Open, StartCommit
<1> QED
  BY <1>3, <1>4, <1>5, <1>6, <1>7

\* What recover_wal leaves in the file.
LEMMA ReplayedIsTyped ==
    ASSUME IInv
    PROVE  Replayed(file, wal) \in [Page -> FileImage]
BY DEF IInv, Typed, TypeOK, Replayed, FileImage

\* recover_wal's replay.
LEMMA TypedReplayLog ==
    ASSUME IInv, ReplayLog
    PROVE  Typed'
<1>1. Replayed(file, wal) \in [Page -> FileImage]
  BY ReplayedIsTyped
<1>2. TypeOK'
  BY <1>1 DEF ReplayLog, IInv, Typed, TypeOK, frameVars, txnVars, ownVars
<1>3. ImagesOK'
  BY DEF ReplayLog, IInv, Typed, ImagesOK, frameVars, txnVars
<1> QED
  BY <1>2, <1>3 DEF Typed

\* What load_free_list_snapshot may hand to the pager.
LEMMA LoadedIsTyped ==
    ASSUME IInv, NEW n
    PROVE  LoadedFree(n) \in Seq(Page)
BY DEF IInv, Typed, TypeOK, FreeRec, LoadedFree

\* load_free_list_snapshot.
LEMMA TypedLoadFreeList ==
    ASSUME IInv, LoadFreeList
    PROVE  Typed'
<1>1. /\ LoadedFree(fileLen) \in Seq(Page)
      /\ Absent \in FreeRec
  BY LoadedIsTyped, SidecarsAreTyped
<1>2. TypeOK'
  BY <1>1 DEF LoadFreeList, IInv, Typed, TypeOK, frameVars, txnVars, ownVars
<1>3. ImagesOK'
  BY DEF LoadFreeList, IInv, Typed, ImagesOK, frameVars, txnVars
<1> QED
  BY <1>2, <1>3 DEF Typed

\* After the process has gone, only the files need types.
LEMMA TypedDown ==
    ASSUME NEW c, c = "closed", Down(c),
           file' \in [Page -> FileImage],
           fileLen' \in 0 .. MaxPages,
           wal' \in [num : 0 .. MaxPages, free : Seq(Page), present : BOOLEAN,
                    img : [Page -> FileImage \cup {None}]],
           freeFile' \in FreeRec,
           freeWal' \in FreeRec,
           cowned' \subseteq Page,
           leaked' \subseteq Page
    PROVE  Typed'
<1>1. <<>> \in Seq(Page) /\ <<>> \in Seq(SavepointRec)
  OBVIOUS
<1>2. TypeOK'
  <2>1. /\ numPages' = 0 /\ cache' = Nothing /\ dirty' = {} /\ spills' = Nothing
        /\ shadows' = Nothing /\ freePages' = <<>> /\ inTxn' = FALSE
        /\ txn' = NoTxn /\ savepoints' = <<>> /\ held' = Nothing
        /\ pc' = "closed" /\ task' = "none" /\ stmt' = "none"
        /\ owned' = cowned'
    BY DEF Down
  <2>2. /\ numPages' \in 0 .. MaxPages
        /\ cache' \in [Page -> SomeImage] /\ spills' \in [Page -> SomeImage]
        /\ shadows' \in [Page -> SomeImage] /\ held' \in [Page -> SomeImage]
        /\ txn' \in [num : 0 .. MaxPages, len : 0 .. MaxPages,
                     free : Seq(Page), owned : SUBSET Page]
        /\ freePages' \in Seq(Page)
        /\ savepoints' \in Seq(SavepointRec)
    BY <1>1, <2>1, NothingIsTyped, NoTxnIsTyped, PagerAssumption
  <2> QED
    BY <2>1, <2>2 DEF TypeOK, SavepointRec
<1>3. ImagesOK'
  BY <1>1, NothingIsTyped DEF Down, ImagesOK
<1> QED
  BY <1>2, <1>3 DEF Typed

\* The pages a crash would lose exist.
LEMMA OrphansArePages ==
    ASSUME NEW n \in 0 .. MaxPages, NEW F, NEW own
    PROVE  Orphans(n, F, own) \subseteq Page
BY PagerAssumption DEF Orphans, Below, Page

\* A crash leaves old, new or torn pages and sidecars.
LEMMA TypedCrash ==
    ASSUME IInv, Crash
    PROVE  Typed'
<1>1. file' \in [Page -> FileImage] /\ fileLen' \in 0 .. MaxPages
  <2>1. ASSUME NEW new \in [Page -> FileImage], NEW m \in 0 .. MaxPages,
               Unsynced(new, m)
        PROVE  file' \in [Page -> FileImage] /\ fileLen' \in 0 .. MaxPages
    BY <2>1, PagerAssumption DEF Unsynced, IInv, Typed, TypeOK, FileImage
  <2>2. Replayed(file, wal) \in [Page -> FileImage]
    BY ReplayedIsTyped
  <2>3. numPages \in 0 .. MaxPages /\ wal.num \in 0 .. MaxPages
        /\ file \in [Page -> FileImage] /\ fileLen \in 0 .. MaxPages
    BY DEF IInv, Typed, TypeOK
  <2> QED
    BY <2>1, <2>2, <2>3, FlushedIsTyped DEF Crash
<1>2. wal' \in [num : 0 .. MaxPages, free : Seq(Page), present : BOOLEAN,
               img : [Page -> FileImage \cup {None}]]
      /\ cowned' \subseteq Page
  BY CommitImagesAreData DEF Crash, IInv, Typed, TypeOK
<1>3. freeFile' \in FreeRec /\ freeWal' \in FreeRec
  BY SidecarsAreTyped DEF Crash, IInv, Typed, TypeOK
<1>4. leaked' \subseteq Page
  <2>1. RecNum' \in 0 .. MaxPages
    BY <1>1, <1>2 DEF RecNum
  <2> QED
    BY <2>1, OrphansArePages DEF Crash
<1> QED
  BY <1>1, <1>2, <1>3, <1>4, TypedDown DEF Crash

\* db_close and the checksum exit.
LEMMA TypedExit ==
    ASSUME IInv, ChecksumExit \/ EndClose
    PROVE  Typed'
<1>1. CASE ChecksumExit
  <2>1. RecNum \in 0 .. MaxPages
    BY DEF RecNum, IInv, Typed, TypeOK
  <2>2. leaked' \subseteq Page
    BY <1>1, <2>1, OrphansArePages DEF ChecksumExit
  <2> QED
    BY <1>1, <2>2, TypedDown DEF ChecksumExit, durableVars, IInv, Typed, TypeOK
<1>2. CASE EndClose
  BY <1>2, NoWalIsTyped, TypedDown DEF EndClose, IInv, Typed, TypeOK
<1> QED
  BY <1>1, <1>2

----------------------------------------------------------------------------
(* The steps of the operations, by what they leave alone *)

\* Statements and savepoints: no durable step.
ClientStep ==
    \/ \E p \in Page : Fetch(p) \/ Free(p)
    \/ \E d \in Datum : Claim(d) \/ Truncate(d) \/ CreateTable(d)
    \/ \E p \in Page, d \in Datum : Write(p, d)
    \/ \E n \in Name : Savepoint(n) \/ RollbackTo(n) \/ Release(n)

\* The process goes away.
ExitStep == EndClose \/ Crash \/ ChecksumExit

\* Every step keeps the types.
LEMMA TypedStep ==
    ASSUME IInv, Next
    PROVE  Typed'
<1>1. CASE ClientStep
  <2>1. ASSUME NEW d \in Datum, Claim(d) \/ CreateTable(d) PROVE Typed'
    <3>1. Running /\ Acquire(d) /\ Load(Unused, d)
          /\ stmt' \in {stmt, "dml", "ddl"}
          /\ UNCHANGED <<durableVars, shadows, txnVars, pc, task, held, cowned,
                         leaked>>
      BY <2>1 DEF Claim, CreateTable, MayChange, Acquire, Touch
    <3> QED
      BY <3>1, TypedClaim
  <2> QED
    BY <1>1, <2>1, TypedFetch, TypedFree, TypedTruncate, TypedWrite,
       TypedSavepoint, TypedRollbackTo, TypedRelease DEF ClientStep
<1>2. CASE Rollback \/ StartCommit \/ SyncLog \/ EndCommit
  BY <1>2, TypedRollback, TypedEndOfCheckpoint, TypedSyncLog, TypedEndCommit
<1>3. CASE WriteFreeWal \/ RemoveFree \/ RenameFree
  BY <1>3, TypedPersist
<1>4. ASSUME NEW t \in Ckpt, StartCheckpoint(t) PROVE Typed'
  BY <1>4, TypedStartCheckpoint
<1>5. CASE FlushPages \/ SecondPass
  BY <1>5, TypedFlushPages, TypedSecondPass
<1>6. CASE \/ EndCheckpoint \/ EndBegin \/ EndDdlCheckpoint \/ SaveCatalog
           \/ EndRecovery \/ Open
  BY <1>6, TypedEndOfCheckpoint
<1>7. CASE ReplayLog \/ LoadFreeList
  BY <1>7, TypedReplayLog, TypedLoadFreeList
<1>8. CASE ExitStep
  BY <1>8, TypedExit, TypedCrash DEF ExitStep
<1> QED
  BY <1>1, <1>2, <1>3, <1>4, <1>5, <1>6, <1>7, <1>8
  DEF Next, ClientStep, ExitStep, Ckpt

\* No step of the client is taken while an operation runs, and none of them
\* starts one.
LEMMA ClientFrame ==
    ASSUME ClientStep
    PROVE  /\ Running
           /\ UNCHANGED <<durableVars, inTxn, txn, pc, task, held, cowned>>
           /\ \/ stmt' = stmt
              \/ ~inTxn /\ stmt' = "dml" /\ stmt # "ddl"
              \/ ~inTxn /\ stmt' = "ddl" /\ stmt = "none"
BY DEF ClientStep, Fetch, Free, Claim, Truncate, CreateTable, Write, Savepoint,
       RollbackTo, Release, MayChange, Touch, durableVars, txnVars, controlVars,
       ownVars

\* What an exit leaves in memory.
LEMMA ExitFrame ==
    ASSUME ExitStep
    PROVE  /\ pc' = "closed" /\ task' = "none" /\ stmt' = "none"
           /\ inTxn' = FALSE /\ txn' = NoTxn /\ savepoints' = <<>>
           /\ dirty' = {} /\ held' = Nothing /\ owned' = cowned'
BY DEF ExitStep, EndClose, Crash, ChecksumExit, Down

\* Every step keeps the control state consistent.
LEMMA ControlStep ==
    ASSUME IInv, Next, "dotckpt" \notin Uses
    PROVE  Control'
<1> USE DEF IInv, Control, Recovering, Ckpt
<1>1. CASE ClientStep
  BY <1>1, ClientFrame DEF Running
<1>2. CASE Rollback \/ StartCommit \/ SyncLog \/ EndCommit
  BY <1>2 DEF Rollback, StartCommit, SyncLog, EndCommit, Running, controlVars,
              txnVars
<1>3. CASE WriteFreeWal \/ RemoveFree \/ RenameFree
  BY <1>3 DEF WriteFreeWal, RemoveFree, RenameFree, frameVars, txnVars
<1>4. ASSUME NEW t \in Ckpt, StartCheckpoint(t) PROVE Control'
  BY <1>4 DEF StartCheckpoint, Running, txnVars
<1>5. CASE FlushPages \/ SecondPass
  BY <1>5 DEF FlushPages, SecondPass, txnVars, Checkpointing
<1>6. CASE \/ EndCheckpoint \/ EndBegin \/ EndDdlCheckpoint \/ SaveCatalog
           \/ EndRecovery
  BY <1>6 DEF EndCheckpoint, EndBegin, EndDdlCheckpoint, SaveCatalog,
              EndRecovery, RemoveLog, Holding, frameVars, txnVars
<1>7. CASE Open \/ ReplayLog \/ LoadFreeList
  BY <1>7 DEF Open, ReplayLog, LoadFreeList, frameVars, txnVars
<1>8. CASE ExitStep
  BY <1>8, ExitFrame
<1> QED
  BY <1>1, <1>2, <1>3, <1>4, <1>5, <1>6, <1>7, <1>8
  DEF Next, ClientStep, ExitStep

----------------------------------------------------------------------------
(* Dirty pages exist *)

\* Every step keeps dirty pages below num_pages.
LEMMA BoundedStep ==
    ASSUME IInv, Next
    PROVE  Bounded'
<1>0. /\ numPages \in Nat
      /\ dirty \subseteq Page
      /\ savepoints \in Seq(SavepointRec)
  BY PagerAssumption DEF IInv, Typed, TypeOK, SavepointRec
<1>1. ASSUME NEW d \in Datum, Claim(d) \/ CreateTable(d) PROVE Bounded'
  <2>1. /\ Acquire(d) /\ Running /\ held' = held /\ savepoints' = savepoints
    BY <1>1 DEF Claim, CreateTable, MayChange, txnVars
  <2>2. /\ Unused \in Page /\ Unused < numPages'
        /\ numPages' \in numPages .. MaxPages
    BY <2>1, AcquireSound, Idle DEF IInv
  <2>3. dirty' = dirty \cup {Unused}
    BY <2>1 DEF Acquire
  <2>4. dirty' \subseteq Below(numPages')
    <3> DEFINE u == Unused
               m == numPages'
    <3>1. u \in Nat /\ m \in Nat /\ u < m /\ numPages <= m
      BY <1>0, <2>2, PagerAssumption DEF Page
    <3>2. dirty' = dirty \cup {u} /\ dirty \subseteq Below(numPages)
      BY <2>3 DEF IInv, Bounded
    <3> HIDE DEF u, m
    <3>3. u \in Below(m) /\ Below(numPages) \subseteq Below(m)
      BY <1>0, <3>1 DEF Below
    <3> QED
      BY <3>2, <3>3 DEF m
  <2>5. held' = Nothing
    BY <2>1, Idle
  <2> QED
    BY <2>1, <2>4, <2>5, NothingIsTyped DEF IInv, Bounded
<1>2. ASSUME NEW p \in Page, NEW d \in Datum, Write(p, d) PROVE Bounded'
  <2>1. p \in Below(numPages)
    BY <1>2, Idle DEF Write, MayChange, SoundFree
  <2> QED
    BY <1>2, <2>1 DEF IInv, Bounded, Write, txnVars, ownVars
<1>3. ASSUME NEW p \in Page, Fetch(p) \/ Free(p) PROVE Bounded'
  BY <1>3 DEF IInv, Bounded, Fetch, Free, txnVars, controlVars
<1>4. ASSUME NEW d \in Datum, Truncate(d) PROVE Bounded'
  <2>1. held' = Nothing /\ numPages' = 1 /\ dirty' = {0} /\ savepoints' = savepoints
    BY <1>4, Idle DEF Truncate, Shrunk, MayChange, txnVars
  <2> QED
    BY <2>1, NothingIsTyped DEF IInv, Bounded, Below
<1>5. ASSUME NEW n \in Name, Savepoint(n) PROVE Bounded'
  <2>1. PICK sp \in SavepointRec :
          /\ savepoints' = Append(savepoints, sp)
          /\ sp.dirty = dirty /\ sp.num = numPages
    <3> DEFINE new == [name |-> n, num |-> numPages, free |-> freePages,
                       dirty |-> dirty,
                       img |-> [p \in Page |-> IF p < numPages THEN View(p)
                                                ELSE None],
                       owned |-> owned]
    <3>1. savepoints' = Append(savepoints, new)
      BY <1>5 DEF Savepoint
    <3>2. savepoints'[Len(savepoints) + 1] = new
      BY <1>0, <3>1
    <3>3. new \in SavepointRec
      <4>1. Len(savepoints) + 1 \in DOMAIN savepoints'
        BY <1>0, <3>1
      <4>2. savepoints' \in Seq(SavepointRec)
        BY <1>5, TypedSavepoint DEF Typed, TypeOK, SavepointRec
      <4> QED
        BY <3>2, <4>1, <4>2, ElementOfSeq, LenProperties
    <3> QED
      BY <3>1, <3>3
  <2>2. /\ DOMAIN savepoints' = DOMAIN savepoints \cup {Len(savepoints) + 1}
        /\ savepoints'[Len(savepoints) + 1] = sp
        /\ \A i \in DOMAIN savepoints : savepoints'[i] = savepoints[i]
    BY <1>0, <2>1, AppendProperties
  <2>3. UNCHANGED <<dirty, numPages, held>>
    BY <1>5 DEF Savepoint, frameVars, controlVars
  <2> QED
    BY <2>1, <2>2, <2>3 DEF IInv, Bounded
<1>6. ASSUME NEW n \in Name, RollbackTo(n) PROVE Bounded'
  <2>1. PICK i \in DOMAIN savepoints :
          /\ dirty' = savepoints[i].dirty
          /\ numPages' = savepoints[i].num
          /\ savepoints' = SubSeq(savepoints, 1, i)
    BY <1>6 DEF RollbackTo
  <2>2. i \in 0 .. Len(savepoints)
    BY <1>0
  <2>3. /\ DOMAIN savepoints' \subseteq DOMAIN savepoints
        /\ \A k \in DOMAIN savepoints' : savepoints'[k] = savepoints[k]
    BY <2>1, <2>2, PrefixOfSavepoints
  <2>4. held' = Nothing
    BY <1>6, Idle DEF RollbackTo, controlVars
  <2> QED
    BY <2>1, <2>3, <2>4, NothingIsTyped DEF IInv, Bounded
<1>7. ASSUME NEW n \in Name, Release(n) PROVE Bounded'
  <2>1. PICK i \in DOMAIN savepoints : savepoints' = SubSeq(savepoints, 1, i - 1)
    BY <1>7 DEF Release, Newest
  <2>2. i - 1 \in 0 .. Len(savepoints)
    BY <1>0
  <2>3. /\ DOMAIN savepoints' \subseteq DOMAIN savepoints
        /\ \A k \in DOMAIN savepoints' : savepoints'[k] = savepoints[k]
    BY <2>1, <2>2, PrefixOfSavepoints, SMTT(60)
  <2> QED
    BY <1>7, <2>3 DEF IInv, Bounded, Release, frameVars, controlVars
<1>8. CASE Rollback
  <2>1. held' = Nothing /\ dirty' = {} /\ savepoints' = <<>>
    BY <1>8, Idle DEF Rollback, controlVars
  <2> QED
    BY <2>1, NothingIsTyped DEF Bounded
<1>9. CASE \/ StartCommit \/ SyncLog \/ EndCommit
           \/ WriteFreeWal \/ RemoveFree \/ RenameFree \/ FlushPages
  BY <1>9 DEF IInv, Bounded, StartCommit, SyncLog, EndCommit, WriteFreeWal,
              RemoveFree, RenameFree, FlushPages, frameVars, txnVars
<1>10. ASSUME NEW t \in Ckpt, StartCheckpoint(t) PROVE Bounded'
  <2>1. \A p \in Page : held'[p] # None => p < numPages
    BY <1>10 DEF StartCheckpoint, Overlap
  <2>2. dirty' \subseteq dirty /\ numPages' = numPages /\ savepoints' = savepoints
    BY <1>10 DEF StartCheckpoint, txnVars
  <2> QED
    BY <2>1, <2>2 DEF IInv, Bounded
<1>11. CASE SecondPass
  <2>1. /\ dirty' = dirty \cup {p \in Page : held[p] # None}
        /\ held' = Nothing /\ numPages' = numPages /\ savepoints' = savepoints
    BY <1>11 DEF SecondPass, txnVars
  <2>2. \A p \in Page : held[p] # None => p \in Below(numPages)
    BY <1>0, PagerAssumption DEF IInv, Bounded, Below, Page
  <2> QED
    BY <2>1, <2>2, NothingIsTyped DEF IInv, Bounded
<1>12. CASE EndCheckpoint \/ EndBegin \/ EndDdlCheckpoint \/ EndRecovery
  BY <1>12 DEF IInv, Bounded, EndCheckpoint, EndBegin, EndDdlCheckpoint,
               EndRecovery, RemoveLog, frameVars, txnVars
<1>13. CASE SaveCatalog \/ Open \/ ReplayLog
  BY <1>13 DEF IInv, Bounded, SaveCatalog, Open, ReplayLog, frameVars, txnVars
<1>14. CASE LoadFreeList
  <2>1. held = Nothing /\ dirty = {}
    BY <1>14 DEF IInv, Control, Ckpt, LoadFreeList, Recovering
  <2> QED
    BY <1>14, <2>1, NothingIsTyped
    DEF LoadFreeList, IInv, Bounded, frameVars, txnVars
<1>15. CASE ExitStep
  BY <1>15, ExitFrame, NothingIsTyped DEF Bounded
<1> QED
  BY <1>1, <1>2, <1>3, <1>4, <1>5, <1>6, <1>7, <1>8, <1>9, <1>10, <1>11,
     <1>12, <1>13, <1>14, <1>15
  DEF Next, ExitStep, Ckpt

----------------------------------------------------------------------------
(* The live list and the saved ones *)

\* Every step keeps the allocator sound.
LEMMA LiveSoundStep ==
    ASSUME IInv, Next
    PROVE  FreeListSound'
<1>0. /\ numPages \in Nat
      /\ freePages \in Seq(Page)
      /\ savepoints \in Seq(SavepointRec)
  BY PagerAssumption DEF IInv, Typed, TypeOK, SavepointRec
<1>1. ASSUME NEW d \in Datum, Claim(d) \/ CreateTable(d) PROVE FreeListSound'
  BY <1>1, AcquireSound, Idle DEF IInv, Claim, CreateTable, MayChange, FreeListSound
<1>2. ASSUME NEW p \in Page, Free(p) PROVE FreeListSound'
  <2>1. SoundFree(numPages, freePages, owned) /\ p \in owned \ {0}
    BY <1>2, Idle DEF Free, MayChange
  <2> QED
    BY <1>0, <1>2, <2>1, PushSound DEF Free, FreeListSound
<1>3. ASSUME NEW d \in Datum, Truncate(d) PROVE FreeListSound'
  <2>1. freePages' = <<>> /\ numPages' = 1 /\ owned' = owned \cap Below(1)
    BY <1>0, <1>3, Idle, KeptOfOne DEF Truncate, Shrunk, MayChange, SoundFree
  <2>2. SoundFree(1, <<>>, owned \cap Below(1))
    BY EmptyIsSound
  <2> QED
    BY <2>1, <2>2 DEF FreeListSound
<1>4. ASSUME NEW p \in Page, Fetch(p) \/ \E d \in Datum : Write(p, d)
      PROVE  FreeListSound'
  BY <1>4, Idle DEF Fetch, Write, MayChange, FreeListSound, ownVars
<1>5. ASSUME NEW n \in Name, Savepoint(n) \/ Release(n) PROVE FreeListSound'
  BY <1>5, Idle DEF Savepoint, Release, FreeListSound, ownVars
<1>6. ASSUME NEW n \in Name, RollbackTo(n) PROVE FreeListSound'
  BY <1>6 DEF RollbackTo, FreeListSound, IInv, SavedSound
<1>7. CASE Rollback
  BY <1>7 DEF Rollback, FreeListSound, IInv, SavedSound
<1>8. CASE StartCommit \/ SyncLog \/ EndCommit
  BY <1>8 DEF IInv, Control, Running, StartCommit, SyncLog, EndCommit,
              FreeListSound, Started, ownVars
<1>9. CASE WriteFreeWal \/ RemoveFree \/ RenameFree
  BY <1>9 DEF IInv, WriteFreeWal, RemoveFree, RenameFree, FreeListSound,
              Started, ownVars
<1>10. ASSUME NEW t \in Ckpt, StartCheckpoint(t) PROVE FreeListSound'
  BY <1>10, Idle DEF StartCheckpoint, FreeListSound, ownVars
<1>11. CASE FlushPages \/ SecondPass
  BY <1>11 DEF IInv, FlushPages, SecondPass, FreeListSound, Started, ownVars
<1>12. CASE EndCheckpoint \/ EndBegin \/ EndDdlCheckpoint \/ SaveCatalog
  BY <1>12 DEF IInv, Control, EndCheckpoint, EndBegin, EndDdlCheckpoint, SaveCatalog,
               RemoveLog, FreeListSound, Started, ownVars
<1>13. CASE EndRecovery \/ Open \/ ReplayLog
  BY <1>13 DEF EndRecovery, Open, ReplayLog, RemoveLog, IInv, Control,
               FreeListSound, Started
<1>14. CASE LoadFreeList
  <2>1. ~wal.present /\ owned = cowned
    BY <1>14 DEF LoadFreeList, IInv, Steps, Control, Ownership, Recovering
  <2>2. fileLen \in Nat /\ cowned \subseteq Below(fileLen)
    BY <2>1, PagerAssumption DEF IInv, DurableSound, Typed, TypeOK
  <2>3. SoundFree(fileLen, LoadedFree(fileLen), cowned)
    BY <2>1, <2>2, EmptyIsSound
    DEF LoadedFree, Accepts, IInv, DurableSound, Harmless, SoundFree
  <2> QED
    BY <1>14, <2>1, <2>3 DEF LoadFreeList, FreeListSound, ownVars
<1>15. CASE ExitStep
  BY <1>15, ExitFrame DEF FreeListSound, Started
<1> QED
  BY <1>1, <1>2, <1>3, <1>4, <1>5, <1>6, <1>7, <1>8, <1>9, <1>10, <1>11,
     <1>12, <1>13, <1>14, <1>15
  DEF Next, ExitStep, Ckpt

\* The list of no transaction is sound for no page.
LEMMA NoTxnIsSound == SoundFree(NoTxn.num, NoTxn.free, NoTxn.owned)
BY EmptyIsSound DEF NoTxn

\* The savepoints that stay on the stack keep their lists.
LEMMA SavedPrefixSound ==
    ASSUME IInv, NEW m \in 0 .. Len(savepoints),
           savepoints' = SubSeq(savepoints, 1, m), txn' = txn
    PROVE  SavedSound'
BY PrefixOfSavepoints DEF IInv, SavedSound

\* Every step keeps the lists of BEGIN and of the savepoints sound.
LEMMA SavedSoundStep ==
    ASSUME IInv, Next
    PROVE  SavedSound'
<1>0. savepoints \in Seq(SavepointRec)
  BY DEF IInv, Typed, TypeOK, SavepointRec
<1>1. ASSUME NEW n \in Name, Savepoint(n) PROVE SavedSound'
  <2> DEFINE new == savepoints'[Len(savepoints) + 1]
  <2>1. /\ DOMAIN savepoints' = DOMAIN savepoints \cup {Len(savepoints) + 1}
        /\ \A i \in DOMAIN savepoints : savepoints'[i] = savepoints[i]
        /\ new.num = numPages /\ new.free = freePages /\ new.owned = owned
    BY <1>0, <1>1 DEF Savepoint
  <2>2. txn' = txn /\ SoundFree(numPages, freePages, owned)
    BY <1>1, Idle DEF Savepoint
  <2> HIDE DEF new
  <2> QED
    BY <2>1, <2>2 DEF IInv, SavedSound, new
<1>2. ASSUME NEW n \in Name, RollbackTo(n) PROVE SavedSound'
  <2>1. PICK i \in DOMAIN savepoints : savepoints' = SubSeq(savepoints, 1, i)
    BY <1>2 DEF RollbackTo
  <2>2. i \in 0 .. Len(savepoints) /\ txn' = txn
    BY <1>0, <1>2 DEF RollbackTo
  <2> QED
    BY <2>1, <2>2, SavedPrefixSound
<1>3. ASSUME NEW n \in Name, Release(n) PROVE SavedSound'
  <2>1. PICK i \in DOMAIN savepoints : savepoints' = SubSeq(savepoints, 1, i - 1)
    BY <1>3 DEF Release, Newest
  <2>2. i - 1 \in 0 .. Len(savepoints) /\ txn' = txn
    BY <1>0, <1>3 DEF Release
  <2> QED
    BY <2>1, <2>2, SavedPrefixSound
<1>4. CASE Rollback \/ EndCommit \/ ExitStep
  <2>1. txn' = NoTxn /\ savepoints' = <<>>
    BY <1>4, ExitFrame DEF Rollback, EndCommit
  <2> QED
    BY <2>1, NoTxnIsSound DEF SavedSound, NoTxn
<1>5. CASE EndBegin
  <2>1. /\ txn'.num = numPages /\ txn'.len = fileLen
        /\ txn'.free = freePages /\ txn'.owned = owned
        /\ savepoints' = <<>>
    BY <1>5 DEF EndBegin
  <2>2. fileLen = numPages /\ SoundFree(numPages, freePages, owned)
    BY <1>5 DEF EndBegin, RemoveLog, IInv, Steps, Ckpt, FreeListSound, Started
  <2> QED
    BY <2>1, <2>2 DEF SavedSound
<1>6. CASE UNCHANGED <<txn, savepoints>>
  BY <1>6 DEF IInv, SavedSound
<1>7. ASSUME ~UNCHANGED <<txn, savepoints>>
      PROVE  \/ \E n \in Name : Savepoint(n) \/ RollbackTo(n) \/ Release(n)
             \/ Rollback \/ EndCommit \/ ExitStep \/ EndBegin
  BY <1>7 DEF Next, Fetch, Free, Claim, Truncate, CreateTable, Write,
     StartCommit, SyncLog, WriteFreeWal, RemoveFree, RenameFree,
     StartCheckpoint, FlushPages, SecondPass, EndCheckpoint, EndDdlCheckpoint,
     SaveCatalog, EndRecovery, Open, ReplayLog, LoadFreeList, ExitStep, txnVars
<1> QED
  BY <1>1, <1>2, <1>3, <1>4, <1>5, <1>6, <1>7

----------------------------------------------------------------------------
(* Owners, and the order of the durable steps *)

\* Every step keeps session and committed pages related.
LEMMA OwnershipStep ==
    ASSUME IInv, Next
    PROVE  Ownership'
<1> USE DEF IInv, Ownership, PastCommitPoint
<1>1. CASE ClientStep
  <2>1. /\ Running /\ task = "none"
        /\ UNCHANGED <<durableVars, inTxn, txn, pc, task, held, cowned>>
        /\ \/ stmt' = stmt
           \/ ~inTxn /\ stmt' = "dml" /\ stmt # "ddl"
           \/ ~inTxn /\ stmt' = "ddl" /\ stmt = "none"
    BY <1>1, ClientFrame, Idle
  <2>2. stmt' = "ddl" => stmt = "none" /\ ~inTxn /\ owned \subseteq owned'
    BY <1>1 DEF ClientStep, Fetch, Free, Claim, Truncate, CreateTable, Acquire,
       Write, Savepoint, RollbackTo, Release, MayChange, Touch, Running,
       Control, txnVars, controlVars, ownVars
  <2>3. ~inTxn /\ stmt' = "none" => owned' = owned
    BY <1>1 DEF ClientStep, Fetch, Free, Claim, Truncate, CreateTable,
       Write, Savepoint, RollbackTo, Release, MayChange, Touch, Running,
       ownVars
  <2> QED
    BY <2>1, <2>2, <2>3 DEF Running
<1>2. CASE Rollback
  BY <1>2 DEF Rollback, Running, Control, controlVars
<1>3. CASE StartCommit
  BY <1>3 DEF StartCommit, Running, txnVars, ownVars
<1>4. CASE SyncLog
  BY <1>4 DEF SyncLog, CommitLog, Logged, Control, txnVars
<1>5. CASE EndCommit
  BY <1>5 DEF EndCommit, ownVars
<1>6. CASE WriteFreeWal \/ RemoveFree \/ RenameFree
  BY <1>6 DEF WriteFreeWal, RemoveFree, RenameFree, txnVars, ownVars
<1>7. ASSUME NEW t \in Ckpt, StartCheckpoint(t) PROVE Ownership'
  BY <1>7 DEF StartCheckpoint, Running, Ckpt, txnVars, ownVars
<1>8. CASE FlushPages \/ SecondPass
  BY <1>8 DEF FlushPages, SecondPass, Control, Ckpt, Checkpointing, txnVars,
              ownVars
<1>9. CASE EndCheckpoint \/ EndBegin \/ EndDdlCheckpoint \/ EndRecovery
  BY <1>9 DEF EndCheckpoint, EndBegin, EndDdlCheckpoint, EndRecovery,
              RemoveLog, Control, Ckpt, txnVars, ownVars
<1>10. CASE SaveCatalog
  BY <1>10 DEF SaveCatalog, Control, Ckpt, txnVars
<1>11. CASE Open \/ ReplayLog \/ LoadFreeList
  BY <1>11 DEF Open, ReplayLog, LoadFreeList, Control, txnVars, ownVars
<1>12. CASE ExitStep
  BY <1>12, ExitFrame
<1> QED
  BY <1>1, <1>2, <1>3, <1>4, <1>5, <1>6, <1>7, <1>8, <1>9, <1>10, <1>11, <1>12
  DEF Next, ClientStep, ExitStep, Ckpt

\* Every durable step finds the ones before it done.
LEMMA StepsStep ==
    ASSUME IInv, Next
    PROVE  Steps'
<1> USE DEF IInv, Steps
<1>1. CASE ClientStep
  BY <1>1, ClientFrame DEF Running
<1>2. CASE Rollback \/ StartCommit \/ SyncLog \/ EndCommit
  BY <1>2 DEF Rollback, StartCommit, SyncLog, EndCommit, Control, Running,
              Ckpt, controlVars
<1>3. CASE WriteFreeWal \/ RemoveFree \/ RenameFree
  BY <1>3 DEF WriteFreeWal, RemoveFree, RenameFree, ListToPersist, Control
<1>4. ASSUME NEW t \in Ckpt, StartCheckpoint(t) PROVE Steps'
  BY <1>4 DEF StartCheckpoint
<1>5. CASE FlushPages \/ SecondPass
  BY <1>5 DEF FlushPages, SecondPass, Control, Ckpt
<1>6. CASE EndCheckpoint \/ EndBegin \/ EndDdlCheckpoint \/ EndRecovery
  BY <1>6 DEF EndCheckpoint, EndBegin, EndDdlCheckpoint, EndRecovery,
              RemoveLog, NoWal, ListToPersist, Ckpt
<1>7. CASE SaveCatalog \/ LoadFreeList
  BY <1>7 DEF SaveCatalog, LoadFreeList
<1>8. CASE Open \/ ReplayLog
  BY <1>8 DEF Open, ReplayLog, Control, Ckpt, durableVars
<1>9. CASE ExitStep
  BY <1>9, ExitFrame
<1> QED
  BY <1>1, <1>2, <1>3, <1>4, <1>5, <1>6, <1>7, <1>8, <1>9
  DEF Next, ClientStep, ExitStep, Ckpt

----------------------------------------------------------------------------
(* What a crash would leave *)

\* Every step keeps what a crash would leave sound.
LEMMA DurableStep ==
    ASSUME IInv, Next
    PROVE  DurableSound'
<1>0. /\ numPages \in 0 .. MaxPages /\ fileLen \in 0 .. MaxPages
      /\ wal.num \in 0 .. MaxPages /\ MaxPages \in Nat
  BY PagerAssumption DEF IInv, Typed, TypeOK
<1>1. ASSUME UNCHANGED <<durableVars, cowned>> PROVE DurableSound'
  BY <1>1 DEF IInv, DurableSound, Harmless, durableVars
<1>2. ASSUME SyncLog \/ (Crash /\ pc = "append" /\ wal' = CommitLog /\ cowned' = owned)
      PROVE  DurableSound'
  <2>1. wal' = CommitLog /\ cowned' = owned /\ pc = "append"
    BY <1>2 DEF SyncLog
  <2>2. SoundFree(numPages, freePages, owned)
    BY <2>1 DEF IInv, FreeListSound, Started, Control
  <2> QED
    BY <2>1, <2>2 DEF CommitLog, Logged, DurableSound
<1>3. CASE Rollback
  <2>1. txn.owned = cowned /\ txn.len = txn.num
        /\ SoundFree(txn.num, txn.free, txn.owned)
    BY <1>3 DEF Rollback, Running, IInv, Ownership, PastCommitPoint, SavedSound
  <2> QED
    BY <1>3, <2>1 DEF Rollback, IInv, DurableSound, Harmless, SoundFree
\* Whatever sidecar the running operation writes is harmless.
<1>5. ASSUME pc \in {"free1", "free2", "free3", "rmwal"}, ~wal.present
      PROVE  Harmless(ListToPersist)
  <2>1. task # "recover" /\ Started
    BY <1>5 DEF IInv, Steps, Started
  <2>2. cowned \subseteq owned
    BY <1>5, <2>1 DEF IInv, Ownership, Control, Ckpt, PastCommitPoint
  <2> QED
    BY <1>5, <2>1, <2>2
    DEF IInv, FreeListSound, SoundFree, Harmless, ListToPersist, Snapshot
<1>6. CASE WriteFreeWal \/ RemoveFree \/ RenameFree \/ EndCommit
  <2>1. UNCHANGED <<wal, cowned, fileLen>>
        /\ pc \in {"free1", "free2", "free3"}
        /\ freeFile' \in {freeFile, freeWal, Absent}
        /\ freeWal' \in {freeWal, ListToPersist, Absent}
    BY <1>6 DEF WriteFreeWal, RemoveFree, RenameFree, EndCommit, ownVars
  <2> QED
    BY <1>5, <2>1 DEF IInv, DurableSound, Harmless, Absent
<1>7. CASE FlushPages
  <2>1. UNCHANGED <<wal, freeFile, freeWal, cowned>> /\ fileLen' = numPages
    BY <1>7 DEF FlushPages, ownVars
  <2>2. cowned \subseteq owned /\ owned \subseteq Below(numPages)
    BY <1>7 DEF FlushPages, IInv, Ownership, Control, Ckpt, FreeListSound,
       SoundFree, Started
  <2> QED
    BY <2>1, <2>2 DEF IInv, DurableSound, Harmless
<1>8. ASSUME pc = "rmwal"
      PROVE  /\ cowned \subseteq Below(fileLen)
             /\ Harmless(freeFile)
             /\ Harmless(freeWal)
  <2>1. freeFile = ListToPersist /\ freeWal = Absent
    BY <1>8 DEF IInv, Steps
  <2>2. CASE task = "recover"
    BY <1>8, <2>1, <2>2 DEF IInv, Steps, DurableSound, SoundFree, Harmless,
       ListToPersist, Snapshot, Absent
  <2>3. CASE task # "recover"
    <3>1. /\ fileLen = numPages /\ cowned \subseteq owned
          /\ SoundFree(numPages, freePages, owned)
      BY <1>8, <2>3 DEF IInv, Steps, Control, Ckpt, Ownership, FreeListSound, Started
    <3> QED
      BY <2>1, <2>3, <3>1 DEF SoundFree, Harmless, ListToPersist, Snapshot, Absent
  <2> QED
    BY <2>2, <2>3
<1>9. CASE \/ SecondPass \/ EndCheckpoint \/ EndBegin \/ EndDdlCheckpoint
           \/ EndRecovery \/ EndClose
  <2>1. /\ pc = "rmwal" /\ ~wal'.present
        /\ UNCHANGED <<fileLen, freeFile, freeWal, cowned>>
    BY <1>9 DEF SecondPass, EndCheckpoint, EndBegin, EndDdlCheckpoint,
       EndRecovery, EndClose, RemoveLog, NoWal, ownVars
  <2> QED
    BY <1>8, <2>1 DEF DurableSound, Harmless
<1>10. CASE SaveCatalog
  <2>1. /\ ~wal.present /\ fileLen = numPages
        /\ freeFile = Snapshot(numPages, freePages) /\ freeWal = Absent
        /\ SoundFree(numPages, freePages, owned)
    BY <1>10 DEF SaveCatalog, IInv, Steps, Control, FreeListSound, Started
  <2>2. UNCHANGED durableVars /\ cowned' = owned
    BY <1>10 DEF SaveCatalog
  <2> QED
    BY <2>1, <2>2 DEF DurableSound, Harmless, SoundFree, Snapshot, Absent, durableVars
<1>11. CASE ReplayLog
  <2>1. wal.present /\ UNCHANGED <<wal, freeFile, freeWal, cowned>>
    BY <1>11 DEF ReplayLog, IInv, Steps, ownVars
  <2> QED
    BY <2>1 DEF IInv, DurableSound
<1>12. CASE LoadFreeList
  <2>1. /\ UNCHANGED <<wal, fileLen, cowned>>
        /\ freeFile' \in {freeFile, freeWal} /\ freeWal' \in {freeWal, Absent}
    BY <1>12 DEF LoadFreeList, ownVars
  <2> QED
    BY <2>1 DEF IInv, DurableSound, Harmless, Absent
<1>13. ASSUME Crash, ~(pc = "append" /\ wal' = CommitLog /\ cowned' = owned)
       PROVE  DurableSound'
  <2>1. UNCHANGED <<wal, cowned>>
    BY <1>13 DEF Crash
  <2>2. CASE wal.present
    BY <2>1, <2>2 DEF IInv, DurableSound
  <2>3. CASE ~wal.present
    <3>1. Harmless(freeWal') /\ Harmless(freeFile')
      BY <1>5, <1>13, <2>3 DEF Crash, IInv, DurableSound, Harmless, Torn, Absent
    <3>2. cowned \subseteq Below(fileLen')
      <4>1. CASE pc = "write"
        <5>1. Unsynced(Flushed, numPages)
          BY <1>13, <4>1 DEF Crash
        <5>2. fileLen' \in Nat /\ (numPages <= fileLen' \/ fileLen <= fileLen')
          BY <1>0, <5>1 DEF Unsynced
        <5>3. cowned \subseteq Below(numPages)
          BY <4>1 DEF IInv, Ownership, Control, Ckpt, FreeListSound,
             SoundFree, Started
        <5>4. cowned \subseteq Below(fileLen)
          BY <2>3 DEF IInv, DurableSound
        <5>5. ASSUME NEW n \in Nat, NEW m \in Nat, n <= m
              PROVE  Below(n) \subseteq Below(m)
          BY <5>5 DEF Below
        <5> QED
          BY <1>0, <5>2, <5>3, <5>4, <5>5
      <4>2. CASE pc # "write"
        BY <1>13, <2>3, <4>2 DEF Crash, IInv, DurableSound, Steps
      <4> QED
        BY <4>1, <4>2
    <3> QED
      BY <2>1, <2>3, <3>1, <3>2 DEF DurableSound, Harmless
  <2> QED
    BY <2>2, <2>3
<1>14. CASE ClientStep
  BY <1>1, <1>14, ClientFrame
<1>15. CASE StartCommit \/ Open \/ ChecksumExit
  BY <1>1, <1>15 DEF StartCommit, Open, ChecksumExit, ownVars
<1>16. ASSUME NEW t \in Ckpt, StartCheckpoint(t) PROVE DurableSound'
  BY <1>1, <1>16 DEF StartCheckpoint, ownVars
<1> QED
  BY <1>2, <1>3, <1>6, <1>7, <1>9, <1>10, <1>11, <1>12, <1>13, <1>14, <1>15, <1>16
  DEF Next, ClientStep, Ckpt

----------------------------------------------------------------------------
(* The theorems *)

\* A cleanly closed database satisfies the inductive invariant.
LEMMA InitIInv ==
    ASSUME Init
    PROVE  IInv
<1> USE DEF Init
<1>0. /\ MaxPages \in Nat \ {0} /\ 0 \in Page
      /\ Below(1) = {0}
  BY PagerAssumption DEF Page, Below
<1>1. <<>> \in Seq(Page) /\ <<>> \in Seq(SavepointRec)
  OBVIOUS
<1>2. TypeOK
  <2>1. freeFile \in FreeRec /\ freeWal \in FreeRec
    BY <1>0, <1>1 DEF Snapshot, Absent, FreeRec
  <2> QED
    BY <1>0, <1>1, <2>1, NothingIsTyped, NoTxnIsTyped, NoWalIsTyped, SMTT(60)
    DEF TypeOK, FileImage, SavepointRec
<1>3. ImagesOK
  BY NothingIsTyped DEF ImagesOK
<1>4. Control
  BY DEF Control, Recovering, Ckpt
<1>5. Bounded
  BY NothingIsTyped DEF Bounded, Below
<1>6. Ownership
  BY DEF Ownership, PastCommitPoint
<1>7. Steps
  BY DEF Steps
<1>8. FreeListSound
  BY DEF FreeListSound, Started
<1>9. SavedSound
  BY NoTxnIsSound DEF SavedSound, NoTxn
<1>10. DurableSound
  <2>1. SoundFree(1, <<>>, {0})
    BY <1>0, EmptyIsSound
  <2> QED
    BY <2>1 DEF DurableSound, NoWal, Harmless, Snapshot, Absent, SoundFree
<1> QED
  BY <1>2, <1>3, <1>4, <1>5, <1>6, <1>7, <1>8, <1>9, <1>10 DEF IInv, Typed

\* Every step preserves the inductive invariant.
LEMMA NextIInv ==
    ASSUME IInv, [Next]_vars, "dotckpt" \notin Uses
    PROVE  IInv'
<1>1. CASE Next
  BY <1>1, TypedStep, ControlStep, BoundedStep, OwnershipStep, StepsStep,
     LiveSoundStep, SavedSoundStep, DurableStep DEF IInv
<1>2. CASE UNCHANGED vars
  <2> USE DEF vars, durableVars, frameVars, txnVars, controlVars, ownVars, IInv
  <2>1. Typed'
    BY <1>2 DEF Typed, TypeOK, ImagesOK
  <2>2. Control' /\ Bounded' /\ Ownership'
    BY <1>2 DEF Control, Bounded, Ownership, Recovering, PastCommitPoint
  <2>3. Steps' /\ FreeListSound' /\ SavedSound' /\ DurableSound'
    BY <1>2 DEF Steps, ListToPersist, FreeListSound, Started, SavedSound,
                DurableSound, Harmless
  <2> QED
    BY <2>1, <2>2, <2>3
<1> QED
  BY <1>1, <1>2

\* The inductive invariant holds in every behaviour in which no .checkpoint
\* is typed inside a transaction.
THEOREM InvariantHolds ==
    ASSUME "dotckpt" \notin Uses
    PROVE  Spec => []IInv
BY InitIInv, NextIInv, PTL DEF Spec

\* Every variable keeps its type.
THEOREM TypesHold ==
    ASSUME "dotckpt" \notin Uses
    PROVE  Spec => []TypeOK
<1>1. IInv => TypeOK
  BY DEF IInv, Typed
<1> QED
  BY <1>1, InvariantHolds, PTL

\* Eviction never loses the only copy of an uncommitted page.
THEOREM DirtyPagesHaveImages ==
    ASSUME "dotckpt" \notin Uses
    PROVE  Spec => []DirtyHasImage
<1>1. IInv => DirtyHasImage
  BY PagerAssumption DEF IInv, Typed, ImagesOK, DirtyHasImage
<1> QED
  BY <1>1, InvariantHolds, PTL

\* The allocator never holds a page twice, the root, or a page in use.
THEOREM FreeListIsSound ==
    ASSUME "dotckpt" \notin Uses
    PROVE  Spec => []FreeListSound
<1>1. IInv => FreeListSound
  BY DEF IInv
<1> QED
  BY <1>1, InvariantHolds, PTL

\* A crash at any point, in recovery too, leaves a free list that cannot give
\* a page of a committed tree away.
THEOREM RecoveredFreeListIsSound ==
    ASSUME "dotckpt" \notin Uses
    PROVE  Spec => []RecoveredFreeListSound
<1>1. ASSUME IInv PROVE RecoveredFreeListSound
  <2>1. CASE wal.present
    BY <1>1, <2>1 DEF IInv, DurableSound, RecoveredFreeListSound, RecNum, RecFree
  <2>2. CASE ~wal.present
    <3>1. cowned \subseteq Below(fileLen) /\ fileLen \in Nat
      BY <1>1, <2>2, PagerAssumption DEF IInv, DurableSound, Typed, TypeOK
    <3>2. SoundFree(fileLen, LoadedFree(fileLen), cowned)
      BY <1>1, <2>2, <3>1, EmptyIsSound
      DEF IInv, DurableSound, Harmless, LoadedFree, Accepts, SoundFree
    <3> QED
      BY <2>2, <3>2 DEF RecoveredFreeListSound, RecNum, RecFree
  <2> QED
    BY <2>1, <2>2
<1> QED
  BY <1>1, InvariantHolds, PTL

----------------------------------------------------------------------------
(* No page is lost while the process runs, and only a crash inside CREATE  *)
(* TABLE loses one: the inductive invariant                                *)

\* Below n every page is in use, free, or was lost to an earlier crash.
Accounted(n, F, own) == Below(n) \subseteq own \cup Elements(F) \cup leaked

SavedAccounted ==
    /\ Accounted(txn.num, txn.free, txn.owned)
    /\ \A i \in DOMAIN savepoints :
          Accounted(savepoints[i].num, savepoints[i].free, savepoints[i].owned)

\* The lists that rollbacks bring back account for their pages, and so does,
\* from a crash or a close until the database is open again, the durable list.
LossInv ==
    /\ NoPageLost
    /\ SavedAccounted
    /\ ~Started => Accounted(RecNum, RecFree, cowned)

----------------------------------------------------------------------------
(* No page is lost: the free stack                                         *)

\* pager_free_page: a page that is not in use any more is free.
LEMMA PushAccounts ==
    ASSUME NEW n, NEW F \in Seq(Page), NEW own, NEW p \in Page, Accounted(n, F, own)
    PROVE  Accounted(n, Append(F, p), own \ {p})
<1> DEFINE G == Append(F, p)
<1>1. /\ DOMAIN F = 1 .. Len(F) /\ Len(F) \in Nat
      /\ DOMAIN G = 1 .. Len(F) + 1
      /\ \A i \in 1 .. Len(F) : G[i] = F[i]
      /\ G[Len(F) + 1] = p
  BY AppendProperties
<1> HIDE DEF G
<1>2. Elements(F) \subseteq Elements(G) /\ p \in Elements(G)
  BY <1>1 DEF Elements
<1> QED
  BY <1>2 DEF Accounted, G

\* The page taken off the stack is in use.
LEMMA PopAccounts ==
    ASSUME NEW n, NEW F \in Seq(Page), F # <<>>, NEW own, Accounted(n, F, own)
    PROVE  Accounted(n, SubSeq(F, 1, Len(F) - 1), own \cup {F[Len(F)]})
<1> DEFINE G == SubSeq(F, 1, Len(F) - 1)
<1>1. /\ Len(F) \in Nat \ {0} /\ DOMAIN F = 1 .. Len(F)
      /\ DOMAIN G = 1 .. Len(F) - 1
      /\ \A i \in 1 .. Len(F) - 1 : G[i] = F[i]
  BY EmptySeq, LenProperties, SMTT(60)
<1> HIDE DEF G
<1>2. Elements(F) \subseteq Elements(G) \cup {F[Len(F)]}
  <2>1. \A i \in 1 .. Len(F) : i \in 1 .. Len(F) - 1 \/ i = Len(F)
    <3>1. \A m \in Nat \ {0} : \A i \in 1 .. m : i \in 1 .. m - 1 \/ i = m
      OBVIOUS
    <3> QED
      BY <1>1, <3>1, ZenonT(60)
  <2> QED
    BY <1>1, <2>1, ZenonT(60) DEF Elements
<1> QED
  BY <1>2 DEF Accounted, G

\* get_unused_page_num: the page handed out, from the stack or from the end of
\* the file, is in use from then on.
LEMMA AcquireAccounts ==
    ASSUME IInv, Running, NEW d, Acquire(d), Accounted(numPages, freePages, owned)
    PROVE  Accounted(numPages', freePages', owned')
<1>0. /\ numPages \in 0 .. MaxPages /\ MaxPages \in Nat /\ freePages \in Seq(Page)
      /\ SoundFree(numPages, freePages, owned)
  BY PagerAssumption, Idle DEF IInv, Typed, TypeOK
<1>1. CASE freePages = <<>>
  <2>1. /\ numPages' = numPages + 1 /\ freePages' = freePages
        /\ owned' = owned \cup {numPages}
    BY <1>0, <1>1 DEF Acquire, Unused, PopFree
  <2>2. Below(numPages + 1) = Below(numPages) \cup {numPages}
    BY <1>0 DEF Below
  <2> QED
    BY <2>1, <2>2 DEF Accounted
<1>2. CASE freePages # <<>>
  <2>1. freePages[Len(freePages)] \in Below(numPages)
    BY <1>0, <1>2, TopExists
  <2>2. /\ numPages' = numPages
        /\ freePages' = SubSeq(freePages, 1, Len(freePages) - 1)
        /\ owned' = owned \cup {freePages[Len(freePages)]}
    BY <1>0, <1>2, <2>1 DEF Acquire, Unused, PopFree, Below
  <2> QED
    BY <1>0, <1>2, <2>2, PopAccounts
<1> QED
  BY <1>1, <1>2

----------------------------------------------------------------------------
(* No page is lost: the steps                                              *)

Ledger == <<numPages, freePages, owned, leaked, txn, savepoints>>

\* The steps of COMMIT, checkpoint and recovery between their ends, and a
\* statement that only reads or rewrites pages.
Quiet ==
    \/ \E p \in Page : Fetch(p) \/ \E d \in Datum : Write(p, d)
    \/ StartCommit \/ SyncLog
    \/ WriteFreeWal \/ RemoveFree \/ RenameFree
    \/ \E t \in Ckpt : StartCheckpoint(t)
    \/ FlushPages \/ SecondPass \/ EndCheckpoint \/ EndDdlCheckpoint \/ SaveCatalog
    \/ Open \/ ReplayLog \/ EndRecovery

\* They change none of the lists.
LEMMA QuietFrame ==
    ASSUME Quiet
    PROVE  UNCHANGED Ledger
BY DEF Quiet, Ledger, Fetch, Write, StartCommit, SyncLog, WriteFreeWal, RemoveFree, RenameFree,
   StartCheckpoint, FlushPages, SecondPass, EndCheckpoint, EndDdlCheckpoint, SaveCatalog,
   Open, ReplayLog, EndRecovery, RemoveLog, txnVars, ownVars

\* Among them, recovery keeps what the durable files say.
LEMMA QuietKeepsDurable ==
    ASSUME IInv, Quiet, ~Started'
    PROVE  ~Started /\ RecNum' = RecNum /\ RecFree' = RecFree /\ cowned' = cowned
<1> USE DEF IInv, Control, Steps, Started, RecNum, RecFree, Ckpt
<1>1. CASE \/ \E p \in Page : Fetch(p) \/ \E d \in Datum : Write(p, d)
           \/ StartCommit \/ SyncLog \/ FlushPages
           \/ SecondPass \/ EndCheckpoint \/ EndDdlCheckpoint \/ SaveCatalog
           \/ \E t \in Ckpt : StartCheckpoint(t)
  BY <1>1 DEF Fetch, Write, StartCommit, SyncLog, FlushPages, SecondPass, EndCheckpoint,
     EndDdlCheckpoint, SaveCatalog, StartCheckpoint, MayChange, Running, RemoveLog, Checkpointing,
     controlVars
<1>2. CASE WriteFreeWal \/ RemoveFree \/ RenameFree
  BY <1>2 DEF WriteFreeWal, RemoveFree, RenameFree, ownVars
<1>3. CASE Open
  BY <1>3 DEF Open, durableVars, ownVars, LoadedFree, Accepts
<1>4. CASE ReplayLog
  BY <1>4 DEF ReplayLog, ownVars
<1>5. CASE EndRecovery
  <2>1. /\ wal.present /\ fileLen = wal.num /\ pc = "rmwal" /\ task = "recover"
        /\ freeFile = Snapshot(wal.num, wal.free) /\ freeWal = Absent
    BY <1>5 DEF EndRecovery, RemoveLog, ListToPersist
  <2>2. /\ wal' = NoWal /\ UNCHANGED <<fileLen, freeFile, freeWal, cowned>>
    BY <1>5 DEF EndRecovery, RemoveLog, ownVars
  <2>3. LoadedFree(fileLen)' = wal.free
    BY <2>1, <2>2 DEF LoadedFree, Accepts, Snapshot, Absent
  <2> QED
    BY <1>5, <2>1, <2>2, <2>3 DEF NoWal, EndRecovery, RemoveLog
<1> QED
  BY <1>1, <1>2, <1>3, <1>4, <1>5 DEF Quiet

\* The process goes away: an exit that leaves pages behind records them as
\* leaked, and a close leaves none.
LEMMA ExitAccounts ==
    ASSUME IInv, LossInv, ExitStep
    PROVE  LossInv'
<1>1. /\ pc' = "closed" /\ txn' = NoTxn /\ savepoints' = <<>>
  BY ExitFrame
<1>2. NoPageLost' /\ SavedAccounted'
  BY <1>1 DEF NoPageLost, Started, SavedAccounted, Accounted, NoTxn, Below
<1>3. Accounted(RecNum, RecFree, cowned)'
  <2>1. CASE Crash
    BY <2>1 DEF Crash, Orphans, Accounted
  <2>2. CASE ChecksumExit
    <3>1. /\ leaked' = Orphans(RecNum, RecFree, cowned)
          /\ UNCHANGED <<wal, fileLen, freeFile, freeWal, cowned>>
      BY <2>2 DEF ChecksumExit, durableVars
    <3>2. RecNum' = RecNum /\ RecFree' = RecFree
      BY <3>1 DEF RecNum, RecFree, LoadedFree, Accepts
    <3> QED
      BY <3>1, <3>2 DEF Orphans, Accounted
  <2>3. CASE EndClose
    <3>1. /\ Started /\ owned = cowned
          /\ fileLen = numPages /\ freeFile = Snapshot(numPages, freePages) /\ freeWal = Absent
      BY <2>3 DEF EndClose, IInv, Control, Ownership, Steps, Started, Ckpt, ListToPersist
    <3>2. wal' = NoWal /\ UNCHANGED <<fileLen, freeFile, freeWal, cowned, leaked>>
      BY <2>3 DEF EndClose
    <3>3. RecNum' = numPages /\ RecFree' = freePages
      BY <3>1, <3>2 DEF RecNum, RecFree, LoadedFree, Accepts, Snapshot, Absent, NoWal
    <3> QED
      BY <3>1, <3>2, <3>3 DEF LossInv, NoPageLost, Accounted
  <2> QED
    BY <2>1, <2>2, <2>3 DEF ExitStep
<1> QED
  BY <1>2, <1>3 DEF LossInv

\* The steps that end inside a running process.
LEMMA LiveAccounts ==
    ASSUME IInv, NoPageLost, SavedAccounted, Running \/ EndBegin \/ EndCommit, Next,
           ~Quiet, ~ExitStep
    PROVE  Started' /\ NoPageLost' /\ SavedAccounted'
<1>0. /\ savepoints \in Seq(SavepointRec)
      /\ numPages \in Nat /\ freePages \in Seq(Page) /\ owned \subseteq Page
  BY PagerAssumption DEF IInv, Typed, TypeOK, SavepointRec
<1>1. Running => Started /\ Accounted(numPages, freePages, owned)
                 /\ SoundFree(numPages, freePages, owned)
  BY Idle DEF NoPageLost, Accounted
<1>2. ASSUME NEW p \in Page, Free(p) PROVE Started' /\ NoPageLost' /\ SavedAccounted'
  <2>1. /\ Running /\ UNCHANGED <<numPages, pc, task, leaked, txn, savepoints>>
        /\ freePages' = Append(freePages, p) /\ owned' = owned \ {p}
    BY <1>2 DEF Free, MayChange, txnVars
  <2> QED
    BY <1>0, <1>1, <2>1, PushAccounts DEF NoPageLost, Accounted, Started, SavedAccounted
<1>3. ASSUME NEW d \in Datum, Claim(d) \/ CreateTable(d)
      PROVE  Started' /\ NoPageLost' /\ SavedAccounted'
  <2>1. Running /\ Acquire(d) /\ UNCHANGED <<pc, task, leaked, txn, savepoints>>
    BY <1>3 DEF Claim, CreateTable, MayChange, txnVars
  <2> QED
    BY <1>1, <2>1, AcquireAccounts DEF NoPageLost, Accounted, Started, SavedAccounted
<1>4. ASSUME NEW d \in Datum, Truncate(d) PROVE Started' /\ NoPageLost' /\ SavedAccounted'
  <2>1. /\ Running /\ UNCHANGED <<pc, task, leaked, txn, savepoints>>
        /\ numPages > 1 /\ numPages' = 1 /\ owned' = owned \cap Below(1)
    BY <1>4 DEF Truncate, Shrunk, MayChange, txnVars
  <2>2. Below(1) = {0} /\ 0 \in Below(numPages)
    BY <1>0, <2>1 DEF Below
  <2>3. 0 \in owned \cup leaked
    BY <1>1, <2>1, <2>2 DEF Accounted, SoundFree, ValidFreeList
  <2> QED
    BY <1>1, <2>1, <2>2, <2>3 DEF NoPageLost, Started, SavedAccounted, Accounted
<1>5. ASSUME NEW n \in Name, Savepoint(n) PROVE Started' /\ NoPageLost' /\ SavedAccounted'
  <2> DEFINE new == savepoints'[Len(savepoints) + 1]
  <2>1. /\ DOMAIN savepoints' = DOMAIN savepoints \cup {Len(savepoints) + 1}
        /\ \A i \in DOMAIN savepoints : savepoints'[i] = savepoints[i]
        /\ new.num = numPages /\ new.free = freePages /\ new.owned = owned
    BY <1>0, <1>5 DEF Savepoint
  <2>2. /\ Running
        /\ UNCHANGED <<numPages, freePages, txn, pc, task, owned, leaked>>
    BY <1>5 DEF Savepoint, controlVars, ownVars
  <2> HIDE DEF new
  <2>3. SavedAccounted'
    BY <1>1, <2>1, <2>2 DEF SavedAccounted, Accounted, new
  <2> QED
    BY <1>1, <2>2, <2>3 DEF NoPageLost, Started
<1>6. ASSUME NEW n \in Name, RollbackTo(n) PROVE Started' /\ NoPageLost' /\ SavedAccounted'
  <2>1. PICK i \in DOMAIN savepoints :
           /\ savepoints' = SubSeq(savepoints, 1, i)
           /\ numPages' = savepoints[i].num /\ freePages' = savepoints[i].free
           /\ owned' = savepoints[i].owned
    BY <1>6 DEF RollbackTo
  <2>2. Running /\ UNCHANGED <<txn, pc, task, leaked>>
    BY <1>6 DEF RollbackTo, controlVars
  <2>3. i \in 0 .. Len(savepoints)
    BY <1>0
  <2>4. /\ DOMAIN savepoints' \subseteq DOMAIN savepoints
        /\ \A j \in DOMAIN savepoints' : savepoints'[j] = savepoints[j]
    BY <2>1, <2>3, PrefixOfSavepoints
  <2> QED
    BY <1>1, <2>1, <2>2, <2>4 DEF NoPageLost, Started, SavedAccounted, Accounted
<1>7. ASSUME NEW n \in Name, Release(n) PROVE Started' /\ NoPageLost' /\ SavedAccounted'
  <2>1. PICK i \in DOMAIN savepoints : savepoints' = SubSeq(savepoints, 1, i - 1)
    BY <1>7 DEF Release, Newest
  <2>2. Running /\ UNCHANGED <<numPages, freePages, txn, pc, task, owned, leaked>>
    BY <1>7 DEF Release, controlVars, ownVars
  <2>3. i - 1 \in 0 .. Len(savepoints)
    BY <1>0
  <2>4. /\ DOMAIN savepoints' \subseteq DOMAIN savepoints
        /\ \A j \in DOMAIN savepoints' : savepoints'[j] = savepoints[j]
    BY <2>1, <2>3, PrefixOfSavepoints
  <2> QED
    BY <1>1, <2>2, <2>4 DEF NoPageLost, Started, SavedAccounted, Accounted
<1>8. CASE Rollback
  <2>1. /\ Running /\ UNCHANGED <<pc, task, leaked>>
        /\ numPages' = txn.num /\ freePages' = txn.free /\ owned' = txn.owned
        /\ txn' = NoTxn /\ savepoints' = <<>>
    BY <1>8 DEF Rollback, controlVars
  <2> QED
    BY <1>1, <2>1 DEF NoPageLost, Started, SavedAccounted, Accounted, NoTxn, Below
<1>9. CASE EndBegin
  <2>1. /\ Started /\ pc' = "idle" /\ task' = "none"
        /\ UNCHANGED <<numPages, freePages, owned, leaked>>
        /\ txn'.num = numPages /\ txn'.free = freePages /\ txn'.owned = owned
        /\ savepoints' = <<>>
    BY <1>9 DEF EndBegin, RemoveLog, Started, ownVars
  <2> QED
    BY <2>1 DEF NoPageLost, Started, SavedAccounted, Accounted
<1>10. CASE EndCommit
  <2>1. /\ Started /\ pc' = "idle" /\ task' = "none"
        /\ UNCHANGED <<numPages, freePages, owned, leaked>>
        /\ txn' = NoTxn /\ savepoints' = <<>>
    BY <1>10 DEF EndCommit, Started, ownVars
  <2> QED
    BY <2>1 DEF NoPageLost, Started, SavedAccounted, Accounted, NoTxn, Below
<1> QED
  BY <1>2, <1>3, <1>4, <1>5, <1>6, <1>7, <1>8, <1>9, <1>10
  DEF Next, Quiet, ExitStep, Ckpt, LoadFreeList, Running, EndBegin, EndCommit, RemoveLog

\* The end of recovery: the session takes over what the durable files say.
LEMMA LoadAccounts ==
    ASSUME IInv, LossInv, LoadFreeList
    PROVE  LossInv'
<1>1. /\ ~Started /\ ~wal.present /\ owned = cowned
  BY DEF LoadFreeList, IInv, Control, Steps, Ownership, Recovering, Started
<1>2. /\ numPages' = RecNum /\ freePages' = RecFree
      /\ pc' = "idle" /\ task' = "none"
      /\ UNCHANGED <<txn, savepoints, owned, leaked>>
  BY <1>1 DEF LoadFreeList, RecNum, RecFree, txnVars, ownVars
<1>3. Accounted(RecNum, RecFree, cowned) /\ SavedAccounted
  BY <1>1 DEF LossInv
<1> QED
  BY <1>1, <1>2, <1>3 DEF LossInv, NoPageLost, Started, SavedAccounted, Accounted

\* Every step keeps the account.
LEMMA NextLossInv ==
    ASSUME IInv, LossInv, [Next]_vars
    PROVE  LossInv'
<1>1. CASE Quiet
  <2>1. UNCHANGED Ledger
    BY <1>1, QuietFrame
  <2>2. SavedAccounted'
    BY <2>1 DEF LossInv, SavedAccounted, Accounted, Ledger
  <2>3. CASE Started'
    <3>1. Started
      BY <1>1, <2>3
      DEF Quiet, Started, Fetch, Write, StartCommit, SyncLog, WriteFreeWal, RemoveFree,
          RenameFree, StartCheckpoint, FlushPages, SecondPass, EndCheckpoint, EndDdlCheckpoint,
          SaveCatalog, Open, ReplayLog, EndRecovery, RemoveLog, MayChange, Running, Checkpointing,
          controlVars, IInv, Control, Ckpt
    <3> QED
      BY <2>1, <2>2, <2>3, <3>1 DEF LossInv, NoPageLost, Ledger
  <2>4. CASE ~Started'
    BY <1>1, <2>1, <2>2, <2>4, QuietKeepsDurable
    DEF LossInv, NoPageLost, Accounted, Ledger
  <2> QED
    BY <2>3, <2>4
<1>2. CASE ExitStep
  BY <1>2, ExitAccounts
<1>3. CASE LoadFreeList
  BY <1>3, LoadAccounts
<1>4. CASE Next /\ ~Quiet /\ ~ExitStep /\ ~LoadFreeList
  <2>1. Running \/ EndBegin \/ EndCommit
    BY <1>4 DEF Next, Quiet, ExitStep, Ckpt, Free, Claim, Truncate, CreateTable, Savepoint,
       RollbackTo, Release, Rollback, MayChange
  <2> QED
    BY <1>4, <2>1, LiveAccounts DEF LossInv
<1>5. CASE UNCHANGED vars
  <2>1. UNCHANGED Ledger /\ UNCHANGED <<pc, task, wal, fileLen, freeFile, freeWal, cowned>>
    BY <1>5 DEF vars, Ledger, durableVars, txnVars, controlVars, ownVars
  <2>2. RecNum' = RecNum /\ RecFree' = RecFree
    BY <2>1 DEF RecNum, RecFree, LoadedFree, Accepts
  <2> QED
    BY <2>1, <2>2 DEF Ledger, LossInv, NoPageLost, Started, SavedAccounted, Accounted
<1> QED
  BY <1>1, <1>2, <1>3, <1>4, <1>5

\* A database closed cleanly lost nothing.
LEMMA InitLossInv == Init => LossInv
<1> SUFFICES ASSUME Init PROVE LossInv
  OBVIOUS
<1>1. RecNum = 1 /\ cowned = {0} /\ ~Started
  BY DEF Init, RecNum, NoWal, Started
<1>2. Below(1) = {0} /\ Below(0) = {}
  BY DEF Below
<1>3. SavedAccounted
  BY <1>2 DEF Init, SavedAccounted, Accounted, NoTxn
<1> QED
  BY <1>1, <1>2, <1>3 DEF LossInv, NoPageLost, Accounted

\* No page is lost while the process runs, whatever was rolled back, truncated
\* or recovered: each is in use, on the free stack, or was lost to an earlier
\* crash (get_unused_page_num, pager_free_page, pager_shrink, pager_rollback,
\* load_free_list_snapshot).
THEOREM NoPageIsLost ==
    ASSUME "dotckpt" \notin Uses
    PROVE  Spec => []NoPageLost
<1>1. Init => LossInv
  BY InitLossInv
<1>2. IInv /\ LossInv /\ [Next]_vars => LossInv'
  BY NextLossInv
<1>3. LossInv => NoPageLost
  BY DEF LossInv
<1> QED
  BY <1>1, <1>2, <1>3, InvariantHolds, PTL DEF Spec

----------------------------------------------------------------------------
(* What a crash would lose                                                 *)

\* The free list that .free alone gives.
SidecarList == IF Accepts(freeFile, fileLen) THEN freeFile.free ELSE <<>>

\* Outside CREATE TABLE the list that recovery would load accounts for every
\* page; without a log so does .free alone, as .free.wal may be torn; and the
\* file keeps its length from one log to the next.
CrashInv ==
    /\ task = "commit" => stmt # "ddl"
    /\ inTxn /\ ~PastCommitPoint => ~wal.present /\ fileLen = txn.len
    /\ Started /\ ~wal.present /\ ~inTxn /\ stmt = "none" => fileLen = numPages
    /\ stmt # "ddl" => Accounted(RecNum, RecFree, cowned)
    /\ stmt # "ddl" /\ ~wal.present /\ Started /\ pc \notin {"free2", "free3"}
          => Accounted(fileLen, SidecarList, cowned)

\* As long as the files stay, so does what recovery would load.
LEMMA FilesStay ==
    ASSUME UNCHANGED <<fileLen, wal, freeFile, freeWal>>
    PROVE  RecNum' = RecNum /\ RecFree' = RecFree /\ SidecarList' = SidecarList
BY DEF RecNum, RecFree, LoadedFree, Accepts, SidecarList

\* A statement changes no file.
LEMMA ClientCrash ==
    ASSUME IInv, CrashInv, ClientStep
    PROVE  CrashInv'
<1>1. /\ Running /\ UNCHANGED <<fileLen, wal, freeFile, freeWal, inTxn, txn, pc, task, cowned>>
      /\ \/ stmt' = stmt
         \/ ~inTxn /\ stmt' = "dml" /\ stmt # "ddl"
         \/ ~inTxn /\ stmt' = "ddl" /\ stmt = "none"
  BY ClientFrame DEF durableVars
<1>2. UNCHANGED leaked
  BY DEF ClientStep, Fetch, Free, Claim, Truncate, CreateTable, Write, Savepoint, RollbackTo,
     Release, ownVars
<1>3. ~inTxn /\ stmt' = "none" => stmt = "none" /\ numPages' = numPages
  BY <1>1 DEF ClientStep, Fetch, Free, Claim, Truncate, CreateTable, Write, Savepoint, RollbackTo,
     Release, Touch
<1>4. RecNum' = RecNum /\ RecFree' = RecFree /\ SidecarList' = SidecarList
  BY <1>1, FilesStay
<1>5. Started' = Started /\ PastCommitPoint' = PastCommitPoint /\ task # "commit"
  BY <1>1, Idle DEF Started, PastCommitPoint
<1> QED
  BY <1>1, <1>2, <1>3, <1>4, <1>5 DEF CrashInv, Accounted

\* COMMIT: the record carries the list in memory.
LEMMA CommitCrash ==
    ASSUME IInv, LossInv, CrashInv, StartCommit \/ SyncLog \/ EndCommit \/ Rollback
    PROVE  CrashInv'
<1>1. Started /\ Started' /\ Accounted(numPages, freePages, owned) /\ UNCHANGED leaked
  BY DEF StartCommit, SyncLog, EndCommit, Rollback, Started, IInv, Control, Running, LossInv,
     NoPageLost, Accounted, ownVars, controlVars
<1>2. CASE StartCommit
  <2>1. /\ pc = "idle" /\ pc' = "append" /\ task' = "commit"
        /\ UNCHANGED <<fileLen, wal, freeFile, freeWal, inTxn, txn, numPages, stmt, cowned>>
    BY <1>2 DEF StartCommit, Running, durableVars, txnVars, ownVars
  <2>2. ~PastCommitPoint /\ ~PastCommitPoint' /\ stmt # "ddl"
    BY <1>2, <2>1 DEF PastCommitPoint, StartCommit, IInv, Control
  <2> QED
    BY <1>1, <2>1, <2>2, FilesStay DEF CrashInv, Accounted
<1>3. CASE SyncLog
  <2>1. /\ wal' = CommitLog /\ cowned' = owned /\ pc' = "free1" /\ task' = "commit"
    BY <1>3 DEF SyncLog, IInv, Control
  <2>a. task = "commit" /\ stmt' = stmt
    BY <1>3 DEF SyncLog, IInv, Control
  <2>2. wal'.present /\ wal'.num = numPages /\ wal'.free = freePages
    BY <2>1 DEF CommitLog, Logged
  <2>3. RecNum' = numPages /\ RecFree' = freePages /\ PastCommitPoint'
    BY <2>1, <2>2 DEF RecNum, RecFree, PastCommitPoint
  <2> QED
    BY <1>1, <2>1, <2>a, <2>2, <2>3 DEF CrashInv, Accounted
<1>4. CASE EndCommit
  <2>1. /\ wal.present /\ wal' = wal /\ inTxn' = FALSE /\ cowned' = cowned
        /\ owned = cowned
    BY <1>4 DEF EndCommit, IInv, Ownership, PastCommitPoint, ownVars
  <2>2. RecNum' = RecNum /\ RecFree' = RecFree
    BY <2>1 DEF RecNum, RecFree
  <2>3. stmt # "ddl" => Accounted(RecNum, RecFree, cowned)
    BY DEF CrashInv
  <2>4. stmt = "ddl" => FALSE
    BY <1>4 DEF EndCommit, CrashInv
  <2>5. task' = "none"
    BY <1>4 DEF EndCommit
  <2> QED
    BY <1>1, <2>1, <2>2, <2>3, <2>4, <2>5 DEF CrashInv, Accounted
<1>5. CASE Rollback
  <2>1. /\ Running /\ inTxn /\ stmt = "none" /\ ~PastCommitPoint /\ stmt' = stmt /\ pc' = pc
        /\ fileLen' = txn.len /\ numPages' = txn.num /\ txn.len = txn.num
        /\ inTxn' = FALSE /\ UNCHANGED <<wal, freeFile, freeWal, cowned, task>>
    BY <1>5, Idle DEF Rollback, controlVars, IInv, Control, SavedSound, PastCommitPoint
  <2>2. fileLen' = fileLen
    BY <2>1 DEF CrashInv
  <2> QED
    BY <1>1, <2>1, <2>2, FilesStay DEF CrashInv, Accounted, Running
<1> QED
  BY <1>2, <1>3, <1>4, <1>5

\* persist_free_list_snapshot, one file at a time.
LEMMA PersistCrash ==
    ASSUME IInv, LossInv, CrashInv, WriteFreeWal \/ RemoveFree \/ RenameFree
    PROVE  CrashInv'
<1>1. /\ UNCHANGED <<fileLen, wal, inTxn, txn, numPages, freePages, task, stmt, owned, cowned, leaked>>
      /\ pc \in {"free1", "free2", "free3"} /\ pc' \in {"free2", "free3", "rmwal"}
      /\ pc' = "rmwal" => task # "commit"
  BY DEF WriteFreeWal, RemoveFree, RenameFree, txnVars, ownVars
<1>2. Started' = Started /\ PastCommitPoint' => PastCommitPoint
  BY <1>1 DEF Started, PastCommitPoint
<1>3. CASE wal.present
  <2>1. RecNum' = RecNum /\ RecFree' = RecFree
    BY <1>1, <1>3 DEF RecNum, RecFree
  <2>2. ~inTxn' \/ PastCommitPoint'
    BY <1>1, <1>2, <1>3 DEF CrashInv, PastCommitPoint, WriteFreeWal, RemoveFree, RenameFree
  <2> QED
    BY <1>1, <1>2, <1>3, <2>1, <2>2 DEF CrashInv, Accounted
<1>4. CASE ~wal.present
  <2>1. task \in Ckpt /\ Started /\ fileLen = numPages /\ ~inTxn
    BY <1>1, <1>4 DEF IInv, Control, Steps, Ownership, PastCommitPoint, Started, Ckpt
  <2>2. stmt # "ddl" => owned = cowned /\ stmt = "none"
    BY <1>1, <2>1 DEF IInv, Control, Ownership, Ckpt
  <2>3. Accounted(numPages, freePages, owned)
    BY <2>1 DEF LossInv, NoPageLost, Accounted
  <2>4. ListToPersist = Snapshot(numPages, freePages)
    BY <2>1 DEF ListToPersist, Ckpt
  <2>5. RecNum' = numPages /\ RecFree' = freePages
    <3>1. CASE WriteFreeWal
      BY <1>1, <1>4, <2>1, <2>4, <3>1
      DEF WriteFreeWal, RecNum, RecFree, LoadedFree, Accepts, Snapshot
    <3>2. CASE RemoveFree
      BY <1>1, <1>4, <2>1, <2>4, <3>2
      DEF RemoveFree, RecNum, RecFree, LoadedFree, Accepts, Snapshot, IInv, Steps
    <3>3. CASE RenameFree
      BY <1>1, <1>4, <2>1, <2>4, <3>3
      DEF RenameFree, RecNum, RecFree, LoadedFree, Accepts, Snapshot, Absent, IInv, Steps
    <3> QED
      BY <3>1, <3>2, <3>3
  <2>6. pc' \notin {"free2", "free3"} => SidecarList' = freePages
    BY <1>1, <1>4, <2>1, <2>4
    DEF WriteFreeWal, RemoveFree, RenameFree, SidecarList, Accepts, Snapshot, IInv, Steps
  <2> QED
    BY <1>1, <1>4, <2>1, <2>2, <2>3, <2>5, <2>6 DEF CrashInv, Accounted
<1> QED
  BY <1>3, <1>4

\* A checkpoint, step by step.
LEMMA CheckpointCrash ==
    ASSUME IInv, LossInv, CrashInv, "dotckpt" \notin Uses,
           \/ \E t \in Ckpt : StartCheckpoint(t)
           \/ FlushPages \/ SecondPass \/ EndCheckpoint \/ EndBegin \/ EndDdlCheckpoint
           \/ SaveCatalog
    PROVE  CrashInv'
<1>1. CASE \E t \in Ckpt : StartCheckpoint(t)
  <2>1. /\ Running /\ ~inTxn /\ pc' = "write" /\ task' \in Ckpt
        /\ UNCHANGED <<fileLen, wal, freeFile, freeWal, inTxn, txn, numPages, stmt, cowned, leaked>>
    BY <1>1 DEF StartCheckpoint, durableVars, txnVars, ownVars, IInv, Control
  <2>2. Started /\ Started'
    BY <2>1, Idle DEF Started, Ckpt
  <2> QED
    BY <2>1, <2>2, FilesStay DEF CrashInv, Accounted, Ckpt, Running
<1>2. CASE FlushPages
  <2>1. /\ pc = "write" /\ task \in Ckpt /\ pc' = "free1" /\ task' = task /\ fileLen' = numPages
        /\ UNCHANGED <<wal, freeFile, freeWal, inTxn, txn, numPages, stmt, cowned, leaked>>
    BY <1>2 DEF FlushPages, IInv, Control, txnVars, ownVars
  <2>2. Started /\ Started' /\ ~inTxn /\ (stmt # "ddl" => stmt = "none")
    BY <2>1 DEF Started, IInv, Control, Ckpt
  <2>3. CASE wal.present
    <3>1. RecNum' = RecNum /\ RecFree' = RecFree
      BY <2>1, <2>3 DEF RecNum, RecFree
    <3> QED
      BY <2>1, <2>2, <2>3, <3>1 DEF CrashInv, Accounted, Ckpt
  <2>4. CASE ~wal.present
    <3>1. stmt # "ddl" => fileLen' = fileLen
      BY <2>1, <2>2, <2>4 DEF CrashInv
    <3> QED
      BY <2>1, <2>2, <2>4, <3>1, FilesStay DEF CrashInv, Accounted, Ckpt
  <2> QED
    BY <2>3, <2>4
<1>4. CASE SecondPass \/ EndCheckpoint \/ EndBegin \/ EndDdlCheckpoint
  <2>1. /\ pc = "rmwal" /\ task \in Ckpt /\ wal' = NoWal /\ ~wal'.present
        /\ task' \in Ckpt \cup {"none"} /\ pc' \in {"idle", "catalog", "write"}
        /\ UNCHANGED <<fileLen, freeFile, freeWal, numPages, freePages, stmt, owned, cowned, leaked>>
    BY <1>4 DEF SecondPass, Checkpointing, EndCheckpoint, EndBegin, EndDdlCheckpoint, RemoveLog, NoWal, Ckpt, ownVars
  <2>2. /\ fileLen = numPages /\ freeFile = Snapshot(numPages, freePages) /\ freeWal = Absent
        /\ Started /\ ~inTxn
    BY <2>1 DEF IInv, Steps, Control, ListToPersist, Started, Ckpt
  <2>3. inTxn' => txn'.len = fileLen'
    <3>1. CASE EndBegin
      BY <2>1, <3>1 DEF EndBegin
    <3>2. CASE SecondPass \/ EndCheckpoint \/ EndDdlCheckpoint
      BY <2>2, <3>2 DEF SecondPass, EndCheckpoint, EndDdlCheckpoint, txnVars
    <3> QED
      BY <1>4, <3>1, <3>2
  <2>4. stmt # "ddl" => owned = cowned
    BY <2>1, <2>2 DEF IInv, Control, Ownership, Ckpt
  <2>5. Accounted(numPages, freePages, owned)
    BY <2>2 DEF LossInv, NoPageLost, Accounted
  <2>6. RecNum' = numPages /\ RecFree' = freePages /\ SidecarList' = freePages
    BY <2>1, <2>2
    DEF RecNum, RecFree, LoadedFree, Accepts, Snapshot, Absent, SidecarList
  <2> QED
    BY <2>1, <2>2, <2>3, <2>4, <2>5, <2>6 DEF CrashInv, Accounted, Ckpt
<1>5. CASE SaveCatalog
  <2>1. /\ ~wal.present /\ fileLen = numPages /\ freeFile = Snapshot(numPages, freePages)
        /\ freeWal = Absent /\ Started /\ ~inTxn
    BY <1>5 DEF SaveCatalog, IInv, Steps, Control, Started
  <2>2. /\ cowned' = owned /\ task' = "none"
        /\ UNCHANGED <<fileLen, wal, freeFile, freeWal, inTxn, numPages, freePages, leaked>>
    BY <1>5 DEF SaveCatalog, durableVars, txnVars
  <2>3. Accounted(numPages, freePages, owned)
    BY <2>1 DEF LossInv, NoPageLost, Accounted
  <2>4. RecNum' = numPages /\ RecFree' = freePages /\ SidecarList' = freePages
    BY <2>1, <2>2
    DEF RecNum, RecFree, LoadedFree, Accepts, Snapshot, Absent, SidecarList
  <2> QED
    BY <2>1, <2>2, <2>3, <2>4 DEF CrashInv, Accounted
<1> QED
  BY <1>1, <1>2, <1>4, <1>5

\* Recovery and the end of the process.
LEMMA RecoveryCrash ==
    ASSUME IInv, LossInv, CrashInv, Open \/ ReplayLog \/ EndRecovery \/ LoadFreeList
    PROVE  CrashInv'
<1>1. ~Started /\ ~inTxn /\ stmt = "none" /\ inTxn' = inTxn /\ stmt' = stmt
      /\ UNCHANGED <<cowned, leaked>> /\ task' # "commit"
  BY DEF Open, ReplayLog, EndRecovery, LoadFreeList, RemoveLog, Started, IInv, Control, Recovering,
     txnVars, ownVars
<1>2. CASE Open \/ ReplayLog \/ EndRecovery
  <2>1. Quiet /\ ~Started'
    BY <1>2 DEF Quiet, Started, Open, ReplayLog, EndRecovery, RemoveLog, IInv, Control
  <2>2. RecNum' = RecNum /\ RecFree' = RecFree
    BY <2>1, QuietKeepsDurable
  <2> QED
    BY <1>1, <2>1, <2>2 DEF CrashInv, Accounted
<1>3. CASE LoadFreeList
  <2>1. /\ ~wal.present /\ wal' = wal /\ fileLen' = fileLen /\ numPages' = fileLen
        /\ freeFile' = IF Accepts(freeWal, fileLen) THEN freeWal ELSE freeFile
        /\ freeWal' = IF Accepts(freeFile, fileLen) /\ ~Accepts(freeWal, fileLen)
                      THEN freeWal ELSE Absent
    BY <1>3 DEF LoadFreeList, IInv, Steps
  <2>2. Accounted(fileLen, LoadedFree(fileLen), cowned)
    BY <1>1, <2>1 DEF CrashInv, RecNum, RecFree
  <2>3. LoadedFree(fileLen)' = LoadedFree(fileLen) /\ SidecarList' = LoadedFree(fileLen)
    BY <2>1 DEF LoadedFree, SidecarList, Accepts, Absent
  <2> QED
    BY <1>1, <2>1, <2>2, <2>3 DEF CrashInv, Accounted, RecNum, RecFree
<1> QED
  BY <1>2, <1>3

\* After the end of the process the list to load accounts for the pages left.
LEMMA ExitCrash ==
    ASSUME IInv, LossInv, ExitStep
    PROVE  CrashInv'
<1>1. Accounted(RecNum, RecFree, cowned)'
  <2>1. LossInv'
    BY ExitAccounts
  <2>2. ~Started'
    BY ExitFrame DEF Started
  <2> QED
    BY <2>1, <2>2 DEF LossInv
<1>2. ~Started' /\ ~inTxn' /\ task' # "commit"
  BY ExitFrame DEF Started, ExitStep, EndClose, Crash, ChecksumExit, Down
<1> QED
  BY <1>1, <1>2 DEF CrashInv

\* Every step keeps what a crash would find.
LEMMA NextCrashInv ==
    ASSUME "dotckpt" \notin Uses, IInv, LossInv, CrashInv, [Next]_vars
    PROVE  CrashInv'
<1>1. CASE UNCHANGED vars
  <2>1. UNCHANGED <<fileLen, wal, freeFile, freeWal, inTxn, txn, pc, task, stmt, numPages, cowned,
                    leaked>>
    BY <1>1 DEF vars, durableVars, txnVars, controlVars, ownVars
  <2> QED
    BY <2>1, FilesStay DEF CrashInv, Accounted, Started, PastCommitPoint
<1>2. CASE ClientStep
  BY <1>2, ClientCrash
<1>3. CASE StartCommit \/ SyncLog \/ EndCommit \/ Rollback
  BY <1>3, CommitCrash
<1>4. CASE WriteFreeWal \/ RemoveFree \/ RenameFree
  BY <1>4, PersistCrash
<1>5. CASE \/ \E t \in Ckpt : StartCheckpoint(t)
           \/ FlushPages \/ SecondPass \/ EndCheckpoint \/ EndBegin \/ EndDdlCheckpoint
           \/ SaveCatalog
  BY <1>5, CheckpointCrash
<1>6. CASE Open \/ ReplayLog \/ EndRecovery \/ LoadFreeList
  BY <1>6, RecoveryCrash
<1>7. CASE ExitStep
  BY <1>7, ExitCrash
<1> QED
  BY <1>1, <1>2, <1>3, <1>4, <1>5, <1>6, <1>7 DEF Next, ClientStep, ExitStep, Ckpt

\* What a crash outside CREATE TABLE leaves accounts for every page.
LEMMA CrashAccounts ==
    ASSUME IInv, LossInv, CrashInv, Crash, task # "ddl", stmt # "ddl"
    PROVE  Below(RecNum') \subseteq cowned' \cup Elements(RecFree') \cup leaked
<1>1. Accounted(RecNum, RecFree, cowned)
  BY DEF CrashInv
<1>2. CASE pc = "append" /\ wal' = CommitLog /\ cowned' = owned
  <2>1. wal'.present /\ RecNum' = numPages /\ RecFree' = freePages
    BY <1>2 DEF RecNum, RecFree, CommitLog, Logged
  <2>2. Started
    BY <1>2 DEF Started, IInv, Control
  <2> QED
    BY <1>2, <2>1, <2>2 DEF LossInv, NoPageLost
<1>3. CASE wal.present /\ UNCHANGED <<wal, cowned>>
  BY <1>1, <1>3 DEF RecNum, RecFree, Accounted
<1>4. CASE ~wal.present /\ UNCHANGED <<wal, cowned>>
  <2>1. fileLen' = fileLen /\ fileLen \in Nat
    <3>0. numPages \in Nat /\ fileLen \in Nat
      BY PagerAssumption DEF IInv, Typed, TypeOK
    <3>1. CASE pc = "write" /\ Unsynced(Flushed, numPages)
      <4>1. fileLen = numPages
        BY <1>4, <3>1 DEF IInv, Control, CrashInv, Started, Ckpt
      <4>2. fileLen' \in numPages .. numPages
        BY <3>0, <3>1, <4>1 DEF Unsynced
      <4> QED
        BY <3>0, <4>1, <4>2
    <3>2. pc # "replay"
      BY <1>4 DEF IInv, Steps
    <3> QED
      BY <3>0, <3>1, <3>2 DEF Crash
  <2>2. RecNum' = fileLen /\ RecNum = fileLen /\ RecFree' = LoadedFree(fileLen)'
        /\ RecFree = LoadedFree(fileLen)
    BY <1>4, <2>1 DEF RecNum, RecFree
  <2>3. CASE pc = "free1"
    <3>1. freeFile' = freeFile /\ (freeWal' \in {Torn, ListToPersist} \/ freeWal' = freeWal)
      BY <2>3 DEF Crash
    <3>2. /\ task \in Ckpt /\ Started /\ fileLen = numPages /\ owned = cowned
      BY <1>4, <2>3 DEF IInv, Control, Steps, Ownership, PastCommitPoint, Started, Ckpt
    <3>3. CASE freeWal' = Torn
      BY <1>4, <2>1, <2>2, <2>3, <3>1, <3>2, <3>3
      DEF CrashInv, LoadedFree, SidecarList, Accepts, Torn, Accounted
    <3>4. CASE freeWal' = ListToPersist
      <4>1. RecFree' = freePages
        BY <2>1, <2>2, <3>2, <3>4 DEF LoadedFree, Accepts, ListToPersist, Snapshot, Ckpt
      <4> QED
        BY <1>4, <2>2, <3>2, <4>1 DEF LossInv, NoPageLost
    <3>5. CASE freeWal' = freeWal
      BY <1>1, <1>4, <2>1, <2>2, <3>1, <3>5 DEF LoadedFree, Accepts, Accounted
    <3> QED
      BY <3>1, <3>3, <3>4, <3>5
  <2>4. CASE pc # "free1"
    <3>1. freeWal' = freeWal
          /\ (freeFile' = freeFile \/ Accepts(freeWal, fileLen))
      BY <2>4 DEF Crash
    <3> QED
      BY <1>1, <1>4, <2>1, <2>2, <3>1 DEF LoadedFree, Accepts, Accounted
  <2> QED
    BY <2>3, <2>4
<1> QED
  BY <1>2, <1>3, <1>4 DEF Crash

\* A database closed cleanly has its list in the sidecar.
LEMMA InitCrashInv == Init => CrashInv
<1> SUFFICES ASSUME Init PROVE CrashInv
  OBVIOUS
<1>1. LossInv /\ ~Started /\ ~inTxn /\ task # "commit"
  BY InitLossInv DEF Init, Started
<1> QED
  BY <1>1 DEF LossInv, CrashInv

\* Only a crash inside CREATE TABLE loses pages: across any other the log or
\* the sidecars carry the state of the allocator (pager_checkpoint,
\* persist_free_list_snapshot, recover_wal, load_free_list_snapshot).
THEOREM OnlyCreateTableLeaks ==
    ASSUME "dotckpt" \notin Uses
    PROVE  Spec => LeaksOnlyInCreateTable
<1>1. Init => LossInv /\ CrashInv
  BY InitLossInv, InitCrashInv
<1>2. IInv /\ LossInv /\ CrashInv /\ [Next]_vars => LossInv' /\ CrashInv'
  BY NextLossInv, NextCrashInv
<1>3. ASSUME IInv, LossInv, CrashInv, Next,
             pc # "closed", pc' = "closed", task # "ddl", stmt # "ddl"
      PROVE  leaked' \subseteq leaked
  <2>1. ExitStep
    <3>1. ~ClientStep
      BY <1>3, ClientFrame DEF Running
    <3> QED
      BY <1>3, <3>1
      DEF Next, ClientStep, ExitStep, Rollback, StartCommit, SyncLog, EndCommit, WriteFreeWal,
          RemoveFree, RenameFree, StartCheckpoint, FlushPages, SecondPass, EndCheckpoint, EndBegin,
          EndDdlCheckpoint, SaveCatalog, Open, ReplayLog, EndRecovery, LoadFreeList, RemoveLog,
          Running, controlVars
  <2>2. CASE EndClose
    BY <2>2 DEF EndClose
  <2>3. CASE ChecksumExit
    BY <1>3, <2>3 DEF ChecksumExit, Orphans, CrashInv, Accounted
  <2>4. CASE Crash
    BY <1>3, <2>4, CrashAccounts DEF Crash, Orphans
  <2> QED
    BY <2>1, <2>2, <2>3, <2>4 DEF ExitStep
<1>4. IInv /\ LossInv /\ CrashInv /\ [Next]_vars =>
        [pc # "closed" /\ pc' = "closed" /\ task # "ddl" /\ stmt # "ddl"
           => leaked' \subseteq leaked]_vars
  BY <1>3
<1> QED
  BY <1>1, <1>2, <1>4, InvariantHolds, PTL DEF Spec, LeaksOnlyInCreateTable
=============================================================================
