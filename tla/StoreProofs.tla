---------------------------- MODULE StoreProofs ----------------------------
(***************************************************************************)
(* The pager implements the page store: every behaviour of Pager is, under *)
(* the mapping of PagerProps, a behaviour of TxStore, for any number of    *)
(* pages, frames, images and savepoints.                                   *)
(***************************************************************************)
EXTENDS PagerProofs

----------------------------------------------------------------------------
(* The inductive invariant                                                 *)

FreeSteps == {"free1", "free2", "free3", "rmwal"}

\* A checkpoint between its writes to the file and the removal of the log.
Late == task \in Ckpt /\ pc \in FreeSteps

\* What get_page finds outside frames and spills.
BaseView(p) ==
    IF shadows[p] # None THEN shadows[p]
    ELSE IF p < fileLen THEN file[p]
    ELSE Blank

\* Every copy of page p is the committed one.
Clean(p) ==
    /\ p < RecNum /\ RecFile[p] \in Datum
    /\ BaseView(p) = RecFile[p]
    /\ cache[p] = None \/ cache[p] = RecFile[p]

\* The file holds nothing beyond its end, and no log is an empty log.
FilesTidy ==
    /\ \A p \in Page : p >= fileLen => file[p] = Hole
    /\ ~wal.present => wal = NoWal

\* Recovery will find every committed page.
CommittedThere == \A p \in cowned : p < RecNum /\ RecFile[p] \in Datum

\* Page 0 is never given up.
RootOwned ==
    /\ 0 \in owned /\ 0 \in cowned
    /\ \A i \in DOMAIN savepoints : 0 \in savepoints[i].owned

\* Without a statement or a transaction nothing is dirty, held or marked;
\* CREATE TABLE changes no committed page; nothing is in memory during recovery.
NothingPending ==
    /\ ~inTxn => savepoints = <<>>
    /\ ~inTxn /\ stmt = "none" => dirty = {}
    /\ held # Nothing => stmt = "ddl"
    /\ stmt = "ddl" => \A p \in cowned : p \notin dirty /\ held[p] = None
    /\ Recovering => cache = Nothing /\ spills = Nothing /\ shadows = Nothing

\* CREATE TABLE never commits; what a checkpoint is about to write hides no
\* older shadow; after it nothing is dirty.
CheckpointReady ==
    /\ task = "commit" => stmt # "ddl"
    /\ pc = "write" => \A p \in dirty : shadows[p] = None
    /\ pc = "catalog" => dirty = {}

\* A transaction runs over the bare file; its savepoints saved what they show.
TxnOverFile ==
    /\ inTxn /\ ~PastCommitPoint => ~wal.present /\ shadows = Nothing
    /\ \A i \in DOMAIN savepoints :
          \A p \in savepoints[i].owned \ savepoints[i].dirty :
              p < fileLen /\ savepoints[i].img[p] = file[p] /\ file[p] \in Datum

\* Pages in use that are not dirty are clean.
CleanPages ==
    ~Recovering /\ ~Late =>
        \A p \in owned \ dirty : held[p] = None => Clean(p)

\* Past the commit point the dirty pages have been committed.
CommittedPages ==
    PastCommitPoint => \A p \in owned : Clean(p) /\ View(p) = RecFile[p]

\* After the writes of a checkpoint the file needs no log.
WrittenPages ==
    Late => /\ shadows = Nothing /\ dirty = {}
            /\ \A p \in owned : held[p] = None =>
                  file[p] \in Datum /\ (cache[p] = None \/ cache[p] = file[p])
            /\ \A p \in cowned : RecFile[p] = file[p]

\* After the replay neither.
ReplayedPages ==
    task = "recover" /\ pc \in FreeSteps => file = Replayed(file, wal)

ImgInv ==
    /\ FilesTidy
    /\ CommittedThere
    /\ RootOwned
    /\ NothingPending
    /\ CheckpointReady
    /\ TxnOverFile
    /\ CleanPages
    /\ CommittedPages
    /\ WrittenPages
    /\ ReplayedPages

----------------------------------------------------------------------------
(* Helpers                                                                 *)

Refines == [Store!Next]_(Store!vars)

\* A dirty page is read from its frame or its spill.
LEMMA DirtyView ==
    ASSUME Typed, NEW p \in dirty
    PROVE  /\ View(p) \in Datum
           /\ View(p) = IF cache[p] # None THEN cache[p] ELSE spills[p]
           /\ cache[p] = None => spills[p] # None
BY ViewOfDirty, PagerAssumption DEF Typed, TypeOK, ImagesOK, View

\* A clean page shows its committed image.
LEMMA CleanView ==
    ASSUME NEW p, Clean(p), p \notin dirty
    PROVE  View(p) = RecFile[p]
BY DEF Clean, View, BaseView

\* No page is held between operations, nor in a transaction.
LEMMA NothingHeld ==
    ASSUME held = Nothing
    PROVE  \A p \in Page : held[p] = None
BY DEF Nothing

\* What is read between operations.
LEMMA IdleWorking ==
    ASSUME IInv, held = Nothing, ~Recovering
    PROVE  Working = [p \in owned |-> View(p)]
BY NothingHeld DEF Working, IInv, Typed, TypeOK

\* As long as file, log and owners stay, so does what recovery would find.
LEMMA CommittedStays ==
    ASSUME UNCHANGED <<file, fileLen, wal, cowned>>
    PROVE  RecNum' = RecNum /\ RecFile' = RecFile /\ Committed' = Committed
<1>1. RecFile' = RecFile
  BY DEF RecFile, Replayed
<1>2. RecNum' = RecNum
  BY DEF RecNum
<1> QED
  BY <1>1, <1>2 DEF Committed

\* A page in use is clean or dirty, and is read accordingly.
LEMMA OwnedView ==
    ASSUME IInv, ImgInv, ~Recovering, ~Late, held = Nothing, NEW p \in owned
    PROVE  /\ p \in Page /\ p < numPages
           /\ p \notin dirty => Clean(p) /\ View(p) = RecFile[p]
           /\ View(p) \in Datum
<1>1. p \in Page /\ held[p] = None
  BY NothingHeld DEF IInv, Typed, TypeOK
<1>2. p \notin dirty => Clean(p) /\ View(p) = RecFile[p]
  BY <1>1, CleanView DEF ImgInv, CleanPages
<1>3. View(p) \in Datum
  BY <1>2, DirtyView DEF IInv, Clean
<1>4. p < numPages
  <2>1. p \in Below(numPages) /\ numPages \in Nat
    BY PagerAssumption
    DEF IInv, Typed, TypeOK, FreeListSound, SoundFree, Started, Recovering
  <2> QED
    BY <2>1 DEF Below
<1> QED
  BY <1>1, <1>2, <1>3, <1>4

----------------------------------------------------------------------------
(* Statements                                                              *)

\* A client step leaves all but the pages in memory alone.
LEMMA ClientKeeps ==
    ASSUME IInv, ImgInv, ClientStep
    PROVE  /\ Running /\ held = Nothing /\ held' = Nothing
           /\ ~Recovering /\ ~Recovering' /\ ~Late /\ ~Late'
           /\ ~PastCommitPoint /\ ~PastCommitPoint'
           /\ RecNum' = RecNum /\ RecFile' = RecFile /\ Committed' = Committed
           /\ UNCHANGED <<file, fileLen, wal, cowned, inTxn, txn, pc, task, held>>
           /\ FilesTidy' /\ CommittedThere' /\ CommittedPages' /\ WrittenPages' /\ ReplayedPages'
           /\ CheckpointReady'
<1>1. /\ Running /\ task = "none" /\ held = Nothing
      /\ UNCHANGED <<file, fileLen, wal, cowned, inTxn, txn, pc, task, held>>
  BY ClientFrame, Idle DEF durableVars
<1>2. RecNum' = RecNum /\ RecFile' = RecFile /\ Committed' = Committed
  BY <1>1, CommittedStays
<1>3. /\ ~Recovering /\ ~Recovering' /\ ~Late /\ ~Late'
      /\ ~PastCommitPoint /\ ~PastCommitPoint'
      /\ ~(task' = "recover") /\ CheckpointReady'
  BY <1>1 DEF Running, Recovering, Late, PastCommitPoint, Ckpt, CheckpointReady
<1>4. FilesTidy' /\ CommittedThere'
  BY <1>1, <1>2 DEF ImgInv, FilesTidy, CommittedThere
<1> QED
  BY <1>1, <1>2, <1>3, <1>4 DEF CommittedPages, WrittenPages, ReplayedPages

\* get_page of p with image d shows d there and every other page as before.
LEMMA LoadShows ==
    ASSUME IInv, ImgInv, ~Recovering, ~Late, held = Nothing,
           UNCHANGED <<file, fileLen, wal, shadows, cowned>>,
           NEW p \in Page, NEW d \in Image, Load(p, d),
           dirty \subseteq dirty', dirty' \subseteq dirty \cup {p}
    PROVE  /\ View(p)' = d /\ cache'[p] = d
           /\ \A q \in owned \ {p} : View(q)' = View(q)
           /\ \A q \in owned \ (dirty \cup {p}) : Clean(q)'
<1>0. d # None
  BY PagerAssumption DEF Image
<1>1. cache'[p] = d
  BY LoadKeepsImages DEF IInv
<1>2. View(p)' = d
  BY <1>0, <1>1 DEF View
<1>3. RecNum' = RecNum /\ RecFile' = RecFile /\ \A q : BaseView(q)' = BaseView(q)
  BY CommittedStays DEF BaseView
<1>4. ASSUME NEW q \in owned \ {p}
      PROVE  /\ q \in Page
             /\ \/ cache'[q] = cache[q] /\ spills'[q] = spills[q]
                \/ /\ cache[q] # None /\ cache'[q] = None
                   /\ q \in dirty => spills'[q] = cache[q]
  BY OwnedView DEF Load
<1>5. ASSUME NEW q \in owned \ (dirty \cup {p})
      PROVE  Clean(q)' /\ View(q)' = View(q)
  <2>1. Clean(q) /\ View(q) = RecFile[q]
    BY <1>5, OwnedView
  <2>2. Clean(q)' /\ q \notin dirty'
    BY <1>3, <1>4, <1>5, <2>1 DEF Clean
  <2>3. View(q)' = RecFile'[q]
    BY <2>2 DEF Clean, View, BaseView
  <2> QED
    BY <1>3, <2>1, <2>2, <2>3
<1>6. ASSUME NEW q \in dirty \ {p}, q \in owned
      PROVE  View(q)' = View(q)
  BY <1>4, <1>6, DirtyView DEF IInv, View
<1> QED
  BY <1>1, <1>2, <1>5, <1>6

\* get_page of a page that is in no frame changes nothing that is read.
LEMMA FetchStep ==
    ASSUME IInv, ImgInv, NEW p \in Page, Fetch(p)
    PROVE  ImgInv' /\ Refines
<1>1. ClientStep
  BY DEF ClientStep
<1>2. /\ UNCHANGED <<shadows, dirty, owned, savepoints, stmt>>
      /\ Load(p, View(p)) /\ View(p) \in Image
  BY ViewIsImage DEF Fetch, txnVars, controlVars, ownVars, IInv
<1> USE ClientKeeps
<1>3. /\ cache'[p] = View(p)
      /\ \A q \in owned : View(q)' = View(q)
      /\ \A q \in owned \ (dirty \cup {p}) : Clean(q)'
  BY <1>1, <1>2, LoadShows
<1>4. p \in owned \ dirty => Clean(p)'
  <2>1. ASSUME p \in owned \ dirty
        PROVE  Clean(p) /\ View(p) = RecFile[p]
    BY <1>1, <2>1, OwnedView
  <2> QED
    BY <1>1, <1>2, <1>3, <2>1 DEF Clean, BaseView
<1>5. CleanPages'
  BY <1>2, <1>3, <1>4 DEF CleanPages
<1>6. RootOwned' /\ NothingPending' /\ TxnOverFile'
  BY <1>1, <1>2 DEF ImgInv, RootOwned, NothingPending, TxnOverFile
<1>7. Working' = Working /\ Marks' = Marks
  <2>1. Working = [q \in owned |-> View(q)]
    BY <1>1, IdleWorking
  <2>2. Working' = [q \in owned |-> View(q)']
    BY <1>1, <1>2, NothingHeld DEF Working, IInv, Typed, TypeOK
  <2> QED
    BY <1>1, <1>2, <1>3, <2>1, <2>2 DEF Marks
<1>8. UNCHANGED Store!vars
  BY <1>1, <1>7 DEF Store!vars
<1> QED
  BY <1>1, <1>5, <1>6, <1>8 DEF ImgInv, Refines

\* mark_page_dirty after an in-place change.
LEMMA WriteStep ==
    ASSUME IInv, ImgInv, NEW p \in Page, NEW d \in Datum, Write(p, d)
    PROVE  ImgInv' /\ Refines
<1>1. ClientStep
  BY DEF ClientStep
<1>2. /\ UNCHANGED <<shadows, owned, savepoints>> /\ dirty' = dirty \cup {p}
      /\ p \in owned /\ stmt # "ddl" /\ (inTxn \/ stmt' = "dml")
      /\ Load(p, d) /\ d \in Image
  BY DEF Write, MayChange, Touch, txnVars, ownVars, Image
<1> USE ClientKeeps
<1>3. /\ View(p)' = d
      /\ \A q \in owned \ {p} : View(q)' = View(q)
      /\ \A q \in owned \ (dirty \cup {p}) : Clean(q)'
  BY <1>1, <1>2, LoadShows
<1>4. CleanPages'
  BY <1>2, <1>3 DEF CleanPages
<1>5. inTxn => stmt' # "ddl"
  BY <1>2 DEF Write, Touch
<1>6. RootOwned' /\ NothingPending' /\ TxnOverFile'
  BY <1>1, <1>2, <1>5 DEF ImgInv, RootOwned, NothingPending, TxnOverFile
<1>7. Working = [q \in owned |-> View(q)]
  BY <1>1, IdleWorking
<1>8. Working' = [q \in owned |-> View(q)']
  BY <1>1, <1>2, NothingHeld DEF Working, IInv, Typed, TypeOK
<1>9. Working' = [Working EXCEPT ![p] = d] /\ p \in DOMAIN Working
  BY <1>2, <1>3, <1>7, <1>8
<1>10. Marks' = Marks
  BY <1>1, <1>2 DEF Marks
<1>11. Store!Write(p, d)
  BY <1>1, <1>9, <1>10 DEF Store!Write
<1> QED
  BY <1>1, <1>4, <1>6, <1>11 DEF ImgInv, Refines, Store!Next

\* The allocator's next page is in nobody's tree.
LEMMA UnusedIsFree ==
    ASSUME IInv, Running
    PROVE  Unused \notin owned
<1>1. SoundFree(numPages, freePages, owned) /\ freePages \in Seq(Page)
  BY Idle DEF IInv, Typed, TypeOK
<1>2. CASE freePages = <<>>
  <2>1. Unused = numPages /\ numPages \in Nat
    BY <1>2, PagerAssumption DEF Unused, IInv, Typed, TypeOK
  <2> QED
    BY <1>1, <2>1 DEF SoundFree, Below
<1>3. CASE freePages # <<>>
  <2>1. Len(freePages) \in DOMAIN freePages
    BY <1>1, <1>3, EmptySeq, LenProperties
  <2>2. Unused \in Elements(freePages)
    BY <1>3, <2>1 DEF Unused, Elements
  <2> QED
    BY <1>1, <2>2 DEF SoundFree
<1> QED
  BY <1>2, <1>3

\* get_unused_page_num for an INSERT or a CREATE TABLE.
LEMMA ClaimStep ==
    ASSUME IInv, ImgInv, NEW d \in Datum, Claim(d) \/ CreateTable(d)
    PROVE  ImgInv' /\ Refines
<1>1. ClientStep
  BY DEF ClientStep
<1>a. Acquire(d) /\ Running
  BY DEF Claim, CreateTable, MayChange
<1>b. Unused \in Page /\ Unused \notin owned
  BY <1>a, Idle, AcquireSound, UnusedIsFree DEF IInv
<1>c. PICK p \in Page : p = Unused /\ p \notin owned
  BY <1>b
<1>2. /\ UNCHANGED <<shadows, savepoints>> /\ dirty' = dirty \cup {p} /\ owned' = owned \cup {p}
      /\ Load(p, d) /\ d \in Image
  BY <1>c DEF Claim, CreateTable, Acquire, txnVars, Image
<1> USE ClientKeeps
<1>4. /\ View(p)' = d
      /\ \A q \in owned : View(q)' = View(q)
      /\ \A q \in owned \ dirty : Clean(q)'
  <2>1. dirty \subseteq dirty' /\ dirty' \subseteq dirty \cup {p}
    BY <1>2
  <2>2. /\ View(p)' = d
        /\ \A q \in owned \ {p} : View(q)' = View(q)
        /\ \A q \in owned \ (dirty \cup {p}) : Clean(q)'
    BY <1>1, <1>2, <2>1, LoadShows
  <2> QED
    BY <1>c, <2>2
<1>5. CleanPages'
  BY <1>2, <1>4 DEF CleanPages
<1>6. RootOwned' /\ TxnOverFile'
  BY <1>1, <1>2 DEF ImgInv, RootOwned, TxnOverFile
<1>7. NothingPending'
  <2>1. CASE Claim(d)
    <3>1. (inTxn \/ stmt' = "dml") /\ stmt' # "ddl"
      BY <2>1 DEF Claim, MayChange, Touch
    <3> QED
      BY <1>1, <1>2, <3>1 DEF ImgInv, NothingPending
  <2>2. CASE CreateTable(d)
    <3>1. stmt' = "ddl" /\ ~inTxn /\ stmt = "none" /\ dirty = {} /\ owned = cowned
      BY <2>2 DEF CreateTable, ImgInv, NothingPending, IInv, Ownership
    <3>2. \A q \in cowned : q \notin dirty' /\ held'[q] = None
      BY <1>1, <1>2, <1>c, <3>1, NothingHeld DEF IInv, Typed, TypeOK
    <3> QED
      BY <1>1, <1>2, <3>1, <3>2 DEF ImgInv, NothingPending
  <2> QED
    BY <2>1, <2>2
<1>8. Working = [q \in owned |-> View(q)]
  BY <1>1, IdleWorking
<1>9. Working' = [q \in owned \cup {p} |-> View(q)']
  <2>1. ~Recovering' /\ held' = Nothing /\ owned' \subseteq Page
    BY <1>1, <1>2 DEF IInv, Typed, TypeOK
  <2>2. Working' = [q \in owned' |-> View(q)']
    BY <2>1 DEF Working, Nothing
  <2> QED
    BY <1>2, <2>2
<1>10. p \notin DOMAIN Working
  BY <1>c, <1>8
<1>13. Working' = [q \in DOMAIN Working \cup {p} |-> IF q = p THEN d ELSE Working[q]]
  <2>1. \A q \in owned \cup {p} : View(q)' = IF q = p THEN d ELSE Working[q]
    BY <1>4, <1>8
  <2> QED
    BY <1>8, <1>9, <2>1
<1>11. Marks' = Marks
  BY <1>1, <1>2 DEF Marks
<1>12. Store!Claim(p, d)
  BY <1>1, <1>10, <1>11, <1>13 DEF Store!Claim
<1> QED
  BY <1>1, <1>5, <1>6, <1>7, <1>12 DEF ImgInv, Refines, Store!Next

\* pager_free_page.
LEMMA FreeStep ==
    ASSUME IInv, ImgInv, NEW p \in Page, Free(p)
    PROVE  ImgInv' /\ Refines
<1>1. ClientStep
  BY DEF ClientStep
<1>2. /\ UNCHANGED <<shadows, savepoints>> /\ dirty' = dirty \ {p} /\ owned' = owned \ {p}
      /\ p \in owned \ {0} /\ stmt # "ddl" /\ (inTxn \/ stmt' = "dml")
      /\ \A q \in Page \ {p} : cache'[q] = cache[q] /\ spills'[q] = spills[q]
  BY DEF Free, MayChange, Touch, txnVars, IInv, Typed, TypeOK
<1> USE ClientKeeps
<1>3. \A q \in owned \ {p} : q \in Page /\ View(q)' = View(q)
  BY <1>1, <1>2 DEF View, IInv, Typed, TypeOK
<1>4. \A q \in owned \ (dirty \cup {p}) : Clean(q)'
  BY <1>1, <1>2, <1>3, OwnedView DEF Clean, BaseView
<1>5. CleanPages'
  BY <1>2, <1>4 DEF CleanPages
<1>6. inTxn => stmt' # "ddl"
  BY <1>2 DEF Free, Touch
<1>7. RootOwned' /\ NothingPending' /\ TxnOverFile'
  BY <1>1, <1>2, <1>6 DEF ImgInv, RootOwned, NothingPending, TxnOverFile
<1>8. Working = [q \in owned |-> View(q)]
  BY <1>1, IdleWorking
<1>9. Working' = [q \in owned \ {p} |-> View(q)']
  BY <1>1, <1>2, NothingHeld DEF Working, IInv, Typed, TypeOK
<1>10. p \in DOMAIN Working /\ Working' = [q \in DOMAIN Working \ {p} |-> Working[q]]
  BY <1>2, <1>3, <1>8, <1>9
<1>11. Marks' = Marks
  BY <1>1, <1>2 DEF Marks
<1>12. Store!Free(p)
  BY <1>1, <1>10, <1>11 DEF Store!Free, Store!Drop
<1> QED
  BY <1>1, <1>5, <1>7, <1>12 DEF ImgInv, Refines, Store!Next

\* table_truncate.
LEMMA TruncateStep ==
    ASSUME IInv, ImgInv, NEW d \in Datum, Truncate(d)
    PROVE  ImgInv' /\ Refines
<1>0. 0 \in Page /\ 0 \in owned /\ Below(1) = {0} /\ d # None
  BY PagerAssumption DEF Page, Below, ImgInv, RootOwned
<1>1. ClientStep
  BY DEF ClientStep
<1>2. /\ UNCHANGED savepoints /\ dirty' = {0} /\ owned' = owned \cap Below(1)
      /\ stmt # "ddl" /\ (inTxn \/ stmt' = "dml")
      /\ cache'[0] = d
      /\ shadows' = [q \in Page |-> IF q < 1 THEN shadows[q] ELSE None]
  BY <1>0 DEF Truncate, Shrunk, MayChange, Touch, txnVars, Nothing
<1> USE ClientKeeps
<1>3. View(0)' = d /\ owned' = {0}
  BY <1>0, <1>2 DEF View
<1>4. CleanPages'
  BY <1>2, <1>3 DEF CleanPages
<1>5. inTxn => stmt' # "ddl"
  BY <1>2 DEF Truncate, Touch
<1>6. TxnOverFile'
  <2>1. shadows = Nothing => shadows' = Nothing
    BY <1>2 DEF Nothing
  <2> QED
    BY <1>1, <1>2, <2>1 DEF ImgInv, TxnOverFile
<1>7. RootOwned' /\ NothingPending'
  BY <1>1, <1>2, <1>3, <1>5 DEF ImgInv, RootOwned, NothingPending
<1>8. Working = [q \in owned |-> View(q)]
  BY <1>1, IdleWorking
<1>9. Working' = [q \in {0} |-> View(q)']
  BY <1>0, <1>1, <1>3, NothingHeld DEF Working
<1>10. 0 \in DOMAIN Working /\ Working' = [q \in {0} |-> d]
  BY <1>0, <1>3, <1>8, <1>9
<1>11. Marks' = Marks
  BY <1>1, <1>2 DEF Marks
<1>12. Store!Truncate(0, d)
  BY <1>1, <1>10, <1>11 DEF Store!Truncate
<1> QED
  BY <1>0, <1>1, <1>4, <1>6, <1>7, <1>12 DEF ImgInv, Refines, Store!Next

----------------------------------------------------------------------------
(* Savepoints and rollback                                                 *)

MarkOf(sp) == [name |-> sp.name, store |-> [p \in sp.owned |-> sp.img[p]]]

\* The marks of the page store are the savepoints, one for one.
LEMMA MarksAre ==
    ASSUME IInv, ~PastCommitPoint
    PROVE  /\ Marks = [i \in 1 .. Len(savepoints) |-> MarkOf(savepoints[i])]
           /\ DOMAIN savepoints = 1 .. Len(savepoints)
           /\ Len(savepoints) \in Nat
           /\ Marks \in Seq({MarkOf(sp) : sp \in SavepointRec})
           /\ Len(Marks) = Len(savepoints)
<1>1. savepoints \in Seq(SavepointRec)
  BY DEF IInv, Typed, TypeOK, SavepointRec
<1>2. /\ DOMAIN savepoints = 1 .. Len(savepoints) /\ Len(savepoints) \in Nat
      /\ \A i \in 1 .. Len(savepoints) : savepoints[i] \in SavepointRec
  BY <1>1, LenProperties, ElementOfSeq
<1>3. Marks = [i \in 1 .. Len(savepoints) |-> MarkOf(savepoints[i])]
  BY <1>2 DEF Marks, MarkOf
<1>4. \A i \in 1 .. Len(savepoints) : MarkOf(savepoints[i]) \in {MarkOf(sp) : sp \in SavepointRec}
  BY <1>2
<1> HIDE DEF MarkOf
<1>5. Marks \in Seq({MarkOf(sp) : sp \in SavepointRec}) /\ Len(Marks) = Len(savepoints)
  BY <1>2, <1>3, <1>4, IsASeq, LenProperties
<1> QED
  BY <1>2, <1>3, <1>5

\* Keeping the first m savepoints keeps the first m marks.
LEMMA PrefixOfMarks ==
    ASSUME IInv, ~PastCommitPoint, ~PastCommitPoint', NEW m \in 0 .. Len(savepoints),
           savepoints' = SubSeq(savepoints, 1, m)
    PROVE  Marks' = SubSeq(Marks, 1, m)
<1>1. /\ DOMAIN savepoints' = 1 .. m
      /\ \A i \in 1 .. m : savepoints'[i] = savepoints[i]
  <2>1. savepoints \in Seq(SavepointRec)
    BY DEF IInv, Typed, TypeOK, SavepointRec
  <2> QED
    BY <2>1, SubSeqProperties, LenProperties
<1>2. Marks' = [i \in 1 .. m |-> MarkOf(savepoints[i])]
  BY <1>1 DEF Marks, MarkOf
<1>3. SubSeq(Marks, 1, m) = [i \in 1 .. m |-> MarkOf(savepoints[i])]
  BY MarksAre, SubSeqProperties, LenProperties
<1> QED
  BY <1>2, <1>3

\* A name that marks the newest savepoint marks the newest mark.
LEMMA NewestIsNewest ==
    ASSUME IInv, ~PastCommitPoint, NEW n, NEW i, Newest(n, i)
    PROVE  Store!NewestMark(n, i)
BY MarksAre, SMTT(60) DEF Newest, Store!NewestMark, MarkOf

\* In a transaction recovery would find the bare file, and clean pages are
\* the file's.
LEMMA InTransaction ==
    ASSUME IInv, ImgInv, Running, inTxn
    PROVE  /\ RecFile = file /\ RecNum = fileLen /\ shadows = Nothing
           /\ ~wal.present /\ stmt = "none" /\ ~PastCommitPoint
BY Idle DEF ImgInv, TxnOverFile, PastCommitPoint, RecFile, RecNum, IInv, Control

\* The session reads what it read as long as every page shows it.
LEMMA SameWorking ==
    ASSUME IInv, ~Recovering, ~Recovering', held = Nothing, held' = Nothing,
           owned' = owned, \A p \in owned : View(p)' = View(p)
    PROVE  Working' = Working
<1>1. owned \subseteq Page
  BY DEF IInv, Typed, TypeOK
<1>2. Working = [p \in owned |-> View(p)]
  BY IdleWorking
<1>3. Working' = [p \in owned |-> View(p)']
  BY <1>1 DEF Working, Nothing
<1> QED
  BY <1>2, <1>3

\* One more savepoint is one more mark.
LEMMA MarksGrow ==
    ASSUME IInv, ~PastCommitPoint, ~PastCommitPoint', NEW sp \in SavepointRec,
           savepoints' = Append(savepoints, sp)
    PROVE  Marks' = Append(Marks, MarkOf(sp))
<1>1. savepoints \in Seq(SavepointRec)
  BY DEF IInv, Typed, TypeOK, SavepointRec
<1>2. /\ DOMAIN savepoints' = 1 .. Len(savepoints) + 1
      /\ \A i \in 1 .. Len(savepoints) : savepoints'[i] = savepoints[i]
      /\ savepoints'[Len(savepoints) + 1] = sp
      /\ Len(savepoints) \in Nat
  BY <1>1, AppendProperties, LenProperties
<1>3. Marks' = [i \in 1 .. Len(savepoints) + 1 |-> MarkOf(savepoints'[i])]
  BY <1>2 DEF Marks, MarkOf
<1> DEFINE T == {MarkOf(x) : x \in SavepointRec}
           M == Append(Marks, MarkOf(sp))
<1>4. Marks \in Seq(T) /\ MarkOf(sp) \in T /\ Len(Marks) = Len(savepoints)
  BY MarksAre
<1> HIDE DEF T
<1>5. /\ M \in Seq(T) /\ Len(M) = Len(savepoints) + 1
      /\ \A i \in 1 .. Len(savepoints) : M[i] = Marks[i]
      /\ M[Len(savepoints) + 1] = MarkOf(sp)
  BY <1>4, AppendProperties
<1> HIDE DEF M, MarkOf
<1>6. \A i \in 1 .. Len(savepoints) : M[i] = MarkOf(savepoints'[i])
  BY <1>2, <1>5, MarksAre
<1>7. \A i \in 1 .. Len(savepoints) + 1 : M[i] = MarkOf(savepoints'[i])
  BY <1>2, <1>5, <1>6
<1>8. M = [i \in 1 .. Len(savepoints) + 1 |-> MarkOf(savepoints'[i])]
  BY <1>5, <1>7, LenProperties
<1> QED
  BY <1>3, <1>8 DEF M

\* pager_savepoint.
LEMMA SavepointStep ==
    ASSUME IInv, ImgInv, NEW n \in Name, Savepoint(n)
    PROVE  ImgInv' /\ Refines
<1> DEFINE sp == [name |-> n, num |-> numPages, free |-> freePages, dirty |-> dirty,
                  img |-> [p \in Page |-> IF p < numPages THEN View(p) ELSE None],
                  owned |-> owned]
<1>1. ClientStep
  BY DEF ClientStep
<1>2. /\ Running /\ inTxn /\ savepoints' = Append(savepoints, sp)
      /\ UNCHANGED <<numPages, cache, dirty, spills, shadows, stmt, owned>>
  BY DEF Savepoint, frameVars, controlVars, ownVars
<1> USE ClientKeeps
<1>3. \A p \in owned : p \in Page /\ sp.img[p] = View(p)
  BY <1>1, OwnedView
<1>4. sp \in SavepointRec
  <2>1. \A p \in Below(numPages) : View(p) \in Image
    <3>1. \A p \in Below(numPages) : Readable(p) /\ p \in Page
      BY PagerAssumption DEF Savepoint, IInv, Typed, TypeOK, Below, Page
    <3> QED
      BY <3>1, ViewIsImage DEF IInv
  <2>2. sp.img \in [Page -> SomeImage]
    BY <2>1 DEF SomeImage, IInv, Typed, TypeOK, Below, Page
  <2> QED
    BY <2>2 DEF SavepointRec, IInv, Typed, TypeOK
<1>5. \A p \in owned \ dirty : p < fileLen /\ sp.img[p] = file[p] /\ file[p] \in Datum
  BY <1>1, <1>2, <1>3, InTransaction, OwnedView DEF Clean
<1>6. /\ Len(savepoints) \in Nat
      /\ DOMAIN savepoints = 1 .. Len(savepoints)
      /\ DOMAIN savepoints' = 1 .. Len(savepoints) + 1
      /\ \A i \in 1 .. Len(savepoints) : savepoints'[i] = savepoints[i]
      /\ savepoints'[Len(savepoints) + 1] = sp
  BY <1>2, <1>4, AppendProperties, LenProperties DEF IInv, Typed, TypeOK, SavepointRec
<1>7. TxnOverFile'
  <2> HIDE DEF sp
  <2>1. sp.owned = owned /\ sp.dirty = dirty
    BY DEF sp
  <2>2. ASSUME NEW i \in DOMAIN savepoints'
        PROVE  \A p \in savepoints'[i].owned \ savepoints'[i].dirty :
                   p < fileLen /\ savepoints'[i].img[p] = file[p] /\ file[p] \in Datum
    <3>1. CASE i = Len(savepoints) + 1
      BY <1>5, <1>6, <2>1, <3>1
    <3>2. CASE i \in DOMAIN savepoints
      BY <1>6, <3>2 DEF ImgInv, TxnOverFile
    <3> QED
      BY <1>6, <3>1, <3>2
  <2>3. \A i \in DOMAIN savepoints' :
           \A p \in savepoints'[i].owned \ savepoints'[i].dirty :
               p < fileLen' /\ savepoints'[i].img[p] = file'[p] /\ file'[p] \in Datum
    BY <1>1, <2>2
  <2>4. ~wal'.present /\ shadows' = Nothing
    BY <1>1, <1>2, InTransaction
  <2> QED
    BY <2>3, <2>4 DEF TxnOverFile
<1>8. RootOwned'
  <2> HIDE DEF sp
  <2>1. sp.owned = owned
    BY DEF sp
  <2>2. \A i \in DOMAIN savepoints' : 0 \in savepoints'[i].owned
    <3>1. \A i \in DOMAIN savepoints' : i \in DOMAIN savepoints \/ i = Len(savepoints) + 1
      BY <1>6
    <3> QED
      BY <1>6, <2>1, <3>1 DEF ImgInv, RootOwned
  <2> QED
    BY <1>1, <1>2, <2>2 DEF ImgInv, RootOwned
<1>9. NothingPending' /\ CleanPages'
  BY <1>1, <1>2, ZenonT(60) DEF ImgInv, NothingPending, CleanPages, Clean, BaseView
<1>10. Working = [p \in owned |-> View(p)]
  BY <1>1, IdleWorking
<1>11. Working' = Working
  <2>1. \A p \in owned : View(p)' = View(p)
    BY <1>1, <1>2 DEF View
  <2> QED
    BY <1>1, <1>2, <2>1, SameWorking
<1>12. MarkOf(sp) = [name |-> n, store |-> Working]
  BY <1>3, <1>10 DEF MarkOf
<1>13. Marks' = Append(Marks, [name |-> n, store |-> Working])
  <2> HIDE DEF sp
  <2> QED
    BY <1>1, <1>2, <1>4, <1>12, MarksGrow
<1>14. Store!Savepoint(n)
  BY <1>1, <1>2, <1>11, <1>13 DEF Store!Savepoint
<1> QED
  BY <1>1, <1>7, <1>8, <1>9, <1>14 DEF ImgInv, Refines, Store!Next

\* pager_release_savepoint.
LEMMA ReleaseStep ==
    ASSUME IInv, ImgInv, NEW n \in Name, Release(n)
    PROVE  ImgInv' /\ Refines
<1>1. ClientStep
  BY DEF ClientStep
<1>2. PICK i \in DOMAIN savepoints : Newest(n, i) /\ savepoints' = SubSeq(savepoints, 1, i - 1)
  BY DEF Release, Newest
<1>3. /\ Running /\ inTxn
      /\ UNCHANGED <<numPages, cache, dirty, spills, shadows, stmt, owned>>
  BY DEF Release, frameVars, controlVars, ownVars
<1> USE ClientKeeps
<1>4. i - 1 \in 0 .. Len(savepoints)
  BY <1>1, MarksAre
<1>5. /\ DOMAIN savepoints' \subseteq DOMAIN savepoints
      /\ \A j \in DOMAIN savepoints' : savepoints'[j] = savepoints[j]
  BY <1>2, <1>4, PrefixOfSavepoints
<1>6. RootOwned' /\ TxnOverFile'
  BY <1>1, <1>3, <1>5, ZenonT(60) DEF ImgInv, RootOwned, TxnOverFile
<1>7. NothingPending' /\ CleanPages'
  BY <1>1, <1>3, ZenonT(60) DEF ImgInv, NothingPending, CleanPages, Clean, BaseView
<1>8. Working' = Working
  <2>1. \A p \in owned : View(p)' = View(p)
    BY <1>1, <1>3 DEF View
  <2> QED
    BY <1>1, <1>3, <2>1, SameWorking
<1>9. Marks' = SubSeq(Marks, 1, i - 1)
  BY <1>1, <1>2, <1>4, PrefixOfMarks
<1>10. Store!NewestMark(n, i) /\ DOMAIN Marks = DOMAIN savepoints
  BY <1>1, <1>2, NewestIsNewest, MarksAre
<1>11. Store!Release(n)
  BY <1>1, <1>2, <1>3, <1>8, <1>9, <1>10 DEF Store!Release
<1> QED
  BY <1>1, <1>6, <1>7, <1>11 DEF ImgInv, Refines, Store!Next

\* pager_rollback_to_savepoint.
LEMMA RollbackToStep ==
    ASSUME IInv, ImgInv, NEW n \in Name, RollbackTo(n)
    PROVE  ImgInv' /\ Refines
<1>1. ClientStep
  BY DEF ClientStep
<1>2. PICK i \in DOMAIN savepoints :
        /\ Newest(n, i) /\ savepoints' = SubSeq(savepoints, 1, i)
        /\ cache' = Nothing /\ dirty' = savepoints[i].dirty
        /\ spills' = [p \in Page |-> IF p \in savepoints[i].dirty
                                     THEN savepoints[i].img[p] ELSE None]
        /\ owned' = savepoints[i].owned
  BY DEF RollbackTo, Newest
<1>3. Running /\ inTxn /\ UNCHANGED <<shadows, stmt>>
  BY DEF RollbackTo, controlVars
<1> USE ClientKeeps
<1>4. i \in 0 .. Len(savepoints)
  BY <1>1, MarksAre
<1>5. /\ DOMAIN savepoints' \subseteq DOMAIN savepoints
      /\ \A j \in DOMAIN savepoints' : savepoints'[j] = savepoints[j]
  BY <1>2, <1>4, PrefixOfSavepoints
<1>6. RootOwned'
  BY <1>1, <1>2, <1>3, <1>5 DEF ImgInv, RootOwned
<1>a. TxnOverFile'
  <2>1. inTxn' /\ ~PastCommitPoint' /\ ~wal'.present /\ shadows' = Nothing
    BY <1>1, <1>3, InTransaction
  <2>2. ASSUME NEW j \in DOMAIN savepoints'
        PROVE  \A p \in savepoints'[j].owned \ savepoints'[j].dirty :
                   p < fileLen' /\ savepoints'[j].img[p] = file'[p] /\ file'[p] \in Datum
    BY <1>1, <1>5 DEF ImgInv, TxnOverFile
  <2> QED
    BY <2>1, <2>2 DEF TxnOverFile
<1>7. NothingPending'
  BY <1>1, <1>3, InTransaction DEF ImgInv, NothingPending
<1>8. savepoints[i] \in SavepointRec
  BY ElementOfSeq, MarksAre, <1>1 DEF IInv, Typed, TypeOK, SavepointRec
<1>9. \A p \in owned' : p \in Page /\ cache'[p] = None /\ shadows'[p] = None
  BY <1>2, <1>3, <1>8, InTransaction DEF Nothing, SavepointRec
<1>10. \A p \in owned' \ dirty' :
          /\ p < fileLen /\ savepoints[i].img[p] = file[p] /\ file[p] \in Datum
          /\ file[p] # None
  BY <1>2, PagerAssumption DEF ImgInv, TxnOverFile
<1>11. CleanPages'
  BY <1>1, <1>3, <1>9, <1>10, InTransaction DEF CleanPages, Clean, BaseView
<1>12. \A p \in owned' : View(p)' = savepoints[i].img[p]
  <2>1. ASSUME NEW p \in owned', p \in dirty'
        PROVE  View(p)' = savepoints[i].img[p]
    <3>1. savepoints[i].img[p] \in Datum /\ savepoints[i].img[p] # None
      BY <1>2, <2>1, PagerAssumption DEF IInv, Typed, ImagesOK
    <3> QED
      BY <1>2, <1>9, <2>1, <3>1 DEF View
  <2>2. ASSUME NEW p \in owned', p \notin dirty'
        PROVE  View(p)' = savepoints[i].img[p]
    BY <1>1, <1>9, <1>10, <2>2 DEF View
  <2> QED
    BY <2>1, <2>2
<1>13. Working' = [p \in owned' |-> View(p)']
  BY <1>1, <1>9 DEF Working, Nothing
<1>14. DOMAIN Marks = DOMAIN savepoints
       /\ Marks[i].store = [p \in savepoints[i].owned |-> savepoints[i].img[p]]
  BY <1>1, MarksAre, SMTT(60) DEF MarkOf
<1>15. Working' = Marks[i].store
  BY <1>2, <1>12, <1>13, <1>14
<1>16. Marks' = SubSeq(Marks, 1, i)
  BY <1>1, <1>2, <1>4, PrefixOfMarks
<1>17. Store!NewestMark(n, i)
  BY <1>1, <1>2, NewestIsNewest
<1>18. Store!RollbackTo(n)
  BY <1>1, <1>3, <1>14, <1>15, <1>16, <1>17 DEF Store!RollbackTo
<1> QED
  BY <1>1, <1>6, <1>a, <1>7, <1>11, <1>18 DEF ImgInv, Refines, Store!Next

\* pager_rollback.
LEMMA RollbackStep ==
    ASSUME IInv, ImgInv, Rollback
    PROVE  ImgInv' /\ Refines
<1>1. /\ Running /\ inTxn /\ ~Recovering /\ ~Late /\ held = Nothing
      /\ RecFile = file /\ shadows = Nothing /\ ~wal.present /\ stmt = "none"
      /\ ~PastCommitPoint /\ task = "none"
  BY Idle, InTransaction
  DEF Rollback, Running, Recovering, Late, Ckpt
<1>2. /\ cache' = Nothing /\ dirty' = {} /\ owned' = cowned /\ cowned' = cowned
      /\ fileLen' = txn.len /\ file' = [p \in Page |-> IF p < txn.len THEN file[p] ELSE Hole]
      /\ inTxn' = FALSE /\ savepoints' = <<>>
      /\ UNCHANGED <<wal, shadows, pc, task, stmt, held>>
  BY <1>1 DEF Rollback, controlVars, IInv, Ownership
<1>3. /\ ~Recovering' /\ ~Late' /\ ~PastCommitPoint' /\ held' = Nothing
      /\ RecFile' = file' /\ RecNum' = txn.len
  BY <1>1, <1>2 DEF Running, Recovering, Late, PastCommitPoint, RecFile, RecNum, Ckpt
<1>4. \A p \in cowned : p \in Page /\ p < txn.len /\ file'[p] = file[p] /\ file[p] \in Datum
  <2>1. cowned \subseteq Below(txn.len) /\ txn.len \in Nat
    BY <1>1, PagerAssumption DEF IInv, Typed, TypeOK, SavedSound, SoundFree, Ownership
  <2>2. cowned \subseteq Page /\ \A p \in cowned : p < txn.len
    BY <2>1, SMTT(60) DEF Below, IInv, Typed, TypeOK
  <2> QED
    BY <1>1, <1>2, <2>2 DEF ImgInv, CommittedThere
<1>5. FilesTidy' /\ CommittedThere'
  <2>1. \A p \in Page : p >= txn.len => ~(p < txn.len)
    BY PagerAssumption DEF IInv, Typed, TypeOK, Page
  <2>2. FilesTidy'
    BY <1>1, <1>2, <2>1 DEF ImgInv, FilesTidy
  <2>3. CommittedThere'
    BY <1>2, <1>3, <1>4 DEF CommittedThere
  <2> QED
    BY <2>2, <2>3
<1>6. RootOwned' /\ NothingPending' /\ TxnOverFile' /\ CheckpointReady'
  BY <1>1, <1>2, <1>3 DEF ImgInv, RootOwned, NothingPending, TxnOverFile, CheckpointReady,
     Running
<1>7. \A p \in cowned : BaseView(p)' = file[p] /\ cache'[p] = None /\ shadows'[p] = None
  BY <1>1, <1>2, <1>4 DEF BaseView, Nothing
<1>8. CleanPages'
  BY <1>2, <1>3, <1>4, <1>7 DEF CleanPages, Clean
<1>9. CommittedPages' /\ WrittenPages' /\ ReplayedPages'
  BY <1>1, <1>2, <1>3 DEF CommittedPages, WrittenPages, ReplayedPages
<1>10. Committed' = Committed /\ Committed = [p \in cowned |-> file[p]]
  BY <1>1, <1>2, <1>3, <1>4 DEF Committed
<1>11. Working' = [p \in cowned |-> file[p]]
  <2>1. \A p \in cowned : View(p)' = file[p] /\ held'[p] = None
    BY <1>2, <1>3, <1>4, <1>7 DEF View, Nothing
  <2> QED
    BY <1>2, <1>3, <2>1 DEF Working
<1>12. Marks' = <<>>
  BY <1>2, <1>3 DEF Marks
<1>13. Store!Rollback
  BY <1>1, <1>2, <1>3, <1>10, <1>11, <1>12 DEF Store!Rollback
<1> QED
  BY <1>5, <1>6, <1>8, <1>9, <1>13 DEF ImgInv, Refines, Store!Next

----------------------------------------------------------------------------
(* COMMIT                                                                  *)

\* COMMIT is asked for.
LEMMA StartCommitStep ==
    ASSUME IInv, ImgInv, StartCommit
    PROVE  ImgInv' /\ Refines
<1>1. /\ pc = "idle" /\ task = "none" /\ held = Nothing /\ stmt # "ddl"
      /\ pc' = "append" /\ task' = "commit"
      /\ UNCHANGED <<durableVars, numPages, frameVars, freePages, txnVars, stmt, held, ownVars>>
  BY Idle DEF StartCommit, Running, IInv, Control
<1>2. UNCHANGED <<file, fileLen, wal, cache, dirty, spills, shadows, inTxn, savepoints, stmt, held, owned, cowned>>
  BY <1>1 DEF durableVars, frameVars, txnVars, ownVars
<1>3. /\ ~Recovering /\ ~Late /\ ~PastCommitPoint
      /\ ~Recovering' /\ ~Late' /\ ~PastCommitPoint' /\ held' = Nothing
  BY <1>1 DEF Recovering, Late, PastCommitPoint, Ckpt
<1>4. RecNum' = RecNum /\ RecFile' = RecFile /\ Committed' = Committed
  BY <1>2, CommittedStays
<1>5. FilesTidy' /\ CommittedThere' /\ RootOwned' /\ NothingPending' /\ TxnOverFile'
  BY <1>1, <1>2, <1>3, <1>4
  DEF ImgInv, FilesTidy, CommittedThere, RootOwned, NothingPending, TxnOverFile
<1>6. CleanPages' /\ CheckpointReady'
  BY <1>1, <1>2, <1>3, <1>4 DEF ImgInv, CleanPages, Clean, BaseView, CheckpointReady
<1>7. CommittedPages' /\ WrittenPages' /\ ReplayedPages'
  BY <1>1, <1>3 DEF CommittedPages, WrittenPages, ReplayedPages
<1>8. Working' = Working
  <2>1. \A p \in owned : View(p)' = View(p)
    BY <1>2 DEF View
  <2> QED
    BY <1>1, <1>2, <1>3, <2>1, SameWorking
<1>9. Marks' = Marks
  BY <1>2, <1>3 DEF Marks
<1>10. Store!StartCommit
  BY <1>1, <1>2, <1>3, <1>4, <1>8, <1>9 DEF Store!StartCommit
<1> QED
  BY <1>5, <1>6, <1>7, <1>10 DEF ImgInv, Refines, Store!Next

\* After the record is in the log recovery finds what the session reads.
LEMMA LogHoldsWorking ==
    ASSUME IInv, ImgInv, pc = "append", wal' = CommitLog,
           UNCHANGED <<file, fileLen>>, cowned' = owned
    PROVE  /\ RecNum' = numPages /\ wal'.present
           /\ \A p \in owned : /\ p \in Page /\ p < numPages
                               /\ RecFile'[p] = View(p) /\ View(p) \in Datum
                               /\ p \in dirty => CommitImages[p] = View(p)
                               /\ p \notin dirty => Clean(p) /\ CommitImages[p] = None
           /\ Committed' = Working
<1>1. task = "commit" /\ held = Nothing /\ ~Recovering /\ ~Late
  BY DEF IInv, Control, Recovering, Late, Ckpt
<1>2. \A p \in owned : /\ p \in Page /\ p < numPages /\ View(p) \in Datum
                       /\ p \notin dirty => Clean(p) /\ View(p) = RecFile[p]
  BY <1>1, OwnedView
<1>3. /\ wal'.present /\ wal'.num = numPages
      /\ \A p \in Page : p < numPages =>
            wal'.img[p] = IF CommitImages[p] # None THEN CommitImages[p]
                          ELSE IF wal.present /\ p >= wal.num THEN Hole ELSE wal.img[p]
  <2>1. \A p \in Page : p < numPages => ~(p >= numPages)
    BY PagerAssumption DEF IInv, Typed, TypeOK, Page
  <2> QED
    BY <2>1 DEF CommitLog, Logged
<1>4. RecNum' = numPages
  BY <1>3 DEF RecNum
<1>5. \A p \in Page : p < numPages =>
         RecFile'[p] = IF wal'.img[p] # None THEN wal'.img[p] ELSE file[p]
  <2>1. \A p \in Page : p < numPages => ~(p >= wal'.num)
    BY <1>3, PagerAssumption DEF IInv, Typed, TypeOK, Page
  <2> QED
    BY <1>3, <2>1 DEF RecFile, Replayed
<1>6. ASSUME NEW p \in owned, p \in dirty
      PROVE  CommitImages[p] = View(p) /\ RecFile'[p] = View(p)
  <2>1. CommitImages[p] = View(p) /\ View(p) # None
    BY <1>2, <1>6, PagerAssumption DEF CommitImages
  <2> QED
    BY <1>2, <1>3, <1>5, <2>1
<1>7. ASSUME NEW p \in owned, p \notin dirty
      PROVE  CommitImages[p] = None /\ RecFile'[p] = View(p)
  <2>1. CommitImages[p] = None /\ p \in Page /\ p < numPages
    BY <1>2, <1>7 DEF CommitImages
  <2>2. View(p) = RecFile[p] /\ p < RecNum
    BY <1>2, <1>7 DEF Clean
  <2>3. CASE wal.present
    <3>1. /\ p < wal.num /\ ~(p >= wal.num)
          /\ RecFile[p] = IF wal.img[p] # None THEN wal.img[p] ELSE file[p]
      BY <2>1, <2>2, <2>3, PagerAssumption DEF RecNum, RecFile, Replayed, IInv, Typed, TypeOK, Page
    <3> QED
      BY <1>3, <1>5, <2>1, <2>2, <3>1
  <2>4. CASE ~wal.present
    <3>1. RecFile[p] = file[p] /\ wal.img[p] = None
      BY <2>1, <2>4 DEF RecFile, ImgInv, FilesTidy, NoWal, Nothing
    <3> QED
      BY <1>3, <1>5, <2>1, <2>2, <2>4, <3>1
  <2> QED
    BY <2>1, <2>3, <2>4
<1>8. \A p \in owned : RecFile'[p] = View(p)
  BY <1>6, <1>7
<1>9. Committed' = Working
  <2>1. Working = [p \in owned |-> View(p)]
    BY <1>1, IdleWorking
  <2> QED
    BY <1>8, <2>1 DEF Committed
<1> QED
  BY <1>2, <1>3, <1>4, <1>6, <1>7, <1>8, <1>9

\* The fsync of the record.
LEMMA SyncLogStep ==
    ASSUME IInv, ImgInv, SyncLog
    PROVE  ImgInv' /\ Refines
<1>1. /\ pc = "append" /\ task = "commit" /\ held = Nothing /\ ~Recovering /\ ~Late
      /\ pc' = "free1" /\ task' = "commit" /\ stmt # "ddl"
      /\ UNCHANGED <<file, fileLen, cache, dirty, spills, inTxn, savepoints, stmt, held, owned>>
      /\ cowned' = owned /\ wal' = CommitLog
      /\ shadows' = [p \in Page |-> IF CommitImages[p] # None
                                    THEN CommitImages[p] ELSE shadows[p]]
  BY DEF SyncLog, IInv, Control, Recovering, Late, Ckpt, txnVars, ImgInv, CheckpointReady
<1>2. /\ RecNum' = numPages /\ wal'.present
      /\ \A p \in owned : /\ p \in Page /\ p < numPages
                          /\ RecFile'[p] = View(p) /\ View(p) \in Datum
                          /\ p \in dirty => CommitImages[p] = View(p)
                          /\ p \notin dirty => Clean(p) /\ CommitImages[p] = None
      /\ Committed' = Working
  BY <1>1, LogHoldsWorking
<1>3. ~Recovering' /\ ~Late' /\ PastCommitPoint' /\ ~PastCommitPoint /\ held' = Nothing
  BY <1>1 DEF Recovering, Late, PastCommitPoint, Ckpt
<1>4. FilesTidy' /\ CommittedThere'
  BY <1>1, <1>2 DEF ImgInv, FilesTidy, CommittedThere
<1>5. RootOwned' /\ NothingPending' /\ CheckpointReady' /\ TxnOverFile'
  BY <1>1, <1>3 DEF ImgInv, RootOwned, NothingPending, CheckpointReady, TxnOverFile
<1>6. ASSUME NEW p \in owned
      PROVE  Clean(p)' /\ View(p)' = View(p)
  <2>1. CASE p \in dirty
    <3>1. shadows'[p] = View(p) /\ View(p) # None
      BY <1>1, <1>2, <2>1, PagerAssumption
    <3>2. BaseView(p)' = View(p)
      BY <3>1 DEF BaseView
    <3>3. cache'[p] = None \/ cache'[p] = View(p)
      BY <1>1 DEF View
    <3>4. View(p)' = View(p)
      BY <1>1, <2>1, DirtyView DEF IInv, View
    <3> QED
      BY <1>2, <3>2, <3>3, <3>4 DEF Clean
  <2>2. CASE p \notin dirty
    <3>1. shadows'[p] = shadows[p]
      BY <1>1, <1>2, <2>2
    <3>2. BaseView(p)' = BaseView(p) /\ View(p)' = View(p)
      BY <1>1, <3>1 DEF BaseView, View
    <3>3. Clean(p) /\ View(p) = RecFile[p]
      BY <1>2, <2>2, CleanView
    <3> QED
      BY <1>1, <1>2, <3>2, <3>3 DEF Clean
  <2> QED
    BY <2>1, <2>2
<1>7. CleanPages' /\ CommittedPages'
  BY <1>1, <1>2, <1>6 DEF CleanPages, CommittedPages
<1>8. WrittenPages' /\ ReplayedPages'
  BY <1>1, <1>3 DEF WrittenPages, ReplayedPages
<1>9. Working' = Working
  BY <1>1, <1>3, <1>6, SameWorking
<1>10. Marks' = <<>>
  BY <1>3 DEF Marks
<1>11. Store!Durable
  BY <1>1, <1>2, <1>3, <1>9, <1>10 DEF Store!Durable
<1> QED
  BY <1>4, <1>5, <1>7, <1>8, <1>11 DEF ImgInv, Refines, Store!Next

\* pager_commit's last steps.
LEMMA EndCommitStep ==
    ASSUME IInv, ImgInv, EndCommit
    PROVE  ImgInv' /\ Refines
<1>1. /\ pc = "free3" /\ task = "commit" /\ held = Nothing /\ ~Recovering /\ PastCommitPoint
      /\ pc' = "idle" /\ task' = "none" /\ stmt' = "none" /\ inTxn' = FALSE
      /\ savepoints' = <<>>
      /\ UNCHANGED <<file, fileLen, wal, cache, shadows, held, owned, cowned>>
  BY DEF EndCommit, IInv, Control, Recovering, PastCommitPoint, Ckpt, ownVars
<1>2. dirty' = {}
  <2>1. \A p \in dirty : ~(p >= numPages)
    BY PagerAssumption DEF IInv, Typed, TypeOK, Bounded, Below
  <2> QED
    BY <2>1 DEF EndCommit
<1>3. /\ ~Recovering' /\ ~Late' /\ ~PastCommitPoint' /\ held' = Nothing
  BY <1>1 DEF Recovering, Late, PastCommitPoint, Ckpt
<1>4. RecNum' = RecNum /\ RecFile' = RecFile /\ Committed' = Committed
  BY <1>1, CommittedStays
<1>5. FilesTidy' /\ CommittedThere' /\ RootOwned'
  BY <1>1, <1>4 DEF ImgInv, FilesTidy, CommittedThere, RootOwned
<1>6. NothingPending' /\ CheckpointReady' /\ TxnOverFile'
  BY <1>1, <1>2, <1>3 DEF NothingPending, CheckpointReady, TxnOverFile
<1>7. \A p \in owned : p \in Page /\ Clean(p) /\ View(p) = RecFile[p]
  BY <1>1 DEF ImgInv, CommittedPages, IInv, Typed, TypeOK
<1>8. \A p \in owned : Clean(p)'
  BY <1>1, <1>4, <1>7 DEF Clean, BaseView
<1>9. CleanPages' /\ CommittedPages' /\ WrittenPages' /\ ReplayedPages'
  BY <1>1, <1>3, <1>8 DEF CleanPages, CommittedPages, WrittenPages, ReplayedPages
<1>10. Working' = Working
  <2>1. \A p \in owned : View(p)' = RecFile'[p]
    BY <1>2, <1>8 DEF Clean, View, BaseView
  <2> QED
    BY <1>1, <1>3, <1>4, <1>7, <2>1, SameWorking
<1>11. Marks = <<>> /\ Marks' = <<>>
  BY <1>1, <1>3 DEF Marks
<1>12. UNCHANGED Store!vars
  BY <1>1, <1>3, <1>4, <1>10, <1>11 DEF Store!vars
<1> QED
  BY <1>5, <1>6, <1>9, <1>12 DEF ImgInv, Refines

\* persist_free_list_snapshot.
LEMMA PersistStep ==
    ASSUME IInv, ImgInv, WriteFreeWal \/ RemoveFree \/ RenameFree
    PROVE  ImgInv' /\ Refines
<1>1. /\ UNCHANGED <<file, fileLen, wal, cache, dirty, spills, shadows, inTxn, savepoints,
                     task, stmt, held, owned, cowned>>
      /\ pc \in FreeSteps /\ pc' \in FreeSteps
      /\ pc # "rmwal" /\ (pc' = "rmwal" => task # "commit")
  BY DEF WriteFreeWal, RemoveFree, RenameFree, FreeSteps, frameVars, txnVars, ownVars
<1>2. Recovering' = Recovering /\ Late' = Late /\ PastCommitPoint' = PastCommitPoint
  BY <1>1 DEF Recovering, Late, PastCommitPoint, FreeSteps
<1>3. RecNum' = RecNum /\ RecFile' = RecFile /\ Committed' = Committed
  BY <1>1, CommittedStays
<1>4. \A p : Clean(p)' = Clean(p) /\ View(p)' = View(p)
  BY <1>1, <1>3 DEF Clean, BaseView, View
<1>5. FilesTidy' /\ CommittedThere' /\ RootOwned' /\ NothingPending' /\ TxnOverFile'
  BY <1>1, <1>2, <1>3
  DEF ImgInv, FilesTidy, CommittedThere, RootOwned, NothingPending, TxnOverFile
<1>6. CheckpointReady'
  BY <1>1 DEF ImgInv, CheckpointReady, FreeSteps
<1>7. CleanPages' /\ CommittedPages' /\ WrittenPages' /\ ReplayedPages'
  BY <1>1, <1>2, <1>3, <1>4 DEF ImgInv, CleanPages, CommittedPages, WrittenPages, ReplayedPages
<1>8. Working' = Working /\ Marks' = Marks
  BY <1>1, <1>2, <1>3, <1>4 DEF Working, Marks
<1>9. UNCHANGED Store!vars
  BY <1>1, <1>2, <1>3, <1>8 DEF Store!vars, FreeSteps
<1> QED
  BY <1>5, <1>6, <1>7, <1>9 DEF ImgInv, Refines

----------------------------------------------------------------------------
(* Checkpoint                                                              *)

\* During a checkpoint no transaction is open, and what is not CREATE TABLE's
\* is committed.
LEMMA DuringCheckpoint ==
    ASSUME IInv, ImgInv, task \in Ckpt
    PROVE  /\ ~inTxn /\ savepoints = <<>> /\ cowned \subseteq owned /\ ~Recovering
           /\ owned \subseteq Below(numPages) /\ owned \subseteq Page
           /\ ~PastCommitPoint /\ Marks = <<>>
           /\ \A p \in cowned : p \notin dirty /\ held[p] = None
           /\ task # "ddl" => owned = cowned /\ dirty = {} /\ held = Nothing
<1>1. ~Recovering /\ ~PastCommitPoint /\ (task = "ddl" => stmt = "ddl") /\ ~inTxn
  BY DEF IInv, Control, Recovering, Ckpt, PastCommitPoint
<1>2. owned \subseteq Below(numPages) /\ owned \subseteq Page /\ cowned \subseteq Page
  BY <1>1 DEF IInv, FreeListSound, SoundFree, Started, Recovering, Typed, TypeOK
<1>3. task # "ddl" => owned = cowned /\ dirty = {} /\ held = Nothing
  BY <1>1 DEF IInv, Control, Ownership, ImgInv, NothingPending, Ckpt
<1>4. task = "ddl" => cowned \subseteq owned /\ \A p \in cowned : p \notin dirty /\ held[p] = None
  BY <1>1 DEF IInv, Ownership, ImgInv, NothingPending
<1>5. savepoints = <<>> /\ Marks = <<>>
  BY <1>1 DEF ImgInv, NothingPending, Marks
<1> QED
  BY <1>1, <1>2, <1>3, <1>4, <1>5, NothingHeld

\* The start of a checkpoint.
LEMMA StartCheckpointStep ==
    ASSUME IInv, ImgInv, "dotckpt" \notin Uses, NEW t \in Ckpt, StartCheckpoint(t)
    PROVE  ImgInv' /\ Refines
<1>1. /\ pc = "idle" /\ task = "none" /\ held = Nothing /\ ~inTxn
      /\ ~Recovering /\ ~Late /\ ~PastCommitPoint
      /\ (t # "ddl" => stmt = "none") /\ (t = "ddl" => stmt = "ddl")
      /\ pc' = "write" /\ task' = t
      /\ UNCHANGED <<file, fileLen, wal, cache, spills, shadows, inTxn, savepoints, stmt, owned, cowned>>
  BY Idle DEF StartCheckpoint, Running, Recovering, Late, PastCommitPoint, Ckpt, durableVars,
     txnVars, ownVars, IInv, Control
<1>2. /\ dirty' = dirty \ Overlap(t)
      /\ \A p \in Page : held'[p] = IF p \in Overlap(t) THEN View(p) ELSE None
      /\ Overlap(t) \subseteq dirty
  BY DEF StartCheckpoint, Overlap
<1>3. \A p \in owned : p \in Page /\ View(p) \in Datum /\ (p \notin dirty => Clean(p))
  BY <1>1, OwnedView
<1>4. ~Recovering' /\ ~Late' /\ ~PastCommitPoint'
  BY <1>1 DEF Recovering, Late, FreeSteps, PastCommitPoint, Ckpt
<1>5. RecNum' = RecNum /\ RecFile' = RecFile /\ Committed' = Committed
  BY <1>1, CommittedStays
<1>6. FilesTidy' /\ CommittedThere' /\ RootOwned'
  BY <1>1, <1>5 DEF ImgInv, FilesTidy, CommittedThere, RootOwned
<1>7. NothingPending'
  <2>1. held' # Nothing => stmt' = "ddl"
    <3>1. CASE stmt = "none"
      <4>1. Overlap(t) = {}
        BY <1>1, <1>2, <3>1 DEF ImgInv, NothingPending
      <4>2. held' = Nothing
        BY <4>1 DEF StartCheckpoint, Nothing
      <4> QED
        BY <4>2
    <3> QED
      BY <1>1, <3>1
  <2>2. stmt' = "ddl" => \A p \in cowned' : p \notin dirty' /\ held'[p] = None
    BY <1>1, <1>2 DEF ImgInv, NothingPending, IInv, Typed, TypeOK
  <2> QED
    BY <1>1, <1>2, <1>4, <2>1, <2>2 DEF ImgInv, NothingPending
<1>8. CheckpointReady'
  <2>1. t = "begin" => dirty = {}
    BY <1>1 DEF ImgInv, NothingPending
  <2>2. t # "begin" => \A p \in dirty' : shadows[p] = None
    <3>1. \A p \in dirty : p \in Page /\ p < numPages
      BY PagerAssumption DEF IInv, Typed, TypeOK, Bounded, Below
    <3> QED
      BY <1>2, <3>1 DEF Overlap
  <2> QED
    BY <1>1, <1>2, <2>1, <2>2 DEF CheckpointReady, Ckpt
<1>9. TxnOverFile'
  BY <1>1 DEF ImgInv, NothingPending, TxnOverFile
<1>10. \A p \in owned : View(p)' = IF p \in Overlap(t) THEN View(p)' ELSE View(p)
  BY <1>1, <1>2 DEF View
<1>11. CleanPages'
  <2>1. ASSUME NEW p \in owned \ dirty', held'[p] = None
        PROVE  Clean(p)'
    <3>1. p \notin dirty
      BY <1>2, <1>3, <2>1, PagerAssumption
    <3> QED
      BY <1>1, <1>3, <1>5, <3>1 DEF Clean, BaseView
  <2> QED
    BY <1>1, <2>1 DEF CleanPages
<1>12. CommittedPages' /\ WrittenPages' /\ ReplayedPages'
  BY <1>1, <1>4 DEF CommittedPages, WrittenPages, ReplayedPages, Ckpt
<1>13. Working' = Working
  <2>1. Working = [p \in owned |-> View(p)]
    BY <1>1, IdleWorking
  <2>2. \A p \in owned : (IF held'[p] # None THEN held'[p] ELSE View(p)') = View(p)
    BY <1>2, <1>3, <1>10, PagerAssumption
  <2>3. Working' = [p \in owned |-> IF held'[p] # None THEN held'[p] ELSE View(p)']
    BY <1>1, <1>4 DEF Working
  <2> QED
    BY <2>1, <2>2, <2>3
<1>14. Marks' = Marks
  BY <1>1, <1>4 DEF Marks
<1>15. ASSUME t = "ddl"
       PROVE  Refines
  <2>1. Store!StartCommit
    BY <1>1, <1>4, <1>5, <1>13, <1>14, <1>15 DEF Store!StartCommit
  <2> QED
    BY <2>1 DEF Refines, Store!Next
<1>16. ASSUME t # "ddl"
       PROVE  Refines
  <2>1. UNCHANGED Store!vars
    BY <1>1, <1>4, <1>5, <1>13, <1>14, <1>16 DEF Store!vars
  <2> QED
    BY <2>1 DEF Refines
<1> QED
  BY <1>6, <1>7, <1>8, <1>9, <1>11, <1>12, <1>15, <1>16 DEF ImgInv

\* What the page writes leave for a page in use, CREATE TABLE's held one aside.
LEMMA FlushedPage ==
    ASSUME IInv, ImgInv, pc = "write", NEW p \in owned, held[p] = None
    PROVE  /\ p \in Page /\ p < numPages /\ Flushed[p] = View(p) /\ View(p) \in Datum
           /\ p \notin dirty => Clean(p) /\ View(p) = RecFile[p]
<1>1. task \in Ckpt /\ ~Late /\ ~Recovering
  BY DEF IInv, Control, Late, FreeSteps, Recovering, Ckpt
<1>2. p \in Page /\ p < numPages /\ ~(p >= numPages)
  <2>1. p \in Page /\ p \in Below(numPages)
    BY <1>1, DuringCheckpoint
  <2> QED
    BY <2>1, PagerAssumption DEF Below, Page, IInv, Typed, TypeOK
<1>3. p \notin dirty => Clean(p) /\ View(p) = RecFile[p]
  BY <1>1, CleanView DEF ImgInv, CleanPages
<1>4. View(p) \in Datum
  BY <1>3, DirtyView DEF IInv, Clean
<1>5. CASE p \in dirty
  BY <1>1, <1>2, <1>4, <1>5 DEF Flushed, ImgInv, CheckpointReady
<1>6. CASE p \notin dirty
  <2>1. BaseView(p) = View(p) /\ BaseView(p) \in Datum
    BY <1>3, <1>6 DEF Clean
  <2>2. shadows[p] # None \/ p < fileLen
    BY <2>1, PagerAssumption DEF BaseView
  <2>3. Flushed[p] = BaseView(p)
    BY <1>2, <1>6, <2>2 DEF Flushed, BaseView
  <2> QED
    BY <1>2, <1>3, <1>4, <2>1, <2>3
<1> QED
  BY <1>2, <1>3, <1>4, <1>5, <1>6

\* A committed page reads in the new file as recovery would have found it.
LEMMA FlushedCommitted ==
    ASSUME IInv, ImgInv, pc = "write", NEW p \in cowned
    PROVE  /\ p \in Page /\ p \in owned /\ p < numPages
           /\ Flushed[p] = RecFile[p] /\ RecFile[p] \in Datum
<1>1. task \in Ckpt
  BY DEF IInv, Control
<1>2. p \in owned /\ held[p] = None /\ p \notin dirty
  BY <1>1, DuringCheckpoint
<1> QED
  BY <1>2, FlushedPage DEF ImgInv, CommittedThere

\* The page writes of a checkpoint.
LEMMA FlushPagesStep ==
    ASSUME IInv, ImgInv, FlushPages
    PROVE  ImgInv' /\ Refines
<1>1. /\ pc = "write" /\ task \in Ckpt /\ pc' = "free1" /\ task' = task
      /\ file' = Flushed /\ fileLen' = numPages /\ shadows' = Nothing
      /\ UNCHANGED <<wal, cache, inTxn, savepoints, stmt, held, owned, cowned>>
  BY DEF FlushPages, IInv, Control, txnVars, ownVars
<1>2. dirty' = {}
  <2>1. \A p \in dirty : ~(p >= numPages)
    BY PagerAssumption DEF IInv, Typed, TypeOK, Bounded, Below
  <2> QED
    BY <2>1 DEF FlushPages
<1>3. /\ ~inTxn /\ savepoints = <<>> /\ ~Recovering /\ ~PastCommitPoint
      /\ ~Recovering' /\ Late' /\ ~PastCommitPoint'
  BY <1>1, DuringCheckpoint DEF Recovering, Late, FreeSteps, PastCommitPoint, Ckpt
<1>4. ASSUME NEW p \in cowned
      PROVE  p \in Page /\ p < RecNum' /\ RecFile'[p] = RecFile[p] /\ file'[p] = RecFile[p]
  <2>1. p \in Page /\ p < numPages /\ Flushed[p] = RecFile[p] /\ p < RecNum
    BY <1>1, FlushedCommitted DEF ImgInv, CommittedThere
  <2>2. CASE wal.present
    BY <1>1, <2>1, <2>2 DEF RecFile, RecNum, Replayed
  <2>3. CASE ~wal.present
    BY <1>1, <2>1, <2>3 DEF RecFile, RecNum
  <2> QED
    BY <1>1, <2>1, <2>2, <2>3
<1>5. \A p \in owned : held[p] = None =>
         /\ p \in Page /\ p < fileLen' /\ file'[p] = View(p) /\ View(p) \in Datum
         /\ cache[p] = None \/ cache[p] = View(p)
  BY <1>1, FlushedPage DEF View
<1>6. FilesTidy'
  BY <1>1 DEF ImgInv, FilesTidy, Flushed
<1>7. CommittedThere' /\ RootOwned'
  BY <1>1, <1>4 DEF ImgInv, CommittedThere, RootOwned
<1>8. NothingPending' /\ CheckpointReady' /\ TxnOverFile'
  BY <1>1, <1>2, <1>3 DEF ImgInv, NothingPending, CheckpointReady, TxnOverFile, Ckpt
<1>9. CleanPages' /\ CommittedPages' /\ ReplayedPages'
  BY <1>1, <1>3 DEF CleanPages, CommittedPages, ReplayedPages, Ckpt
<1>10. WrittenPages'
  BY <1>1, <1>2, <1>4, <1>5 DEF WrittenPages
<1>11. Committed' = Committed
  BY <1>1, <1>4 DEF Committed
<1>12. Working' = Working
  <2>1. ASSUME NEW p \in owned, held[p] = None
        PROVE  View(p)' = View(p)
    <3>1. cache'[p] = cache[p] /\ p \in Page /\ p < fileLen' /\ file'[p] = View(p)
          /\ (cache[p] = None \/ cache[p] = View(p))
      BY <1>1, <1>5, <2>1
    <3>2. shadows'[p] = None /\ p \notin dirty'
      BY <1>1, <1>2, <3>1 DEF Nothing
    <3>3. View(p)' = IF cache[p] # None THEN cache[p] ELSE file'[p]
      BY <3>1, <3>2 DEF View
    <3> QED
      BY <3>1, <3>3
  <2>2. Working = [p \in owned |-> IF held[p] # None THEN held[p] ELSE View(p)]
    BY <1>3 DEF Working
  <2>3. Working' = [p \in owned |-> IF held[p] # None THEN held[p] ELSE View(p)']
    BY <1>1, <1>3 DEF Working
  <2> QED
    BY <2>1, <2>2, <2>3
<1>13. Marks' = Marks
  BY <1>1, <1>3 DEF Marks
<1>14. UNCHANGED Store!vars
  BY <1>1, <1>3, <1>11, <1>12, <1>13 DEF Store!vars
<1> QED
  BY <1>6, <1>7, <1>8, <1>9, <1>10, <1>14 DEF ImgInv, Refines

\* When the log goes after a checkpoint, the file holds what it held.
LEMMA LogGoes ==
    ASSUME IInv, ImgInv, pc = "rmwal", task \in Ckpt, wal' = NoWal,
           UNCHANGED <<file, fileLen, cowned>>
    PROVE  /\ RecFile' = file /\ RecNum' = fileLen /\ Committed' = Committed
           /\ shadows = Nothing /\ dirty = {} /\ ~wal'.present
           /\ FilesTidy' /\ CommittedThere'
           /\ \A p \in owned : /\ p \in Page /\ p < fileLen
                               /\ held[p] = None =>
                                     /\ file[p] \in Datum /\ BaseView(p) = file[p]
                                     /\ View(p) = file[p]
                                     /\ cache[p] = None \/ cache[p] = file[p]
<1>1. Late /\ ~wal'.present
  BY DEF Late, FreeSteps, NoWal
<1>2. /\ shadows = Nothing /\ dirty = {}
      /\ \A p \in owned : held[p] = None =>
            file[p] \in Datum /\ (cache[p] = None \/ cache[p] = file[p])
      /\ \A p \in cowned : RecFile[p] = file[p]
  BY <1>1 DEF ImgInv, WrittenPages
<1>3. RecFile' = file /\ RecNum' = fileLen
  BY <1>1 DEF RecFile, RecNum
<1>4. \A p \in owned : p \in Page /\ p < fileLen
  <2>1. owned \subseteq Below(numPages) /\ owned \subseteq Page /\ fileLen = numPages
    BY DuringCheckpoint DEF IInv, Steps
  <2> QED
    BY <2>1, PagerAssumption DEF Below, IInv, Typed, TypeOK
<1>5. Committed' = Committed /\ CommittedThere'
  BY <1>2, <1>3, <1>4, DuringCheckpoint DEF Committed, CommittedThere, ImgInv
<1>6. FilesTidy'
  BY <1>1 DEF ImgInv, FilesTidy
<1>7. ASSUME NEW p \in owned, held[p] = None
      PROVE  BaseView(p) = file[p] /\ View(p) = file[p]
  <2>1. shadows[p] = None /\ p \notin dirty
    BY <1>2, <1>4 DEF Nothing
  <2> QED
    BY <1>2, <1>4, <1>7, <2>1 DEF BaseView, View
<1> QED
  BY <1>1, <1>2, <1>3, <1>4, <1>5, <1>6, <1>7

\* The second pass of pager_checkpoint.
LEMMA SecondPassStep ==
    ASSUME IInv, ImgInv, SecondPass
    PROVE  ImgInv' /\ Refines
<1>1. /\ pc = "rmwal" /\ task \in Ckpt /\ held # Nothing /\ wal' = NoWal
      /\ pc' = "write" /\ task' = task /\ held' = Nothing
      /\ cache' = [p \in Page |-> IF held[p] # None THEN None ELSE cache[p]]
      /\ spills' = [p \in Page |-> IF held[p] # None THEN held[p] ELSE spills[p]]
      /\ dirty' = dirty \cup {p \in Page : held[p] # None}
      /\ UNCHANGED <<file, fileLen, shadows, inTxn, savepoints, stmt, owned, cowned>>
  BY DEF SecondPass, Checkpointing, Holding, Ckpt, txnVars, ownVars
<1>2. /\ ~inTxn /\ savepoints = <<>> /\ ~Recovering /\ ~PastCommitPoint /\ task = "ddl"
      /\ ~Recovering' /\ ~Late' /\ ~PastCommitPoint'
      /\ \A p \in cowned : p \notin dirty /\ held[p] = None
  BY <1>1, DuringCheckpoint DEF Recovering, Late, FreeSteps, PastCommitPoint, Ckpt
<1>3. /\ RecFile' = file /\ RecNum' = fileLen /\ Committed' = Committed
      /\ shadows = Nothing /\ dirty = {}
      /\ FilesTidy' /\ CommittedThere'
      /\ \A p \in owned : /\ p \in Page /\ p < fileLen
                          /\ held[p] = None =>
                                /\ file[p] \in Datum /\ BaseView(p) = file[p]
                                /\ View(p) = file[p]
                                /\ cache[p] = None \/ cache[p] = file[p]
  BY <1>1, LogGoes
<1>4. stmt = "ddl"
  BY <1>2 DEF IInv, Control
<1>5. RootOwned' /\ TxnOverFile'
  BY <1>1, <1>2 DEF ImgInv, RootOwned, TxnOverFile
<1>6. NothingPending'
  <2>0. cowned \subseteq Page
    BY DEF IInv, Typed, TypeOK
  <2>1. \A p \in cowned' : p \notin dirty' /\ held'[p] = None
    BY <1>1, <1>2, <2>0 DEF Nothing
  <2> QED
    BY <1>1, <1>2, <1>4, <2>1 DEF NothingPending
<1>7. CheckpointReady'
  BY <1>1, <1>2, <1>3 DEF CheckpointReady, Nothing
<1>8. CleanPages'
  <2>1. ASSUME NEW p \in owned', p \notin dirty'
        PROVE  Clean(p)'
    <3>1. p \in Page /\ held[p] = None /\ cache'[p] = cache[p]
      BY <1>1, <1>3, <2>1
    <3>2. BaseView(p)' = BaseView(p)
      BY <1>1 DEF BaseView
    <3> QED
      BY <1>1, <1>3, <3>1, <3>2 DEF Clean
  <2> QED
    BY <2>1 DEF CleanPages
<1>9. CommittedPages' /\ WrittenPages' /\ ReplayedPages'
  BY <1>1, <1>2 DEF CommittedPages, WrittenPages, ReplayedPages, FreeSteps
<1>10. Working' = Working
  <2>1. ASSUME NEW p \in owned
        PROVE  View(p)' = IF held[p] # None THEN held[p] ELSE View(p)
    <3>0. p \in Page
      BY <1>3
    <3>1. CASE held[p] # None
      <4>1. cache'[p] = None /\ spills'[p] = held[p] /\ p \in dirty'
        BY <1>1, <3>0, <3>1
      <4> QED
        BY <3>1, <4>1 DEF View
    <3>2. CASE held[p] = None
      <4>1. cache'[p] = cache[p] /\ p \notin dirty' /\ p \notin dirty
        BY <1>1, <1>3, <3>0, <3>2
      <4> QED
        BY <1>1, <3>2, <4>1 DEF View
    <3> QED
      BY <3>1, <3>2
  <2>2. Working = [p \in owned |-> IF held[p] # None THEN held[p] ELSE View(p)]
    BY <1>2 DEF Working
  <2>3. Working' = [p \in owned |-> View(p)']
    BY <1>1, <1>2, <1>3 DEF Working, Nothing
  <2> QED
    BY <2>1, <2>2, <2>3
<1>11. Marks' = Marks
  BY <1>1, <1>2 DEF Marks
<1>12. UNCHANGED Store!vars
  BY <1>1, <1>2, <1>3, <1>10, <1>11 DEF Store!vars
<1> QED
  BY <1>3, <1>5, <1>6, <1>7, <1>8, <1>9, <1>12 DEF ImgInv, Refines

\* The log goes and nothing is held: the invariant, and what stays.
LEMMA LastRemoval ==
    ASSUME IInv, ImgInv, pc = "rmwal", task \in Ckpt, held = Nothing, wal' = NoWal,
           pc' \in {"idle", "catalog"}, task' \in {"none", "ddl"}, savepoints' = <<>>,
           UNCHANGED <<file, fileLen, cache, dirty, spills, shadows, stmt, held, owned, cowned>>
    PROVE  /\ ImgInv' /\ Committed' = Committed /\ Working' = Working /\ Marks' = Marks
           /\ ~PastCommitPoint /\ ~PastCommitPoint' /\ ~inTxn /\ Marks = <<>>
           /\ task # "ddl" => Working = Committed
<1>1. /\ ~inTxn /\ ~Recovering /\ ~PastCommitPoint /\ Marks = <<>>
      /\ ~Recovering' /\ ~Late' /\ ~PastCommitPoint'
      /\ \A p \in cowned : p \notin dirty
      /\ task # "ddl" => owned = cowned
  BY DuringCheckpoint DEF Recovering, Late, FreeSteps, PastCommitPoint, Ckpt
<1>2. /\ RecFile' = file /\ RecNum' = fileLen /\ Committed' = Committed
      /\ shadows = Nothing /\ dirty = {} /\ ~wal'.present
      /\ FilesTidy' /\ CommittedThere'
      /\ \A p \in owned : /\ p \in Page /\ p < fileLen
                          /\ held[p] = None =>
                                /\ file[p] \in Datum /\ BaseView(p) = file[p]
                                /\ View(p) = file[p]
                                /\ cache[p] = None \/ cache[p] = file[p]
  BY LogGoes
<1>3. \A p \in owned : /\ p \in Page /\ p < fileLen /\ file[p] \in Datum
                       /\ BaseView(p) = file[p] /\ View(p) = file[p]
                       /\ cache[p] = None \/ cache[p] = file[p]
  BY <1>2, NothingHeld
<1>4. RootOwned' /\ TxnOverFile'
  BY <1>2 DEF ImgInv, RootOwned, TxnOverFile
<1>5. NothingPending'
  <2>1. \A p \in cowned' : p \notin dirty' /\ held'[p] = None
    BY <1>2, NothingHeld DEF IInv, Typed, TypeOK
  <2> QED
    BY <1>1, <1>2, <2>1 DEF NothingPending
<1>6. CheckpointReady'
  BY <1>2 DEF CheckpointReady
<1>7. \A p \in owned : Clean(p)' /\ View(p)' = View(p)
  BY <1>2, <1>3 DEF Clean, BaseView, View
<1>8. CleanPages' /\ CommittedPages' /\ WrittenPages' /\ ReplayedPages'
  BY <1>1, <1>7 DEF CleanPages, CommittedPages, WrittenPages, ReplayedPages
<1>9. Working' = Working
  BY <1>1, <1>7, SameWorking
<1>10. Marks' = Marks
  BY <1>1 DEF Marks
<1>11. task # "ddl" => Working = Committed
  <2>1. Working = [p \in owned |-> file[p]]
    BY <1>1, <1>3, IdleWorking
  <2>2. Committed = [p \in cowned |-> file[p]]
    BY <1>2 DEF Committed
  <2> QED
    BY <1>1, <2>1, <2>2
<1> QED
  BY <1>1, <1>2, <1>4, <1>5, <1>6, <1>8, <1>9, <1>10, <1>11 DEF ImgInv

\* The ends of an automatic, a CREATE TABLE's and a BEGIN's checkpoint.
LEMMA EndOfCheckpointStep ==
    ASSUME IInv, ImgInv, EndCheckpoint \/ EndDdlCheckpoint
    PROVE  ImgInv' /\ Refines
<1>1. /\ pc = "rmwal" /\ task \in {"ckpt", "ddl"} /\ held = Nothing /\ wal' = NoWal
      /\ \/ task = "ckpt" /\ pc' = "idle" /\ task' = "none"
         \/ task = "ddl" /\ pc' = "catalog" /\ task' = "ddl"
      /\ UNCHANGED <<file, fileLen, cache, dirty, spills, shadows, inTxn, savepoints, stmt,
                     held, owned, cowned>>
  BY DEF EndCheckpoint, EndDdlCheckpoint, RemoveLog, Holding, frameVars, txnVars, ownVars
<1>2. task \in Ckpt /\ pc' \in {"idle", "catalog"} /\ task' \in {"none", "ddl"}
  BY <1>1 DEF Ckpt
<1>3. savepoints' = <<>>
  BY <1>1, <1>2, DuringCheckpoint
<1>4. /\ ImgInv' /\ Committed' = Committed /\ Working' = Working /\ Marks' = Marks
      /\ ~PastCommitPoint /\ ~PastCommitPoint'
  BY <1>1, <1>2, <1>3, LastRemoval
<1>5. UNCHANGED Store!vars
  BY <1>1, <1>4 DEF Store!vars
<1> QED
  BY <1>4, <1>5 DEF Refines

\* pager_begin_transaction's last step: nothing is uncommitted then.
LEMMA EndBeginStep ==
    ASSUME IInv, ImgInv, EndBegin
    PROVE  ImgInv' /\ Refines
<1>1. /\ pc = "rmwal" /\ task = "begin" /\ held = Nothing /\ wal' = NoWal
      /\ pc' = "idle" /\ task' = "none" /\ inTxn' = TRUE /\ savepoints' = <<>>
      /\ UNCHANGED <<file, fileLen, cache, dirty, spills, shadows, stmt, held, owned, cowned>>
  BY DEF EndBegin, RemoveLog, Holding, frameVars, ownVars
<1>2. task \in Ckpt /\ pc' \in {"idle", "catalog"} /\ task' \in {"none", "ddl"}
  BY <1>1 DEF Ckpt
<1>3. /\ ImgInv' /\ Committed' = Committed /\ Working' = Working /\ Marks' = Marks
      /\ ~PastCommitPoint /\ ~PastCommitPoint' /\ ~inTxn /\ Marks = <<>>
      /\ Working = Committed
  BY <1>1, <1>2, LastRemoval
<1>4. Store!Begin
  BY <1>1, <1>3 DEF Store!Begin
<1> QED
  BY <1>3, <1>4 DEF Refines, Store!Next

\* multitable_catalog_save.
LEMMA SaveCatalogStep ==
    ASSUME IInv, ImgInv, SaveCatalog
    PROVE  ImgInv' /\ Refines
<1>1. /\ pc = "catalog" /\ task = "ddl" /\ held = Nothing /\ stmt = "ddl" /\ ~inTxn
      /\ ~Recovering /\ ~Late /\ ~PastCommitPoint /\ dirty = {} /\ savepoints = <<>>
      /\ pc' = "idle" /\ task' = "none" /\ stmt' = "none" /\ cowned' = owned
      /\ UNCHANGED <<file, fileLen, wal, cache, dirty, spills, shadows, inTxn, savepoints,
                     held, owned>>
  BY DEF SaveCatalog, durableVars, frameVars, txnVars, IInv, Control, Recovering, Late,
     FreeSteps, PastCommitPoint, ImgInv, CheckpointReady, NothingPending
<1>2. RecFile' = RecFile /\ RecNum' = RecNum
  BY <1>1 DEF RecFile, RecNum, Replayed
<1>3. \A p \in owned : Clean(p) /\ View(p) = RecFile[p]
  BY <1>1, OwnedView
<1>4. ~Recovering' /\ ~Late' /\ ~PastCommitPoint'
  BY <1>1 DEF Recovering, Late, FreeSteps, PastCommitPoint
<1>5. FilesTidy' /\ CommittedThere' /\ RootOwned'
  BY <1>1, <1>2, <1>3 DEF ImgInv, FilesTidy, CommittedThere, RootOwned, Clean
<1>6. NothingPending' /\ CheckpointReady' /\ TxnOverFile'
  BY <1>1, <1>4 DEF NothingPending, CheckpointReady, TxnOverFile
<1>7. \A p \in owned : Clean(p)' /\ View(p)' = View(p)
  BY <1>1, <1>2, <1>3 DEF Clean, BaseView, View
<1>8. CleanPages' /\ CommittedPages' /\ WrittenPages' /\ ReplayedPages'
  BY <1>1, <1>4, <1>7 DEF CleanPages, CommittedPages, WrittenPages, ReplayedPages
<1>9. Working' = Working
  BY <1>1, <1>4, <1>7, SameWorking
<1>10. Committed' = Working
  <2>1. Working = [p \in owned |-> View(p)]
    BY <1>1, IdleWorking
  <2> QED
    BY <1>1, <1>2, <1>3, <2>1 DEF Committed
<1>11. Marks' = <<>>
  BY <1>1, <1>4 DEF Marks
<1>12. Store!Durable
  BY <1>1, <1>4, <1>9, <1>10, <1>11 DEF Store!Durable
<1> QED
  BY <1>5, <1>6, <1>8, <1>12 DEF ImgInv, Refines, Store!Next

----------------------------------------------------------------------------
(* The end of the process                                                  *)

\* Whatever ends it, the process leaves nothing in memory.
LEMMA DownLeaves ==
    ASSUME Down("closed"), FilesTidy', CommittedThere', 0 \in cowned'
    PROVE  /\ ImgInv'
           /\ Working' = Committed' /\ Marks' = <<>>
           /\ ~inTxn' /\ ~(pc' = "append") /\ pc' = "closed"
<1>1. /\ pc' = "closed" /\ task' = "none" /\ stmt' = "none" /\ inTxn' = FALSE
      /\ savepoints' = <<>> /\ dirty' = {} /\ owned' = cowned' /\ held' = Nothing
      /\ cache' = Nothing /\ spills' = Nothing /\ shadows' = Nothing
  BY DEF Down
<1>2. Recovering' /\ ~Late' /\ ~PastCommitPoint'
  BY <1>1 DEF Recovering, Late, PastCommitPoint, Ckpt
<1>3. RootOwned' /\ NothingPending' /\ CheckpointReady' /\ TxnOverFile'
  BY <1>1 DEF RootOwned, NothingPending, CheckpointReady, TxnOverFile
<1>4. CleanPages' /\ CommittedPages' /\ WrittenPages' /\ ReplayedPages'
  BY <1>1, <1>2 DEF CleanPages, CommittedPages, WrittenPages, ReplayedPages
<1>5. Working' = Committed' /\ Marks' = <<>>
  BY <1>1, <1>2 DEF Working, Marks
<1> QED
  BY <1>1, <1>3, <1>4, <1>5 DEF ImgInv

\* With the committed pages in place this is a crash of the page store.
LEMMA DownIsCrash ==
    ASSUME Down("closed"), FilesTidy', CommittedThere', 0 \in cowned',
           \/ Committed' = Committed
           \/ pc = "append" /\ Committed' = Working
    PROVE  ImgInv' /\ Refines
<1>1. /\ ImgInv' /\ Working' = Committed' /\ Marks' = <<>>
      /\ ~inTxn' /\ ~(pc' = "append") /\ pc' = "closed"
  BY DownLeaves
<1>2. Store!Crash
  BY <1>1 DEF Store!Crash
<1> QED
  BY <1>1, <1>2 DEF Refines, Store!Next

\* db_close.
LEMMA EndCloseStep ==
    ASSUME IInv, ImgInv, EndClose
    PROVE  ImgInv' /\ Refines
<1>1. /\ pc = "rmwal" /\ task \in Ckpt /\ wal' = NoWal
      /\ UNCHANGED <<file, fileLen, cowned>> /\ Down("closed")
  BY DEF EndClose, Ckpt
<1>2. FilesTidy' /\ CommittedThere' /\ Committed' = Committed /\ 0 \in cowned'
  BY <1>1, LogGoes DEF ImgInv, RootOwned
<1> QED
  BY <1>1, <1>2, DownIsCrash

\* A checksum that does not match ends the process and changes no file.
LEMMA ChecksumExitStep ==
    ASSUME IInv, ImgInv, ChecksumExit
    PROVE  ImgInv' /\ Refines
<1>1. UNCHANGED <<file, fileLen, wal, cowned>> /\ Down("closed")
  BY DEF ChecksumExit, durableVars
<1>2. RecNum' = RecNum /\ RecFile' = RecFile /\ Committed' = Committed
  BY <1>1, CommittedStays
<1>3. FilesTidy' /\ CommittedThere' /\ 0 \in cowned'
  BY <1>1, <1>2 DEF ImgInv, FilesTidy, CommittedThere, RootOwned
<1> QED
  BY <1>1, <1>2, <1>3, DownIsCrash

\* A torn rewrite leaves alone each page below both lengths that it would not
\* have changed.
LEMMA TornPage ==
    ASSUME IInv, NEW new \in [Page -> FileImage], NEW m \in Nat, Unsynced(new, m)
    PROVE  /\ \A p \in Page : p >= fileLen' => file'[p] = Hole
           /\ \A p \in Page : p < fileLen /\ p < m /\ new[p] = file[p]
                 => p < fileLen' /\ file'[p] = file[p]
<1> DEFINE changed == {p \in Page : file[p] # new[p]}
           low == IF m < fileLen THEN m ELSE fileLen
           high == IF m < fileLen THEN fileLen ELSE m
<1>1. PICK written \in SUBSET changed, torn \in SUBSET changed :
        /\ torn \subseteq written
        /\ fileLen' \in low .. high
        /\ file' = [p \in Page |-> IF p >= fileLen' \/ p \in torn THEN Hole
                                   ELSE IF p \in written THEN new[p] ELSE file[p]]
  BY DEF Unsynced
<1>2. fileLen \in Nat
  BY PagerAssumption DEF IInv, Typed, TypeOK
<1>3. ASSUME NEW p \in Page, p < fileLen, p < m, new[p] = file[p]
      PROVE  p < fileLen' /\ file'[p] = file[p]
  <2>1. p \notin changed
    BY <1>3
  <2>2. p < fileLen' /\ ~(p >= fileLen')
    BY <1>1, <1>2, <1>3, PagerAssumption DEF Page
  <2> QED
    BY <1>1, <2>1, <2>2
<1> QED
  BY <1>1, <1>3

\* A crash in the page writes of a checkpoint, or in the replay of the log,
\* costs no committed page.
LEMMA TornCommitted ==
    ASSUME IInv, ImgInv, UNCHANGED <<wal, cowned>>,
           \/ pc = "write" /\ Unsynced(Flushed, numPages)
           \/ pc = "replay" /\ Unsynced(Replayed(file, wal), wal.num)
    PROVE  /\ \A p \in cowned : p < RecNum' /\ RecFile'[p] = RecFile[p]
           /\ FilesTidy' /\ CommittedThere' /\ Committed' = Committed
<1>0. /\ numPages \in Nat /\ wal.num \in Nat /\ fileLen \in Nat /\ cowned \subseteq Page
      /\ pc = "replay" => wal.present
  BY PagerAssumption DEF IInv, Typed, TypeOK, Steps
<1>1. \A p \in Page : p >= fileLen' => file'[p] = Hole
  BY <1>0, TornPage, FlushedIsTyped, ReplayedIsTyped
<1>2. FilesTidy'
  BY <1>1 DEF ImgInv, FilesTidy
<1>3. ASSUME NEW p \in cowned, RecFile[p] = file[p]
      PROVE  p < fileLen' /\ file'[p] = file[p]
  <2>1. p \in Page /\ p < RecNum /\ file[p] \in Datum /\ p < fileLen
    BY <1>0, <1>3, PagerAssumption DEF ImgInv, CommittedThere, FilesTidy, Page
  <2>2. CASE pc = "write" /\ Unsynced(Flushed, numPages)
    <3>1. p < numPages /\ Flushed[p] = file[p]
      BY <1>3, <2>2, FlushedCommitted
    <3> QED
      BY <1>0, <2>1, <2>2, <3>1, TornPage, FlushedIsTyped
  <2>3. CASE pc = "replay" /\ Unsynced(Replayed(file, wal), wal.num)
    <3>1. p < wal.num /\ Replayed(file, wal)[p] = file[p]
      BY <1>0, <1>3, <2>1, <2>3 DEF RecNum, RecFile
    <3> QED
      BY <1>0, <2>1, <2>3, <3>1, TornPage, ReplayedIsTyped
  <2> QED
    BY <2>2, <2>3
<1>4. ASSUME NEW p \in cowned
      PROVE  p < RecNum' /\ RecFile'[p] = RecFile[p]
  <2>1. p \in Page /\ p < RecNum
    BY <1>0 DEF ImgInv, CommittedThere
  <2>2. CASE ~wal.present
    BY <1>3, <2>2 DEF RecFile, RecNum
  <2>3. CASE wal.present
    <3>1. p < RecNum'
      BY <2>1, <2>3 DEF RecNum
    <3>2. CASE wal.img[p] # None
      BY <2>1, <2>3, <3>1, <3>2 DEF RecFile, Replayed
    <3>3. CASE wal.img[p] = None
      <4>1. ~(p >= wal.num)
        BY <1>0, <2>1, <2>3, PagerAssumption DEF RecNum, Page
      <4>2. RecFile[p] = file[p] /\ RecFile'[p] = file'[p]
        BY <2>1, <2>3, <3>3, <4>1 DEF RecFile, Replayed
      <4> QED
        BY <1>3, <3>1, <4>2
    <3> QED
      BY <3>1, <3>2, <3>3
  <2> QED
    BY <2>2, <2>3
<1>5. CommittedThere' /\ Committed' = Committed
  BY <1>4 DEF ImgInv, CommittedThere, Committed
<1> QED
  BY <1>2, <1>4, <1>5

\* A crash, at whatever step.
LEMMA CrashStep ==
    ASSUME IInv, ImgInv, Crash
    PROVE  ImgInv' /\ Refines
<1>1. Down("closed")
  BY DEF Crash
<1>2. CASE pc \in {"write", "replay"}
  <2>1. /\ UNCHANGED <<wal, cowned>>
        /\ \/ pc = "write" /\ Unsynced(Flushed, numPages)
           \/ pc = "replay" /\ Unsynced(Replayed(file, wal), wal.num)
    BY <1>2 DEF Crash
  <2>2. FilesTidy' /\ CommittedThere' /\ Committed' = Committed /\ 0 \in cowned'
    BY <2>1, TornCommitted DEF ImgInv, RootOwned
  <2> QED
    BY <1>1, <2>2, DownIsCrash
<1>3. CASE pc \notin {"write", "replay"} /\ UNCHANGED <<wal, cowned>>
  <2>1. UNCHANGED <<file, fileLen>>
    BY <1>3 DEF Crash
  <2>2. RecNum' = RecNum /\ RecFile' = RecFile /\ Committed' = Committed
    BY <1>3, <2>1, CommittedStays
  <2>3. FilesTidy' /\ CommittedThere' /\ 0 \in cowned'
    BY <1>3, <2>1, <2>2 DEF ImgInv, FilesTidy, CommittedThere, RootOwned
  <2> QED
    BY <1>1, <2>2, <2>3, DownIsCrash
<1>4. CASE pc = "append" /\ wal' = CommitLog /\ cowned' = owned
  <2>1. UNCHANGED <<file, fileLen>>
    BY <1>4 DEF Crash
  <2>2. /\ RecNum' = numPages /\ wal'.present /\ Committed' = Working
        /\ \A p \in owned : p < numPages /\ RecFile'[p] \in Datum
    BY <1>4, <2>1, LogHoldsWorking
  <2>3. FilesTidy' /\ CommittedThere' /\ 0 \in cowned'
    BY <1>4, <2>1, <2>2 DEF ImgInv, FilesTidy, CommittedThere, RootOwned
  <2> QED
    BY <1>1, <1>4, <2>2, <2>3, DownIsCrash
<1> QED
  BY <1>2, <1>3, <1>4 DEF Crash

----------------------------------------------------------------------------
(* Recovery                                                                *)

\* Nothing is in memory while the database is being opened.
LEMMA DuringRecovery ==
    ASSUME IInv, ImgInv, Recovering
    PROVE  /\ ~inTxn /\ stmt = "none" /\ dirty = {} /\ held = Nothing /\ savepoints = <<>>
           /\ cache = Nothing /\ spills = Nothing /\ shadows = Nothing
           /\ owned = cowned /\ Working = Committed /\ Marks = <<>>
           /\ ~Late /\ ~PastCommitPoint /\ task \notin Ckpt /\ pc # "append"
<1>1. ~inTxn /\ stmt = "none" /\ dirty = {} /\ task \in {"none", "recover"} /\ pc # "append"
  BY DEF IInv, Control, Recovering
<1>2. task \notin Ckpt /\ held = Nothing /\ ~Late /\ ~PastCommitPoint
  BY <1>1 DEF IInv, Control, Late, PastCommitPoint, Ckpt
<1>3. /\ savepoints = <<>> /\ cache = Nothing /\ spills = Nothing /\ shadows = Nothing
      /\ owned = cowned
  BY <1>1 DEF IInv, Ownership, ImgInv, NothingPending
<1>4. Working = Committed /\ Marks = <<>>
  BY <1>3 DEF Working, Marks
<1> QED
  BY <1>1, <1>2, <1>3, <1>4

\* Opening, replaying the log and removing it change nothing that is promised.
LEMMA RecoveryStep ==
    ASSUME IInv, ImgInv, Open \/ ReplayLog \/ EndRecovery
    PROVE  ImgInv' /\ Refines
<1>1. /\ Recovering /\ Recovering' /\ task' = "recover"
      /\ pc' \in {"replay", "load", "free1"}
      /\ UNCHANGED <<cache, dirty, spills, shadows, inTxn, savepoints, stmt, held, owned, cowned>>
  BY DEF Open, ReplayLog, EndRecovery, RemoveLog, Recovering, durableVars, frameVars, txnVars,
         ownVars, IInv, Control
<1>2. /\ ~inTxn /\ stmt = "none" /\ dirty = {} /\ held = Nothing /\ savepoints = <<>>
      /\ cache = Nothing /\ spills = Nothing /\ shadows = Nothing
      /\ owned = cowned /\ Working = Committed /\ Marks = <<>>
      /\ ~PastCommitPoint /\ task \notin Ckpt /\ pc # "append"
  BY <1>1, DuringRecovery
<1>3. /\ RecFile' = RecFile /\ RecNum' = RecNum /\ FilesTidy' /\ ReplayedPages'
  <2>1. CASE Open
    <3>1. UNCHANGED <<file, fileLen, wal>> /\ pc' \notin FreeSteps
      BY <2>1 DEF Open, durableVars, FreeSteps
    <3> QED
      BY <3>1 DEF RecFile, RecNum, Replayed, ImgInv, FilesTidy, ReplayedPages
  <2>2. CASE ReplayLog
    <3>1. wal.present /\ wal' = wal /\ file' = Replayed(file, wal) /\ fileLen' = wal.num
      BY <2>2 DEF ReplayLog, IInv, Steps
    <3>2. Replayed(file', wal) = Replayed(file, wal)
      BY <3>1 DEF Replayed
    <3> QED
      BY <3>1, <3>2 DEF RecFile, RecNum, Replayed, FilesTidy, ReplayedPages
  <2>3. CASE EndRecovery
    <3>1. /\ pc = "rmwal" /\ task = "recover" /\ wal' = NoWal /\ pc' \notin FreeSteps
          /\ UNCHANGED <<file, fileLen>>
      BY <2>3 DEF EndRecovery, RemoveLog, FreeSteps
    <3>2. wal.present /\ fileLen = wal.num /\ file = Replayed(file, wal)
      BY <3>1 DEF IInv, Steps, ImgInv, ReplayedPages, FreeSteps
    <3> QED
      BY <3>1, <3>2 DEF RecFile, RecNum, NoWal, ImgInv, FilesTidy, ReplayedPages
  <2> QED
    BY <2>1, <2>2, <2>3
<1>4. ~Late' /\ ~PastCommitPoint'
  BY <1>1 DEF Late, PastCommitPoint, Ckpt
<1>5. CommittedThere' /\ RootOwned' /\ NothingPending' /\ CheckpointReady' /\ TxnOverFile'
  BY <1>1, <1>2, <1>3, NothingHeld
  DEF ImgInv, CommittedThere, RootOwned, NothingPending, CheckpointReady, TxnOverFile
<1>6. CleanPages' /\ CommittedPages' /\ WrittenPages'
  BY <1>1, <1>4 DEF CleanPages, CommittedPages, WrittenPages
<1>7. Committed' = Committed
  BY <1>1, <1>3 DEF Committed
<1>8. Working' = Working /\ Marks' = Marks
  BY <1>1, <1>2, <1>4, <1>7 DEF Working, Marks
<1>9. UNCHANGED Store!vars
  BY <1>1, <1>2, <1>4, <1>7, <1>8 DEF Store!vars, Ckpt
<1> QED
  BY <1>3, <1>5, <1>6, <1>9 DEF ImgInv, Refines

\* load_free_list_snapshot and the end of pager_open.
LEMMA LoadFreeListStep ==
    ASSUME IInv, ImgInv, LoadFreeList
    PROVE  ImgInv' /\ Refines
<1>1. /\ pc = "load" /\ Recovering /\ ~wal.present /\ pc' = "idle" /\ task' = "none"
      /\ UNCHANGED <<file, fileLen, wal, cache, dirty, spills, shadows, inTxn, savepoints,
                     stmt, held, owned, cowned>>
  BY DEF LoadFreeList, Recovering, IInv, Steps, frameVars, txnVars, ownVars
<1>2. /\ ~inTxn /\ stmt = "none" /\ dirty = {} /\ held = Nothing /\ savepoints = <<>>
      /\ cache = Nothing /\ spills = Nothing /\ shadows = Nothing
      /\ owned = cowned /\ Working = Committed /\ Marks = <<>>
      /\ ~PastCommitPoint /\ task \notin Ckpt
  BY <1>1, DuringRecovery
<1>3. ~Recovering' /\ ~Late' /\ ~PastCommitPoint'
  BY <1>1 DEF Recovering, Late, PastCommitPoint, Ckpt
<1>4. RecFile' = file /\ RecFile = file /\ RecNum' = fileLen /\ RecNum = fileLen
      /\ Committed' = Committed
  BY <1>1, CommittedStays DEF RecFile, RecNum
<1>5. FilesTidy' /\ CommittedThere' /\ RootOwned'
  BY <1>1, <1>4 DEF ImgInv, FilesTidy, CommittedThere, RootOwned
<1>6. NothingPending' /\ CheckpointReady' /\ TxnOverFile'
  BY <1>1, <1>2, <1>3 DEF NothingPending, CheckpointReady, TxnOverFile
<1>7. ASSUME NEW p \in cowned
      PROVE  Clean(p)' /\ View(p)' = file[p]
  <2>1. p \in Page /\ p < fileLen /\ file[p] \in Datum
    BY <1>4 DEF ImgInv, CommittedThere, IInv, Typed, TypeOK
  <2>2. cache'[p] = None /\ shadows'[p] = None /\ p \notin dirty'
    BY <1>1, <1>2, <2>1 DEF Nothing
  <2> QED
    BY <1>1, <1>4, <2>1, <2>2 DEF Clean, BaseView, View
<1>8. CleanPages' /\ CommittedPages' /\ WrittenPages' /\ ReplayedPages'
  BY <1>1, <1>2, <1>3, <1>7 DEF CleanPages, CommittedPages, WrittenPages, ReplayedPages
<1>9. Working' = Working
  <2>1. Working' = [p \in cowned |-> View(p)']
    BY <1>1, <1>2, <1>3, NothingHeld DEF Working, IInv, Typed, TypeOK
  <2> QED
    BY <1>2, <1>4, <1>7, <2>1 DEF Committed
<1>10. Marks' = Marks
  BY <1>1, <1>2, <1>3 DEF Marks
<1>11. UNCHANGED Store!vars
  BY <1>1, <1>2, <1>3, <1>4, <1>9, <1>10 DEF Store!vars, Ckpt
<1> QED
  BY <1>5, <1>6, <1>8, <1>11 DEF ImgInv, Refines

----------------------------------------------------------------------------
(* The theorems                                                            *)

\* A step that changes nothing.
LEMMA StutterStep ==
    ASSUME ImgInv, UNCHANGED vars
    PROVE  ImgInv' /\ Refines
<1>1. /\ UNCHANGED <<file, fileLen, wal, freeFile, freeWal, numPages, cache, dirty, spills, shadows>>
      /\ UNCHANGED <<freePages, inTxn, txn, savepoints, pc, task, stmt, held, owned, cowned>>
  BY DEF vars, durableVars, frameVars, txnVars, controlVars, ownVars
<1>2. RecNum' = RecNum /\ RecFile' = RecFile /\ Committed' = Committed
  BY <1>1, CommittedStays
<1>3. Recovering' = Recovering /\ Late' = Late /\ PastCommitPoint' = PastCommitPoint
  BY <1>1 DEF Recovering, Late, PastCommitPoint
<1>4. \A p : Clean(p)' = Clean(p) /\ View(p)' = View(p)
  BY <1>1, <1>2 DEF Clean, BaseView, View
<1>5. FilesTidy' /\ CommittedThere' /\ RootOwned' /\ NothingPending' /\ TxnOverFile'
  BY <1>1, <1>2, <1>3
  DEF ImgInv, FilesTidy, CommittedThere, RootOwned, NothingPending, TxnOverFile
<1>6. CheckpointReady' /\ CleanPages' /\ CommittedPages'
  BY <1>1, <1>2, <1>3, <1>4 DEF ImgInv, CheckpointReady, CleanPages, CommittedPages
<1>7. WrittenPages' /\ ReplayedPages'
  BY <1>1, <1>2, <1>3 DEF ImgInv, WrittenPages, ReplayedPages
<1>8. Working' = Working /\ Marks' = Marks
  BY <1>1, <1>2, <1>3, <1>4 DEF Working, Marks
<1>9. UNCHANGED Store!vars
  BY <1>1, <1>2, <1>3, <1>8 DEF Store!vars
<1> QED
  BY <1>5, <1>6, <1>7, <1>9 DEF ImgInv, Refines

\* A database closed cleanly.
LEMMA InitImages ==
    ASSUME Init
    PROVE  ImgInv /\ Store!Init
<1>1. /\ file \in [Page -> Datum \cup {Hole}] /\ \A p \in Page : file[p] = Hole <=> p # 0
      /\ fileLen = 1 /\ wal = NoWal /\ ~wal.present /\ cache = Nothing /\ dirty = {}
      /\ spills = Nothing /\ shadows = Nothing /\ inTxn = FALSE /\ savepoints = <<>>
      /\ held = Nothing /\ pc = "closed" /\ task = "none" /\ stmt = "none"
      /\ owned = {0} /\ cowned = {0}
  BY DEF Init, NoWal
<1>2. RecFile = file /\ RecNum = 1 /\ Recovering /\ ~Late /\ ~PastCommitPoint
  BY <1>1 DEF RecFile, RecNum, Recovering, Late, PastCommitPoint, Ckpt
<1>3. 0 \in Page /\ file[0] \in Datum
  BY <1>1, PagerAssumption DEF Page
<1>4. FilesTidy
  BY <1>1, PagerAssumption DEF FilesTidy, Page
<1>5. CommittedThere /\ RootOwned /\ NothingPending /\ CheckpointReady /\ TxnOverFile
  BY <1>1, <1>2, <1>3 DEF CommittedThere, RootOwned, NothingPending, CheckpointReady, TxnOverFile
<1>6. CleanPages /\ CommittedPages /\ WrittenPages /\ ReplayedPages
  BY <1>1, <1>2 DEF CleanPages, CommittedPages, WrittenPages, ReplayedPages
<1>7. Committed = [p \in {0} |-> file[p]] /\ Committed \in [{0} -> Datum] /\ {0} \in SUBSET Page
  BY <1>1, <1>2, <1>3 DEF Committed
<1>8. Committed \in Store!Store
  BY <1>7 DEF Store!Store
<1>9. Working = Committed /\ Marks = <<>>
  BY <1>1, <1>2 DEF Working, Marks
<1>10. Store!Init
  BY <1>1, <1>2, <1>8, <1>9 DEF Store!Init
<1> QED
  BY <1>4, <1>5, <1>6, <1>10 DEF ImgInv

\* Every step keeps the images in place and is a step of the page store.
LEMMA NextImages ==
    ASSUME "dotckpt" \notin Uses, IInv, ImgInv, [Next]_vars
    PROVE  ImgInv' /\ Refines
<1>1. CASE UNCHANGED vars
  BY <1>1, StutterStep
<1>2. ASSUME NEW p \in Page, Fetch(p) \/ Free(p)
      PROVE  ImgInv' /\ Refines
  BY <1>2, FetchStep, FreeStep
<1>3. ASSUME NEW d \in Datum, Claim(d) \/ Truncate(d) \/ CreateTable(d)
      PROVE  ImgInv' /\ Refines
  BY <1>3, ClaimStep, TruncateStep
<1>4. ASSUME NEW p \in Page, NEW d \in Datum, Write(p, d)
      PROVE  ImgInv' /\ Refines
  BY <1>4, WriteStep
<1>5. ASSUME NEW n \in Name, Savepoint(n) \/ RollbackTo(n) \/ Release(n)
      PROVE  ImgInv' /\ Refines
  BY <1>5, SavepointStep, RollbackToStep, ReleaseStep
<1>6. CASE Rollback \/ StartCommit \/ SyncLog \/ EndCommit
  BY <1>6, RollbackStep, StartCommitStep, SyncLogStep, EndCommitStep
<1>7. CASE WriteFreeWal \/ RemoveFree \/ RenameFree
  BY <1>7, PersistStep
<1>8. ASSUME NEW t \in {"begin", "ckpt", "close", "ddl"}, StartCheckpoint(t)
      PROVE  ImgInv' /\ Refines
  BY <1>8, StartCheckpointStep DEF Ckpt
<1>9. CASE FlushPages \/ SecondPass \/ EndCheckpoint \/ EndBegin \/ EndDdlCheckpoint \/ SaveCatalog
  BY <1>9, FlushPagesStep, SecondPassStep, EndOfCheckpointStep, EndBeginStep, SaveCatalogStep
<1>10. CASE EndClose \/ Crash \/ ChecksumExit
  BY <1>10, EndCloseStep, CrashStep, ChecksumExitStep
<1>11. CASE Open \/ ReplayLog \/ EndRecovery \/ LoadFreeList
  BY <1>11, RecoveryStep, LoadFreeListStep
<1> QED
  BY <1>1, <1>2, <1>3, <1>4, <1>5, <1>6, <1>7, <1>8, <1>9, <1>10, <1>11 DEF Next

\* Where each page image is, in every behaviour.
THEOREM ImagesHold ==
    ASSUME "dotckpt" \notin Uses
    PROVE  Spec => []ImgInv
<1>1. Init => ImgInv
  BY InitImages
<1>2. IInv /\ ImgInv /\ [Next]_vars => ImgInv'
  BY NextImages
<1> QED
  BY <1>1, <1>2, InvariantHolds, PTL DEF Spec

\* The pager is a transactional page store: reads see the newest write
\* whatever was evicted, ROLLBACK and ROLLBACK TO restore what they promise,
\* an answered COMMIT survives every crash, an unanswered one is all or
\* nothing (pager_commit, pager_checkpoint, pager_rollback,
\* pager_rollback_to_savepoint, recover_wal).
THEOREM PagerImplementsStore ==
    ASSUME "dotckpt" \notin Uses
    PROVE  Spec => StoreSpec
<1>1. Init => Store!Init
  BY InitImages
<1>2. IInv /\ ImgInv /\ [Next]_vars => [Store!Next]_(Store!vars)
  BY NextImages DEF Refines
<1> QED
  BY <1>1, <1>2, ImagesHold, InvariantHolds, PTL DEF Spec, StoreSpec, Store!Spec

\* The log goes only at the end of a checkpoint or a recovery.
LEMMA RemovalStep ==
    ASSUME IInv, Next, wal.present, ~wal'.present
    PROVE  pc = "rmwal" /\ task \in Ckpt \cup {"recover"}
<1>1. ASSUME ClientStep PROVE FALSE
  BY <1>1, ClientFrame DEF durableVars
<1>2. CASE SecondPass \/ EndCheckpoint \/ EndBegin \/ EndDdlCheckpoint \/ EndClose \/ EndRecovery
  BY <1>2 DEF SecondPass, EndCheckpoint, EndBegin, EndDdlCheckpoint, EndClose, EndRecovery,
     RemoveLog, IInv, Control
<1>3. CASE Crash \/ SyncLog
  BY <1>3 DEF Crash, SyncLog, CommitLog, Logged
<1>4. CASE \/ Rollback \/ StartCommit \/ EndCommit \/ WriteFreeWal \/ RemoveFree \/ RenameFree
           \/ FlushPages \/ SaveCatalog \/ Open \/ ReplayLog \/ LoadFreeList \/ ChecksumExit
           \/ \E t \in Ckpt : StartCheckpoint(t)
  BY <1>4 DEF Rollback, StartCommit, EndCommit, WriteFreeWal, RemoveFree, RenameFree,
     FlushPages, SaveCatalog, Open, ReplayLog, LoadFreeList, ChecksumExit, StartCheckpoint,
     durableVars
<1> QED
  BY <1>1, <1>2, <1>3, <1>4 DEF Next, ClientStep, Ckpt

\* The log is removed only when the file and the sidecar hold without it all
\* that it gave the committed pages (pager_checkpoint, recover_wal).
THEOREM LogIsRemovedWhenRedundant ==
    ASSUME "dotckpt" \notin Uses
    PROVE  Spec => LogRemovedWhenRedundant
<1>1. ASSUME IInv, ImgInv, Next, wal.present, ~wal'.present
      PROVE  /\ \A p \in cowned : file[p] = RecFile[p]
             /\ cowned \subseteq Below(fileLen)
             /\ Accepts(freeFile, fileLen)
  <2>1. pc = "rmwal" /\ task \in Ckpt \cup {"recover"} /\ freeFile = ListToPersist
    BY <1>1, RemovalStep DEF IInv, Steps
  <2>2. CASE task \in Ckpt
    <3>1. /\ fileLen = numPages /\ task # "recover"
          /\ \A p \in cowned : RecFile[p] = file[p]
      BY <1>1, <2>1, <2>2 DEF IInv, Steps, ImgInv, WrittenPages, Late, FreeSteps, Ckpt
    <3>2. cowned \subseteq Below(fileLen)
      BY <1>1, <2>2, <3>1, DuringCheckpoint
    <3> QED
      BY <2>1, <3>1, <3>2 DEF ListToPersist, Snapshot, Accepts
  <2>3. CASE task = "recover"
    <3>1. /\ fileLen = wal.num /\ file = RecFile /\ RecNum = fileLen
      BY <1>1, <2>1, <2>3
      DEF IInv, Steps, ImgInv, ReplayedPages, FreeSteps, RecFile, RecNum
    <3>2. cowned \subseteq Below(fileLen)
      BY <1>1, <3>1, PagerAssumption
      DEF ImgInv, CommittedThere, Below, IInv, Typed, TypeOK, Page
    <3> QED
      BY <2>1, <2>3, <3>1, <3>2 DEF ListToPersist, Snapshot, Accepts
  <2> QED
    BY <2>1, <2>2, <2>3
<1>2. IInv /\ ImgInv /\ [Next]_vars =>
        [wal.present /\ ~wal'.present
          => /\ \A p \in cowned : file[p] = RecFile[p]
             /\ cowned \subseteq Below(fileLen)
             /\ Accepts(freeFile, fileLen)]_vars
  BY <1>1
<1> QED
  BY <1>2, ImagesHold, InvariantHolds, PTL DEF Spec, LogRemovedWhenRedundant
=============================================================================
