-------------------------- MODULE BufferPoolProofs --------------------------
(***************************************************************************)
(* Theorems about the buffer pool, for any number of threads, pages,       *)
(* frames and attempts.  What rests on pins holds until one is taken from  *)
(* its owner: by the scan of SAVEPOINT or COMMIT, or by a caller that      *)
(* gives back a page lock it was never granted.                            *)
(***************************************************************************)
EXTENDS BufferPool, FiniteSetTheorems, TLAPS

----------------------------------------------------------------------------
(* The inductive invariant                                                 *)

Label == {"idle", "admitted", "fetched", "retry", "pinned", "wait", "locked",
          "numwait", "numlocked", "numunlocked", "clearing", "refilling",
          "lowering", "closing", "scanning", "unheld", "gone"}

\* Threads that own a pin of frame f, and that stand in the gap.
Owners(f) == {t \in Thread : Holds(t) /\ fr[t] = f}
Admitted == {t \in Thread : InGap(t)}

PoolTyped ==
    /\ page \in [Frame -> Page \cup {None}]
    /\ pins \in [Frame -> Nat]
    /\ lru \in SUBSET (Frame \X Frame)

LocksTyped ==
    /\ readers \in [Frame -> SUBSET Thread]
    /\ writer \in [Frame -> Thread \cup {None}]

FlagsTyped == barrier \in BOOLEAN /\ alive \in BOOLEAN /\ stolen \in BOOLEAN

ThreadsTyped ==
    /\ admissions \in Int
    /\ at \in [Thread -> Label]
    /\ want \in [Thread -> Page]
    /\ fr \in [Thread -> Frame]
    /\ tries \in [Thread -> Nat]
    /\ mode \in [Thread -> {"read", "write"}]

Typed == PoolTyped /\ LocksTyped /\ FlagsTyped /\ ThreadsTyped

\* admissions is the number of threads in the gap.
AdmissionsCounted == alive => admissions = Cardinality(Admitted)

\* One thread at a time raises the barrier, and it stays up until that thread
\* lowers it.
OneRaises ==
    \A t \in Thread : Raised(t) =>
        barrier /\ \A u \in Thread : Raised(u) => u = t

\* A thread inside a lock is recorded in it, nobody else is, and a writer is
\* alone.
LocksHeld ==
    ~stolen =>
        /\ \A t \in Thread : InLock(t) =>
              IF mode[t] = "read" THEN t \in readers[fr[t]] ELSE writer[fr[t]] = t
        /\ \A f \in Frame : writer[f] # None => readers[f] = {}
        /\ alive => \A f \in Frame, t \in Thread :
              HasLock(t, f) => InLock(t) /\ fr[t] = f

IInv ==
    /\ Typed
    /\ OneFramePerPage
    /\ HandleStable
    /\ PinsAreOwned
    /\ AdmissionsCounted
    /\ OneRaises
    /\ BarrierExcludesPins
    /\ CloseLeavesNoOwner
    /\ LocksHeld

----------------------------------------------------------------------------
(* Helpers                                                                 *)

\* Every action is one thread's.
Step(t) == Continue(t) \/ Call(t)

LEMMA StepsAreAlive ==
    ASSUME NEW t \in Thread, Step(t)
    PROVE  alive
BY DEF Step, Continue, Call, Fetch, Publish, Readmit, Unlock, NumberUnlock, NumberUnpin,
   ScanUnpin, NoSuchSavepoint, ClearFrames, Refill, LowerBarrier, Destroy, Admit, TryPin,
   PlainGet, Scan, FreePage, NumberLock, NumberLockRefused, AskLock, Shrink, TakeLock,
   ReleaseHandle, Rollback, RaiseBarrier, TryClose, Exit

\* What has been stolen stays stolen, and only two actions steal.
LEMMA StealingStep ==
    ASSUME NEW t \in Thread, Step(t)
    PROVE  stolen' = stolen \/ (stolen' = TRUE /\ (ScanUnpin(t) \/ NumberUnlock(t)))
BY DEF Step, Continue, Call, Fetch, Publish, Readmit, Unlock, NumberUnlock, NumberUnpin,
   ScanUnpin, NoSuchSavepoint, ClearFrames, Refill, LowerBarrier, Destroy, Admit, TryPin,
   PlainGet, Scan, FreePage, NumberLock, NumberLockRefused, AskLock, Shrink, TakeLock,
   ReleaseHandle, Rollback, RaiseBarrier, TryClose, Exit

\* get_page takes the frame that holds the page, or one that nobody owns.
LEMMA CandidatesAreFree ==
    ASSUME Typed, OneFramePerPage, NEW p \in Page, NEW f \in Candidates(p)
    PROVE  /\ f \in Frame
           /\ \/ page[f] = p /\ Resident(p)
              \/ /\ ~Resident(p) /\ \A g \in Frame : page[g] # p
                 /\ page[f] = None \/ pins[f] = 0
<1>1. CASE Resident(p)
  <2>1. FrameOf(p) \in Frame /\ page[FrameOf(p)] = p
    BY <1>1 DEF Resident, FrameOf
  <2> QED
    BY <1>1, <2>1 DEF Candidates
<1>2. CASE ~Resident(p)
  BY <1>2 DEF Candidates, Resident, Empty, Victims, Listed, Unpinned
<1> QED
  BY <1>1, <1>2

\* The members of the groups are finitely many.
LEMMA GroupsAreFinite ==
    /\ IsFiniteSet(Admitted)
    /\ \A f \in Frame : IsFiniteSet(Owners(f))
BY PoolAssumption, FS_Subset DEF Admitted, Owners

\* A pin that somebody owns is counted.
LEMMA OwnedFramesArePinned ==
    ASSUME Typed, PinsAreOwned, alive, ~stolen, NEW t \in Thread, Holds(t)
    PROVE  fr[t] \in Frame /\ pins[fr[t]] > 0
<1>1. fr[t] \in Frame /\ t \in Owners(fr[t]) /\ pins[fr[t]] = Cardinality(Owners(fr[t]))
  BY DEF Typed, ThreadsTyped, Owners, PinsAreOwned
<1>2. pins[fr[t]] # 0 /\ pins[fr[t]] \in Nat
  BY <1>1, GroupsAreFinite, FS_EmptySet DEF Typed, PoolTyped
<1> QED
  BY <1>1, <1>2

\* Before a theft, a frame that is empty, or whatever frame while the barrier
\* stands, has no owner and no pin.
LEMMA UnownedFramesAreUnpinned ==
    ASSUME Typed, HandleStable, PinsAreOwned, BarrierExcludesPins, alive, ~stolen,
           NEW f \in Frame, page[f] = None \/ barrier
    PROVE  pins[f] = 0
<1>1. Owners(f) = {}
  BY PoolAssumption
  DEF Typed, ThreadsTyped, HandleStable, Owners, StillThere, Page, BarrierExcludesPins
<1> QED
  BY <1>1, FS_EmptySet DEF PinsAreOwned, Owners

\* So loading a page that is in no frame finds its frame unpinned.
LEMMA FreshFramesAreUnpinned ==
    ASSUME Typed, OneFramePerPage, HandleStable, PinsAreOwned, BarrierExcludesPins, alive,
           ~stolen, NEW p \in Page, NEW f \in Candidates(p), ~Resident(p)
    PROVE  pins[f] = 0
BY CandidatesAreFree, UnownedFramesAreUnpinned

----------------------------------------------------------------------------
(* What a step does to the frames                                          *)

Loads(p, f) ==
    /\ f \in Candidates(p)
    /\ page' = [page EXCEPT ![f] = p]
    /\ lru' = Touched(f)

Drops(S) == DropFrames(S) /\ (~stolen => \A f \in S : pins[f] = 0)

\* A step loads a page, drops frames that nobody has pinned, or leaves the frames to their pages.
LEMMA FramesStep ==
    ASSUME Typed, HandleStable, PinsAreOwned, OneRaises, BarrierExcludesPins,
           NEW t \in Thread, Step(t)
    PROVE  \/ \E p \in Page : \E f \in Candidates(p) : Loads(p, f)
           \/ \E S \in SUBSET Frame : Drops(S)
           \/ UNCHANGED <<page, lru>>
<1> DEFINE Goal == \/ \E p \in Page : \E f \in Candidates(p) : Loads(p, f)
                   \/ \E S \in SUBSET Frame : Drops(S)
                   \/ UNCHANGED <<page, lru>>
<1>0. \A f \in Frame : page[f] = None /\ alive /\ ~stolen => pins[f] = 0
  BY UnownedFramesAreUnpinned
<1>1. want[t] \in Page
  BY DEF Typed, ThreadsTyped
<1>2. CASE Fetch(t)
  BY <1>1, <1>2 DEF Fetch, Get, Loads
<1>3. CASE Refill(t)
  BY <1>1, <1>3 DEF Refill, Get, Loads
<1>4. CASE ClearFrames(t)
  <2>1. barrier /\ alive
    BY <1>4 DEF ClearFrames, OneRaises, Raised
  <2>2. ~stolen => \A f \in Frame : pins[f] = 0
    BY <2>1, UnownedFramesAreUnpinned
  <2> QED
    BY <1>4, <2>2 DEF ClearFrames, Drops
<1>5. CASE Publish(t) \/ Readmit(t) \/ Unlock(t) \/ NumberUnlock(t) \/ NumberUnpin(t)
           \/ ScanUnpin(t) \/ NoSuchSavepoint(t) \/ LowerBarrier(t) \/ Destroy(t)
  BY <1>5 DEF Publish, Readmit, Unlock, NumberUnlock, NumberUnpin, ScanUnpin, NoSuchSavepoint,
     LowerBarrier, Destroy, poolVars
<1>6. ASSUME NEW p \in Page,
             TryPin(t, p) \/ PlainGet(t, p) \/ Scan(t, p)
      PROVE  Goal
  BY <1>6 DEF TryPin, PlainGet, Scan, Get, Loads
<1>7. ASSUME NEW p \in Page, Admit(t, p) \/ NumberLockRefused(t, p) PROVE Goal
  BY <1>7 DEF Admit, NumberLockRefused, poolVars
<1>8. ASSUME NEW p \in Page, FreePage(t, p) PROVE Goal
  <2>1. FrameOf(p) \in Frame
    BY <1>8 DEF FreePage, Resident, FrameOf
  <2> QED
    BY <1>8, <2>1 DEF FreePage, Drops
<1>9. ASSUME NEW p \in Page, NEW m \in {"read", "write"}, NumberLock(t, p, m) PROVE Goal
  BY <1>9 DEF NumberLock
<1>10. ASSUME NEW m \in {"read", "write"}, AskLock(t, m) PROVE Goal
  BY <1>10 DEF AskLock, poolVars
<1>11. ASSUME NEW n \in 1 .. NumPages - 1, Shrink(t, n) PROVE Goal
  BY <1>11 DEF Shrink, Drops
<1>12. CASE TakeLock(t) \/ ReleaseHandle(t) \/ RaiseBarrier(t) \/ TryClose(t) \/ Exit(t)
  BY <1>12 DEF TakeLock, ReleaseHandle, RaiseBarrier, TryClose, Exit, poolVars
<1>13. CASE Rollback(t)
  <2>1. ~stolen => \A f \in Frame : pins[f] = 0
    BY <1>0, <1>13 DEF Rollback, AnyPinned, Typed, PoolTyped
  <2> QED
    BY <1>13, <2>1 DEF Rollback, Drops
<1> QED
  BY <1>2, <1>3, <1>4, <1>5, <1>6, <1>7, <1>8, <1>9, <1>10, <1>11, <1>12, <1>13
  DEF Step, Continue, Call

----------------------------------------------------------------------------
(* Frames and the LRU list                                                 *)

PagesTyped == page \in [Frame -> Page \cup {None}] /\ lru \in SUBSET (Frame \X Frame)

LEMMA LoadKeepsFrames ==
    ASSUME Typed, OneFramePerPage, NEW p \in Page, NEW f \in Candidates(p), Loads(p, f)
    PROVE  PagesTyped' /\ OneFramePerPage'
<1>1. /\ f \in Frame
      /\ page[f] = p \/ \A g \in Frame : page[g] # p
  BY CandidatesAreFree
<1>2. /\ page' \in [Frame -> Page \cup {None}]
      /\ page'[f] = p
      /\ \A g \in Frame \ {f} : page'[g] = page[g]
  BY <1>1 DEF Loads, Typed, PoolTyped
<1>3. p # None
  BY PoolAssumption DEF Page
<1>4. /\ Listed' = Listed \cup {f}
      /\ \A g \in Listed' : <<g, f>> \in lru'
      /\ \A g \in Listed' \ {f} : <<f, g>> \notin lru'
      /\ \A g, h \in Frame \ {f} : <<g, h>> \in lru' <=> <<g, h>> \in lru
      /\ lru' \subseteq Listed' \X Listed'
  <2>1. lru' = {e \in lru : e[1] # f /\ e[2] # f} \cup {<<g, f>> : g \in Listed \cup {f}}
    BY DEF Loads, Touched, Without
  <2>2. \A g, h \in Frame : <<g, h>> \in lru' <=>
            \/ <<g, h>> \in lru /\ g # f /\ h # f
            \/ g \in Listed \cup {f} /\ h = f
    BY <2>1
  <2>3. Listed' = Listed \cup {f}
    BY <1>1, <2>2 DEF Listed
  <2>4. Listed \subseteq Frame
    BY DEF Listed
  <2>5. lru' \subseteq Listed' \X Listed'
    BY <2>1, <2>3 DEF OneFramePerPage
  <2> QED
    BY <1>1, <2>2, <2>3, <2>4, <2>5
<1>5. \A g, h \in Frame : page'[g] = page'[h] /\ page'[g] # None => g = h
  BY <1>1, <1>2 DEF OneFramePerPage
<1>6. \A g \in Frame : page'[g] # None <=> g \in Listed'
  BY <1>2, <1>3, <1>4 DEF OneFramePerPage
<1>7. Listed' \subseteq Frame
  BY DEF Listed
<1>8. /\ \A g, h \in Listed' : <<g, h>> \in lru' \/ <<h, g>> \in lru'
      /\ \A g, h \in Listed' : <<g, h>> \in lru' /\ <<h, g>> \in lru' => g = h
  BY <1>4, <1>7 DEF OneFramePerPage
<1>9. \A g, h, i \in Listed' : <<g, h>> \in lru' /\ <<h, i>> \in lru' => <<g, i>> \in lru'
  BY <1>4, <1>7 DEF OneFramePerPage
<1>10. lru' \in SUBSET (Frame \X Frame)
  BY <1>4, <1>7
<1> QED
  BY <1>2, <1>4, <1>5, <1>6, <1>8, <1>9, <1>10 DEF PagesTyped, OneFramePerPage

LEMMA DropKeepsFrames ==
    ASSUME Typed, OneFramePerPage, NEW S \in SUBSET Frame, DropFrames(S)
    PROVE  PagesTyped' /\ OneFramePerPage'
<1>1. /\ page' \in [Frame -> Page \cup {None}]
      /\ \A f \in S : page'[f] = None
      /\ \A f \in Frame \ S : page'[f] = page[f]
  BY DEF DropFrames, Typed, PoolTyped
<1>2. /\ lru' \in SUBSET (Frame \X Frame)
      /\ Listed' = Listed \ S
      /\ lru' \subseteq Listed' \X Listed'
      /\ \A g, h \in Listed' : <<g, h>> \in lru' <=> <<g, h>> \in lru
  BY ZenonT(60) DEF DropFrames, Without, Listed, OneFramePerPage, Typed, PoolTyped
<1> QED
  BY <1>1, <1>2 DEF PagesTyped, OneFramePerPage

LEMMA FramesInv ==
    ASSUME Typed, OneFramePerPage, HandleStable, PinsAreOwned, OneRaises, BarrierExcludesPins,
           NEW t \in Thread, Step(t)
    PROVE  PagesTyped' /\ OneFramePerPage'
<1>1. CASE UNCHANGED <<page, lru>>
  BY <1>1, ZenonT(60) DEF PagesTyped, OneFramePerPage, Listed, Typed, PoolTyped
<1> QED
  BY <1>1, FramesStep, LoadKeepsFrames, DropKeepsFrames DEF Drops

----------------------------------------------------------------------------
(* Threads, locks and flags                                                *)

Local(u) == <<at[u], want[u], fr[u], tries[u], mode[u]>>

\* A thread's step changes no local variable of another thread, unless the
\* process exits.
LEMMA ThreadsStep ==
    ASSUME Typed, NEW t \in Thread, Step(t)
    PROVE  /\ ThreadsTyped'
           /\ \/ Exit(t)
              \/ \A u \in Thread \ {t} : Local(u)' = Local(u)
<1> DEFINE Goal == /\ ThreadsTyped'
                   /\ \/ Exit(t)
                      \/ \A u \in Thread \ {t} : Local(u)' = Local(u)
<1>0. 0 \in Page /\ 1 \in Frame
  BY PoolAssumption DEF Page, Frame
<1> USE <1>0 DEF Typed, ThreadsTyped, Local, Label
<1>1. CASE Fetch(t)
  <2>1. PICK f \in Candidates(want[t]) : fr' = [fr EXCEPT ![t] = f]
    BY <1>1 DEF Fetch
  <2>2. f \in Frame
    BY DEF Candidates, Resident, FrameOf, Empty, Victims, Listed
  <2> QED
    BY <1>1, <2>1, <2>2 DEF Fetch, Go
<1>2. CASE Publish(t) \/ Readmit(t)
  BY <1>2 DEF Publish, Readmit, Stay, Go, Leave
<1>3. CASE Unlock(t) \/ NumberUnlock(t) \/ NumberUnpin(t) \/ ScanUnpin(t)
  <2>1. Resident(want[t]) => FrameOf(want[t]) \in Frame
    BY DEF Resident, FrameOf
  <2> QED
    BY <1>3, <2>1 DEF Unlock, NumberUnlock, NumberUnpin, ScanUnpin, Go, Leave
<1>4. CASE NoSuchSavepoint(t) \/ ClearFrames(t) \/ LowerBarrier(t) \/ Destroy(t)
  BY <1>4 DEF NoSuchSavepoint, ClearFrames, LowerBarrier, Destroy, Go, Leave
<1>5. CASE Refill(t)
  BY <1>5, PoolAssumption DEF Refill, Go, Page
<1>6. ASSUME NEW p \in Page, Admit(t, p) \/ NumberLockRefused(t, p) \/ Scan(t, p) PROVE Goal
  BY <1>6 DEF Admit, NumberLockRefused, Scan, Go
<1>7. ASSUME NEW p \in Page, TryPin(t, p) PROVE Goal
  <2>1. PICK f \in Candidates(p) : fr' = [fr EXCEPT ![t] = f]
    BY <1>7 DEF TryPin
  <2>2. f \in Frame
    BY DEF Candidates, Resident, FrameOf, Empty, Victims, Listed
  <2> QED
    BY <1>7, <2>1, <2>2 DEF TryPin, Go
<1>8. ASSUME NEW p \in Page, PlainGet(t, p) \/ FreePage(t, p) PROVE Goal
  BY <1>8 DEF PlainGet, FreePage, threadVars
<1>9. ASSUME NEW p \in Page, NEW m \in {"read", "write"}, NumberLock(t, p, m) PROVE Goal
  <2>1. FrameOf(p) \in Frame
    BY <1>9 DEF NumberLock, Resident, FrameOf
  <2> QED
    BY <1>9, <2>1 DEF NumberLock, Go
<1>10. ASSUME NEW m \in {"read", "write"}, AskLock(t, m) PROVE Goal
  BY <1>10 DEF AskLock, Go
<1>11. ASSUME NEW n \in 1 .. NumPages - 1, Shrink(t, n) PROVE Goal
  BY <1>11 DEF Shrink, threadVars
<1>12. CASE TakeLock(t) \/ ReleaseHandle(t)
  BY <1>12 DEF TakeLock, ReleaseHandle, Go, Leave
<1>13. CASE Rollback(t)
  BY <1>13 DEF Rollback, threadVars
<1>14. CASE RaiseBarrier(t) \/ TryClose(t)
  BY <1>14 DEF RaiseBarrier, TryClose, Go
<1>15. CASE Exit(t)
  BY <1>15 DEF Exit
<1> QED
  BY <1>1, <1>2, <1>3, <1>4, <1>5, <1>6, <1>7, <1>8, <1>9, <1>10, <1>11, <1>12, <1>13,
     <1>14, <1>15
  DEF Step, Continue, Call

\* The actions that take or drop a frame lock.
Locking(t) == TakeLock(t) \/ Unlock(t) \/ NumberUnlock(t)

\* Any other step leaves the locks alone, and no thread gets into a lock or out
\* of it, unless the process exits.
LEMMA OtherStepsKeepLocks ==
    ASSUME Typed, NEW t \in Thread, Step(t), ~Locking(t)
    PROVE  /\ UNCHANGED lockVars
           /\ \/ ~alive' /\ \A u \in Thread : ~InLock(u)'
              \/ \A u \in Thread : /\ InLock(u)' <=> InLock(u)
                                   /\ InLock(u) => fr'[u] = fr[u] /\ mode'[u] = mode[u]
<1> DEFINE Goal == /\ UNCHANGED lockVars
                   /\ \/ ~alive' /\ \A u \in Thread : ~InLock(u)'
                      \/ \A u \in Thread :
                            /\ InLock(u)' <=> InLock(u)
                            /\ InLock(u) => fr'[u] = fr[u] /\ mode'[u] = mode[u]
<1> USE DEF Typed, ThreadsTyped, InLock, Label
<1>1. CASE Fetch(t) \/ Publish(t) \/ Readmit(t) \/ NumberUnpin(t) \/ ScanUnpin(t)
  BY <1>1 DEF Fetch, Publish, Readmit, NumberUnpin, ScanUnpin, Stay, Go, Leave
<1>2. CASE NoSuchSavepoint(t) \/ ClearFrames(t) \/ Refill(t) \/ LowerBarrier(t) \/ Destroy(t)
  BY <1>2 DEF NoSuchSavepoint, ClearFrames, Refill, LowerBarrier, Destroy, Go, Leave
<1>3. ASSUME NEW p \in Page,
             Admit(t, p) \/ TryPin(t, p) \/ NumberLockRefused(t, p) \/ Scan(t, p)
      PROVE  Goal
  BY <1>3 DEF Admit, TryPin, NumberLockRefused, Scan, Go
<1>4. ASSUME NEW p \in Page, PlainGet(t, p) \/ FreePage(t, p) PROVE Goal
  BY <1>4 DEF PlainGet, FreePage, threadVars
<1>5. ASSUME NEW p \in Page, NEW m \in {"read", "write"}, NumberLock(t, p, m) PROVE Goal
  BY <1>5 DEF NumberLock, Go
<1>6. ASSUME NEW m \in {"read", "write"}, AskLock(t, m) PROVE Goal
  BY <1>6 DEF AskLock, Go
<1>7. ASSUME NEW n \in 1 .. NumPages - 1, Shrink(t, n) PROVE Goal
  BY <1>7 DEF Shrink, threadVars
<1>8. CASE ReleaseHandle(t) \/ Rollback(t)
  BY <1>8 DEF ReleaseHandle, Rollback, Leave, Go, threadVars
<1>9. CASE RaiseBarrier(t) \/ TryClose(t) \/ Exit(t)
  BY <1>9 DEF RaiseBarrier, TryClose, Exit, Go
<1> QED
  BY <1>1, <1>2, <1>3, <1>4, <1>5, <1>6, <1>7, <1>8, <1>9
  DEF Step, Continue, Call, Locking

\* An unlock releases at most one holder's lock, of one frame.
LEMMA UnlocksTyped ==
    ASSUME Typed, NEW t \in Thread, NEW f \in Frame, DropLock(t, f)
    PROVE  LocksTyped'
BY DEF DropLock, LocksTyped, Typed

\* Before a theft the page that is looked up again is in the frame that the
\* thread has locked; a caller that was granted nothing finds no pinned frame.
LEMMA NumberUnlockIsOwn ==
    ASSUME IInv, ~stolen', NEW t \in Thread, NumberUnlock(t)
    PROVE  /\ pins' = pins
           /\ \/ /\ at[t] = "numlocked" /\ at' = [at EXCEPT ![t] = "numunlocked"]
                 /\ DropLock(t, fr[t])
                 /\ UNCHANGED <<want, fr, mode>>
              \/ at[t] = "unheld" /\ Leave(t) /\ UNCHANGED lockVars
<1>1. alive /\ ~stolen /\ at[t] \in {"numlocked", "unheld"} /\ pins' = pins
  BY DEF NumberUnlock, IInv, Typed, FlagsTyped, poolVars
<1>2. fr \in [Thread -> Frame] /\ want[t] \in Page
  BY DEF IInv, Typed, ThreadsTyped
<1>3. Resident(want[t]) => FrameOf(want[t]) \in Frame /\ page[FrameOf(want[t])] = want[t]
  BY DEF Resident, FrameOf
<1>4. CASE at[t] = "numlocked"
  <2>1. Holds(t) /\ InLock(t)
    BY <1>4 DEF Holds, InLock
  <2>2. page[fr[t]] = want[t] /\ pins[fr[t]] > 0 /\ fr[t] \in Frame
    BY <1>1, <2>1, OwnedFramesArePinned DEF IInv, HandleStable, StillThere
  <2>3. want[t] # None
    BY <1>2, PoolAssumption DEF Page
  <2>4. Resident(want[t]) /\ FrameOf(want[t]) = fr[t]
    BY <1>3, <2>2, <2>3 DEF IInv, OneFramePerPage, Resident
  <2>5. HasLock(t, fr[t])
    BY <1>1, <2>1 DEF IInv, LocksHeld, HasLock
  <2>6. DropLock(t, fr[t]) /\ fr' = [fr EXCEPT ![t] = fr[t]] /\ Go(t, "numunlocked")
        /\ UNCHANGED <<want, mode>>
    BY <2>2, <2>4, <2>5 DEF NumberUnlock
  <2> QED
    BY <1>1, <1>2, <1>4, <2>6 DEF Go
<1>5. CASE at[t] = "unheld"
  <2>1. \A f \in Frame : ~HasLock(t, f)
    BY <1>1, <1>5 DEF IInv, LocksHeld, InLock
  <2>2. Leave(t) /\ UNCHANGED lockVars
    BY <1>3, <2>1 DEF NumberUnlock, lockVars
  <2> QED
    BY <1>1, <1>5, <2>2
<1> QED
  BY <1>1, <1>4, <1>5

LEMMA LocksTypedInv ==
    ASSUME Typed, NEW t \in Thread, Step(t)
    PROVE  LocksTyped'
<1>0. \A u \in Thread : fr[u] \in Frame
  BY DEF Typed, ThreadsTyped
<1>1. CASE TakeLock(t)
  BY <1>0, <1>1 DEF TakeLock, Granted, LocksTyped, Typed
<1>2. CASE Unlock(t)
  BY <1>0, <1>2, UnlocksTyped DEF Unlock
<1>3. CASE NumberUnlock(t)
  <2>1. Resident(want[t]) => FrameOf(want[t]) \in Frame
    BY DEF Resident, FrameOf
  <2>2. \/ \E u \in Thread : \E f \in Frame : DropLock(u, f)
        \/ UNCHANGED lockVars
    BY <1>3, <2>1 DEF NumberUnlock, lockVars
  <2> QED
    BY <2>2, UnlocksTyped DEF LocksTyped, lockVars, Typed
<1>4. CASE ~Locking(t)
  BY <1>4, OtherStepsKeepLocks DEF LocksTyped, lockVars, Typed
<1> QED
  BY <1>1, <1>2, <1>3, <1>4 DEF Locking

LEMMA LocksInv ==
    ASSUME IInv, NEW t \in Thread, Step(t)
    PROVE  LocksHeld'
<1>1. SUFFICES ASSUME ~stolen' PROVE LocksHeld'
  BY DEF LocksHeld
<1>2. ~stolen /\ alive /\ Typed /\ LocksHeld /\ LocksTyped
  BY <1>1, StealingStep, StepsAreAlive DEF IInv, Typed, FlagsTyped
<1>3. \A u \in Thread : fr[u] \in Frame /\ u # None
  BY <1>2, PoolAssumption DEF Typed, ThreadsTyped
<1>4. CASE TakeLock(t)
  <2>1. /\ fr' = fr /\ mode' = mode /\ Granted(t)
        /\ InLock(t)' /\ ~InLock(t)
        /\ \A u \in Thread \ {t} : InLock(u)' = InLock(u)
    BY <1>2, <1>4 DEF TakeLock, Go, InLock, Typed, ThreadsTyped, Label
  <2>2. CASE mode[t] = "read"
    <3>1. /\ writer[fr[t]] = None /\ writer' = writer
          /\ readers' = [readers EXCEPT ![fr[t]] = @ \cup {t}]
      BY <2>1, <2>2 DEF Granted
    <3>2. /\ readers'[fr[t]] = readers[fr[t]] \cup {t}
          /\ \A f \in Frame \ {fr[t]} : readers'[f] = readers[f]
      BY <1>2, <1>3, <3>1 DEF LocksTyped
    <3> QED
      BY <1>2, <1>3, <2>1, <2>2, <3>1, <3>2 DEF LocksHeld, HasLock
  <2>3. CASE mode[t] # "read"
    <3>1. /\ writer[fr[t]] = None /\ readers[fr[t]] = {} /\ readers' = readers
          /\ writer' = [writer EXCEPT ![fr[t]] = t]
      BY <2>1, <2>3 DEF Granted
    <3>2. /\ writer'[fr[t]] = t
          /\ \A f \in Frame \ {fr[t]} : writer'[f] = writer[f]
      BY <1>2, <1>3, <3>1 DEF LocksTyped
    <3>3. \A u \in Thread : InLock(u) => fr[u] # fr[t]
      BY <1>2, <1>3, <3>1 DEF LocksHeld
    <3> QED
      BY <1>2, <1>3, <2>1, <2>3, <3>1, <3>2, <3>3 DEF LocksHeld, HasLock
  <2> QED
    BY <2>2, <2>3
<1>5. ASSUME DropLock(t, fr[t]), fr' = fr, mode'[t] \in {"read", "write"},
             InLock(t), ~InLock(t)', alive' = alive,
             \A u \in Thread \ {t} : InLock(u)' = InLock(u) /\ mode'[u] = mode[u]
      PROVE  LocksHeld'
  <2>1. /\ readers'[fr[t]] = readers[fr[t]] \ {t}
        /\ writer'[fr[t]] = IF writer[fr[t]] = t THEN None ELSE writer[fr[t]]
        /\ \A f \in Frame \ {fr[t]} : readers'[f] = readers[f] /\ writer'[f] = writer[f]
    BY <1>2, <1>3, <1>5 DEF DropLock, LocksTyped
  <2> QED
    BY <1>2, <1>3, <1>5, <2>1 DEF LocksHeld, HasLock
<1>6. CASE Unlock(t)
  BY <1>2, <1>5, <1>6 DEF Unlock, Go, InLock, Typed, ThreadsTyped
<1>7. CASE NumberUnlock(t)
  <2>1. CASE /\ at[t] = "numlocked" /\ at' = [at EXCEPT ![t] = "numunlocked"]
             /\ DropLock(t, fr[t])
             /\ UNCHANGED <<want, fr, mode>>
    BY <1>2, <1>5, <1>7, <2>1 DEF NumberUnlock, InLock, Typed, ThreadsTyped
  <2>2. CASE at[t] = "unheld" /\ Leave(t) /\ UNCHANGED lockVars
    <3>1. \A u \in Thread : InLock(u)' = InLock(u)
                             /\ (InLock(u) => fr'[u] = fr[u] /\ mode'[u] = mode[u])
      BY <1>2, <2>2 DEF Leave, Go, InLock, Typed, ThreadsTyped
    <3> QED
      BY <1>2, <1>7, <2>2, <3>1 DEF NumberUnlock, LocksHeld, HasLock, lockVars
  <2> QED
    BY <1>1, <1>7, <2>1, <2>2, NumberUnlockIsOwn
<1>8. CASE ~Locking(t)
  BY <1>2, <1>8, OtherStepsKeepLocks DEF LocksHeld, HasLock, lockVars
<1> QED
  BY <1>4, <1>6, <1>7, <1>8 DEF Locking

LEMMA FlagsInv ==
    ASSUME Typed, NEW t \in Thread, Step(t)
    PROVE  FlagsTyped'
<1> USE DEF Typed, FlagsTyped
<1>2. \/ UNCHANGED <<barrier, alive>>
      \/ barrier' \in {TRUE, FALSE} /\ alive' = alive
      \/ barrier' = barrier /\ alive' = FALSE
  BY DEF Step, Continue, Call, Fetch, Publish, Readmit, Unlock, NumberUnlock, NumberUnpin,
     ScanUnpin, NoSuchSavepoint, ClearFrames, Refill, LowerBarrier, Destroy, Admit, TryPin,
     PlainGet, Scan, FreePage, NumberLock, NumberLockRefused, AskLock, Shrink, TakeLock,
     ReleaseHandle, Rollback, RaiseBarrier, TryClose, Exit
<1>3. stolen' \in BOOLEAN
  BY StealingStep
<1> QED
  BY <1>2, <1>3

----------------------------------------------------------------------------
(* Handles and pins                                                        *)

\* Before a theft, a pinned frame keeps its page.
LEMMA PinnedFramesKeepTheirPage ==
    ASSUME Typed, OneFramePerPage, HandleStable, PinsAreOwned, OneRaises, BarrierExcludesPins,
           NEW t \in Thread, Step(t), alive, ~stolen, NEW f \in Frame, pins[f] > 0
    PROVE  page'[f] = page[f]
<1>1. ASSUME NEW p \in Page, NEW g \in Candidates(p), Loads(p, g)
      PROVE  page'[f] = page[f]
  <2>1. g # f \/ page[g] = p
    BY CandidatesAreFree, FreshFramesAreUnpinned DEF Typed, PoolTyped
  <2> QED
    BY <1>1, <2>1 DEF Loads, Typed, PoolTyped
<1>2. ASSUME NEW S \in SUBSET Frame, Drops(S)
      PROVE  page'[f] = page[f]
  BY <1>2 DEF Drops, DropFrames
<1> QED
  BY <1>1, <1>2, FramesStep

Gains(t, f) ==
    /\ ~Holds(t) /\ Holds(t)' /\ ~barrier
    /\ fr'[t] = f /\ page'[f] = want'[t]
    /\ pins' = [pins EXCEPT ![f] = @ + 1]

Loses(t) ==
    /\ Holds(t) /\ ~Holds(t)'
    /\ pins[fr[t]] > 0
    /\ pins' = [pins EXCEPT ![fr[t]] = @ - 1]

Keeps(t) ==
    /\ Holds(t)' <=> Holds(t)
    /\ Holds(t) => fr'[t] = fr[t] /\ want'[t] = want[t]
    /\ pins' = pins

\* A step that steals nothing takes a pin for its thread, gives its thread's pin
\* back, or changes no pin.
LEMMA PinsStep ==
    ASSUME IInv, ~stolen', NEW t \in Thread, Step(t)
    PROVE  \/ \E f \in Frame : Gains(t, f)
           \/ Loses(t)
           \/ Keeps(t)
           \/ Exit(t)
<1> DEFINE Goal == \/ \E f \in Frame : Gains(t, f)
                   \/ Loses(t)
                   \/ Keeps(t)
                   \/ Exit(t)
<1>0. /\ pins \in [Frame -> Nat] /\ fr[t] \in Frame
      /\ at \in [Thread -> Label] /\ fr \in [Thread -> Frame] /\ want \in [Thread -> Page]
      /\ page \in [Frame -> Page \cup {None}]
      /\ ~stolen
  BY StealingStep DEF IInv, Typed, ThreadsTyped, PoolTyped, FlagsTyped
<1>1. \A p \in Page : \A f \in Candidates(p) :
          alive => /\ f \in Frame
                   /\ Resident(p) => page[f] = p
                   /\ ~Resident(p) => pins[f] = 0
  BY <1>0, CandidatesAreFree, FreshFramesAreUnpinned DEF IInv
<1>2. Holds(t) /\ alive => StillThere(t) /\ pins[fr[t]] > 0
  BY <1>0, OwnedFramesArePinned DEF IInv, HandleStable
<1> USE <1>0 DEF Holds, Keeps, Label
<1>3. ASSUME NEW p \in Page, NEW f \in Candidates(p), Get(p, f), alive
      PROVE  pins' = pins
  BY <1>1, <1>3 DEF Get
<1>4. ASSUME NEW S \in SUBSET Frame, DropFrames(S), \A f \in S : pins[f] = 0
      PROVE  pins' = pins
  BY <1>4 DEF DropFrames
<1>5. CASE Fetch(t)
  <2>1. pins' = pins
    BY <1>3, <1>5 DEF Fetch
  <2> QED
    BY <1>5, <2>1 DEF Fetch, Go
<1>6. CASE Publish(t)
  BY <1>6 DEF Publish, Stay, Go, Leave, Gains, StillThere
<1>7. CASE Readmit(t) \/ Unlock(t)
  BY <1>7 DEF Readmit, Unlock, Stay, Go, Leave, poolVars
<1>8. CASE NumberUnlock(t)
  BY <1>8, NumberUnlockIsOwn DEF Leave, Go
<1>24. CASE NumberUnpin(t)
  BY <1>2, <1>24 DEF NumberUnpin, Go, Leave, Loses
<1>25. CASE ScanUnpin(t)
  BY <1>25 DEF ScanUnpin, Go, Leave
<1>9. CASE ClearFrames(t)
  <2>1. barrier /\ alive
    BY <1>9 DEF ClearFrames, IInv, OneRaises, Raised
  <2>2. pins' = pins
    BY <1>4, <1>9, <2>1, UnownedFramesAreUnpinned DEF ClearFrames, IInv
  <2> QED
    BY <1>9, <2>2 DEF ClearFrames, Go
<1>10. CASE Refill(t)
  <2>1. pins' = pins
    BY <1>3, <1>10 DEF Refill
  <2> QED
    BY <1>10, <2>1 DEF Refill, Go
<1>11. CASE NoSuchSavepoint(t) \/ LowerBarrier(t) \/ Destroy(t)
  BY <1>11 DEF NoSuchSavepoint, LowerBarrier, Destroy, Leave, Go, poolVars
<1>12. ASSUME NEW p \in Page, Admit(t, p) \/ NumberLockRefused(t, p) PROVE Goal
  BY <1>12 DEF Admit, NumberLockRefused, Go, poolVars
<1>13. ASSUME NEW p \in Page, TryPin(t, p) PROVE Goal
  <2>1. PICK f \in Candidates(p) :
            /\ page' = [page EXCEPT ![f] = p]
            /\ pins' = [pins EXCEPT ![f] = IF Resident(p) THEN @ + 1 ELSE 1]
            /\ fr' = [fr EXCEPT ![t] = f]
    BY <1>13 DEF TryPin
  <2>2. f \in Frame /\ (Resident(p) \/ pins[f] = 0)
    BY <1>1, <1>13 DEF TryPin
  <2>3. (IF Resident(p) THEN pins[f] + 1 ELSE 1) = pins[f] + 1
    BY <2>2
  <2>4. pins' = [pins EXCEPT ![f] = @ + 1]
    BY <2>1, <2>3
  <2> QED
    BY <1>13, <2>1, <2>2, <2>4, ZenonT(60) DEF TryPin, Go, Gains
<1>14. ASSUME NEW p \in Page, PlainGet(t, p) PROVE Goal
  <2>1. pins' = pins
    BY <1>3, <1>14 DEF PlainGet
  <2> QED
    BY <1>14, <2>1 DEF PlainGet, threadVars
<1>15. ASSUME NEW p \in Page, Scan(t, p) PROVE Goal
  <2>1. pins' = pins
    BY <1>3, <1>15 DEF Scan
  <2> QED
    BY <1>15, <2>1 DEF Scan, Go
<1>16. ASSUME NEW p \in Page, FreePage(t, p) PROVE Goal
  <2>1. FrameOf(p) \in Frame
    BY <1>16 DEF FreePage, Resident, FrameOf
  <2>2. pins' = pins
    BY <1>4, <1>16, <2>1 DEF FreePage
  <2> QED
    BY <1>16, <2>2 DEF FreePage, threadVars
<1>17. ASSUME NEW p \in Page, NEW m \in {"read", "write"}, NumberLock(t, p, m) PROVE Goal
  <2>1. FrameOf(p) \in Frame /\ page[FrameOf(p)] = p
    BY <1>17 DEF NumberLock, Resident, FrameOf
  <2> QED
    BY <1>17, <2>1 DEF NumberLock, Go, Gains
<1>18. ASSUME NEW m \in {"read", "write"}, AskLock(t, m) PROVE Goal
  BY <1>18 DEF AskLock, Go, poolVars
<1>19. ASSUME NEW n \in 1 .. NumPages - 1, Shrink(t, n) PROVE Goal
  <2>1. pins' = pins
    BY <1>4, <1>19 DEF Shrink
  <2> QED
    BY <1>19, <2>1 DEF Shrink, threadVars
<1>20. CASE TakeLock(t)
  BY <1>20 DEF TakeLock, Go, poolVars
<1>21. CASE ReleaseHandle(t)
  BY <1>21 DEF ReleaseHandle, Leave, Go, Loses
<1>22. CASE Rollback(t)
  <2>1. \A f \in Frame : pins[f] = 0
    BY <1>22, UnownedFramesAreUnpinned DEF Rollback, AnyPinned, IInv
  <2>2. pins' = pins
    BY <1>4, <1>22, <2>1 DEF Rollback
  <2> QED
    BY <1>22, <2>2 DEF Rollback, threadVars
<1>23. CASE RaiseBarrier(t) \/ TryClose(t)
  BY <1>23 DEF RaiseBarrier, TryClose, Go, poolVars
<1> QED
  BY <1>5, <1>6, <1>7, <1>8, <1>9, <1>10, <1>11, <1>12, <1>13, <1>14, <1>15, <1>16, <1>17,
     <1>18, <1>19, <1>20, <1>21, <1>22, <1>23, <1>24, <1>25
  DEF Step, Continue, Call

LEMMA PinsTypedInv ==
    ASSUME Typed, NEW t \in Thread, Step(t)
    PROVE  pins' \in [Frame -> Nat]
<1> DEFINE Goal == pins' \in [Frame -> Nat]
<1>0. /\ pins \in [Frame -> Nat] /\ fr[t] \in Frame
      /\ \A p \in Page : \A f \in Candidates(p) : f \in Frame
      /\ \A p \in Page : Resident(p) => FrameOf(p) \in Frame
      /\ want[t] \in Page
  BY DEF Typed, PoolTyped, ThreadsTyped, Candidates, Resident, FrameOf, Empty, Victims, Listed
<1>1. ASSUME NEW p \in Page, NEW f \in Candidates(p), Get(p, f) PROVE Goal
  BY <1>0, <1>1 DEF Get
<1>2. CASE Fetch(t) \/ Refill(t)
  BY <1>0, <1>1, <1>2 DEF Fetch, Refill
<1>3. CASE Publish(t)
  BY <1>0, <1>3 DEF Publish
<1>4. CASE NumberUnpin(t) \/ ReleaseHandle(t)
  BY <1>0, <1>4 DEF NumberUnpin, ReleaseHandle
<1>5. CASE ScanUnpin(t)
  BY <1>0, <1>5 DEF ScanUnpin
<1>6. ASSUME NEW p \in Page, TryPin(t, p) PROVE Goal
  BY <1>0, <1>6 DEF TryPin
<1>7. ASSUME NEW p \in Page, PlainGet(t, p) \/ Scan(t, p) PROVE Goal
  BY <1>0, <1>1, <1>7 DEF PlainGet, Scan
<1>8. ASSUME NEW p \in Page, NEW m \in {"read", "write"}, NumberLock(t, p, m) PROVE Goal
  BY <1>0, <1>8 DEF NumberLock
<1>9. ASSUME NEW p \in Page, FreePage(t, p) PROVE Goal
  BY <1>0, <1>9 DEF FreePage, DropFrames
<1>10. ASSUME NEW n \in 1 .. NumPages - 1, Shrink(t, n) PROVE Goal
  BY <1>0, <1>10 DEF Shrink, DropFrames
<1>11. CASE ClearFrames(t) \/ Rollback(t)
  BY <1>0, <1>11 DEF ClearFrames, Rollback, DropFrames
<1>12. ASSUME NEW p \in Page, Admit(t, p) \/ NumberLockRefused(t, p) PROVE Goal
  BY <1>0, <1>12 DEF Admit, NumberLockRefused, poolVars
<1>13. ASSUME NEW m \in {"read", "write"}, AskLock(t, m) PROVE Goal
  BY <1>0, <1>13 DEF AskLock, poolVars
<1>14. CASE TakeLock(t) \/ Unlock(t) \/ NumberUnlock(t) \/ Readmit(t) \/ NoSuchSavepoint(t)
  BY <1>0, <1>14 DEF TakeLock, Unlock, NumberUnlock, Readmit, NoSuchSavepoint, poolVars
<1>15. CASE LowerBarrier(t) \/ Destroy(t) \/ RaiseBarrier(t) \/ TryClose(t) \/ Exit(t)
  BY <1>0, <1>15 DEF LowerBarrier, Destroy, RaiseBarrier, TryClose, Exit, poolVars
<1> QED
  BY <1>2, <1>3, <1>4, <1>5, <1>6, <1>7, <1>8, <1>9, <1>10, <1>11, <1>12, <1>13, <1>14, <1>15
  DEF Step, Continue, Call

\* The handles stay on their pages and the pins on their owners.
LEMMA HandlesInv ==
    ASSUME IInv, NEW t \in Thread, Step(t)
    PROVE  HandleStable' /\ PinsAreOwned'
<1>0. SUFFICES ASSUME ~stolen' PROVE HandleStable' /\ PinsAreOwned'
  BY DEF HandleStable, PinsAreOwned
<1>1. /\ pins \in [Frame -> Nat] /\ fr \in [Thread -> Frame]
      /\ ThreadsTyped' /\ pins' \in [Frame -> Nat]
      /\ alive /\ ~stolen
  BY <1>0, ThreadsStep, PinsTypedInv, StepsAreAlive, StealingStep
  DEF IInv, Typed, PoolTyped, ThreadsTyped, FlagsTyped
<1>2. ASSUME ~Exit(t)
      PROVE  \A u \in Thread \ {t} :
                /\ Holds(u)' = Holds(u)
                /\ fr'[u] = fr[u] /\ want'[u] = want[u]
  BY <1>2, ThreadsStep DEF IInv, Local, Holds
<1>3. \A u \in Thread : Holds(u) =>
          /\ page[fr[u]] = want[u] /\ pins[fr[u]] > 0
          /\ page'[fr[u]] = want[u]
  BY <1>1, OwnedFramesArePinned, PinnedFramesKeepTheirPage DEF IInv, HandleStable, StillThere
<1>4. IsFiniteSet(Owners(fr[t])) /\ \A f \in Frame : IsFiniteSet(Owners(f))
  BY <1>1, GroupsAreFinite
<1>5. \A f \in Frame : pins[f] = Cardinality(Owners(f))
  BY <1>1 DEF IInv, PinsAreOwned, Owners
<1>6. ASSUME NEW f \in Frame, Gains(t, f), ~Exit(t)
      PROVE  HandleStable' /\ PinsAreOwned'
  <2>1. HandleStable'
    BY <1>2, <1>3, <1>6 DEF HandleStable, Gains, StillThere
  <2>3. Owners(f)' = Owners(f) \cup {t} /\ t \notin Owners(f)
    BY <1>2, <1>6 DEF Owners, Gains
  <2>4. \A g \in Frame \ {f} : Owners(g)' = Owners(g)
    BY <1>2, <1>6 DEF Owners, Gains
  <2>5. Cardinality(Owners(f)') = Cardinality(Owners(f)) + 1
    BY <1>4, <2>3, FS_AddElement
  <2>6. \A g \in Frame : pins'[g] = Cardinality(Owners(g)')
    BY <1>1, <1>5, <1>6, <2>4, <2>5 DEF Gains
  <2> QED
    BY <2>1, <2>6 DEF PinsAreOwned, Owners
<1>7. ASSUME NEW f \in Frame, f = fr[t], Loses(t), ~Exit(t)
      PROVE  HandleStable' /\ PinsAreOwned'
  <2>1. HandleStable'
    BY <1>2, <1>3, <1>7 DEF HandleStable, Loses, StillThere
  <2>3. Owners(f)' = Owners(f) \ {t} /\ t \in Owners(f)
    BY <1>2, <1>7 DEF Owners, Loses
  <2>4. \A g \in Frame \ {f} : Owners(g)' = Owners(g)
    BY <1>2, <1>7 DEF Owners, Loses
  <2>5. Cardinality(Owners(f)') = Cardinality(Owners(f)) - 1
    BY <1>4, <2>3, FS_RemoveElement
  <2>6. \A g \in Frame : pins'[g] = Cardinality(Owners(g)')
    BY <1>1, <1>5, <1>7, <2>4, <2>5 DEF Loses
  <2> QED
    BY <2>1, <2>6 DEF PinsAreOwned, Owners
<1>8. ASSUME Keeps(t), ~Exit(t)
      PROVE  HandleStable' /\ PinsAreOwned'
  <2>1. HandleStable'
    BY <1>2, <1>3, <1>8 DEF HandleStable, Keeps, StillThere
  <2>2. \A g \in Frame : Owners(g)' = Owners(g)
    BY <1>2, <1>8 DEF Owners, Keeps
  <2> QED
    BY <1>1, <1>5, <1>8, <2>1, <2>2 DEF PinsAreOwned, Owners, Keeps
<1>9. CASE Exit(t)
  <2>1. ~alive' /\ \A u \in Thread : ~Holds(u)'
    BY <1>9 DEF Exit, Holds
  <2> QED
    BY <2>1 DEF HandleStable, PinsAreOwned
<1> QED
  BY <1>0, <1>1, <1>6, <1>7, <1>8, <1>9, PinsStep

----------------------------------------------------------------------------
(* Admissions and the barrier                                              *)

EntersGap(t) ==
    ~barrier /\ ~InGap(t) /\ InGap(t)' /\ admissions' = admissions + 1

LeavesGap(t) == InGap(t) /\ ~InGap(t)' /\ admissions' = admissions - 1

\* admissions follows the thread that enters or leaves the gap.
LEMMA AdmissionsStep ==
    ASSUME Typed, NEW t \in Thread, Step(t)
    PROVE  \/ EntersGap(t)
           \/ LeavesGap(t)
           \/ InGap(t)' = InGap(t) /\ admissions' = admissions
           \/ Exit(t)
<1> DEFINE Goal == \/ EntersGap(t)
                   \/ LeavesGap(t)
                   \/ InGap(t)' = InGap(t) /\ admissions' = admissions
                   \/ Exit(t)
<1> USE DEF Typed, ThreadsTyped, InGap, Label
<1>1. CASE Fetch(t)
  BY <1>1 DEF Fetch, Go
<1>2. CASE Publish(t)
  BY <1>2 DEF Publish, Stay, Go, Leave, LeavesGap
<1>3. CASE Readmit(t)
  BY <1>3 DEF Readmit, Go, Leave, EntersGap
<1>4. CASE Unlock(t) \/ NumberUnlock(t) \/ NumberUnpin(t) \/ ScanUnpin(t)
  BY <1>4 DEF Unlock, NumberUnlock, NumberUnpin, ScanUnpin, Go, Leave
<1>5. CASE NoSuchSavepoint(t) \/ ClearFrames(t) \/ LowerBarrier(t) \/ Destroy(t)
  BY <1>5 DEF NoSuchSavepoint, ClearFrames, LowerBarrier, Destroy, Go, Leave
<1>6. ASSUME NEW p \in Page, Admit(t, p) PROVE Goal
  BY <1>6 DEF Admit, Go, EntersGap
<1>7. ASSUME NEW p \in Page, TryPin(t, p) \/ NumberLockRefused(t, p) \/ Scan(t, p) PROVE Goal
  BY <1>7 DEF TryPin, NumberLockRefused, Scan, Go
<1>8. ASSUME NEW p \in Page, PlainGet(t, p) \/ FreePage(t, p) PROVE Goal
  BY <1>8 DEF PlainGet, FreePage, threadVars
<1>9. ASSUME NEW p \in Page, NEW m \in {"read", "write"}, NumberLock(t, p, m) PROVE Goal
  BY <1>9 DEF NumberLock, Go
<1>10. ASSUME NEW m \in {"read", "write"}, AskLock(t, m) PROVE Goal
  BY <1>10 DEF AskLock, Go
<1>11. ASSUME NEW n \in 1 .. NumPages - 1, Shrink(t, n) PROVE Goal
  BY <1>11 DEF Shrink, threadVars
<1>12. CASE TakeLock(t) \/ ReleaseHandle(t) \/ Rollback(t)
  BY <1>12 DEF TakeLock, ReleaseHandle, Rollback, Go, Leave, threadVars
<1>13. CASE RaiseBarrier(t) \/ TryClose(t)
  BY <1>13 DEF RaiseBarrier, TryClose, Go
<1>14. CASE Refill(t)
  BY <1>14 DEF Refill, Go
<1> QED
  BY <1>1, <1>2, <1>3, <1>4, <1>5, <1>6, <1>7, <1>8, <1>9, <1>10, <1>11, <1>12, <1>13,
     <1>14
  DEF Step, Continue, Call

Raises(t) ==
    /\ ~Busy /\ ~AnyPinned
    /\ at[t] = "idle" /\ Raised(t)'
    /\ barrier' = TRUE /\ alive' = alive

Lowers(t) ==
    /\ Raised(t) /\ ~Raised(t)'
    /\ barrier' = FALSE /\ alive' = alive

\* The barrier follows the thread that raises or lowers it; the thread that
\* closes the pager leaves it standing.
LEMMA BarrierStep ==
    ASSUME Typed, NEW t \in Thread, Step(t)
    PROVE  \/ Raises(t)
           \/ Lowers(t)
           \/ Destroy(t)
           \/ Raised(t)' = Raised(t) /\ barrier' = barrier /\ alive' = alive
           \/ Exit(t)
<1> DEFINE Same == Raised(t)' = Raised(t) /\ barrier' = barrier /\ alive' = alive
<1> USE DEF Typed, ThreadsTyped, Raised, Label
<1>1. CASE Fetch(t) \/ Publish(t) \/ Readmit(t)
  BY <1>1 DEF Fetch, Publish, Readmit, Stay, Go, Leave
<1>2. CASE Unlock(t) \/ NumberUnlock(t) \/ NumberUnpin(t) \/ ScanUnpin(t)
  BY <1>2 DEF Unlock, NumberUnlock, NumberUnpin, ScanUnpin, Go, Leave
<1>3. CASE NoSuchSavepoint(t) \/ ClearFrames(t) \/ Refill(t)
  BY <1>3 DEF NoSuchSavepoint, ClearFrames, Refill, Go
<1>4. CASE LowerBarrier(t)
  BY <1>4 DEF LowerBarrier, Go, Leave, Lowers
<1>5. ASSUME NEW p \in Page,
             Admit(t, p) \/ TryPin(t, p) \/ NumberLockRefused(t, p) \/ Scan(t, p)
      PROVE  Same
  BY <1>5 DEF Admit, TryPin, NumberLockRefused, Scan, Go
<1>6. ASSUME NEW p \in Page, PlainGet(t, p) \/ FreePage(t, p) PROVE Same
  BY <1>6 DEF PlainGet, FreePage, threadVars
<1>7. ASSUME NEW p \in Page, NEW m \in {"read", "write"}, NumberLock(t, p, m) PROVE Same
  BY <1>7 DEF NumberLock, Go
<1>8. ASSUME NEW m \in {"read", "write"}, AskLock(t, m) PROVE Same
  BY <1>8 DEF AskLock, Go
<1>9. ASSUME NEW n \in 1 .. NumPages - 1, Shrink(t, n) PROVE Same
  BY <1>9 DEF Shrink, threadVars
<1>10. CASE TakeLock(t) \/ ReleaseHandle(t) \/ Rollback(t)
  BY <1>10 DEF TakeLock, ReleaseHandle, Rollback, Go, Leave, threadVars
<1>11. CASE RaiseBarrier(t) \/ TryClose(t)
  BY <1>11 DEF RaiseBarrier, TryClose, Go, Raises
<1> QED
  BY <1>1, <1>2, <1>3, <1>4, <1>5, <1>6, <1>7, <1>8, <1>9, <1>10, <1>11
  DEF Step, Continue, Call

LEMMA AdmissionsInv ==
    ASSUME IInv, NEW t \in Thread, Step(t)
    PROVE  AdmissionsCounted'
<1>1. CASE Exit(t)
  BY <1>1 DEF Exit, AdmissionsCounted
<1>2. SUFFICES ASSUME ~Exit(t) PROVE admissions' = Cardinality(Admitted')
  BY <1>1 DEF AdmissionsCounted
<1>3. \A u \in Thread \ {t} : InGap(u)' = InGap(u)
  BY <1>2, ThreadsStep DEF IInv, Local, InGap
<1>4. /\ IsFiniteSet(Admitted) /\ admissions = Cardinality(Admitted)
      /\ admissions \in Int
  BY GroupsAreFinite, StepsAreAlive DEF IInv, AdmissionsCounted, Typed, ThreadsTyped
<1>5. CASE EntersGap(t)
  <2>1. Admitted' = Admitted \cup {t} /\ t \notin Admitted
    BY <1>3, <1>5 DEF Admitted, EntersGap
  <2> QED
    BY <1>4, <1>5, <2>1, FS_AddElement DEF EntersGap
<1>6. CASE LeavesGap(t)
  <2>1. Admitted' = Admitted \ {t} /\ t \in Admitted
    BY <1>3, <1>6 DEF Admitted, LeavesGap
  <2> QED
    BY <1>4, <1>6, <2>1, FS_RemoveElement DEF LeavesGap
<1>7. CASE InGap(t)' = InGap(t) /\ admissions' = admissions
  <2>1. Admitted' = Admitted
    BY <1>3, <1>7 DEF Admitted
  <2> QED
    BY <1>4, <1>7, <2>1
<1> QED
  BY <1>2, <1>5, <1>6, <1>7, AdmissionsStep DEF IInv

\* Raising the barrier finds the gap empty and, before a theft, every pin given
\* back.
LEMMA NobodyInside ==
    ASSUME IInv, alive, ~Busy, ~AnyPinned
    PROVE  \A u \in Thread : ~InGap(u) /\ (~stolen => ~Holds(u))
<1>1. ASSUME NEW u \in Thread, Holds(u), ~stolen PROVE FALSE
  <2>1. fr[u] \in Frame /\ pins[fr[u]] > 0 /\ page[fr[u]] = want[u]
    BY <1>1, OwnedFramesArePinned DEF IInv, HandleStable, StillThere
  <2>2. want[u] # None
    BY PoolAssumption DEF IInv, Typed, ThreadsTyped, Page
  <2> QED
    BY <2>1, <2>2 DEF AnyPinned
<1>2. Admitted = {}
  <2>1. admissions = Cardinality(Admitted) /\ ~(admissions > 0)
    BY DEF IInv, AdmissionsCounted, Busy
  <2>2. Cardinality(Admitted) \in Nat
    BY GroupsAreFinite, FS_CardinalityType
  <2> QED
    BY <2>1, <2>2, GroupsAreFinite, FS_EmptySet
<1> QED
  BY <1>1, <1>2 DEF Admitted

LEMMA BarrierInv ==
    ASSUME IInv, NEW t \in Thread, Step(t)
    PROVE  OneRaises' /\ BarrierExcludesPins' /\ CloseLeavesNoOwner'
<1>0. alive /\ at \in [Thread -> Label] /\ (~stolen' => ~stolen)
  BY StepsAreAlive, StealingStep DEF IInv, Typed, ThreadsTyped, FlagsTyped
<1>1. CASE Exit(t)
  BY <1>1 DEF Exit, OneRaises, Raised, BarrierExcludesPins, Holds, InGap, CloseLeavesNoOwner
<1>2. SUFFICES ASSUME ~Exit(t) PROVE OneRaises' /\ BarrierExcludesPins' /\ CloseLeavesNoOwner'
  BY <1>1
<1>3. \A u \in Thread \ {t} : at'[u] = at[u]
  BY <1>2, ThreadsStep DEF IInv, Local
<1>4. barrier => \A u \in Thread : ~InGap(u) /\ (~stolen => ~Holds(u))
  BY DEF IInv, BarrierExcludesPins
<1>5. CASE Raises(t)
  <2>1. \A u \in Thread : ~InGap(u) /\ ~Raised(u) /\ (~stolen => ~Holds(u))
    BY <1>0, <1>5, NobodyInside DEF Raises, Busy, IInv, OneRaises
  <2>2. ~Holds(t)' /\ ~InGap(t)'
    BY <1>5 DEF Raises, Raised, Holds, InGap
  <2> QED
    BY <1>0, <1>3, <1>5, <2>1, <2>2
    DEF Raises, OneRaises, Raised, BarrierExcludesPins, Holds, InGap, CloseLeavesNoOwner
<1>6. CASE Lowers(t)
  BY <1>0, <1>3, <1>6
  DEF Lowers, IInv, OneRaises, Raised, BarrierExcludesPins, CloseLeavesNoOwner
<1>7. CASE Destroy(t)
  <2>1. Raised(t) /\ barrier /\ barrier' = barrier /\ at'[t] = "idle"
    BY <1>0, <1>7 DEF Destroy, Leave, Go, IInv, OneRaises, Raised
  <2>2. \A u \in Thread : ~InGap(u) /\ (~stolen => ~Holds(u))
    BY <1>4, <2>1
  <2>3. \A u \in Thread \ {t} : ~Raised(u)
    BY <2>1 DEF IInv, OneRaises
  <2>4. \A u \in Thread : ~InGap(u)' /\ ~Raised(u)' /\ (~stolen' => ~Holds(u)')
    BY <1>0, <1>3, <2>1, <2>2, <2>3 DEF Raised, Holds, InGap
  <2> QED
    BY <2>4 DEF OneRaises, BarrierExcludesPins, CloseLeavesNoOwner
<1>8. CASE Raised(t)' = Raised(t) /\ barrier' = barrier /\ alive' = alive
  <2>1. OneRaises' /\ CloseLeavesNoOwner'
    BY <1>0, <1>3, <1>8 DEF IInv, OneRaises, Raised, CloseLeavesNoOwner
  <2>2. ASSUME barrier
        PROVE  ~InGap(t)'
    BY <1>2, <1>4, <2>2, AdmissionsStep DEF IInv, EntersGap, LeavesGap
  <2>3. ASSUME barrier, ~stolen'
        PROVE  ~Holds(t)'
    BY <1>0, <1>2, <1>4, <2>3, PinsStep DEF Gains, Loses, Keeps
  <2>4. BarrierExcludesPins'
    BY <1>0, <1>3, <1>4, <1>8, <2>2, <2>3 DEF BarrierExcludesPins, Holds, InGap
  <2> QED
    BY <2>1, <2>4
<1> QED
  BY <1>2, <1>5, <1>6, <1>7, <1>8, BarrierStep DEF IInv

----------------------------------------------------------------------------
(* The theorems                                                            *)

LEMMA InitIInv == Init => IInv
<1> SUFFICES ASSUME Init PROVE IInv
  OBVIOUS
<1> USE DEF Init
<1>1. PoolTyped /\ LocksTyped /\ ThreadsTyped
  <2>1. 0 \in Page /\ 1 \in Frame
    BY PoolAssumption DEF Page, Frame
  <2> QED
    BY <2>1 DEF PoolTyped, LocksTyped, ThreadsTyped, Label
<1>2. FlagsTyped
  BY DEF FlagsTyped
<1>3. OneFramePerPage
  BY DEF OneFramePerPage, Listed
<1>4. \A t \in Thread : ~Holds(t) /\ ~InGap(t) /\ ~Raised(t) /\ ~InLock(t)
  BY DEF Holds, InGap, Raised, InLock
<1>5. (\A f \in Frame : Owners(f) = {}) /\ Admitted = {}
  BY <1>4 DEF Owners, Admitted
<1>6. PinsAreOwned /\ AdmissionsCounted
  BY <1>5, FS_EmptySet DEF PinsAreOwned, Owners, AdmissionsCounted
<1>7. HandleStable /\ OneRaises /\ BarrierExcludesPins /\ CloseLeavesNoOwner /\ LocksHeld
  BY <1>4, PoolAssumption
  DEF HandleStable, OneRaises, BarrierExcludesPins, CloseLeavesNoOwner, LocksHeld, HasLock
<1> QED
  BY <1>1, <1>2, <1>3, <1>6, <1>7 DEF IInv, Typed

LEMMA NextIInv ==
    ASSUME IInv, [Next]_vars
    PROVE  IInv'
<1>1. CASE UNCHANGED vars
  <2>1. Typed'
    BY <1>1 DEF IInv, Typed, PoolTyped, LocksTyped, FlagsTyped, ThreadsTyped, vars, poolVars,
       lockVars, threadVars
  <2>2. OneFramePerPage'
    BY <1>1 DEF IInv, OneFramePerPage, Listed, vars, poolVars
  <2>3. HandleStable' /\ PinsAreOwned'
    BY <1>1 DEF IInv, HandleStable, StillThere, Holds, PinsAreOwned, vars, poolVars, threadVars
  <2>4. AdmissionsCounted' /\ OneRaises' /\ BarrierExcludesPins' /\ CloseLeavesNoOwner'
    BY <1>1 DEF IInv, AdmissionsCounted, Admitted, InGap, OneRaises, Raised, Holds,
       BarrierExcludesPins, CloseLeavesNoOwner, vars, threadVars
  <2>5. LocksHeld'
    BY <1>1 DEF IInv, LocksHeld, InLock, HasLock, vars, lockVars, threadVars
  <2> QED
    BY <2>1, <2>2, <2>3, <2>4, <2>5 DEF IInv
<1>2. ASSUME NEW t \in Thread, Step(t) PROVE IInv'
  <2>1. PagesTyped' /\ OneFramePerPage'
    BY <1>2, FramesInv DEF IInv
  <2>2. ThreadsTyped'
    BY <1>2, ThreadsStep DEF IInv
  <2>3. LocksTyped' /\ LocksHeld'
    BY <1>2, LocksInv, LocksTypedInv DEF IInv
  <2>4. FlagsTyped'
    BY <1>2, FlagsInv DEF IInv
  <2>5. HandleStable' /\ pins' \in [Frame -> Nat] /\ PinsAreOwned'
    BY <1>2, HandlesInv, PinsTypedInv DEF IInv
  <2>6. AdmissionsCounted'
    BY <1>2, AdmissionsInv
  <2>7. OneRaises' /\ BarrierExcludesPins' /\ CloseLeavesNoOwner'
    BY <1>2, BarrierInv
  <2> QED
    BY <2>1, <2>2, <2>3, <2>4, <2>5, <2>6, <2>7 DEF IInv, Typed, PagesTyped, PoolTyped
<1> QED
  BY <1>1, <1>2 DEF Next, Step

LEMMA InvariantHolds == Spec => []IInv
BY InitIInv, NextIInv, PTL DEF Spec

\* However threads share the frames, stolen pins included, no page is ever in
\* two of them and the LRU list stays one ordering of exactly the frames in use.
THEOREM FramesHoldOnePage == Spec => []OneFramePerPage
BY InvariantHolds, PTL DEF IInv

\* The frame of a held handle keeps its page through every replacement, free,
\* shrink and rollback that other threads run, until a scan of SAVEPOINT or
\* COMMIT, or a caller that was refused a page lock, has given back a pin or a
\* lock of another thread.
THEOREM HandlesAreStable == Spec => []HandleStable
BY InvariantHolds, PTL DEF IInv

\* pin_count counts the owners of the frame until a scan, or a caller that was
\* refused a page lock, gives back a pin or a lock of another thread.
THEOREM PinsAreCounted == Spec => []PinsAreOwned
BY InvariantHolds, PTL DEF IInv

\* A destructive operation never runs while a thread stands between its
\* admission and its pin, nor, before a theft, while one owns a pin.
THEOREM BarrierKeepsPinsOut == Spec => []BarrierExcludesPins
BY InvariantHolds, PTL DEF IInv

\* pager_try_close leaves no owner of a pin, no admission and no rollback behind;
\* it may leave a thread that is about to ask for admission once more.
THEOREM CloseIsClean == Spec => []CloseLeavesNoOwner
BY InvariantHolds, PTL DEF IInv

\* Two threads inside the lock of one page are both readers: their handles name
\* the same frame, whose writer is alone.  And although the unlock by page number
\* looks the page up afresh, the holders of a lock are always those inside it.
THEOREM LocksProtect == Spec => []LocksProtectPages
<1>1. ASSUME IInv PROVE LocksProtectPages
  <2>1. SUFFICES ASSUME alive, ~stolen PROVE LocksProtectPages
    BY DEF LocksProtectPages
  <2>2. ASSUME NEW t \in Thread, NEW u \in Thread, InLock(t), InLock(u), t # u,
               want[t] = want[u]
        PROVE  mode[t] = "read" /\ mode[u] = "read"
    <3>1. Holds(t) /\ Holds(u)
      BY <2>2 DEF InLock, Holds
    <3>2. /\ fr[t] \in Frame /\ fr[u] \in Frame
          /\ want[t] # None /\ t # None /\ u # None
      BY PoolAssumption, <1>1 DEF IInv, Typed, ThreadsTyped, Page
    <3>3. fr[t] = fr[u]
      BY <1>1, <2>1, <2>2, <3>1, <3>2 DEF IInv, HandleStable, StillThere, OneFramePerPage
    <3> QED
      BY <1>1, <2>1, <2>2, <3>2, <3>3 DEF IInv, LocksHeld
  <2>3. ASSUME NEW f \in Frame, NEW t \in Thread
        PROVE  HasLock(t, f) <=> InLock(t) /\ fr[t] = f
    BY <1>1, <2>1 DEF IInv, LocksHeld, HasLock
  <2> QED
    BY <2>2, <2>3 DEF LocksProtectPages
<1> QED
  BY <1>1, InvariantHolds, PTL
=============================================================================
