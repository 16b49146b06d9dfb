----------------------------- MODULE BufferPool -----------------------------
(***************************************************************************)
(* Threads sharing the frames of one pager: page handles, pin admission,   *)
(* frame locks, replacement, and the operations that drop frames and must  *)
(* therefore wait for, or refuse because of, pins.                         *)
(*                                                                         *)
(* An action is one stretch of code under pager_lock, or one wait for a    *)
(* frame's rwlock.  `at[t]` is where thread t stands; a thread works on one*)
(* page at a time, want[t], in the frame fr[t] that get_page returned.     *)
(***************************************************************************)
EXTENDS Naturals, FiniteSets

CONSTANTS
    Thread,
    NumPages,      \* pages are 0 .. NumPages-1
    NumFrames,     \* MAX_BUFFER_POOL_SIZE
    Attempts,      \* 64 in pager_pin_page_handle
    None

ASSUME PoolAssumption ==
    /\ NumPages \in Nat \ {0} /\ NumFrames \in Nat \ {0}
    /\ Attempts \in Nat \ {0}
    /\ IsFiniteSet(Thread)
    /\ None \notin (0 .. NumPages - 1) \cup Thread

Page == 0 .. NumPages - 1
Frame == 1 .. NumFrames

VARIABLES
    page,        \* frames[f].page_num
    pins,        \* frames[f].pin_count
    lru,         \* the list of frames in use: <<f, g>> if f was used no later than g
    readers,     \* threads holding frames[f].rwlock shared
    writer,      \* thread holding it exclusively
    barrier,     \* pin_barrier_active
    admissions,  \* pin_admissions
    alive,       \* the pager has not been closed nor the process exited
    at,          \* control state of each thread
    want,        \* page the thread works on
    fr,          \* frame it was given
    tries,       \* attempts of pager_pin_page_handle so far
    mode,        \* "read" or "write": the frame lock it asks for
    stolen       \* history: a thread has given back a pin or a lock not its own

poolVars == <<page, pins, lru>>
lockVars == <<readers, writer>>
threadVars == <<at, want, fr, tries, mode>>
vars == <<poolVars, lockVars, barrier, admissions, alive, threadVars, stolen>>

Resident(p) == \E f \in Frame : page[f] = p
FrameOf(p) == CHOOSE f \in Frame : page[f] = p
\* Faults: a pinned frame counts as replaceable; only the barrier counts as
\* busy; a single pin goes unnoticed.
EveryFrame == Frame
BarrierOnly == barrier
SharedPinned == \E f \in Frame : page[f] # None /\ pins[f] > 1

Unpinned == {f \in Frame : pins[f] = 0}
Empty == {f \in Frame : page[f] = None}
Busy == barrier \/ admissions > 0
AnyPinned == \E f \in Frame : page[f] # None /\ pins[f] > 0

Go(t, label) == at' = [at EXCEPT ![t] = label]

\* Back to the caller; the thread's local variables are dead.
Leave(t) ==
    /\ Go(t, "idle")
    /\ want' = [want EXCEPT ![t] = 0]
    /\ fr' = [fr EXCEPT ![t] = 1]
    /\ tries' = [tries EXCEPT ![t] = 0]
    /\ mode' = [mode EXCEPT ![t] = "read"]

Stay(t, label) == Go(t, label) /\ UNCHANGED <<want, fr, tries, mode>>

----------------------------------------------------------------------------
(* Replacement *)

Listed == {f \in Frame : <<f, f>> \in lru}

\* The least recently used unpinned frame; none if every frame is pinned.
Victims ==
    {f \in Listed \cap Unpinned : \A g \in Listed \cap Unpinned : <<f, g>> \in lru}

\* Fault: a resident page is loaded again.
CandidatesIgnoreTable(p) ==
    IF Empty # {} THEN {f \in Empty : \A g \in Empty : f <= g} ELSE Victims

\* The frame get_page would use for p: its own, else the first empty one,
\* else the victim.
Candidates(p) ==
    IF Resident(p) THEN {FrameOf(p)}
    ELSE IF Empty # {} THEN {f \in Empty : \A g \in Empty : f <= g}
    ELSE Victims

Without(S) == {e \in lru : e[1] \notin S /\ e[2] \notin S}
Touched(f) == Without({f}) \cup {<<g, f>> : g \in Listed \cup {f}}

\* Fault: a hit resets the pin count as a load does.
GetResetsPins(p, f) ==
    /\ page' = [page EXCEPT ![f] = p]
    /\ pins' = [pins EXCEPT ![f] = 0]
    /\ lru' = Touched(f)

\* get_page in the frame chosen: a freshly loaded frame starts with pin_count 0.
Get(p, f) ==
    /\ page' = [page EXCEPT ![f] = p]
    /\ pins' = IF Resident(p) THEN pins ELSE [pins EXCEPT ![f] = 0]
    /\ lru' = Touched(f)

\* "Buffer pool is exhausted: all frames are pinned." and exit.
Exhausted(p) == Candidates(p) = {}

\* clear_page_cache and the per-frame drops of free, shrink and rollback.
DropFrames(S) ==
    /\ page' = [f \in Frame |-> IF f \in S THEN None ELSE page[f]]
    /\ pins' = [f \in Frame |-> IF f \in S THEN 0 ELSE pins[f]]
    /\ lru' = Without(S)

----------------------------------------------------------------------------
(* pager_pin_page_handle: admission, fetch, publication *)

Admit(t, p) ==
    /\ alive /\ at[t] = "idle"
    /\ ~barrier
    /\ admissions' = admissions + 1
    /\ want' = [want EXCEPT ![t] = p]
    /\ tries' = [tries EXCEPT ![t] = 1]
    /\ Go(t, "admitted")
    /\ UNCHANGED <<poolVars, lockVars, barrier, alive, fr, mode, stolen>>

Fetch(t) ==
    /\ alive /\ at[t] = "admitted"
    /\ \E f \in Candidates(want[t]) :
        Get(want[t], f) /\ fr' = [fr EXCEPT ![t] = f]
    /\ Go(t, "fetched")
    /\ UNCHANGED <<lockVars, barrier, admissions, alive, want, tries, mode, stolen>>

\* The frame may have been given to another page since the fetch.
StillThere(t) == page[fr[t]] = want[t]

MayRetry(t) == tries[t] < Attempts

Publish(t) ==
    /\ alive /\ at[t] = "fetched"
    /\ admissions' = admissions - 1
    /\ \/ /\ ~barrier /\ StillThere(t)
          /\ pins' = [pins EXCEPT ![fr[t]] = @ + 1]
          /\ tries' = [tries EXCEPT ![t] = 0]
          /\ Go(t, "pinned")
          /\ UNCHANGED <<want, fr, mode>>
       \/ /\ ~barrier /\ ~StillThere(t) /\ MayRetry(t)
          /\ UNCHANGED pins
          /\ Stay(t, "retry")
       \/ /\ barrier \/ (~StillThere(t) /\ ~MayRetry(t))
          /\ UNCHANGED pins
          /\ Leave(t)
    /\ UNCHANGED <<page, lru, lockVars, barrier, alive, stolen>>

\* Fault: the attempts are not counted.
ReadmitUncounted(t) ==
    /\ alive /\ at[t] = "retry"
    /\ \/ barrier /\ Leave(t) /\ UNCHANGED admissions
       \/ /\ ~barrier
          /\ admissions' = admissions + 1
          /\ Stay(t, "admitted")
    /\ UNCHANGED <<poolVars, lockVars, barrier, alive, stolen>>

Readmit(t) ==
    /\ alive /\ at[t] = "retry"
    /\ \/ barrier /\ Leave(t) /\ UNCHANGED admissions
       \/ /\ ~barrier
          /\ admissions' = admissions + 1
          /\ tries' = [tries EXCEPT ![t] = @ + 1]
          /\ Go(t, "admitted")
          /\ UNCHANGED <<want, fr, mode>>
    /\ UNCHANGED <<poolVars, lockVars, barrier, alive, stolen>>

\* pager_try_pin_existing_page_handle: all of it under pager_lock; a fully
\* pinned pool is reported, not fatal.
TryPin(t, p) ==
    /\ alive /\ at[t] = "idle"
    /\ ~barrier
    /\ \E f \in Candidates(p) :
        /\ page' = [page EXCEPT ![f] = p]
        /\ pins' = [pins EXCEPT ![f] = IF Resident(p) THEN @ + 1 ELSE 1]
        /\ lru' = Touched(f)
        /\ fr' = [fr EXCEPT ![t] = f]
    /\ want' = [want EXCEPT ![t] = p]
    /\ Go(t, "pinned")
    /\ UNCHANGED <<lockVars, barrier, admissions, alive, tries, mode, stolen>>

\* pager_release_page_handle checks that the frame still holds the page.
ReleaseHandle(t) ==
    /\ alive /\ at[t] = "pinned"
    /\ StillThere(t) /\ pins[fr[t]] > 0
    /\ pins' = [pins EXCEPT ![fr[t]] = @ - 1]
    /\ Leave(t)
    /\ UNCHANGED <<page, lru, lockVars, barrier, admissions, alive, stolen>>

----------------------------------------------------------------------------
(* Frame locks *)

\* Fault: the page is locked but not pinned.
NumberLockUnpinned(t, p, m) ==
    /\ alive /\ at[t] = "idle"
    /\ ~barrier
    /\ Resident(p)
    /\ want' = [want EXCEPT ![t] = p]
    /\ fr' = [fr EXCEPT ![t] = FrameOf(p)]
    /\ mode' = [mode EXCEPT ![t] = m]
    /\ Go(t, "numwait")
    /\ UNCHANGED <<poolVars, lockVars, barrier, admissions, alive, tries, stolen>>

\* pager_page_number_lock_pin: pins a resident page, then waits.
NumberLock(t, p, m) ==
    /\ alive /\ at[t] = "idle"
    /\ ~barrier
    /\ Resident(p)
    /\ pins' = [pins EXCEPT ![FrameOf(p)] = @ + 1]
    /\ want' = [want EXCEPT ![t] = p]
    /\ fr' = [fr EXCEPT ![t] = FrameOf(p)]
    /\ mode' = [mode EXCEPT ![t] = m]
    /\ Go(t, "numwait")
    /\ UNCHANGED <<page, lru, lockVars, barrier, admissions, alive, tries, stolen>>

\* A refusal pins and locks nothing, and pager_acquire_read_lock and _write_lock,
\* which return void, do not report it: their caller goes on to the unlock.
NumberLockRefused(t, p) ==
    /\ alive /\ at[t] = "idle"
    /\ barrier \/ ~Resident(p)
    /\ want' = [want EXCEPT ![t] = p]
    /\ Go(t, "unheld")
    /\ UNCHANGED <<poolVars, lockVars, barrier, admissions, alive, fr, tries,
                   mode, stolen>>

\* pager_page_handle_acquire_read and _write.
AskLock(t, m) ==
    /\ alive /\ at[t] = "pinned"
    /\ mode' = [mode EXCEPT ![t] = m]
    /\ Go(t, "wait")
    /\ UNCHANGED <<poolVars, lockVars, barrier, admissions, alive, want, fr,
                   tries, stolen>>

Granted(t) ==
    LET f == fr[t] IN
    IF mode[t] = "read"
    THEN /\ writer[f] = None
         /\ readers' = [readers EXCEPT ![f] = @ \cup {t}]
         /\ UNCHANGED writer
    ELSE /\ writer[f] = None /\ readers[f] = {}
         /\ writer' = [writer EXCEPT ![f] = t]
         /\ UNCHANGED readers

TakeLock(t) ==
    /\ alive /\ at[t] \in {"wait", "numwait"}
    /\ Granted(t)
    /\ Go(t, IF at[t] = "wait" THEN "locked" ELSE "numlocked")
    /\ UNCHANGED <<poolVars, barrier, admissions, alive, want, fr, tries, mode, stolen>>

HasLock(t, f) == t \in readers[f] \/ writer[f] = t

DropLock(t, f) ==
    /\ readers' = [readers EXCEPT ![f] = @ \ {t}]
    /\ writer' = [writer EXCEPT ![f] = IF @ = t THEN None ELSE @]

Unlock(t) ==
    /\ alive /\ at[t] = "locked"
    /\ DropLock(t, fr[t])
    /\ mode' = [mode EXCEPT ![t] = "read"]
    /\ Go(t, "pinned")
    /\ UNCHANGED <<poolVars, barrier, admissions, alive, want, fr, tries, stolen>>

\* pager_page_number_unlock_unpin looks the page up again and unlocks the frame
\* that it finds, if that frame is pinned.  To unlock an rwlock that the thread
\* does not hold is undefined: it may release another thread's lock.
NumberUnlock(t) ==
    LET f == FrameOf(want[t]) IN
    /\ alive /\ at[t] \in {"numlocked", "unheld"}
    /\ IF Resident(want[t]) /\ pins[f] > 0
       THEN /\ IF HasLock(t, f)
               THEN DropLock(t, f) /\ UNCHANGED stolen
               ELSE /\ \E u \in Thread : DropLock(u, f)
                    /\ stolen' = TRUE
            /\ fr' = [fr EXCEPT ![t] = f]
            /\ Go(t, "numunlocked")
            /\ UNCHANGED <<want, tries, mode>>
       ELSE Leave(t) /\ UNCHANGED <<lockVars, stolen>>
    /\ UNCHANGED <<poolVars, barrier, admissions, alive>>

\* Then it unpins the frame, under pager_lock again.
NumberUnpin(t) ==
    /\ alive /\ at[t] = "numunlocked"
    /\ IF StillThere(t) /\ pins[fr[t]] > 0
       THEN pins' = [pins EXCEPT ![fr[t]] = @ - 1]
       ELSE UNCHANGED pins
    /\ Leave(t)
    /\ UNCHANGED <<page, lru, lockVars, barrier, admissions, alive, stolen>>

----------------------------------------------------------------------------
(* Operations without pins of their own *)

\* A plain get_page, whose caller uses the frame before anything else runs.
PlainGet(t, p) ==
    /\ alive /\ at[t] = "idle"
    /\ \E f \in Candidates(p) : Get(p, f)
    /\ UNCHANGED <<lockVars, barrier, admissions, alive, threadVars, stolen>>

\* One round of the loops of pager_commit and pager_savepoint: get_page, then
\* pager.c's own pager_unpin_page, which takes a pin away if there is one.
Scan(t, p) ==
    /\ alive /\ at[t] = "idle"
    /\ \E f \in Candidates(p) : Get(p, f)
    /\ want' = [want EXCEPT ![t] = p]
    /\ Go(t, "scanning")
    /\ UNCHANGED <<lockVars, barrier, admissions, alive, fr, tries, mode, stolen>>

ScanUnpin(t) ==
    LET f == FrameOf(want[t]) IN
    /\ alive /\ at[t] = "scanning"
    /\ IF Resident(want[t]) /\ pins[f] > 0
       THEN pins' = [pins EXCEPT ![f] = @ - 1] /\ stolen' = TRUE
       ELSE UNCHANGED <<pins, stolen>>
    /\ Leave(t)
    /\ UNCHANGED <<page, lru, lockVars, barrier, admissions, alive>>

\* pager_free_page_pin_guard; the refusals change nothing.  Page 0 is never
\* freed: pager_free_page takes that for a bug and exits.
FreePage(t, p) ==
    /\ alive /\ at[t] = "idle"
    /\ ~Busy
    /\ p # 0
    /\ Resident(p) /\ pins[FrameOf(p)] = 0
    /\ DropFrames({FrameOf(p)})
    /\ UNCHANGED <<lockVars, barrier, admissions, alive, threadVars, stolen>>

\* pager_shrink_pin_guard.
Shrink(t, n) ==
    LET gone == {f \in Frame : page[f] # None /\ page[f] >= n} IN
    /\ alive /\ at[t] = "idle"
    /\ ~Busy
    /\ gone # {} /\ \A f \in gone : pins[f] = 0
    /\ DropFrames(gone)
    /\ UNCHANGED <<lockVars, barrier, admissions, alive, threadVars, stolen>>

\* pager_rollback_pin_guard.
Rollback(t) ==
    /\ alive /\ at[t] = "idle"
    /\ ~Busy /\ ~AnyPinned
    /\ DropFrames(Frame)
    /\ UNCHANGED <<lockVars, barrier, admissions, alive, threadVars, stolen>>

\* pager_rollback_to_savepoint_pin_guard raises the barrier, then works
\* outside pager_lock: it drops all frames and refills them page by page.
RaiseBarrier(t) ==
    /\ alive /\ at[t] = "idle"
    /\ ~Busy /\ ~AnyPinned
    /\ barrier' = TRUE
    /\ Go(t, "clearing")
    /\ UNCHANGED <<poolVars, lockVars, admissions, alive, want, fr, tries,
                   mode, stolen>>

\* Fault: the early return leaves the barrier standing.
ReturnUnderBarrier(t) ==
    /\ alive /\ at[t] = "clearing"
    /\ Leave(t)
    /\ UNCHANGED <<poolVars, lockVars, barrier, admissions, alive, stolen>>

\* No savepoint has that name.
NoSuchSavepoint(t) ==
    /\ alive /\ at[t] = "clearing"
    /\ Go(t, "lowering")
    /\ UNCHANGED <<poolVars, lockVars, barrier, admissions, alive, want, fr,
                   tries, mode, stolen>>

ClearFrames(t) ==
    /\ alive /\ at[t] = "clearing"
    /\ DropFrames(Frame)
    /\ want' = [want EXCEPT ![t] = 0]
    /\ Go(t, "refilling")
    /\ UNCHANGED <<lockVars, barrier, admissions, alive, fr, tries, mode, stolen>>

\* Page by page up to the num_pages of the savepoint, whichever that is.
Refill(t) ==
    /\ alive /\ at[t] = "refilling"
    /\ \E f \in Candidates(want[t]) : Get(want[t], f)
    /\ \/ /\ want[t] + 1 < NumPages
          /\ want' = [want EXCEPT ![t] = @ + 1]
          /\ UNCHANGED at
       \/ Go(t, "lowering") /\ UNCHANGED want
    /\ UNCHANGED <<lockVars, barrier, admissions, alive, fr, tries, mode, stolen>>

LowerBarrier(t) ==
    /\ alive /\ at[t] = "lowering"
    /\ barrier' = FALSE
    /\ Leave(t)
    /\ UNCHANGED <<poolVars, lockVars, admissions, alive, stolen>>

\* pager_try_close: the barrier keeps pins out until the pager is gone.
TryClose(t) ==
    /\ alive /\ at[t] = "idle"
    /\ ~Busy /\ ~AnyPinned
    /\ barrier' = TRUE
    /\ Go(t, "closing")
    /\ UNCHANGED <<poolVars, lockVars, admissions, alive, want, fr, tries,
                   mode, stolen>>

Destroy(t) ==
    /\ alive /\ at[t] = "closing"
    /\ alive' = FALSE
    /\ Leave(t)
    /\ UNCHANGED <<poolVars, lockVars, barrier, admissions, stolen>>

\* get_page with every frame pinned ends the process.
Exit(t) ==
    /\ alive
    /\ \/ at[t] = "admitted" /\ Exhausted(want[t])
       \/ at[t] = "idle" /\ \E p \in Page : Exhausted(p)
    /\ alive' = FALSE
    /\ at' = [u \in Thread |-> "gone"]
    /\ UNCHANGED <<poolVars, lockVars, barrier, admissions, want, fr, tries,
                   mode, stolen>>

----------------------------------------------------------------------------
Init ==
    /\ page = [f \in Frame |-> None]
    /\ pins = [f \in Frame |-> 0]
    /\ lru = {}
    /\ readers = [f \in Frame |-> {}]
    /\ writer = [f \in Frame |-> None]
    /\ barrier = FALSE
    /\ admissions = 0
    /\ alive = TRUE
    /\ at = [t \in Thread |-> "idle"]
    /\ want = [t \in Thread |-> 0]
    /\ fr = [t \in Thread |-> 1]
    /\ tries = [t \in Thread |-> 0]
    /\ mode = [t \in Thread |-> "read"]
    /\ stolen = FALSE

\* What a thread inside an operation does next, and only it.
Continue(t) ==
    \/ Fetch(t) \/ Publish(t) \/ Readmit(t)
    \/ NumberUnpin(t) \/ ScanUnpin(t)
    \/ NoSuchSavepoint(t) \/ ClearFrames(t) \/ Refill(t) \/ LowerBarrier(t)
    \/ Destroy(t)

Call(t) ==
    \/ \E p \in Page : Admit(t, p) \/ TryPin(t, p) \/ PlainGet(t, p)
                       \/ Scan(t, p) \/ FreePage(t, p) \/ NumberLockRefused(t, p)
    \/ \E p \in Page, m \in {"read", "write"} : NumberLock(t, p, m)
    \/ \E m \in {"read", "write"} : AskLock(t, m)
    \/ \E n \in 1 .. NumPages - 1 : Shrink(t, n)
    \/ TakeLock(t) \/ Unlock(t) \/ NumberUnlock(t) \/ ReleaseHandle(t)
    \/ Rollback(t) \/ RaiseBarrier(t) \/ TryClose(t) \/ Exit(t)

Next == \E t \in Thread : Continue(t) \/ Call(t)

Spec == Init /\ [][Next]_vars

\* A thread inside an operation is scheduled again; fetching a page and ending
\* the process when no frame is free are two outcomes of one scheduled call.
\* Nothing makes a caller release its handle, and nothing makes it ask for one.
FairSpec ==
    Spec /\ \A t \in Thread : WF_vars(Continue(t) \/ (Exit(t) /\ at[t] = "admitted"))

----------------------------------------------------------------------------
(* Properties *)

\* A thread that owns a pin, through a handle or by page number.
Holds(t) == at[t] \in {"pinned", "wait", "locked", "numwait", "numlocked",
                       "numunlocked"}
InLock(t) == at[t] \in {"locked", "numlocked"}

\* Threads that have raised the barrier, and threads between admission and
\* publication.
Raised(t) == at[t] \in {"clearing", "refilling", "lowering", "closing"}
InGap(t) == at[t] \in {"admitted", "fetched"}

\* pager.h, "Stable pinned-page handle": the frame of a handle keeps its page
\* for as long as the handle is held, until a pin has been taken from its owner.
HandleStable == ~stolen => \A t \in Thread : Holds(t) => StillThere(t)

\* Until then pin_count is exactly the number of owners: no pin is lost to an
\* operation that owns none, and none is left behind.
PinsAreOwned ==
    alive /\ ~stolen => \A f \in Frame :
        pins[f] = Cardinality({t \in Thread : Holds(t) /\ fr[t] = f})

\* No page sits in two frames, and the LRU list has exactly the frames in use,
\* each at one place; stolen pins or not.
OneFramePerPage ==
    /\ \A f, g \in Frame : page[f] = page[g] /\ page[f] # None => f = g
    /\ \A f \in Frame : page[f] # None <=> f \in Listed
    /\ lru \subseteq Listed \X Listed
    /\ \A f, g \in Listed : <<f, g>> \in lru \/ <<g, f>> \in lru
    /\ \A f, g \in Listed : <<f, g>> \in lru /\ <<g, f>> \in lru => f = g
    /\ \A f, g, h \in Listed : <<f, g>> \in lru /\ <<g, h>> \in lru => <<f, h>> \in lru

\* While the barrier stands nobody is about to own a pin, "a destructive barrier
\* cannot begin in the fetch-to-pin ownership gap", and nobody owns one unless
\* a pin has been stolen.
BarrierExcludesPins ==
    barrier => \A t \in Thread : ~InGap(t) /\ (~stolen => ~Holds(t))

\* Threads inside the lock of one page are all readers, and the holders of a
\* frame's rwlock are the threads inside it: the unlock by page number, which
\* looks the page up again, abandons no lock and releases nobody else's.
LocksProtectPages ==
    alive /\ ~stolen =>
        /\ \A t, u \in Thread :
              InLock(t) /\ InLock(u) /\ t # u /\ want[t] = want[u]
                  => mode[t] = "read" /\ mode[u] = "read"
        /\ \A f \in Frame, t \in Thread : HasLock(t, f) <=> InLock(t) /\ fr[t] = f

\* pager_try_close: "Returning false means the Pager is still alive because
\* explicit pin ownership or pin admission is active".  A closed pager has
\* neither, and no rollback is under way in it.  It may have a thread that is
\* sent back for another attempt of a pin, which the code counts nowhere and
\* which goes on to lock the pager_lock that is destroyed.
CloseLeavesNoOwner ==
    ~alive => \A t \in Thread : ~InGap(t) /\ ~Raised(t) /\ (~stolen => ~Holds(t))

\* What the comments promise, and the code does not keep: a frame that a thread
\* has pinned is not given to another page.
PinnedFrameKept == \A t \in Thread : Holds(t) => page[fr[t]] \in {want[t], None}

\* pager_pin_page_handle answers: 64 attempts at most.
PinAnswers ==
    \A t \in Thread : at[t] \in {"admitted", "fetched", "retry"}
                        ~> (at[t] \in {"pinned", "idle"} \/ ~alive)

\* A savepoint rollback under the barrier completes, or finds no savepoint of
\* that name, and lets pins in again.
BarrierLifted == barrier ~> (~barrier \/ ~alive)
=============================================================================
