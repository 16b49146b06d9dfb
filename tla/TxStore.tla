------------------------------ MODULE TxStore ------------------------------
(***************************************************************************)
(* What the storage engine promises to the layers above the pager: a       *)
(* transactional page store.  `committed` is what a reopened database      *)
(* holds, `working` what the running session reads; both map the pages in  *)
(* use to their contents.  A page outside the domain is not in use.        *)
(*                                                                         *)
(* Nothing here knows of frames, spills, shadows, the WAL, the free list   *)
(* or the sidecar files: module Pager implements this one.                 *)
(***************************************************************************)
EXTENDS Sequences, Naturals

CONSTANTS
    Page,    \* page numbers
    Datum,   \* page images the layers above write
    Name     \* savepoint names

VARIABLES
    committed,   \* page -> image, survives a crash
    working,     \* page -> image, what get_page shows the session
    inTxn,       \* between BEGIN and COMMIT or ROLLBACK
    marks,       \* savepoints, oldest first: [name, store]
    committing   \* a COMMIT or a CREATE TABLE has been asked for, not answered

vars == <<committed, working, inTxn, marks, committing>>

Store == UNION {[S -> Datum] : S \in SUBSET Page}

Drop(store, S) == [p \in DOMAIN store \ S |-> store[p]]

Init ==
    /\ committed \in Store
    /\ working = committed
    /\ inTxn = FALSE
    /\ marks = <<>>
    /\ committing = FALSE

Claim(p, d) ==
    /\ p \notin DOMAIN working
    /\ working' = [q \in DOMAIN working \cup {p} |->
                     IF q = p THEN d ELSE working[q]]
    /\ UNCHANGED <<committed, inTxn, marks, committing>>

Write(p, d) ==
    /\ p \in DOMAIN working
    /\ working' = [working EXCEPT ![p] = d]
    /\ UNCHANGED <<committed, inTxn, marks, committing>>

Free(p) ==
    /\ p \in DOMAIN working
    /\ working' = Drop(working, {p})
    /\ UNCHANGED <<committed, inTxn, marks, committing>>

\* Every page but r is dropped and r rewritten.
Truncate(r, d) ==
    /\ r \in DOMAIN working
    /\ working' = [p \in {r} |-> d]
    /\ UNCHANGED <<committed, inTxn, marks, committing>>

Begin ==
    /\ ~inTxn
    /\ working = committed
    /\ inTxn' = TRUE
    /\ marks' = <<>>
    /\ UNCHANGED <<committed, working, committing>>

Savepoint(n) ==
    /\ inTxn
    /\ marks' = Append(marks, [name |-> n, store |-> working])
    /\ UNCHANGED <<committed, working, inTxn, committing>>

\* The newest savepoint of that name wins.
NewestMark(n, i) ==
    /\ i \in DOMAIN marks
    /\ marks[i].name = n
    /\ \A j \in DOMAIN marks : j > i => marks[j].name # n

RollbackTo(n) ==
    \E i \in DOMAIN marks :
        /\ NewestMark(n, i)
        /\ working' = marks[i].store
        /\ marks' = SubSeq(marks, 1, i)
        /\ UNCHANGED <<committed, inTxn, committing>>

Release(n) ==
    \E i \in DOMAIN marks :
        /\ NewestMark(n, i)
        /\ marks' = SubSeq(marks, 1, i - 1)
        /\ UNCHANGED <<committed, working, inTxn, committing>>

Rollback ==
    /\ inTxn
    /\ working' = committed
    /\ inTxn' = FALSE
    /\ marks' = <<>>
    /\ UNCHANGED <<committed, committing>>

StartCommit ==
    /\ ~committing
    /\ committing' = TRUE
    /\ UNCHANGED <<committed, working, inTxn, marks>>

Durable ==
    /\ committing
    /\ committed' = working
    /\ inTxn' = FALSE
    /\ marks' = <<>>
    /\ committing' = FALSE
    /\ UNCHANGED working

\* An unanswered commit is all or nothing; everything uncommitted is gone.
Crash ==
    /\ \/ committed' = committed
       \/ committing /\ committed' = working
    /\ working' = committed'
    /\ inTxn' = FALSE
    /\ marks' = <<>>
    /\ committing' = FALSE

Next ==
    \/ \E p \in Page, d \in Datum :
          Claim(p, d) \/ Write(p, d) \/ Truncate(p, d)
    \/ \E p \in Page : Free(p)
    \/ Begin \/ Rollback \/ StartCommit \/ Durable \/ Crash
    \/ \E n \in Name : Savepoint(n) \/ RollbackTo(n) \/ Release(n)

Spec == Init /\ [][Next]_vars
=============================================================================
