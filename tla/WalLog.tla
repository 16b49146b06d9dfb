------------------------------- MODULE WalLog -------------------------------
(***************************************************************************)
(* The composed form of a write-ahead log: what replaying all its complete *)
(* records does to a database file.  Pager keeps its log in this form;     *)
(* WalRecovery shows that recover_wal, record by record and crash by       *)
(* crash, does just that.                                                  *)
(***************************************************************************)
EXTENDS Naturals, Sequences

CONSTANTS
    MaxPages,  \* bound on page numbers: pages are 0 .. MaxPages-1
    None,      \* no such copy of a page
    Hole       \* no page with a matching checksum is stored here

Page == 0 .. MaxPages - 1
Below(n) == 0 .. n - 1
Elements(s) == {s[i] : i \in DOMAIN s}
Nothing == [p \in Page |-> None]

NoWal == [num |-> 0, img |-> Nothing, free |-> <<>>, present |-> FALSE]

\* Where replaying log w leaves page p of file f.  Every record truncates or
\* extends the file to its own page count.
Replayed(f, w) ==
    [p \in Page |-> IF p >= w.num THEN Hole
                    ELSE IF w.img[p] # None THEN w.img[p] ELSE f[p]]

\* Fault: an older record's image of a page outlives the newer one's.
LoggedOldestWins(w, num, img, free) ==
    [num |-> num, free |-> free, present |-> TRUE,
     img |-> [p \in Page |-> IF p >= num THEN None
                             ELSE IF w.img[p] # None THEN w.img[p]
                             ELSE img[p]]]

\* Fault: a record that grows the file again uncovers what an older one cut.
LoggedWithoutHoles(w, num, img, free) ==
    [num |-> num, free |-> free, present |-> TRUE,
     img |-> [p \in Page |-> IF p >= num THEN None
                             ELSE IF img[p] # None THEN img[p]
                             ELSE w.img[p]]]

\* One more record after those of w: its images win, its page count and free
\* list replace theirs, and pages the older records had cut off are holes.
Logged(w, num, img, free) ==
    [num |-> num, free |-> free, present |-> TRUE,
     img |-> [p \in Page |->
                IF p >= num THEN None
                ELSE IF img[p] # None THEN img[p]
                ELSE IF w.present /\ p >= w.num THEN Hole
                ELSE w.img[p]]]

\* validate_free_page_list.
ValidFreeList(num, free) ==
    /\ Elements(free) \subseteq Below(num) \ {0}
    /\ \A i, j \in DOMAIN free : free[i] = free[j] => i = j
=============================================================================
