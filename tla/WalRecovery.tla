---------------------------- MODULE WalRecovery ----------------------------
(***************************************************************************)
(* recover_wal, record by record.  The log holds transactions in one of    *)
(* three formats: "v2" carries the page count and the free list, "v1" the  *)
(* page count, "old" neither.  Recovery applies them in order up to the    *)
(* first incomplete or implausible one, syncs the database file, publishes *)
(* the last free list, and deletes the log.  A crash may undo or tear any  *)
(* page written since the last sync; recovery then starts over with the    *)
(* same log.                                                               *)
(***************************************************************************)
EXTENDS WalLog

CONSTANTS
    Records,     \* the records a log may hold
    MaxRecords,  \* bound on the length of the log
    Originals    \* the images the database file may hold before recovery

ASSUME RecoveryAssumption ==
    /\ MaxPages \in Nat /\ MaxRecords \in Nat
    /\ \A r \in Records : r.num \in Nat
    /\ None # Hole

VARIABLES
    log,       \* the records of the .wal file
    exists,    \* the .wal file exists
    original,  \* ghost: the database file before the first recovery
    synced,    \* the database file as of the last sync: [len, img]
    file,      \* the database file as written since: [len, img]
    pos,       \* next record to read; 0 when recover_wal is not running
    listed,    \* recovered_num_pages, recovered_free_pages, ..._state
    sidecar    \* .free: [num, free, known]

vars == <<log, exists, original, synced, file, pos, listed, sidecar>>

NoList == [num |-> 0, free |-> <<>>, known |-> FALSE]

Structured(r) == r.fmt \in {"v1", "v2"}
Written(r) == {p \in Page : r.img[p] # None}

\* The checks that make recover_wal stop at a record: a torn tail, a legacy
\* count of zero, a page beyond the record's own page count, a bad free list.
Acceptable(r) ==
    /\ r.whole
    /\ r.fmt = "old" => Written(r) # {}
    /\ Structured(r) => Written(r) \subseteq Below(r.num)
    /\ r.fmt = "v2" => ValidFreeList(r.num, r.free)

\* Fault: the file is never cut.
AppliedWithoutCut(f, r) ==
    LET ends == {p + 1 : p \in Written(r)} \cup {f.len, r.num}
        len == CHOOSE n \in ends : \A m \in ends : m <= n
    IN  [len |-> len,
         img |-> [p \in Page |-> IF p >= len THEN Hole
                                 ELSE IF r.img[p] # None THEN r.img[p]
                                 ELSE f.img[p]]]

\* Write the images, growing the file over holes, then truncate or extend.
Applied(f, r) ==
    LET grown == {p + 1 : p \in Written(r)} \cup {f.len}
        len == IF Structured(r) THEN r.num
               ELSE CHOOSE n \in grown : \A m \in grown : m <= n
    IN  [len |-> len,
         img |-> [p \in Page |-> IF p >= len THEN Hole
                                 ELSE IF r.img[p] # None THEN r.img[p]
                                 ELSE f.img[p]]]

Reading == pos > 0 /\ pos <= Len(log) /\ Acceptable(log[pos])

Start ==
    /\ exists /\ pos = 0
    /\ pos' = 1
    /\ listed' = NoList
    /\ UNCHANGED <<log, exists, original, synced, file, sidecar>>

\* Fault: the first record's free list is the one kept.
ReplayFirstList ==
    /\ Reading
    /\ file' = Applied(file, log[pos])
    /\ listed' = IF log[pos].fmt = "v2" /\ ~listed.known
                 THEN [num |-> log[pos].num, free |-> log[pos].free,
                       known |-> TRUE]
                 ELSE listed
    /\ pos' = pos + 1
    /\ UNCHANGED <<log, exists, original, synced, sidecar>>

ReplayRecord ==
    /\ Reading
    /\ file' = Applied(file, log[pos])
    /\ listed' = IF log[pos].fmt = "v2"
                 THEN [num |-> log[pos].num, free |-> log[pos].free,
                       known |-> TRUE]
                 ELSE listed
    /\ pos' = pos + 1
    /\ UNCHANGED <<log, exists, original, synced, sidecar>>

\* sync_file, then persist_free_list_snapshot if a v2 record was replayed.
\* A crash between the two is a crash after a first Finish that listed nothing.
SyncFile ==
    /\ pos > 0 /\ ~Reading
    /\ synced # file
    /\ synced' = file
    /\ UNCHANGED <<log, exists, original, file, pos, listed, sidecar>>

\* Fault: the sidecar is published before the file is synced.
PublishBeforeSync ==
    /\ pos > 0 /\ ~Reading
    /\ listed.known /\ sidecar # listed
    /\ sidecar' = listed
    /\ UNCHANGED <<log, exists, original, synced, file, pos, listed>>

PublishFreeList ==
    /\ pos > 0 /\ ~Reading
    /\ synced = file
    /\ listed.known /\ sidecar # listed
    /\ sidecar' = listed
    /\ UNCHANGED <<log, exists, original, synced, file, pos, listed>>

RemoveLog ==
    /\ pos > 0 /\ ~Reading
    /\ synced = file
    /\ listed.known => sidecar = listed
    /\ exists' = FALSE
    /\ pos' = 0
    /\ UNCHANGED <<log, original, synced, file, listed, sidecar>>

\* Pages written since the sync may be old, new or torn, and the file may be cut
\* off or grown only in part.
Crash ==
    /\ pos > 0
    /\ \E len \in (synced.len .. file.len) \cup (file.len .. synced.len) :
       \E lost \in SUBSET {p \in Page : synced.img[p] # file.img[p]} :
       \E torn \in SUBSET lost :
          LET f == [len |-> len,
                    img |-> [p \in Page |->
                               IF p >= len \/ p \in torn THEN Hole
                               ELSE IF p \in lost THEN synced.img[p]
                               ELSE file.img[p]]]
          IN synced' = f /\ file' = f
    /\ pos' = 0
    /\ listed' = NoList
    /\ UNCHANGED <<log, exists, original, sidecar>>

Init ==
    /\ log \in UNION {[1 .. n -> Records] : n \in 0 .. MaxRecords}
    /\ exists = TRUE
    /\ original \in [len : 0 .. MaxPages, img : [Page -> Originals \cup {Hole}]]
    /\ \A p \in Page : original.img[p] = Hole <=> p >= original.len
    /\ synced = original
    /\ file = original
    /\ pos = 0
    /\ listed = NoList
    /\ sidecar = NoList

Next ==
    \/ Start \/ ReplayRecord \/ SyncFile \/ PublishFreeList \/ RemoveLog
    \/ Crash

Spec == Init /\ [][Next]_vars

----------------------------------------------------------------------------
(* Reference definition, page by page, without replaying anything *)

\* The records before the first one that recovery rejects.
Accepted == {i \in DOMAIN log : \A j \in 1 .. i : Acceptable(log[j])}

Latest(S) == CHOOSE i \in S : \A j \in S : j <= i

\* The records that decide the fate of page p: those that write it and those
\* that cut it off.
Deciding(p) ==
    {i \in Accepted : log[i].img[p] # None
                      \/ (Structured(log[i]) /\ p >= log[i].num)}

ExpectedLen ==
    LET sized == {i \in Accepted : Structured(log[i])}
        from == IF sized = {} THEN 0 ELSE Latest(sized)
        base == IF sized = {} THEN original.len ELSE log[from].num
        later == {p \in Page : \E i \in Accepted : i > from /\
                                                   log[i].img[p] # None}
        ends == {base} \cup {p + 1 : p \in later}
    IN  Latest(ends)

ExpectedPage(p) ==
    IF p >= ExpectedLen THEN Hole
    ELSE IF Deciding(p) = {} THEN original.img[p]
    ELSE LET r == log[Latest(Deciding(p))]
         IN  IF r.img[p] # None THEN r.img[p] ELSE Hole

ExpectedList ==
    LET lists == {i \in Accepted : log[i].fmt = "v2"}
    IN  IF lists = {} THEN NoList
        ELSE [num |-> log[Latest(lists)].num, free |-> log[Latest(lists)].free,
              known |-> TRUE]

----------------------------------------------------------------------------
(* Properties *)

\* When recovery has deleted the log, every page of the synced file is what
\* its last complete writer put there, however many crashes interrupted
\* recovery and whatever they tore (recover_wal).
RecoveryIsIdempotent ==
    ~exists => /\ synced = file
               /\ file.len = ExpectedLen
               /\ \A p \in Page : file.img[p] = ExpectedPage(p)

\* The published free list is the last record's, never that of a record
\* behind a torn one.
FreeListMatchesLog ==
    /\ sidecar.known => sidecar = ExpectedList
    /\ ~exists /\ ExpectedList.known => sidecar = ExpectedList

\* A free list is published only over a synced file that it describes, and
\* the log is deleted only after both.
PublishedAfterSync ==
    [][sidecar' # sidecar \/ exists' # exists
         => /\ synced.len = ExpectedLen
            /\ \A p \in Page : synced.img[p] = ExpectedPage(p)]_vars

\* The log composed as module Pager keeps it: its first n records as one.
Composed[n \in Nat] ==
    IF n = 0 THEN NoWal
    ELSE Logged(Composed[n - 1], log[n].num, log[n].img, log[n].free)

\* Replaying the composed log over the original file gives the file that
\* recovery leaves, and the composed free list is the one published.
ComposedLogAgrees ==
    ~exists /\ Accepted # {} /\ (\A i \in Accepted : log[i].fmt = "v2")
        => LET w == Composed[Latest(Accepted)]
           IN  /\ file.len = w.num
               /\ file.img = Replayed(original.img, w)
               /\ sidecar.free = w.free
=============================================================================
