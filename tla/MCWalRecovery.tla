--------------------------- MODULE MCWalRecovery ---------------------------
(***************************************************************************)
(* Opening a database replays the log of the pager (WalRecovery), then the *)
(* log of the catalog, and then settles an interrupted migration           *)
(* (Migration, to which a transaction of the pager is one step).  One run  *)
(* explores both, each behaviour one of them.  An image is named by the    *)
(* page count of the record that carries it and a letter, so that records  *)
(* can be told apart.                                                      *)
(***************************************************************************)
EXTENDS WalRecovery, Migration, TLC

CONSTANTS a, b, o

VARIABLE part   \* "log" or "migration"

Img(S, v) == [p \in Page |-> IF p \in S THEN v ELSE None]

Record(fmt, num, S, free, whole, v) ==
    [fmt |-> fmt, num |-> num, img |-> Img(S, v), free |-> free,
     whole |-> whole]

\* A record whose images all lie below its own page count; TornTail is the
\* only kind the code rejects that a killed pager_commit can leave.
Fits(num, S) == S \subseteq Below(num)

V2 == {Record("v2", n, S, <<>>, TRUE, v) :
          n \in 1 .. MaxPages, S \in SUBSET Page, v \in {a, b}}
V2Free == {Record("v2", n, S, <<1>>, TRUE, a) :
              n \in 2 .. MaxPages, S \in SUBSET Page}
V1 == {Record("v1", n, S, <<>>, TRUE, b) :
          n \in 1 .. MaxPages, S \in SUBSET Page}
Old == {Record("old", 0, S, <<>>, TRUE, b) : S \in SUBSET Page}
TornTail == Record("v2", MaxPages, {0}, <<>>, FALSE, a)

McRecords == {r \in V2 \cup V2Free \cup V1 : Fits(r.num, Written(r))}
             \cup Old \cup {TornTail}
McOriginals == {o}

MCInit ==
    \/ part = "log" /\ Init /\ main = Absent /\ MigrationInit
    \/ /\ part = "migration" /\ MigrationInit
       /\ log = <<>> /\ original = [len |-> 0, img |-> [p \in Page |-> Hole]] /\ Init

LogStep == part = "log" /\ Next /\ UNCHANGED <<part, migrationVars>>
MigrationStep == part = "migration" /\ MigrationNext /\ UNCHANGED <<part, vars>>

MCNext == LogStep \/ MigrationStep
MCSpec == MCInit /\ [][MCNext]_<<part, vars, migrationVars>>

\* After an I/O error that leaves the catalog file behind nothing is promised;
\* such a database is followed to the next open and no further.
Known == behind => step # "open"
=============================================================================
