---------------------------- MODULE SchemaFiles ----------------------------
(***************************************************************************)
(* What the three files of module Migration hold: the trees of the         *)
(* database file, the catalog file and its log, the migration manifest.    *)
(***************************************************************************)
EXTENDS Integers, Sequences, FiniteSets, FiniteSetsExt, Functions, SequencesExt

CONSTANTS
    StagePages,   \* pages of a staged tree: two leaves and a root
    Absent,       \* an absent file, an absent plan
    Torn,         \* a file that begins as a catalog and does not decode
    Short         \* a file too short to tell what it is

----------------------------------------------------------------------------
(* Trees in the database file *)

\* kind says how leaves are laid out ("v1" fixed cells, "v2" slotted); exact,
\* that every separator is the largest key below it, as deletes need not leave
\* it; width, the VARCHAR storage that rows were encoded with; rows, a count
\* of the writes that reached the tree.
Tree(root, pages, kind, exact, width, rows) ==
    [root |-> root, pages |-> pages, kind |-> kind, exact |-> exact,
     width |-> width, rows |-> rows]

TreesAt(d, root) == {t \in d.trees : t.root = root}
TreeAt(d, root) == CHOOSE t \in TreesAt(d, root) : TRUE

\* Pages written anew take the place of whatever tree they carried.
Write(d, t) ==
    [d EXCEPT !.trees = {u \in @ : u.pages \cap t.pages = {}} \cup {t}]

\* get_unused_page_num, n times: free pages first, then the end of the file.
Claims(d, n) ==
    IF n <= Cardinality(d.free) THEN kSubset(n, d.free)
    ELSE {d.free \cup (d.num .. d.num + (n - Cardinality(d.free)) - 1)}

Claimed(d, pages) ==
    [d EXCEPT !.free = @ \ pages, !.num = Max({@} \cup {p + 1 : p \in pages})]

\* The walk over parent and child links that recovery trusts.
LiveTree(d, root) == \E t \in TreesAt(d, root) : t.pages \cap d.free = {}

LivePages(d, shape) == UNION {TreeAt(d, shape[i].root).pages : i \in DOMAIN shape}

LivePageMap(d, shape) ==
    /\ \A i \in DOMAIN shape : LiveTree(d, shape[i].root)
    /\ \A i, j \in DOMAIN shape : i < j =>
          TreeAt(d, shape[i].root).pages \cap TreeAt(d, shape[j].root).pages = {}

----------------------------------------------------------------------------
(* Catalog files *)

\* A V3 file carries ids and generations; a legacy one ("v2") does not.
CatalogFile(fmt, shape, ids, gens) ==
    [fmt |-> fmt, shape |-> shape, ids |-> ids, gens |-> gens]

Decodes(f) == f \notin {Absent, Torn, Short}
IsV3(f) == Decodes(f) /\ f.fmt = "v3"

First(n) == [i \in 1 .. n |-> 1]
Bootstrap(shape) ==
    CatalogFile("v3", shape, [i \in DOMAIN shape |-> i], First(Len(shape)))

\* Fault: a table whose columns changed under the same root keeps its generation.
DerivedByRootOnly(f, shape) ==
    LET old == DOMAIN f.shape
        new == Len(shape) - Len(f.shape)
        last == Max(ToSet(f.ids))
    IN  CatalogFile("v3", shape, f.ids \o [i \in 1 .. new |-> last + i],
           [i \in old |-> IF shape[i].root = f.shape[i].root
                          THEN f.gens[i] ELSE f.gens[i] + 1] \o First(new))

\* The next identities: a table whose root or physical schema changed goes one
\* generation further, a new one gets the next id and generation 1.
Derived(f, shape) ==
    LET old == DOMAIN f.shape
        new == Len(shape) - Len(f.shape)
        last == Max(ToSet(f.ids))
    IN  CatalogFile("v3", shape, f.ids \o [i \in 1 .. new |-> last + i],
           [i \in old |-> IF shape[i] = f.shape[i]
                          THEN f.gens[i] ELSE f.gens[i] + 1] \o First(new))

\* What a save can build on: the main file, of which only a legacy or missing
\* one starts the numbering; one with a V3 beginning has to decode.
CanDerive(f, shape) ==
    IF f = Torn THEN FALSE ELSE IsV3(f) => Len(shape) >= Len(f.shape)
NextFile(f, shape) == IF IsV3(f) THEN Derived(f, shape) ELSE Bootstrap(shape)

\* page_is_structural_root reads the page itself: a free page still has the
\* image of the root it was.
StructuralRoots(d, shape) == \A i \in DOMAIN shape : TreesAt(d, shape[i].root) # {}

DistinctRoots(shape) ==
    \A i, j \in DOMAIN shape : i < j => shape[i].root # shape[j].root

\* Without a sidecar the catalog holds the first table only.
Default == <<[root |-> 0, width |-> 0, columns |-> 0]>>

Shape(f) == IF f = Absent THEN Default ELSE f.shape
Generation(f, i) == IF IsV3(f) THEN f.gens[i] ELSE 1

Slots(f, id) == {i \in DOMAIN f.ids : f.ids[i] = id}

----------------------------------------------------------------------------
(* The manifest *)

Manifest(table, old, staged, gen, claims, phase) ==
    [table |-> table, old |-> old, staged |-> staged, gen |-> gen,
     claims |-> claims, phase |-> phase]

\* Fault: the phase decides, though the process may die before it is rewritten.
ClassifiedByPhase(m, root, gen) ==
    IF root = m.old /\ gen = m.gen /\ m.phase = "unpublished" THEN "reclaim staging"
    ELSE IF root = m.staged /\ gen = m.gen + 1 /\ m.phase = "published" THEN "reclaim old"
    ELSE "invalid"

\* gen is the old generation, of the manifest; the new one is the next.
Classified(m, root, gen) ==
    IF root = m.old /\ gen = m.gen /\ m.phase = "unpublished" THEN "reclaim staging"
    ELSE IF root = m.staged /\ gen = m.gen + 1 THEN "reclaim old"
    ELSE "invalid"

----------------------------------------------------------------------------
(* The values these files and a catalog in memory take *)

Entries == [root : Nat, width : Nat, columns : Nat]
Shapes == Seq(Entries)
CatalogFiles == [fmt : {"v2", "v3"}, shape : Shapes, ids : Seq(Nat), gens : Seq(Nat)]
Manifests == [table : Nat, old : Nat, staged : Nat, gen : Nat,
              claims : SUBSET Nat, phase : {"unpublished", "published"}]

ASSUME FilesAssumption ==
    /\ StagePages \in Nat \ {0}
    /\ Absent # Torn /\ Absent # Short /\ Torn # Short
    /\ \A f \in {Absent, Torn, Short} : f \notin CatalogFiles
    /\ Absent \notin Manifests /\ Absent \notin Shapes
=============================================================================
