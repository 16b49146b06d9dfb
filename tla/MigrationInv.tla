---------------------------- MODULE MigrationInv ----------------------------
(***************************************************************************)
(* The inductive invariant of Migration.  Everything in it is about a      *)
(* process that knows its catalog: it holds while ~behind.                 *)
(***************************************************************************)
EXTENDS Migration

Trees == [root : Nat, pages : SUBSET Nat, kind : {"v1", "v2"},
          exact : BOOLEAN, width : Nat, rows : Nat]

\* Trees never overlap, and lie outside the free list or were freed as a whole.
DiskOK(d) ==
    /\ d \in [num : Nat, free : SUBSET Nat, trees : SUBSET Trees]
    /\ d.free \subseteq 1 .. d.num - 1
    /\ \A t \in d.trees : t.root \in t.pages /\ t.pages \subseteq 0 .. d.num - 1
    /\ \A t, u \in d.trees : t.pages \cap u.pages # {} => t = u
    /\ \A t \in d.trees : t.pages \cap d.free = {} \/ t.pages \subseteq d.free

Alive(d) == {t \in d.trees : t.pages \cap d.free = {}}

\* A catalog whose tables are there, apart from each other, and complete.
Sound(d, shape) ==
    /\ shape \in Shapes /\ Len(shape) >= 1 /\ shape[1].root = 0
    /\ LivePageMap(d, shape)
    /\ \A i \in DOMAIN shape : TreeAt(d, shape[i].root).width = shape[i].width

Complete(d, shape, rows, over) ==
    /\ Len(shape) <= Len(rows)
    /\ \A i \in DOMAIN shape :
          i \in over \/ TreeAt(d, shape[i].root).rows = rows[i]

Intact(shape) == Sound(disk, shape) /\ Complete(disk, shape, stored, overtaken)

Extends(c, s) == Len(s) <= Len(c) /\ \A i \in DOMAIN s : c[i] = s[i]

FileOK(f) ==
    /\ f \in CatalogFiles /\ Len(f.shape) >= 1
    /\ f.fmt = "v3" =>
          /\ Len(f.ids) = Len(f.shape) /\ Len(f.gens) = Len(f.shape)
          /\ \A i \in 1 .. Len(f.shape) : f.ids[i] = i /\ f.gens[i] >= 1

\* The generations that a save would start from.
GensOf(f, shape) ==
    [i \in DOMAIN shape |-> IF i \in DOMAIN Shape(f) THEN Generation(f, i) ELSE 1]

\* What a manifest says, against a catalog and its generations: its old tree is
\* no other table's; while the table is in the generation of the manifest its
\* staged tree is nobody's; one generation on, the root is still one of the two.
StagedTree(d, m) == \E t \in d.trees : t.root = m.staged /\ t.pages = m.claims

Decidable(d, m, shape, g) ==
    /\ \A j \in DOMAIN shape : j # m.table => shape[j].root # m.old
    /\ m.table \in DOMAIN shape =>
         /\ g[m.table] >= m.gen
         /\ g[m.table] = m.gen =>
              /\ shape[m.table].root = m.old /\ m.phase = "unpublished"
              /\ m.claims \cap LivePages(d, shape) = {}
              /\ StagedTree(d, m)
         /\ g[m.table] = m.gen + 1 => shape[m.table].root \in {m.old, m.staged}

ManifestOK(d, m) ==
    /\ m \in Manifests
    /\ m.claims \subseteq 1 .. d.num - 1 /\ m.staged \in m.claims
    /\ m.old \in 1 .. d.num - 1 /\ m.old \notin m.claims

\* While statements run nothing of a manifest has been freed.
Kept(d, m, shape) ==
    /\ m.old \notin d.free /\ m.claims \cap d.free = {}
    /\ m.table \in DOMAIN shape

Bound(d, m, shape, g) ==
    ManifestOK(d, m) /\ Kept(d, m, shape) /\ Decidable(d, m, shape, g)

Pending == {manifest, durable} \ {Absent}

\* The rows of the copy, as long as it can be published.
Copied(d, m, g, rows, over) ==
    g[m.table] = m.gen =>
       \A t \in d.trees : t.root = m.staged =>
          m.table \in over \/ t.rows = rows[m.table]

----------------------------------------------------------------------------

Saving == {"write log", "write main", "remove log"}
Marking == {"write manifest", "sync manifest"}
Running == {"open", "save"} \cup Saving \cup Marking
Opening == {"check manifest", "reclaim", "unlink", "sync unlink"}

\* The catalog that lasts, with tables that were created but not saved.
Base == CASE step \in {"open"} \cup Marking -> catalog
          [] step = "save" -> work
          [] step = "write log" -> work.undo
          [] OTHER -> work.file.shape

FilesInv ==
    /\ main \in {Absent, Torn, Short} \/ FileOK(main)
    /\ wal \in {Absent, Torn} \/ (FileOK(wal) /\ Committed(wal))
    /\ Lasting \notin {Torn, Short}
    /\ manifest = Absent => durable = Absent \/ step = "sync unlink"
    /\ stored \in Seq(Nat)

AtRest ==
    /\ Intact(Shape(Lasting))
    /\ \A m \in Pending :
          /\ ManifestOK(disk, m)
          /\ Decidable(disk, m, Shape(Lasting), GensOf(Lasting, Shape(Lasting)))

NotAhead ==
    IsV3(main) => /\ IsV3(Lasting) /\ Len(main.shape) <= Len(Lasting.shape)
                  /\ \A i \in DOMAIN main.shape : main.gens[i] <= Lasting.gens[i]

PreparedInv ==
    prepared # Absent /\ step \notin Marking =>
       /\ manifest = prepared /\ durable = prepared
       /\ prepared.phase = "unpublished"
       /\ Copied(disk, prepared, GensOf(Lasting, Base), stored, overtaken)

InUse ==
    /\ Extends(Base, Shape(Lasting))
    /\ Intact(Base)
    /\ \A m \in Pending : Bound(disk, m, Base, GensOf(Lasting, Base))
    /\ NotAhead
    /\ PreparedInv

SaveInv ==
    /\ Len(work) <= Len(catalog)
    /\ \A i \in DOMAIN work : catalog[i].root = work[i].root
    /\ Intact(catalog)
    /\ \A m \in Pending : Bound(disk, m, catalog, GensOf(Lasting, catalog))
    /\ prepared # Absent =>
          Copied(disk, prepared, GensOf(Lasting, catalog), stored, overtaken)

\* The step that a save makes in the generations.
Advance(f, g) ==
    IsV3(f) =>
       /\ Len(f.shape) <= Len(g.shape)
       /\ \A i \in DOMAIN f.ids :
             /\ g.ids[i] = f.ids[i]
             /\ g.gens[i] = IF g.shape[i] = f.shape[i] THEN f.gens[i]
                            ELSE f.gens[i] + 1

PlanOK ==
    /\ FileOK(work.file) /\ work.file.fmt = "v3"
    /\ work.next \in {"open", "mark"}
    /\ work.next = "mark" =>
          /\ prepared # Absent
          /\ prepared.table \in DOMAIN work.file.shape
          /\ work.file.shape[prepared.table].root = prepared.staged
          /\ work.file.gens[prepared.table] = prepared.gen + 1

WriteLogInv ==
    /\ main = Lasting
    /\ Advance(Lasting, work.file)
    /\ Intact(work.file.shape)
    /\ \A m \in Pending : Bound(disk, m, work.file.shape, work.file.gens)
    /\ prepared # Absent =>
          Copied(disk, prepared, work.file.gens, stored, overtaken)

MarkInv ==
    /\ Bound(disk, work, catalog, GensOf(Lasting, catalog))
    /\ work.phase = "unpublished" =>
          /\ prepared = Absent
          /\ Copied(disk, work, GensOf(Lasting, catalog), stored, overtaken)
    /\ step = "write manifest" /\ work.phase = "published" =>
          /\ prepared # Absent /\ manifest = prepared /\ durable = prepared
          /\ work = [prepared EXCEPT !.phase = "published"]
    /\ step = "sync manifest" => manifest = work

StepInv ==
    /\ step \in {"closed", "refused", "copy log", "drop log", "load"}
                \cup Opening \cup Running
    /\ step \notin Running => AtRest /\ prepared = Absent
    /\ step \in Running => InUse
    /\ step = "refused" => OpenRefusedForCauseOnly
    /\ step \in {"copy log", "drop log"} => Decodes(wal)
    /\ step = "drop log" => main = wal
    /\ step = "load" => wal = Absent
    /\ step \in Opening => wal = Absent /\ catalog = Shape(main)
    /\ step \in {"check manifest", "reclaim"} => manifest # Absent
    /\ step = "reclaim" => Preflight(manifest)
    /\ step = "sync unlink" => manifest = Absent
    /\ step = "save" => SaveInv
    /\ step \in Saving => PlanOK
    /\ step = "write log" => WriteLogInv
    /\ step \in {"write main", "remove log"} => wal = work.file
    /\ step = "remove log" => main = work.file
    /\ step \in Marking => MarkInv

Inv == behind \in BOOLEAN /\ (~behind => DiskOK(disk) /\ FilesInv /\ StepInv)
----------------------------------------------------------------------------
(* Pages *)

SameTrees(s, c) ==
    /\ DOMAIN s = DOMAIN c /\ Len(s) = Len(c)
    /\ \A i \in DOMAIN c : s[i].root = c[i].root

Roots(shape) == {shape[i].root : i \in DOMAIN shape}

\* The catalog in memory has no tree that neither the catalog that is to last
\* nor a manifest knows; what a failed save goes back to has the same trees.
NamesInv ==
    /\ step \in {"closed", "refused", "copy log", "drop log", "load"} => catalog = Absent
    /\ step = "save" => SameTrees(work, catalog)
    /\ step = "write log" => SameTrees(work.undo, catalog)
    /\ step \in Saving =>
          Roots(catalog) \subseteq Roots(work.file.shape) \cup {m.old : m \in Pending}

LossInv == Inv /\ (~behind => NamesInv)
=============================================================================
