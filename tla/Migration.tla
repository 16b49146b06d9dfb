----------------------------- MODULE Migration -----------------------------
(***************************************************************************)
(* Schema changes and the repacking of a table into a new tree, with the   *)
(* three files they keep: the database, the catalog sidecar (.schema with  *)
(* its log .schema.wal) and the migration manifest.  A repack goes through *)
(*   durable tree -> manifest -> catalog -> phase in the manifest          *)
(* and tinydb_open finishes or undoes it.  The process may die at any step.*)
(*                                                                         *)
(* A transaction of the pager is one step here: module Pager shows that it *)
(* is atomic.  A file is written in place unless it is renamed into place. *)
(* Names that WalRecovery has too say which component they are of: one run *)
(* explores both.                                                          *)
(***************************************************************************)
EXTENDS SchemaFiles

CONSTANTS
    MaxDiskPages, \* bound on the database file
    MaxTables, MaxRows, MaxWidth, MaxColumns   \* bounds on what statements do

VARIABLES
    disk,      \* database file: [num, free, trees]
    main,      \* .schema: Absent, Torn, Short or a catalog file
    wal,       \* .schema.wal: Absent, Torn or a catalog file
    manifest,  \* the manifest under its name, or Absent
    durable,   \* the manifest as of the last fsync of the directory
    step,      \* what the process is about to do; "closed" without one
    catalog,   \* table->catalog: a sequence of [root, width, columns]
    work,      \* what the step works on: a catalog file or a manifest
    prepared,  \* the result of a prepared migration, or Absent
    stored,    \* ghost: rows that each table is known to hold
    overtaken, \* ghost: tables written since their rows were staged
    behind     \* ghost: a save began while .schema was not the catalog

files == <<main, wal>>
handle == <<catalog, prepared>>
ghosts == <<stored, overtaken, behind>>
migrationVars == <<disk, main, wal, manifest, durable, step, catalog, work,
                   prepared, stored, overtaken, behind>>

----------------------------------------------------------------------------
(* The catalog that counts *)

\* Within the bound on the file.
Room(d, n) == n <= Cardinality(d.free) + (MaxDiskPages - d.num)

\* The log that the next open adopts, and the catalog it works with.
Committed(w) == Decodes(w) /\ StructuralRoots(disk, w.shape)
Lasting == IF Committed(wal) THEN wal ELSE main

\* load_authoritative_generation reads the main file, never the log.
Authoritative == IF IsV3(main) THEN main ELSE Bootstrap(catalog)
AuthoritativeReadable == IF main = Torn THEN FALSE ELSE IsV3(main) => main.shape = catalog

\* The table of the manifest as the catalog just loaded has it.
Recovery ==
    LET f == Authoritative IN
    IF Slots(f, manifest.table) = {} THEN "invalid"
    ELSE LET i == CHOOSE s \in Slots(f, manifest.table) : TRUE
         IN  Classified(manifest, f.shape[i].root, f.gens[i])

OldTreeGone(m) == m.old \in disk.free
OldTree(m) == TreeAt(disk, m.old)

\* Every page that recovery may free lies outside every live tree.
Preflight(m) ==
    /\ LivePageMap(disk, catalog)
    /\ \/ /\ Recovery = "reclaim staging"
          /\ m.claims \cap LivePages(disk, catalog) = {}
       \/ /\ Recovery = "reclaim old"
          /\ m.old \notin LivePages(disk, catalog)
          /\ OldTreeGone(m) \/ /\ LiveTree(disk, m.old)
                               /\ OldTree(m).pages \cap LivePages(disk, catalog) = {}

\* The walk that collects an old tree knows fixed cells only, and wants every
\* separator to be the largest key of its child.
Collectable(m) == LiveTree(disk, m.old) /\ OldTree(m).kind = "v1" /\ OldTree(m).exact

Reclaimable(m) ==
    \/ Recovery = "reclaim staging" /\ m.claims \subseteq 1 .. disk.num - 1
    \/ Recovery = "reclaim old" /\ (OldTreeGone(m) \/ Collectable(m))

Reclaimed(m) ==
    IF Recovery = "reclaim staging" THEN m.claims
    ELSE IF OldTreeGone(m) THEN {} ELSE OldTree(m).pages

----------------------------------------------------------------------------
(* Opening: the catalog log, the catalog, the manifest *)

\* A log that is cut off, or names a root that is none, is dropped.
ReadLog ==
    /\ step \in {"closed", "refused"}
    /\ \/ Committed(wal) /\ step' = "copy log" /\ UNCHANGED wal
       \/ ~Committed(wal) /\ step' = "load" /\ wal' = Absent
    /\ UNCHANGED <<disk, main, manifest, durable, handle, work, ghosts>>

CopyLog ==
    /\ step = "copy log"
    /\ main' = wal
    /\ step' = "drop log"
    /\ UNCHANGED <<disk, wal, manifest, durable, handle, work, ghosts>>

DropLog ==
    /\ step = "drop log"
    /\ wal' = Absent
    /\ step' = "load"
    /\ UNCHANGED <<disk, main, manifest, durable, handle, work, ghosts>>

Refuse ==
    /\ step' = "refused"
    /\ catalog' = Absent
    /\ UNCHANGED <<disk, files, manifest, durable, work, prepared, ghosts>>

Loadable ==
    /\ main \notin {Torn, Short}
    /\ StructuralRoots(disk, Shape(main)) /\ DistinctRoots(Shape(main))

Load ==
    /\ step = "load" /\ Loadable
    /\ catalog' = Shape(main)
    /\ step' = IF manifest = Absent THEN "open" ELSE "check manifest"
    /\ UNCHANGED <<disk, files, manifest, durable, work, prepared, ghosts>>

LoadRefused == step = "load" /\ ~Loadable /\ Refuse

\* Fault: the manifest goes before what it stands for has been done.
UnlinkFirst ==
    /\ step = "check manifest" /\ Preflight(manifest)
    /\ manifest' = Absent /\ durable' = Absent
    /\ step' = "open"
    /\ UNCHANGED <<disk, files, handle, work, ghosts>>

CheckManifest ==
    /\ step = "check manifest" /\ Preflight(manifest)
    /\ step' = "reclaim"
    /\ UNCHANGED <<disk, files, manifest, durable, handle, work, ghosts>>

ManifestRefused == step = "check manifest" /\ ~Preflight(manifest) /\ Refuse

\* The pages go to the free list in one transaction, checkpointed at once.
Reclaim ==
    /\ step = "reclaim" /\ Reclaimable(manifest)
    /\ disk' = [disk EXCEPT !.free = @ \cup Reclaimed(manifest)]
    /\ step' = "unlink"
    /\ UNCHANGED <<files, manifest, durable, handle, work, ghosts>>

ReclaimRefused == step = "reclaim" /\ ~Reclaimable(manifest) /\ Refuse

Unlink ==
    /\ step = "unlink"
    /\ manifest' = Absent
    /\ step' = "sync unlink"
    /\ UNCHANGED <<disk, files, durable, handle, work, ghosts>>

\* ... and walk over the live trees once more, now that pages were freed.
SyncUnlink ==
    /\ step = "sync unlink"
    /\ durable' = manifest
    /\ step' = IF LivePageMap(disk, catalog) THEN "open" ELSE "refused"
    /\ UNCHANGED <<disk, files, manifest, handle, work, ghosts>>

----------------------------------------------------------------------------
(* Statements *)

SumSeq(s) == FoldFunction(+, 0, s)

\* The tables that have a staged copy nobody works from yet.
Staged(i) == \E m \in {manifest, prepared} \ {Absent} : m.old = catalog[i].root

Rows(i, t, exact, pages) ==
    /\ step = "open" /\ SumSeq(stored) < MaxRows
    /\ disk' = Write(Claimed(disk, pages),
                     [t EXCEPT !.rows = @ + 1, !.exact = exact,
                               !.pages = @ \cup pages])
    /\ stored' = [stored EXCEPT ![i] = @ + 1]
    /\ overtaken' = IF Staged(i) THEN overtaken \cup {i} ELSE overtaken
    /\ UNCHANGED <<files, manifest, durable, step, handle, work, behind>>

Insert(i) ==
    LET t == TreeAt(disk, catalog[i].root) IN
    \E n \in {0, 1} :
       /\ n = 1 => Cardinality(t.pages) < StagePages /\ Room(disk, 1)
       /\ \E pages \in Claims(disk, n) : Rows(i, t, t.exact, pages)

\* A delete from a tree of fixed cells may leave a separator above its rows.
Delete(i) ==
    LET t == TreeAt(disk, catalog[i].root) IN
    /\ t.kind = "v1" /\ Cardinality(t.pages) > 1
    /\ Rows(i, t, FALSE, {})

CreateTable ==
    /\ step = "open" /\ Len(catalog) < MaxTables /\ Room(disk, 1)
    /\ \E pages \in Claims(disk, 1) :
          LET root == Max(pages) IN
          /\ disk' = Write(Claimed(disk, pages), Tree(root, pages, "v1", TRUE, 0, 0))
          /\ catalog' = Append(catalog, [root |-> root, width |-> 0, columns |-> 0])
    /\ stored' = Append(SubSeq(stored, 1, Len(catalog)), 0)
    /\ step' = "save"
    /\ work' = catalog'
    /\ UNCHANGED <<files, manifest, durable, prepared, overtaken, behind>>

\* ADD COLUMN, not to the first table; a root leaf may become a slotted one,
\* which the old schema reads as well.  work is the catalog to fall back to.
AlterTable(i) ==
    /\ step = "open" /\ i # 1
    /\ SumSeq([j \in DOMAIN catalog |-> catalog[j].columns]) < MaxColumns
    /\ \E kind \in {"v1", "v2"} :
          LET t == TreeAt(disk, catalog[i].root) IN
          /\ kind = t.kind \/ (kind = "v2" /\ Cardinality(t.pages) = 1)
          /\ disk' = Write(disk, [t EXCEPT !.kind = kind])
    /\ catalog' = [catalog EXCEPT ![i].columns = @ + 1]
    /\ step' = "save"
    /\ work' = catalog
    /\ UNCHANGED <<files, manifest, durable, prepared, ghosts>>

----------------------------------------------------------------------------
(* Saving the catalog: the log first, which commits, then the main file *)

Plan(file, undo, next) == [file |-> file, undo |-> undo, next |-> next]

BeginSave ==
    /\ step = "save" /\ CanDerive(main, catalog)
    /\ work' = Plan(NextFile(main, catalog), work, "open")
    /\ step' = "write log"
    /\ behind' = (behind \/ main # Lasting)
    /\ UNCHANGED <<disk, files, manifest, durable, handle, stored, overtaken>>

SaveRefused ==
    /\ step = "save" /\ ~CanDerive(main, catalog)
    /\ catalog' = work
    /\ step' = "open" /\ work' = Absent
    /\ UNCHANGED <<disk, files, manifest, durable, prepared, ghosts>>

\* Fault: the main file is written without a log.
WriteMainOnly ==
    /\ step = "write log"
    /\ step' = "write main"
    /\ UNCHANGED <<disk, files, manifest, durable, handle, work, ghosts>>

WriteLog ==
    /\ step = "write log"
    /\ wal' = work.file
    /\ step' = "write main"
    /\ UNCHANGED <<disk, main, manifest, durable, handle, work, ghosts>>

\* An I/O error; the log may be whole all the same.
WriteLogFails ==
    /\ step = "write log"
    /\ wal' \in {Torn, work.file}
    /\ behind' = (behind \/ wal' # Torn)
    /\ catalog' = work.undo
    /\ step' = "open" /\ work' = Absent
    /\ UNCHANGED <<disk, main, manifest, durable, prepared, stored, overtaken>>

\* The catalog is published: the migration goes on to mark its manifest.
Published ==
    /\ step' = IF work.next = "mark" THEN "write manifest" ELSE "open"
    /\ catalog' = work.file.shape
    /\ work' = IF work.next = "mark" THEN [prepared EXCEPT !.phase = "published"]
               ELSE Absent
    /\ UNCHANGED <<disk, manifest, durable, prepared, ghosts>>

WriteMain ==
    /\ step = "write main"
    /\ main' = work.file
    /\ step' = "remove log"
    /\ UNCHANGED <<disk, wal, manifest, durable, handle, work, ghosts>>

\* An I/O error here is no failure: the log has committed.
WriteMainFails ==
    /\ step = "write main"
    /\ main' \in {main, Torn, Short}
    /\ Published
    /\ UNCHANGED wal

\* A log that cannot be removed says what the main file says.
RemoveCatalogLog ==
    /\ step = "remove log"
    /\ wal' \in {Absent, wal}
    /\ Published
    /\ UNCHANGED main

----------------------------------------------------------------------------
(* Repacking a table *)

\* Every row of the old leaves, widened, in a tree built bottom-up over pages
\* claimed for it and for nothing else.
StagedCopy(t, pages) == Tree(Max(pages), pages, "v2", TRUE, t.width + 1, t.rows)

\* The copy becomes durable before anything names it.
Stage(i) ==
    LET t == TreeAt(disk, catalog[i].root) IN
    /\ step = "open" /\ AuthoritativeReadable
    /\ t.root # 0 /\ catalog[i].width < MaxWidth /\ Room(disk, StagePages)
    /\ \E pages \in Claims(disk, StagePages) :
          /\ disk' = Write(Claimed(disk, pages), StagedCopy(t, pages))
          /\ work' = Manifest(Authoritative.ids[i], t.root, Max(pages),
                              Authoritative.gens[i], pages, "unpublished")
    /\ prepared' = Absent
    /\ step' = "write manifest"
    /\ UNCHANGED <<files, manifest, durable, catalog, ghosts>>

\* Write a temporary file, sync it, rename it over the manifest, ...
WriteManifest ==
    /\ step = "write manifest"
    /\ manifest' = work
    /\ step' = "sync manifest"
    /\ UNCHANGED <<disk, files, durable, handle, work, ghosts>>

\* ... and sync the directory.
SyncManifest ==
    /\ step = "sync manifest"
    /\ durable' = manifest
    /\ prepared' = IF work.phase = "unpublished" THEN work ELSE Absent
    /\ step' = "open" /\ work' = Absent
    /\ UNCHANGED <<disk, files, manifest, catalog, ghosts>>

ManifestFails ==
    /\ step \in {"write manifest", "sync manifest"}
    /\ prepared' = Absent
    /\ step' = "open" /\ work' = Absent
    /\ UNCHANGED <<disk, files, manifest, durable, catalog, ghosts>>

Switched(f, i, m) ==
    LET t == TreeAt(disk, m.staged) IN
    [f EXCEPT !.shape[i] = [root |-> m.staged, width |-> t.width,
                            columns |-> @.columns],
              !.gens[i] = m.gen + 1]

\* Only a table still at the old root and generation is switched.
PublishCatalog ==
    /\ step = "open" /\ prepared # Absent /\ AuthoritativeReadable
    /\ \E i \in Slots(Authoritative, prepared.table) :
          /\ Authoritative.shape[i].root = prepared.old
          /\ Authoritative.gens[i] = prepared.gen
          /\ catalog[i].root = prepared.old
          /\ work' = Plan(Switched(Authoritative, i, prepared), catalog, "mark")
    /\ step' = "write log"
    /\ behind' = (behind \/ main # Lasting)
    /\ UNCHANGED <<disk, files, manifest, durable, handle, stored, overtaken>>

----------------------------------------------------------------------------

Close ==
    /\ step = "open"
    /\ step' = "closed"
    /\ catalog' = Absent /\ prepared' = Absent
    /\ UNCHANGED <<disk, files, manifest, durable, work, ghosts>>

\* A file being written in place may be old, new or cut off; a rename that
\* was not synced may be undone.
MigrationCrash ==
    /\ step \notin {"closed", "refused"} \/ manifest # durable
    /\ wal' \in IF step = "write log" THEN {wal, Torn, work.file} ELSE {wal}
    /\ main' \in CASE step = "write main" -> {main, Torn, Short, work.file}
                   [] step = "copy log" -> {main, Torn, Short, wal}
                   [] OTHER -> {main}
    /\ manifest' \in {manifest, durable} /\ durable' = manifest'
    /\ step' = "closed" /\ catalog' = Absent /\ work' = Absent /\ prepared' = Absent
    /\ UNCHANGED <<disk, ghosts>>

\* A new database, one of two tables, or one whose second table is in the log
\* of an interrupted save of the legacy format.
TwoTables == Default \o <<[root |-> 1, width |-> 0, columns |-> 0]>>

MigrationInit ==
    /\ step = "closed" /\ catalog = Absent /\ work = Absent /\ prepared = Absent
    /\ manifest = Absent /\ durable = Absent
    /\ overtaken = {} /\ behind = FALSE
    /\ \/ /\ main = Absent /\ wal = Absent
          /\ disk = [num |-> 1, free |-> {},
                     trees |-> {Tree(0, {0}, "v1", TRUE, 0, 0)}]
          /\ stored = <<0>>
       \/ /\ \/ main = Bootstrap(TwoTables) /\ wal = Absent
             \/ main = CatalogFile("v2", Default, <<>>, <<>>)
                /\ wal = CatalogFile("v2", TwoTables, <<>>, <<>>)
          /\ disk = [num |-> 3, free |-> {},
                     trees |-> {Tree(0, {0}, "v1", TRUE, 0, 0),
                                Tree(1, {1, 2}, "v1", TRUE, 0, 0)}]
          /\ stored = <<0, 0>>

Statement(i) == Insert(i) \/ Delete(i) \/ AlterTable(i) \/ Stage(i)

MigrationNext ==
    \/ ReadLog \/ CopyLog \/ DropLog \/ Load \/ LoadRefused
    \/ CheckManifest \/ ManifestRefused \/ Reclaim \/ ReclaimRefused
    \/ Unlink \/ SyncUnlink
    \/ CreateTable \/ (step = "open" /\ \E i \in DOMAIN catalog : Statement(i))
    \/ BeginSave \/ SaveRefused \/ WriteLog \/ WriteLogFails
    \/ WriteMain \/ WriteMainFails \/ RemoveCatalogLog
    \/ WriteManifest \/ SyncManifest \/ ManifestFails \/ PublishCatalog
    \/ Close \/ MigrationCrash

MigrationSpec == MigrationInit /\ [][MigrationNext]_migrationVars

----------------------------------------------------------------------------
(* Properties *)

\* Whenever the process dies, the catalog that the next open finds names whole
\* trees, apart from each other and from the free list, whose rows have the
\* storage that it says and are the rows written.  Not so after an I/O error
\* that left a log the process does not know of, or for rows written to a
\* table after they were staged (schema_repack_catalog_v3_publish.h).
TablesIntact ==
    ~behind =>
       /\ Lasting \notin {Torn, Short}
       /\ LET shape == Shape(Lasting) IN
          /\ LivePageMap(disk, shape)
          /\ \A i \in DOMAIN shape :
                LET t == TreeAt(disk, shape[i].root) IN
                /\ t.width = shape[i].width
                /\ i \in overtaken \/ t.rows = stored[i]

\* A migration that cannot be decided: its table was never saved, or has changed
\* again since the manifest was written, or the new tree is in use and the old
\* one is not of the form that the walk over it can take apart
\* (fixed_v1_tree_reclaim.h).
Undecidable ==
    /\ manifest # Absent
    /\ LET i == manifest.table
           gen == Generation(main, i)
       IN  \/ i \notin DOMAIN Shape(main)
           \/ gen \notin {manifest.gen, manifest.gen + 1}
           \/ Shape(main)[i].root = manifest.old /\ gen # manifest.gen
           \/ Shape(main)[i].root = manifest.staged /\ ~Collectable(manifest)

\* The open refuses a database, for ever, only over such a migration.
OpenRefusedForCauseOnly == step = "refused" /\ ~behind => Undecidable

\* The roots that a catalog or a manifest knows, and the pages accounted for.
Named ==
    {t.root : t \in ToSet(Shape(Lasting)) \cup
                    (IF catalog = Absent THEN {} ELSE ToSet(catalog))}
    \cup UNION {{m.old, m.staged} : m \in {manifest, durable} \ {Absent}}

Accounted == disk.free \cup UNION {t.pages : t \in UNION {TreesAt(disk, r) : r \in Named}}

Lost == (0 .. disk.num - 1) \ Accounted

\* A page is lost for good only when the process dies with a table the catalog
\* file does not have, or when a copy is staged whose manifest is not written, not
\* made durable or replaces another: every other interruption is made good by the
\* next open.
PagesLostOnlyByDying ==
    [][\/ behind'
       \/ manifest # durable
       \/ step = "open" /\ step' = "write manifest"
       \/ catalog' = Absent /\ catalog # Absent /\ Len(catalog) > Len(Shape(Lasting))
       \/ \A p \in Lost' : p \in Lost]_migrationVars

\* The generation of a table moves by one exactly when its root or its schema
\* does, and its id never moves; across crashes as well.
GenerationsAdvance ==
    [][IsV3(Lasting) /\ ~behind' =>
          LET f == Lasting
              g == Lasting'
          IN  \A i \in DOMAIN f.ids :
                 /\ g.ids[i] = f.ids[i]
                 /\ g.gens[i] = IF g.shape[i] = f.shape[i] THEN f.gens[i]
                                ELSE f.gens[i] + 1]_migrationVars
=============================================================================
