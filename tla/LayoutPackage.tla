---------------------------- MODULE LayoutPackage ----------------------------
(***************************************************************************)
(* The life of a .layoutpkg: the desktop app's launcher checks the package *)
(* against its View JSON source, the packer rewrites it file by file, the  *)
(* viewer opens it and reads tiles through its cache.  The source may be   *)
(* exported again at any time and the packer may die between two writes.   *)
(***************************************************************************)
EXTENDS PackageReader

CONSTANTS
    Sources,      \* the successive exports of the design, a sequence
    Viewports,    \* boxes a viewer asks for
    Points,       \* <<x, y, tolerance>> a viewer picks at
    Capacities,   \* cache capacities a caller passes
    Zooms,        \* units per pixel an overview is asked for
    MaxCrashes    \* bound: how often the packer dies

VARIABLES
    version,      \* the export the source files hold now
    packer,       \* [step, forced, hier, geo, raced]: where it is, whether the
                  \* check would have reused the package, the exports it has
                  \* read, and whether one came meanwhile
    disk,         \* the files of the package that are there
    reader,       \* the package the viewer has open, or Closed
    answer,       \* what the viewer's last call returned; forgotten when the
                  \* files change
    raced,        \* the package on disk was packed while the source changed
    torn,         \* a rebuild the check had not asked for was cut off
    rewritten,    \* the files changed since the viewer opened the package
    crashes

vars == <<version, packer, disk, reader, answer, raced, torn, rewritten, crashes>>

Source == Sources[version]
Exports == DOMAIN Sources

\* Each export has contents of its own.
ASSUME ExportAssumption ==
    /\ Len(Sources) \in Nat \ {0} /\ Exports = 1..Len(Sources)
    /\ \A v, w \in Exports : Fingerprint(Sources[v]) = Fingerprint(Sources[w]) => v = w

\* Coordinates are i32, layers u16 and ids u32, and the packer passes on no other kind
\* of record; a cache has the capacity of one of finitely many callers.
ASSUME SourceAssumption ==
    \A v \in Exports : /\ WorldBox(Sources[v]) \in RecordBoxes
                        /\ Dataset(Sources[v]) \in Seq(Records)
\* The packer passes on no box without area.
ASSUME BoxAssumption ==
    \A v \in Exports : \A i \in DOMAIN Dataset(Sources[v]) :
        ValidBox(Dataset(Sources[v])[i].box) # NoBox
ASSUME CapacityAssumption ==
    Capacities \subseteq Nat /\ \E m \in Capacities : \A c \in Capacities : c <= m
ASSUME ViewportAssumption ==
    Viewports \subseteq RecordBoxes /\ Points \subseteq Int \X Int \X Int

\* What the packer makes of a source; constants, so that they are computed once.
World == [v \in Exports |-> WorldBox(Sources[v])]
Packed == [h \in Exports |-> [g \in Exports |-> PackageFiles(Sources[h], Sources[g])]]

Nothing == [op |-> "none"]
Closed == [open |-> FALSE]

Init ==
    /\ version = 1
    /\ packer = [step |-> "idle", forced |-> FALSE, hier |-> 1, geo |-> 1,
                 raced |-> FALSE]
    /\ disk = << >>
    /\ reader = Closed
    /\ answer = Nothing
    /\ raced = FALSE /\ torn = FALSE /\ rewritten = FALSE
    /\ crashes = 0

\* The design is exported again: each export has contents of its own.
Export ==
    /\ version < Len(Sources)
    /\ version' = version + 1
    /\ packer' = [packer EXCEPT !.raced = @ \/ packer.step \notin {"idle", "spawned"}]
    /\ UNCHANGED <<disk, reader, answer, raced, torn, rewritten, crashes>>

-----------------------------------------------------------------------------
(* The launcher and the packer.                                            *)

FreshIfThere == HasFile(disk, "manifest")   \* mutant: the fingerprint is not compared

Fresh == /\ HasFile(disk, "manifest")
         /\ disk.manifest.fingerprint = Fingerprint(Source)

Step(s) == packer' = [packer EXCEPT !.step = s]

\* open: rebuild when asked to or when the manifest does not match, else
\* spawn the viewer on the package as it is.
Launch(rebuild) ==
    /\ packer.step = "idle"
    /\ IF rebuild \/ ~Fresh
       THEN packer' = [packer EXCEPT !.step = "hierarchy", !.forced = Fresh]
       ELSE Step("spawned")
    /\ UNCHANGED <<version, disk, reader, answer, raced, torn, rewritten, crashes>>

ReadHierarchy ==
    /\ packer.step = "hierarchy"
    /\ packer' = [packer EXCEPT !.step = "geometry", !.hier = version,
                                 !.raced = FALSE]
    /\ UNCHANGED <<version, disk, reader, answer, raced, torn, rewritten, crashes>>

ReadGeometry ==
    /\ packer.step = "geometry"
    /\ packer' = [packer EXCEPT !.step = "clear", !.geo = version]
    /\ UNCHANGED <<version, disk, reader, answer, raced, torn, rewritten, crashes>>

\* The files change under whatever viewer is open.
FilesChange == answer' = Nothing /\ rewritten' = (reader # Closed)

\* The packer writes the files of these names that it has something for.
DiskWith(files, names) ==
    [f \in DOMAIN disk \cup (names \cap DOMAIN files) |->
        IF f \in names \cap DOMAIN files THEN files[f] ELSE disk[f]]
WriteFiles(names) ==
    /\ disk' = DiskWith(Packed[packer.hier][packer.geo], names)
    /\ FilesChange
    /\ UNCHANGED <<version, reader, raced, torn, crashes>>

\* recreate_dir of the five directories; the old manifest stays.
ClearDirectories ==
    /\ packer.step = "clear"
    /\ Step("detail")
    /\ disk' = [f \in DOMAIN disk \cap {"manifest"} |-> disk[f]]
    /\ FilesChange
    /\ UNCHANGED <<version, reader, raced, torn, crashes>>

\* The tiles into the shard, then the large objects.
WriteDetail ==
    packer.step = "detail" /\ Step("index") /\ WriteFiles({"shard", "large"})

\* The index: where in the shard each tile is, and the layer statistics.
WriteIndex ==
    packer.step = "index" /\ Step("overview") /\ WriteFiles({"index"})

WriteOverview ==
    packer.step = "overview" /\ Step("rest") /\ WriteFiles({"overview", "pyramid"})

\* The query index, the hierarchy and the dictionaries.
WriteRest ==
    packer.step = "rest" /\ Step("manifest") /\ WriteFiles({"hierarchy"})

\* The manifest is written last, with the fingerprint the source has now;
\* the launcher then spawns the viewer.
WriteManifest ==
    /\ packer.step = "manifest"
    /\ Step("spawned")
    /\ LET manifest == [fingerprint |-> Fingerprint(Source),
                        world |-> World[packer.hier],
                        boundaries |-> Boundaries(Sources[packer.hier], World[packer.hier])]
       IN  disk' = [f \in DOMAIN disk \cup {"manifest"} |->
                      IF f = "manifest" THEN manifest ELSE disk[f]]
    /\ torn' = FALSE
    /\ raced' = packer.raced
    /\ FilesChange
    /\ UNCHANGED <<version, reader, crashes>>

\* The packer dies or fails; open rejects and no viewer is spawned.
Crash ==
    /\ packer.step \notin {"idle", "spawned"}
    /\ crashes < MaxCrashes
    /\ crashes' = crashes + 1
    /\ Step("idle")
    /\ torn' = (torn \/ (packer.forced /\ packer.step \notin {"hierarchy", "geometry", "clear"}))
    /\ UNCHANGED <<version, disk, reader, answer, raced, rewritten>>

-----------------------------------------------------------------------------
(* The viewer.                                                             *)

\* LayoutPackage::open reads the manifest and the two indexes.
Open ==
    /\ packer.step = "spawned"
    /\ Step("idle")
    /\ answer' = Nothing
    /\ rewritten' = FALSE
    /\ reader' = IF {"manifest", "index", "overview"} \subseteq DOMAIN disk
                 THEN [index |-> disk.index, cache |-> EmptyCache,
                       large |-> Unreadable, pyramid |-> Unreadable,
                       world |-> disk.manifest.world]
                 ELSE Closed
    /\ UNCHANGED <<version, disk, raced, torn, crashes>>

Load(viewport, capacity) ==
    /\ reader # Closed
    /\ LET read == LoadViewport(disk, reader, viewport, capacity) IN
       /\ reader' = read.pkg
       /\ answer' = [op |-> "load", viewport |-> viewport, ok |-> read.ok,
                     tiles |-> read.tiles, large |-> read.large]
    /\ UNCHANGED <<version, packer, disk, raced, torn, rewritten, crashes>>

Query(p, capacity) ==
    /\ reader # Closed
    /\ LET read == LoadViewport(disk, reader, QueryBox(p[1], p[2], p[3]), capacity) IN
       /\ reader' = read.pkg
       /\ answer' = [op |-> "query", point |-> p, ok |-> read.ok,
                     hit |-> IF read.ok THEN QueryPoint(read, p[1], p[2], p[3])
                                        ELSE NoHit]
    /\ UNCHANGED <<version, packer, disk, raced, torn, rewritten, crashes>>

\* load_overview_level_for_units_per_pixel: the pyramid is read once.
Overview(zoom) ==
    /\ reader # Closed
    /\ LET pyramid == IF reader.pyramid.ok THEN reader.pyramid
                      ELSE IF HasFile(disk, "pyramid") THEN DecodePyramid(disk.pyramid)
                      ELSE Unreadable
           good == pyramid.ok /\ pyramid.levels # <<>>
       IN  /\ reader' = [reader EXCEPT !.pyramid = pyramid]
           /\ answer' = [op |-> "overview", zoom |-> zoom, ok |-> good,
                         level |-> IF good THEN LevelFor(pyramid, zoom) ELSE NoBox]
    /\ UNCHANGED <<version, packer, disk, raced, torn, rewritten, crashes>>

Next ==
    \/ Export
    \/ \E rebuild \in BOOLEAN : Launch(rebuild)
    \/ ReadHierarchy \/ ReadGeometry \/ ClearDirectories
    \/ WriteDetail \/ WriteIndex \/ WriteOverview \/ WriteRest \/ WriteManifest
    \/ Crash
    \/ Open
    \/ \E v \in Viewports, c \in Capacities : Load(v, c)
    \/ \E p \in Points, c \in Capacities : Query(p, c)
    \/ \E z \in Zooms : Overview(z)

Spec == Init /\ [][Next]_vars
==============================================================================
