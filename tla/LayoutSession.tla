---------------------------- MODULE LayoutSession ----------------------------
(***************************************************************************)
(* A viewing session (layoutdb::LayoutSession): the database of an open    *)
(* package, the detail tiles merged into it so far, and the revisions by   *)
(* which the viewer tells whether a plan it has drawn is still current.    *)
(* disk is the package, and the session is a value: an operation returns   *)
(* it changed, with ok FALSE when it returned an error.                    *)
(***************************************************************************)
EXTENDS LayoutDisplay, PackageReader

\* Where the shapes of an object go: the top cell, or the cell the detail
\* scope document names, in that cell's own coordinates.
ScopeDestinations(db, scopes) ==
    [s \in {r.source : r \in scopes} |->
       LET r == CHOOSE r \in scopes : r.source = s IN
       IF r.coordinates = "Top" THEN db.top
       ELSE IF r.cell \in DOMAIN db.packageCells THEN db.packageCells[r.cell]
       ELSE db.top]

\* ensure_die_core_overlay_shapes: the top cell has an outline of the die,
\* and of the core when the package knows it.
WithOutlines(db, boundaries) ==
    LET kinds == {s.kind : s \in Range(QueryShapes(db, db.top, db.world))}
        outline(box, kind) == ToShape(Record(box, 0, kind, 0), FALSE)
        die == IF boundaries.die = NoBox THEN db.world ELSE boundaries.die
        withDie == IF "Die" \in kinds THEN db
                   ELSE AddShape(db, db.top, outline(die, "Die"))
    IN  IF "Core" \in kinds \/ boundaries.core = NoBox THEN withDie
        ELSE AddShape(withDie, db.top, outline(boundaries.core, "Core"))

\* from_source: the hierarchy, the layers, the outlines and the large objects;
\* these are marked as context, drawn at every zoom.
FromSource(disk, pkg) ==
    LET base == IF HasFile(disk, "hierarchy") THEN FromHierarchy(pkg.world, disk.hierarchy)
                ELSE NewDb(pkg.world)
        counted == IF pkg.index.byLayer = << >> THEN base
                   ELSE [base EXCEPT !.layerCounts = pkg.index.byLayer]
        outlined == WithOutlines([counted EXCEPT !.layers = disk.layers],
                                 disk.manifest.boundaries)
        large == LoadLarge(disk, pkg)
        context == [i \in DOMAIN large.rects |-> ToShape(large.rects[i], TRUE)]
        loaded == IF large.ok /\ large.rects # <<>> THEN 1 ELSE 0
    IN  [ok |-> large.ok, db |-> IF large.ok
                                 THEN AddShapes(outlined, outlined.top, context)
                                 ELSE outlined,
         tiles |-> {}, overviewUnits |-> NoNum,
         pkg |-> [pkg EXCEPT !.large = large],
         revision |-> loaded, detail |-> loaded, overview |-> 0, hierarchy |-> 0]

\* apply_viewport_batch: tiles not merged before are, each record where its
\* scope says.  The large objects are in the database since the start.
ApplyBatch(s, disk, batch) ==
    LET scopes == ScopeDestinations(s.db, disk.scopes)
        cell(r) == IF r.source \in DOMAIN scopes THEN scopes[r.source] ELSE s.db.top
        fresh(t) == t.id \notin s.tiles
        new == FlattenSeq([i \in DOMAIN SelectSeq(batch.tiles, fresh) |->
                             SelectSeq(batch.tiles, fresh)[i].rects])
        step == IF new = <<>> THEN 0 ELSE 1
    IN  [s EXCEPT !.db = FoldLeft(LAMBDA d, r : AddShape(d, cell(r), ToShape(r, FALSE)),
                                  @, new),
                  !.tiles = @ \cup {batch.tiles[i].id : i \in DOMAIN batch.tiles},
                  !.revision = @ + step,
                  !.detail = @ + step]

\* ensure_overview_for_units_per_pixel: the level the zoom asks for replaces
\* the bins when it is another one.
EnsureOverview(s, disk, zoom) ==
    LET pyramid == IF s.pkg.pyramid.ok THEN s.pkg.pyramid
                   ELSE IF HasFile(disk, "pyramid") THEN DecodePyramid(disk.pyramid)
                   ELSE Unreadable
        level == LevelFor(pyramid, zoom)
        bins == [i \in DOMAIN level.bins |->
                   [level.bins[i] EXCEPT !.box = Ordered(@)]]
        same == level.units = s.overviewUnits
        equal == OverviewBinsIn(s.db, s.db.world) = bins
    IN  IF ~pyramid.ok \/ pyramid.levels = <<>> THEN [s EXCEPT !.pkg.pyramid = pyramid]
        ELSE IF same THEN [s EXCEPT !.pkg.pyramid = pyramid]
        ELSE IF equal THEN [s EXCEPT !.pkg.pyramid = pyramid, !.overviewUnits = level.units]
        ELSE [s EXCEPT !.pkg.pyramid = pyramid, !.overviewUnits = level.units,
                       !.db.bins = bins, !.revision = @ + 1, !.overview = @ + 1]
==============================================================================
