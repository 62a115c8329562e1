------------------------------- MODULE Viewer -------------------------------
(***************************************************************************)
(* The native viewer (apps/layout-viewer-native): the session opens on a   *)
(* thread, and then each frame moves the view, takes and asks for detail,  *)
(* makes a plan of what to draw or keeps the last one, and draws it        *)
(* directly or as a texture kept by its key.  What the session holds is    *)
(* abstracted to the detail tiles merged and the overview level in force,  *)
(* and a plan to what of these it shows.                                   *)
(***************************************************************************)
EXTENDS DetailLoader, LevelOfDetail

CONSTANTS
    Designs,        \* "hierarchy", "flat" (with an overview), "bare" (without)
    Views,          \* [box, upp]: what the canvas shows, and units per pixel
    FirstView,      \* the view that fits the design
    World,          \* the box of the design
    Tiles,          \* the boxes of the package's detail tiles
    Settings,       \* render settings at rest, as tuned
    TilePx,         \* DETAIL_LOAD_TILE_PX and PLANE_CACHE_TILE_PX, in pixels
    MarginTiles,    \* DETAIL_LOAD_MARGIN_TILES and PLANE_CACHE_MARGIN_TILES
    LocalPercent,   \* DETAIL_LOAD_MAX_VIEWPORT_WORLD_AREA_RATIO
    RasterTiles,    \* tiles in a plan from which it is drawn as a texture
    CacheCapacity,  \* planes kept
    MaxInputs       \* bound: frames with an input of the user, or still moving

VARIABLES
    design,         \* which kind of package it is
    session,        \* "loading", "arrived", "refused", "open", "failed"
    view,           \* the view
    shown,          \* what the sidebar shows: "all", "unbinned", "none"
    moving,         \* the last interaction is not settled
    inputs,         \* inputs so far
    overview,       \* the overview level in force, 0 for none
    revisions,      \* hierarchy_revision, overview_revision, detail_revision
    level,          \* lod_hysteresis
    plan,           \* last_render_plan and its revision
    planes,         \* the plane cache, least recently used first
    texture         \* the texture on the screen, and what is in it

viewerVars == <<design, session, view, shown, moving, inputs, overview,
                revisions, level, plan, planes, texture>>

vars == <<loaderVars, viewerVars>>

NoPlan == [source |-> "FlatDetail", key |-> NoBox, revision |-> 0, shows |-> {}]
NoTexture == [key |-> NoBox, shows |-> {}]

-----------------------------------------------------------------------------
(* Boxes.                                                                  *)

FloorToGrid(v, grid) == (v \div grid) * grid
CeilToGrid(v, grid) == IF FloorToGrid(v, grid) = v THEN v ELSE FloorToGrid(v, grid) + grid

\* The box on a grid of tiles as large on the screen at any zoom, and a margin.
OnTiles(v) ==
    LET grid == Most(v.upp * TilePx, 1)
        margin == grid * MarginTiles
    IN  <<FloorToGrid(v.box[1], grid) - margin, FloorToGrid(v.box[2], grid) - margin,
          CeilToGrid(v.box[3], grid) + margin, CeilToGrid(v.box[4], grid) + margin>>

DetailLoadBox(v) == OnTiles(v)

IsHierarchyCoarse(source) == source \in {"HierarchyFar", "HierarchyMid"}
IsDetail(source) == source \in {"FlatDetail", "HierarchyNear"}

PlanBox(v, source) == IF IsDetail(source) THEN v.box ELSE OnTiles(v)

IsLocal(v) == Area(World) <= 0 \/ 100 * Area(v.box) <= LocalPercent * Area(World)

DetailBoxes == {DetailLoadBox(v) : v \in Views}
ASSUME ViewerAssumption ==
    /\ Designs \subseteq {"hierarchy", "flat", "bare"}
    /\ DetailBoxes \subseteq Boxes /\ FirstView \in Views /\ CacheCapacity \in Nat \ {0}
    /\ Settings \in [fill : Int, bbox : Int, coarse : Int, idle : Int, arrayBox : Int,
                     arrayGrid : Int, force : BOOLEAN, proxies : BOOLEAN]

TilesIn(box) == {t \in Tiles : Meets(t, box)}
Detail == UNION {TilesIn(b) : b \in merged}

-----------------------------------------------------------------------------
(* Which plan.                                                             *)

SettingsFor(move) == [Settings EXCEPT !.force = move]

\* The levels of the overview are chosen by the zoom; one fits here from the
\* far threshold on, and one below it.
OverviewLevel(v) == IF v.upp >= Settings.bbox THEN 2 ELSE 1

\* overview_density_usable looks at layers, not at which objects are shown.
OverviewUsable(v, what, ov) ==
    design # "hierarchy" /\ v.upp >= Settings.coarse /\ ov # 0 /\ what # "none"

\* plan_source_for_units_per_pixel: what the viewer expects the planner to do.
Expected(v, what, move, ov, before) ==
    LET l == ClassifyLod(v.upp, SettingsFor(move), before)
        near == l = "Near" \/ RestsInDetail(l, v.upp, SettingsFor(move))
    IN  IF what = "none" THEN [source |-> "FlatDetail", level |-> before]
        ELSE [level |-> l,
              source |-> CASE design = "hierarchy" /\ near -> "HierarchyNear"
                           [] design = "hierarchy" /\ ~near /\ l = "Mid" -> "HierarchyMid"
                           [] design = "hierarchy" /\ ~near /\ l = "Far" -> "HierarchyFar"
                           [] OTHER -> IF l # "Near" /\ OverviewUsable(v, what, ov)
                                       THEN "OverviewDensity" ELSE "FlatDetail"]

\* What the planner does.  Unlike the viewer it does not expand a hierarchy
\* while the view is moved, and it uses the overview when something of it is
\* to be drawn.
Planned(v, what, move, ov, before) ==
    LET l == ClassifyLod(v.upp, SettingsFor(move), before)
        density == design # "hierarchy" /\ v.upp >= Settings.coarse /\ ov # 0
    IN  IF what = "none" THEN [source |-> "FlatDetail", level |-> before]
        ELSE IF design = "hierarchy"
        THEN [level |-> l,
              source |-> IF RestsInDetail(l, v.upp, SettingsFor(move)) THEN "HierarchyNear"
                         ELSE IF l = "Near" THEN IF move THEN "HierarchyMid" ELSE "HierarchyNear"
                         ELSE IF l = "Mid" THEN "HierarchyMid" ELSE "HierarchyFar"]
        ELSE [level |-> IF density THEN l ELSE before,
              source |-> IF density /\ l # "Near" /\ what = "all"
                         THEN "OverviewDensity" ELSE "FlatDetail"]

\* Mutant: a near plan of a hierarchy counts as one that no detail changes.
RevisionForKind(source, revs) ==
    CASE source \in {"HierarchyFar", "HierarchyMid", "HierarchyNear"} -> revs.hierarchy
      [] source = "OverviewDensity" -> revs.overview
      [] OTHER -> revs.detail

\* revision_for_render_source
RevisionFor(source, revs) ==
    CASE IsHierarchyCoarse(source) -> revs.hierarchy
      [] source = "OverviewDensity" -> revs.overview
      [] OTHER -> revs.detail

\* What the cache key of a plan tells apart.
PlanKey(box, upp, what, move, source) == <<box, upp, what, move, source>>

\* What a plan shows of what the session holds.
Shows(source, box, what, tiles, ov) ==
    CASE what = "none" -> {}
      [] what # "none" /\ IsDetail(source) -> {t \in tiles : Meets(t, box)}
      [] what # "none" /\ source = "OverviewDensity" -> {ov}
      [] OTHER -> {}

-----------------------------------------------------------------------------
(* The planes: rasterized plans by their key, and the texture.             *)

\* use_plane_renderer: always, except for a small plan of detail.
UsesPlane(p) == ~IsDetail(p.source) \/ Cardinality(p.shows) >= RasterTiles

PlaneKeyOfPlan(p, revision) == <<p.source, p.key>>   \* mutant: without the revision

\* The pixels the texture has come with the box and the zoom of the key.
PlaneKey(p, revision) == <<p.source, p.key, revision>>

Cached(key) == \E i \in DOMAIN planes : planes[i].key = key
PlaceOf(key) == CHOOSE i \in DOMAIN planes : planes[i].key = key
PlaneAt(key) == planes[PlaceOf(key)]

\* The planes without the one of a key, if there is one.
Others(key) ==
    IF Cached(key)
    THEN SubSeq(planes, 1, PlaceOf(key) - 1) \o SubSeq(planes, PlaceOf(key) + 1, Len(planes))
    ELSE planes

\* PlaneCache::get and insert: the plane becomes the one used last, and the
\* first of too many goes.
Touched(plane) ==
    LET all == Append(Others(plane.key), plane)
    IN  IF Len(all) > CacheCapacity THEN Tail(all) ELSE all

\* draw_cached_plane: a texture with another key is replaced, from the cache
\* if it is there; while the view is moved the old one stays.
DrawPlane(p, revision, move) ==
    LET key == PlaneKey(p, revision)
        plane == IF Cached(key) THEN PlaneAt(key) ELSE [key |-> key, shows |-> p.shows]
    IN  IF texture # NoTexture /\ texture.key = key
        THEN /\ planes' = IF Cached(key) THEN Touched(PlaneAt(key)) ELSE planes
             /\ UNCHANGED texture
        ELSE IF move /\ texture # NoTexture THEN UNCHANGED <<planes, texture>>
        ELSE planes' = Touched(plane) /\ texture' = plane

-----------------------------------------------------------------------------
(* The session opens on a thread of its own, which starts the loader.      *)

Init ==
    /\ LoaderInit
    /\ design \in Designs
    /\ session = "loading"
    /\ view = FirstView
    /\ shown = "all"
    /\ moving = FALSE
    /\ inputs = 0
    /\ overview = 0
    /\ revisions = [hierarchy |-> 0, overview |-> 0, detail |-> 0]
    /\ level = NoLevel
    /\ plan = NoPlan
    /\ planes = <<>>
    /\ texture = NoTexture

SessionLoads ==
    /\ session = "loading"
    /\ session' \in {"arrived", "refused"}
    /\ UNCHANGED <<loaderVars, design, view, shown, moving, inputs, overview,
                   revisions, level, plan, planes, texture>>

Loader ==
    /\ session \in {"arrived", "open"}
    /\ WorkerStep
    /\ UNCHANGED viewerVars

\* A frame before there is a session, and after it could not be opened.
LoadingCanvas ==
    /\ session \in {"loading", "refused", "failed"}
    /\ session' = IF session = "refused" THEN "failed" ELSE session
    /\ UNCHANGED <<loaderVars, design, view, shown, moving, inputs, overview,
                   revisions, level, plan, planes, texture>>

-----------------------------------------------------------------------------
(* A frame: update and draw_canvas.                                        *)

\* ensure_overview_for_units_per_pixel, for a flat design seen from far.
OverviewFor(v) == IF design = "flat" /\ v.upp >= Settings.coarse
                  THEN OverviewLevel(v) ELSE overview

WantedBox(v, source) == IF IsDetail(source) /\ IsLocal(v) THEN DetailLoadBox(v) ELSE NoBox

\* The last plan is kept when its key, the revision and its source are the
\* ones expected; otherwise a new one is made.
MakePlan(v, what, move, expected) ==
    LET box == PlanBox(v, expected.source)
        key(source) == PlanKey(box, v.upp, what, move, source)
        revision == RevisionFor(expected.source, revisions')
        reuse == /\ plan.key = key(expected.source)
                 /\ plan.revision = revision
                 /\ plan.source = expected.source
        planned == Planned(v, what, move, overview', level)
    IN  /\ plan' = IF reuse THEN plan
                   ELSE [source |-> planned.source, key |-> key(planned.source),
                         revision |-> revision,
                         shows |-> Shows(planned.source, box, what, Detail', overview')]
        /\ level' = IF reuse THEN expected.level ELSE planned.level

Frame(v, what, move) ==
    /\ session \in {"arrived", "open"}
    /\ session' = "open"
    /\ v # view => move
    /\ view' = v /\ shown' = what /\ moving' = move
    /\ overview' = OverviewFor(v)
    /\ \E expected \in {Expected(v, what, move, overview', level)} :
       /\ \E want \in {WantedBox(v, expected.source)} : Serve(want, move)
       /\ revisions' = [revisions EXCEPT
                          !.overview = @ + (IF overview' # overview THEN 1 ELSE 0),
                          !.detail = @ + (IF Detail' # Detail THEN 1 ELSE 0)]
       /\ MakePlan(v, what, move, expected)
       /\ IF UsesPlane(plan')
          THEN DrawPlane(plan', RevisionFor(expected.source, revisions'), move)
          ELSE UNCHANGED <<planes, texture>>
    /\ UNCHANGED design

Input == inputs < MaxInputs /\ inputs' = inputs + 1

Move == \E v \in Views : Frame(v, shown, TRUE) /\ Input
Toggle == \E what \in {"all", "unbinned", "none"} \ {shown}, move \in BOOLEAN :
             (move => moving) /\ Frame(view, what, move) /\ Input
Rest == Frame(view, shown, FALSE) /\ UNCHANGED inputs

Next == SessionLoads \/ Loader \/ LoadingCanvas \/ Move \/ Toggle \/ Rest

\* A frame is drawn when one was asked for: while the session loads and while
\* there is work pending.  One that moves asks for the next only if the
\* interaction has not settled by its end, which nothing ensures.
Repaint == (session # "open" \/ HasPendingWork(load)) /\ Rest

Spec == Init /\ [][Next]_vars /\ WF_vars(SessionLoads) /\ WF_vars(Repaint)
             /\ WF_vars(Loader)

-----------------------------------------------------------------------------
(* Properties.                                                             *)

\* The plan on the screen is the one that planning now would make: a plan is
\* not kept when the view, the settings, its source or what the session
\* holds of what it shows has changed.
PlanIsCurrent ==
    plan # NoPlan =>
        LET expected == Expected(view, shown, moving, overview, level)
            planned == Planned(view, shown, moving, overview, level)
            box == PlanBox(view, expected.source)
        IN  /\ plan.source = planned.source
            /\ plan.key = PlanKey(box, view.upp, shown, moving, planned.source)
            /\ plan.shows = Shows(planned.source, box, shown, Detail, overview)

\* When the view rests on a plan that is drawn as a texture, the texture is
\* of this plan, whether it was kept, found in the cache or made, if the
\* planner did what the viewer expected of it.
TextureShowsPlan ==
    /\ plan # NoPlan /\ ~moving /\ UsesPlane(plan)
    /\ plan.source = Expected(view, shown, moving, overview, level).source
    => texture.shows = plan.shows

Misses(v) == ~(TilesIn(DetailLoadBox(v)) \subseteq Detail)

\* The view rests at a place whose detail is not there and would be drawn,
\* and nothing failed.
Lacks(move) ==
    /\ session = "open" /\ ~moving /\ failures = 0 /\ shown # "none"
    /\ WantedBox(view, Expected(view, shown, move, overview, level).source) # NoBox
    /\ Misses(view)

\* The detail of a near view, one that is drawn in detail even while it is
\* moved, arrives, or the user goes elsewhere: no order of requests, results
\* and movements loses it.
NearDetailArrives == Lacks(TRUE) ~> ~Lacks(TRUE)

\* The same of every view that is drawn in detail when it rests.
RestingDetailArrives == Lacks(FALSE) ~> ~Lacks(FALSE)
==============================================================================
