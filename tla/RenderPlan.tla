----------------------------- MODULE RenderPlan -----------------------------
(***************************************************************************)
(* The render planner (crate layout-render): from a database, a display    *)
(* model and a viewport to the rectangles, markers and lines to draw, and  *)
(* from a click to the object under it.  A viewport is [world, upp, width, *)
(* height], upp the integer number of units a pixel stands for on either   *)
(* axis, so that sizes in pixels compare as sizes in units.  A plan is the *)
(* sequence of its items; its batches are the items of one plane and layer *)
(* in the order of their first ones.  Colours and statistics are left out. *)
(***************************************************************************)
EXTENDS LayoutDisplay, LevelOfDetail

CONSTANTS
    SmallPx, FrameOnlyPx, FillPx, LongPx, OccupancyPx,        \* RenderSettings, in pixels
    MaxQuadsPerBin, MaxFramesPerBin, MaxMarkersPerBin,
    MaxItems                                                   \* max_render_items

ASSUME RenderAssumption ==
    /\ {SmallPx, FrameOnlyPx, FillPx, LongPx, MaxItems} \subseteq Nat
    /\ OccupancyPx \in Nat \ {0} /\ MaxMarkersPerBin \in Nat \ {0}

WidthOf(b) == Most(b[3] - b[1], 1)
HeightOf(b) == Most(b[4] - b[2], 1)
MinSide(b) == Least(WidthOf(b), HeightOf(b))
MaxSide(b) == Most(WidthOf(b), HeightOf(b))
AreaOf(b) == WidthOf(b) * HeightOf(b)

-----------------------------------------------------------------------------
(* Level of detail.                                                        *)

HasInstances(db, cell) == cell \in DOMAIN db.cells /\ db.cells[cell].instances # <<>>
IsTopView(db, view) == view = FromPath(db.top, <<>>)

\* hierarchy_lod_mode_for_cell_view, and the hysteresis it leaves.
HierarchyMode(db, view, vp, settings, previous) ==
    LET level == ClassifyLod(vp.upp, settings, previous)
        mode == CASE RestsInDetail(level, vp.upp, settings) -> "Near"
                  [] level = "Near" /\ settings.force -> "Mid"
                  [] OTHER -> level
    IN  IF ~HasInstances(db, view.target) THEN [mode |-> "Near", level |-> previous]
        ELSE [mode |-> mode, level |-> level]

ArrayDecision(inst, vp, settings) ==
    IF inst.columns <= 1 /\ inst.rows <= 1 THEN "Elements"
    ELSE IF vp.upp >= settings.arrayBox THEN "Box"
    ELSE IF vp.upp >= settings.arrayGrid THEN "Grid"
    ELSE "Elements"

BoxFor(inst, decision) == IF decision = "Elements" THEN inst.box ELSE inst.arrayBox

-----------------------------------------------------------------------------
(* What a layer shows.                                                     *)

IsContextKind(kind) == kind \in {"Die", "Core", "Instance", "Region"}
IsWire(kind) == kind \in {"RegularWire", "SpecialWire"}

LayerMatchesShape(layer, s) ==
    /\ IncludesKind(layer.objects, s.kind)
    /\ IF layer.kind = AnyKind THEN s.layer = layer.layer /\ ~IsContextKind(s.kind)
                               ELSE s.kind = layer.kind

OverviewKind(kind) ==
    kind \in {"RegularWire", "SpecialWire", "Via", "IoPin", "Blockage", "Fill"}

LayerMatchesBin(layer, bin) ==
    /\ IncludesKind(layer.objects, bin.kind)
    /\ IF layer.kind = AnyKind THEN bin.layer = layer.layer /\ OverviewKind(bin.kind)
                               ELSE bin.kind = layer.kind

\* VisibleShapeSources::matches
SourcesMatch(layers, layer, kind) ==
    /\ layers # <<>> => IncludesKind(layers[1].objects, kind)
    /\ \E i \in DOMAIN layers :
          IF layers[i].kind = AnyKind THEN layers[i].layer = layer /\ OverviewKind(kind)
                                      ELSE layers[i].kind = kind

-----------------------------------------------------------------------------
(* Plans.                                                                  *)

\* form is "rect", "marker" or "line" (a line's box is its two ends).
Item(plane, layer, style, form, box, source, number) ==
    [plane |-> plane, layer |-> layer, style |-> style, form |-> form, box |-> box,
     source |-> source, number |-> number]

\* hierarchy_display_layer
FrameItem(form, box, source, number) ==
    Item("Hierarchy", <<"hierarchy">>, Style("Hollow", 1), form, box, source, number)

-----------------------------------------------------------------------------
(* The occupancy of the screen: how many shapes each bin has taken, by     *)
(* layer and form, as the sequence of the places taken.                    *)

BinOf(vp, box) ==
    <<(box[1] + box[3] - 2 * vp.world[1]) \div (2 * vp.upp * OccupancyPx),
      (box[2] + box[4] - 2 * vp.world[2]) \div (2 * vp.upp * OccupancyPx)>>

\* reserve_frame and reserve_marker; context shapes need no place.
HasPlace(taken, vp, layer, s, form) ==
    LET here == SelectSeq(taken, LAMBDA t : t.bin = BinOf(vp, s.box))
        same == SelectSeq(here, LAMBDA t : t.layer = layer.id /\ t.form = form)
        limit == IF form = "frame" THEN MaxFramesPerBin ELSE MaxMarkersPerBin
    IN  \/ IsContextKind(s.kind)
        \/ Len(here) < MaxQuadsPerBin /\ Len(same) < limit

ReserveNothing(taken, vp, layer, s, form) == taken   \* mutant: nothing is taken

Reserve(taken, vp, layer, s, form) ==
    IF IsContextKind(s.kind) THEN taken
    ELSE Append(taken, [bin |-> BinOf(vp, s.box), layer |-> layer.id, form |-> form])

\* lod_decision
LodDecision(taken, vp, settings, layer, s) ==
    LET px(n) == n * vp.upp
        wirePx == Most(Least(FrameOnlyPx, LongPx), SmallPx)
        form == IF \/ MinSide(s.box) >= px(FrameOnlyPx)
                   \/ MaxSide(s.box) >= px(LongPx)
                   \/ IsWire(s.kind) /\ MaxSide(s.box) >= px(wirePx)
                THEN "frame" ELSE "marker"
    IN  IF vp.upp <= settings.fill /\ MinSide(s.box) >= px(FillPx) THEN "exact"
        ELSE IF HasPlace(taken, vp, layer, s, form) THEN form ELSE "suppress"

\* push_shape_lod for one layer that shows the shape.
ShapeItems(decision, layer, s) ==
    LET item(plane, form) ==
            Item(plane, layer.id, layer.style, form, s.box, s.source, s.layer)
    IN  CASE decision = "exact"  -> <<item("Fill", "rect"), item("Frame", "rect")>>
          [] decision = "frame"  -> <<item("Frame", "rect")>>
          [] decision = "marker" -> <<item("Marker", "marker")>>
          [] OTHER               -> <<>>

\* push_shape_lod over shapes, each on the layers that show it; at is
\* [taken, items].
PushShapes(at, vp, settings, layers, shapes) ==
    LET onLayer(s, a, layer) ==
            IF ~LayerMatchesShape(layer, s) THEN a
            ELSE LET d == LodDecision(a.taken, vp, settings, layer, s) IN
                 [taken |-> IF d \in {"frame", "marker"}
                            THEN Reserve(a.taken, vp, layer, s, d) ELSE a.taken,
                  items |-> a.items \o ShapeItems(d, layer, s)]
        push(a, s) == FoldLeft(LAMBDA b, layer : onLayer(s, b, layer), a, layers)
    IN  FoldLeft(push, at, shapes)

-----------------------------------------------------------------------------
(* The overview of a flat design.                                          *)

HasOverview(db, vp, settings) ==
    vp.upp >= settings.coarse /\ OverviewBinsIn(db, vp.world) # <<>>

OverviewItems(db, vp, layers) ==
    LET bins == SelectSeq(OverviewBinsIn(db, vp.world),
                          LAMBDA b : SourcesMatch(layers, b.layer, b.kind))
        on(b) == SelectSeq(layers, LAMBDA l : LayerMatchesBin(l, b))
        draw(b, ls) == [i \in DOMAIN ls |->
                          Item("Fill", ls[i].id, ls[i].style, "rect", b.box, 0, b.layer)]
    IN  FlattenSeq([i \in DOMAIN bins |-> draw(bins[i], on(bins[i]))])

-----------------------------------------------------------------------------
(* Far: the boxes of instances, thinned when they are too many.            *)

InstancesFor(db, vp, view, policy) ==
    CellViewInstances(db, [view |-> view, viewport |-> vp.world,
                           min |-> Most(policy.min, 1), max |-> policy.max,
                           layers |-> {}, kinds |-> {}, expand |-> FALSE,
                           hidden |-> {}], policy)

\* An array already met, by its ids, is left out.
FirstOfArrays(found) ==
    SelectSeq([i \in DOMAIN found |-> <<i, found[i]>>], LAMBDA p :
        \/ p[2].columns <= 1 /\ p[2].rows <= 1
        \/ \A j \in 1..(p[1] - 1) :
              \/ <<found[j].source, found[j].id>> # <<p[2].source, p[2].id>>
              \/ found[j].columns <= 1 /\ found[j].rows <= 1)

FarEntries(found, vp, settings) ==
    LET entry(inst) == [box |-> BoxFor(inst, ArrayDecision(inst, vp, settings)),
                        source |-> inst.source, depth |-> inst.depth]
        entries(first) == [i \in DOMAIN first |-> entry(first[i][2])]
    IN  entries(FirstOfArrays(found))

FarBudget(vp) ==
    LET binPx == Most(2 * OccupancyPx, Most(FrameOnlyPx, 1))
    IN  Least(Most(CeilDiv(vp.width, binPx) * CeilDiv(vp.height, binPx)
                   * MaxMarkersPerBin, 1), MaxItems)

\* thin_hierarchy_entries_once: each bin of a depth keeps its smallest boxes.
ThinOnce(unit, entries) ==
    LET key(e) == <<e.depth, (e.box[1] + e.box[3]) \div (2 * unit),
                    (e.box[2] + e.box[4]) \div (2 * unit)>>
        rank(i) == <<AreaOf(entries[i].box), entries[i].box[2], entries[i].box[1],
                     entries[i].source, i>>
        kept == {i \in DOMAIN entries :
                   Cardinality({j \in DOMAIN entries :
                       /\ key(entries[j]) = key(entries[i])
                       /\ Lexical(rank(j), rank(i))}) < MaxMarkersPerBin}
        place(i) == <<entries[i].depth, entries[i].box[2], entries[i].box[1],
                      entries[i].source, i>>
        order == InOrder({place(i) : i \in kept}, Lexical)
    IN  [k \in DOMAIN order |-> entries[order[k][5]]]

\* sample_hierarchy_entries: evenly, in the order of the query.
Sample(entries, budget) ==
    IF Len(entries) <= budget THEN entries
    ELSE [k \in 1..budget |-> entries[((k - 1) * Len(entries)) \div budget + 1]]

\* thin_hierarchy_entries: bins are doubled until the rest fits, and when
\* that is hopeless the entries are sampled.
Thinned(entries, vp, budget) ==
    LET unit(k) == Most(vp.upp * OccupancyPx, 1) * 2^k
        limit == 2 * MaxSide(vp.world)
        done(k) == Len(ThinOnce(unit(k), entries)) <= budget \/ unit(k) > limit
        last == CHOOSE k \in 0..limit : done(k) /\ \A j \in 0..(k - 1) : ~done(j)
    IN  IF Len(entries) <= budget THEN entries
        ELSE IF Len(ThinOnce(unit(last), entries)) <= budget
             THEN ThinOnce(unit(last), entries)
        ELSE Sample(entries, budget)

\* push_far_hierarchy_entry: what is small is a marker.
FarEntryItem(vp, e) ==
    FrameItem(IF MaxSide(e.box) < FrameOnlyPx * vp.upp THEN "marker" ELSE "rect",
              e.box, e.source, 0)

FarItems(db, at) ==
    LET found == InstancesFor(db, at.window, at.view, at.policy)
        draw(es) == [i \in DOMAIN es |-> FarEntryItem(at.window, es[i])]
    IN  IF ~at.objects.instances THEN <<>>
        ELSE draw(Thinned(FarEntries(found, at.window, at.settings), at.window,
                          FarBudget(at.window)))

-----------------------------------------------------------------------------
(* Mid: the boxes of instances with a summary of what the cells contain.   *)

\* select_representative_shapes: the largest of the lowest layers.
Representatives(shapes, layers) ==
    LET rank(i) == <<shapes[i].layer, -AreaOf(shapes[i].box), shapes[i].box[2],
                     shapes[i].box[1], shapes[i].source, i>>
        ranked == InOrder({rank(i) : i \in DOMAIN shapes}, Lexical)
    IN  [k \in 1..Least(Len(shapes), 4 * Most(layers, 1)) |-> shapes[ranked[k][6]]]

\* summarize_arrays: the box of all arrays of a cell.
ArrayUnion(insts) ==
    LET arrays == SelectSeq(insts, IsArray)
    IN  IF arrays = <<>> THEN NoBox
        ELSE FoldLeft(LAMBDA a, i : Merge(a, i.bbox), arrays[1].bbox, arrays)

\* build_cell_display_proxy
ProxyOf(db, c) ==
    LET insts == db.cells[c].instances
        stats == db.cells[c].stats
        place(i) == <<insts[i].bbox[2], insts[i].bbox[1],
                      insts[i].bbox[4] - insts[i].bbox[2],
                      insts[i].bbox[3] - insts[i].bbox[1], insts[i].source, i>>
        placed == InOrder({place(i) : i \in DOMAIN insts}, Lexical)
    IN  [bbox |-> db.cells[c].bbox,
         density |-> LET ls == InOrder(DOMAIN stats, LAMBDA a, b : a < b) IN
                     [k \in DOMAIN ls |-> [layer |-> ls[k], box |-> stats[ls[k]].bbox]],
         shapes |-> Representatives(db.cells[c].shapes, Cardinality(DOMAIN stats)),
         children |-> [k \in DOMAIN insts |-> insts[placed[k][6]]],
         array |-> ArrayUnion(insts)]

\* map_template_rect_to_instance: scaled into the instance's box, not turned.
MapTemplate(box, from, to) ==
    LET x(v) == to[1] + ((v - from[1]) * WidthOf(to)) \div WidthOf(from)
        y(v) == to[2] + ((v - from[2]) * HeightOf(to)) \div HeightOf(from)
    IN  Ordered(<<x(box[1]), y(box[2]), x(box[3]), y(box[4])>>)

\* push_proxy_shape
ProxyShape(box, vp, s) ==
    FrameItem(IF MaxSide(box) < SmallPx * vp.upp THEN "marker" ELSE "rect",
              box, s.source, s.layer)

ProxyDrawn(proxy, vp, inst) ==
    LET at(box) == MapTemplate(box, proxy.bbox, inst.box)
        shape(s) == ProxyShape(at(s.box), vp, s)
    IN  [k \in DOMAIN proxy.density |->
           FrameItem("rect", at(proxy.density[k].box), 0, proxy.density[k].layer)]
        \o [k \in DOMAIN proxy.shapes |-> shape(proxy.shapes[k])]
        \o [k \in DOMAIN proxy.children |->
              FrameItem("rect", at(proxy.children[k].bbox), proxy.children[k].source, 0)]
        \o IF proxy.array = NoBox THEN <<>> ELSE <<FrameItem("rect", at(proxy.array), 0, 0)>>
ProxyItems(db, vp, inst) == ProxyDrawn(ProxyOf(db, inst.child), vp, inst)

\* push_array_grid: the box and a cross through it.
ArrayGrid(box, source) ==
    LET x == box[1] + (box[3] - box[1]) \div 2
        y == box[2] + (box[4] - box[2]) \div 2
    IN  <<FrameItem("rect", box, source, 0),
          FrameItem("line", <<x, box[2], x, box[4]>>, source, 0),
          FrameItem("line", <<box[1], y, box[3], y>>, source, 0)>>

MidItems(db, at) ==
    LET draw(inst, d) ==
            CASE d = "Box"  -> <<FrameItem("rect", inst.arrayBox, inst.source, 0)>>
              [] d = "Grid" -> ArrayGrid(inst.arrayBox, inst.source)
              [] OTHER      -> <<FrameItem("rect", inst.box, inst.source, 0)>>
                               \o IF at.settings.proxies
                                  THEN ProxyItems(db, at.window, inst) ELSE <<>>
        all(first) == [k \in DOMAIN first |->
            draw(first[k][2], ArrayDecision(first[k][2], at.window, at.settings))]
    IN  IF ~at.objects.instances THEN <<>>
        ELSE FlattenSeq(all(FirstOfArrays(InstancesFor(db, at.window, at.view, at.policy))))

-----------------------------------------------------------------------------
(* Near, and the shapes of the top cell.                                   *)

\* push_expanded_hierarchy_shapes
ExpandedShapes(db, at) ==
    LET query == [view |-> at.view, viewport |-> at.window.world,
                  min |-> IF IsTopView(db, at.view) THEN 1 ELSE 0, max |-> at.policy.max,
                  layers |-> {}, kinds |-> {}, expand |-> TRUE, hidden |-> {}]
    IN  IF ~at.objects.instances THEN <<>>
        ELSE SelectSeq(CellViewShapes(db, query, at.policy),
                       LAMBDA s : SourcesMatch(at.layers, s.layer, s.kind))

\* Large objects and outlines are drawn at every zoom.
IsStableContext(s) ==
    \/ s.kind \in {"Die", "Core"}
    \/ s.context /\ s.kind \in {"RegularWire", "SpecialWire", "Via"}

ShowsTop(db, view, policy) ==
    IsTopView(db, view) /\ db.top \notin policy.hidden /\ policy.min = 0

\* push_top_level_context: all shapes of the top cell for near plans, and only
\* the stable ones for far and mid plans.
TopShapes(db, at) ==
    IF ~ShowsTop(db, at.view, at.policy) THEN <<>>
    ELSE QueryIndexed(db, db.top, ShapeQuery(at.window.world, AnyLayer, AnyKind))

StableContext(db, at) ==
    LET on(s) == SelectSeq(at.layers, LAMBDA l : LayerMatchesShape(l, s))
        draw(s, ls) == [i \in DOMAIN ls |->
                          Item("Hierarchy", ls[i].id, ls[i].style, "rect",
                               s.box, s.source, s.layer)]
        all(shapes) == FlattenSeq([k \in DOMAIN shapes |->
                                     draw(shapes[k], on(shapes[k]))])
    IN  all(SelectSeq(TopShapes(db, at), IsStableContext))

NearItems(db, at) ==
    LET push(a, shapes) == PushShapes(a, at.window, at.settings, at.layers, shapes)
    IN  push(push([taken |-> <<>>, items |-> <<>>], ExpandedShapes(db, at)),
             TopShapes(db, at)).items

-----------------------------------------------------------------------------
(* The plan.                                                               *)

\* What the key of a plan is a hash of; different contents are taken to have
\* different hashes.
CacheKey(vp, layers, settings, source, view, policy) ==
    [viewport |-> vp, layers |-> layers, settings |-> settings,
     source |-> source, view |-> view, policy |-> policy]

\* push_item stops at max_items: what is pushed after that is lost.
Made(at, source, items, left) ==
    [items |-> SubSeq(items, 1, Least(MaxItems, Len(items))),
     truncated |-> Len(items) > MaxItems, source |-> source, level |-> left,
     key |-> CacheKey(at.window, at.layers, at.settings, source, at.view, at.policy)]

\* The plan by the hierarchy; at is what was asked, shown the mode and the
\* hysteresis it leaves.
HierarchyPlan(db, at, shown) ==
    CASE shown.mode = "Far" ->
           Made(at, "HierarchyFar", FarItems(db, at) \o StableContext(db, at), shown.level)
      [] shown.mode = "Mid" ->
           Made(at, "HierarchyMid", MidItems(db, at) \o StableContext(db, at), shown.level)
      [] OTHER ->
           Made(at, IF HasInstances(db, at.view.target) THEN "HierarchyNear"
                    ELSE "FlatDetail", NearItems(db, at), shown.level)

\* The overview of a flat design comes first, when there is one and it fits.
PlanFrom(db, at, density, level, overview) ==
    IF at.layers = <<>> THEN Made(at, "FlatDetail", <<>>, at.previous)
    ELSE IF /\ density /\ level \in {"Far", "Mid"}
            /\ Len(overview) \in 1..MaxItems
    THEN Made(at, "OverviewDensity", overview, level)
    ELSE HierarchyPlan(db, at, HierarchyMode(db, at.view, at.window, at.settings, level))

\* plan_for_cell_view, with the hysteresis it starts from and leaves.
PlanFor(db, model, vp, settings, view, policy, previous) ==
    LET at == [window |-> vp, layers |-> ResolvedLayers(model), settings |-> settings,
               view |-> view, policy |-> policy, objects |-> model.objects,
               previous |-> previous]
        density == /\ ~HasInstances(db, view.target)
                   /\ IsTopView(db, view)
                   /\ HasOverview(db, vp, settings)
        level == IF density THEN ClassifyLod(vp.upp, settings, previous) ELSE previous
        plan(a) == PlanFrom(db, a, density, level,
                            IF density THEN OverviewItems(db, vp, a.layers) ELSE <<>>)
    IN  plan(at)

-----------------------------------------------------------------------------
(* Picking.                                                                *)

PickBox(x, y, tolerance) ==
    Ordered(<<x - tolerance, y - tolerance, x + tolerance + 1, y + tolerance + 1>>)

PickQuery(view, box, policy, min, expand) ==
    [view |-> view, viewport |-> box, min |-> min, max |-> policy.max,
     layers |-> {}, kinds |-> {}, expand |-> expand, hidden |-> {}]

MatchingShapes(db, layer, box, view, policy) ==
    SelectSeq(CellViewShapes(db, PickQuery(view, box, policy, policy.min, TRUE), policy),
              LAMBDA s : LayerMatchesShape(layer, s) /\ IsQueryable(s.kind))
MatchingInstances(db, box, view, policy) ==
    CellViewInstances(db, PickQuery(view, box, policy, Most(policy.min, 1), policy.expand),
                      policy)

NoPick == [target |-> "none"]
ShapeHit(layer, s) ==
    [target |-> "Shape", layer |-> layer.id, number |-> s.layer, kind |-> s.kind,
     source |-> s.source, box |-> s.box, cell |-> s.cell, depth |-> s.depth,
     path |-> s.path, shape |-> s.shape, child |-> 0]
InstanceHit(inst) ==
    [target |-> "Instance", layer |-> <<"hierarchy">>, number |-> 0, kind |-> "Instance",
     source |-> inst.source, box |-> inst.box, cell |-> inst.cell, depth |-> inst.depth,
     path |-> inst.path, shape |-> 0, child |-> inst.child]

\* Mutant: the smaller one first.
PickRankByArea(hit, x, y) ==
    LET dx == hit.box[1] + hit.box[3] - 2 * x
        dy == hit.box[2] + hit.box[4] - 2 * y
    IN  <<AreaOf(hit.box), dx * dx + dy * dy, hit.depth>>

\* pick_rank: the nearest centre, a shape before an instance, the smaller one,
\* the less deep one.
PickRank(hit, x, y) ==
    LET dx == hit.box[1] + hit.box[3] - 2 * x
        dy == hit.box[2] + hit.box[4] - 2 * y
    IN  <<dx * dx + dy * dy + (IF hit.target = "Instance" THEN 1 ELSE 0),
          AreaOf(hit.box), hit.depth>>

\* pick_for_cell_view: the first of the best candidates.
PickFor(db, model, x, y, tolerance, view, policy) ==
    LET box == PickBox(x, y, tolerance)
        hits(layer, shapes) == [k \in DOMAIN shapes |-> ShapeHit(layer, shapes[k])]
        onLayers(layers) == FlattenSeq([i \in DOMAIN layers |->
            hits(layers[i], MatchingShapes(db, layers[i], box, view, policy))])
        placed(insts) == [k \in DOMAIN insts |-> InstanceHit(insts[k])]
        better(best, hit) ==
            IF best = NoPick \/ Lexical(PickRank(hit, x, y), PickRank(best, x, y))
            THEN hit ELSE best
    IN  FoldLeft(better, NoPick,
                 onLayers(SelectSeq(ResolvedLayers(model), LAMBDA l : l.pickable))
                 \o IF model.objects.instances
                    THEN placed(MatchingInstances(db, box, view, policy)) ELSE <<>>)
=============================================================================
