---------------------------- MODULE MCLayoutView ----------------------------
(***************************************************************************)
(* Two packages for TLC, and the properties of what a viewer is shown.     *)
(* The flat one is what the packer makes of a design without instances;    *)
(* in the nested one the cell document has a mirrored cell inside a turned *)
(* one and a two-way array with a negative step, and one object of the     *)
(* detail tiles belongs to a cell.                                         *)
(***************************************************************************)
EXTENDS LayoutView

Object(id) == [NoFields EXCEPT !.id = id]
Named(id, name) == [Object(id) EXCEPT !.name = name]
\* A cell master; the only rectangle of its first pin is a line.
Port(rect) == [NoFields EXCEPT !.layer_id = 1, !.rects = <<rect>>]
Master == [id |-> 1, name |-> "NAND", size |-> <<2, 3>>,
           pins |-> <<[name |-> "A", ports |-> <<Port(<<1, 1, 1, 2>>)>>],
                      [name |-> "Y", ports |-> <<Port(<<0, 0, 1, 3>>)>>]>>]

Design(wires) ==
    [files |-> {"die", "layers", "regular_wires", "special_wires", "blockages",
                "cell_masters", "io_pins", "regular_nets", "special_nets"},
     bbox |-> <<0, 0, 16, 12>>,
     die |-> [die_area |-> <<0, 0, 16, 12>>, bbox |-> NoBox,
              core_area |-> <<1, 1, 15, 11>>],
     layers |-> <<[id |-> 1, cut |-> FALSE], [id |-> 2, cut |-> FALSE]>>,
     regular_wires |-> wires,
     special_wires |-> <<[Object(13) EXCEPT !.layer_id = 2, !.rect = <<0, 7, 16, 8>>,
                                            !.special_net_id = 1]>>,
     cell_masters |-> <<Master>>,
     io_pins |-> <<[Named(18, "clk_in") EXCEPT !.bbox = <<13, 9, 14, 11>>,
                                                !.layer_id = 1, !.net_id = 1]>>,
     regular_nets |-> <<Named(1, "clk"), Named(2, "data")>>,
     special_nets |-> <<Named(1, "VDD")>>,
     blockages |-> <<[Object(14) EXCEPT !.layer_id = 1, !.rect = <<5, 4, 10, 7>>]>>]

\* What the packer leaves on disk for a source.
Packed(src) ==
    [source |-> src,
     manifest |-> [world |-> WorldBox(src), boundaries |-> Boundaries(src, WorldBox(src))],
     layers |-> <<[id |-> 1, role |-> <<"Metal", 1>>],
                  [id |-> 2, role |-> <<"TopMetal", 2>>]>>,
     scopes |-> {}] @@ PackageFiles(src, src)

\* A via of the regular wires has the id of a special wire.
FlatDisk == Packed(Design(<<
    [Object(11) EXCEPT !.layer_id = 1, !.width = 1, !.points = <<<<2, 2>>, <<2, 9>>>>],
    [Object(12) EXCEPT !.layer_id = 2, !.rect = <<3, 3, 6, 6>>, !.net_id = 2],
    [Object(13) EXCEPT !.kind = "via", !.layers = <<2>>, !.bbox = <<9, 4, 11, 6>>,
                       !.net_id = 1],
    [Object(15) EXCEPT !.layer_id = 2, !.rect = <<4, 3, 6, 5>>],
    [Object(16) EXCEPT !.layer_id = 2, !.rect = <<4, 4, 6, 6>>]>>))

Single == [columns |-> 1, rows |-> 1, dx |-> 0, dy |-> 0]
Placed(id, child, dx, dy, orient, array, bbox) ==
    [id |-> id, child |-> child, dx |-> dx, dy |-> dy, orient |-> orient,
     array |-> array, bbox |-> bbox, source |-> id]
NestedCells ==
    [top |-> 0, cells |->
       <<Cell(0, <<0, 0, 16, 12>>,
              <<Record(<<0, 0, 16, 12>>, 0, "Die", 0)>>,
              <<Placed(31, 1, 1, 1, "R90", Single, <<1, 1, 5, 7>>),
                Placed(32, 2, 8, 9, "R270",
                       [columns |-> 2, rows |-> 2, dx |-> 3, dy |-> -4],
                       <<8, 5, 14, 11>>)>>),
         Cell(1, <<0, 0, 6, 4>>,
              <<Record(<<0, 0, 6, 1>>, 2, "SpecialWire", 22),
                Record(<<4, 2, 6, 4>>, 1, "Blockage", 23)>>,
              <<Placed(33, 2, 1, 1, "MX", Single, <<1, 1, 3, 4>>)>>),
         Cell(MasterCell(Master.id), <<0, 0, 2, 3>>, PortShapes(Master), <<>>)>>]

NestedDisk ==
    [Packed(Design(<<[Object(24) EXCEPT !.layer_id = 1, !.rect = <<0, 3, 3, 4>>]>>))
       EXCEPT !.hierarchy = NestedCells,
              !.source = [instances |-> <<Named(31, "u1"), Named(32, "u2")>>]
                         @@ [@ EXCEPT !.files = @ \cup {"instances"}],
              !.scopes = {[source |-> 24, cell |-> 1, coordinates |-> "CellLocal"]}]

MCDisks == {FlatDisk, NestedDisk}
MCPyramidUnits == <<2, 4>>
Window(world, upp) == [world |-> world, upp |-> upp,
                       width |-> (world[3] - world[1]) \div upp,
                       height |-> (world[4] - world[2]) \div upp]
MCWindows == {Window(<<0, 0, 16, 12>>, 4), Window(<<0, 0, 16, 12>>, 2),
              Window(<<9, 6, 15, 10>>, 2), Window(<<2, 1, 10, 7>>, 1)}
MCLoads == {<<2, 1, 10, 7>>}
Wide == [min |-> 0, max |-> 2, expand |-> TRUE, hidden |-> {}]
MCPolicies == {Wide, [Wide EXCEPT !.min = 1, !.max = 1, !.expand = FALSE]}
Resting == [fill |-> 1, bbox |-> 4, coarse |-> 2, idle |-> 2, arrayBox |-> 4,
            arrayGrid |-> 2, force |-> FALSE, proxies |-> TRUE]
MCSettings == {Resting, [Resting EXCEPT !.force = TRUE]}
MCSpots == {<<0, 0>>, <<1, 5>>, <<4, 0>>, <<6, 1>>, <<7, 4>>}
MCClicks == {<<4, 4, 0>>, <<9, 6, 1>>, <<13, 10, 0>>}

-----------------------------------------------------------------------------
(* The layout flattened the plain way: the contents of a placed cell are   *)
(* turned about the origin and moved until the corner of the turned cell   *)
(* is where the instance says.                                             *)

PlacedBox(b, inst, cell, column, row) ==
    LET corner == RotateBox(cell, inst.orient)
    IN  Shift(RotateBox(b, inst.orient), inst.dx - corner[1] + column * inst.array.dx,
              inst.dy - corner[2] + row * inst.array.dy)

ShapeOf(s, depth) == [what |-> "shape", box |-> s.box, layer |-> s.layer,
                      kind |-> s.kind, source |-> s.source, depth |-> depth]
CellOf(box, inst, depth) == [what |-> "cell", box |-> box, layer |-> 0,
                             kind |-> "Instance", source |-> inst.source, depth |-> depth]

\* Everything in cell c down to max, in the coordinates of c.
RECURSIVE Flat(_, _, _, _)
Flat(c, max, expand, hidden) ==
    LET cell == session.db.cells[c]
        own == [i \in DOMAIN cell.shapes |-> ShapeOf(cell.shapes[i], 0)]
        child(inst) == session.db.cells[inst.child].bbox
        element(inst, column, row) ==
            LET inner == Flat(inst.child, max - 1, expand, hidden)
                put(b) == PlacedBox(b, inst, child(inst), column, row)
            IN  <<CellOf(put(child(inst)), inst, 1)>>
                \o [k \in DOMAIN inner |-> [inner[k] EXCEPT !.box = put(@),
                                                            !.depth = @ + 1]]
        under(inst) ==
            IF inst.child \in hidden THEN <<>>
            ELSE IF IsArray(inst) /\ ~expand THEN <<CellOf(inst.bbox, inst, 1)>>
            ELSE FlattenSeq([n \in 1..(Columns(inst) * Rows(inst)) |->
                    element(inst, (n - 1) % Columns(inst), (n - 1) \div Columns(inst))])
    IN  IF c \in hidden THEN <<>>
        ELSE own \o IF max = 0 THEN <<>>
                    ELSE FlattenSeq([i \in DOMAIN cell.instances |->
                                       under(cell.instances[i])])

Times(seq, r) == Len(SelectSeq(seq, LAMBDA s : s = r))
SameBag(s, t) == \A r \in Range(s) \cup Range(t) : Times(s, r) = Times(t, r)

Seen(all, what, min) ==
    SelectSeq(all, LAMBDA r : r.what = what /\ Meets(r.box, window.world)
                              /\ r.depth >= min)
Shapes(found) == [i \in DOMAIN found |-> ShapeOf(found[i], found[i].depth)]
PlacedCells(found) == [i \in DOMAIN found |->
                         CellOf(found[i].box, found[i], found[i].depth)]

\* ViewQueryIsFlattening: for every cell view, policy and window the shapes and
\* the placed cells that the hierarchical queries find, through the transforms,
\* the instance index and the arithmetic on arrays, are those of the layout
\* flattened the plain way, each as often.
ViewQueryIsFlattening ==
    /\ answer.op = "view" =>
         LET all == Flat(view.target, policy.max, policy.expand, policy.hidden)
         IN  /\ SameBag(Shapes(answer.shapes), Seen(all, "shape", policy.min))
             /\ SameBag(PlacedCells(answer.instances),
                        Seen(all, "cell", policy.min))
    /\ answer.op = "top" =>
         LET all == Flat(session.db.top, policy.max, TRUE, {})
         IN  /\ SameBag(Shapes(answer.shapes), Seen(all, "shape", policy.min))
             /\ SameBag(PlacedCells(answer.instances), Seen(all, "cell", policy.min))

\* What the planner may draw of the view when it is near.
Drawable ==
    LET all == Flat(view.target, policy.max, policy.expand, policy.hidden)
    IN  SelectSeq(Seen(all, "shape", policy.min), LAMBDA s :
          model.objects.instances \/ (s.depth = 0 /\ IsTopView(session.db, view)))

NearIsComplete(items) ==
    LET layers == Range(ResolvedLayers(model))
        shows(l, s) == LayerMatchesShape(l, s)
        is(i, l, s) == i.layer = l.id /\ i.box = s.box /\ i.source = s.source
        \* what took a place on the screen
        thin == SelectSeq(items, LAMBDA i :
                  /\ i.plane \in {"Frame", "Marker"}
                  /\ [i EXCEPT !.plane = "Fill"] \notin Range(items)
                  /\ i.layer \in {<<"layer", n>> : n \in 1..2})
        at(bin) == SelectSeq(thin, LAMBDA i : BinOf(window, i.box) = bin)
    IN  /\ \A s \in Range(Drawable), l \in layers : shows(l, s) =>
             \/ \E i \in Range(items) : is(i, l, s)
             \/ Len(at(BinOf(window, s.box))) >= Least(MaxFramesPerBin, MaxMarkersPerBin)
        /\ \A i \in Range(items) :
             \E s \in Range(Drawable), l \in layers : shows(l, s) /\ is(i, l, s)
        /\ \A i \in Range(thin) : Len(at(BinOf(window, i.box))) <= MaxQuadsPerBin

\* The placed cells a far or mid plan stands for: arrays as one box.
Boxes == IF ~model.objects.instances THEN {}
         ELSE {r \in Range(Flat(view.target, policy.max, FALSE, policy.hidden)) :
                 /\ r.what = "cell" /\ Meets(r.box, window.world)
                 /\ r.depth >= Most(policy.min, 1)}
Stable == {s \in Range(session.db.cells[session.db.top].shapes) : IsStableContext(s)}

CoarseIsComplete(items, thinned) ==
    /\ thinned \/ \A c \in Boxes : \E i \in Range(items) :
                      i.layer = <<"hierarchy">> /\ i.box = c.box /\ i.source = c.source
    /\ \A i \in Range(items) :
         IF i.layer = <<"hierarchy">> THEN \E c \in Boxes : Within(i.box, c.box)
         ELSE \E s \in Stable : i.box = s.box /\ i.source = s.source

\* PlanDrawsWhatIsThere: a near plan that was not cut short draws, on every
\* visible layer that shows it, each shape of the flattened view that meets the
\* window, unless the screen is full where its centre is; it draws nothing
\* else, and no part of the screen takes more than its share.  A mid plan, and
\* a far plan whose boxes need no thinning, shows the box of every placed cell;
\* what stands for the contents of a cell stays inside it.
PlanDrawsWhatIsThere ==
    (answer.op = "plan" /\ ~answer.plan.truncated) =>
        LET items == answer.plan.items  source == answer.plan.source IN
        CASE source \in {"FlatDetail", "HierarchyNear"} -> NearIsComplete(items)
          [] source = "HierarchyMid" -> CoarseIsComplete(items, FALSE)
          [] source = "HierarchyFar" ->
               CoarseIsComplete(items, Cardinality(Boxes) > FarBudget(window))
          [] OTHER -> TRUE

\* PickFindsTheNearest: a click finds something exactly when a visible layer
\* shows a shape that can be picked, or a placed cell is shown, under it; and
\* nothing under the click has its centre clearly nearer than what was found.
PickFindsTheNearest ==
    answer.op = "pick" =>
        LET x == answer.click[1]  y == answer.click[2]  t == answer.click[3]
            box == <<x - t, y - t, x + t + 1, y + t + 1>>
            all == Flat(view.target, policy.max, policy.expand, policy.hidden)
            far(b) == LET dx == b[1] + b[3] - 2 * x  dy == b[2] + b[4] - 2 * y
                      IN  dx * dx + dy * dy
            under == {r \in Range(all) :
                        /\ Meets(r.box, box) /\ r.depth >= policy.min
                        /\ \/ r.what = "cell" /\ model.objects.instances
                           \/ /\ r.what = "shape" /\ IsQueryable(r.kind)
                              /\ \E l \in Range(ResolvedLayers(model)) :
                                    l.pickable /\ LayerMatchesShape(l, r)}
        IN  /\ answer.hit = NoPick <=> under = {}
            /\ answer.hit # NoPick =>
                 /\ \E r \in under : r.box = answer.hit.box /\ r.source = answer.hit.source
                 /\ \A r \in under : far(answer.hit.box) <= far(r.box) + 1

-----------------------------------------------------------------------------
(* What is painted.                                                        *)

\* The part of the layout a pixel stands for, and so many pixels around it.
PixelBox(p, around) ==
    LET left == window.world[1] + p[1] * window.upp
        upper == window.world[4] - p[2] * window.upp
        margin == around * window.upp
    IN  <<left - margin, upper - window.upp - margin,
          left + window.upp + margin, upper + margin>>

\* The outline of a box has a part in the window.
OutlineShows(box) ==
    /\ Meets(box, window.world)
    /\ ~Within(window.world, box)

\* A line is in the window, not only along its edge.
LineShows(box) ==
    /\ box[1] < window.world[3] /\ box[3] >= window.world[1]
    /\ box[2] <= window.world[4] /\ box[4] > window.world[2]

\* PlaneShowsThePlan: a frame whose outline is in the window, and a marker,
\* leaves a painted pixel where it is, a line leaves one in each column and
\* row it goes through, and no pixel is painted further than one from an item.
\* A click on a painted pixel of a near plan finds something: what is seen can
\* be picked, through the planner, the raster, the view and the picker.
PlaneShowsThePlan ==
    /\ answer.op = "painted" =>
         LET items == Range(answer.plan.items)  pixels == answer.pixels IN
         /\ \A i \in items :
               IF i.form = "line" THEN
                    LineShows(i.box) =>
                       LET part == Common(i.box, window.world) IN
                       \A p \in PlaneOf(window) :
                          LET cell == PixelBox(p, 0) IN
                          /\ cell[1] <= part[3] /\ part[1] < cell[3]
                          /\ cell[2] < part[4] /\ part[2] <= cell[4]
                          => p \in pixels
               ELSE (i.plane # "Fill" /\ OutlineShows(i.box)) =>
                       \E p \in pixels : Meets(PixelBox(p, 0), i.box)
         /\ \A p \in pixels : \E i \in items :
               LET b == i.box IN
               Meets(PixelBox(p, 1), <<b[1], b[2], Most(b[3], b[1] + 1), Most(b[4], b[2] + 1)>>)
    /\ answer.op = "touched" /\ answer.lit
       /\ answer.source \in {"FlatDetail", "HierarchyNear"} => answer.hit # NoPick

-----------------------------------------------------------------------------
(* What the sidebar says of a picked object.                               *)

\* The wires and vias of a file that the packer can have made the hit from.
MadeFrom(hit, file, kind) ==
    {it \in Range(SourceItems(disk.source, file)) :
       /\ it.id = hit.source
       /\ \/ hit.kind = kind
          \/ /\ hit.kind = "Via"
             /\ \E r \in Range(WireRecords(ViaResolver(disk.source), it, kind)) :
                   r.kind = "Via" /\ r.layer = hit.number /\ Within(hit.box, r.box)}
WiresOf(hit) == MadeFrom(hit, "regular_wires", "RegularWire")
                \cup MadeFrom(hit, "special_wires", "SpecialWire")

NetsOf(items) ==
    {<<n.name>> : n \in UNION {{m \in Range(SourceItems(disk.source, NetRef(it)[1])) :
                                  m.id = NetRef(it)[2]} :
                               it \in {i \in items : NetRef(i) # Unknown}}}

\* The pins of the masters one of whose rectangles the shape is, in the
\* coordinates of its cell.
PinsAt(hit) ==
    LET box == session.db.cells[hit.cell].shapes[hit.shape].box
        has(p) == \E q \in Range(p.ports) : box \in Range(q.rects)
    IN  UNION {{<<m.name, p.name>> : p \in {r \in Range(m.pins) : has(r)}} :
               m \in {c \in Range(SourceItems(disk.source, "cell_masters")) :
                        c.id = hit.source}}

\* Wires of both kinds have the id, and the box has been cut.
IsAmbiguous(hit) ==
    /\ hit.kind = "Via"
    /\ \A f \in {"regular_wires", "special_wires"} :
         \E it \in Range(SourceItems(disk.source, f)) : it.id = hit.source

\* SelectionTellsTheSource: once the names are read, the sidebar gives a picked
\* wire or via the net of the source item the packer made it from, or none when
\* that cannot be told, and a picked pin of a placed cell the name of the pin
\* whose rectangle was clicked; every other object has the name of its item.
SelectionTellsTheSource ==
    (answer.op = "pick" /\ answer.named) => \A row \in answer.rows :
        LET hit == answer.hit
            nets == NetsOf(WiresOf(hit))
        IN  /\ hit.kind \in {"RegularWire", "SpecialWire", "Via"} =>
                 IF row.net = Unknown THEN nets = {} \/ IsAmbiguous(hit)
                 ELSE row.net \in nets
            /\ hit.kind = "IoPin" /\ IsHierarchyCellShape(hit) =>
                 row.name # Unknown /\ row.name \in PinsAt(hit)
            /\ row.name # Unknown /\ hit.kind # "Via" => \E f \in row.files :
                 \E it \in Range(SourceItems(disk.source, f)) :
                    it.id = hit.source /\ it.name = row.name[1]
=============================================================================
