------------------------------ MODULE LayoutDb ------------------------------
(***************************************************************************)
(* The viewer's in-memory database (crate layoutdb): cells with shapes and *)
(* placed instances, their spatial indexes, and the queries that flatten   *)
(* the hierarchy.  A cell is [bbox, shapes, instances, stats, index] with  *)
(* index the shape index as it was last built, NoIndex when a writer has   *)
(* dropped it; an instance is [id, child, dx, dy, orient, array, bbox,     *)
(* source].  The order of an R-tree's answers is taken to be the order of  *)
(* the instances.                                                          *)
(***************************************************************************)
EXTENDS PackageFormat

CONSTANT BinsPerAxis                       \* 128
ASSUME BinsAssumption == BinsPerAxis \in Nat \ {0}

-----------------------------------------------------------------------------
(* Placements: the affine maps of instances.                               *)

Affine(a, b, c, d, tx, ty) ==
    [a |-> a, b |-> b, c |-> c, d |-> d, tx |-> tx, ty |-> ty]
Identity == Affine(1, 0, 0, 1, 0, 0)

FromOrientation(orient, child, dx, dy) ==
    LET w == child[3] - child[1]  h == child[4] - child[2]
        x == child[1]             y == child[2]
    IN  CASE orient = "R90"   -> Affine(0, -1, 1, 0, dx + h + y, dy - x)
          [] orient = "R180"  -> Affine(-1, 0, 0, -1, dx + w + x, dy + h + y)
          [] orient = "R270"  -> Affine(0, 1, -1, 0, dx - y, dy + w + x)
          [] orient = "MX"    -> Affine(1, 0, 0, -1, dx - x, dy + h + y)
          [] orient = "MY"    -> Affine(-1, 0, 0, 1, dx + w + x, dy - y)
          [] orient = "MXR90" -> Affine(0, 1, 1, 0, dx - y, dy - x)
          [] orient = "MYR90" -> Affine(0, -1, -1, 0, dx + h + y, dy + w + x)
          [] OTHER            -> Affine(1, 0, 0, 1, dx - x, dy - y)

FromInstance(inst, child, column, row) ==
    LET t == FromOrientation(inst.orient, child, inst.dx, inst.dy)
    IN  [t EXCEPT !.tx = @ + column * inst.array.dx, !.ty = @ + row * inst.array.dy]

Then(f, g) ==
    Affine(f.a * g.a + f.b * g.c, f.a * g.b + f.b * g.d,
           f.c * g.a + f.d * g.c, f.c * g.b + f.d * g.d,
           f.a * g.tx + f.b * g.ty + f.tx, f.c * g.tx + f.d * g.ty + f.ty)

\* Mutant: two signs of the inverse are lost.
InverseUnsigned(f) ==
    LET det == f.a * f.d - f.b * f.c
    IN  Affine(f.d * det, f.b * det, f.c * det, f.a * det,
               (f.b * f.ty - f.d * f.tx) * det, (f.c * f.tx - f.a * f.ty) * det)

\* The determinant of a placement is 1 or -1, its own inverse.
InverseOf(f) ==
    LET det == f.a * f.d - f.b * f.c
    IN  Affine(f.d * det, -f.b * det, -f.c * det, f.a * det,
               (f.b * f.ty - f.d * f.tx) * det, (f.c * f.tx - f.a * f.ty) * det)

\* Two opposite corners decide: a placement turns by right angles only.
MapBox(f, b) ==
    LET at(x, y) == <<f.a * x + f.b * y + f.tx, f.c * x + f.d * y + f.ty>>
    IN  Ordered(at(b[1], b[2]) \o at(b[3], b[4]))

-----------------------------------------------------------------------------
(* The shape index of a cell: which shapes touch which bin.                *)

NoIndex == [built |-> FALSE]

BinFor(v, origin, extent) ==
    Clamp(((v - origin) * BinsPerAxis) \div Most(extent, 1), 0, BinsPerAxis - 1)

BinsFor(world, b) ==
    LET x(v) == BinFor(v, world[1], world[3] - world[1])
        y(v) == BinFor(v, world[2], world[4] - world[2])
    IN  (x(b[1])..x(b[3] - 1)) \X (y(b[2])..y(b[4] - 1))

FromShapes(world, shapes) ==
    [built |-> TRUE, world |-> world,
     bins |-> [i \in DOMAIN shapes |-> BinsFor(world, shapes[i].box)],
     layers |-> {s.layer : s \in Range(shapes)},
     layer |-> [i \in DOMAIN shapes |-> shapes[i].layer]]

AnyLayer == -1
AnyKind == "any"
ShapeQuery(viewport, layer, kind) ==
    [viewport |-> viewport, layer |-> layer, kind |-> kind]

\* Bin by bin, rows first, each shape once; a layer the cell has none of is
\* looked for among all shapes.
CandidateIndexes(index, query) ==
    LET wanted == BinsFor(index.world, query.viewport)
        of == {i \in DOMAIN index.bins :
                 /\ index.bins[i] \cap wanted # {}
                 /\ query.layer \in index.layers => index.layer[i] = query.layer}
        first(i) == CHOOSE b \in index.bins[i] \cap wanted :
                       \A c \in index.bins[i] \cap wanted :
                          b[2] < c[2] \/ (b[2] = c[2] /\ b[1] <= c[1])
    IN  InOrder(of, LAMBDA i, j : Lexical(<<first(i)[2], first(i)[1], i>>,
                                          <<first(j)[2], first(j)[1], j>>))

\* The index a query finds or builds.
EnsureIndex(cell) == IF cell.index.built THEN cell.index
                     ELSE FromShapes(cell.bbox, cell.shapes)

QueryIndexed(db, c, query) ==
    LET cell == db.cells[c]
        candidates == CandidateIndexes(EnsureIndex(cell), query)
        found == [i \in DOMAIN candidates |-> cell.shapes[candidates[i]]]
    IN  IF c \notin DOMAIN db.cells THEN <<>>
        ELSE SelectSeq(found, LAMBDA s :
               /\ Meets(s.box, query.viewport)
               /\ query.layer \in {AnyLayer, s.layer}
               /\ query.kind \in {AnyKind, s.kind})

QueryShapes(db, c, viewport) ==
    IF c \notin DOMAIN db.cells THEN <<>>
    ELSE SelectSeq(db.cells[c].shapes, LAMBDA s : Meets(s.box, viewport))

-----------------------------------------------------------------------------
(* Building a database.                                                    *)

NewCell(bbox) == [bbox |-> bbox, shapes |-> <<>>, instances |-> <<>>,
                  stats |-> << >>, index |-> NoIndex]

NewDb(world) ==
    [world |-> world, layers |-> <<>>, cells |-> <<NewCell(world)>>, top |-> 1,
     packageCells |-> [p \in {0} |-> 1], layerCounts |-> << >>,
     bins |-> <<>>]

StatsWith(stats, s) ==
    [l \in DOMAIN stats \cup {s.layer} |->
        IF l # s.layer THEN stats[l]
        ELSE IF l \notin DOMAIN stats THEN [bbox |-> s.box, count |-> 1]
        ELSE [bbox |-> Merge(stats[l].bbox, s.box), count |-> stats[l].count + 1]]

\* Adding a shape drops the cell's shape index.
AddShape(db, c, s) ==
    IF c \notin DOMAIN db.cells THEN db
    ELSE [db EXCEPT !.cells[c] =
            [@ EXCEPT !.shapes = Append(@, s), !.stats = StatsWith(@, s),
                      !.index = NoIndex]]
AddShapes(db, c, shapes) == FoldLeft(LAMBDA d, s : AddShape(d, c, s), db, shapes)

AddInstance(db, c, inst) ==
    IF inst.child \notin DOMAIN db.cells \/ c \notin DOMAIN db.cells THEN db
    ELSE [db EXCEPT !.cells[c].instances = Append(@, inst)]

ToShape(r, context) == [box |-> Ordered(r.box), layer |-> r.layer,
                        kind |-> r.kind, source |-> r.source, context |-> context]

\* The layer counts of a hierarchy document; layer 0 is not a drawn layer.
HierarchyLayerCounts(doc) ==
    LET all == UNION {{<<i, s>> : s \in doc.cells[i].summaries} : i \in DOMAIN doc.cells}
        layers == {p[2].layer : p \in all} \ {0}
    IN  [l \in layers |-> FoldSet(LAMBDA p, n : n + p[2].count, 0,
                                  {p \in all : p[2].layer = l})]

\* Cells first, so that an instance may name a cell that comes later; an
\* instance of a cell the document lacks is left out.
FromHierarchy(world, doc) ==
    LET n == Len(doc.cells)
        ids == [p \in {doc.cells[i].id : i \in 1..n} |->
                  CHOOSE i \in 1..n : /\ doc.cells[i].id = p
                                      /\ \A j \in 1..n : doc.cells[j].id = p => j <= i]
        empty == [NewDb(world) EXCEPT
                    !.cells = [i \in 1..n |-> NewCell(Ordered(doc.cells[i].bbox))],
                    !.top = IF doc.top \in DOMAIN ids THEN ids[doc.top] ELSE 1,
                    !.packageCells = ids,
                    !.layerCounts = HierarchyLayerCounts(doc)]
        known(cell) == SelectSeq(cell.instances, LAMBDA i : i.child \in DOMAIN ids)
        place(db, c, inst) ==
            AddInstance(db, c, [inst EXCEPT !.child = ids[inst.child],
                                            !.bbox = Ordered(@)])
        shapes(cell) == [i \in DOMAIN cell.shapes |-> ToShape(cell.shapes[i], FALSE)]
        fill(db, i) ==
            FoldLeft(LAMBDA d, inst : place(d, ids[doc.cells[i].id], inst),
                     AddShapes(db, ids[doc.cells[i].id], shapes(doc.cells[i])),
                     known(doc.cells[i]))
    IN  FoldLeft(fill, empty, [i \in 1..n |-> i])

OverviewBinsIn(db, viewport) == SelectSeq(db.bins, LAMBDA b : Meets(b.box, viewport))

-----------------------------------------------------------------------------
(* Views and paths.                                                        *)

Step(parent, inst, column, row, box) ==
    [parent |-> parent, id |-> inst.id, source |-> inst.source,
     child |-> inst.child, column |-> column, row |-> row, box |-> box]

FromPath(context, path) ==
    [context |-> context, path |-> path,
     target |-> IF path = <<>> THEN context ELSE path[Len(path)].child]
TopView(db) == FromPath(db.top, <<>>)
Ascend(view) ==
    FromPath(view.context,
             IF view.path = <<>> THEN <<>> ELSE SubSeq(view.path, 1, Len(view.path) - 1))

ViewStack(view) == {view.context} \cup {view.path[i].parent : i \in DOMAIN view.path}
                                  \cup {view.path[i].child : i \in DOMAIN view.path}

-----------------------------------------------------------------------------
(* Which elements of an array can meet a window: DivFloor and DivCeil for  *)
(* divisors of either sign.                                                *)

DivFloor(n, d) == IF d > 0 THEN n \div d ELSE (-n) \div (-d)
DivCeil(n, d) == -DivFloor(-n, d)

SteppedRange(count, step, low, high, from, to) ==
    LET minDelta == from - high + 1
        maxDelta == to - low - 1
        first == DivCeil(IF step > 0 THEN minDelta ELSE maxDelta, step)
        last == DivFloor(IF step > 0 THEN maxDelta ELSE minDelta, step)
    IN  IF count = 0 THEN {}
        ELSE IF step = 0 THEN IF low < to /\ high > from THEN 0..(count - 1) ELSE {}
        ELSE Clamp(first, 0, count)..(Clamp(last + 1, 0, count) - 1)

Columns(inst) == Most(inst.array.columns, 1)
Rows(inst) == Most(inst.array.rows, 1)
IsArray(inst) == Columns(inst) * Rows(inst) > 1

\* compact_array_candidate_ranges, row by row; first is the box of the first
\* element.
ArraySpots(inst, first, window) ==
    SteppedRange(Rows(inst), inst.array.dy, first[2], first[4], window[2], window[4])
    \X SteppedRange(Columns(inst), inst.array.dx, first[1], first[3],
                    window[1], window[3])
ArrayCandidates(inst, child, window) ==
    InOrder(ArraySpots(inst, MapBox(FromInstance(inst, child, 0, 0), child), window),
            Lexical)

\* The envelopes of the R-trees are closed: touching is enough.
Touches(b, w) == b[1] <= w[3] /\ w[1] <= b[3] /\ b[2] <= w[4] /\ w[2] <= b[4]

-----------------------------------------------------------------------------
(* The traversals.  A query is [view, viewport, min, max, layers, kinds,   *)
(* expand, hidden]; a position in the hierarchy is [cell, depth, left, tf, *)
(* instance, path, above] with above the cells on the way down.            *)

Root(cell, path, max) ==
    [cell |-> cell, depth |-> 0, left |-> max, tf |-> Identity, instance |-> 0,
     path |-> path, above |-> {}]

\* An element of an instance, placed by tf.
ElementAt(at, inst, column, row, tf, box) ==
    [cell |-> inst.child, depth |-> at.depth + 1, left |-> at.left - 1, tf |-> tf,
     instance |-> inst.id, above |-> at.above \cup {at.cell}, box |-> box,
     path |-> Append(at.path, Step(at.cell, inst, column, row, box)),
     inst |-> inst, arrayBox |-> MapBox(at.tf, inst.bbox)]
ElementBy(at, inst, column, row, tf, child) ==
    ElementAt(at, inst, column, row, tf, MapBox(tf, child))
Element(db, at, inst, column, row) ==
    LET child == db.cells[inst.child].bbox
    IN  ElementBy(at, inst, column, row,
                  Then(at.tf, FromInstance(inst, child, column, row)), child)

\* The instances a traversal looks at through the window of the cell.
Open(db, q, at, window) ==
    SelectSeq(db.cells[at.cell].instances, LAMBDA i :
        i.child \notin q.hidden \cup at.above \cup {at.cell} /\ Touches(i.bbox, window))

\* Their elements, single ones before arrays.
ElementsIn(db, q, at, window) ==
    LET in == Open(db, q, at, window)
        spots(inst) == ArrayCandidates(inst, db.cells[inst.child].bbox, window)
        spread(inst, all) == [k \in DOMAIN all |->
                                Element(db, at, inst, all[k][2], all[k][1])]
        each(inst) == IF ~IsArray(inst) THEN <<Element(db, at, inst, 0, 0)>>
                      ELSE IF q.expand THEN spread(inst, spots(inst)) ELSE <<>>
        order == SelectSeq(in, LAMBDA i : ~IsArray(i)) \o SelectSeq(in, IsArray)
    IN  FlattenSeq([k \in DOMAIN order |-> each(order[k])])

\* The elements a traversal goes into.
Placements(db, q, at) ==
    SelectSeq(ElementsIn(db, q, at, MapBox(InverseOf(at.tf), q.viewport)),
              LAMBDA p : Meets(p.box, q.viewport))

\* The shapes of the cell itself that a query takes.
OwnShapes(db, q, at) ==
    LET shapes == db.cells[at.cell].shapes
        record(i) == [box |-> MapBox(at.tf, shapes[i].box), layer |-> shapes[i].layer,
                      kind |-> shapes[i].kind, source |-> shapes[i].source,
                      instance |-> at.instance, cell |-> at.cell, depth |-> at.depth,
                      path |-> at.path, shape |-> i]
    IN  SelectSeq([i \in DOMAIN shapes |-> record(i)], LAMBDA s :
          /\ at.depth >= q.min
          /\ Meets(s.box, q.viewport)
          /\ q.layers = {} \/ s.layer \in q.layers
          /\ q.kinds = {} \/ s.kind \in q.kinds)

Hidden(db, q, at) == at.cell \in q.hidden \/ at.cell \notin DOMAIN db.cells

RECURSIVE CollectShapes(_, _, _)
CollectShapes(db, q, at) ==
    LET inside(below) == FlattenSeq([k \in DOMAIN below |->
                                       CollectShapes(db, q, below[k])])
    IN  IF Hidden(db, q, at) THEN <<>>
        ELSE OwnShapes(db, q, at)
             \o IF at.left = 0 THEN <<>> ELSE inside(Placements(db, q, at))

InstanceRecord(at, inst, box, arrayBox, column, row, path) ==
    [box |-> box, arrayBox |-> arrayBox, id |-> inst.id, source |-> inst.source,
     cell |-> at.cell, child |-> inst.child, columns |-> Columns(inst),
     rows |-> Rows(inst), column |-> column, row |-> row, depth |-> at.depth + 1,
     path |-> path]

\* With arrays expanded: every element, and what is placed inside it.
RECURSIVE CollectExpanded(_, _, _)
CollectExpanded(db, q, at) ==
    LET step(p) == p.path[Len(p.path)]
        each(p) == (IF p.depth < q.min THEN <<>>
                    ELSE <<InstanceRecord(at, p.inst, p.box, p.arrayBox,
                                          step(p).column, step(p).row, p.path)>>)
                   \o CollectExpanded(db, q, p)
        all(below) == FlattenSeq([k \in DOMAIN below |-> each(below[k])])
    IN  IF Hidden(db, q, at) \/ at.left = 0 THEN <<>>
        ELSE all(Placements(db, q, at))

\* Without: one record for an array, by the box the document gives it, and
\* nothing of what is inside its elements.
RECURSIVE CollectUnexpanded(_, _, _)
CollectUnexpanded(db, q, at) ==
    LET seen == SelectSeq(db.cells[at.cell].instances, LAMBDA i :
                   /\ i.child \notin q.hidden \cup at.above \cup {at.cell}
                   /\ Meets(MapBox(at.tf, i.bbox), q.viewport))
        inside(i, box) ==
            ElementAt(at, i, 0, 0,
                Then(at.tf, FromInstance(i, db.cells[i.child].bbox, 0, 0)), box)
        each(i, p) == (IF p.depth < q.min THEN <<>>
                       ELSE <<InstanceRecord(at, i, p.box, p.box, 0, 0, p.path)>>)
                      \o IF IsArray(i) THEN <<>> ELSE CollectUnexpanded(db, q, p)
        all(in) == FlattenSeq([k \in DOMAIN in |->
                     each(in[k], inside(in[k], MapBox(at.tf, in[k].bbox)))])
    IN  IF Hidden(db, q, at) \/ at.left = 0 THEN <<>> ELSE all(seen)

-----------------------------------------------------------------------------
(* The queries.                                                            *)

\* query_cell_view_shapes: from the cell of the view, in its own coordinates,
\* within the depths both the query and the policy allow.
CellViewShapes(db, q, policy) ==
    CollectShapes(db, [q EXCEPT !.min = Most(@, policy.min), !.expand = policy.expand,
                                !.hidden = policy.hidden],
                  Root(q.view.target, q.view.path, Least(q.max, policy.max)))

CellViewInstances(db, q, policy) ==
    LET merged == [q EXCEPT !.min = Most(@, policy.min), !.hidden = policy.hidden,
                            !.expand = @ /\ policy.expand]
        root == Root(q.view.target, q.view.path, Least(q.max, policy.max))
    IN  IF merged.expand THEN CollectExpanded(db, merged, root)
        ELSE CollectUnexpanded(db, merged, root)

\* The queries without a view: from the top cell, nothing hidden.
FromTop(db, q) == [q EXCEPT !.hidden = {}, !.layers = {}, !.kinds = {}]

CollectHierarchyShapes(db, q) ==
    CollectShapes(db, [FromTop(db, q) EXCEPT !.expand = TRUE], Root(db.top, <<>>, q.max))
CollectHierarchyInstances(db, q) ==
    CollectExpanded(db, FromTop(db, q), Root(db.top, <<>>, q.max))
CollectHierarchyUnexpanded(db, q) ==
    CollectUnexpanded(db, FromTop(db, q), Root(db.top, <<>>, q.max))

RecursiveShapes(db, q) ==
    SelectSeq(CollectHierarchyShapes(db, q),
              LAMBDA s : /\ q.layers = {} \/ s.layer \in q.layers
                         /\ q.kinds = {} \/ s.kind \in q.kinds)
RecursiveInstances(db, q) ==
    IF q.expand THEN CollectHierarchyInstances(db, q)
                ELSE CollectHierarchyUnexpanded(db, q)

-----------------------------------------------------------------------------
(* The rows of the hierarchy tree.  An instance of a cell that is already  *)
(* on the way down gets a row and is not opened.                           *)

TreeRow(db, depth, cell, path) ==
    [depth |-> depth, cell |-> cell, path |-> path,
     box |-> IF path = <<>> THEN db.cells[cell].bbox ELSE path[Len(path)].box,
     children |-> Len(db.cells[cell].instances), shapes |-> Len(db.cells[cell].shapes)]

RECURSIVE RowsUnder(_, _, _, _, _, _, _)
RowsUnder(db, cell, tf, path, above, depth, maxDepth) ==
    LET open(inst, t, p) ==
            <<TreeRow(db, depth + 1, inst.child, p)>>
            \o IF inst.child \in above THEN <<>>
               ELSE RowsUnder(db, inst.child, t, p, above \cup {inst.child},
                              depth + 1, maxDepth)
        at(inst, column, row, t) ==
            open(inst, t, Append(path, Step(cell, inst, column, row,
                                            MapBox(t, db.cells[inst.child].bbox))))
        spots(inst) == InOrder((0..(Rows(inst) - 1)) \X (0..(Columns(inst) - 1)), Lexical)
        each(inst, all) ==
            FlattenSeq([k \in DOMAIN all |->
               at(inst, all[k][2], all[k][1],
                  Then(tf, FromInstance(inst, db.cells[inst.child].bbox,
                                        all[k][2], all[k][1])))])
        insts == db.cells[cell].instances
    IN  IF depth >= maxDepth THEN <<>>
        ELSE FlattenSeq([k \in DOMAIN insts |-> each(insts[k], spots(insts[k]))])

\* The first rows in depth-first order, and whether there were more.
TreeRows(db, view, maxDepth, maxRows) ==
    LET root == [TreeRow(db, 0, view.target, view.path)
                   EXCEPT !.box = db.cells[view.target].bbox]
        cut(all) == [rows |-> SubSeq(all, 1, Least(maxRows, Len(all))),
                     truncated |-> Len(all) > maxRows]
    IN  IF view.target \notin DOMAIN db.cells THEN [rows |-> <<>>, truncated |-> FALSE]
        ELSE cut(<<root>> \o RowsUnder(db, view.target, Identity, view.path,
                                       ViewStack(view) \cup {view.target}, 0, maxDepth))
=============================================================================
