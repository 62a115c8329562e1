---------------------------- MODULE RenderSurface ----------------------------
(***************************************************************************)
(* The painting of a plan into a plane of pixels (render_surface.rs and    *)
(* raster_plane.rs), and the way from a pixel back to the layout that a    *)
(* click takes (main.rs).  The plane of a viewport has its width and its   *)
(* height, and <<0, 0>> is its upper left pixel while the layout's y goes  *)
(* up.  Of a plane the set of its painted pixels is kept and no colours:   *)
(* no pixel is unpainted by what is painted later.                         *)
(***************************************************************************)
EXTENDS RenderPlan

CONSTANTS
    PatternTile,                   \* PATTERN_TILE_PX
    SparseSpacing, DenseSpacing,   \* SPARSE_DOT_SPACING_PX, DENSE_DOT_SPACING_PX
    RasterItems, RasterOps,        \* NEAR_RASTER_ITEM_THRESHOLD, NEAR_RASTER_OPS_THRESHOLD
    ClickPx                        \* the tolerance of a click, in pixels

ASSUME SurfaceAssumption ==
    /\ {PatternTile, SparseSpacing, DenseSpacing} \subseteq Nat \ {0}
    /\ {RasterItems, RasterOps, ClickPx} \subseteq Nat

Ceiling(n, d) == -((-n) \div d)
\* Integer division of the code: towards zero.
Quotient(n, d) ==
    LET q == Most(n, -n) \div Most(d, -d)
    IN  IF (n >= 0) = (d > 0) THEN q ELSE -q

\* estimated_vector_paint_ops
PaintOps(items) ==
    LET cost(i) ==
            LET patterned == i.plane \in {"Fill", "Frame"} IN
            CASE patterned /\ i.style.pattern = "CrossHatch" -> 4
              [] patterned /\ i.style.pattern \in {"DiagonalHatch", "DenseDots"} -> 3
              [] patterned /\ i.style.pattern = "SparseDots" -> 2
              [] OTHER -> IF i.plane = "Frame" THEN 2 ELSE 1
    IN  FoldLeft(LAMBDA sum, i : sum + cost(i), 0, items)

\* use_plane_renderer: always, except for a small and plain plan of detail.
PaintsPlane(plan) ==
    \/ plan.source \notin {"HierarchyNear", "FlatDetail"}
    \/ Len(plan.items) >= RasterItems
    \/ PaintOps(plan.items) >= RasterOps

-----------------------------------------------------------------------------
(* From the layout to the pixels and back.                                 *)

\* Mutant: the layout is painted upside down.
CanvasBoxTurned(vp, b) ==
    <<(b[1] - vp.world[1]) \div vp.upp, (b[2] - vp.world[2]) \div vp.upp,
      Ceiling(b[3] - vp.world[1], vp.upp), Ceiling(b[4] - vp.world[2], vp.upp)>>

\* world_rect_to_canvas_pixels of the view that fits the viewport.
CanvasBox(vp, b) ==
    <<(b[1] - vp.world[1]) \div vp.upp, (vp.world[4] - b[4]) \div vp.upp,
      Ceiling(b[3] - vp.world[1], vp.upp), Ceiling(vp.world[4] - b[2], vp.upp)>>

\* The click on the middle of a pixel, as <<x, y, tolerance>>: screen_to_world.
ClickOn(vp, p) ==
    <<RoundDiv(2 * vp.world[1] + (2 * p[1] + 1) * vp.upp, 2),
      RoundDiv(2 * vp.world[4] - (2 * p[2] + 1) * vp.upp, 2),
      Most(vp.upp * ClickPx, 1)>>

-----------------------------------------------------------------------------
(* Rectangles and their patterns.                                          *)

PlaneOf(vp) == (0..(vp.width - 1)) \X (0..(vp.height - 1))

FillRect(vp, r) == {p \in PlaneOf(vp) : Holds(r, p[1], p[2])}

\* The outline, without what of it is outside the plane.
StrokeRect(vp, r) ==
    {p \in FillRect(vp, r) : p[1] \in {r[1], r[3] - 1} \/ p[2] \in {r[2], r[4] - 1}}

\* Dots keep their places on the plane whatever the rectangle.
Dots(vp, r, spacing) ==
    {p \in FillRect(vp, r) : p[1] % spacing = 0 /\ p[2] % spacing = 0}

-----------------------------------------------------------------------------
(* Lines: cut to the plane side by side, then drawn step by step.          *)

\* line_out_code
Outside(vp, p) ==
    {s \in {"left", "right", "top", "bottom"} :
       CASE s = "left"  -> p[1] < 0
         [] s = "right" -> p[1] > vp.width - 1
         [] s = "top"   -> p[2] < 0
         [] OTHER       -> p[2] > vp.height - 1}

\* clip_line_endpoint: where the line meets one side that an end is out of.
CutAt(vp, p, q, out) ==
    LET xAt(y) == IF q[2] = p[2] THEN p[1]
                  ELSE p[1] + Quotient((q[1] - p[1]) * (y - p[2]), q[2] - p[2])
        yAt(x) == IF q[1] = p[1] THEN p[2]
                  ELSE p[2] + Quotient((q[2] - p[2]) * (x - p[1]), q[1] - p[1])
    IN  IF "top" \in out THEN <<xAt(0), 0>>
        ELSE IF "bottom" \in out THEN <<xAt(vp.height - 1), vp.height - 1>>
        ELSE IF "right" \in out THEN <<vp.width - 1, yAt(vp.width - 1)>>
        ELSE <<0, yAt(0)>>

\* clip_line_to_plane: the two ends, or <<>> when nothing is in the plane.
RECURSIVE Clipped(_, _, _)
Clipped(vp, p, q) ==
    LET outP == Outside(vp, p)
        outQ == Outside(vp, q)
    IN  IF outP \cup outQ = {} THEN <<p, q>>
        ELSE IF outP \cap outQ # {} THEN <<>>
        ELSE IF outP # {} THEN Clipped(vp, CutAt(vp, p, q, outP), q)
        ELSE Clipped(vp, p, CutAt(vp, p, q, outQ))

\* The loop of rasterize_screen_line, from p to q with the error so far.
RECURSIVE Trace(_, _, _)
Trace(p, q, line) ==
    LET goX == 2 * line.err >= line.dy
        goY == 2 * line.err <= line.dx
        next == <<IF goX THEN p[1] + line.sx ELSE p[1], IF goY THEN p[2] + line.sy ELSE p[2]>>
        err == line.err + (IF goX THEN line.dy ELSE 0) + (IF goY THEN line.dx ELSE 0)
    IN  {p} \cup IF p = q \/ (goX /\ p[1] = q[1]) \/ (goY /\ p[2] = q[2]) THEN {}
                 ELSE Trace(next, q, [line EXCEPT !.err = err])

ScreenLine(vp, from, to) ==
    LET ends == Clipped(vp, from, to)
        dx == Most(ends[2][1] - ends[1][1], ends[1][1] - ends[2][1])
        dy == Least(ends[2][2] - ends[1][2], ends[1][2] - ends[2][2])
        way(a, b) == IF a < b THEN 1 ELSE -1
    IN  IF ends = <<>> THEN {}
        ELSE Trace(ends[1], ends[2],
                   [dx |-> dx, dy |-> dy, err |-> dx + dy,
                    sx |-> way(ends[1][1], ends[2][1]), sy |-> way(ends[1][2], ends[2][2])])

-----------------------------------------------------------------------------
(* Hatching: a diagonal, or two, in each tile of the plane that is covered. *)

Hatch(vp, r, cross) ==
    LET plane == <<0, 0, vp.width, vp.height>>
        clipped == Common(r, plane)
        \* what of a tile the rectangle covers
        covered(c, l) ==
            Common(clipped, <<c * PatternTile, l * PatternTile,
                              (c + 1) * PatternTile, (l + 1) * PatternTile>>)
        tiles == {t \in {covered(c, l) : c \in 0..(vp.width \div PatternTile),
                                         l \in 0..(vp.height \div PatternTile)} :
                    t[3] - t[1] >= 3 /\ t[4] - t[2] >= 3}
        down(t) == ScreenLine(vp, <<t[1] + 2, t[2] + 2>>, <<t[3] - 2, t[4] - 2>>)
        up(t) == ScreenLine(vp, <<t[1] + 2, t[4] - 2>>, <<t[3] - 2, t[2] + 2>>)
        \* a wide rectangle is hatched the other way
        turned == ~cross /\ r[3] - r[1] > r[4] - r[2]
    IN  UNION {(IF turned THEN down(t) ELSE up(t)) \cup (IF cross THEN down(t) ELSE {}) :
               t \in tiles}

\* rasterize_fill_rect
Pattern(vp, r, pattern) ==
    CASE pattern = "Solid"         -> FillRect(vp, r)
      [] pattern = "SparseDots"    -> Dots(vp, r, SparseSpacing)
      [] pattern = "DenseDots"     -> Dots(vp, r, DenseSpacing)
      [] pattern = "DiagonalHatch" -> Hatch(vp, r, FALSE)
      [] pattern = "CrossHatch"    -> Hatch(vp, r, TRUE)
      [] OTHER                     -> {}

-----------------------------------------------------------------------------
(* Items and plans.                                                        *)

\* Three by three pixels about the centre.
MarkerBox(r) ==
    LET x == Quotient(r[1] + r[3], 2)  y == Quotient(r[2] + r[4], 2)
    IN  <<x - 1, y - 1, x + 2, y + 2>>

PixelsOf(vp, i) ==
    LET r == CanvasBox(vp, i.box)
        at(x, y) == LET b == CanvasBox(vp, <<x, y, x, y>>) IN <<b[1], b[2]>>
    IN  CASE i.plane = "Fill" /\ i.form = "rect" -> Pattern(vp, r, i.style.pattern)
          [] i.plane \in {"Frame", "Hierarchy"} /\ i.form = "rect" ->
               Pattern(vp, r, i.style.pattern) \cup StrokeRect(vp, r)
          [] i.plane = "Hierarchy" /\ i.form = "line" ->
               ScreenLine(vp, at(i.box[1], i.box[2]), at(i.box[3], i.box[4]))
          [] i.plane \in {"Hierarchy", "Marker"} /\ i.form = "marker" ->
               FillRect(vp, MarkerBox(r))
          [] OTHER -> {}

\* rasterize_plan
Painted(vp, items) == UNION {PixelsOf(vp, items[k]) : k \in DOMAIN items}
==============================================================================
