--------------------------- MODULE MCLayoutPackage ---------------------------
(***************************************************************************)
(* Two small designs for TLC, and the properties of the package pipeline.  *)
(* The first has every kind of geometry on an 8 x 8 die; the second is the *)
(* same die with other contents.                                           *)
(***************************************************************************)
EXTENDS LayoutPackage

Item(id) == [NoFields EXCEPT !.id = id]
Instance(id, master, box, array) ==
    [id |-> id, master |-> master, bbox |-> box, origin |-> <<>>,
     orient |-> "R0", array |-> array]
One == [columns |-> 1, rows |-> 1, dx |-> 0, dy |-> 0]

AllFiles == {"die", "layers", "vias", "cell_masters", "instances", "io_pins",
             "regular_wires", "special_wires", "blockages", "fills",
             "regions", "rows"}

FullSource(edge) ==
    [files |-> AllFiles, bbox |-> <<0, 0, edge, edge>>,
     die |-> [die_area |-> <<0, 0, edge, edge>>, bbox |-> NoBox,
              core_area |-> <<1, 1, edge - 1, edge - 1>>],
     layers |-> <<[id |-> 1, cut |-> FALSE], [id |-> 2, cut |-> TRUE]>>,
     vias |-> <<[id |-> 5, layers |-> <<1, 2>>]>>,
     cell_masters |-> <<[id |-> 3, size |-> <<2, 2>>,
        pins |-> <<[ports |-> <<[NoFields EXCEPT !.layer_id = 1,
                                    !.rects = <<<<0, 0, 1, 1>>>>]>>]>>]>>,
     instances |-> <<Instance(1, 3, <<1, 1, 3, 3>>, One),
                     Instance(2, 3, <<4, 4, 6, 6>>,
                              [One EXCEPT !.columns = 2, !.dx = 1])>>,
     io_pins |-> <<[Item(7) EXCEPT !.location = <<1, 5>>, !.orient = "R90",
                       !.ports = <<[NoFields EXCEPT !.layers = <<1>>,
                                       !.rects = <<<<-1, -1, 1, 1>>>>]>>,
                       !.vias = <<[NoFields EXCEPT !.bbox = <<0, 5, 1, 6>>,
                                       !.layers = <<2, 1>>]>>],
                   [Item(8) EXCEPT !.bbox = <<6, 0, 7, 1>>]>>,
     regular_wires |->
        <<[Item(11) EXCEPT !.layer_id = 1, !.width = 2,
                           !.points = <<<<1, 1>>, <<6, 1>>, <<6, 3>>>>],
          [Item(12) EXCEPT !.kind = "via", !.bbox = <<5, 1, 7, 2>>, !.via_master = 5]>>,
     special_wires |-> <<[Item(13) EXCEPT !.kind = "patch", !.layer_id = 2,
                                          !.bbox = <<0, 2, edge, 4>>]>>,
     blockages |-> <<[Item(14) EXCEPT !.rect = <<3, 3, 2, 5>>]>>,
     fills |-> <<[Item(15) EXCEPT !.layer_id = 1,
                     !.rects = <<<<4, 4, 5, 5>>, <<5, 5, 6, 6>>>>]>>,
     regions |-> <<>>, rows |-> <<[Item(16) EXCEPT !.bbox = <<0, 0, edge, 2>>]>>]

SmallSource(edge) ==
    [FullSource(edge) EXCEPT
        !.files = {"die", "layers", "regular_wires", "blockages"},
        !.bbox = NoBox,
        !.regular_wires = <<[Item(11) EXCEPT !.layer_id = 1, !.width = 1,
                               !.points = <<<<2, 2>>, <<2, 5>>>>]>>]

MCSources == <<FullSource(8), SmallSource(8)>>
MCViewports == {<<0, 0, 8, 8>>, <<4, 1, 7, 5>>}
MCPoints == {<<4, 4, 0>>, <<6, 6, 1>>, <<3, 5, 1>>}
MCPyramidUnits == <<2, 3, 8>>

-----------------------------------------------------------------------------
(* What a package of each export holds, whole.                             *)

Rects == [v \in Exports |-> Dataset(Sources[v])]
Tiles == [v \in Exports |-> DetailTiles(World[v], Rects[v])]
Visible == [v \in Exports |-> Drawn(Rects[v])]

\* Beside its manifest the package has the files of export v, all and no other.
HoldsOnly(files) ==
    /\ DOMAIN disk \ {"manifest"} = DOMAIN files
    /\ \A f \in DOMAIN files : disk[f] = files[f]
Shows(v) == HoldsOnly(Packed[v][v])

\* The reader opened the files of export v.
Steady(v) == /\ packer.step = "idle" /\ reader # Closed /\ answer # Nothing
             /\ Shows(v) /\ reader.index = disk.index

Same(r, s) == r.source = s.source /\ r.layer = s.layer /\ r.kind = s.kind
CountAt(rects, key, x, y) ==
    Cardinality({i \in DOMAIN rects : Same(rects[i], key) /\ Holds(rects[i].box, x, y)})

\* The tile that a unit square's coordinates are put into is the one whose box
\* holds it.  So it is everywhere when the grid divides the world.
Settled(world, x, y) ==
    Holds(TileBox(world, TileX(world, x), TileY(world, y)), x, y)

\* ViewportTruthful: at every unit square of the viewport, what a load returns shows
\* no object that the source does not have there, and none twice, where tiles,
\* quadrants and the large-object threshold meet; and it misses one only in a
\* square that lies between the edge of a tile as it is rounded and as
\* coordinates are put into tiles.
ViewportTruthful ==
    \A v \in Exports : Steady(v) /\ answer.op = "load" =>
        LET got == FlattenSeq([i \in DOMAIN answer.tiles |-> answer.tiles[i].rects])
                   \o answer.large
            area == Common(answer.viewport, World[v])
        IN  /\ answer.ok
            /\ \A x \in area[1]..(area[3] - 1), y \in area[2]..(area[4] - 1) :
                 \A k \in Range(Visible[v]) \cup Range(got) :
                    /\ CountAt(got, k, x, y) <= CountAt(Visible[v], k, x, y)
                    /\ Settled(World[v], x, y) =>
                         CountAt(got, k, x, y) = CountAt(Visible[v], k, x, y)

\* The part of a record that a package holds: of a large object all, of another what is in
\* the world; and the unit squares of a box that are in it.
Kept(world, r) == IF IsLarge(world, r) THEN r.box ELSE Common(r.box, PyramidWorld(world))
Squares(world, r, box) ==
    LET c == Common(Kept(world, r), box)
    IN  (c[1]..(c[3] - 1)) \X (c[2]..(c[4] - 1))
Clickable(v, box) ==
    {r \in Range(Visible[v]) : IsQueryable(r.kind) /\ Squares(World[v], r, box) # {}}

\* QueryTruthful: on any grid, what a click finds lies in the box around the
\* click and is a piece of a queryable object that the source has there; and a
\* click misses such an object only where a viewport may miss it.
QueryTruthful ==
    \A v \in Exports : Steady(v) /\ answer.op = "query" =>
        LET x == answer.point[1]  y == answer.point[2]  t == Most(answer.point[3], 0)
            box == <<x - t, y - t, x + t + 1, y + t + 1>>
            shown(r) == \/ IsLarge(World[v], r)
                        \/ \E s \in Squares(World[v], r, box) : Settled(World[v], s[1], s[2])
        IN  /\ answer.ok
            /\ (\E r \in Clickable(v, box) : shown(r)) => answer.hit.hit
            /\ answer.hit.hit =>
                 LET found == answer.hit.rec
                 IN  /\ Meets(found.box, box)
                     /\ \E r \in Clickable(v, box) : Same(found, r) /\ Within(found.box, r.box)

\* DensityIsConserved: at whatever zoom, the bins of the overview level add up
\* to the area the source draws on each layer, so that coarse levels neither
\* lose nor double what the fine ones show.  A package that was rewritten under
\* the open viewer is excluded by name: the pyramid is read once and kept.
DensityIsConserved ==
    \A v \in Exports : Steady(v) /\ answer.op = "overview" /\ ~rewritten =>
        LET bins == answer.level.bins
            rects == Rects[v]
            die == PyramidWorld(World[v])
            areas == [i \in DOMAIN bins |-> bins[i].area]
            drawn == [i \in DOMAIN rects |-> Area(Common(rects[i].box, die))]
        IN  /\ answer.ok
            /\ \A l \in 0..MaxLayer :
                 SumFunctionOnSet(areas, {i \in DOMAIN bins : bins[i].layer = l})
                 = SumFunctionOnSet(drawn,
                     {i \in DOMAIN rects : rects[i].layer = l /\ IsDensityKind(rects[i].kind)})

\* CacheCheckIsSound: when the launcher would reuse the package, the package is
\* that of the source as it is now, however many exports came and packers died
\* before.  The two ways the code lets this fail are excluded by name: an
\* export during the pack (raced) and a forced rebuild cut off (torn).
CacheCheckIsSound ==
    packer.step \in {"idle", "spawned"} /\ Fresh /\ ~raced /\ ~torn
        => Shows(version)

\* CacheHoldsItsTiles: the tile cache and its order of use name the same tiles,
\* each once, never more than the largest capacity, and what it holds of a
\* tile is what the source has there.  A package that was rewritten under the
\* open viewer is excluded by name: its cache mixes tiles of both.
CacheHoldsItsTiles ==
    reader # Closed =>
        LET cache == reader.cache IN
        /\ Range(cache.order) = DOMAIN cache.entries
        /\ Len(cache.order) = Cardinality(DOMAIN cache.entries)
        /\ Len(cache.order) <= Max(Capacities)
        /\ \A v \in Exports : Steady(v) /\ ~rewritten =>
              \A i \in DOMAIN Tiles[v] :
                 LET t == Tiles[v][i] IN
                 Cached(cache, t.id) => cache.entries[t.id] = t.rects
==============================================================================
