---------------------------- MODULE PackageTiles ----------------------------
(***************************************************************************)
(* How the packer cuts a dataset into the tiles of the detail tileset, the *)
(* bins of the overview tileset and the bins of the overview pyramid.      *)
(***************************************************************************)
EXTENDS PackageSource

CONSTANTS
    GridColumns, GridRows,   \* the detail grid (128 x 128)
    MaxTilesPerObject,       \* above it an object is large; 0: never (16)
    TargetPrimitives,        \* a tile above it is split; 0: never (6000)
    MaxDepth,                \* max_subdivision_depth (6)
    OverviewBins,            \* OVERVIEW_COVERAGE_BINS_PER_TILE (16)
    PyramidUnits,            \* OVERVIEW_PYRAMID_BIN_SIZES
    MaxBinsPerRect           \* OVERVIEW_PYRAMID_MAX_BINS_PER_RECT_PER_LEVEL

ASSUME GridAssumption == /\ GridColumns \in Nat \ {0} /\ GridRows \in Nat \ {0}
                         /\ OverviewBins \in Nat \ {0} /\ MaxDepth \in Nat
                         /\ PyramidUnits \in Seq(Nat \ {0}) /\ PyramidUnits # <<>>

Width(b) == Most(b[3] - b[1], 1)
Height(b) == Most(b[4] - b[2], 1)

\* The piece of a record inside a box; <<>> when they do not meet.
Clip(rec, box) ==
    LET piece == ValidBox(Common(rec.box, box))
    IN  IF piece = NoBox THEN <<>> ELSE <<[rec EXCEPT !.box = piece]>>
ClipAll(rects, box) ==
    FlattenSeq([i \in DOMAIN rects |-> Clip(rects[i], box)])

-----------------------------------------------------------------------------
(* The detail tiles.                                                       *)

\* A tile's edges are rounded to integers, except the last one.
TileBox(world, x, y) ==
    LET atX(i) == RoundDiv(world[1] * GridColumns + Width(world) * i, GridColumns)
        atY(i) == RoundDiv(world[2] * GridRows + Height(world) * i, GridRows)
    IN  <<atX(x), atY(y),
          IF x + 1 = GridColumns THEN world[3] ELSE atX(x + 1),
          IF y + 1 = GridRows THEN world[4] ELSE atY(y + 1)>>

\* A coordinate's tile is found from the edges before they are rounded.
TileX(world, v) == Clamp(((v - world[1]) * GridColumns) \div Width(world),
                         0, GridColumns - 1)
TileY(world, v) == Clamp(((v - world[2]) * GridRows) \div Height(world),
                         0, GridRows - 1)
TileRange(world, b) ==
    LET x0 == TileX(world, b[1])  x1 == TileX(world, b[3] - 1)
        y0 == TileY(world, b[2])  y1 == TileY(world, b[4] - 1)
    IN  [xs |-> Least(x0, x1)..Most(x0, x1), ys |-> Least(y0, y1)..Most(y0, y1)]

IsShared(kind) == kind \in {"Die", "Core"}

IsLarge(world, rec) ==
    LET r == TileRange(world, rec.box)
    IN  /\ MaxTilesPerObject > 0
        /\ Cardinality(r.xs) * Cardinality(r.ys) > MaxTilesPerObject

Drawn(rects) ==
    FlattenSeq([i \in DOMAIN rects |-> IF IsShared(rects[i].kind) THEN <<>> ELSE <<rects[i]>>])
LargeObjects(world, rects) ==
    FlattenSeq([i \in DOMAIN rects |->
                  IF ~IsShared(rects[i].kind) /\ IsLarge(world, rects[i])
                  THEN <<rects[i]>> ELSE <<>>])

\* Mutant: a large object goes into the tiles as well.
BucketOfAll(world, rects, x, y) ==
    ClipAll(SelectSeq(Drawn(rects), LAMBDA r : /\ x \in TileRange(world, r.box).xs
                                               /\ y \in TileRange(world, r.box).ys),
            TileBox(world, x, y))

Bucket(world, rects, x, y) ==
    LET box == TileBox(world, x, y)
        isHere(r) == /\ ~IsShared(r.kind) /\ ~IsLarge(world, r)
                     /\ x \in TileRange(world, r.box).xs
                     /\ y \in TileRange(world, r.box).ys
    IN  FlattenSeq([i \in DOMAIN rects |->
                      IF isHere(rects[i]) THEN Clip(rects[i], box) ELSE <<>>])

Tile(x, y, depth, bbox, rects) ==
    [id |-> <<x, y, depth>>, bbox |-> bbox, rects |-> rects]

\* The quadrants of a tile, with what each holds; empty ones give no tile.
Quadrants(t) ==
    LET b == t.bbox
        midX == b[1] + (b[3] - b[1]) \div 2
        midY == b[2] + (b[4] - b[2]) \div 2
        quads == <<<<b[1], b[2], midX, midY>>, <<midX, b[2], b[3], midY>>,
                   <<b[1], midY, midX, b[4]>>, <<midX, midY, b[3], b[4]>>>>
        parts == {Tile((t.id[1] * 2) + ((q - 1) % 2), (t.id[2] * 2) + ((q - 1) \div 2),
                       t.id[3] + 1, quads[q], ClipAll(t.rects, quads[q])) : q \in 1..4}
    IN  {part \in parts : part.rects # <<>>}

\* A tile is kept that is small enough, too deep or too thin, or where the split into these
\* parts would not help.
IsKept(t, parts) ==
    LET n == Len(t.rects)
        sizes == [part \in parts |-> Len(part.rects)]
        largest == Max({sizes[part] : part \in DOMAIN sizes} \cup {0})
    IN  \/ TargetPrimitives = 0
        \/ n <= TargetPrimitives
        \/ t.id[3] >= MaxDepth
        \/ t.bbox[3] - t.bbox[1] <= 1
        \/ t.bbox[4] - t.bbox[2] <= 1
        \/ largest >= n
        \/ /\ SumFunction(sizes) > n * 2
           /\ largest > TargetPrimitives
           /\ largest > (n * 3) \div 4

Split(t, parts) == IF IsKept(t, parts) THEN {t} ELSE parts

\* The tiles a tile becomes when the splitting has gone d levels deeper.
Subdivide(t) ==
    LET upTo[d \in 0..MaxDepth] ==
            IF d = 0 THEN {t} ELSE UNION {Split(s, Quadrants(s)) : s \in upTo[d - 1]}
    IN  upTo[MaxDepth]

\* sort_detail_tiles: by depth, then row, then column.
TileBefore(s, t) == Lexical(<<s.id[3], s.id[2], s.id[1]>>,
                            <<t.id[3], t.id[2], t.id[1]>>)

Cells(world, rects) ==
    {Tile(x, y, 0, TileBox(world, x, y), Bucket(world, rects, x, y)) :
        x \in 0..(GridColumns - 1), y \in 0..(GridRows - 1)}
DetailTiles(world, rects) ==
    InOrder(UNION {Subdivide(c) : c \in {c \in Cells(world, rects) : c.rects # <<>>}},
            TileBefore)

-----------------------------------------------------------------------------
(* The overview tileset: one tile of the whole world, where each clipped   *)
(* rectangle marks the bin its centre is in.                               *)

BinOfCentre(tile, b) ==
    <<Clamp(((b[1] + b[3] - 2 * tile[1]) * OverviewBins) \div (2 * Width(tile)),
            0, OverviewBins - 1),
      Clamp(((b[2] + b[4] - 2 * tile[2]) * OverviewBins) \div (2 * Height(tile)),
            0, OverviewBins - 1)>>

BinBox(tile, bin) ==
    LET atX(i) == RoundDiv(tile[1] * OverviewBins + Width(tile) * i, OverviewBins)
        atY(i) == RoundDiv(tile[2] * OverviewBins + Height(tile) * i, OverviewBins)
    IN  <<atX(bin[1]), atY(bin[2]),
          IF bin[1] + 1 = OverviewBins THEN tile[3] ELSE atX(bin[1] + 1),
          IF bin[2] + 1 = OverviewBins THEN tile[4] ELSE atY(bin[2] + 1)>>

OverviewTile(world, rects) ==
    LET pieces == Range(ClipAll(rects, world))
        key(p) == BinOfCentre(world, p.box) \o <<p.layer, Code(p.kind)>>
        keys == InOrder({key(p) : p \in pieces}, Lexical)
    IN  [i \in DOMAIN keys |-> Record(BinBox(world, keys[i]), keys[i][3],
                                     KindNames[keys[i][4]], 0)]

-----------------------------------------------------------------------------
(* The overview pyramid.                                                   *)

IsDensityKind(kind) ==
    kind \in {"RegularWire", "SpecialWire", "Via", "IoPin", "Blockage", "Fill"}

PyramidWorld(world) == <<world[1], world[2], world[1] + Width(world),
                         world[2] + Height(world)>>

\* Mutant: a bin ends one unit before the next begins.
PyramidBinShort(world, units, grid, x, y) ==
    <<world[1] + units * x, world[2] + units * y,
      world[1] + units * (x + 1) - 1, world[2] + units * (y + 1)>>

PyramidBinBox(world, units, grid, x, y) ==
    <<world[1] + units * x, world[2] + units * y,
      IF x + 1 = grid[1] THEN world[3] ELSE world[1] + units * (x + 1),
      IF y + 1 = grid[2] THEN world[4] ELSE world[2] + units * (y + 1)>>

BinIndex(v, origin, units, limit) == Clamp((v - origin) \div units, 0, limit - 1)

\* This much of a rectangle falls to one bin.
Share(world, units, grid, rec, x, y, area) ==
    [x |-> x, y |-> y, layer |-> rec.layer, kind |-> rec.kind, area |-> area,
     box |-> PyramidBinBox(world, units, grid, x, y)]

\* What one rectangle adds: its piece of each bin it touches or, when it
\* touches too many, its whole area to the bin in the middle.
BinShares(world, units, grid, rec) ==
    LET b == ValidBox(Common(rec.box, world))
        x0 == BinIndex(b[1], world[1], units, grid[1])
        x1 == BinIndex(b[3] - 1, world[1], units, grid[1])
        y0 == BinIndex(b[2], world[2], units, grid[2])
        y1 == BinIndex(b[4] - 1, world[2], units, grid[2])
        columns == x1 - x0 + 1
        bins == columns * (y1 - y0 + 1)
        piece(x, y) == Area(Common(b, PyramidBinBox(world, units, grid, x, y)))
        own(x, y) == Share(world, units, grid, rec, x, y, piece(x, y))
    IN  IF b = NoBox \/ ~IsDensityKind(rec.kind) THEN <<>>
        ELSE IF bins > MaxBinsPerRect
        THEN <<Share(world, units, grid, rec, (x0 + x1) \div 2, (y0 + y1) \div 2, Area(b))>>
        ELSE [i \in 1..bins |-> own(x0 + ((i - 1) % columns), y0 + ((i - 1) \div columns))]

LevelGrid(world, units) == <<Most(CeilDiv(Width(world), units), 1),
                             Most(CeilDiv(Height(world), units), 1)>>
LevelShares(world, units, rects) ==
    FlattenSeq([i \in DOMAIN rects |->
                  BinShares(world, units, LevelGrid(world, units), rects[i])])

\* A level's bins in the order of their keys, each with what falls to it.
ShareKey(s) == <<s.x, s.y, s.layer, Code(s.kind)>>
ShareKeys(shares) == {ShareKey(shares[j]) : j \in DOMAIN shares}
SharesOf(shares, key) == {j \in DOMAIN shares : ShareKey(shares[j]) = key}
LevelBin(shares, key) ==
    LET own == SharesOf(shares, key)
        first == shares[CHOOSE j \in own : TRUE]
    IN  [box |-> first.box, layer |-> first.layer, kind |-> first.kind,
         count |-> Cardinality(own),
         area |-> SumFunctionOnSet([j \in own |-> shares[j].area], own)]

PyramidLevel(world, units, rects) ==
    LET shares == LevelShares(world, units, rects)
        keys == InOrder(ShareKeys(shares), Lexical)
    IN  [units |-> units, grid |-> LevelGrid(world, units),
         bins |-> [i \in DOMAIN keys |-> LevelBin(shares, keys[i])]]

Pyramid(world, rects) ==
    [world |-> world,
     levels |-> [i \in DOMAIN PyramidUnits |->
                   PyramidLevel(PyramidWorld(world), PyramidUnits[i], rects)]]

LayerCounts(rects) ==
    [l \in {rects[i].layer : i \in DOMAIN rects} |->
        Len(SelectSeq(rects, LAMBDA r : r.layer = l))]

-----------------------------------------------------------------------------
(* The files of a package, but for its manifest: the tiles one after the   *)
(* other in the shard and the index that says where, the large objects,    *)
(* the overview, the hierarchy.  The world and the hierarchy come from one *)
(* reading of the source and the rectangles from a later one.              *)

PackageNames == {"shard", "large", "index", "overview", "pyramid", "hierarchy"}

\* There is no shard without a tile, and no file of large objects without one.
FilesOf(hier, world, rects, tiles, large) ==
    LET coded == [i \in DOMAIN tiles |-> EncodeTile(tiles[i].rects)]
        offset(i) == Len(FlattenSeq(SubSeq(coded, 1, i - 1)))
        all == [shard |-> FlattenSeq(coded),
                large |-> EncodeTile(large),
                index |-> [tiles |-> [i \in DOMAIN tiles |->
                              [id |-> tiles[i].id, bbox |-> tiles[i].bbox,
                               offset |-> offset(i), size |-> Len(coded[i])]],
                           hasLarge |-> large # <<>>,
                           byLayer |-> LayerCounts(rects)],
                overview |-> EncodeTile(OverviewTile(world, rects)),
                pyramid |-> EncodePyramid(Pyramid(world, rects)),
                hierarchy |-> Hierarchy(hier)]
    IN  [name \in {n \in PackageNames : /\ n = "shard" => tiles # <<>>
                                        /\ n = "large" => large # <<>>} |-> all[name]]

PackageFiles(hier, geo) ==
    LET world == WorldBox(hier)
        rects == Dataset(geo)
    IN  FilesOf(hier, world, rects, DetailTiles(world, rects), LargeObjects(world, rects))
=============================================================================
