---------------------------- MODULE PackageReader ----------------------------
(***************************************************************************)
(* The reader's operations (crate layoutpkg-reader) as functions of what   *)
(* is on disk and of the open package.  The disk is a record of the files  *)
(* that are there.  The tile cache holds the records of the tiles read     *)
(* last, and their ids from the least to the most recently used.           *)
(***************************************************************************)
EXTENDS PackageTiles

CONSTANT MinBinPixels      \* MIN_SCREEN_BIN_PX (64)

HasFile(disk, name) == name \in DOMAIN disk

EmptyCache == [entries |-> << >>, order |-> << >>]
Cached(cache, id) == id \in DOMAIN cache.entries

TouchAgain(order, id) == Append(order, id)   \* mutant: the old place is kept

Touch(order, id) == Append(RemoveFirst(order, id), id)

\* TileCache::insert: the oldest entries make room, one after the other.
Insert(cache, id, rects, capacity) ==
    LET spare == Len(cache.order) - (capacity - 1)
        kept == IF spare > 0 THEN SubSeq(cache.order, spare + 1, Len(cache.order))
                             ELSE cache.order
    IN  IF capacity = 0 THEN cache
        ELSE [entries |-> [i \in Range(kept) \cup {id} |->
                             IF i = id THEN rects ELSE cache.entries[i]],
              order |-> Append(kept, id)]

\* read_tile_entry: the tile's slice of the shard, decoded.
ReadTile(disk, entry) ==
    IF ~HasFile(disk, "shard") \/ Len(disk.shard) < entry.offset + entry.size
    THEN Unreadable
    ELSE DecodeTile(SubSeq(disk.shard, entry.offset + 1, entry.offset + entry.size))

\* load_tile_records for one entry after those before it; a failure stops.
LoadTile(disk, capacity, at, entry) ==
    IF ~at.ok THEN at
    ELSE IF Cached(at.cache, entry.id)
    THEN [at EXCEPT !.cache.order = Touch(@, entry.id),
                    !.tiles = Append(@, [id |-> entry.id, bbox |-> entry.bbox,
                                  rects |-> at.cache.entries[entry.id]])]
    ELSE LET read == ReadTile(disk, entry) IN
         IF ~read.ok THEN [at EXCEPT !.ok = FALSE]
         ELSE [at EXCEPT
                 !.cache = Insert(@, entry.id, read.rects, capacity),
                 !.tiles = Append(@, [id |-> entry.id, bbox |-> entry.bbox,
                                      rects |-> read.rects])]

\* load_large_objects: once read they stay.
LoadLarge(disk, pkg) ==
    IF pkg.large.ok THEN pkg.large
    ELSE IF ~pkg.index.hasLarge THEN [ok |-> TRUE, rects |-> <<>>]
    ELSE IF ~HasFile(disk, "large") THEN Unreadable
    ELSE DecodeTile(disk.large)

\* The tiles that meet the viewport, in the order of the index.
LoadTiles(disk, tiles, cache, viewport, capacity) ==
    FoldLeft(LAMBDA at, e : IF Meets(Ordered(e.bbox), viewport)
                            THEN LoadTile(disk, capacity, at, e) ELSE at,
             [ok |-> TRUE, cache |-> cache, tiles |-> <<>>], tiles)

\* load_detail_viewport: every tile that meets the viewport, and the large
\* objects; what was cached before a failure stays cached.
LoadViewport(disk, pkg, viewport, capacity) ==
    LET read == LoadTiles(disk, pkg.index.tiles, pkg.cache, viewport, capacity)
        large == IF read.ok THEN LoadLarge(disk, pkg) ELSE pkg.large
        good == read.ok /\ large.ok
    IN  [pkg |-> [pkg EXCEPT !.cache = read.cache,
                             !.large = IF pkg.index.hasLarge THEN large ELSE @],
         ok |-> good,
         tiles |-> IF good THEN read.tiles ELSE <<>>,
         large |-> IF good THEN large.rects ELSE <<>>]

\* Mutant: without a tolerance the box is empty.
QueryBoxClosed(x, y, tolerance) ==
    LET t == Most(tolerance, 0) IN <<x - t, y - t, x + t, y + t>>

QueryBox(x, y, tolerance) ==
    LET t == Most(tolerance, 0) IN <<x - t, y - t, x + t + 1, y + t + 1>>

\* query_rank: the smaller record first, then the one whose centre is nearer.
Rank(rec, x, y) ==
    LET b == rec.box
        dx == b[1] + b[3] - 2 * x
        dy == b[2] + b[4] - 2 * y
    IN  <<Most(b[3] - b[1], 1) * Most(b[4] - b[2], 1), dx * dx + dy * dy>>
RankBefore(q, r) == q[1] < r[1] \/ (q[1] = r[1] /\ q[2] < r[2])

NoHit == [hit |-> FALSE]

\* query_point over a loaded batch: tiles in order, then large objects; a
\* later candidate replaces the best one only when it ranks before it.
QueryPoint(batch, x, y, tolerance) ==
    LET box == QueryBox(x, y, tolerance)
        hits(rects, id) == [i \in DOMAIN rects |->
                              [hit |-> TRUE, rec |-> rects[i], tile |-> id]]
        all == FlattenSeq([i \in DOMAIN batch.tiles |->
                             hits(batch.tiles[i].rects, batch.tiles[i].id)])
               \o hits(batch.large, <<>>)
        consider(best, c) ==
            IF /\ IsQueryable(c.rec.kind)
               /\ Meets(Ordered(c.rec.box), box)
               /\ best = NoHit \/ RankBefore(Rank(c.rec, x, y), Rank(best.rec, x, y))
            THEN c ELSE best
    IN  FoldLeft(consider, NoHit, all)

TargetUnits(unitsPerPixel) ==
    IF unitsPerPixel <= 1 THEN 1 ELSE unitsPerPixel * MinBinPixels

\* The first level coarse enough for the zoom, else the coarsest one.
LevelFor(pyramid, unitsPerPixel) ==
    LET target == TargetUnits(unitsPerPixel)
        coarse == {i \in DOMAIN pyramid.levels : pyramid.levels[i].units >= target}
    IN  pyramid.levels[IF coarse # {} THEN Min(coarse) ELSE Len(pyramid.levels)]
=============================================================================
