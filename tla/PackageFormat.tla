---------------------------- MODULE PackageFormat ----------------------------
(***************************************************************************)
(* The binary files of a .layoutpkg (crate layoutpkg-format): detail tiles *)
(* and the overview pyramid, as the sequence of their fields.  One field   *)
(* of any width is one word here, so an offset counts fields, not bytes;   *)
(* the two eight-byte magics are two numbers no field holds at that place. *)
(***************************************************************************)
EXTENDS LayoutGeometry, SequencesExt

KindNames == <<"Die", "Core", "Instance", "RegularWire", "SpecialWire",
               "Via", "IoPin", "Blockage", "Fill", "Region", "Row",
               "Track", "GCellGrid">>
Kinds == Range(KindNames)

Code(kind) == CHOOSE c \in DOMAIN KindNames : KindNames[c] = kind
KnownCode(code) == code \in DOMAIN KindNames

IsQueryable(kind) == kind \notin {"Die", "Core", "Row", "Track", "GCellGrid"}

DetailMagic == 7001
PyramidMagic == 7002
Version == 1

\* A rectangle record of a tile, and the words it takes.
Record(box, layer, kind, source) ==
    [box |-> box, layer |-> layer, kind |-> kind, source |-> source]
RecordBoxes == {b \in Seq(Int) : Len(b) = 4}
Records == [box : RecordBoxes, layer : Int, kind : Kinds, source : Int]
HeaderWords == 5
RecordWords == 8

Unreadable == [ok |-> FALSE]

EncodeTile(rects) ==
    <<DetailMagic, Version, 0, Len(rects), 0>>
    \o FlattenSeq([i \in DOMAIN rects |->
         rects[i].box \o <<rects[i].layer, Code(rects[i].kind), 0,
                           rects[i].source>>])

\* read_exact fails on a short file; words after the last record are ignored.
DecodeTile(w) ==
    IF \/ Len(w) < HeaderWords
       \/ w[1] # DetailMagic
       \/ w[2] # Version
       \/ Len(w) < HeaderWords + RecordWords * w[4]
    THEN Unreadable
    ELSE LET at(i) == HeaderWords + RecordWords * (i - 1)
         IN  IF \E i \in 1..w[4] : ~KnownCode(w[at(i) + 6]) THEN Unreadable
             ELSE [ok |-> TRUE, rects |->
                     [i \in 1..w[4] |->
                        Record(SubSeq(w, at(i) + 1, at(i) + 4), w[at(i) + 5],
                               KindNames[w[at(i) + 6]], w[at(i) + 8])]]

EncodeBin(b) == b.box \o <<b.layer, Code(b.kind), 0, b.count, b.area>>
BinWords == 9
LevelWords == 6

EncodePyramid(p) ==
    <<PyramidMagic, Version, 0>> \o p.world \o <<Len(p.levels), 0>>
    \o FlattenSeq([i \in DOMAIN p.levels |->
         LET l == p.levels[i] IN
         <<i - 1, l.units, l.grid[1], l.grid[2], Len(l.bins), 0>>
         \o FlattenSeq([j \in DOMAIN l.bins |-> EncodeBin(l.bins[j])])])

\* The levels follow one another, each as long as its own bin count says.
DecodePyramid(w) ==
    LET start[i \in 1..w[8]] ==
            IF i = 1 THEN 9
            ELSE start[i - 1] + LevelWords + BinWords * w[start[i - 1] + 5]
        bin(at) == [box |-> SubSeq(w, at + 1, at + 4), layer |-> w[at + 5],
                    kind |-> KindNames[w[at + 6]], count |-> w[at + 8],
                    area |-> w[at + 9]]
    IN  IF Len(w) < 9 \/ w[1] # PyramidMagic \/ w[2] # Version THEN Unreadable
        ELSE [ok |-> TRUE, world |-> SubSeq(w, 4, 7), levels |->
                [i \in 1..w[8] |->
                   LET s == start[i] IN
                   [units |-> w[s + 2], grid |-> <<w[s + 3], w[s + 4]>>,
                    bins |-> [j \in 1..w[s + 5] |->
                                bin(s + LevelWords + BinWords * (j - 1))]]]]
==============================================================================
