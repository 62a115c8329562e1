---------------------------- MODULE PackageSource ----------------------------
(***************************************************************************)
(* What the packer (crate layoutpkg-packer) reads: a View JSON package as  *)
(* the records of its files, and the rectangles, hierarchy and overlays it *)
(* makes of them.  A source is a record                                    *)
(*   [files, bbox, die, layers, vias, cell_masters, instances, io_pins,    *)
(*    regular_wires, special_wires, blockages, fills, regions, rows,       *)
(*    tracks, gcell_grids]                                                 *)
(* where files is the set of keys its manifest names.  An item's missing   *)
(* JSON field is NoBox (a box or a point), <<>> (an array) or NoNum.       *)
(***************************************************************************)
EXTENDS PackageFormat

CONSTANT MaxLayer       \* u16::MAX, the largest layer id a record can hold
ASSUME MaxLayerAssumption == MaxLayer \in Nat \ {0}

NoNum == -1

\* An item with none of the optional fields; sources override what they have.
NoFields == [id |-> 0, layer_id |-> NoNum, layers |-> <<>>, via_master |-> NoNum,
             bbox |-> NoBox, rect |-> NoBox, rects |-> <<>>, kind |-> "path",
             width |-> 0, points |-> <<>>, ports |-> <<>>, vias |-> <<>>,
             location |-> <<>>, orient |-> "R0", name |-> "", net_id |-> NoNum,
             special_net_id |-> NoNum]

Items(src, key) == IF key \in src.files THEN src[key] ELSE <<>>

ParseBox(b) == IF b = NoBox THEN NoBox ELSE ValidBox(Ordered(b))

FirstBox(boxes) == IF \E i \in DOMAIN boxes : boxes[i] # NoBox
                   THEN SelectSeq(boxes, LAMBDA b : b # NoBox)[1] ELSE NoBox

PushBox(box, layer, kind, id) ==
    IF ValidBox(box) = NoBox THEN <<>> ELSE <<Record(box, layer, kind, id)>>

LayerOf(item) ==
    IF item.layer_id # NoNum THEN Least(item.layer_id, MaxLayer)
    ELSE IF item.layers # <<>> THEN Least(item.layers[1], MaxLayer) ELSE 0

ExplicitLayer(item) == Least(Most(item.layer_id, 0), MaxLayer)

\* Ascending and without repeats, as a BTreeSet or sort and dedup give it.
Sorted(S) == InOrder(S, LAMBDA a, b : a < b)

-----------------------------------------------------------------------------
(* The layer table and the layers of a via.                                *)

ReadLayers(src) == SelectSeq(Items(src, "layers"), LAMBDA l : l.id <= MaxLayer)

\* Cut layers by name, and for each via master the cut layers of its shapes.
ViaResolver(src) ==
    LET cuts == {l.id : l \in {m \in Range(ReadLayers(src)) : m.cut}}
        of(v) == Range(v.layers) \cap cuts
        vias == Items(src, "vias")
        named == {i \in DOMAIN vias : of(vias[i]) # {}}
        ids == {vias[i].id : i \in named}
    IN  [cut |-> cuts,
         master |-> [m \in ids |->
            Sorted(of(vias[CHOOSE i \in named : /\ vias[i].id = m
                             /\ \A j \in named : vias[j].id = m => j <= i]))]]

ViaLayers(via, item) ==
    LET fallback == ExplicitLayer(item)
        own == [i \in DOMAIN item.layers |-> Least(item.layers[i], MaxLayer)]
        cut == SelectSeq(own, LAMBDA l : l \in via.cut)
    IN  IF item.via_master \in DOMAIN via.master THEN via.master[item.via_master]
        ELSE IF fallback > 0 THEN <<fallback>>
        ELSE IF cut # <<>> THEN cut
        ELSE Sorted(Range(own))

ViaRecords(via, item, box) ==
    LET layers == ViaLayers(via, item)
    IN  FlattenSeq([i \in DOMAIN layers |->
                      PushBox(box, layers[i], "Via", item.id)])

-----------------------------------------------------------------------------
(* The geometry.                                                           *)

\* World box: the manifest's, else the die's, else empty at the origin.
WorldBox(src) ==
    IF src.bbox # NoBox THEN src.bbox
    ELSE LET die == IF "die" \notin src.files THEN NoBox
                    ELSE FirstBox(<<ParseBox(src.die.die_area),
                                    ParseBox(src.die.bbox)>>)
         IN  IF die = NoBox THEN <<0, 0, 0, 0>> ELSE die

DieBox(src, world) ==
    FirstBox(<<ParseBox(src.die.die_area), ParseBox(src.die.bbox), ValidBox(world)>>)

Boundaries(src, world) ==
    IF "die" \notin src.files THEN [die |-> ValidBox(world), core |-> NoBox]
    ELSE [die |-> DieBox(src, world), core |-> ParseBox(src.die.core_area)]

DieRecords(src, world) ==
    IF "die" \notin src.files THEN <<>>
    ELSE PushBox(DieBox(src, world), 0, "Die", 0)
         \o PushBox(ParseBox(src.die.core_area), 0, "Core", 0)

InstanceRecords(src) ==
    LET items == Items(src, "instances")
    IN  FlattenSeq([i \in DOMAIN items |->
            PushBox(ParseBox(items[i].bbox), 0, "Instance", items[i].id)])

\* One segment of a wire, widened by half its width on every side.
SegmentBox(a, b, width) ==
    LET half == width \div 2
        c == <<Least(a[1], b[1]) - half, Least(a[2], b[2]) - half,
               Most(a[1], b[1]) + half, Most(a[2], b[2]) + half>>
    IN  <<c[1], c[2],
          IF c[3] = c[1] THEN c[3] + Most(width, 1) ELSE c[3],
          IF c[4] = c[2] THEN c[4] + Most(width, 1) ELSE c[4]>>

WireRecords(via, item, kind) ==
    IF item.kind = "via"
    THEN ViaRecords(via, item, ParseBox(item.bbox))
    ELSE IF ParseBox(item.rect) # NoBox
    THEN PushBox(ParseBox(item.rect), LayerOf(item), kind, item.id)
    ELSE IF item.kind = "patch" /\ ParseBox(item.bbox) # NoBox
    THEN PushBox(ParseBox(item.bbox), LayerOf(item), kind, item.id)
    ELSE [i \in 1..Most(Len(item.points) - 1, 0) |->
            Record(SegmentBox(item.points[i], item.points[i + 1],
                              Most(item.width, 0)),
                   LayerOf(item), kind, item.id)]

\* A pin rectangle inside the die is taken as it is; any other one is turned,
\* anchored at the pin's location (at the die's corner when that is missing
\* or negative) and clipped to the die.
PinBox(box, location, orient, die) ==
    IF Within(box, die) THEN ValidBox(box)
    ELSE LET anchor == IF /\ location # <<>>
                          /\ location[1] >= 0 /\ location[2] >= 0
                       THEN location ELSE <<die[1], die[2]>>
         IN  ValidBox(Common(Shift(RotateBox(box, orient), anchor[1], anchor[2]),
                             die))

PinRecords(via, item, die) ==
    LET placed(b) == IF ParseBox(b) = NoBox THEN NoBox
                     ELSE PinBox(ParseBox(b), item.location, item.orient, die)
        port(p) == FlattenSeq([i \in DOMAIN p.rects |->
                      PushBox(placed(p.rects[i]), LayerOf(p), "IoPin", item.id)])
        pinvia(v) == ViaRecords(via, [v EXCEPT !.id = item.id], placed(v.bbox))
    IN  FlattenSeq([i \in DOMAIN item.ports |-> port(item.ports[i])])
        \o FlattenSeq([i \in DOMAIN item.vias |-> pinvia(item.vias[i])])
        \o IF item.ports # <<>> THEN <<>>
           ELSE PushBox(placed(item.bbox), LayerOf(item), "IoPin", item.id)

BoxRecords(item, kind) ==
    LET push(b) == PushBox(ParseBox(b), LayerOf(item), kind, item.id)
    IN  push(item.rect)
        \o FlattenSeq([i \in DOMAIN item.rects |-> push(item.rects[i])])
        \o push(item.bbox)

\* collect_geometry_dataset: every rectangle, in the order of the files.
Dataset(src) ==
    LET world == WorldBox(src)
        via == ViaResolver(src)
        each(key, F(_)) == FlattenSeq([i \in DOMAIN Items(src, key) |->
                                         F(Items(src, key)[i])])
    IN  DieRecords(src, world)
        \o InstanceRecords(src)
        \o each("io_pins", LAMBDA it : PinRecords(via, it, world))
        \o each("regular_wires", LAMBDA it : WireRecords(via, it, "RegularWire"))
        \o each("special_wires", LAMBDA it : WireRecords(via, it, "SpecialWire"))
        \o each("blockages", LAMBDA it : BoxRecords(it, "Blockage"))
        \o each("fills", LAMBDA it : BoxRecords(it, "Fill"))
        \o each("regions", LAMBDA it : BoxRecords(it, "Region"))
        \o each("rows", LAMBDA it : BoxRecords(it, "Row"))

-----------------------------------------------------------------------------
(* The hierarchy document.                                                 *)

MasterCell(id) == id + 1
TopCell == 0

Summaries(shapes) ==
    LET keys == {<<s.layer, s.kind>> : s \in Range(shapes)}
        of(k) == SelectSeq(shapes, LAMBDA s : <<s.layer, s.kind>> = k)
    IN  {[layer |-> k[1], kind |-> k[2], count |-> Len(of(k)),
          bbox |-> FoldLeft(LAMBDA a, s : Merge(a, s.box), of(k)[1].box, of(k)),
          area |-> FoldLeft(LAMBDA a, s : a + Area(s.box), 0, of(k))] : k \in keys}

Copies(array) == Most(array.columns, 1) * Most(array.rows, 1)

HierarchySummary(instances) ==
    [instances |-> Len(instances),
     arrays |-> Len(SelectSeq(instances, LAMBDA i : i.array.columns > 1
                                                    \/ i.array.rows > 1)),
     elements |-> FoldLeft(LAMBDA a, i : a + Copies(i.array), 0, instances)]

Cell(id, bbox, shapes, instances) ==
    [id |-> id, bbox |-> bbox, shapes |-> shapes, instances |-> instances,
     summaries |-> Summaries(shapes), summary |-> HierarchySummary(instances)]

PortShapes(m) ==
    LET port(p) == FlattenSeq([i \in DOMAIN p.rects |->
                      PushBox(ParseBox(p.rects[i]), LayerOf(p), "IoPin", m.id)])
        pin(p) == FlattenSeq([i \in DOMAIN p.ports |-> port(p.ports[i])])
    IN  FlattenSeq([i \in DOMAIN m.pins |-> pin(m.pins[i])])

MasterCells(src) ==
    LET items == Items(src, "cell_masters")
    IN  [i \in DOMAIN items |->
           Cell(MasterCell(items[i].id),
                <<0, 0, Most(items[i].size[1], 0), Most(items[i].size[2], 0)>>,
                PortShapes(items[i]), <<>>)]

\* Instances without a master or a box are left out of the hierarchy.
TopInstances(src) ==
    LET items == SelectSeq(Items(src, "instances"),
                    LAMBDA it : it.master # NoNum /\ ParseBox(it.bbox) # NoBox)
        box(it) == ParseBox(it.bbox)
    IN  [i \in DOMAIN items |->
           [id |-> items[i].id, child |-> MasterCell(items[i].master),
            dx |-> IF items[i].origin # <<>> THEN items[i].origin[1]
                                             ELSE box(items[i])[1],
            dy |-> IF items[i].origin # <<>> THEN items[i].origin[2]
                                             ELSE box(items[i])[2],
            orient |-> items[i].orient, array |-> items[i].array,
            bbox |-> box(items[i]), source |-> items[i].id]]

Hierarchy(src) ==
    LET world == WorldBox(src)
        bounds == Boundaries(src, world)
        shapes == PushBox(bounds.die, 0, "Die", 0)
                  \o PushBox(bounds.core, 0, "Core", 0)
    IN  [top |-> TopCell,
         cells |-> <<Cell(TopCell, world, shapes, TopInstances(src))>>
                   \o MasterCells(src)]

\* source_fingerprint: the manifest and every file it names; the hash is
\* taken to tell different contents apart.
Fingerprint(src) == [k \in src.files \cup {"bbox"} |-> src[k]]
=============================================================================
