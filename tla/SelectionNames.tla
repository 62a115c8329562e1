--------------------------- MODULE SelectionNames ---------------------------
(***************************************************************************)
(* What the viewer says of a picked object: the name and the net it finds  *)
(* in the View JSON source of the package, by the object's kind and id.    *)
(* The package itself keeps ids only, so the viewer reads the source once  *)
(* more, on a thread of its own, and matches what it reads there with what *)
(* the packer made of the same files.  A name is a sequence, empty when    *)
(* there is none; a hit is one of RenderPlan.                              *)
(***************************************************************************)
EXTENDS PackageSource

NoName == ""
Unknown == <<>>

\* A map filled from entries <<key, value>> one after the other.
Table(entries) ==
    [k \in {entries[i][1] : i \in DOMAIN entries} |->
       entries[Max({i \in DOMAIN entries : entries[i][1] = k})][2]]
Find(table, key) == IF key \in DOMAIN table THEN table[key] ELSE Unknown

\* The items of a source file; no items when there is no such file.
SourceItems(src, key) == Items(src, key)

NamedItems(items) ==
    LET named == SelectSeq(items, LAMBDA it : it.name # NoName)
    IN  Table([i \in DOMAIN named |-> <<named[i].id, <<named[i].name>>>>])

\* A net is regular or special; the regular one counts when both are given.
NetRef(item) ==
    IF item.net_id # NoNum THEN <<"regular_nets", item.net_id>>
    ELSE IF item.special_net_id # NoNum THEN <<"special_nets", item.special_net_id>>
    ELSE Unknown

NetRefItems(items) ==
    LET wired == SelectSeq(items, LAMBDA it : NetRef(it) # Unknown)
    IN  Table([i \in DOMAIN wired |-> <<wired[i].id, NetRef(wired[i])>>])

\* The viewer's own copy of the packer's reading of layers and vias.
ViaLayerResolver(src) == ViaResolver(src)

\* Unlike the packer, which takes layer 0 for none, the viewer takes any layer
\* the item gives.
LayersForItem(via, item) ==
    LET own == [i \in DOMAIN item.layers |-> Least(item.layers[i], MaxLayer)]
        cut == SelectSeq(own, LAMBDA l : l \in via.cut)
    IN  IF item.via_master \in DOMAIN via.master THEN via.master[item.via_master]
        ELSE IF item.layer_id # NoNum THEN <<Least(item.layer_id, MaxLayer)>>
        ELSE IF cut # <<>> THEN cut ELSE Sorted(Range(own))

\* The ids of regular and special wires may coincide, so the net of a via is
\* kept by id, layer and box.
ViaNetEntries(src, key) ==
    LET via == ViaLayerResolver(src)
        vias == SelectSeq(SourceItems(src, key), LAMBDA it :
                  /\ it.kind = "via"
                  /\ NetRef(it) # Unknown
                  /\ ParseBox(it.bbox) # NoBox)
        entries(it) == LET layers == LayersForItem(via, it) IN
            [k \in DOMAIN layers |->
               <<<<it.id, layers[k], ParseBox(it.bbox)>>, NetRef(it)>>]
    IN  FlattenSeq([i \in DOMAIN vias |-> entries(vias[i])])

CountedAll(rects) == rects   \* mutant: invalid rectangles count

Counted(rects) == SelectSeq(rects, LAMBDA r : ParseBox(r[1]) # NoBox)

\* The pins of a cell master by the position of their rectangles, the valid
\* ones of all ports counted through, as the packer lists the cell's shapes.
PinRects(master) ==
    LET of(pin) == FlattenSeq([k \in DOMAIN pin.ports |-> pin.ports[k].rects])
        name(pin) == IF pin.name = NoName THEN <<master.name>>
                     ELSE <<master.name, pin.name>>
        all == FlattenSeq([k \in DOMAIN master.pins |->
                  LET rects == of(master.pins[k]) IN
                  [r \in DOMAIN rects |-> <<rects[r], name(master.pins[k])>>]])
    IN  Counted(all)
CellMasterPins(src) ==
    LET masters == SourceItems(src, "cell_masters")
        pins(m) == LET rects == PinRects(m) IN
                   [n \in DOMAIN rects |-> <<<<m.id, n>>, rects[n][2]>>]
    IN  Table(FlattenSeq([i \in DOMAIN masters |-> pins(masters[i])]))

NamedFiles == {"io_pins", "instances", "regular_wires", "special_wires", "blockages",
               "fills", "regions", "regular_nets", "special_nets"}
WiredFiles == {"io_pins", "regular_wires", "special_wires"}

\* load: everything the sidebar may need.
LoadNames(src) ==
    [named |-> [f \in NamedFiles |-> NamedItems(SourceItems(src, f))],
     pins |-> CellMasterPins(src),
     nets |-> [f \in WiredFiles |-> NetRefItems(SourceItems(src, f))],
     vias |-> Table(ViaNetEntries(src, "regular_wires")
                    \o ViaNetEntries(src, "special_wires")
                    \o ViaNetEntries(src, "io_pins"))]

\* Before it is loaded, and when it cannot be: the package names no source, or
\* a file does not parse.
Unnamed == LoadNames([files |-> {}])

-----------------------------------------------------------------------------
(* The lookups.                                                            *)

\* A shape of a cell below the root of the path.
IsHierarchyCellShape(hit) ==
    hit.target = "Shape" /\ hit.path # <<>> /\ hit.cell # hit.path[1].parent

FileOf(kind) ==
    CASE kind = "Instance"        -> "instances"
      [] kind = "RegularWire"     -> "regular_wires"
      [] kind = "SpecialWire"     -> "special_wires"
      [] kind \in {"IoPin", "Via"} -> "io_pins"
      [] kind = "Blockage"        -> "blockages"
      [] kind = "Fill"            -> "fills"
      [] kind = "Region"          -> "regions"
      [] OTHER                    -> "none"

NameFor(names, hit) ==
    IF hit.kind = "IoPin" /\ IsHierarchyCellShape(hit)
    THEN Find(names.pins, <<hit.source, hit.shape>>)
    ELSE IF FileOf(hit.kind) = "none" THEN Unknown
    ELSE Find(names.named[FileOf(hit.kind)], hit.source)

\* A via whose key is not there, because a tile cut its box, is looked up by
\* id, when only one kind of wire has that id.
NetRefForVia(names, hit) ==
    LET key == <<hit.source, hit.number, hit.box>>
        regular == Find(names.nets["regular_wires"], hit.source)
        special == Find(names.nets["special_wires"], hit.source)
    IN  IF key \in DOMAIN names.vias THEN names.vias[key]
        ELSE IF special = Unknown THEN regular
        ELSE IF regular = Unknown THEN special ELSE Unknown

NetNameFor(names, hit) ==
    LET ref == IF hit.kind = "Via" THEN NetRefForVia(names, hit)
               ELSE IF /\ hit.kind \in {"RegularWire", "SpecialWire", "IoPin"}
                       /\ ~(hit.kind = "IoPin" /\ IsHierarchyCellShape(hit))
               THEN Find(names.nets[FileOf(hit.kind)], hit.source) ELSE Unknown
    IN  IF ref = Unknown THEN Unknown ELSE Find(names.named[ref[1]], ref[2])

\* The files an object may come from.
SourceTrace(hit) ==
    CASE hit.kind \in {"Die", "Core"} -> {"die"}
      [] hit.kind = "Via" -> {"regular_wires", "special_wires", "io_pins"}
      [] hit.kind = "IoPin" /\ IsHierarchyCellShape(hit) -> {"cell_masters"}
      [] hit.kind = "Row"       -> {"rows"}
      [] hit.kind = "Track"     -> {"tracks"}
      [] hit.kind = "GCellGrid" -> {"gcell_grids"}
      [] OTHER -> {FileOf(hit.kind)}

LayerMetadata(layers, id) ==
    IF \E i \in DOMAIN layers : layers[i].id = id
    THEN SelectSeq(layers, LAMBDA l : l.id = id)[1].role ELSE Unknown

\* The rows of the sidebar; a row without a name or a net is left out.
InspectorRows(names, layers, hit) ==
    [files |-> SourceTrace(hit), id |-> hit.source, name |-> NameFor(names, hit),
     net |-> NetNameFor(names, hit), layer |-> LayerMetadata(layers, hit.number),
     number |-> hit.number, box |-> hit.box]
=============================================================================
