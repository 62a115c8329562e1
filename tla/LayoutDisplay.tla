---------------------------- MODULE LayoutDisplay ----------------------------
(***************************************************************************)
(* The display model (crate layout-display): a display layer for each      *)
(* layer of the technology and for three kinds of shapes, which of them    *)
(* are visible, and the order they are drawn in.  Of a style only what a   *)
(* drawing differs by is kept: its pattern and its line width.             *)
(***************************************************************************)
EXTENDS LayoutDb

Style(pattern, width) == [pattern |-> pattern, width |-> width]

\* default_for_role.  A role is <<name, level>>.
StyleFor(role) ==
    CASE role[1] \in {"Overlap", "Row", "Unknown"} -> Style("Hollow", 1)
      [] role[1] = "Poly"                -> Style("DiagonalHatch", 1)
      [] role[1] = "Metal"               -> Style(IF role[2] % 2 = 0 THEN "CrossHatch"
                                                  ELSE "DiagonalHatch", 1)
      [] role[1] = "TopMetal"            -> Style("CrossHatch", 2)
      [] role[1] = "Rdl"                 -> Style("DiagonalHatch", 2)
      [] role[1] = "Blockage"            -> Style("CrossHatch", 1)
      [] role[1] \in {"TopVia", "RedistributionVia"} -> Style("SparseDots", 2)
      [] OTHER                           -> Style("SparseDots", 1)

AllObjects == [instances |-> TRUE, pdn |-> TRUE, net |-> TRUE, io_pin |-> TRUE]

IncludesKind(objects, kind) ==
    CASE kind = "Instance"    -> objects.instances
      [] kind = "SpecialWire" -> objects.pdn
      [] kind = "RegularWire" -> objects.net
      [] kind = "IoPin"       -> objects.io_pin
      [] OTHER                -> TRUE

\* A layer shows a technology layer or the shapes of one kind.
PhysicalLayer(id, style) ==
    [id |-> <<"layer", id>>, layer |-> id, kind |-> AnyKind, visible |-> TRUE,
     order |-> id, style |-> style, pickable |-> TRUE]
KindLayer(kind, style, visible) ==
    [id |-> <<"kind", kind>>, layer |-> AnyLayer, kind |-> kind, visible |-> visible,
     order |-> 10000, style |-> style, pickable |-> IsQueryable(kind)]

FromLayoutLayers(layers) ==
    [objects |-> AllObjects,
     layers |-> [i \in DOMAIN layers |-> PhysicalLayer(layers[i].id, StyleFor(layers[i].role))]
                \o <<KindLayer("Die", Style("Hollow", 2), FALSE),
                     KindLayer("Core", Style("Hollow", 1), FALSE),
                     KindLayer("Instance", Style("DenseDots", 1), TRUE)>>]

\* The visible layers in drawing order (a stable sort).
ResolvedLayers(model) ==
    LET shown == SelectSeq(model.layers, LAMBDA l :
                   l.visible /\ (l.kind # AnyKind => IncludesKind(model.objects, l.kind)))
        order == InOrder({<<shown[i].order, i>> : i \in DOMAIN shown}, Lexical)
    IN  [i \in DOMAIN order |-> shown[order[i][2]] @@ [objects |-> model.objects]]
==============================================================================
