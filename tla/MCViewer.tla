------------------------------ MODULE MCViewer ------------------------------
(***************************************************************************)
(* A canvas of 4 x 4 pixels over a design of 80 x 80 units: a near view,   *)
(* one that is near or in the middle range by hysteresis, one in the part  *)
(* of the middle range that is drawn in detail only at rest, and the whole *)
(* design.                                                                 *)
(***************************************************************************)
EXTENDS Viewer

At(x, y, upp) == [box |-> <<x, y, x + 4 * upp, y + 4 * upp>>, upp |-> upp]

Near == At(0, 0, 3)
Edge == At(24, 24, 4)
Middle == At(0, 0, 6)
Whole == At(0, 0, 20)

MCViews == {Near, Edge, Middle, Whole}
MCWorld == <<0, 0, 80, 80>>
MCTiles == {<<0, 0, 30, 30>>, <<30, 30, 80, 80>>}
MCSettings == [DefaultSettings EXCEPT !.bbox = 20, !.coarse = 5, !.idle = 6]
MCBoxes == DetailBoxes
==============================================================================
