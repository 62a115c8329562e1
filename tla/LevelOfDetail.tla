---------------------------- MODULE LevelOfDetail ----------------------------
(***************************************************************************)
(* How the zoom chooses what is drawn: the level of detail, with its       *)
(* hysteresis, and the mode of a design that has a hierarchy.  The planner *)
(* (crate layout-render) and the viewer decide by the same rules.          *)
(***************************************************************************)
EXTENDS LayoutGeometry

\* Thresholds in units per pixel, which the user can tune, and whether the
\* view is being moved.
DefaultSettings ==
    [fill |-> 32, bbox |-> 160, coarse |-> 32, idle |-> 96, arrayBox |-> 160,
     arrayGrid |-> 32, force |-> FALSE, proxies |-> TRUE]

NoLevel == "none"

\* classify_lod: a level is left only below 0.8 of the threshold it is
\* entered at.
ClassifyLod(upp, settings, previous) ==
    LET stays(level, threshold) == previous = level /\ 5 * upp >= 4 * threshold
    IN  IF stays("Far", settings.bbox) \/ upp >= settings.bbox THEN "Far"
        ELSE IF stays("Mid", settings.coarse) \/ upp >= settings.coarse THEN "Mid"
        ELSE "Near"

\* The middle range is drawn in detail while the view rests, up to a zoom of
\* its own.
RestsInDetail(level, upp, settings) ==
    level = "Mid" /\ ~settings.force /\ upp <= settings.idle
==============================================================================
