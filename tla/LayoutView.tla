----------------------------- MODULE LayoutView -----------------------------
(***************************************************************************)
(* A session that is looked at: the operations of LayoutSession, the       *)
(* settings of the display model, of the cell view and of the hierarchy    *)
(* policy, and the questions the viewer puts to the planner and to the     *)
(* database, in any order.  The package on disk does not change.           *)
(***************************************************************************)
EXTENDS LayoutSession, RenderSurface, SelectionNames

CONSTANTS
    Disks,        \* packages, as records of files
    Windows,      \* viewports the user looks through
    Loads,        \* boxes of detail the viewer loads
    Policies,     \* hierarchy policies, a set
    Settings,     \* render settings, a set
    Clicks,       \* <<x, y, tolerance>>
    Spots,        \* the pixels of a painted plan the user clicks on, a set
    Toggled,      \* bound: the display layers the user switches, by position
    MaxOverviews, \* bound: how often the overview changes level
    MaxRows       \* bound: rows of the hierarchy tree that are asked for

VARIABLES
    disk,         \* the package that is open
    session,      \* the session
    model,        \* the display model
    view,         \* the cell view
    policy,       \* the hierarchy policy
    window,       \* the viewport
    level,        \* the level of detail the last plan left (hysteresis)
    answer        \* what the last question returned

vars == <<disk, session, model, view, policy, window, level, answer>>

Nothing == [op |-> "none"]
Tell(a) == answer' = a

\* LayoutPackage::open, as far as a session needs it.
OpenPackage(d) ==
    [index |-> d.index, cache |-> EmptyCache, large |-> Unreadable,
     pyramid |-> Unreadable, world |-> d.manifest.world]

Init ==
    /\ disk \in Disks
    /\ session = FromSource(disk, OpenPackage(disk))
    /\ model = FromLayoutLayers(disk.layers)
    /\ view = TopView(session.db)
    /\ policy \in Policies
    /\ window \in Windows
    /\ level = NoLevel
    /\ answer = Nothing

-----------------------------------------------------------------------------
(* What changes the session.                                               *)

\* A batch that the background loader read with a package of its own.
LoadDetail(box) ==
    /\ LET batch == LoadViewport(disk, OpenPackage(disk), box, 0) IN
       /\ batch.ok
       /\ session' = ApplyBatch(session, disk, batch)
    /\ Tell(Nothing)
    /\ UNCHANGED <<disk, model, view, policy, window, level>>

\* The viewer asks for an overview of a cell without instances when it is far away.
LoadOverview ==
    /\ session.overview < MaxOverviews
    /\ ~HasInstances(session.db, view.target)
    /\ \E settings \in Settings : window.upp >= settings.coarse
    /\ session' = EnsureOverview(session, disk, window.upp)
    /\ Tell(Nothing)
    /\ UNCHANGED <<disk, model, view, policy, window, level>>

-----------------------------------------------------------------------------
(* What the user changes.                                                  *)

Look(w) ==
    /\ window' = w
    /\ Tell(Nothing)
    /\ UNCHANGED <<disk, session, model, view, policy, level>>

ToggleLayer(i) ==
    /\ i \in DOMAIN model.layers
    /\ model' = [model EXCEPT !.layers[i].visible = ~@]
    /\ Tell(Nothing)
    /\ UNCHANGED <<disk, session, view, policy, window, level>>

ToggleInstances ==
    /\ model' = [model EXCEPT !.objects.instances = ~@]
    /\ Tell(Nothing)
    /\ UNCHANGED <<disk, session, view, policy, window, level>>

SetPolicy(p) ==
    /\ policy' = p
    /\ Tell(Nothing)
    /\ UNCHANGED <<disk, session, model, view, window, level>>

\* A row of the tree is opened: the view is the cell at the end of its path.
Descend(row) ==
    /\ answer.op = "rows"
    /\ row \in DOMAIN answer.rows
    /\ view' = FromPath(view.context, answer.rows[row].path)
    /\ Tell(Nothing)
    /\ UNCHANGED <<disk, session, model, policy, window, level>>

LeaveCell ==
    /\ view' = Ascend(view)
    /\ Tell(Nothing)
    /\ UNCHANGED <<disk, session, model, policy, window, level>>

-----------------------------------------------------------------------------
(* The questions, one at a time: an answer is forgotten when something     *)
(* changes, or the user looks again, before the next is asked.  That loses *)
(* no behaviour, for no answer but that of AskRows has a consequence.      *)

Quiet == answer = Nothing

Draw(settings) ==
    /\ Quiet
    /\ LET plan == PlanFor(session.db, model, window, settings, view, policy, level) IN
       /\ level' = plan.level
       /\ Tell([op |-> "plan", plan |-> plan, settings |-> settings])
    /\ UNCHANGED <<disk, session, model, view, policy, window>>

\* A plan that is drawn as a texture; the plane has the size of the window.
Paint ==
    /\ answer.op = "plan"
    /\ PaintsPlane(answer.plan)
    /\ Tell([op |-> "painted", plan |-> answer.plan,
             pixels |-> Painted(window, answer.plan.items)])
    /\ UNCHANGED <<disk, session, model, view, policy, window, level>>

\* The user clicks on the canvas, painted or not.
PickPixel(p) ==
    /\ answer.op = "painted"
    /\ p \in PlaneOf(window)
    /\ LET c == ClickOn(window, p) IN
       Tell([op |-> "touched", pixel |-> p, lit |-> p \in answer.pixels,
             source |-> answer.plan.source,
             hit |-> PickFor(session.db, model, c[1], c[2], c[3], view, policy)])
    /\ UNCHANGED <<disk, session, model, view, policy, window, level>>

\* The names are read when something has been selected for the first time, so
\* the sidebar may know none yet.
Pick(c) ==
    /\ Quiet
    /\ \E names \in {Unnamed, LoadNames(disk.source)} :
         LET hit == PickFor(session.db, model, c[1], c[2], c[3], view, policy) IN
         Tell([op |-> "pick", click |-> c, hit |-> hit, named |-> names # Unnamed,
               rows |-> IF hit = NoPick THEN {}
                        ELSE {InspectorRows(names, session.db.layers, hit)}])
    /\ UNCHANGED <<disk, session, model, view, policy, window, level>>

\* query_cell_view_shapes and query_cell_view_instances for the whole policy.
AskView ==
    /\ Quiet
    /\ LET query == PickQuery(view, window.world, policy, 0, TRUE) IN
       Tell([op |-> "view",
             shapes |-> CellViewShapes(session.db, query, policy),
             instances |-> CellViewInstances(session.db, query, policy)])
    /\ UNCHANGED <<disk, session, model, view, policy, window, level>>

\* query_recursive_shapes and query_recursive_instances.
AskTop ==
    /\ Quiet
    /\ LET query == PickQuery(view, window.world, policy, policy.min, TRUE) IN
       Tell([op |-> "top",
             shapes |-> RecursiveShapes(session.db, query),
             instances |-> RecursiveInstances(session.db, query)])
    /\ UNCHANGED <<disk, session, model, view, policy, window, level>>

AskRows ==
    /\ Quiet
    /\ LET tree == TreeRows(session.db, view, policy.max, MaxRows) IN
       Tell([op |-> "rows", rows |-> tree.rows, truncated |-> tree.truncated])
    /\ UNCHANGED <<disk, session, model, view, policy, window, level>>

Next ==
    \/ \E box \in Loads : LoadDetail(box)
    \/ LoadOverview
    \/ \E w \in Windows : Look(w)
    \/ \E i \in Toggled : ToggleLayer(i)
    \/ ToggleInstances
    \/ \E p \in Policies : SetPolicy(p)
    \/ \E row \in 1..MaxRows : Descend(row)
    \/ LeaveCell
    \/ \E s \in Settings : Draw(s)
    \/ Paint
    \/ \E p \in Spots : PickPixel(p)
    \/ \E c \in Clicks : Pick(c)
    \/ AskView
    \/ AskTop
    \/ AskRows

Spec == Init /\ [][Next]_vars
=============================================================================
