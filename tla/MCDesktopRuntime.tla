-------------------------- MODULE MCDesktopRuntime --------------------------
(***************************************************************************)
(* Two Electron processes.  Process p1 opens dirA, asks for its home page, *)
(* and has a flow and a step on dirB; p2 runs a flow on dirA.  The lock of *)
(* dirA is sound, the one of dirB is not.  A cfg says which of these jobs  *)
(* there are, and which of them a listener, the disk or reports of ecc     *)
(* meet.                                                                   *)
(***************************************************************************)
EXTENDS DesktopRuntime, TLC

CONSTANTS p1, p2, load, home, flow, step, other, dirA, dirB,
          FlowDirectory   \* what p1 sends with its flow

MCDirectories == load :> dirA @@ home :> NoDirectory @@ flow :> FlowDirectory
                   @@ step :> dirB @@ other :> dirA
MCCommands == load :> "load_workspace" @@ home :> "home_page" @@ flow :> "rtl2gds"
                @@ step :> "run_step" @@ other :> "rtl2gds"
MCManagers == load :> p1 @@ home :> p1 @@ flow :> p1 @@ step :> p1 @@ other :> p2

MCDirectoryOf == [j \in Jobs |-> MCDirectories[j]]
MCCommandOf == [j \in Jobs |-> MCCommands[j]]
MCManagerOf == [j \in Jobs |-> MCManagers[j]]
MCScopes == Directories \cup {GlobalScope}
MCScopeOf == [j \in Jobs |-> IF MCDirectories[j] = NoDirectory THEN GlobalScope
                                                             ELSE MCDirectories[j]]
MCLongRunning == Jobs \ {home}
=============================================================================
