--------------------------- MODULE DesktopRuntime ---------------------------
(***************************************************************************)
(* DesktopRuntimeManager and EccCliAdapter on top of SharedRuntimeManager: *)
(* which scope an ECC command is locked under, and which workspace         *)
(* directory the ecc process is started on.  The first is the directory of *)
(* the request, or the global scope; the second is the directory of the    *)
(* request, or the workspace that was loaded last.                         *)
(***************************************************************************)
EXTENDS SharedRuntimeManager

CONSTANTS
    Directories,   \* workspace directories
    NoDirectory,   \* request.data.directory is missing or blank
    GlobalScope,   \* globalRuntimeScope
    DirectoryOf,   \* request.data.directory of a job
    CommandOf      \* request.cmd of a job

Commands == {"create_workspace", "load_workspace", "run_step", "rtl2gds", "refresh_config",
             "sync_config", "reset_flow", "get_info", "home_page", "help", "clear"}
longRunningCommands == Commands \ {"get_info", "home_page", "help", "clear"}
openingCommands == {"create_workspace", "load_workspace"}
localCommands == {"help", "clear"}

\* workspaceScopeForRequest
WorkspaceScope(j) == IF DirectoryOf[j] = NoDirectory THEN GlobalScope ELSE DirectoryOf[j]

ASSUME DesktopAssumption ==
    /\ NoDirectory \notin Directories /\ GlobalScope \notin Directories
    /\ DirectoryOf \in [Jobs -> Directories \cup {NoDirectory}]
    /\ CommandOf \in [Jobs -> Commands]
    /\ Scopes = Directories \cup {GlobalScope}
    /\ ScopeOf = [j \in Jobs |-> WorkspaceScope(j)]
    /\ LongRunning = {j \in Jobs : CommandOf[j] \in longRunningCommands}

VARIABLES
    activeWorkspace,   \* of the adapter of each manager
    target             \* the directory the job's ecc process works on

desktopVars == <<vars, activeWorkspace, target>>

DesktopInit ==
    /\ Init
    /\ activeWorkspace = [m \in Managers |-> NoDirectory]
    /\ target = [j \in Jobs |-> NoDirectory]

\* Mutant: the active workspace first.
ActiveDirectoryFirst(j) ==
    IF activeWorkspace[ManagerOf[j]] # NoDirectory THEN activeWorkspace[ManagerOf[j]]
                                                   ELSE DirectoryOf[j]

\* directoryFromRequest, evaluated by prepareCommand as the command starts.
\* create_workspace and the local commands do not look for a directory.
DirectoryFromRequest(j) ==
    IF CommandOf[j] = "create_workspace" THEN DirectoryOf[j]
    ELSE IF CommandOf[j] \in localCommands THEN NoDirectory
    ELSE IF DirectoryOf[j] # NoDirectory THEN DirectoryOf[j]
    ELSE activeWorkspace[ManagerOf[j]]

Begins(j) == phase[j] # "executing" /\ phase'[j] = "executing"

SetTarget ==
    target' = [j \in Jobs |-> IF Begins(j) THEN DirectoryFromRequest(j) ELSE target[j]]

\* prepareCommand refuses a command that finds no directory, before any await.
NeedsDirectory(j) == CommandOf[j] \notin localCommands \cup {"create_workspace"}
Refused(j) == NeedsDirectory(j) /\ target[j] = NoDirectory

DesktopExecute(j) == Execute(j) /\ SetTarget /\ UNCHANGED activeWorkspace

LockAnswers(j) ==
    /\ LockGranted(j) \/ LockDenied(j) \/ LockThrows(j)
    /\ SetTarget /\ UNCHANGED activeWorkspace

\* ecc is started by neither a local command nor one that was refused.
RunsEcc(j) == CommandOf[j] \notin localCommands /\ ~Refused(j)

\* An event line of the ecc process is passed on.
EccReports(j) ==
    /\ RunsEcc(j)
    /\ \E kind \in Reports : AdapterReports(j, kind)
    /\ UNCHANGED <<activeWorkspace, target>>

\* A create or load that answers success, and not warning, makes the directory that
\* ecc reports, or else the one of the request, the active workspace.
AdapterSucceeds(j) ==
    /\ ~Refused(j)
    /\ AdapterReturns(j, "completed")
    /\ \E reported \in {NoDirectory, target[j]}, response \in {"success", "warning"} :
         LET opened == IF reported # NoDirectory THEN reported ELSE DirectoryOf[j]
         IN  activeWorkspace' =
               IF CommandOf[j] \in openingCommands /\ response = "success" /\ opened # NoDirectory
               THEN [activeWorkspace EXCEPT ![ManagerOf[j]] = opened]
               ELSE activeWorkspace
    /\ UNCHANGED target

\* A refused command fails; otherwise it is ecc that fails or reports that it was
\* cancelled, or the adapter that throws.
AdapterFails(j) ==
    /\ CommandOf[j] \notin localCommands
    /\ \/ AdapterReturns(j, "failed")
       \/ RunsEcc(j) /\ (AdapterReturns(j, "cancelled") \/ AdapterThrows(j))
    /\ UNCHANGED <<activeWorkspace, target>>

DesktopReleased(j) == Released(j) /\ UNCHANGED <<activeWorkspace, target>>

DesktopCrash(m) ==
    /\ Crash(m)
    /\ activeWorkspace' = [activeWorkspace EXCEPT ![m] = NoDirectory]
    /\ UNCHANGED target

DesktopNext ==
    \/ \E j \in Jobs : \/ DesktopExecute(j) \/ LockAnswers(j)
                       \/ EccReports(j) \/ AdapterSucceeds(j) \/ AdapterFails(j)
                       \/ DesktopReleased(j)
    \/ \E m \in Managers : DesktopCrash(m)

DesktopSpec == DesktopInit /\ [][DesktopNext]_desktopVars

(***************************************************************************)
(* Properties.                                                             *)
(***************************************************************************)

\* Long-running ECC commands never overlap on one workspace directory, in one
\* manager or in two: what desktopRuntimeManager.test.ts promises.
WorkspaceExclusion ==
    \A i, j \in Jobs :
        /\ Working(i) /\ Working(j)
        /\ target[i] = target[j] /\ target[i] \in SoundScopes
        => i = j
=============================================================================
