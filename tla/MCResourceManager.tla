------------------------- MODULE MCResourceManager -------------------------
(***************************************************************************)
(* ResourceManager with three history variables: whether two operations    *)
(* ever got in each other's way, which operation on a resource succeeded   *)
(* last, and which installs were cancelled in time.                        *)
(***************************************************************************)
EXTENDS ResourceManager, TLC

CONSTANTS o1, o2, o3, proc1, proc2, tool, pdkA, pdkB, v0, v1
MCProcessOf == o1 :> proc1 @@ o2 :> proc1 @@ o3 :> proc2

\* A local tool and an old managed PDK, which is active.
MCInherited ==
    LET Old(v) == [version |-> v, managed |-> v # Local, active |-> TRUE, health |-> "ok"]
    IN  { tool :> Old(Local) @@ pdkA :> Old(v0) @@ pdkB :> Absent }

\* The tool has no checksum, and pdkB downloads release assets.
MCChecksummed == (Resources \X Versions) \ {<<tool, v1>>}
MCWithAssets == {<<pdkB, v1>>}

MCSymmetry == Permutations({o1, o2})

VARIABLES clean, last, inTime
mcvars == <<vars, clean, last, inTime>>

InFlight == {o \in Ops : step[o] \notin {"idle", "over"}}
Windows == {o \in Ops : step[o] \in {"removeTree", "stat", "write"}}
Collision ==
    \/ \E o, i \in Windows : o # i
    \/ \E o, i \in InFlight : o # i /\ Target(o) = Target(i)
Uninstalling(o) == step[o] \in {"removeTree", "write"} /\ Kind(o) = "uninstall"
BreaksOff(o) == Uninstalling(o) /\ step'[o] = "over" /\ result'[o] # "done"

Windowed(o) == step[o] \in {"scan", "read", "write"}

MCInit ==
    /\ Init
    /\ clean = TRUE
    /\ last = [r \in Resources |-> NoRequest]
    /\ inTime = {}

MCNext ==
    /\ Next
    /\ clean' = (clean /\ ~Collision' /\ ~\E o \in Ops : BreaksOff(o))
    /\ last' = [r \in Resources |->
                 IF \E o \in Ops : result'[o] # result[o] /\ result'[o] = "done" /\ Target(o) = r
                 THEN CHOOSE o \in Ops :
                        result'[o] # result[o] /\ result'[o] = "done" /\ Target(o) = r
                 ELSE last[r]]
    /\ inTime' = {o \in inTime \cup (aborted' \ aborted) :
                    result'[o] \in {"none", "done"} /\ (o \in inTime \/ ~Windowed(o))}

MCSpec == MCInit /\ [][MCNext]_mcvars

\* All that an install can answer for.
Complete(d, contents) == contents = "ready" \/ (contents = "corrupt" /\ d \notin Vouched)

\* As long as no two operations work on one resource at once, no two have the
\* manifest in their hands at once and no uninstall breaks off halfway, every
\* managed entry of the manifest has its complete directory on disk, with the
\* contents the registry meant wherever it vouches for them, however
\* many downloads run in parallel, fail, are cancelled or die with a process.
ListedIsReady ==
    clean => \A r \in Resources :
        (IF manifest[r] = Absent THEN FALSE ELSE manifest[r].managed) =>
            \/ Complete(<<r, manifest[r].version>>, tree[<<r, manifest[r].version>>])
            \/ \E o \in InFlight : Uninstalling(o) /\ Target(o) = r

\* Under the same condition the manifest says of each resource what the last
\* operation on it said: an operation that reported success is not undone by
\* another one on another resource.
LastSuccessStands ==
    clean => \A r \in Resources : last[r] # NoRequest =>
        LET o == last[r] IN
        CASE Kind(o) \in {"uninstall", "removeReference"} -> manifest[r] = Absent
          [] Kind(o) \in {"install", "importFor", "importAny"} ->
               manifest[r] # Absent /\ manifest[r].version = Version(o)
          [] OTHER -> manifest[r] # Absent

\* An install that is cancelled up to its last throwIfAborted never reports done and
\* never changes the manifest, whichever of its steps it is at.  Later, while it
\* scans its directory and edits the manifest, cancelResource answers cancelled as
\* well, and the install goes on and reports done.
CancelledInTime == \A o \in inTime : result[o] # "done" /\ ~Windowed(o)
=============================================================================
