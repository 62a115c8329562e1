-------------------------- MODULE ResourceManager --------------------------
(***************************************************************************)
(* ResourceManagerService (electron/services/resourceManagerService.ts):   *)
(* tools and PDKs are downloaded, verified, extracted, put in place and    *)
(* listed in manifest.json.  Every operation reads the whole manifest,     *)
(* changes its copy and writes the whole manifest back; nothing keeps the  *)
(* operations of one process, or of several, apart except the map of       *)
(* active install jobs of each process.                                    *)
(*                                                                         *)
(* An action is what runs between two awaits of an operation.              *)
(***************************************************************************)

CONSTANTS
    Ops,          \* operations, each requested at most once
    Processes,    \* Electron processes
    ProcessOf,    \* the process an operation is requested in
    Tools, Pdks,  \* resource ids
    Versions,     \* versions in the registry
    Latest,       \* the first version the registry lists
    Local,        \* the (empty) version of a local import
    Absent,       \* no entry in the manifest
    NoRequest,
    Checksummed,  \* the resources and versions whose archive the registry has a checksum for
    WithAssets,   \* those whose post-install downloads release assets
    Inherited,    \* the manifests earlier sessions may have left
    OfferedOnly   \* are requests limited to what the list of resources offers?

Resources == Tools \cup Pdks
Entries == [version : Versions \cup {Local}, managed : BOOLEAN, active : BOOLEAN,
            health : {"ok", "missing"}]
Manifests == [Resources -> Entries \cup {Absent}]
Kinds == {"install", "uninstall", "activate", "validate", "removeReference",
          "importAny", "importFor"}
Requests == [kind : Kinds, resource : Resources, version : Versions \cup {Local}]

ASSUME ResourceAssumption ==
    /\ ProcessOf \in [Ops -> Processes]
    /\ Tools \cap Pdks = {}
    /\ Local \notin Versions /\ Latest \in Versions
    /\ Absent \notin Entries /\ NoRequest \notin Requests
    /\ Checksummed \subseteq Resources \X Versions
    /\ WithAssets \subseteq Resources \X Versions
    /\ OfferedOnly \in BOOLEAN

VARIABLES
    manifest,   \* manifest.json: the entry of each resource
    tree,       \* contents of the directories of managed versions; corrupt is what
                \* the registry did not mean
    request,    \* what each operation was asked to do
    step,       \* where it stands
    snapshot,   \* its copy of the manifest
    archive,    \* the archive it downloaded: good or corrupt
    aborted,    \* operations whose AbortController was aborted
    activeJobs, \* resource -> operation, per process; a set of operations
    result      \* how it ended: the last event of an install job

vars == <<manifest, tree, request, step, snapshot, archive, aborted, activeJobs, result>>
jobState == <<request, archive, aborted, activeJobs>>
locals == <<snapshot, archive, aborted>>   \* out of scope once the operation is over

Steps == {"idle", "download", "verify", "extract", "removeOld", "place", "post",
          "scan", "read", "removeTree", "stat", "write", "over"}
Results == {"none", "done", "error", "cancelled", "refused", "died"}

TypeOK ==
    /\ manifest \in Manifests
    /\ tree \in [Resources \X Versions -> {"none", "corrupt", "raw", "ready"}]
    /\ request \in [Ops -> Requests \cup {NoRequest}]
    /\ step \in [Ops -> Steps]
    /\ snapshot \in [Ops -> Manifests]
    /\ archive \in [Ops -> {"none", "good", "corrupt"}]
    /\ aborted \subseteq Ops
    /\ activeJobs \subseteq Ops
    /\ result \in [Ops -> Results]

ActivePdks(m) == {r \in Pdks : m[r] # Absent /\ m[r].active}

AtMostOneActive(m) == \A r, q \in ActivePdks(m) : r = q

\* Only an import leaves an entry without a version, and that is not managed.
ASSUME InheritedAssumption ==
    /\ Inherited \subseteq Manifests
    /\ \A m \in Inherited :
         /\ AtMostOneActive(m)
         /\ \A r \in Resources : m[r] # Absent /\ m[r].managed => m[r].version # Local

NothingListed == [r \in Resources |-> Absent]
DropLocals(O) ==
    /\ snapshot' = [o \in Ops |-> IF o \in O THEN NothingListed ELSE snapshot[o]]
    /\ archive' = [o \in Ops |-> IF o \in O THEN "none" ELSE archive[o]]
    /\ aborted' = aborted \ O

Listed(m, r, v) == m[r] # Absent /\ m[r].managed /\ m[r].version = v

Init ==
    /\ manifest \in Inherited
    /\ tree = [d \in Resources \X Versions |->
                 IF Listed(manifest, d[1], d[2]) THEN "ready" ELSE "none"]
    /\ request = [o \in Ops |-> NoRequest]
    /\ step = [o \in Ops |-> "idle"]
    /\ snapshot = [o \in Ops |-> NothingListed]
    /\ archive = [o \in Ops |-> "none"]
    /\ aborted = {}
    /\ activeJobs = {}
    /\ result = [o \in Ops |-> "none"]

Kind(o) == request[o].kind
Target(o) == request[o].resource
Version(o) == request[o].version
Place(o) == <<Target(o), Version(o)>>

Goto(o, s) == step' = [step EXCEPT ![o] = s] /\ UNCHANGED result
End(o, how) ==
    /\ step' = [step EXCEPT ![o] = "over"]
    /\ result' = [result EXCEPT ![o] = how]

\* activeJobs.has(resourceId) in the process of o
JobActive(p, r) == \E i \in activeJobs : ProcessOf[i] = p /\ Target(i) = r

(***************************************************************************)
(* What the list of resources offers for an entry, and the imports, which  *)
(* are offered for every resource.                                         *)
(***************************************************************************)
Actions(p, r) ==
    LET e == manifest[r]
        When(condition, kind) == IF condition THEN {kind} ELSE {}
    IN  IF JobActive(p, r) THEN {}
        ELSE CASE e = Absent -> {"install"}
               [] e # Absent /\ r \in Tools ->
                    {"uninstall"} \cup When(~e.managed \/ e.version # Latest, "install")
               [] OTHER ->
                    {"validate", IF e.managed THEN "uninstall" ELSE "removeReference"}
                      \cup When(~e.active, "activate")
                      \cup When(e.managed /\ e.health = "ok" /\ e.version # Latest, "install")

Offered(p, q) ==
    /\ q.kind \in Actions(p, q.resource) \cup {"importAny", "importFor"}
    /\ q.kind = "install" => q.version = Latest

\* A request that fits the operation's signature.
WellFormed(q) ==
    /\ q.version = Local <=> q.kind # "install"
    /\ q.kind \in {"activate", "validate", "removeReference", "importAny"} => q.resource \in Pdks

\* An install enters the map of active jobs or is refused; an import scans the
\* directory first and may refuse it.
Request(o) ==
    /\ step[o] = "idle"
    /\ \E q \in Requests :
         /\ WellFormed(q)
         /\ OfferedOnly => Offered(ProcessOf[o], q)
         /\ request' = [request EXCEPT ![o] = q]
         /\ \/ /\ q.kind = "install" /\ ~JobActive(ProcessOf[o], q.resource)
               /\ activeJobs' = activeJobs \cup {o}
               /\ Goto(o, "download")
            \/ /\ q.kind \in {"install", "importAny", "importFor"}
               /\ q.kind = "install" => JobActive(ProcessOf[o], q.resource)
               /\ End(o, "refused")
               /\ UNCHANGED activeJobs
            \/ /\ q.kind # "install"
               /\ Goto(o, "read")
               /\ UNCHANGED activeJobs
    /\ UNCHANGED <<manifest, tree, snapshot, archive, aborted>>

(***************************************************************************)
(* installTool and installPdk.                                             *)
(***************************************************************************)

\* Mutant: the finally clause is missing.
GiveUpStillActive(o) ==
    /\ End(o, IF o \in aborted THEN "cancelled" ELSE "error")
    /\ DropLocals({o})
    /\ UNCHANGED <<manifest, request, activeJobs>>

\* The catch and finally clauses.
GiveUp(o) ==
    /\ End(o, IF o \in aborted THEN "cancelled" ELSE "error")
    /\ activeJobs' = activeJobs \ {o}
    /\ DropLocals({o})
    /\ UNCHANGED <<manifest, request>>

\* fetchRegistry, selectPlatformAsset, downloadAsset, throwIfAborted.
Download(o) ==
    /\ step[o] = "download"
    /\ \/ GiveUp(o)
       \/ /\ o \notin aborted
          /\ \E a \in {"good", "corrupt"} : archive' = [archive EXCEPT ![o] = a]
          /\ Goto(o, "verify")
          /\ UNCHANGED <<manifest, request, snapshot, aborted, activeJobs>>
    /\ UNCHANGED tree

\* Mutant: the checksum is not compared.
VerifyNothing(o) ==
    /\ step[o] = "verify"
    /\ IF o \notin aborted
       THEN Goto(o, "extract") /\ UNCHANGED <<manifest, snapshot, jobState>>
       ELSE GiveUp(o)
    /\ UNCHANGED tree

\* verifySha256 accepts any archive when no checksum is expected.
Verify(o) ==
    /\ step[o] = "verify"
    /\ IF (archive[o] = "good" \/ Place(o) \notin Checksummed) /\ o \notin aborted
       THEN Goto(o, "extract") /\ UNCHANGED <<manifest, snapshot, jobState>>
       ELSE GiveUp(o)
    /\ UNCHANGED tree

\* The archive is extracted next to the destination.
Extract(o) ==
    /\ step[o] = "extract"
    /\ \/ GiveUp(o)
       \/ o \notin aborted /\ Goto(o, "removeOld") /\ UNCHANGED <<manifest, snapshot, jobState>>
    /\ UNCHANGED tree

RemoveOld(o) ==
    /\ step[o] = "removeOld"
    /\ tree' = [tree EXCEPT ![Place(o)] = "none"]
    /\ \/ Goto(o, "place") /\ UNCHANGED <<manifest, snapshot, jobState>>
       \/ GiveUp(o)

\* rename(tempExtract, destination), which fails on a directory that another
\* job has put there meanwhile, and for a tool the last throwIfAborted.
PutInPlace(o) ==
    /\ step[o] = "place"
    /\ \/ /\ tree[Place(o)] = "none"
          /\ tree' = [tree EXCEPT ![Place(o)] =
                        IF archive[o] # "good" THEN "corrupt"
                        ELSE IF Target(o) \in Tools THEN "ready" ELSE "raw"]
          /\ IF Target(o) \in Tools /\ o \in aborted
             THEN GiveUp(o)
             ELSE /\ Goto(o, IF Target(o) \in Tools THEN "read" ELSE "post")
                  /\ UNCHANGED <<manifest, snapshot, jobState>>
       \/ GiveUp(o) /\ UNCHANGED tree

\* Mutants: the steps are skipped, or the job goes on when it was cancelled.
PostInstallSkipped(o) ==
    /\ step[o] = "post"
    /\ IF o \in aborted THEN GiveUp(o)
       ELSE Goto(o, "scan") /\ UNCHANGED <<manifest, snapshot, jobState>>
    /\ UNCHANGED tree

PostInstallUncancelled(o) ==
    /\ step[o] = "post" /\ tree[Place(o)] # "none"
    /\ tree' = [tree EXCEPT ![Place(o)] = "ready"]
    /\ Goto(o, "scan") /\ UNCHANGED <<manifest, snapshot, jobState>>

\* What the post-install steps make of a directory.  Release assets are not verified.
Finished(o) ==
    IF tree[Place(o)] \in {"none", "corrupt"} THEN {tree[Place(o)]}
    ELSE IF Place(o) \in WithAssets THEN {"ready", "corrupt"} ELSE {"ready"}

\* preDownloadPdkReleaseAssets, runPostInstallSteps and the last throwIfAborted.
PostInstall(o) ==
    /\ step[o] = "post"
    /\ \/ GiveUp(o) /\ UNCHANGED tree
       \/ /\ \E c \in Finished(o) : tree' = [tree EXCEPT ![Place(o)] = c]
          /\ IF o \in aborted
             THEN GiveUp(o)
             ELSE Goto(o, "scan") /\ UNCHANGED <<manifest, snapshot, jobState>>

\* scanPdkDirectory.  A cancel from here on is too late: nobody looks.
Scan(o) ==
    /\ step[o] = "scan"
    /\ \/ GiveUp(o)
       \/ /\ tree[Place(o)] # "none"
          /\ Goto(o, "read") /\ UNCHANGED <<manifest, snapshot, jobState>>
    /\ UNCHANGED tree

(***************************************************************************)
(* Changes to a copy of the manifest.                                      *)
(***************************************************************************)
IsPdk(m, r) == r \in Pdks /\ m[r] # Absent
OnlyActive(m, keep) ==
    [r \in Resources |-> IF IsPdk(m, r) THEN [m[r] EXCEPT !.active = r \in keep] ELSE m[r]]

ToolEntry(v) == [version |-> v, managed |-> v # Local, active |-> TRUE, health |-> "ok"]
PdkEntry(v, on) == [version |-> v, managed |-> v # Local, active |-> on, health |-> "ok"]

\* installPdk and importPdkPathForResource: stay active, or become active when
\* no other PDK is, and then deactivate the others.
PutPdk(m, r, v) ==
    LET others == ActivePdks(m) \ {r}
        on == r \in ActivePdks(m) \/ others = {}
    IN  [(IF on THEN OnlyActive(m, {r}) ELSE m) EXCEPT ![r] = PdkEntry(v, on)]

AddPdkActive(m, r) == [m EXCEPT ![r] = PdkEntry(Local, TRUE)]   \* mutant: always active

\* importPdkPath: active only when no PDK at all is active.
AddPdk(m, r) == [m EXCEPT ![r] = PdkEntry(Local, ActivePdks(m) = {})]

DelistNothing(m, r) == m   \* mutant: the copy is written back as read

Delist(m, r) == [m EXCEPT ![r] = Absent]

Edited(o, m) ==
    LET r == Target(o) IN
    CASE Kind(o) \in {"install", "importFor"} ->
           IF r \in Tools THEN [m EXCEPT ![r] = ToolEntry(Version(o))]
                          ELSE PutPdk(m, r, Version(o))
      [] Kind(o) = "importAny" -> AddPdk(m, r)
      [] Kind(o) = "activate"  -> OnlyActive(m, {r})
      [] Kind(o) = "validate"  -> m
      [] OTHER                 -> Delist(m, r)

Refused(o, m) ==
    LET e == m[Target(o)] IN
    CASE Kind(o) \in {"install", "importFor", "importAny"} -> FALSE
      [] Kind(o) = "removeReference" -> IF e = Absent THEN TRUE ELSE e.managed
      [] Kind(o) = "uninstall" ->
           IF e = Absent THEN TRUE ELSE Target(o) \in Pdks /\ ~e.managed
      [] OTHER -> e = Absent

\* readManifest, and the checks before the next await.  For a tool detectExecutables
\* comes first; it never fails, and takes a missing directory for an empty one.
ReadManifest(o) ==
    /\ step[o] = "read"
    /\ IF Refused(o, manifest)
       THEN End(o, "error") /\ UNCHANGED snapshot
       ELSE /\ snapshot' = [snapshot EXCEPT ![o] = manifest]
            /\ Goto(o, CASE Kind(o) = "validate" -> "stat"
                         [] Kind(o) = "uninstall" /\ manifest[Target(o)].managed -> "removeTree"
                         [] OTHER -> "write")
    /\ UNCHANGED <<manifest, tree, jobState>>

\* uninstallResource and removeManagedPdk: the directory of the entry as read.
RemoveTree(o) ==
    /\ step[o] = "removeTree"
    /\ tree' = [tree EXCEPT ![<<Target(o), snapshot[o][Target(o)].version>>] = "none"]
    /\ \/ Goto(o, "write") /\ UNCHANGED locals
       \/ End(o, "error") /\ DropLocals({o})
    /\ UNCHANGED <<manifest, request, activeJobs>>

\* validatePdk: is the directory there?  That of a local import may have gone.
StatTree(o) ==
    LET e == snapshot[o][Target(o)]
        there == IF e.managed THEN {tree[<<Target(o), e.version>>] # "none"} ELSE BOOLEAN
    IN  /\ step[o] = "stat"
        /\ \E yes \in there :
             snapshot' = [snapshot EXCEPT ![o][Target(o)].health =
                            IF yes THEN "ok" ELSE "missing"]
        /\ Goto(o, "write")
        /\ UNCHANGED <<manifest, tree, jobState>>

\* writeManifest, whose rename is atomic, and the end of the operation.
WriteManifest(o) ==
    /\ step[o] = "write"
    /\ \/ /\ manifest' = Edited(o, snapshot[o])
          /\ End(o, "done")
       \/ End(o, IF o \in aborted THEN "cancelled" ELSE "error") /\ UNCHANGED manifest
    /\ activeJobs' = activeJobs \ {o}
    /\ DropLocals({o})
    /\ UNCHANGED <<tree, request>>

(***************************************************************************)
(* The environment of the operations.                                      *)
(***************************************************************************)
CancelResource(p, r) ==
    /\ JobActive(p, r)
    /\ aborted' = aborted \cup {o \in activeJobs : ProcessOf[o] = p /\ Target(o) = r}
    /\ aborted' # aborted
    /\ UNCHANGED <<manifest, tree, request, step, snapshot, archive, activeJobs, result>>

Crash(p) ==
    LET lost == {o \in Ops : ProcessOf[o] = p /\ step[o] \notin {"idle", "over"}}
    IN  /\ lost # {}
        /\ step' = [o \in Ops |-> IF o \in lost THEN "over" ELSE step[o]]
        /\ result' = [o \in Ops |-> IF o \in lost THEN "died" ELSE result[o]]
        /\ activeJobs' = activeJobs \ lost
        /\ DropLocals(lost)
        /\ UNCHANGED <<manifest, tree, request>>

Install(o) ==
    \/ Download(o) \/ Verify(o) \/ Extract(o)
    \/ RemoveOld(o) \/ PutInPlace(o) \/ PostInstall(o) \/ Scan(o)

OpStep(o) ==
    \/ Install(o) \/ ReadManifest(o) \/ RemoveTree(o) \/ StatTree(o) \/ WriteManifest(o)

Next ==
    \/ \E o \in Ops : Request(o) \/ OpStep(o)
    \/ \E p \in Processes, r \in Resources : CancelResource(p, r)
    \/ \E p \in Processes : Crash(p)

Spec == Init /\ [][Next]_vars

(***************************************************************************)
(* Properties.                                                             *)
(***************************************************************************)

\* At most one PDK is active, in the manifest and in every copy an operation
\* may still write, however the operations of several processes interleave and
\* whichever of them fails: createRuntimeEnv exports the root of each active
\* PDK, and a flow must find one.
OneActivePdk ==
    /\ AtMostOneActive(manifest)
    /\ \A o \in Ops : step[o] = "write" => AtMostOneActive(Edited(o, snapshot[o]))

\* The map of active jobs holds exactly the installs that are under way, at most
\* one per resource in each process: a job that ended, failed or was cancelled
\* never blocks the next install of its resource, and a refused one does not
\* release somebody else's entry.
JobsMatchInstalls ==
    /\ \A o \in Ops :
         o \in activeJobs <=> step[o] \notin {"idle", "over"} /\ Kind(o) = "install"
    /\ \A o, i \in activeJobs :
         ProcessOf[o] = ProcessOf[i] /\ Target(o) = Target(i) => o = i

\* The resources and versions all of whose contents the checksum vouches for.
Vouched == Checksummed \ WithAssets

\* Whatever was downloaded, and whoever else works on the directory, nothing that
\* fails verification is ever put in it.  This holds only where there is something to
\* verify: not of an archive without a checksum, nor of release assets.
NothingCorruptPlaced == \A d \in Vouched : tree[d] # "corrupt"
=============================================================================
