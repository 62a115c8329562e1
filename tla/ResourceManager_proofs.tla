----------------------- MODULE ResourceManager_proofs -----------------------
(***************************************************************************)
(* Proofs about ResourceManager, for any resources, versions, processes    *)
(* and operations, however they interleave and fail.                       *)
(*                                                                         *)
(* At most one PDK is active: every manifest an operation may write is an  *)
(* edit of one that was on disk once, and every edit, made on a manifest   *)
(* with at most one active PDK, yields such a manifest (EditKeepsOne).  It *)
(* does not matter that the copy is stale.                                 *)
(*                                                                         *)
(* The map of jobs, and that nothing corrupt is installed: the kind, the   *)
(* step, the archive and the result of an operation go together (Orderly). *)
(* A cancel in time finds the install on its way (Stopping).               *)
(*                                                                         *)
(* What the manifest says while operations do not collide: one at a time   *)
(* is between its read and its write, and its copy is as good as the file  *)
(* (Serial), so a success stands until the resource is asked for again;    *)
(* and if requests are those the list offers, an operation has its         *)
(* resource for itself and what it placed is complete (Tidy).              *)
(***************************************************************************)
EXTENDS MCResourceManager, TLAPS

\* What the type invariant needs in addition to be inductive.
Requested == \A o \in Ops : step[o] # "idle" => request[o] \in Requests
StatsEntry == \A o \in Ops : step[o] = "stat" => snapshot[o][Target(o)] # Absent

Typed == TypeOK /\ Requested /\ StatsEntry
OneActive ==
    AtMostOneActive(manifest) /\ \A o \in Ops : AtMostOneActive(snapshot[o])

(***************************************************************************)
(* Edits of a manifest.                                                    *)
(***************************************************************************)
LEMMA EntriesTyped ==
    ASSUME NEW v \in Versions \cup {Local}, NEW on \in BOOLEAN
    PROVE  ToolEntry(v) \in Entries /\ PdkEntry(v, on) \in Entries
  BY DEF ToolEntry, PdkEntry, Entries

LEMMA SetActive ==
    ASSUME NEW e \in Entries, NEW b \in BOOLEAN
    PROVE  [e EXCEPT !.active = b] \in Entries /\ [e EXCEPT !.active = b].active = b
  BY DEF Entries

LEMMA OnlyActiveAt ==
    ASSUME NEW m \in Manifests, NEW r, NEW q \in Resources, IsPdk(m, q)
    PROVE  /\ OnlyActive(m, {r})[q] \in Entries
           /\ OnlyActive(m, {r})[q].active => q = r
  <1>1. m[q] \in Entries  BY DEF Manifests, IsPdk
  <1>2. OnlyActive(m, {r})[q] = [m[q] EXCEPT !.active = q \in {r}]  BY DEF OnlyActive
  <1>3. CASE q = r
    <2>1. (q \in {r}) = TRUE  BY <1>3
    <2>2. OnlyActive(m, {r})[q] = [m[q] EXCEPT !.active = TRUE]  BY <1>2, <2>1, Zenon
    <2> QED  BY <1>1, <1>3, <2>2, SetActive
  <1>4. CASE q # r
    <2>1. (q \in {r}) = FALSE  BY <1>4
    <2>2. OnlyActive(m, {r})[q] = [m[q] EXCEPT !.active = FALSE]  BY <1>2, <2>1, Zenon
    <2> QED  BY <1>1, <2>2, SetActive
  <1> QED  BY <1>3, <1>4

LEMMA OneLeft ==
    ASSUME NEW n, NEW r, ActivePdks(n) \ {r} = {} PROVE AtMostOneActive(n)
  BY DEF AtMostOneActive

LEMMA OneKept ==
    ASSUME NEW n, NEW m, NEW r, ActivePdks(n) \ {r} = ActivePdks(m) \ {r},
           r \notin ActivePdks(n), AtMostOneActive(m)
    PROVE  AtMostOneActive(n)
  BY DEF AtMostOneActive

LEMMA OnlyActiveOne ==
    ASSUME NEW m \in Manifests, NEW r
    PROVE  OnlyActive(m, {r}) \in Manifests /\ ActivePdks(OnlyActive(m, {r})) \subseteq {r}
  <1> DEFINE a == OnlyActive(m, {r})
  <1>1. \A q \in Resources : a[q] \in Entries \cup {Absent}
    <2> SUFFICES ASSUME NEW q \in Resources PROVE a[q] \in Entries \cup {Absent}
      OBVIOUS
    <2>1. CASE IsPdk(m, q)
      BY <2>1, OnlyActiveAt
    <2>2. CASE ~IsPdk(m, q)
      BY <2>2 DEF OnlyActive, Manifests
    <2> QED  BY <2>1, <2>2
  <1>2. a \in Manifests  BY <1>1 DEF OnlyActive, Manifests
  <1>3. ASSUME NEW q \in Pdks, a[q] # Absent, a[q].active PROVE q = r
    <2>1. q \in Resources  BY DEF Resources
    <2>2. CASE IsPdk(m, q)
      BY <1>3, <2>1, <2>2, OnlyActiveAt
    <2>3. CASE ~IsPdk(m, q)
      BY <1>3, <2>1, <2>3 DEF OnlyActive, IsPdk
    <2> QED  BY <2>2, <2>3
  <1> QED  BY <1>2, <1>3 DEF ActivePdks

\* Replacing one entry leaves the other active PDKs as they were.
LEMMA ReplaceEntry ==
    ASSUME NEW m \in Manifests, NEW r \in Resources, NEW e \in Entries \cup {Absent}
    PROVE  LET n == [m EXCEPT ![r] = e]
           IN  /\ n \in Manifests
               /\ ActivePdks(n) \ {r} = ActivePdks(m) \ {r}
               /\ r \in ActivePdks(n) => e # Absent /\ e.active
  BY DEF Manifests, ActivePdks, Resources

LEMMA PutPdkOne ==
    ASSUME NEW m \in Manifests, NEW r \in Pdks, NEW v \in Versions \cup {Local},
           AtMostOneActive(m)
    PROVE  PutPdk(m, r, v) \in Manifests /\ AtMostOneActive(PutPdk(m, r, v))
  <1> DEFINE others == ActivePdks(m) \ {r}
             on == r \in ActivePdks(m) \/ others = {}
             e == PdkEntry(v, on)
  <1>1. r \in Resources  BY DEF Resources
  <1>2. e \in Entries /\ e.active = on  BY EntriesTyped DEF PdkEntry
  <1>3. CASE on
    <2> DEFINE base == OnlyActive(m, {r})
    <2>1. base \in Manifests /\ ActivePdks(base) \subseteq {r}  BY OnlyActiveOne
    <2>2. PutPdk(m, r, v) = [base EXCEPT ![r] = e]  BY <1>3 DEF PutPdk
    <2> HIDE DEF base, e
    <2>3. /\ [base EXCEPT ![r] = e] \in Manifests
          /\ ActivePdks([base EXCEPT ![r] = e]) \ {r} = ActivePdks(base) \ {r}
      BY <1>1, <1>2, <2>1, ReplaceEntry
    <2> QED  BY <2>1, <2>2, <2>3, OneLeft
  <1>4. CASE ~on
    <2>1. PutPdk(m, r, v) = [m EXCEPT ![r] = e]  BY <1>4 DEF PutPdk
    <2> HIDE DEF e
    <2>2. /\ [m EXCEPT ![r] = e] \in Manifests
          /\ ActivePdks([m EXCEPT ![r] = e]) \ {r} = ActivePdks(m) \ {r}
          /\ r \notin ActivePdks([m EXCEPT ![r] = e])
      BY <1>1, <1>2, <1>4, ReplaceEntry
    <2> QED  BY <2>1, <2>2, OneKept
  <1> QED  BY <1>3, <1>4

LEMMA AddPdkOne ==
    ASSUME NEW m \in Manifests, NEW r \in Pdks, AtMostOneActive(m)
    PROVE  AddPdk(m, r) \in Manifests /\ AtMostOneActive(AddPdk(m, r))
  <1> DEFINE none == ActivePdks(m) = {}
             e == PdkEntry(Local, none)
  <1>1. r \in Resources  BY DEF Resources
  <1>2. e \in Entries /\ e.active = none  BY EntriesTyped DEF PdkEntry
  <1>3. AddPdk(m, r) = [m EXCEPT ![r] = e]  BY DEF AddPdk
  <1> HIDE DEF e
  <1>4. /\ [m EXCEPT ![r] = e] \in Manifests
        /\ ActivePdks([m EXCEPT ![r] = e]) \ {r} = ActivePdks(m) \ {r}
        /\ r \in ActivePdks([m EXCEPT ![r] = e]) => ActivePdks(m) = {}
    BY <1>1, <1>2, ReplaceEntry
  <1>5. CASE ActivePdks(m) = {}
    BY <1>3, <1>4, <1>5, OneLeft
  <1>6. CASE ActivePdks(m) # {}
    BY <1>3, <1>4, <1>6, OneKept
  <1> QED  BY <1>5, <1>6

\* Every edit of a manifest with at most one active PDK yields another.
LEMMA EditKeepsOne ==
    ASSUME NEW o, NEW m \in Manifests, request[o] \in Requests, AtMostOneActive(m)
    PROVE  Edited(o, m) \in Manifests /\ AtMostOneActive(Edited(o, m))
  <1> DEFINE r == Target(o)
             v == Version(o)
  <1>1. r \in Resources /\ v \in Versions \cup {Local} /\ Kind(o) \in Kinds
    BY DEF Target, Version, Kind, Requests
  <1>2. CASE Kind(o) \in {"install", "importFor"} /\ r \in Tools
    <2>1. Edited(o, m) = [m EXCEPT ![r] = ToolEntry(v)]  BY <1>2 DEF Edited
    <2>2. r \notin Pdks  BY <1>2, ResourceAssumption
    <2>3. ToolEntry(v) \in Entries  BY <1>1, EntriesTyped
    <2>4. /\ [m EXCEPT ![r] = ToolEntry(v)] \in Manifests
          /\ ActivePdks([m EXCEPT ![r] = ToolEntry(v)]) \ {r} = ActivePdks(m) \ {r}
      BY <1>1, <2>3, ReplaceEntry
    <2>5. r \notin ActivePdks([m EXCEPT ![r] = ToolEntry(v)])  BY <2>2 DEF ActivePdks
    <2> QED  BY <2>1, <2>4, <2>5, OneKept
  <1>3. CASE Kind(o) \in {"install", "importFor"} /\ r \notin Tools
    <2>1. Edited(o, m) = PutPdk(m, r, v) /\ r \in Pdks  BY <1>1, <1>3 DEF Edited, Resources
    <2> QED  BY <1>1, <2>1, PutPdkOne
  <1>4. CASE Kind(o) = "importAny"
    <2>1. Edited(o, m) = AddPdk(m, r)  BY <1>4 DEF Edited
    <2>2. CASE r \in Pdks  BY <2>1, <2>2, AddPdkOne
    <2>3. CASE r \notin Pdks
      <3> DEFINE e == PdkEntry(Local, ActivePdks(m) = {})
      <3>1. e \in Entries  BY EntriesTyped
      <3>2. Edited(o, m) = [m EXCEPT ![r] = e]  BY <2>1 DEF AddPdk
      <3> HIDE DEF e
      <3>3. /\ [m EXCEPT ![r] = e] \in Manifests
            /\ ActivePdks([m EXCEPT ![r] = e]) \ {r} = ActivePdks(m) \ {r}
        BY <1>1, <3>1, ReplaceEntry
      <3>4. r \notin ActivePdks([m EXCEPT ![r] = e])  BY <2>3 DEF ActivePdks
      <3> QED  BY <3>2, <3>3, <3>4, OneKept
    <2> QED  BY <2>2, <2>3
  <1>5. CASE Kind(o) = "activate"
    <2>1. Edited(o, m) = OnlyActive(m, {r})  BY <1>5 DEF Edited
    <2>2. /\ OnlyActive(m, {r}) \in Manifests
          /\ ActivePdks(OnlyActive(m, {r})) \ {r} = {}
      BY OnlyActiveOne
    <2> QED  BY <2>1, <2>2, OneLeft
  <1>6. CASE Kind(o) = "validate"
    BY <1>6 DEF Edited
  <1>7. CASE Kind(o) \in {"uninstall", "removeReference"}
    <2>1. Edited(o, m) = [m EXCEPT ![r] = Absent]  BY <1>7 DEF Edited, Delist
    <2>2. /\ [m EXCEPT ![r] = Absent] \in Manifests
          /\ ActivePdks([m EXCEPT ![r] = Absent]) \ {r} = ActivePdks(m) \ {r}
          /\ r \notin ActivePdks([m EXCEPT ![r] = Absent])
      BY <1>1, ReplaceEntry
    <2> QED  BY <2>1, <2>2, OneKept
  <1> QED  BY <1>1, <1>2, <1>3, <1>4, <1>5, <1>6, <1>7 DEF Kinds

(***************************************************************************)
(* The invariant.                                                          *)
(***************************************************************************)
LEMMA InitSafe == Init => Typed /\ OneActive
  <1> SUFFICES ASSUME Init PROVE Typed /\ OneActive
    OBVIOUS
  <1>1. manifest \in Manifests /\ AtMostOneActive(manifest)
    BY InheritedAssumption DEF Init
  <1>2. NothingListed \in Manifests /\ ActivePdks(NothingListed) = {}
    BY DEF NothingListed, Manifests, ActivePdks, Resources
  <1>3. AtMostOneActive(NothingListed)
    BY <1>2 DEF AtMostOneActive
  <1>4. TypeOK
    BY <1>1, <1>2 DEF Init, TypeOK, Steps, Results
  <1> QED
    BY <1>1, <1>3, <1>4 DEF Init, Typed, OneActive, Requested, StatsEntry

Trees == [Resources \X Versions -> {"none", "corrupt", "raw", "ready"}]
Safe == Typed /\ OneActive

\* All of Safe but the type of the tree, which few steps change.
SafeButTree ==
    /\ manifest \in Manifests
    /\ request \in [Ops -> Requests \cup {NoRequest}]
    /\ step \in [Ops -> Steps]
    /\ snapshot \in [Ops -> Manifests]
    /\ archive \in [Ops -> {"none", "good", "corrupt"}]
    /\ aborted \subseteq Ops
    /\ activeJobs \subseteq Ops
    /\ result \in [Ops -> Results]
    /\ Requested /\ StatsEntry /\ OneActive

LEMMA SplitSafe == Safe <=> SafeButTree /\ tree \in Trees
  BY DEF Safe, SafeButTree, Trees, Typed, TypeOK

LEMMA TreeEdit ==
    ASSUME tree \in Trees, NEW d, NEW c \in {"none", "corrupt", "raw", "ready"}
    PROVE  [tree EXCEPT ![d] = c] \in Trees
  BY DEF Trees

\* An operation goes on to a step at which nothing new is claimed of it.
LEMMA GotoSafe ==
    ASSUME SafeButTree, NEW o \in Ops, NEW s \in Steps \ {"stat"}, step[o] # "idle",
           Goto(o, s), UNCHANGED <<manifest, snapshot, jobState>>
    PROVE  SafeButTree'
  BY DEF SafeButTree, Goto, jobState, Requested, StatsEntry, OneActive, Target

\* An operation is over and its locals are gone.
LEMMA DropSafe ==
    ASSUME SafeButTree, NEW O \in SUBSET Ops, DropLocals(O), UNCHANGED request,
           step' \in [Ops -> Steps], result' \in [Ops -> Results], activeJobs' \subseteq Ops,
           \A o \in O : step[o] # "idle" /\ step'[o] = "over",
           \A o \in Ops \ O : step'[o] = step[o],
           manifest' \in Manifests, AtMostOneActive(manifest')
    PROVE  SafeButTree'
  <1>1. NothingListed \in Manifests /\ AtMostOneActive(NothingListed)
    <2>1. ActivePdks(NothingListed) = {}
      BY DEF NothingListed, ActivePdks, Resources
    <2> QED  BY <2>1 DEF NothingListed, Manifests, AtMostOneActive
  <1>2. /\ snapshot' \in [Ops -> Manifests]
        /\ archive' \in [Ops -> {"none", "good", "corrupt"}]
        /\ aborted' \subseteq Ops
        /\ \A o \in O : snapshot'[o] = NothingListed
        /\ \A o \in Ops \ O : snapshot'[o] = snapshot[o]
    BY <1>1 DEF DropLocals, SafeButTree
  <1>3. OneActive'
    BY <1>1, <1>2 DEF OneActive, SafeButTree
  <1>4. Requested' /\ StatsEntry'
    BY <1>2 DEF Requested, StatsEntry, SafeButTree, Target
  <1> QED  BY <1>2, <1>3, <1>4 DEF SafeButTree

LEMMA EndSafe ==
    ASSUME SafeButTree, NEW o \in Ops, step[o] # "idle", NEW how \in Results, End(o, how),
           DropLocals({o}), activeJobs' \subseteq Ops, UNCHANGED request,
           manifest' \in Manifests, AtMostOneActive(manifest')
    PROVE  SafeButTree'
  <1>1. /\ step' \in [Ops -> Steps] /\ result' \in [Ops -> Results]
        /\ step'[o] = "over" /\ \A i \in Ops \ {o} : step'[i] = step[i]
    BY DEF End, SafeButTree, Steps
  <1> QED  BY <1>1, DropSafe

LEMMA GiveUpSafe ==
    ASSUME SafeButTree, NEW o \in Ops, step[o] # "idle", GiveUp(o)
    PROVE  SafeButTree'
  <1>1. PICK how \in Results : End(o, how)
    BY DEF GiveUp, Results
  <1>2. /\ DropLocals({o}) /\ activeJobs' \subseteq Ops
        /\ UNCHANGED request /\ manifest' \in Manifests /\ AtMostOneActive(manifest')
    BY DEF GiveUp, SafeButTree, OneActive
  <1> QED  BY <1>1, <1>2, EndSafe

(***************************************************************************)
(* The steps of an operation.                                              *)
(***************************************************************************)
LEMMA RequestSafe == ASSUME Safe, NEW o \in Ops, Request(o) PROVE Safe'
  <1>1. PICK q \in Requests :
          /\ request' = [request EXCEPT ![o] = q]
          /\ activeJobs' \in {activeJobs, activeJobs \cup {o}}
          /\ \/ Goto(o, "download") \/ Goto(o, "read") \/ End(o, "refused")
    BY DEF Request
  <1>2. /\ step[o] = "idle"
        /\ UNCHANGED <<manifest, tree, snapshot, archive, aborted>>
    BY DEF Request
  <1>3. PICK s \in {"download", "read", "over"} : step' = [step EXCEPT ![o] = s]
    BY <1>1 DEF Goto, End
  <1>4. result' \in [Ops -> Results]
    BY <1>1 DEF Goto, End, Safe, Typed, TypeOK, Results
  <1>5. step' \in [Ops -> Steps] /\ request' \in [Ops -> Requests \cup {NoRequest}]
    BY <1>1, <1>3 DEF Safe, Typed, TypeOK, Steps
  <1>6. Requested' /\ StatsEntry'
    BY <1>1, <1>2, <1>3 DEF Safe, Typed, TypeOK, Requested, StatsEntry, Target
  <1>7. TypeOK' /\ OneActive'
    BY <1>1, <1>2, <1>4, <1>5 DEF Safe, Typed, TypeOK, OneActive
  <1> QED  BY <1>6, <1>7 DEF Safe, Typed

LEMMA InstallSafe == ASSUME Safe, NEW o \in Ops, Install(o) PROVE Safe'
  <1>0. SafeButTree /\ tree \in Trees  BY SplitSafe
  <1>1. step[o] # "idle"
    BY DEF Install, Download, Verify, Extract, RemoveOld, PutInPlace, PostInstall, Scan
  <1>2. tree' \in Trees
    <2>1. \/ UNCHANGED tree
          \/ \E c \in {"none", "corrupt", "raw", "ready"} :
                tree' = [tree EXCEPT ![Place(o)] = c]
      BY DEF Install, Download, Verify, Extract, RemoveOld, PutInPlace, PostInstall, Finished,
             Scan
    <2> QED  BY <1>0, <2>1, TreeEdit
  <1>3. \/ GiveUp(o)
        \/ \E s \in Steps \ {"stat"} :
             Goto(o, s) /\ UNCHANGED <<manifest, snapshot, jobState>>
        \/ /\ Goto(o, "verify")
           /\ \E a \in {"good", "corrupt"} : archive' = [archive EXCEPT ![o] = a]
           /\ UNCHANGED <<manifest, request, snapshot, aborted, activeJobs>>
    BY DEF Install, Download, Verify, Extract, RemoveOld, PutInPlace, PostInstall, Scan, Steps
  <1>4. ASSUME GiveUp(o) PROVE SafeButTree'
    BY <1>0, <1>1, <1>4, GiveUpSafe
  <1>5. ASSUME NEW s \in Steps \ {"stat"},
               Goto(o, s) /\ UNCHANGED <<manifest, snapshot, jobState>>
        PROVE  SafeButTree'
    BY <1>0, <1>1, <1>5, GotoSafe
  <1>6. ASSUME Goto(o, "verify"),
               \E a \in {"good", "corrupt"} : archive' = [archive EXCEPT ![o] = a],
               UNCHANGED <<manifest, request, snapshot, aborted, activeJobs>>
        PROVE  SafeButTree'
    <2>1. archive' \in [Ops -> {"none", "good", "corrupt"}]
      BY <1>0, <1>6 DEF SafeButTree
    <2>2. step' = [step EXCEPT ![o] = "verify"] /\ UNCHANGED result
      BY <1>6 DEF Goto
    <2>3. step' \in [Ops -> Steps] /\ Requested' /\ StatsEntry'
      BY <1>0, <1>1, <1>6, <2>2 DEF SafeButTree, Steps, Requested, StatsEntry, Target
    <2> QED
      BY <1>0, <1>6, <2>1, <2>2, <2>3 DEF SafeButTree, OneActive
  <1>7. SafeButTree'
    BY <1>3, <1>4, <1>5, <1>6
  <1> QED
    BY <1>2, <1>7 DEF Safe, SafeButTree, Trees, Typed, TypeOK

LEMMA ReadSafe == ASSUME Safe, NEW o \in Ops, ReadManifest(o) PROVE Safe'
  <1>1. /\ step[o] = "read" /\ request[o] \in Requests
        /\ UNCHANGED <<manifest, tree, jobState>>
    BY DEF ReadManifest, Safe, Typed, Requested
  <1>2. CASE Refused(o, manifest)
    <2>1. End(o, "error") /\ UNCHANGED snapshot
      BY <1>2 DEF ReadManifest
    <2> QED
      BY <1>1, <2>1
      DEF End, Safe, Typed, TypeOK, Steps, Results, Requested, StatsEntry, OneActive,
          jobState, Target
  <1>3. CASE ~Refused(o, manifest)
    <2>1. snapshot' = [snapshot EXCEPT ![o] = manifest]
      BY <1>3 DEF ReadManifest
    <2>2. PICK s \in {"stat", "removeTree", "write"} : Goto(o, s)
      BY <1>3 DEF ReadManifest
    <2>3. s = "stat" => manifest[Target(o)] # Absent
      <3>1. s = "stat" => Kind(o) = "validate"
        BY <1>1, <1>3, <2>2 DEF ReadManifest, Goto, Safe, Typed, TypeOK
      <3> QED  BY <1>3, <3>1 DEF Refused
    <2>4. snapshot' \in [Ops -> Manifests] /\ OneActive'
      BY <1>1, <2>1 DEF Safe, Typed, TypeOK, OneActive
    <2>5. step' = [step EXCEPT ![o] = s] /\ UNCHANGED result
      BY <2>2 DEF Goto
    <2>6. step' \in [Ops -> Steps] /\ Requested'
      BY <1>1, <2>5 DEF Safe, Typed, TypeOK, Steps, Requested, jobState
    <2>7. StatsEntry'
      BY <1>1, <2>1, <2>3, <2>5 DEF Safe, Typed, TypeOK, StatsEntry, Target, jobState
    <2> QED
      BY <1>1, <2>4, <2>5, <2>6, <2>7 DEF Safe, Typed, TypeOK, jobState
  <1> QED  BY <1>2, <1>3

LEMMA RemoveTreeSafe == ASSUME Safe, NEW o \in Ops, RemoveTree(o) PROVE Safe'
  <1>0. SafeButTree /\ tree \in Trees  BY SplitSafe
  <1>1. tree' \in Trees
    BY <1>0, TreeEdit DEF RemoveTree
  <1>2. step[o] # "idle" /\ UNCHANGED <<manifest, request, activeJobs>>
    BY DEF RemoveTree
  <1>3. CASE Goto(o, "write") /\ UNCHANGED locals
    <2>1. "write" \in Steps \ {"stat"} /\ UNCHANGED <<manifest, snapshot, jobState>>
      BY <1>2, <1>3 DEF Steps, locals, jobState
    <2>2. SafeButTree'
      BY <1>0, <1>2, <1>3, <2>1, GotoSafe
    <2> QED  BY <1>1, <2>2 DEF Safe, SafeButTree, Trees, Typed, TypeOK
  <1>4. CASE End(o, "error") /\ DropLocals({o})
    <2>1. "error" \in Results /\ manifest' \in Manifests /\ AtMostOneActive(manifest')
          /\ activeJobs' \subseteq Ops
      BY <1>0, <1>2 DEF SafeButTree, OneActive, Results
    <2>2. SafeButTree'
      BY <1>0, <1>2, <1>4, <2>1, EndSafe
    <2> QED  BY <1>1, <2>2 DEF Safe, SafeButTree, Trees, Typed, TypeOK
  <1> QED  BY <1>3, <1>4 DEF RemoveTree

LEMMA SetHealth ==
    ASSUME NEW m \in Manifests, NEW r, m[r] # Absent, NEW h \in {"ok", "missing"}
    PROVE  /\ [m EXCEPT ![r].health = h] \in Manifests
           /\ AtMostOneActive(m) => AtMostOneActive([m EXCEPT ![r].health = h])
           /\ r \in Resources => [m EXCEPT ![r].health = h][r] # Absent
  <1> DEFINE n == [m EXCEPT ![r].health = h]
  <1>1. CASE r \in Resources
    <2>1. m[r] \in Entries  BY <1>1 DEF Manifests
    <2>2. n[r] = [m[r] EXCEPT !.health = h]  BY <1>1 DEF Manifests
    <2>3. n[r] \in Entries /\ n[r].active = m[r].active  BY <2>1, <2>2 DEF Entries
    <2>4. n \in Manifests /\ n[r] # Absent
      BY <2>3, ResourceAssumption DEF Manifests
    <2>5. \A q \in Resources \ {r} : n[q] = m[q]  BY DEF Manifests
    <2>6. ActivePdks(n) = ActivePdks(m)
      BY <2>3, <2>4, <2>5 DEF ActivePdks, Resources
    <2> QED  BY <2>4, <2>6 DEF AtMostOneActive
  <1>2. CASE r \notin Resources
    <2>1. n = m  BY <1>2 DEF Manifests
    <2> QED  BY <1>2, <2>1
  <1> QED  BY <1>1, <1>2

LEMMA StatSafe == ASSUME Safe, NEW o \in Ops, StatTree(o) PROVE Safe'
  <1>1. /\ step[o] = "stat" /\ Goto(o, "write")
        /\ UNCHANGED <<manifest, tree, jobState>>
    BY DEF StatTree
  <1>2. snapshot[o] \in Manifests /\ AtMostOneActive(snapshot[o])
        /\ snapshot[o][Target(o)] # Absent
    BY <1>1 DEF Safe, Typed, TypeOK, OneActive, StatsEntry
  <1>3. PICK h \in {"ok", "missing"} :
          snapshot' = [snapshot EXCEPT ![o] = [snapshot[o] EXCEPT ![Target(o)].health = h]]
    BY DEF StatTree, Safe, Typed, TypeOK
  <1>4. snapshot'[o] \in Manifests /\ AtMostOneActive(snapshot'[o])
    BY <1>2, <1>3, SetHealth DEF Safe, Typed, TypeOK
  <1>5. snapshot' \in [Ops -> Manifests] /\ OneActive'
    BY <1>1, <1>3, <1>4 DEF Safe, Typed, TypeOK, OneActive
  <1>6. step' = [step EXCEPT ![o] = "write"] /\ UNCHANGED result
    BY <1>1 DEF Goto
  <1>7. step' \in [Ops -> Steps] /\ Requested'
    BY <1>1, <1>6 DEF Safe, Typed, TypeOK, Steps, Requested, jobState
  <1>8. StatsEntry'
    BY <1>1, <1>3, <1>6 DEF Safe, Typed, TypeOK, StatsEntry, Target, jobState
  <1> QED
    BY <1>1, <1>5, <1>6, <1>7, <1>8 DEF Safe, Typed, TypeOK, jobState

LEMMA WriteSafe == ASSUME Safe, NEW o \in Ops, WriteManifest(o) PROVE Safe'
  <1>0. SafeButTree /\ tree \in Trees  BY SplitSafe
  <1>1. /\ step[o] # "idle" /\ DropLocals({o}) /\ UNCHANGED <<tree, request>>
        /\ activeJobs' \subseteq Ops
    BY <1>0 DEF WriteManifest, SafeButTree
  <1>2. request[o] \in Requests /\ snapshot[o] \in Manifests /\ AtMostOneActive(snapshot[o])
    BY <1>0, <1>1 DEF SafeButTree, Requested, OneActive
  <1>3. manifest' \in Manifests /\ AtMostOneActive(manifest')
    <2>1. manifest' \in {manifest, Edited(o, snapshot[o])}  BY DEF WriteManifest
    <2> QED  BY <1>0, <1>2, <2>1, EditKeepsOne DEF SafeButTree, OneActive
  <1>4. PICK how \in Results : End(o, how)
    BY DEF WriteManifest, Results
  <1>5. SafeButTree'
    BY <1>0, <1>1, <1>3, <1>4, EndSafe
  <1> QED  BY <1>0, <1>1, <1>5 DEF Safe, SafeButTree, Trees, Typed, TypeOK

LEMMA EnvironmentSafe ==
    ASSUME Safe, NEW p \in Processes,
           Crash(p) \/ \E r \in Resources : CancelResource(p, r)
    PROVE  Safe'
  <1>1. CASE Crash(p)
    <2> DEFINE lost == {i \in Ops : ProcessOf[i] = p /\ step[i] \notin {"idle", "over"}}
    <2>0. SafeButTree /\ tree \in Trees  BY SplitSafe
    <2>1. /\ DropLocals(lost) /\ UNCHANGED <<manifest, tree, request>>
          /\ step' = [o \in Ops |-> IF o \in lost THEN "over" ELSE step[o]]
          /\ result' = [o \in Ops |-> IF o \in lost THEN "died" ELSE result[o]]
          /\ activeJobs' = activeJobs \ lost
      BY <1>1 DEF Crash
    <2>2. /\ step' \in [Ops -> Steps] /\ result' \in [Ops -> Results]
          /\ activeJobs' \subseteq Ops
          /\ manifest' \in Manifests /\ AtMostOneActive(manifest')
      BY <2>0, <2>1 DEF SafeButTree, OneActive, Steps, Results
    <2>3. /\ lost \in SUBSET Ops
          /\ \A o \in lost : step[o] # "idle" /\ step'[o] = "over"
          /\ \A o \in Ops \ lost : step'[o] = step[o]
      BY <2>1
    <2> HIDE DEF lost
    <2>4. SafeButTree'
      BY <2>0, <2>1, <2>2, <2>3, DropSafe
    <2> QED  BY <2>0, <2>1, <2>4 DEF Safe, SafeButTree, Trees, Typed, TypeOK
  <1>2. CASE \E r \in Resources : CancelResource(p, r)
    <2>1. /\ UNCHANGED <<manifest, tree, request, step, snapshot, archive, activeJobs, result>>
          /\ aborted' \subseteq aborted \cup activeJobs
      BY <1>2 DEF CancelResource
    <2> QED
      BY <2>1 DEF Safe, Typed, TypeOK, Requested, StatsEntry, OneActive, Target
  <1> QED  BY <1>1, <1>2

LEMMA NextSafe == Safe /\ [Next]_vars => Safe'
  <1> SUFFICES ASSUME Safe, [Next]_vars PROVE Safe'
    OBVIOUS
  <1>1. CASE UNCHANGED vars
    BY <1>1 DEF vars, Safe, Typed, TypeOK, Requested, StatsEntry, OneActive, Target
  <1>2. CASE \E o \in Ops : Request(o) \/ OpStep(o)
    BY <1>2, RequestSafe, InstallSafe, ReadSafe, RemoveTreeSafe, StatSafe, WriteSafe DEF OpStep
  <1>3. CASE \/ \E p \in Processes, r \in Resources : CancelResource(p, r)
             \/ \E p \in Processes : Crash(p)
    BY <1>3, EnvironmentSafe
  <1> QED  BY <1>1, <1>2, <1>3 DEF Next

(***************************************************************************)
(* Theorems.                                                               *)
(***************************************************************************)

\* Every variable keeps its type.
THEOREM TypeCorrect == Spec => []TypeOK
  <1>1. Init => Safe  BY InitSafe DEF Safe
  <1>2. Safe => TypeOK  BY DEF Safe, Typed
  <1> QED  BY <1>1, <1>2, NextSafe, PTL DEF Spec

\* At most one PDK is active in manifest.json and in every manifest that an
\* operation is about to write, for any number of processes and operations.
THEOREM OnePdkStaysActive == Spec => []OneActivePdk
  <1>1. Init => Safe  BY InitSafe DEF Safe
  <1>2. Safe => OneActivePdk
    <2> SUFFICES ASSUME Safe PROVE OneActivePdk
      OBVIOUS
    <2>1. ASSUME NEW o \in Ops, step[o] = "write"
          PROVE  AtMostOneActive(Edited(o, snapshot[o]))
      <3>1. /\ request[o] \in Requests
            /\ snapshot[o] \in Manifests /\ AtMostOneActive(snapshot[o])
        BY <2>1 DEF Safe, Typed, TypeOK, Requested, OneActive
      <3> QED  BY <3>1, EditKeepsOne
    <2> QED  BY <2>1 DEF Safe, OneActive, OneActivePdk
  <1> QED  BY <1>1, <1>2, NextSafe, PTL DEF Spec

(***************************************************************************)
(* Jobs and archives.  With the map of jobs goes what kinds of operation   *)
(* reach a step, and with the trees that only a good archive gets past the *)
(* verification where there is a checksum.                                 *)
(***************************************************************************)
OnTheWay == {"download", "verify", "extract", "removeOld", "place", "post"}
Unpacking == {"extract", "removeOld", "place"}
Running(o) == step[o] \notin {"idle", "over"}

KindsAtSteps ==
    \A o \in Ops : /\ step[o] \in OnTheWay \cup {"scan"} => Kind(o) = "install"
                   /\ step[o] = "removeTree" => Kind(o) = "uninstall"
                   /\ step[o] = "stat" => Kind(o) = "validate"
GoodUnpacked ==
    \A o \in Ops : step[o] \in Unpacking /\ Place(o) \in Checksummed => archive[o] = "good"
NoResultYet == \A o \in Ops : step[o] # "over" => result[o] = "none"

Orderly ==
    /\ JobsMatchInstalls /\ KindsAtSteps
    /\ GoodUnpacked /\ NothingCorruptPlaced /\ NoResultYet

\* An operation moves on; the others, and what it was asked, stay.
LEMMA MoveOnOrderly ==
    ASSUME Safe, Orderly, NEW o \in Ops, NEW s \in Steps \ {"idle", "over"}, Running(o),
           Goto(o, s), UNCHANGED <<request, activeJobs>>,
           \A i \in Ops \ {o} : archive'[i] = archive[i],
           s \in OnTheWay \cup {"scan"} => Kind(o) = "install",
           s = "removeTree" => Kind(o) = "uninstall",
           s = "stat" => Kind(o) = "validate",
           s \in Unpacking /\ Place(o) \in Checksummed => archive'[o] = "good",
           \A d \in Vouched : tree'[d] \in {tree[d], "none", "raw", "ready"}
    PROVE  Orderly'
  <1>1. /\ step'[o] = s /\ \A i \in Ops \ {o} : step'[i] = step[i]
        /\ result' = result
    BY DEF Goto, Safe, Typed, TypeOK
  <1>2. \A i \in Ops : Kind(i)' = Kind(i) /\ Target(i)' = Target(i) /\ Place(i)' = Place(i)
    BY DEF Kind, Target, Place, Version
  <1>3. activeJobs \subseteq Ops  BY DEF Safe, Typed, TypeOK
  <1>4. JobsMatchInstalls'
    BY <1>1, <1>2, <1>3 DEF Orderly, JobsMatchInstalls, Running
  <1>5. KindsAtSteps' /\ GoodUnpacked' /\ NoResultYet'
    BY <1>1, <1>2 DEF Orderly, KindsAtSteps, GoodUnpacked, NoResultYet, Running
  <1>6. NothingCorruptPlaced'
    BY DEF Orderly, NothingCorruptPlaced
  <1> QED  BY <1>4, <1>5, <1>6 DEF Orderly

\* Operations end; those that are installs leave the map of jobs.
LEMMA LeaveOrderly ==
    ASSUME Safe, Orderly, NEW O \in SUBSET Ops, UNCHANGED request,
           \A o \in O : step'[o] = "over",
           \A o \in Ops \ O : /\ step'[o] = step[o] /\ archive'[o] = archive[o]
                              /\ result'[o] = result[o],
           activeJobs' = activeJobs \ O,
           \A d \in Vouched : tree'[d] \in {tree[d], "none", "raw", "ready"}
    PROVE  Orderly'
  <1>1. \A i \in Ops : Kind(i)' = Kind(i) /\ Target(i)' = Target(i) /\ Place(i)' = Place(i)
    BY DEF Kind, Target, Place, Version
  <1>2. activeJobs \subseteq Ops  BY DEF Safe, Typed, TypeOK
  <1>3. JobsMatchInstalls'
    BY <1>1, <1>2 DEF Orderly, JobsMatchInstalls
  <1>4. KindsAtSteps' /\ GoodUnpacked' /\ NoResultYet'
    BY <1>1 DEF Orderly, KindsAtSteps, GoodUnpacked, NoResultYet, Unpacking, OnTheWay
  <1>5. NothingCorruptPlaced'
    BY DEF Orderly, NothingCorruptPlaced
  <1> QED  BY <1>3, <1>4, <1>5 DEF Orderly

LEMMA EndAndDrop ==
    ASSUME Safe, NEW o \in Ops, NEW how, End(o, how), DropLocals({o})
    PROVE  /\ step'[o] = "over"
           /\ \A i \in Ops \ {o} : /\ step'[i] = step[i] /\ archive'[i] = archive[i]
                                   /\ result'[i] = result[i]
  BY DEF End, DropLocals, Safe, Typed, TypeOK

LEMMA GiveUpOrderly ==
    ASSUME Safe, Orderly, NEW o \in Ops, GiveUp(o),
           \A d \in Vouched : tree'[d] \in {tree[d], "none", "raw", "ready"}
    PROVE  Orderly'
  <1>1. PICK how : End(o, how)  BY DEF GiveUp
  <1>2. DropLocals({o}) /\ activeJobs' = activeJobs \ {o} /\ UNCHANGED request
    BY DEF GiveUp
  <1> QED  BY <1>1, <1>2, EndAndDrop, LeaveOrderly

LEMMA RequestOrderly == ASSUME Safe, Orderly, NEW o \in Ops, Request(o) PROVE Orderly'
  <1>1. PICK q \in Requests :
          /\ request' = [request EXCEPT ![o] = q]
          /\ \/ /\ q.kind = "install" /\ ~JobActive(ProcessOf[o], q.resource)
                /\ activeJobs' = activeJobs \cup {o} /\ Goto(o, "download")
             \/ End(o, "refused") /\ UNCHANGED activeJobs
             \/ q.kind # "install" /\ Goto(o, "read") /\ UNCHANGED activeJobs
    BY DEF Request
  <1>2. /\ step[o] = "idle"
        /\ UNCHANGED <<manifest, tree, snapshot, archive, aborted>>
    BY DEF Request
  <1>3. /\ request'[o] = q /\ \A i \in Ops \ {o} : request'[i] = request[i]
        /\ activeJobs \subseteq Ops
    BY <1>1 DEF Safe, Typed, TypeOK
  <1>4. PICK s \in {"download", "read", "over"} :
           /\ step'[o] = s /\ \A i \in Ops \ {o} : step'[i] = step[i]
           /\ s = "download" => q.kind = "install"
    BY <1>1 DEF Goto, End, Safe, Typed, TypeOK
  <1>5. /\ \A i \in Ops \ {o} : result'[i] = result[i]
        /\ s # "over" => result' = result
    BY <1>1, <1>4 DEF Goto, End, Safe, Typed, TypeOK
  <1>6. KindsAtSteps' /\ GoodUnpacked' /\ NothingCorruptPlaced' /\ NoResultYet'
    BY <1>2, <1>3, <1>4, <1>5
       DEF Orderly, KindsAtSteps, GoodUnpacked, NothingCorruptPlaced, NoResultYet, Kind, Unpacking,
           OnTheWay, Place, Target, Version
  <1>7. JobsMatchInstalls'
    <2>1. /\ \A i \in Ops \ {o} : Kind(i)' = Kind(i) /\ Target(i)' = Target(i)
          /\ Kind(o)' = q.kind /\ Target(o)' = q.resource
      BY <1>3 DEF Kind, Target
    <2>2. o \notin activeJobs
      BY <1>2 DEF Orderly, JobsMatchInstalls
    <2>3. CASE /\ q.kind = "install" /\ ~JobActive(ProcessOf[o], q.resource)
               /\ activeJobs' = activeJobs \cup {o} /\ Goto(o, "download")
      <3>1. step'[o] = "download"
        BY <2>3 DEF Goto, Safe, Typed, TypeOK
      <3>2. \A i \in activeJobs : ~(ProcessOf[i] = ProcessOf[o] /\ Target(i)' = Target(o)')
        BY <1>3, <2>1, <2>2, <2>3 DEF JobActive
      <3> QED  BY <1>3, <1>4, <2>1, <2>2, <2>3, <3>1, <3>2 DEF Orderly, JobsMatchInstalls
    <2>4. CASE End(o, "refused") /\ UNCHANGED activeJobs
      <3>1. step'[o] = "over"
        BY <2>4 DEF End, Safe, Typed, TypeOK
      <3> QED  BY <1>3, <1>4, <2>1, <2>2, <2>4, <3>1 DEF Orderly, JobsMatchInstalls
    <2>5. CASE q.kind # "install" /\ Goto(o, "read") /\ UNCHANGED activeJobs
      BY <1>3, <1>4, <2>1, <2>2, <2>5 DEF Orderly, JobsMatchInstalls
    <2> QED  BY <1>1, <2>3, <2>4, <2>5
  <1> QED  BY <1>6, <1>7 DEF Orderly

\* Where the checksum vouches for it all, nothing but what passed the verification is
\* put in place.
LEMMA InstallOrderly == ASSUME Safe, Orderly, NEW o \in Ops, Install(o) PROVE Orderly'
  <1>0. Running(o)
    BY DEF Install, Download, Verify, Extract, RemoveOld, PutInPlace, PostInstall, Scan, Running
  <1>1. tree \in Trees  BY DEF Safe, Typed, TypeOK, Trees
  <1>2. \A d \in Vouched : tree'[d] \in {tree[d], "none", "raw", "ready"}
    <2> SUFFICES ASSUME NEW d \in Vouched PROVE tree'[d] \in {tree[d], "none", "raw", "ready"}
      OBVIOUS
    <2>1. d \in Resources \X Versions /\ d \in Checksummed /\ d \notin WithAssets
      BY ResourceAssumption DEF Vouched
    <2>2. CASE PutInPlace(o)
      <3>1. step[o] = "place"  BY <2>2 DEF PutInPlace
      <3>2. d = Place(o) => archive[o] = "good"
        BY <2>1, <3>1 DEF Orderly, GoodUnpacked, Unpacking
      <3>3. CASE UNCHANGED tree
        BY <3>3
      <3>4. CASE tree' # tree
        <4>1. PICK c : /\ tree' = [tree EXCEPT ![Place(o)] = c]
                       /\ archive[o] = "good" => c \in {"raw", "ready"}
          BY <2>2, <3>4 DEF PutInPlace
        <4> QED  BY <1>1, <2>1, <3>2, <4>1 DEF Trees
      <3> QED  BY <3>3, <3>4
    <2>3. CASE PostInstall(o)
      <3>1. tree[d] # "corrupt"  BY DEF Orderly, NothingCorruptPlaced
      <3>2. d = Place(o) => Finished(o) \subseteq {tree[d], "ready"}
        BY <2>1 DEF Finished
      <3>3. UNCHANGED tree \/ \E c \in Finished(o) : tree' = [tree EXCEPT ![Place(o)] = c]
        BY <2>3 DEF PostInstall
      <3> QED  BY <1>1, <2>1, <3>2, <3>3 DEF Trees
    <2>4. CASE Download(o) \/ Verify(o) \/ Extract(o) \/ RemoveOld(o) \/ Scan(o)
      <3>1. UNCHANGED tree \/ tree' = [tree EXCEPT ![Place(o)] = "none"]
        BY <2>4 DEF Download, Verify, Extract, RemoveOld, Scan
      <3> QED  BY <1>1, <2>1, <3>1 DEF Trees
    <2> QED  BY <2>2, <2>3, <2>4 DEF Install
  <1>3. CASE GiveUp(o)
    BY <1>2, <1>3, GiveUpOrderly
  <1>4. CASE ~GiveUp(o)
    <2>1. PICK s \in {"verify", "extract", "removeOld", "place", "post", "scan", "read"} :
            /\ Goto(o, s) /\ UNCHANGED <<request, activeJobs>>
            /\ \A i \in Ops \ {o} : archive'[i] = archive[i]
            /\ s \in Unpacking /\ Place(o) \in Checksummed => archive'[o] = "good"
      <3>1. CASE Download(o)
        BY <1>4, <3>1 DEF Download, Unpacking, Safe, Typed, TypeOK
      <3>2. CASE Verify(o)
        BY <1>4, <3>2 DEF Verify, jobState
      <3>3. CASE Extract(o) \/ RemoveOld(o)
        BY <1>4, <3>3 DEF Extract, RemoveOld, Orderly, GoodUnpacked, Unpacking, jobState
      <3>4. CASE PutInPlace(o) \/ PostInstall(o) \/ Scan(o)
        BY <1>4, <3>4 DEF PutInPlace, PostInstall, Scan, Unpacking, jobState
      <3> QED  BY <3>1, <3>2, <3>3, <3>4 DEF Install
    <2>2. /\ s \in Steps \ {"idle", "over"} /\ s # "removeTree" /\ s # "stat"
          /\ Kind(o) = "install" \/ s = "read"
      BY DEF Steps, Install, Download, Verify, Extract, RemoveOld, PutInPlace, PostInstall, Scan,
             OnTheWay, Orderly, KindsAtSteps
    <2>3. s \in OnTheWay \cup {"scan"} => Kind(o) = "install"
      BY <2>2 DEF OnTheWay
    <2> QED  BY <1>0, <1>2, <2>1, <2>2, <2>3, MoveOnOrderly
  <1> QED  BY <1>3, <1>4

LEMMA ReadOrderly == ASSUME Safe, Orderly, NEW o \in Ops, ReadManifest(o) PROVE Orderly'
  <1>1. /\ step[o] = "read" /\ Running(o)
        /\ UNCHANGED <<manifest, tree, request, archive, aborted, activeJobs>>
    BY DEF ReadManifest, jobState, Running
  <1>2. CASE Refused(o, manifest)
    <2>1. End(o, "error")  BY <1>2 DEF ReadManifest
    <2>2. Kind(o) # "install"  BY <1>2 DEF Refused
    <2>3. o \notin activeJobs  BY <2>2 DEF Orderly, JobsMatchInstalls
    <2>4. activeJobs' = activeJobs \ {o}  BY <1>1, <2>3
    <2>5. /\ step'[o] = "over"
          /\ \A i \in Ops \ {o} : step'[i] = step[i] /\ result'[i] = result[i]
      BY <2>1 DEF End, Safe, Typed, TypeOK
    <2> QED  BY <1>1, <2>4, <2>5, LeaveOrderly
  <1>3. CASE ~Refused(o, manifest)
    <2>1. PICK s \in {"stat", "removeTree", "write"} :
            /\ Goto(o, s)
            /\ s = "removeTree" => Kind(o) = "uninstall"
            /\ s = "stat" => Kind(o) = "validate"
      BY <1>3 DEF ReadManifest
    <2>2. s \in Steps \ {"idle", "over"} /\ s \notin OnTheWay \cup Unpacking \cup {"scan"}
      BY DEF Steps, Unpacking, OnTheWay
    <2> QED  BY <1>1, <2>1, <2>2, MoveOnOrderly
  <1> QED  BY <1>2, <1>3

LEMMA RemoveTreeOrderly == ASSUME Safe, Orderly, NEW o \in Ops, RemoveTree(o) PROVE Orderly'
  <1>1. /\ step[o] = "removeTree" /\ Running(o)
        /\ UNCHANGED <<manifest, request, activeJobs>>
    BY DEF RemoveTree, Running
  <1>2. \A d \in Vouched : tree'[d] \in {tree[d], "none", "raw", "ready"}
    BY DEF RemoveTree, Safe, Typed, TypeOK
  <1>3. CASE Goto(o, "write") /\ UNCHANGED locals
    <2>1. "write" \in Steps \ {"idle", "over"} /\ "write" \notin OnTheWay \cup Unpacking \cup {"scan"}
      BY DEF Steps, Unpacking, OnTheWay
    <2>2. \A i \in Ops : archive'[i] = archive[i]
      BY <1>3 DEF locals
    <2> QED  BY <1>1, <1>2, <1>3, <2>1, <2>2, MoveOnOrderly
  <1>4. CASE End(o, "error") /\ DropLocals({o})
    <2>1. o \notin activeJobs
      BY <1>1 DEF Orderly, KindsAtSteps, JobsMatchInstalls
    <2>2. activeJobs' = activeJobs \ {o}  BY <1>1, <2>1
    <2> QED  BY <1>1, <1>2, <1>4, <2>2, EndAndDrop, LeaveOrderly
  <1> QED  BY <1>3, <1>4 DEF RemoveTree

LEMMA StatOrderly == ASSUME Safe, Orderly, NEW o \in Ops, StatTree(o) PROVE Orderly'
  <1>1. /\ Running(o) /\ Goto(o, "write")
        /\ UNCHANGED <<tree, request, archive, activeJobs>>
    BY DEF StatTree, Running, jobState
  <1>2. "write" \in Steps \ {"idle", "over"} /\ "write" \notin OnTheWay \cup Unpacking \cup {"scan"}
    BY DEF Steps, Unpacking, OnTheWay
  <1> QED  BY <1>1, <1>2, MoveOnOrderly

LEMMA WriteOrderly == ASSUME Safe, Orderly, NEW o \in Ops, WriteManifest(o) PROVE Orderly'
  <1>1. /\ DropLocals({o}) /\ UNCHANGED <<tree, request>>
        /\ activeJobs' = activeJobs \ {o}
    BY DEF WriteManifest
  <1>2. PICK how : End(o, how)  BY DEF WriteManifest
  <1> QED  BY <1>1, <1>2, EndAndDrop, LeaveOrderly

LEMMA CancelOrderly ==
    ASSUME Safe, Orderly, NEW p, NEW r, CancelResource(p, r) PROVE Orderly'
  <1>1. UNCHANGED <<manifest, tree, request, step, snapshot, archive, activeJobs, result>>
    BY DEF CancelResource
  <1> QED
    BY <1>1 DEF Orderly, JobsMatchInstalls, KindsAtSteps, GoodUnpacked, NothingCorruptPlaced,
                NoResultYet, Kind, Target, Place, Version

LEMMA CrashOrderly == ASSUME Safe, Orderly, NEW p, Crash(p) PROVE Orderly'
  <1> DEFINE lost == {i \in Ops : ProcessOf[i] = p /\ step[i] \notin {"idle", "over"}}
  <1>1. /\ DropLocals(lost) /\ UNCHANGED <<manifest, tree, request>>
        /\ step' = [o \in Ops |-> IF o \in lost THEN "over" ELSE step[o]]
        /\ result' = [o \in Ops |-> IF o \in lost THEN "died" ELSE result[o]]
        /\ activeJobs' = activeJobs \ lost
    BY DEF Crash
  <1>2. lost \in SUBSET Ops  OBVIOUS
  <1> HIDE DEF lost
  <1>3. /\ \A o \in lost : step'[o] = "over"
        /\ \A o \in Ops \ lost : /\ step'[o] = step[o] /\ archive'[o] = archive[o]
                                 /\ result'[o] = result[o]
    BY <1>1, <1>2 DEF DropLocals
  <1> QED  BY <1>1, <1>2, <1>3, LeaveOrderly

LEMMA InitOrderly == Init => Orderly
  <1> SUFFICES ASSUME Init PROVE Orderly
    OBVIOUS
  <1>1. NothingCorruptPlaced
    <2> SUFFICES ASSUME NEW d \in Vouched PROVE tree[d] # "corrupt"
      BY DEF NothingCorruptPlaced
    <2>1. d \in Resources \X Versions
      BY ResourceAssumption DEF Vouched
    <2> QED  BY <2>1 DEF Init
  <1> QED
    BY <1>1 DEF Init, Orderly, JobsMatchInstalls, KindsAtSteps, GoodUnpacked, OnTheWay,
                Unpacking, NoResultYet

LEMMA NextOrderly == Safe /\ Orderly /\ [Next]_vars => Orderly'
  <1> SUFFICES ASSUME Safe, Orderly, [Next]_vars PROVE Orderly'
    OBVIOUS
  <1>1. CASE UNCHANGED vars
    BY <1>1 DEF vars, Orderly, JobsMatchInstalls, KindsAtSteps, GoodUnpacked,
                NothingCorruptPlaced, NoResultYet, Kind, Target, Place, Version
  <1>2. CASE \E o \in Ops : Request(o) \/ OpStep(o)
    BY <1>2, RequestOrderly, InstallOrderly, ReadOrderly, RemoveTreeOrderly, StatOrderly,
       WriteOrderly DEF OpStep
  <1>3. CASE \/ \E p \in Processes, r \in Resources : CancelResource(p, r)
             \/ \E p \in Processes : Crash(p)
    BY <1>3, CancelOrderly, CrashOrderly
  <1> QED  BY <1>1, <1>2, <1>3 DEF Next

\* The map of active jobs of every process holds exactly the installs under
\* way, at most one per resource, for any number of operations and processes
\* and however installs fail, are cancelled or die.
THEOREM JobsAlwaysMatch == Spec => []JobsMatchInstalls
  <1>1. Init => Safe /\ Orderly  BY InitSafe, InitOrderly DEF Safe
  <1>2. Orderly => JobsMatchInstalls  BY DEF Orderly
  <1> QED  BY <1>1, <1>2, NextSafe, NextOrderly, PTL DEF Spec

\* Where the checksum vouches for all of a tool or PDK, nothing that fails the
\* verification is ever put in its directory.
THEOREM NeverCorrupt == Spec => []NothingCorruptPlaced
  <1>1. Init => Safe /\ Orderly  BY InitSafe, InitOrderly DEF Safe
  <1>2. Orderly => NothingCorruptPlaced  BY DEF Orderly
  <1> QED  BY <1>1, <1>2, NextSafe, NextOrderly, PTL DEF Spec

(***************************************************************************)
(* The history variables of MCResourceManager only watch.                  *)
(***************************************************************************)
LEMMA HistoryWatches == MCSpec => Spec
  <1>1. MCInit => Init  BY DEF MCInit
  <1>2. [MCNext]_mcvars => [Next]_vars  BY DEF MCNext, mcvars
  <1> QED  BY <1>1, <1>2, PTL DEF MCSpec, Spec

\* What a step of one operation leaves of another.
LEMMA OthersStay ==
    ASSUME Safe, NEW i \in Ops, Request(i) \/ OpStep(i), NEW o \in Ops \ {i}
    PROVE  /\ step'[o] = step[o] /\ result'[o] = result[o]
           /\ request'[o] = request[o] /\ snapshot'[o] = snapshot[o]
           /\ o \in aborted' <=> o \in aborted
           /\ o \in activeJobs' <=> o \in activeJobs
  <1>1. CASE Request(i)
    <2>1. /\ \E q \in Requests : request' = [request EXCEPT ![i] = q]
          /\ activeJobs' \in {activeJobs, activeJobs \cup {i}}
          /\ \/ Goto(i, "download") \/ Goto(i, "read") \/ End(i, "refused")
          /\ UNCHANGED <<snapshot, aborted>>
      BY <1>1 DEF Request
    <2> QED  BY <2>1 DEF Goto, End, Safe, Typed, TypeOK
  <1>2. ASSUME NEW how, End(i, how), DropLocals({i}), UNCHANGED request,
               activeJobs' \in {activeJobs, activeJobs \ {i}}
        PROVE  /\ step'[o] = step[o] /\ result'[o] = result[o]
               /\ request'[o] = request[o] /\ snapshot'[o] = snapshot[o]
               /\ o \in aborted' <=> o \in aborted
               /\ o \in activeJobs' <=> o \in activeJobs
    BY <1>2 DEF End, DropLocals, Safe, Typed, TypeOK
  <1>3. ASSUME NEW s, Goto(i, s), UNCHANGED <<request, snapshot, aborted, activeJobs>>
        PROVE  /\ step'[o] = step[o] /\ result'[o] = result[o]
               /\ request'[o] = request[o] /\ snapshot'[o] = snapshot[o]
               /\ o \in aborted' <=> o \in aborted
               /\ o \in activeJobs' <=> o \in activeJobs
    BY <1>3 DEF Goto, Safe, Typed, TypeOK
  <1>4. CASE Install(i)
    <2>1. \/ GiveUp(i)
          \/ \E s : Goto(i, s) /\ UNCHANGED <<request, snapshot, aborted, activeJobs>>
      BY <1>4 DEF Install, Download, Verify, Extract, RemoveOld, PutInPlace, PostInstall, Scan,
                  jobState
    <2>2. GiveUp(i) => /\ \E how : End(i, how)
                       /\ DropLocals({i}) /\ UNCHANGED request
                       /\ activeJobs' \in {activeJobs, activeJobs \ {i}}
      BY DEF GiveUp
    <2> QED  BY <1>2, <1>3, <2>1, <2>2
  <1>5. CASE ReadManifest(i)
    <2>1. UNCHANGED <<request, archive, aborted, activeJobs>>
      BY <1>5 DEF ReadManifest, jobState
    <2>2. \/ End(i, "error") /\ UNCHANGED snapshot
          \/ snapshot' = [snapshot EXCEPT ![i] = manifest] /\ \E s : Goto(i, s)
      BY <1>5 DEF ReadManifest
    <2> QED  BY <2>1, <2>2 DEF Goto, End, Safe, Typed, TypeOK
  <1>6. CASE RemoveTree(i)
    <2>1. \/ Goto(i, "write") /\ UNCHANGED <<request, snapshot, aborted, activeJobs>>
          \/ End(i, "error") /\ DropLocals({i}) /\ UNCHANGED <<request, activeJobs>>
      BY <1>6 DEF RemoveTree, locals
    <2> QED  BY <1>2, <1>3, <2>1
  <1>7. CASE StatTree(i)
    <2>1. /\ Goto(i, "write") /\ UNCHANGED <<request, aborted, activeJobs>>
          /\ \E h \in {"ok", "missing"} :
               snapshot' = [snapshot EXCEPT ![i][Target(i)].health = h]
      BY <1>7 DEF StatTree, jobState
    <2> QED  BY <2>1 DEF Goto, Safe, Typed, TypeOK
  <1>8. CASE WriteManifest(i)
    <2>1. /\ \E how : End(i, how)
          /\ DropLocals({i}) /\ UNCHANGED request /\ activeJobs' = activeJobs \ {i}
      BY <1>8 DEF WriteManifest
    <2> QED  BY <1>2, <2>1
  <1> QED  BY <1>1, <1>4, <1>5, <1>6, <1>7, <1>8 DEF OpStep

(***************************************************************************)
(* An install cancelled in time is aborted and has its last throwIfAborted *)
(* still before it.                                                        *)
(***************************************************************************)
Stopping == \A o \in inTime : /\ o \in Ops /\ o \in aborted
                              /\ step[o] \in OnTheWay /\ result[o] = "none"

LEMMA AbortedStops ==
    ASSUME Safe, Orderly, [Next]_vars, NEW o \in Ops, o \in aborted, step[o] \in OnTheWay,
           result'[o] \in {"none", "done"}
    PROVE  o \in aborted' /\ step'[o] \in OnTheWay /\ result'[o] = "none"
  <1>0. result[o] = "none" /\ step[o] # "idle" /\ step[o] # "over"
    BY DEF Orderly, NoResultYet, OnTheWay
  <1>1. CASE UNCHANGED vars
    BY <1>0, <1>1 DEF vars
  <1>2. ASSUME NEW i \in Ops \ {o}, Request(i) \/ OpStep(i)
        PROVE  o \in aborted' /\ step'[o] \in OnTheWay /\ result'[o] = "none"
    BY <1>0, <1>2, OthersStay
  <1>3. CASE Request(o) \/ OpStep(o)
    <2>1. Install(o)
      BY <1>0, <1>3 DEF OpStep, Request, ReadManifest, RemoveTree, StatTree, WriteManifest,
                        OnTheWay
    <2>2. ~GiveUp(o)
      BY DEF GiveUp, End, Safe, Typed, TypeOK
    <2>3. /\ UNCHANGED aborted
          /\ \E s \in {"removeOld", "place", "post"} : Goto(o, s)
      BY <2>1, <2>2 DEF Install, Download, Verify, Extract, RemoveOld, PutInPlace, PostInstall, Scan,
                        OnTheWay, jobState
    <2> QED  BY <1>0, <2>3 DEF Goto, OnTheWay, Safe, Typed, TypeOK
  <1>4. CASE \E p \in Processes, r \in Resources : CancelResource(p, r)
    BY <1>0, <1>4 DEF CancelResource
  <1>5. CASE \E p \in Processes : Crash(p)
    <2>1. PICK p \in Processes : Crash(p)  BY <1>5
    <2>2. ProcessOf[o] # p
      BY <1>0, <2>1 DEF Crash
    <2> QED  BY <1>0, <2>1, <2>2 DEF Crash, DropLocals
  <1> QED  BY <1>1, <1>2, <1>3, <1>4, <1>5 DEF Next

LEMMA NewlyAborted ==
    ASSUME Safe, Orderly, [Next]_vars, NEW o \in aborted' \ aborted, ~Windowed(o)
    PROVE  o \in Ops /\ step'[o] \in OnTheWay /\ result'[o] = "none"
  <1>1. PICK p \in Processes, r \in Resources : CancelResource(p, r)
    <2>1. ASSUME NEW i \in Ops, Request(i) \/ OpStep(i)  PROVE aborted' \subseteq aborted
      BY <2>1 DEF Request, OpStep, Install, Download, Verify, Extract, RemoveOld, PutInPlace,
                  PostInstall, Scan, GiveUp, ReadManifest, RemoveTree, StatTree, WriteManifest,
                  jobState, locals, DropLocals
    <2>2. ASSUME NEW q \in Processes, Crash(q)  PROVE aborted' \subseteq aborted
      BY <2>2 DEF Crash, DropLocals
    <2>3. UNCHANGED vars => aborted' \subseteq aborted  BY DEF vars
    <2> QED  BY <2>1, <2>2, <2>3 DEF Next
  <1>2. o \in activeJobs /\ UNCHANGED <<step, result>>  BY <1>1 DEF CancelResource
  <1>3. o \in Ops /\ step[o] \in Steps  BY <1>2 DEF Safe, Typed, TypeOK
  <1>4. step[o] \notin {"idle", "over"} /\ Kind(o) = "install"
    BY <1>2, <1>3 DEF Orderly, JobsMatchInstalls
  <1>5. step[o] \notin {"removeTree", "stat"}
    BY <1>3, <1>4 DEF Orderly, KindsAtSteps
  <1>6. result[o] = "none"
    BY <1>3, <1>4 DEF Orderly, NoResultYet
  <1> QED  BY <1>2, <1>3, <1>4, <1>5, <1>6 DEF Steps, OnTheWay, Windowed

LEMMA StoppingStays == Safe /\ Orderly /\ Stopping /\ [MCNext]_mcvars => Stopping'
  <1> SUFFICES ASSUME Safe, Orderly, Stopping, [MCNext]_mcvars PROVE Stopping'
    OBVIOUS
  <1>1. CASE UNCHANGED mcvars
    BY <1>1 DEF mcvars, vars, Stopping
  <1>2. CASE MCNext
    <2>1. [Next]_vars  BY <1>2 DEF MCNext
    <2> SUFFICES ASSUME NEW o \in inTime'
                 PROVE  /\ o \in Ops /\ o \in aborted'
                        /\ step'[o] \in OnTheWay /\ result'[o] = "none"
      BY DEF Stopping
    <2>2. /\ o \in inTime \cup (aborted' \ aborted)
          /\ result'[o] \in {"none", "done"}
          /\ o \in inTime \/ ~Windowed(o)
      BY <1>2 DEF MCNext
    <2>3. CASE o \in inTime
      BY <2>1, <2>2, <2>3, AbortedStops DEF Stopping
    <2>4. CASE o \notin inTime
      BY <2>1, <2>2, <2>4, NewlyAborted
    <2> QED  BY <2>3, <2>4
  <1> QED  BY <1>1, <1>2

\* An install that is cancelled up to its last throwIfAborted never reports done and
\* never gets as far as the manifest, at whichever of its steps it is.
THEOREM CancelIsHonoured == MCSpec => []CancelledInTime
  <1>1. MCInit => Safe /\ Orderly /\ Stopping
    BY InitSafe, InitOrderly DEF MCInit, Safe, Stopping
  <1>2. Safe /\ Orderly /\ Stopping /\ [MCNext]_mcvars => (Safe /\ Orderly /\ Stopping)'
    <2>1. [MCNext]_mcvars => [Next]_vars  BY DEF MCNext, mcvars
    <2> QED  BY <2>1, NextSafe, NextOrderly, StoppingStays
  <1>3. Stopping => CancelledInTime  BY DEF Stopping, CancelledInTime, OnTheWay, Windowed
  <1> QED  BY <1>1, <1>2, <1>3, PTL DEF MCSpec

(***************************************************************************)
(* Operations that keep out of each other's way.  While only one operation *)
(* at a time has the manifest in its hands, its copy differs from the file *)
(* in nothing but what validatePdk found out and which PDK is active, and  *)
(* its edit leaves the other entries alone.                                *)
(***************************************************************************)
Kept(e, f) == /\ e = Absent <=> f = Absent
              /\ e # Absent => e.version = f.version /\ e.managed = f.managed
Agrees(m, n) == \A r \in Resources : Kept(m[r], n[r])

\* What the end of an operation says of the entry of its target.
Says(o, e) ==
    CASE Kind(o) \in {"uninstall", "removeReference"} -> e = Absent
      [] Kind(o) \in {"install", "importFor", "importAny"} -> e # Absent /\ e.version = Version(o)
      [] OTHER -> e # Absent

LEMMA KeptTwice ==
    ASSUME NEW e, NEW f, NEW g, Kept(e, f), Kept(f, g) PROVE Kept(e, g)
  BY DEF Kept

LEMMA OnlyActiveKeeps ==
    ASSUME NEW m \in Manifests, NEW r, NEW q \in Resources
    PROVE  Kept(OnlyActive(m, {r})[q], m[q])
  <1>1. CASE IsPdk(m, q)
    <2>1. m[q] \in Entries  BY <1>1 DEF Manifests, IsPdk
    <2>2. OnlyActive(m, {r})[q] = [m[q] EXCEPT !.active = q \in {r}]  BY <1>1 DEF OnlyActive
    <2>3. PICK b \in BOOLEAN : b = (q \in {r})
      <3>1. CASE q = r
        <4>1. (q \in {r}) = TRUE  BY <3>1
        <4> QED  BY <4>1
      <3>2. CASE q # r
        <4>1. (q \in {r}) = FALSE  BY <3>2
        <4> QED  BY <4>1
      <3> QED  BY <3>1, <3>2
    <2>4. [m[q] EXCEPT !.active = b] \in Entries  BY <2>1, SetActive
    <2>5. /\ [m[q] EXCEPT !.active = b].version = m[q].version
          /\ [m[q] EXCEPT !.active = b].managed = m[q].managed
      BY <2>1 DEF Entries
    <2>6. OnlyActive(m, {r})[q] = [m[q] EXCEPT !.active = b]  BY <2>2, <2>3, Zenon
    <2>7. m[q] # Absent /\ [m[q] EXCEPT !.active = b] # Absent
      BY <2>1, <2>4, ResourceAssumption
    <2> QED  BY <2>5, <2>6, <2>7 DEF Kept
  <1>2. CASE ~IsPdk(m, q)
    BY <1>2 DEF OnlyActive, Kept
  <1> QED  BY <1>1, <1>2

LEMMA HealthKeeps ==
    ASSUME NEW m \in Manifests, NEW r, m[r] # Absent, NEW h \in {"ok", "missing"}
    PROVE  Agrees([m EXCEPT ![r].health = h], m)
  <1> DEFINE n == [m EXCEPT ![r].health = h]
  <1> SUFFICES ASSUME NEW q \in Resources PROVE Kept(n[q], m[q])
    BY DEF Agrees
  <1>1. CASE q = r
    <2>1. m[q] \in Entries  BY <1>1 DEF Manifests
    <2>2. n[q] = [m[q] EXCEPT !.health = h]  BY <1>1 DEF Manifests
    <2>3. /\ n[q] \in Entries
          /\ n[q].version = m[q].version /\ n[q].managed = m[q].managed
      BY <2>1, <2>2 DEF Entries
    <2> QED  BY <1>1, <2>1, <2>3, ResourceAssumption DEF Kept
  <1>2. CASE q # r
    BY <1>2 DEF Manifests, Kept
  <1> QED  BY <1>1, <1>2

\* An edit keeps the other entries and does to its target what it says.
LEMMA EditedElsewhere ==
    ASSUME NEW o, request[o] \in Requests, NEW m \in Manifests,
           NEW q \in Resources \ {Target(o)}
    PROVE  Kept(Edited(o, m)[q], m[q])
  <1> DEFINE r == Target(o)
  <1>1. r \in Resources /\ Kind(o) \in Kinds
    BY DEF Target, Kind, Requests
  <1>2. ASSUME NEW n \in Manifests, NEW e PROVE [n EXCEPT ![r] = e][q] = n[q]
    BY <1>1 DEF Manifests
  <1>3. OnlyActive(m, {r}) \in Manifests  BY OnlyActiveOne
  <1>4. ASSUME NEW v PROVE Kept(PutPdk(m, r, v)[q], m[q])
    <2> DEFINE others == ActivePdks(m) \ {r}
               on == r \in ActivePdks(m) \/ others = {}
               e == PdkEntry(v, on)
    <2>1. CASE on
      <3> DEFINE base == OnlyActive(m, {r})
      <3>1. PutPdk(m, r, v) = [base EXCEPT ![r] = e]  BY <2>1 DEF PutPdk
      <3>2. base[q] = PutPdk(m, r, v)[q]
        <4> HIDE DEF e, base
        <4> QED  BY <1>2, <1>3, <3>1
      <3>3. Kept(base[q], m[q])  BY OnlyActiveKeeps
      <3> QED  BY <3>2, <3>3
    <2>2. CASE ~on
      <3>1. PutPdk(m, r, v) = [m EXCEPT ![r] = e]  BY <2>2 DEF PutPdk
      <3> HIDE DEF e
      <3> QED  BY <1>2, <3>1 DEF Kept
    <2> QED  BY <2>1, <2>2
  <1>5. CASE Kind(o) \in {"install", "importFor"}
    <2>1. Edited(o, m) = IF r \in Tools THEN [m EXCEPT ![r] = ToolEntry(Version(o))]
                                        ELSE PutPdk(m, r, Version(o))
      BY <1>5 DEF Edited
    <2> QED  BY <1>2, <1>4, <2>1 DEF Kept
  <1>6. CASE Kind(o) = "importAny"
    BY <1>2, <1>6 DEF Edited, AddPdk, Kept
  <1>7. CASE Kind(o) = "activate"
    BY <1>7, OnlyActiveKeeps DEF Edited
  <1>8. CASE Kind(o) = "validate"
    BY <1>8 DEF Edited, Kept
  <1>9. CASE Kind(o) \in {"uninstall", "removeReference"}
    <2>1. Edited(o, m) = [m EXCEPT ![r] = Absent]  BY <1>9 DEF Edited, Delist
    <2> QED  BY <1>2, <2>1 DEF Kept
  <1> QED  BY <1>1, <1>5, <1>6, <1>7, <1>8, <1>9 DEF Kinds

LEMMA PutEntry ==
    ASSUME NEW m \in Manifests, NEW r \in Resources, NEW v \in Versions \cup {Local}
    PROVE  /\ PutPdk(m, r, v)[r] \in Entries
           /\ PutPdk(m, r, v)[r].version = v
           /\ PutPdk(m, r, v)[r].managed = (v # Local)
  <1> DEFINE others == ActivePdks(m) \ {r}
             on == r \in ActivePdks(m) \/ others = {}
             e == PdkEntry(v, on)
             base == IF on THEN OnlyActive(m, {r}) ELSE m
  <1>1. base \in Manifests  BY OnlyActiveOne
  <1>2. PutPdk(m, r, v) = [base EXCEPT ![r] = e]  BY DEF PutPdk
  <1>3. e \in Entries /\ e.version = v /\ e.managed = (v # Local)
    BY EntriesTyped DEF PdkEntry
  <1> HIDE DEF base, e
  <1>4. PutPdk(m, r, v)[r] = e  BY <1>1, <1>2 DEF Manifests
  <1> QED  BY <1>3, <1>4

LEMMA EditedHere ==
    ASSUME NEW o, request[o] \in Requests, WellFormed(request[o]), NEW m \in Manifests,
           Kind(o) \in {"activate", "validate"} => m[Target(o)] # Absent
    PROVE  Says(o, Edited(o, m)[Target(o)])
  <1> DEFINE r == Target(o)
             v == Version(o)
  <1>1. r \in Resources /\ v \in Versions \cup {Local} /\ Kind(o) \in Kinds
    BY DEF Target, Version, Kind, Requests
  <1>2. ASSUME NEW e PROVE [m EXCEPT ![r] = e][r] = e
    BY <1>1 DEF Manifests
  <1>3. CASE Kind(o) \in {"install", "importFor"}
    <2>1. Edited(o, m) = IF r \in Tools THEN [m EXCEPT ![r] = ToolEntry(v)] ELSE PutPdk(m, r, v)
      BY <1>3 DEF Edited
    <2>2. ToolEntry(v) \in Entries /\ ToolEntry(v).version = v
      BY <1>1, EntriesTyped DEF ToolEntry
    <2>3. PutPdk(m, r, v)[r] \in Entries /\ PutPdk(m, r, v)[r].version = v
      BY <1>1, PutEntry
    <2>4. Edited(o, m)[r] \in Entries /\ Edited(o, m)[r].version = v
      BY <1>2, <2>1, <2>2, <2>3
    <2> QED  BY <1>3, <2>4, ResourceAssumption DEF Says
  <1>4. CASE Kind(o) = "importAny"
    <2> DEFINE e == PdkEntry(Local, ActivePdks(m) = {})
    <2>1. Edited(o, m) = [m EXCEPT ![r] = e]  BY <1>4 DEF Edited, AddPdk
    <2>2. e \in Entries /\ e.version = Local  BY EntriesTyped DEF PdkEntry
    <2>3. v = Local  BY <1>4 DEF WellFormed, Kind, Version
    <2> HIDE DEF e
    <2>4. Edited(o, m)[r] = e  BY <1>2, <2>1
    <2> QED  BY <1>4, <2>2, <2>3, <2>4, ResourceAssumption DEF Says
  <1>5. CASE Kind(o) = "activate"
    <2>1. Kept(Edited(o, m)[r], m[r])  BY <1>1, <1>5, OnlyActiveKeeps DEF Edited
    <2> QED  BY <1>5, <2>1 DEF Kept, Says
  <1>6. CASE Kind(o) = "validate"
    BY <1>6 DEF Edited, Says
  <1>7. CASE Kind(o) \in {"uninstall", "removeReference"}
    <2>1. Edited(o, m) = [m EXCEPT ![r] = Absent]  BY <1>7 DEF Edited, Delist
    <2> QED  BY <1>2, <1>7, <2>1 DEF Says
  <1> QED  BY <1>1, <1>3, <1>4, <1>5, <1>6, <1>7 DEF Kinds

(***************************************************************************)
(* Who writes the manifest, and whose copy is new.                         *)
(***************************************************************************)
InWindow == {"removeTree", "stat", "write"}
Writes(o) == WriteManifest(o) /\ End(o, "done") /\ manifest' = Edited(o, snapshot[o])

LEMMA WhoWrites ==
    ASSUME Safe, Orderly, [Next]_vars
    PROVE  \/ /\ UNCHANGED manifest
              /\ \A o \in Ops : result'[o] = "done" => result[o] = "done"
           \/ \E o \in Ops : Writes(o)
  <1>1. ASSUME NEW i \in Ops, Request(i) \/ Install(i) \/ ReadManifest(i) \/ RemoveTree(i)
                                \/ StatTree(i)
        PROVE  UNCHANGED manifest /\ result'[i] # "done"
    <2>1. UNCHANGED manifest
      BY <1>1 DEF Request, Install, Download, Verify, Extract, RemoveOld, PutInPlace,
                  PostInstall, Scan, GiveUp, ReadManifest, RemoveTree, StatTree
    <2>2. \/ UNCHANGED result
          \/ \E how \in {"error", "cancelled", "refused"} : End(i, how)
      BY <1>1 DEF Request, Install, Download, Verify, Extract, RemoveOld, PutInPlace,
                  PostInstall, Scan, GiveUp, ReadManifest, RemoveTree, StatTree, Goto
    <2>3. result[i] = "none"
      BY <1>1 DEF Request, Install, Download, Verify, Extract, RemoveOld, PutInPlace,
                  PostInstall, Scan, ReadManifest, RemoveTree, StatTree, Orderly, NoResultYet
    <2> QED  BY <2>1, <2>2, <2>3 DEF End, Safe, Typed, TypeOK
  <1>2. ASSUME NEW i \in Ops, WriteManifest(i), ~Writes(i)
        PROVE  UNCHANGED manifest /\ result'[i] # "done"
    <2>1. UNCHANGED manifest /\ \E how \in {"error", "cancelled"} : End(i, how)
      BY <1>2 DEF WriteManifest, Writes
    <2> QED  BY <2>1 DEF End, Safe, Typed, TypeOK
  <1>3. ASSUME NEW i \in Ops, Request(i) \/ OpStep(i), ~Writes(i)
        PROVE  UNCHANGED manifest /\ \A o \in Ops : result'[o] = "done" => result[o] = "done"
    <2>1. UNCHANGED manifest /\ result'[i] # "done"
      BY <1>1, <1>2, <1>3 DEF OpStep
    <2> QED  BY <1>3, <2>1, OthersStay
  <1>4. CASE UNCHANGED vars
    BY <1>4 DEF vars
  <1>5. CASE \/ \E p \in Processes, r \in Resources : CancelResource(p, r)
             \/ \E p \in Processes : Crash(p)
    BY <1>5 DEF CancelResource, Crash
  <1> QED  BY <1>3, <1>4, <1>5 DEF Next

LEMMA WindowStep ==
    ASSUME Safe, [Next]_vars, NEW o \in Ops, step'[o] \in InWindow
    PROVE  /\ request'[o] = request[o] /\ Running(o)
           /\ \/ step[o] \in InWindow /\ snapshot'[o] = snapshot[o]
              \/ /\ step[o] = "stat" /\ snapshot[o][Target(o)] # Absent
                 /\ \E h \in {"ok", "missing"} :
                      snapshot'[o] = [snapshot[o] EXCEPT ![Target(o)].health = h]
              \/ step[o] = "read" /\ snapshot'[o] = manifest /\ ~Refused(o, manifest)
  <1>1. CASE UNCHANGED vars
    BY <1>1 DEF vars, Running, InWindow
  <1>2. ASSUME NEW i \in Ops \ {o}, Request(i) \/ OpStep(i)
        PROVE  step'[o] = step[o] /\ request'[o] = request[o] /\ snapshot'[o] = snapshot[o]
    BY <1>2, OthersStay
  <1>3. CASE Request(o) \/ Install(o) \/ WriteManifest(o)
    <2>1. \/ \E s : Goto(o, s) /\ s \notin InWindow
          \/ \E how : End(o, how)
      BY <1>3 DEF Request, Install, Download, Verify, Extract, RemoveOld, PutInPlace,
                  PostInstall, Scan, GiveUp, WriteManifest, InWindow
    <2> QED  BY <2>1 DEF Goto, End, InWindow, Safe, Typed, TypeOK
  <1>4. CASE ReadManifest(o)
    <2>1. ~Refused(o, manifest)
      BY <1>4 DEF ReadManifest, End, InWindow, Safe, Typed, TypeOK
    <2> QED  BY <1>4, <2>1 DEF ReadManifest, Running, jobState, Safe, Typed, TypeOK
  <1>5. CASE RemoveTree(o)
    <2>1. Goto(o, "write") /\ UNCHANGED <<request, snapshot>>
      BY <1>5 DEF RemoveTree, End, locals, InWindow, Safe, Typed, TypeOK
    <2> QED  BY <1>5, <2>1 DEF RemoveTree, Running, InWindow
  <1>6. CASE StatTree(o)
    <2>1. /\ step[o] = "stat" /\ UNCHANGED request
          /\ \E h \in {"ok", "missing"} :
               snapshot' = [snapshot EXCEPT ![o] = [snapshot[o] EXCEPT ![Target(o)].health = h]]
      BY <1>6 DEF StatTree, jobState, Safe, Typed, TypeOK
    <2>2. snapshot[o][Target(o)] # Absent
      BY <2>1 DEF Safe, Typed, StatsEntry
    <2> QED  BY <2>1, <2>2 DEF Running, Safe, Typed, TypeOK
  <1>7. CASE \E p \in Processes, r \in Resources : CancelResource(p, r)
    BY <1>7 DEF CancelResource, Running, InWindow
  <1>8. CASE \E p \in Processes : Crash(p)
    BY <1>8 DEF Crash, DropLocals, Running, InWindow
  <1> QED  BY <1>1, <1>2, <1>3, <1>4, <1>5, <1>6, <1>7, <1>8 DEF Next, OpStep, Running, InWindow

\* While the run is clean: one operation at a time between its read and its
\* write, and its copy is what the file says.
Serial ==
    clean => /\ \A o, i \in Ops : step[o] \in InWindow /\ step[i] \in InWindow => o = i
             /\ \A o \in Ops : step[o] \in InWindow => Agrees(snapshot[o], manifest)

WellAsked == \A o \in Ops : step[o] # "idle" => WellFormed(request[o])
ActsOnListed ==
    \A o \in Ops : step[o] \in InWindow /\ Kind(o) \in {"activate", "validate"} =>
                     snapshot[o][Target(o)] # Absent
LastStands ==
    \A r \in Resources : last[r] # NoRequest =>
        /\ last[r] \in Ops /\ step[last[r]] = "over"
        /\ clean => Says(last[r], manifest[r])

Consistent == Serial /\ WellAsked /\ ActsOnListed /\ LastStands

LEMMA KeptSays ==
    ASSUME NEW o, NEW e, NEW f, Says(o, f), Kept(e, f) PROVE Says(o, e)
  BY DEF Says, Kept

LEMMA OverStays ==
    ASSUME Safe, [Next]_vars, NEW o \in Ops, step[o] = "over"
    PROVE  step'[o] = "over" /\ request'[o] = request[o] /\ result'[o] = result[o]
  <1>1. CASE UNCHANGED vars
    BY <1>1 DEF vars
  <1>2. ASSUME NEW i \in Ops, Request(i) \/ OpStep(i)
        PROVE  step'[o] = "over" /\ request'[o] = request[o] /\ result'[o] = result[o]
    <2>1. i # o
      BY <1>2 DEF Request, OpStep, Install, Download, Verify, Extract, RemoveOld, PutInPlace,
                  PostInstall, Scan, ReadManifest, RemoveTree, StatTree, WriteManifest
    <2> QED  BY <1>2, <2>1, OthersStay
  <1>3. CASE \E p \in Processes, r \in Resources : CancelResource(p, r)
    BY <1>3 DEF CancelResource
  <1>4. CASE \E p \in Processes : Crash(p)
    BY <1>4 DEF Crash
  <1> QED  BY <1>1, <1>2, <1>3, <1>4 DEF Next

LEMMA AskedStays == Safe /\ WellAsked /\ [Next]_vars => WellAsked'
  <1> SUFFICES ASSUME Safe, WellAsked, [Next]_vars, NEW o \in Ops, step'[o] # "idle"
               PROVE  WellFormed(request'[o])
    BY DEF WellAsked, WellFormed
  <1>1. CASE UNCHANGED vars
    BY <1>1 DEF vars, WellAsked
  <1>2. ASSUME NEW i \in Ops, Request(i) \/ OpStep(i) PROVE WellFormed(request'[o])
    <2>1. CASE i # o
      BY <1>2, <2>1, OthersStay DEF WellAsked
    <2>2. CASE i = o /\ Request(o)
      BY <2>2 DEF Request, Safe, Typed, TypeOK
    <2>3. CASE i = o /\ OpStep(o)
      BY <2>3 DEF WellAsked, OpStep, Install, Download, Verify, Extract, RemoveOld, PutInPlace,
                  PostInstall, Scan, GiveUp, ReadManifest, RemoveTree, StatTree, WriteManifest, jobState
    <2> QED  BY <1>2, <2>1, <2>2, <2>3
  <1>3. CASE \E p \in Processes, r \in Resources : CancelResource(p, r)
    BY <1>3 DEF CancelResource, WellAsked
  <1>4. CASE \E p \in Processes : Crash(p)
    BY <1>4 DEF Crash, WellAsked
  <1> QED  BY <1>1, <1>2, <1>3, <1>4 DEF Next

LEMMA ActsStays == Safe /\ Orderly /\ ActsOnListed /\ [Next]_vars => ActsOnListed'
  <1> SUFFICES ASSUME Safe, Orderly, ActsOnListed, [Next]_vars,
                      NEW o \in Ops, step'[o] \in InWindow, Kind(o)' \in {"activate", "validate"}
               PROVE  snapshot'[o][Target(o)'] # Absent
    BY DEF ActsOnListed
  <1>1. Kind(o)' = Kind(o) /\ Target(o)' = Target(o)
    BY WindowStep DEF Kind, Target
  <1>2. CASE step[o] \in InWindow /\ snapshot'[o] = snapshot[o]
    BY <1>1, <1>2 DEF ActsOnListed
  <1>3. CASE /\ snapshot[o][Target(o)] # Absent
             /\ \E h \in {"ok", "missing"} :
                  snapshot'[o] = [snapshot[o] EXCEPT ![Target(o)].health = h]
    <2>1. /\ snapshot[o] \in Manifests /\ Running(o)
          /\ request[o] \in Requests
      BY WindowStep DEF Safe, Typed, TypeOK, Requested, Running
    <2>2. Target(o) \in Resources  BY <2>1 DEF Target, Requests
    <2> QED  BY <1>1, <1>3, <2>1, <2>2, SetHealth
  <1>4. CASE snapshot'[o] = manifest /\ ~Refused(o, manifest)
    BY <1>1, <1>4 DEF Refused
  <1> QED  BY <1>2, <1>3, <1>4, WindowStep

LEMMA CleanStep ==
    ASSUME MCNext, clean'
    PROVE  clean /\ ~Collision' /\ ~\E o \in Ops : BreaksOff(o)
  BY DEF MCNext

LEMMA AloneInWindow ==
    ~Collision <=> /\ \A o, i \in Ops : step[o] \in InWindow /\ step[i] \in InWindow => o = i
                   /\ \A o, i \in Ops : Running(o) /\ Running(i) /\ Target(o) = Target(i) => o = i
  BY DEF Collision, Windows, InFlight, InWindow, Running

LEMMA SerialStays == Safe /\ Orderly /\ Serial /\ [MCNext]_mcvars => Serial'
  <1>1. CASE UNCHANGED mcvars
    BY <1>1 DEF mcvars, vars, Serial, Agrees
  <1>2. CASE MCNext
    <2> SUFFICES ASSUME Safe, Orderly, Serial, clean' PROVE Serial'
      BY DEF Serial
    <2>1. clean /\ [Next]_vars  BY <1>2, CleanStep DEF MCNext
    <2>2. \A o, i \in Ops : step'[o] \in InWindow /\ step'[i] \in InWindow => o = i
      <3>1. ~Collision'  BY <1>2, CleanStep
      <3> QED  BY <3>1 DEF Collision, Windows, InWindow
    <2>3. ASSUME NEW o \in Ops, step'[o] \in InWindow PROVE Agrees(snapshot'[o], manifest')
      <3>0. /\ snapshot[o] \in Manifests
            /\ step[o] \in InWindow => Agrees(snapshot[o], manifest)
        BY <2>1 DEF Safe, Typed, TypeOK, Serial
      <3>1. CASE UNCHANGED manifest
        <4>1. CASE step[o] \in InWindow /\ snapshot'[o] = snapshot[o]
          BY <3>0, <3>1, <4>1 DEF Agrees
        <4>2. CASE /\ step[o] = "stat" /\ snapshot[o][Target(o)] # Absent
                   /\ \E h \in {"ok", "missing"} :
                        snapshot'[o] = [snapshot[o] EXCEPT ![Target(o)].health = h]
          <5>1. Agrees(snapshot'[o], snapshot[o])
            <6>1. PICK h \in {"ok", "missing"} :
                    snapshot'[o] = [snapshot[o] EXCEPT ![Target(o)].health = h]
              BY <4>2
            <6>2. Agrees([snapshot[o] EXCEPT ![Target(o)].health = h], snapshot[o])
              BY <3>0, <4>2, HealthKeeps
            <6> QED  BY <6>1, <6>2
          <5>2. Agrees(snapshot[o], manifest)  BY <3>0, <4>2 DEF InWindow
          <5> QED  BY <3>1, <5>1, <5>2, KeptTwice DEF Agrees
        <4>3. CASE snapshot'[o] = manifest
          BY <3>1, <4>3 DEF Agrees, Kept
        <4> QED  BY <2>1, <2>3, <4>1, <4>2, <4>3, WindowStep
      <3>2. CASE \E w \in Ops : Writes(w)
        <4>1. PICK w \in Ops : Writes(w)  BY <3>2
        <4>2. step[w] \in InWindow /\ step'[w] = "over"
          BY <4>1 DEF Writes, WriteManifest, End, InWindow, Safe, Typed, TypeOK
        <4>3. o # w  BY <2>3, <4>2 DEF InWindow
        <4>4. step'[o] = step[o]  BY <4>1, <4>3, OthersStay DEF Writes, OpStep
        <4> QED  BY <2>1, <2>3, <4>2, <4>3, <4>4 DEF Serial
      <3> QED  BY <2>1, <3>1, <3>2, WhoWrites
    <2> QED  BY <2>2, <2>3 DEF Serial
  <1> QED  BY <1>1, <1>2

LEMMA WriteKeeps ==
    ASSUME Safe, Serial, clean, NEW w \in Ops, Writes(w), NEW q \in Resources \ {Target(w)}
    PROVE  Kept(manifest'[q], manifest[q])
  <1>1. step[w] = "write"  BY DEF Writes, WriteManifest
  <1>2. request[w] \in Requests /\ snapshot[w] \in Manifests
    BY <1>1 DEF Safe, Typed, TypeOK, Requested
  <1>3. Kept(Edited(w, snapshot[w])[q], snapshot[w][q])  BY <1>2, EditedElsewhere
  <1>4. Kept(snapshot[w][q], manifest[q])
    BY <1>1 DEF Serial, Agrees, InWindow
  <1> QED  BY <1>3, <1>4, KeptTwice DEF Writes

LEMMA WriteSays ==
    ASSUME Safe, WellAsked, ActsOnListed, NEW w \in Ops, Writes(w)
    PROVE  Says(w, manifest'[Target(w)])
  <1>1. step[w] = "write"  BY DEF Writes, WriteManifest
  <1>2. request[w] \in Requests /\ WellFormed(request[w]) /\ snapshot[w] \in Manifests
    BY <1>1 DEF Safe, Typed, TypeOK, Requested, WellAsked
  <1>3. Kind(w) \in {"activate", "validate"} => snapshot[w][Target(w)] # Absent
    BY <1>1 DEF ActsOnListed, InWindow
  <1> QED  BY <1>2, <1>3, EditedHere DEF Writes

LEMMA SaysStays ==
    ASSUME NEW o, NEW e, request'[o] = request[o], Says(o, e) PROVE Says(o, e)'
  BY DEF Says, Kind, Version

LEMMA LastStays == Safe /\ Orderly /\ Consistent /\ [MCNext]_mcvars => LastStands'
  <1> SUFFICES ASSUME Safe, Orderly, Consistent, [MCNext]_mcvars PROVE LastStands'
    OBVIOUS
  <1>0. Serial /\ WellAsked /\ ActsOnListed /\ LastStands  BY DEF Consistent
  <1>1. CASE UNCHANGED mcvars
    BY <1>0, <1>1 DEF mcvars, vars, LastStands, Says, Kind, Version
  <1>2. CASE MCNext
    <2>0. [Next]_vars /\ (clean' => clean)  BY <1>2 DEF MCNext
    <2>1. ASSUME NEW r \in Resources, NEW l, l = last'[r], l # NoRequest
          PROVE  l \in Ops /\ step'[l] = "over" /\ request'[l] = request[l]
                 /\ (clean' => Says(l, manifest'[r]))
      <3> DEFINE Done(o) == result'[o] # result[o] /\ result'[o] = "done" /\ Target(o) = r
      <3>1. l = IF \E o \in Ops : Done(o) THEN CHOOSE o \in Ops : Done(o) ELSE last[r]
        BY <1>2, <2>1 DEF MCNext
      <3>2. CASE \E o \in Ops : Done(o)
        <4>1. l \in Ops /\ result'[l] # result[l] /\ result'[l] = "done" /\ Target(l) = r
          BY <3>1, <3>2
        <4>2. PICK w \in Ops : Writes(w)  BY <2>0, <4>1, WhoWrites
        <4>3. w = l  BY <4>1, <4>2, OthersStay DEF Writes, OpStep
        <4>4. step'[l] = "over" /\ request' = request
          BY <4>2, <4>3 DEF Writes, WriteManifest, End, Safe, Typed, TypeOK
        <4> QED  BY <1>0, <4>1, <4>2, <4>3, <4>4, WriteSays
      <3>3. CASE ~\E o \in Ops : Done(o)
        <4>1. l = last[r]  BY <3>1, <3>3
        <4>2. l \in Ops /\ step[l] = "over" /\ (clean => Says(l, manifest[r]))
          BY <1>0, <2>1, <4>1 DEF LastStands
        <4>3. step'[l] = "over" /\ request'[l] = request[l]
          BY <2>0, <4>2, OverStays
        <4>4. ASSUME clean' PROVE Says(l, manifest'[r])
          <5>1. CASE UNCHANGED manifest
            BY <2>0, <4>2, <4>4, <5>1
          <5>2. CASE \E w \in Ops : Writes(w)
            <6>1. PICK w \in Ops : Writes(w)  BY <5>2
            <6>2. result'[w] = "done"
              BY <6>1 DEF Writes, End, Safe, Typed, TypeOK
            <6>3. result[w] = "none"
              BY <6>1 DEF Writes, WriteManifest, Orderly, NoResultYet
            <6>4. Target(w) # r  BY <3>3, <6>2, <6>3
            <6>5. Kept(manifest'[r], manifest[r])
              BY <1>0, <2>0, <4>4, <6>1, <6>4, WriteKeeps
            <6> QED  BY <2>0, <4>2, <4>4, <6>5, KeptSays
          <5> QED  BY <2>0, <5>1, <5>2, WhoWrites
        <4> QED  BY <4>2, <4>3, <4>4
      <3> QED  BY <3>2, <3>3
    <2>2. ASSUME NEW r \in Resources, last'[r] # NoRequest
          PROVE  /\ last'[r] \in Ops /\ step'[last'[r]] = "over"
                 /\ clean' => Says(last[r], manifest[r])'
      <3>1. PICK l, e : l = last'[r] /\ e = manifest'[r]  OBVIOUS
      <3>2. l \in Ops /\ step'[l] = "over" /\ request'[l] = request[l]
            /\ (clean' => Says(l, e))
        BY <2>1, <2>2, <3>1
      <3>3. clean' => Says(l, e)'  BY <3>2, SaysStays
      <3>4. Says(l, e)' => Says(last[r], manifest[r])'
        BY <3>1 DEF Says, Kind, Version
      <3> QED  BY <3>1, <3>2, <3>3, <3>4
    <2> QED  BY <2>2 DEF LastStands
  <1> QED  BY <1>1, <1>2

LEMMA ConsistentStays == Safe /\ Orderly /\ Consistent /\ [MCNext]_mcvars => Consistent'
  <1>1. [MCNext]_mcvars => [Next]_vars  BY DEF MCNext, mcvars
  <1> QED  BY <1>1, SerialStays, AskedStays, ActsStays, LastStays DEF Consistent

LEMMA InitConsistent == MCInit => Consistent
  BY DEF MCInit, Init, Consistent, Serial, WellAsked, ActsOnListed, LastStands, InWindow

\* An operation that reported success is not undone by another one on another
\* resource, as long as no two are between read and write at once: whatever
\* the numbers of resources, operations and processes.
THEOREM SuccessStands == MCSpec => []LastSuccessStands
  <1>1. MCInit => Safe /\ Orderly /\ Consistent
    BY InitSafe, InitOrderly, InitConsistent DEF MCInit, Safe
  <1>2. Safe /\ Orderly /\ Consistent /\ [MCNext]_mcvars => (Safe /\ Orderly /\ Consistent)'
    <2>1. [MCNext]_mcvars => [Next]_vars  BY DEF MCNext, mcvars
    <2> QED  BY <2>1, NextSafe, NextOrderly, ConsistentStays
  <1>3. Consistent => LastSuccessStands
    BY DEF Consistent, LastStands, Says, LastSuccessStands
  <1> QED  BY <1>1, <1>2, <1>3, PTL DEF MCSpec

(***************************************************************************)
(* Directories.  An install that the list of resources offers works on a   *)
(* version that the manifest does not list, so that its work on the        *)
(* directory disturbs no listed one, and when it writes the manifest its   *)
(* own directory is complete.                                              *)
(***************************************************************************)
Managed(m, r) == m[r] # Absent /\ m[r].managed
UninstallOf(o, r) == Uninstalling(o) /\ Target(o) = r

OnePerTarget == \A o, i \in Ops : Running(o) /\ Running(i) /\ Target(o) = Target(i) => o = i
VersionIsNew ==
    \A o \in Ops : Running(o) /\ Kind(o) = "install" => ~Listed(manifest, Target(o), Version(o))

\* The contents an install may find at its place when it stands at a step: the scan
\* is where it notices that there are none.
Arrived == {"scan", "read", "write"}
Fits(s, d, contents) == Complete(d, contents) \/ (s = "scan" /\ contents = "none")

PlacedIsReady ==
    \A o \in Ops : step[o] \in Arrived /\ Kind(o) = "install" =>
        Fits(step[o], Place(o), tree[Place(o)])
ManagedHasVersion == \A r \in Resources : Managed(manifest, r) => manifest[r].version # Local
ManagedIsReady ==
    \A r \in Resources : Managed(manifest, r) =>
        \/ Complete(<<r, manifest[r].version>>, tree[<<r, manifest[r].version>>])
        \/ \E o \in Ops : UninstallOf(o, r)

Tidy ==
    clean => /\ OnePerTarget /\ VersionIsNew
             /\ PlacedIsReady /\ ManagedHasVersion /\ ManagedIsReady

\* What an offered install asks for is not listed.
LEMMA OfferedIsNew ==
    ASSUME NEW p, NEW q, Offered(p, q), q.kind = "install"
    PROVE  ~Listed(manifest, q.resource, q.version)
  <1> DEFINE e == manifest[q.resource]
  <1>1. q.version = Latest /\ "install" \in Actions(p, q.resource)
    BY DEF Offered
  <1>2. CASE e = Absent
    BY <1>2 DEF Listed
  <1>3. CASE e # Absent
    <2>1. ~e.managed \/ e.version # Latest
      BY <1>1, <1>3 DEF Actions
    <2> QED  BY <1>1, <2>1 DEF Listed
  <1> QED  BY <1>2, <1>3

LEMMA KeptListed ==
    ASSUME NEW m, NEW n, NEW r, Kept(m[r], n[r])
    PROVE  /\ \A v : Listed(m, r, v) => Listed(n, r, v)
           /\ Managed(m, r) => Managed(n, r) /\ m[r].version = n[r].version
  BY DEF Kept, Listed, Managed

\* Which operation works on a directory, and on which.
LEMMA TreeStep ==
    ASSUME Safe, [Next]_vars
    PROVE  \/ UNCHANGED tree
           \/ \E i \in Ops :
                 /\ RemoveTree(i)
                 /\ \A d \in Resources \X Versions : d[1] # Target(i) => tree'[d] = tree[d]
           \/ \E i \in Ops :
                 /\ Install(i) /\ step[i] \in OnTheWay
                 /\ \A d \in Resources \X Versions : d # Place(i) => tree'[d] = tree[d]
  <1>1. ASSUME NEW i \in Ops, Install(i)
        PROVE  /\ UNCHANGED tree \/ step[i] \in OnTheWay
               /\ \A d \in Resources \X Versions : d # Place(i) => tree'[d] = tree[d]
    <2>1. UNCHANGED tree \/ \E c : tree' = [tree EXCEPT ![Place(i)] = c]
      BY <1>1 DEF Install, Download, Verify, Extract, RemoveOld, PutInPlace, PostInstall, Scan
    <2>2. UNCHANGED tree \/ step[i] \in OnTheWay
      BY <1>1 DEF Install, Download, Verify, Extract, RemoveOld, PutInPlace, PostInstall, Scan,
                  OnTheWay
    <2> QED  BY <2>1, <2>2 DEF Safe, Typed, TypeOK
  <1>2. ASSUME NEW i \in Ops, RemoveTree(i)
        PROVE  \A d \in Resources \X Versions : d[1] # Target(i) => tree'[d] = tree[d]
    <2>1. tree' = [tree EXCEPT ![<<Target(i), snapshot[i][Target(i)].version>>] = "none"]
      BY <1>2 DEF RemoveTree
    <2> QED  BY <2>1 DEF Safe, Typed, TypeOK
  <1>3. ASSUME NEW i \in Ops, Request(i) \/ ReadManifest(i) \/ StatTree(i) \/ WriteManifest(i)
        PROVE  UNCHANGED tree
    BY <1>3 DEF Request, ReadManifest, StatTree, WriteManifest
  <1>4. CASE \/ \E p \in Processes, r \in Resources : CancelResource(p, r)
             \/ \E p \in Processes : Crash(p)
    BY <1>4 DEF CancelResource, Crash
  <1>5. CASE UNCHANGED vars
    BY <1>5 DEF vars
  <1> QED  BY <1>1, <1>2, <1>3, <1>4, <1>5 DEF Next, OpStep

LEMMA UninstallGoesOn ==
    ASSUME Safe, [Next]_vars, NEW o \in Ops, step[o] \in {"removeTree", "write"}
    PROVE  request'[o] = request[o] /\ step'[o] \in {"removeTree", "write", "over"}
  <1>1. CASE UNCHANGED vars
    BY <1>1 DEF vars
  <1>2. ASSUME NEW i \in Ops \ {o}, Request(i) \/ OpStep(i)
        PROVE  request'[o] = request[o] /\ step'[o] = step[o]
    BY <1>2, OthersStay
  <1>3. CASE Request(o) \/ OpStep(o)
    <2>1. RemoveTree(o) \/ WriteManifest(o)
      BY <1>3 DEF Request, OpStep, Install, Download, Verify, Extract, RemoveOld, PutInPlace,
                  PostInstall, Scan, ReadManifest, StatTree
    <2> QED  BY <2>1 DEF RemoveTree, WriteManifest, Goto, End, Safe, Typed, TypeOK
  <1>4. CASE \E p \in Processes, r \in Resources : CancelResource(p, r)
    BY <1>4 DEF CancelResource
  <1>5. CASE \E p \in Processes : Crash(p)
    BY <1>5 DEF Crash
  <1> QED  BY <1>1, <1>2, <1>3, <1>4, <1>5 DEF Next

LEMMA RunningStep ==
    ASSUME Safe, [Next]_vars, NEW o \in Ops, step'[o] \notin {"idle", "over"}
    PROVE  Request(o) \/ (Running(o) /\ request'[o] = request[o])
  <1>1. CASE UNCHANGED vars
    BY <1>1 DEF vars, Running
  <1>2. ASSUME NEW i \in Ops \ {o}, Request(i) \/ OpStep(i)
        PROVE  request'[o] = request[o] /\ step'[o] = step[o]
    BY <1>2, OthersStay
  <1>3. CASE OpStep(o)
    BY <1>3 DEF OpStep, Install, Download, Verify, Extract, RemoveOld, PutInPlace, PostInstall, Scan,
                GiveUp, ReadManifest, RemoveTree, StatTree, WriteManifest, jobState, Running
  <1>4. CASE \E p \in Processes, r \in Resources : CancelResource(p, r)
    BY <1>4 DEF CancelResource, Running
  <1>5. CASE \E p \in Processes : Crash(p)
    BY <1>5 DEF Crash, Running
  <1> QED  BY <1>1, <1>2, <1>3, <1>4, <1>5 DEF Next, Running

LEMMA InstallPlace ==
    ASSUME NEW o, request[o] \in Requests, WellFormed(request[o]), Kind(o) = "install"
    PROVE  Place(o) \in Resources \X Versions
  BY DEF Requests, WellFormed, Kind, Place, Target, Version

\* An install gets to the manifest with its directory complete.
LEMMA PlacedStep ==
    ASSUME Safe, Orderly, WellAsked, [Next]_vars, NEW o \in Ops,
           Kind(o) = "install", Running(o), step'[o] \in Arrived
    PROVE  \/ Fits(step'[o], Place(o), tree'[Place(o)])
           \/ /\ step[o] \in Arrived
              /\ Fits(step[o], Place(o), tree[Place(o)]) => Fits(step'[o], Place(o), tree[Place(o)])
  <1>0. Place(o) \in Resources \X Versions
    BY InstallPlace DEF Running, WellAsked, Safe, Typed, Requested
  <1>1. CASE UNCHANGED vars
    BY <1>1 DEF vars
  <1>2. ASSUME NEW i \in Ops \ {o}, Request(i) \/ OpStep(i) PROVE step'[o] = step[o]
    BY <1>2, OthersStay
  <1>3. CASE PutInPlace(o)
    <2>1. Place(o) \in Checksummed => archive[o] = "good"
      BY <1>3 DEF PutInPlace, Orderly, GoodUnpacked, Unpacking
    <2>2. ~GiveUp(o)
      BY DEF GiveUp, End, Safe, Typed, TypeOK, Arrived
    <2>3. Target(o) \in Tools
      BY <1>3, <2>2 DEF PutInPlace, Goto, Safe, Typed, TypeOK, Arrived
    <2>4. tree' = [tree EXCEPT ![Place(o)] = IF archive[o] # "good" THEN "corrupt" ELSE "ready"]
      BY <1>3, <2>2, <2>3 DEF PutInPlace
    <2>5. tree'[Place(o)] = IF archive[o] # "good" THEN "corrupt" ELSE "ready"
      BY <1>0, <2>4 DEF Safe, Typed, TypeOK
    <2> QED  BY <2>1, <2>5 DEF Fits, Complete, Vouched
  <1>4. CASE PostInstall(o)
    <2>1. ~GiveUp(o)
      BY DEF GiveUp, End, Safe, Typed, TypeOK, Arrived
    <2>2. PICK c \in Finished(o) : tree' = [tree EXCEPT ![Place(o)] = c]
      BY <1>4, <2>1 DEF PostInstall
    <2>3. step'[o] = "scan"
      BY <1>4, <2>1 DEF PostInstall, Goto, Safe, Typed, TypeOK
    <2>4. tree'[Place(o)] = c
      BY <1>0, <2>2 DEF Safe, Typed, TypeOK
    <2>5. tree[Place(o)] = "corrupt" => Place(o) \notin Vouched
      BY DEF Orderly, NothingCorruptPlaced
    <2>6. c = "none" \/ c = "ready" \/ (c = "corrupt" /\ Place(o) \notin Vouched)
      BY <2>2, <2>5 DEF Finished, Vouched
    <2> QED  BY <2>3, <2>4, <2>6 DEF Fits, Complete
  <1>10. CASE Scan(o)
    <2>1. ~GiveUp(o)
      BY DEF GiveUp, End, Safe, Typed, TypeOK, Arrived
    <2>2. step[o] = "scan" /\ tree[Place(o)] # "none"
      BY <1>10, <2>1 DEF Scan
    <2> QED  BY <2>2 DEF Fits, Arrived
  <1>5. CASE Download(o) \/ Verify(o) \/ Extract(o) \/ RemoveOld(o)
    <2>1. \/ \E s \in {"verify", "extract", "removeOld", "place"} : Goto(o, s)
          \/ \E how : End(o, how)
      BY <1>5 DEF Download, Verify, Extract, RemoveOld, GiveUp
    <2> QED  BY <2>1 DEF Goto, End, Safe, Typed, TypeOK, Arrived
  <1>6. CASE ReadManifest(o) \/ RemoveTree(o) \/ StatTree(o) \/ WriteManifest(o)
    <2>1. step[o] \in {"read", "write"}
      BY <1>6 DEF ReadManifest, RemoveTree, StatTree, WriteManifest, Orderly, KindsAtSteps
    <2> QED  BY <2>1 DEF Fits, Arrived
  <1>7. CASE Request(o)
    BY <1>7 DEF Request, Running
  <1>8. CASE \E p \in Processes, r \in Resources : CancelResource(p, r)
    BY <1>8 DEF CancelResource
  <1>9. CASE \E p \in Processes : Crash(p)
    <2>1. tree' = tree /\ step'[o] \in {step[o], "over"}
      BY <1>9 DEF Crash
    <2>2. step'[o] = step[o]
      BY <2>1 DEF Arrived
    <2> QED  BY <2>1, <2>2
  <1> QED
    BY <1>1, <1>2, <1>3, <1>4, <1>5, <1>6, <1>7, <1>8, <1>9, <1>10 DEF Next, OpStep, Install

\* What the end of an operation does to the entry of its target.
LEMMA EditedTarget ==
    ASSUME NEW o, request[o] \in Requests, WellFormed(request[o]), NEW m \in Manifests,
           Managed(Edited(o, m), Target(o))
    PROVE  \/ /\ Kind(o) = "install"
              /\ Edited(o, m)[Target(o)].version = Version(o)
           \/ /\ Kind(o) \in {"activate", "validate"}
              /\ Kept(Edited(o, m)[Target(o)], m[Target(o)])
  <1> DEFINE r == Target(o)
             v == Version(o)
  <1>1. r \in Resources /\ v \in Versions \cup {Local} /\ Kind(o) \in Kinds
    BY DEF Target, Version, Kind, Requests
  <1>2. ASSUME NEW e PROVE [m EXCEPT ![r] = e][r] = e
    BY <1>1 DEF Manifests
  <1>3. CASE Kind(o) \in {"install", "importFor"}
    <2>1. Edited(o, m) = IF r \in Tools THEN [m EXCEPT ![r] = ToolEntry(v)] ELSE PutPdk(m, r, v)
      BY <1>3 DEF Edited
    <2>2. ToolEntry(v).managed = (v # Local) /\ ToolEntry(v).version = v
      BY DEF ToolEntry
    <2>3. PutPdk(m, r, v)[r].managed = (v # Local) /\ PutPdk(m, r, v)[r].version = v
      BY <1>1, PutEntry
    <2>4. Edited(o, m)[r].managed = (v # Local) /\ Edited(o, m)[r].version = v
      BY <1>2, <2>1, <2>2, <2>3
    <2>5. v # Local  BY <2>4 DEF Managed
    <2>6. Kind(o) = "install"  BY <2>5 DEF WellFormed, Kind, Version
    <2> QED  BY <2>4, <2>6
  <1>4. CASE Kind(o) = "importAny"
    <2> DEFINE e == PdkEntry(Local, ActivePdks(m) = {})
    <2>1. Edited(o, m) = [m EXCEPT ![r] = e]  BY <1>4 DEF Edited, AddPdk
    <2>2. ~e.managed  BY DEF PdkEntry
    <2> HIDE DEF e
    <2> QED  BY <1>2, <2>1, <2>2 DEF Managed
  <1>5. CASE Kind(o) = "activate"
    BY <1>1, <1>5, OnlyActiveKeeps DEF Edited
  <1>6. CASE Kind(o) = "validate"
    BY <1>6 DEF Edited, Kept
  <1>7. CASE Kind(o) \in {"uninstall", "removeReference"}
    <2>1. Edited(o, m) = [m EXCEPT ![r] = Absent]  BY <1>7 DEF Edited, Delist
    <2> QED  BY <1>2, <2>1 DEF Managed
  <1> QED  BY <1>1, <1>3, <1>4, <1>5, <1>6, <1>7 DEF Kinds

\* The same of a step that writes the manifest.
LEMMA WriteTarget ==
    ASSUME Safe, Serial, WellAsked, clean, NEW w \in Ops, Writes(w),
           Managed(manifest', Target(w))
    PROVE  \/ Kind(w) = "install" /\ manifest'[Target(w)].version = Version(w)
           \/ /\ Kind(w) \in {"activate", "validate"}
              /\ Kept(manifest'[Target(w)], manifest[Target(w)])
  <1>1. step[w] = "write" /\ manifest' = Edited(w, snapshot[w])
    BY DEF Writes, WriteManifest
  <1>2. request[w] \in Requests /\ WellFormed(request[w]) /\ snapshot[w] \in Manifests
    BY <1>1 DEF Safe, Typed, TypeOK, Requested, WellAsked
  <1>3. Kept(snapshot[w][Target(w)], manifest[Target(w)])
    BY <1>1, <1>2 DEF Serial, Agrees, InWindow, Target, Requests
  <1> QED  BY <1>1, <1>2, <1>3, EditedTarget, KeptTwice

LEMMA TidyStays ==
    ASSUME OfferedOnly, Safe, Orderly, Consistent, Tidy, [MCNext]_mcvars
    PROVE  Tidy'
  <1>1. CASE UNCHANGED mcvars
    <2>1. UNCHANGED <<manifest, tree, request, step, result, clean>>
      BY <1>1 DEF mcvars, vars
    <2> QED
      BY <2>1 DEF Tidy, OnePerTarget, VersionIsNew, PlacedIsReady, ManagedHasVersion, ManagedIsReady,
                  Managed, UninstallOf, Uninstalling, Listed, Place, Kind, Target, Version, Running
  <1>2. CASE MCNext
    <2> SUFFICES ASSUME clean'
                 PROVE  (OnePerTarget /\ VersionIsNew /\ PlacedIsReady
                           /\ ManagedHasVersion /\ ManagedIsReady)'
      BY DEF Tidy
    <2>1. /\ clean /\ [Next]_vars /\ Serial /\ WellAsked
          /\ ~Collision' /\ \A o \in Ops : ~BreaksOff(o)
      BY <1>2, CleanStep DEF MCNext, Consistent
    <2>2. OnePerTarget /\ VersionIsNew /\ PlacedIsReady /\ ManagedHasVersion /\ ManagedIsReady
      BY <2>1 DEF Tidy
    <2>3. OnePerTarget'
      BY <2>1 DEF Collision, InFlight, OnePerTarget, Running
    <2>4. ASSUME NEW w \in Ops, Writes(w)
          PROVE  /\ step[w] = "write" /\ Running(w) /\ step'[w] = "over"
                 /\ UNCHANGED <<tree, request>> /\ Target(w) \in Resources
      <3>1. step[w] = "write" /\ UNCHANGED <<tree, request>> /\ End(w, "done")
        BY <2>4 DEF Writes, WriteManifest
      <3>2. request[w] \in Requests
        BY <3>1 DEF Safe, Typed, Requested
      <3> QED  BY <3>1, <3>2 DEF End, Running, Target, Requests, Safe, Typed, TypeOK
    <2>5. VersionIsNew'
      <3> SUFFICES ASSUME NEW o \in Ops, step'[o] \notin {"idle", "over"}, Kind(o)' = "install"
                   PROVE  ~Listed(manifest, Target(o), Version(o))'
        BY DEF VersionIsNew, Running
      <3>1. CASE Request(o)
        <4>1. /\ UNCHANGED manifest
              /\ Offered(ProcessOf[o], request'[o]) /\ request'[o].kind = "install"
          BY <3>1 DEF Request, Kind, Safe, Typed, TypeOK
        <4>2. PICK q : q = request'[o]  OBVIOUS
        <4>3. ~Listed(manifest, q.resource, q.version)
          BY <4>1, <4>2, OfferedIsNew
        <4> QED  BY <4>1, <4>2, <4>3 DEF Listed, Target, Version
      <3>2. CASE Running(o) /\ request'[o] = request[o]
        <4>1. PICK r, v : r = Target(o) /\ v = Version(o)  OBVIOUS
        <4>2. r = Target(o)' /\ v = Version(o)' /\ Kind(o) = "install" /\ r \in Resources
          <5>1. request[o] \in Requests
            BY <3>2 DEF Running, Safe, Typed, Requested
          <5> QED  BY <3>2, <4>1, <5>1 DEF Target, Version, Kind, Requests
        <4>3. ~Listed(manifest, r, v)
          BY <2>2, <3>2, <4>1, <4>2 DEF VersionIsNew
        <4>4. manifest'[r] = manifest[r] \/ Kept(manifest'[r], manifest[r])
          <5>1. CASE \E w \in Ops : Writes(w)
            <6>1. PICK w \in Ops : Writes(w)  BY <5>1
            <6>2. w # o /\ Running(w)
              BY <2>4, <6>1
            <6>3. Target(w) # r
              BY <2>2, <3>2, <4>1, <6>2 DEF OnePerTarget
            <6> QED  BY <2>1, <4>2, <6>1, <6>3, WriteKeeps
          <5> QED  BY <2>1, <5>1, WhoWrites
        <4>5. ~Listed(manifest', r, v)
          BY <4>3, <4>4 DEF Listed, Kept
        <4> QED  BY <4>2, <4>5 DEF Listed
      <3> QED  BY <2>1, <3>1, <3>2, RunningStep
    <2>6. PlacedIsReady'
      <3> SUFFICES ASSUME NEW o \in Ops, step'[o] \in Arrived, Kind(o)' = "install"
                   PROVE  Fits(step'[o], Place(o)', tree'[Place(o)'])
        BY DEF PlacedIsReady, Fits, Complete
      <3>1. Running(o) /\ request'[o] = request[o]
        <4>1. CASE Request(o)
          BY <4>1 DEF Request, Goto, End, Kind, Safe, Typed, TypeOK, Arrived
        <4> QED  BY <2>1, <4>1, RunningStep DEF Arrived
      <3>2. Place(o)' = Place(o) /\ Kind(o) = "install"
        BY <3>1 DEF Place, Target, Version, Kind
      <3>3. Place(o) \in Resources \X Versions /\ Place(o)[1] = Target(o)
        BY <2>1, <3>1, <3>2, InstallPlace DEF Running, WellAsked, Safe, Typed, Requested, Place
      <3>4. CASE Fits(step'[o], Place(o), tree'[Place(o)])
        BY <3>2, <3>4
      <3>5. CASE /\ step[o] \in Arrived /\ ~Fits(step'[o], Place(o), tree'[Place(o)])
                 /\ Fits(step[o], Place(o), tree[Place(o)]) =>
                      Fits(step'[o], Place(o), tree[Place(o)])
        <4>1. Fits(step[o], Place(o), tree[Place(o)])
          BY <2>2, <3>2, <3>5 DEF PlacedIsReady
        <4>2. PICK i \in Ops :
                /\ (Install(i) /\ step[i] \in OnTheWay) \/ RemoveTree(i)
                /\ \A d \in Resources \X Versions : d[1] # Target(i) => tree'[d] = tree[d]
          <5>1. \A i : Place(i)[1] = Target(i)  BY DEF Place
          <5> QED  BY <2>1, <3>5, <4>1, <5>1, TreeStep
        <4>3. i # o /\ Running(i)
          BY <3>5, <4>2 DEF RemoveTree, Running, OnTheWay, Arrived
        <4>4. Target(i) # Target(o)
          BY <2>2, <3>1, <4>3 DEF OnePerTarget
        <4> QED  BY <3>3, <3>5, <4>1, <4>2, <4>4
      <3> QED  BY <2>1, <3>1, <3>2, <3>4, <3>5, PlacedStep
    <2> DEFINE Before(r) == Managed(manifest, r) /\ manifest'[r].version = manifest[r].version
    <2>7. ASSUME NEW r \in Resources, Managed(manifest', r)
          PROVE  \/ Before(r)
                 \/ \E w \in Ops : /\ Writes(w) /\ Target(w) = r /\ Kind(w) = "install"
                                   /\ manifest'[r].version = Version(w)
      <3>1. CASE UNCHANGED manifest
        BY <2>7, <3>1
      <3>2. ASSUME NEW w \in Ops, Writes(w), Target(w) # r PROVE Before(r)
        <4>1. Kept(manifest'[r], manifest[r])  BY <2>1, <3>2, WriteKeeps
        <4> QED  BY <2>7, <4>1, KeptListed
      <3>3. ASSUME NEW w \in Ops, Writes(w), Target(w) = r
            PROVE  Before(r) \/ (Kind(w) = "install" /\ manifest'[r].version = Version(w))
        <4>1. \/ Kind(w) = "install" /\ manifest'[r].version = Version(w)
              \/ Kept(manifest'[r], manifest[r])
          BY <2>1, <2>7, <3>3, WriteTarget
        <4> QED  BY <2>7, <4>1, KeptListed
      <3> QED  BY <2>1, <3>1, <3>2, <3>3, WhoWrites
    <2>8. ManagedHasVersion'
      <3> SUFFICES ASSUME NEW r \in Resources, Managed(manifest', r)
                   PROVE  manifest'[r].version # Local
        BY DEF ManagedHasVersion, Managed
      <3>1. CASE Before(r)
        BY <2>2, <3>1 DEF ManagedHasVersion
      <3>2. ASSUME NEW w \in Ops, Writes(w), Kind(w) = "install", manifest'[r].version = Version(w)
            PROVE  manifest'[r].version # Local
        <4>1. step[w] # "idle"  BY <2>4, <3>2
        <4>2. WellFormed(request[w])  BY <2>1, <4>1 DEF WellAsked
        <4> QED  BY <3>2, <4>2 DEF WellFormed, Kind, Version
      <3> QED  BY <2>7, <3>1, <3>2
    <2>9. ManagedIsReady'
      <3> SUFFICES ASSUME NEW r \in Resources, Managed(manifest', r)
                   PROVE  \/ Complete(<<r, manifest'[r].version>>, tree'[<<r, manifest'[r].version>>])
                          \/ \E o \in Ops : UninstallOf(o, r)'
        BY DEF ManagedIsReady, Managed, Complete
      <3>1. ASSUME NEW w \in Ops, Writes(w), Target(w) = r, Kind(w) = "install",
                   manifest'[r].version = Version(w)
            PROVE  Complete(<<r, manifest'[r].version>>, tree'[<<r, manifest'[r].version>>])
        <4>1. Place(w) = <<r, manifest'[r].version>>  BY <3>1 DEF Place
        <4>2. step[w] = "write" /\ UNCHANGED tree  BY <2>4, <3>1
        <4> QED  BY <2>2, <3>1, <4>1, <4>2 DEF PlacedIsReady, Arrived, Fits
      <3>2. CASE Before(r)
        <4> DEFINE d == <<r, manifest[r].version>>
        <4>1. ASSUME NEW o \in Ops, UninstallOf(o, r), ~\E w \in Ops : Writes(w) /\ Target(w) = r
              PROVE  UninstallOf(o, r)'
          <5>1. step[o] \in {"removeTree", "write"} /\ Kind(o) = "uninstall" /\ Target(o) = r
            BY <4>1 DEF UninstallOf, Uninstalling
          <5>2. request'[o] = request[o] /\ step'[o] \in {"removeTree", "write", "over"}
            BY <2>1, <5>1, UninstallGoesOn
          <5>3. step'[o] # "over"
            <6>1. result'[o] = "done" => result[o] = "done"
              <7>1. CASE \E w \in Ops : Writes(w)
                <8>1. PICK w \in Ops : Writes(w)  BY <7>1
                <8>2. w # o  BY <4>1, <5>1, <8>1
                <8> QED  BY <8>1, <8>2, OthersStay DEF Writes, OpStep
              <7> QED  BY <2>1, <7>1, WhoWrites
            <6>2. result[o] = "none"
              BY <5>1 DEF Orderly, NoResultYet
            <6> QED  BY <2>1, <5>1, <6>1, <6>2 DEF BreaksOff, Uninstalling
          <5> QED  BY <5>1, <5>2, <5>3 DEF UninstallOf, Uninstalling, Kind, Target
        <4>2. CASE \E w \in Ops : Writes(w) /\ Target(w) = r
          <5>1. PICK w \in Ops : Writes(w) /\ Target(w) = r  BY <4>2
          <5>2. Kind(w) # "uninstall"
            <6>1. Kind(w) \in {"install", "activate", "validate"}
              BY <2>1, <5>1, WriteTarget
            <6> QED  BY <6>1
          <5>3. ~\E o \in Ops : UninstallOf(o, r)
            <6> SUFFICES ASSUME NEW o \in Ops, UninstallOf(o, r) PROVE FALSE
              OBVIOUS
            <6>1. Running(o) /\ Running(w) /\ Target(o) = Target(w) /\ Kind(o) = "uninstall"
              BY <2>4, <5>1 DEF UninstallOf, Uninstalling, Running
            <6> QED  BY <2>2, <5>2, <6>1 DEF OnePerTarget
          <5>4. Complete(d, tree[d])
            BY <2>2, <3>2, <5>3 DEF ManagedIsReady
          <5> QED  BY <2>4, <3>2, <5>1, <5>4
        <4>3. CASE ~(\E w \in Ops : Writes(w) /\ Target(w) = r) /\ (\E o \in Ops : UninstallOf(o, r))
          BY <4>1, <4>3
        <4>4. CASE ~\E o \in Ops : UninstallOf(o, r)
          <5>1. Complete(d, tree[d])
            BY <2>2, <3>2, <4>4 DEF ManagedIsReady
          <5>2. d \in Resources \X Versions
            <6>1. manifest[r] \in Entries
              BY <3>2 DEF Managed, Safe, Typed, TypeOK, Manifests
            <6>2. manifest[r].version # Local
              BY <2>2, <3>2 DEF ManagedHasVersion
            <6> QED  BY <6>1, <6>2 DEF Entries
          <5>3. ASSUME NEW i \in Ops, RemoveTree(i),
                       \A e \in Resources \X Versions : e[1] # Target(i) => tree'[e] = tree[e]
                PROVE  tree'[d] = tree[d]
            <6>1. Target(i) # r
              <7>1. step[i] = "removeTree" /\ Kind(i) = "uninstall"
                BY <5>3 DEF RemoveTree, Orderly, KindsAtSteps
              <7> QED  BY <4>4, <7>1 DEF UninstallOf, Uninstalling
            <6> QED  BY <5>2, <5>3, <6>1
          <5>4. ASSUME NEW i \in Ops, Install(i), step[i] \in OnTheWay,
                       \A e \in Resources \X Versions : e # Place(i) => tree'[e] = tree[e]
                PROVE  tree'[d] = tree[d]
            <6>1. d # Place(i)
              <7>1. step[i] \in OnTheWay /\ Running(i)
                BY <5>4 DEF Running, OnTheWay
              <7>2. Kind(i) = "install" => ~Listed(manifest, Target(i), Version(i))
                BY <2>2, <7>1 DEF VersionIsNew
              <7>3. Kind(i) = "install"
                BY <7>1 DEF Orderly, KindsAtSteps
              <7> QED  BY <3>2, <7>2, <7>3 DEF Listed, Managed, Place
            <6> QED  BY <5>2, <5>4, <6>1
          <5>5. tree'[d] = tree[d]
            BY <2>1, <5>3, <5>4, TreeStep
          <5> QED  BY <3>2, <5>1, <5>5
        <4> QED  BY <4>2, <4>3, <4>4
      <3> QED  BY <2>7, <3>1, <3>2
    <2> QED  BY <2>3, <2>5, <2>6, <2>8, <2>9
  <1> QED  BY <1>1, <1>2

LEMMA InitTidy == MCInit => Tidy
  <1> SUFFICES ASSUME MCInit PROVE Tidy
    OBVIOUS
  <1>1. Init  BY DEF MCInit
  <1>2. OnePerTarget /\ VersionIsNew /\ PlacedIsReady
    BY <1>1 DEF Init, OnePerTarget, VersionIsNew, PlacedIsReady, Running, Arrived
  <1>3. manifest \in Manifests /\ ManagedHasVersion
    BY <1>1, InheritedAssumption DEF Init, ManagedHasVersion, Managed
  <1>4. ManagedIsReady
    <2> SUFFICES ASSUME NEW r \in Resources, Managed(manifest, r)
                 PROVE  tree[<<r, manifest[r].version>>] = "ready"
      BY DEF ManagedIsReady, Complete
    <2>1. manifest[r] \in Entries  BY <1>3 DEF Managed, Manifests
    <2>2. manifest[r].version \in Versions
      BY <1>3, <2>1 DEF ManagedHasVersion, Entries
    <2>3. Listed(manifest, r, manifest[r].version)
      BY DEF Listed, Managed
    <2> QED  BY <1>1, <2>2, <2>3 DEF Init
  <1> QED  BY <1>2, <1>3, <1>4 DEF Tidy

\* If only what the list of resources offers is asked for, and no two
\* operations get in each other's way and no uninstall breaks off halfway, every
\* managed entry of the manifest has its complete directory, with the contents the
\* registry meant wherever the checksum vouches for them: whatever the
\* numbers of resources, versions, operations and processes.
THEOREM ListedStaysReady == ASSUME OfferedOnly PROVE MCSpec => []ListedIsReady
  <1>1. MCInit => Safe /\ Orderly /\ Consistent /\ Tidy
    BY InitSafe, InitOrderly, InitConsistent, InitTidy DEF MCInit, Safe
  <1>2. Safe /\ Orderly /\ Consistent /\ Tidy /\ [MCNext]_mcvars
          => (Safe /\ Orderly /\ Consistent /\ Tidy)'
    <2>1. [MCNext]_mcvars => [Next]_vars  BY DEF MCNext, mcvars
    <2> QED  BY <2>1, NextSafe, NextOrderly, ConsistentStays, TidyStays
  <1>3. Tidy => ListedIsReady
    BY DEF Tidy, ListedIsReady, ManagedIsReady, Managed, UninstallOf, Uninstalling, InFlight
  <1> QED  BY <1>1, <1>2, <1>3, PTL DEF MCSpec
==============================================================================
