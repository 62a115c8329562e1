------------------------ MODULE DesktopRuntime_proofs ------------------------
(***************************************************************************)
(* Proofs about SharedRuntimeManager and, on top of it, DesktopRuntime,    *)
(* for any sets of jobs, managers, scopes and directories.                 *)
(*                                                                         *)
(* The map and the lock handles say the same of every job: Consistent is   *)
(* the inductive invariant that ties phase, active and holders together,   *)
(* and the exclusion properties follow from it.  What subscribers were     *)
(* told of a job is told by where it stands (Told).  The desktop's steps   *)
(* are steps of the managers, so all that is proved of these holds there;  *)
(* new is that a command which names a directory works on it               *)
(* (TargetIsNamed): the scope it is locked under is the directory it works *)
(* on.                                                                     *)
(***************************************************************************)
EXTENDS DesktopRuntime, SequenceTheorems, TLAPS

\* Every entry of a map is a long-running call of that manager and scope that
\* has not left its try block, and every such call has its entry.
MapConsistent ==
    /\ \A m \in Managers, s \in Scopes :
         active[m][s] # NoJob =>
           LET j == active[m][s]
           IN  /\ j \in LongRunning /\ ManagerOf[j] = m /\ ScopeOf[j] = s
               /\ phase[j] \in {"acquiring", "executing"}
    /\ \A j \in LongRunning :
         phase[j] \in {"acquiring", "executing"} => Tracked(j) = j

\* The locks on disk: whose they are, that a failing disk alone leaves one behind,
\* and that a sound scope has one at a time.
HandlesConsistent ==
    /\ \A j \in Jobs : phase[j] = "acquiring" => j \in LongRunning
    /\ \A j \in holders :
         /\ j \in LongRunning
         /\ \/ phase[j] \in {"executing", "releasing"}
            \/ phase[j] = "done" /\ j \in FaultyDisk
    /\ \A j \in LongRunning : phase[j] = "executing" => j \in holders
    /\ \A i, j \in holders :
         ScopeOf[i] = ScopeOf[j] /\ ScopeOf[i] \in SoundScopes => i = j

Consistent == TypeOK /\ MapConsistent /\ HandlesConsistent

-----------------------------------------------------------------------------
(***************************************************************************)
(* Lemmas about the pieces of execute, each a relation on a few variables. *)
(***************************************************************************)

\* Emitting events of the known kinds keeps the log of events well typed.
LEMMA EmitType ==
    ASSUME TypeOK, NEW j \in Jobs, NEW kinds \in Seq(Kinds), Emit(j, kinds)
    PROVE  emitted' \in [Jobs -> Seq(Kinds)]
  <1>1. emitted[j] \o kinds \in Seq(Kinds)  BY DEF TypeOK
  <1> QED  BY <1>1 DEF TypeOK, Emit

\* Clearing the entry of a job changes that entry only, and only if it is its.
LEMMA ClearEntry ==
    ASSUME TypeOK, NEW j \in Jobs, ClearActiveScope(j)
    PROVE  /\ active' \in [Managers -> [Scopes -> Jobs \cup {NoJob}]]
           /\ \A m \in Managers, s \in Scopes :
                active'[m][s] = IF m = ManagerOf[j] /\ s = ScopeOf[j] /\ active[m][s] = j
                                THEN NoJob ELSE active[m][s]
  BY RuntimeAssumption DEF TypeOK, ClearActiveScope

\* A job that leaves the map, and leaves a lock behind only to release it or for a
\* failing disk, keeps the invariant: the one argument behind every way in which a
\* call can end.
LEMMA LeaveMap ==
    ASSUME Consistent, NEW j \in Jobs, ClearActiveScope(j),
           NEW p \in {"releasing", "done"},
           phase' = [phase EXCEPT ![j] = p],
           NEW result \in Outcomes,
           outcome' = [outcome EXCEPT ![j] = result],
           emitted' \in [Jobs -> Seq(Kinds)],
           UNCHANGED holders \/ (j \in LongRunning /\ MakeLock(j)),
           j \in holders' => p = "releasing" \/ j \in FaultyDisk
    PROVE  Consistent'
  <1>1. TypeOK'
    BY ClearEntry DEF Consistent, TypeOK, Phases, MakeLock
  <1>2. MapConsistent'
    <2>1. ASSUME NEW m \in Managers, NEW s \in Scopes, active'[m][s] # NoJob
          PROVE  LET k == active'[m][s]
                 IN  /\ k \in LongRunning /\ ManagerOf[k] = m /\ ScopeOf[k] = s
                     /\ phase'[k] \in {"acquiring", "executing"}
      <3>1. active'[m][s] = active[m][s]
        BY <2>1, ClearEntry DEF Consistent
      <3>2. active[m][s] # j
        BY <2>1, <3>1, ClearEntry, RuntimeAssumption DEF Consistent, MapConsistent
      <3> QED  BY <2>1, <3>1, <3>2, RuntimeAssumption DEF Consistent, MapConsistent, TypeOK
    <2>2. ASSUME NEW k \in LongRunning, phase'[k] \in {"acquiring", "executing"}
          PROVE  active'[ManagerOf[k]][ScopeOf[k]] = k
      <3>1. k # j /\ k \in Jobs /\ phase'[k] = phase[k]
        BY <2>2, RuntimeAssumption DEF Consistent, TypeOK
      <3>2. active[ManagerOf[k]][ScopeOf[k]] = k
        BY <2>2, <3>1 DEF Consistent, MapConsistent, Tracked
      <3> QED  BY <3>1, <3>2, ClearEntry, RuntimeAssumption DEF Consistent
    <2> QED  BY <2>1, <2>2 DEF MapConsistent, Tracked
  <1>3. HandlesConsistent'
    BY RuntimeAssumption DEF Consistent, TypeOK, HandlesConsistent, LockHolders, MakeLock
  <1> QED  BY <1>1, <1>2, <1>3 DEF Consistent

\* Leaving through the catch clause.
LEMMA FailKeepsConsistent ==
    ASSUME Consistent, NEW j \in Jobs, NEW before \in Seq(Kinds), FailInCatch(j, before),
           UNCHANGED holders \/ (j \in LongRunning /\ MakeLock(j))
    PROVE  Consistent'
  <1>1. Append(before, "failed") \in Seq(Kinds)  BY DEF Kinds, Terminal
  <1>2. emitted' \in [Jobs -> Seq(Kinds)]
    BY <1>1, EmitType DEF FailInCatch, Consistent
  <1>3. PICK result \in {"failed", "rejected"} : Settle(j, result)
    BY DEF FailInCatch
  <1>4. result \in Outcomes  BY DEF Outcomes, Terminal
  <1> DEFINE p == IF j \in holders' THEN "releasing" ELSE "done"
  <1>5. ClearActiveScope(j) /\ phase' = [phase EXCEPT ![j] = p]
          /\ outcome' = [outcome EXCEPT ![j] = result]
    BY <1>3 DEF Settle, Return
  <1>6. p \in {"releasing", "done"} /\ (j \in holders' => p = "releasing")
    OBVIOUS
  <1> HIDE DEF p
  <1> QED  BY <1>2, <1>4, <1>5, <1>6, LeaveMap

\* The start of the work of a job that has, or needs, no lock any more.
LEMMA StartKeepsConsistent ==
    ASSUME Consistent, NEW j \in Jobs, NEW before \in Seq(Kinds), StartWork(j, before),
           \/ j \notin LongRunning /\ UNCHANGED holders /\ phase[j] = "idle"
           \/ j \in LongRunning /\ MakeLock(j) /\ phase[j] = "acquiring"
    PROVE  Consistent'
  <1>1. Append(before, "started") \in Seq(Kinds)  BY DEF Kinds, Terminal
  <1>2. CASE FailInCatch(j, Append(before, "started"))
    BY <1>1, <1>2, FailKeepsConsistent
  <1>3. CASE /\ Emit(j, Append(before, "started"))
             /\ phase' = [phase EXCEPT ![j] = "executing"]
             /\ UNCHANGED <<active, outcome>>
    <2>1. TypeOK'
      BY <1>1, <1>3, EmitType DEF Consistent, TypeOK, Phases, MakeLock
    <2>2. MapConsistent'
      BY <1>3, RuntimeAssumption DEF Consistent, TypeOK, MapConsistent, Tracked
    <2>3. HandlesConsistent'
      BY <1>3, RuntimeAssumption
      DEF Consistent, TypeOK, HandlesConsistent, LockHolders, MakeLock
    <2> QED  BY <2>1, <2>2, <2>3 DEF Consistent
  <1> QED  BY <1>2, <1>3 DEF StartWork

\* A job that is not tracked may be said to clear its entry: nothing changes.
LEMMA ClearNothing ==
    ASSUME Consistent, NEW j \in Jobs, phase[j] = "idle", UNCHANGED active
    PROVE  ClearActiveScope(j)
  <1> DEFINE m == ManagerOf[j]
             s == ScopeOf[j]
             entry == IF active[m][s] = j THEN NoJob ELSE active[m][s]
  <1>1. m \in Managers /\ s \in Scopes  BY RuntimeAssumption
  <1>2. active[m][s] # j
    BY <1>1, RuntimeAssumption DEF Consistent, MapConsistent
  <1>3. active = [active EXCEPT ![m] = [active[m] EXCEPT ![s] = active[m][s]]]
    BY <1>1 DEF Consistent, TypeOK
  <1> QED  BY <1>2, <1>3 DEF ClearActiveScope

\* A refused job leaves a lock only for a failing disk.
LEMMA BlockKeepsConsistent ==
    ASSUME Consistent, NEW j \in Jobs, NEW before \in Seq(Kinds), Block(j, before),
           phase[j] \in {"idle", "acquiring"},
           UNCHANGED holders \/ (phase[j] = "acquiring" /\ MayLeaveLock(j)),
           \/ ClearActiveScope(j)
           \/ phase[j] = "idle" /\ UNCHANGED active
    PROVE  Consistent'
  <1>1. Append(before, "failed") \in Seq(Kinds)  BY DEF Kinds, Terminal
  <1>2. emitted' \in [Jobs -> Seq(Kinds)]
    BY <1>1, EmitType DEF Block, Consistent
  <1>3. PICK result \in {"blocked", "rejected"} : Return(j, "done", result)
    BY DEF Block
  <1>4. ClearActiveScope(j)
    BY ClearNothing
  <1>5. /\ j \notin holders
        /\ UNCHANGED holders \/ (j \in FaultyDisk /\ j \in LongRunning /\ MakeLock(j))
    BY DEF Consistent, HandlesConsistent, MayLeaveLock
  <1>6. j \in holders' => j \in FaultyDisk
    BY <1>5
  <1> QED  BY <1>2, <1>3, <1>4, <1>5, <1>6, LeaveMap DEF Return, Outcomes

-----------------------------------------------------------------------------
(***************************************************************************)
(* Every action keeps the invariant.                                       *)
(***************************************************************************)
LEMMA InitConsistent == Init => Consistent
  <1> SUFFICES ASSUME Init PROVE Consistent  OBVIOUS
  <1>1. TypeOK  BY DEF Init, TypeOK, Phases, Outcomes
  <1>2. MapConsistent  BY RuntimeAssumption DEF Init, MapConsistent
  <1>3. HandlesConsistent  BY RuntimeAssumption DEF Init, HandlesConsistent
  <1> QED  BY <1>1, <1>2, <1>3 DEF Consistent

LEMMA ExecuteConsistent ==
    ASSUME Consistent, NEW j \in Jobs, Execute(j)
    PROVE  Consistent'
  <1>0. <<"queued">> \in Seq(Kinds)  BY DEF Kinds
  <1>1. CASE Emit(j, <<"queued">>) /\ Return(j, "done", "rejected") /\ UNCHANGED active
    <2>1. emitted' \in [Jobs -> Seq(Kinds)]
      BY <1>0, <1>1, EmitType DEF Consistent
    <2>2. ClearActiveScope(j)
      BY <1>1, ClearNothing DEF Execute
    <2>3. j \notin holders  BY DEF Execute, Consistent, HandlesConsistent
    <2> QED  BY <1>1, <2>1, <2>2, <2>3, LeaveMap DEF Execute, Return, Outcomes
  <1>2. CASE Block(j, <<"queued">>) /\ UNCHANGED active
    BY <1>0, <1>2, BlockKeepsConsistent DEF Execute
  <1>3. CASE /\ j \in LongRunning /\ Tracked(j) = NoJob /\ Track(j)
             /\ Emit(j, <<"queued">>)
             /\ phase' = [phase EXCEPT ![j] = "acquiring"] /\ UNCHANGED outcome
    <2>1. TypeOK'
      BY <1>0, <1>3, EmitType, RuntimeAssumption DEF Consistent, TypeOK, Phases, Track, Execute
    <2>2. MapConsistent'
      <3>1. \A m \in Managers, s \in Scopes :
              active'[m][s] = IF m = ManagerOf[j] /\ s = ScopeOf[j] THEN j ELSE active[m][s]
        BY <1>3, RuntimeAssumption DEF Track, Consistent, TypeOK
      <3>2. \A k \in Jobs : phase'[k] = IF k = j THEN "acquiring" ELSE phase[k]
        BY <1>3 DEF Consistent, TypeOK
      <3>3. \A k \in LongRunning :
              k # j /\ phase[k] \in {"acquiring", "executing"}
                => ~(ManagerOf[k] = ManagerOf[j] /\ ScopeOf[k] = ScopeOf[j])
        BY <1>3, RuntimeAssumption DEF Consistent, MapConsistent, Tracked
      <3>4. \A m \in Managers, s \in Scopes :
              active'[m][s] # NoJob =>
                LET k == active'[m][s]
                IN  /\ k \in LongRunning /\ ManagerOf[k] = m /\ ScopeOf[k] = s
                    /\ phase'[k] \in {"acquiring", "executing"}
        BY <1>3, <3>1, <3>2, RuntimeAssumption DEF Consistent, MapConsistent, TypeOK
      <3>5. \A k \in LongRunning :
              phase'[k] \in {"acquiring", "executing"}
                => active'[ManagerOf[k]][ScopeOf[k]] = k
        BY <3>1, <3>2, <3>3, RuntimeAssumption DEF Consistent, MapConsistent, Tracked
      <3> QED  BY <3>4, <3>5 DEF MapConsistent, Tracked
    <2>3. HandlesConsistent'
      BY <1>3, RuntimeAssumption DEF Execute, Consistent, TypeOK, HandlesConsistent
    <2> QED  BY <2>1, <2>2, <2>3 DEF Consistent
  <1>4. CASE j \notin LongRunning /\ StartWork(j, <<"queued">>)
    BY <1>0, <1>4, StartKeepsConsistent DEF Execute
  <1> QED  BY <1>1, <1>2, <1>3, <1>4 DEF Execute

LEMMA JobStepConsistent ==
    ASSUME Consistent, NEW j \in Jobs, JobStep(j)
    PROVE  Consistent'
  <1>0. << >> \in Seq(Kinds)  OBVIOUS
  <1>1. CASE LockGranted(j)
    BY <1>0, <1>1, StartKeepsConsistent DEF LockGranted, Consistent, HandlesConsistent
  <1>2. CASE LockDenied(j)
    BY <1>0, <1>2, BlockKeepsConsistent DEF LockDenied
  <1>3. CASE LockThrows(j)
    <2>1. /\ j \notin holders /\ j \in LongRunning /\ j \in FaultyDisk
          /\ UNCHANGED holders \/ MakeLock(j)
      BY <1>3 DEF LockThrows, MayLeaveLock, Consistent, HandlesConsistent
    <2> QED  BY <1>3, <2>1, LeaveMap DEF LockThrows, Return, Outcomes, Consistent, TypeOK
  <1>7. ASSUME NEW kind \in Reports, AdapterReports(j, kind)
        PROVE  Consistent'
    <2>1. <<kind>> \in Seq(Kinds)  BY DEF Kinds
    <2>2. TypeOK'
      BY <1>7, <2>1, EmitType DEF AdapterReports, Consistent, TypeOK
    <2> QED
      BY <1>7, <2>2 DEF AdapterReports, Consistent, MapConsistent, HandlesConsistent, Tracked
  <1>4. ASSUME NEW result \in Terminal, AdapterReturns(j, result)
        PROVE  Consistent'
    <2>1. <<result>> \in Seq(Kinds)  BY DEF Kinds
    <2>2. CASE FailInCatch(j, <<result>>)
      BY <1>4, <2>1, <2>2, FailKeepsConsistent DEF AdapterReturns
    <2>3. CASE Emit(j, <<result>>) /\ Settle(j, result)
      <3>1. emitted' \in [Jobs -> Seq(Kinds)]
        BY <2>1, <2>3, EmitType DEF Consistent
      <3>2. result \in Outcomes  BY DEF Outcomes, Terminal
      <3> DEFINE p == IF j \in holders' THEN "releasing" ELSE "done"
      <3>3. ClearActiveScope(j) /\ phase' = [phase EXCEPT ![j] = p]
              /\ outcome' = [outcome EXCEPT ![j] = result]
        BY <2>3 DEF Settle, Return
      <3>4. p \in {"releasing", "done"} /\ (j \in holders' => p = "releasing")
        OBVIOUS
      <3>5. UNCHANGED holders  BY <1>4 DEF AdapterReturns
      <3> HIDE DEF p
      <3> QED  BY <3>1, <3>2, <3>3, <3>4, <3>5, LeaveMap
    <2> QED  BY <1>4, <2>2, <2>3 DEF AdapterReturns, Conclude
  <1>5. CASE AdapterThrows(j)
    BY <1>0, <1>5, FailKeepsConsistent DEF AdapterThrows
  <1>6. CASE Released(j)
    <2>1. TypeOK'
      BY <1>6 DEF Released, Return, Consistent, TypeOK, Phases, Outcomes
    <2>2. MapConsistent'
      <3>1. phase[j] = "releasing" /\ phase' = [phase EXCEPT ![j] = "done"]
              /\ UNCHANGED active
        BY <1>6 DEF Released, Return
      <3> QED
        BY <3>1, RuntimeAssumption DEF Consistent, TypeOK, MapConsistent, Tracked
    <2>3. HandlesConsistent'
      BY <1>6, RuntimeAssumption DEF Released, Return, Consistent, TypeOK, HandlesConsistent
    <2> QED  BY <2>1, <2>2, <2>3 DEF Consistent
  <1> QED  BY <1>1, <1>2, <1>3, <1>4, <1>5, <1>6, <1>7 DEF JobStep

LEMMA CrashConsistent ==
    ASSUME Consistent, NEW m \in Managers, Crash(m)
    PROVE  Consistent'
  <1> DEFINE lost == {j \in Jobs : ManagerOf[j] = m /\ phase[j] \notin {"idle", "done", "dead"}}
  <1>1. /\ phase' = [j \in Jobs |-> IF j \in lost THEN "dead" ELSE phase[j]]
        /\ active' = [active EXCEPT ![m] = [s \in Scopes |-> NoJob]]
        /\ holders' = {j \in holders : ManagerOf[j] # m}
        /\ UNCHANGED <<emitted, outcome>>
    BY DEF Crash
  <1>2. TypeOK'
    BY <1>1 DEF Consistent, TypeOK, Phases
  <1>3. MapConsistent'
    BY <1>1, RuntimeAssumption DEF Consistent, TypeOK, MapConsistent, Tracked
  <1>4. HandlesConsistent'
    BY <1>1, RuntimeAssumption DEF Consistent, TypeOK, HandlesConsistent
  <1> QED  BY <1>2, <1>3, <1>4 DEF Consistent

\* The map, the handles and the phases of the jobs always agree.
THEOREM AlwaysConsistent == Spec => []Consistent
  <1>1. Consistent /\ [Next]_vars => Consistent'
    <2> SUFFICES ASSUME Consistent, [Next]_vars PROVE Consistent'  OBVIOUS
    <2>1. ASSUME NEW j \in Jobs, Execute(j) PROVE Consistent'
      BY <2>1, ExecuteConsistent
    <2>2. ASSUME NEW j \in Jobs, JobStep(j) PROVE Consistent'
      BY <2>2, JobStepConsistent
    <2>3. ASSUME NEW m \in Managers, Crash(m) PROVE Consistent'
      BY <2>3, CrashConsistent
    <2>4. CASE UNCHANGED vars
      BY <2>4 DEF vars, Consistent, TypeOK, MapConsistent, HandlesConsistent, Tracked
    <2> QED  BY <2>1, <2>2, <2>3, <2>4 DEF Next
  <1> QED  BY InitConsistent, <1>1, PTL DEF Spec

-----------------------------------------------------------------------------
(***************************************************************************)
(* What follows from it.                                                   *)
(***************************************************************************)

\* A manager's map alone keeps its commands of a scope apart, whatever the
\* locks on disk do.
THEOREM ManagersExclude == Spec => []ManagerExclusion
  <1>1. Consistent => ManagerExclusion
    BY DEF Consistent, MapConsistent, ManagerExclusion, Working, Tracked
  <1> QED  BY <1>1, AlwaysConsistent, PTL

\* Where the lock on disk excludes, so do all the managers together.
THEOREM SystemExcludes == Spec => []SystemExclusion
  <1>1. Consistent => SystemExclusion
    BY RuntimeAssumption DEF Consistent, HandlesConsistent, SystemExclusion, Working
  <1> QED  BY <1>1, AlwaysConsistent, PTL

\* No entry of the map outlives its call, whichever of the lock, the adapter, a
\* listener, the release or the process fails, and a lock on disk outlives it only
\* if its own files failed it.
THEOREM NothingEverLeaks == Spec => []NothingLeaks
  <1>1. Consistent => NothingLeaks
    BY DEF Consistent, MapConsistent, HandlesConsistent, NothingLeaks
  <1> QED  BY <1>1, AlwaysConsistent, PTL

\* A command never runs untracked or without its lock.
THEOREM WorkIsAlwaysGuarded == Spec => []WorkIsGuarded
  <1>1. Consistent => WorkIsGuarded
    BY RuntimeAssumption DEF Consistent, MapConsistent, HandlesConsistent, WorkIsGuarded, Working
  <1> QED  BY <1>1, AlwaysConsistent, PTL

\* On the sound scopes the managers implement the abstract lock: every step
\* begins one command with no other of its scope running, ends some, or is a
\* stutter.
THEOREM ManagersImplementMutex == Spec => ImplementsScopeMutex
  <1> DEFINE W == {j \in SoundJobs : Working(j)}
  <1>1. Init => Mutex!Init
    BY RuntimeAssumption DEF Init, Mutex!Init, SoundJobs, Working
  <1>2. Consistent /\ [Next]_vars => [Mutex!Next]_W
    <2> SUFFICES ASSUME Consistent, [Next]_vars PROVE [Mutex!Next]_W  OBVIOUS
    <2>1. ASSUME W' \subseteq W PROVE [Mutex!Next]_W
      <3>1. W' = W \ (W \ W')  BY <2>1
      <3>2. Mutex!End(W \ W')  BY <3>1 DEF Mutex!End
      <3> QED  BY <3>2 DEF Mutex!Next
    <2>2. ASSUME NEW j \in Jobs, LockGranted(j) PROVE [Mutex!Next]_W
      <3>1. \A k \in Jobs : k # j => phase'[k] = phase[k]
        BY <2>2 DEF LockGranted, StartWork, FailInCatch, Settle, Return, Consistent, TypeOK
      <3>2. CASE j \in W'
        <4>1. \A i \in W : ScopeOf[i] # ScopeOf[j]
          BY <2>2, <3>2
          DEF LockGranted, MakeLock, LockHolders, SoundJobs, Working, Consistent,
              HandlesConsistent
        <4>2. W' = W \cup {j}
          BY <2>2, <3>1, <3>2 DEF LockGranted, SoundJobs, Working
        <4>3. j \in SoundJobs  BY <3>2
        <4>4. Mutex!Begin(j)  BY <4>1, <4>2 DEF Mutex!Begin
        <4> QED  BY <4>3, <4>4 DEF Mutex!Next
      <3>3. CASE j \notin W'
        BY <3>1, <3>3, <2>1 DEF SoundJobs, Working
      <3> QED  BY <3>2, <3>3
    <2>3. ASSUME NEW j \in Jobs, Execute(j) PROVE W' \subseteq W
      BY <2>3
      DEF Execute, Block, StartWork, FailInCatch, Settle, Return, SoundJobs, Working,
          Consistent, TypeOK
    <2>4. ASSUME NEW j \in Jobs, JobStep(j), ~LockGranted(j) PROVE W' \subseteq W
      BY <2>4
      DEF JobStep, LockDenied, LockThrows, AdapterReports, AdapterReturns, AdapterThrows,
          Released, Conclude, Block, FailInCatch, Settle, Return, SoundJobs, Working, Consistent, TypeOK
    <2>5. ASSUME NEW m \in Managers, Crash(m) PROVE W' \subseteq W
      BY <2>5 DEF Crash, SoundJobs, Working, Consistent, TypeOK
    <2>6. CASE UNCHANGED vars
      BY <2>6, <2>1 DEF vars, SoundJobs, Working
    <2> QED  BY <2>1, <2>2, <2>3, <2>4, <2>5, <2>6 DEF Next
  <1> QED  BY <1>1, <1>2, AlwaysConsistent, PTL DEF Spec, ImplementsScopeMutex, Mutex!Spec

-----------------------------------------------------------------------------
(***************************************************************************)
(* What subscribers are told of a job, by where its call stands.           *)
(***************************************************************************)
\* What the adapter passes on comes after started and before any announced end.
Orderly(e) ==
    \A k \in 1..Len(e) : e[k] \in Reports =>
        k > 2 /\ e[2] = "started" /\ \A i \in 1..k : e[i] \notin Terminal

\* The events of a call that waits for the lock, and of one whose adapter works.
IsQueued(e) == Len(e) = 1 /\ e[1] = "queued"
IsStarted(e) ==
    /\ Len(e) >= 2 /\ e[1] = "queued" /\ e[2] = "started"
    /\ \A k \in 3..Len(e) : e[k] \in Reports

\* The events of a call that is over and returns a result.
Story(j, result, e) ==
    /\ e[1] = "queued" /\ result \in Terminal \cup {"blocked"}
    /\ result = "blocked" => Len(e) = 2 /\ e[2] = "failed"
    /\ result \in Terminal =>
          /\ Len(e) >= 3 /\ e[2] = "started" /\ e[Len(e)] = result
          /\ j \in FaultyListeners \/ \A k \in 3..Len(e) - 1 : e[k] \in Reports

\* The events of a call that stands at a phase.
Tells(j, p, result, e) ==
    /\ Orderly(e)
    /\ p = "idle" => e = << >>
    /\ p = "acquiring" => IsQueued(e)
    /\ p = "executing" => IsStarted(e)
    /\ p \in {"releasing", "done"} /\ result # "rejected" => Story(j, result, e)

Told == \A j \in Jobs : Tells(j, phase[j], outcome[j], emitted[j])

\* A step of a job tells nothing of the others.
LEMMA ToldOfOthers ==
    ASSUME Consistent, Told, NEW j \in Jobs, NEW p, NEW result, NEW e,
           phase' = [phase EXCEPT ![j] = p],
           outcome' = [outcome EXCEPT ![j] = result],
           emitted' = [emitted EXCEPT ![j] = e],
           Tells(j, p, result, e)
    PROVE  Told'
  BY DEF Consistent, TypeOK, Told, Tells, Story, IsQueued, IsStarted, Orderly

\* Events before a last one, appended to what was told.
LEMMA OneMore ==
    ASSUME NEW S, NEW s \in Seq(S), NEW before \in Seq(S), NEW k \in S
    PROVE  /\ s \o Append(before, k) = Append(s \o before, k)
           /\ s \o before \in Seq(S)
           /\ s \o <<k>> = Append(s, k) /\ << >> \o s = s /\ s \o << >> = s
  <1>1. <<k>> \in Seq(S)  OBVIOUS
  <1>2. s \o (before \o <<k>>) = (s \o before) \o <<k>>
    BY <1>1, ConcatAssociative
  <1>3. s \o before \in Seq(S)  BY ConcatProperties
  <1> QED  BY <1>2, <1>3, AppendIsConcat, ConcatEmptySeq

LEMMA AppendLater ==
    ASSUME NEW s \in Seq(Kinds), NEW before \in Seq(Kinds), NEW k \in Kinds
    PROVE  s \o Append(before, k) = Append(s \o before, k)
  BY OneMore

LEMMA TellingMore ==
    ASSUME NEW e \in Seq(Kinds), NEW k \in Kinds, NEW j
    PROVE  /\ Append(e, k) \in Seq(Kinds)
           /\ IsQueued(e) /\ k = "started" => IsStarted(Append(e, k))
           /\ IsQueued(e) /\ k = "failed" => Story(j, "blocked", Append(e, k))
           /\ IsStarted(e) /\ k \in Reports => IsStarted(Append(e, k))
           /\ IsStarted(e) /\ k \in Terminal => Story(j, k, Append(e, k))
           /\ IsStarted(e) /\ j \in FaultyListeners =>
                 Story(j, "failed", Append(Append(e, k), "failed"))
  <1> DEFINE f == Append(e, k)
             g == Append(f, "failed")
  <1>1. /\ f \in Seq(Kinds) /\ Len(f) = Len(e) + 1
        /\ \A i \in 1..Len(e) : f[i] = e[i]
        /\ f[Len(e) + 1] = k
    BY AppendProperties
  <1>2. "failed" \in Kinds  BY DEF Kinds, Terminal
  <1> HIDE DEF f
  <1>3. /\ Len(g) = Len(f) + 1
        /\ \A i \in 1..Len(f) : g[i] = f[i]
        /\ g[Len(f) + 1] = "failed"
    BY <1>1, <1>2, AppendProperties
  <1> HIDE DEF g
  <1>4. Len(e) \in Nat
    OBVIOUS
  <1>5. IsQueued(e) => Len(f) = 2 /\ f[1] = "queued" /\ f[2] = k
    BY <1>1 DEF IsQueued
  <1>6. IsStarted(e) => /\ Len(f) >= 3 /\ f[1] = "queued" /\ f[2] = "started"
                        /\ f[Len(f)] = k /\ \A i \in 3..Len(f) - 1 : f[i] \in Reports
    BY <1>1, <1>4 DEF IsStarted
  <1>7. IsStarted(e) => /\ Len(g) >= 4 /\ g[1] = "queued" /\ g[2] = "started"
                        /\ g[Len(g)] = "failed"
    BY <1>1, <1>3, <1>4, <1>6
  <1>8. IsQueued(e) /\ k = "started" => IsStarted(f)
    <2> SUFFICES ASSUME IsQueued(e), k = "started" PROVE IsStarted(f)
      OBVIOUS
    <2>1. Len(f) = 2 /\ f[1] = "queued" /\ f[2] = "started"
      BY <1>5
    <2>2. \A i \in 3..Len(f) : FALSE
      BY <2>1
    <2> QED  BY <2>1, <2>2 DEF IsStarted
  <1>9. IsQueued(e) /\ k = "failed" => Story(j, "blocked", f)
    BY <1>5 DEF Story, Terminal
  <1>10. IsStarted(e) /\ k \in Reports => IsStarted(f)
    BY <1>1, <1>4, <1>6 DEF IsStarted
  <1>11. IsStarted(e) /\ k \in Terminal => Story(j, k, f)
    BY <1>6 DEF Story, Terminal
  <1>12. IsStarted(e) /\ j \in FaultyListeners => Story(j, "failed", g)
    BY <1>7 DEF Story, Terminal
  <1> QED  BY <1>1, <1>8, <1>9, <1>10, <1>11, <1>12 DEF f, g

\* An event of the manager's own ends nothing that the adapter is still to say.
LEMMA InOrder ==
    ASSUME NEW e \in Seq(Kinds)
    PROVE  /\ IsQueued(e) \/ IsStarted(e) => Orderly(e)
           /\ \A k \in Kinds \ Reports : Orderly(e) => Orderly(Append(e, k))
  <1>1. IsQueued(e) \/ IsStarted(e) => Orderly(e)
    BY RuntimeAssumption DEF IsQueued, IsStarted, Orderly, Terminal
  <1>2. ASSUME NEW k \in Kinds \ Reports, Orderly(e)
        PROVE  Orderly(Append(e, k))
    <2> DEFINE f == Append(e, k)
    <2>1. /\ Len(f) = Len(e) + 1 /\ Len(e) \in Nat
          /\ \A i \in 1..Len(e) : f[i] = e[i]
          /\ f[Len(e) + 1] = k
      BY AppendProperties
    <2> HIDE DEF f
    <2>2. ASSUME NEW i \in 1..Len(f), f[i] \in Reports
          PROVE  i > 2 /\ f[2] = "started" /\ \A h \in 1..i : f[h] \notin Terminal
      <3>1. i \in 1..Len(e) /\ e[i] \in Reports
        BY <2>1, <2>2
      <3> QED  BY <1>2, <2>1, <3>1 DEF Orderly
    <2> QED  BY <2>2 DEF Orderly, f
  <1> QED  BY <1>1, <1>2

\* The catch clause tells of a failure, after what went before it.
LEMMA FailTold ==
    ASSUME Consistent, Told, NEW j \in Jobs, NEW before \in Seq(Kinds),
           FailInCatch(j, before),
           \/ IsStarted(emitted[j] \o before)
           \/ /\ j \in FaultyListeners
              /\ \E e \in Seq(Kinds), k \in Terminal :
                    IsStarted(e) /\ emitted[j] \o before = Append(e, k)
    PROVE  Told'
  <1>0. /\ emitted[j] \in Seq(Kinds) /\ emitted[j] \o before \in Seq(Kinds)
        /\ Terminal \subseteq Kinds \ Reports /\ "failed" \in Terminal
    BY OneMore, RuntimeAssumption DEF Consistent, TypeOK, Kinds, Terminal
  <1>1. PICK result \in {"failed", "rejected"} : Settle(j, result)
    BY DEF FailInCatch
  <1>2. PICK p \in {"releasing", "done"} : Return(j, p, result)
    BY <1>1 DEF Settle
  <1>3. PICK e : e = Append(emitted[j] \o before, "failed")
    OBVIOUS
  <1>4. Story(j, "failed", e)
    BY <1>0, <1>3, TellingMore
  <1>5. emitted[j] \o Append(before, "failed") = e
    BY <1>0, <1>3, AppendLater, ZenonT(30)
  <1>6. emitted' = [emitted EXCEPT ![j] = e]
    BY <1>5 DEF FailInCatch, Emit
  <1>7. Orderly(emitted[j] \o before)
    BY <1>0, InOrder
  <1>8. Orderly(e)
    BY <1>0, <1>3, <1>7, InOrder
  <1> QED  BY <1>2, <1>4, <1>6, <1>8, ToldOfOthers DEF Return, Tells

\* The work begins, when the job was told to be queued.
LEMMA StartTold ==
    ASSUME Consistent, Told, NEW j \in Jobs, NEW before \in Seq(Kinds), StartWork(j, before),
           IsQueued(emitted[j] \o before)
    PROVE  Told'
  <1>0. emitted[j] \in Seq(Kinds) /\ "started" \in Kinds
    BY DEF Consistent, TypeOK, Kinds
  <1>1. PICK s \in Seq(Kinds) : s = Append(before, "started")
    BY <1>0, TellingMore
  <1>2. emitted[j] \o s = Append(emitted[j] \o before, "started")
    BY <1>0, <1>1, AppendLater, ZenonT(30)
  <1>3. IsStarted(emitted[j] \o s)
    BY <1>0, <1>2, OneMore, TellingMore
  <1>4. CASE FailInCatch(j, s)
    BY <1>3, <1>4, FailTold
  <1>5. CASE Emit(j, s) /\ phase' = [phase EXCEPT ![j] = "executing"]
             /\ UNCHANGED <<active, outcome>>
    <2>1. outcome' = [outcome EXCEPT ![j] = outcome[j]]
      BY <1>5 DEF Consistent, TypeOK
    <2>2. Orderly(emitted[j] \o s)
      BY <1>0, <1>1, <1>3, OneMore, InOrder
    <2> QED  BY <1>3, <1>5, <2>1, <2>2, ToldOfOthers DEF Emit, Tells
  <1> QED  BY <1>1, <1>4, <1>5 DEF StartWork

\* A refused job is told of as failed, after it was queued.
LEMMA BlockTold ==
    ASSUME Consistent, Told, NEW j \in Jobs, NEW before \in Seq(Kinds), Block(j, before),
           IsQueued(emitted[j] \o before)
    PROVE  Told'
  <1>0. /\ emitted[j] \in Seq(Kinds) /\ emitted[j] \o before \in Seq(Kinds)
        /\ "failed" \in Kinds \ Reports
    BY OneMore, RuntimeAssumption DEF Consistent, TypeOK, Kinds, Terminal
  <1>1. PICK result \in {"blocked", "rejected"} : Return(j, "done", result)
    BY DEF Block
  <1>2. PICK e : e = Append(emitted[j] \o before, "failed")
    OBVIOUS
  <1>3. Story(j, "blocked", e)
    BY <1>0, <1>2, OneMore, TellingMore
  <1>4. emitted[j] \o Append(before, "failed") = e
    BY <1>0, <1>2, AppendLater, ZenonT(30)
  <1>5. emitted' = [emitted EXCEPT ![j] = e]
    BY <1>4 DEF Block, Emit
  <1>6. Orderly(e)
    BY <1>0, <1>2, InOrder
  <1> QED  BY <1>1, <1>3, <1>5, <1>6, ToldOfOthers DEF Return, Tells

LEMMA ExecuteTold ==
    ASSUME Consistent, Told, NEW j \in Jobs, Execute(j)
    PROVE  Told'
  <1> DEFINE first == <<"queued">>
  <1>0. first \in Seq(Kinds) /\ IsQueued(first)
    BY DEF Kinds, IsQueued
  <1>8. Orderly(first)
    BY <1>0, InOrder
  <1>1. phase[j] = "idle" /\ emitted[j] = << >>
    BY DEF Execute, Told, Tells
  <1>2. Execute(j) => \/ Emit(j, first) /\ Return(j, "done", "rejected")
                      \/ Block(j, first)
                      \/ /\ Emit(j, first) /\ phase' = [phase EXCEPT ![j] = "acquiring"]
                         /\ UNCHANGED outcome
                      \/ StartWork(j, first)
    BY DEF Execute
  <1> HIDE DEF first
  <1>3. emitted[j] \o first = first
    BY <1>0, <1>1, ConcatEmptySeq
  <1>4. CASE Emit(j, first) /\ Return(j, "done", "rejected")
    BY <1>3, <1>4, <1>8, ToldOfOthers DEF Emit, Return, Tells
  <1>5. CASE Block(j, first)
    BY <1>0, <1>3, <1>5, BlockTold
  <1>6. CASE /\ Emit(j, first) /\ phase' = [phase EXCEPT ![j] = "acquiring"]
             /\ UNCHANGED outcome
    <2>1. outcome' = [outcome EXCEPT ![j] = outcome[j]]
      BY <1>6 DEF Consistent, TypeOK
    <2> QED  BY <1>0, <1>3, <1>6, <1>8, <2>1, ToldOfOthers DEF Emit, Tells
  <1>7. CASE StartWork(j, first)
    BY <1>0, <1>3, <1>7, StartTold
  <1> QED  BY <1>2, <1>4, <1>5, <1>6, <1>7

LEMMA JobStepTold ==
    ASSUME Consistent, Told, NEW j \in Jobs, JobStep(j)
    PROVE  Told'
  <1>0. Tells(j, phase[j], outcome[j], emitted[j]) /\ emitted[j] \in Seq(Kinds)
    BY DEF Told, Consistent, TypeOK
  <1>1. << >> \in Seq(Kinds) /\ emitted[j] \o << >> = emitted[j]
    BY <1>0, ConcatEmptySeq
  <1>2. CASE LockGranted(j)
    BY <1>0, <1>1, <1>2, StartTold DEF LockGranted, Tells
  <1>3. CASE LockDenied(j)
    BY <1>0, <1>1, <1>3, BlockTold DEF LockDenied, Tells
  <1>4. CASE LockThrows(j)
    <2>1. emitted' = [emitted EXCEPT ![j] = emitted[j]]
      BY <1>4 DEF LockThrows, Consistent, TypeOK
    <2> QED  BY <1>0, <1>4, <2>1, ToldOfOthers DEF LockThrows, Return, Tells
  <1>5. ASSUME NEW result \in Terminal, AdapterReturns(j, result)
        PROVE  Told'
    <2>1. IsStarted(emitted[j])
      BY <1>0, <1>5 DEF AdapterReturns, Tells
    <2>2. result \in Kinds \ Reports /\ <<result>> \in Seq(Kinds)
          /\ emitted[j] \o <<result>> = Append(emitted[j], result)
      BY <1>0, OneMore, RuntimeAssumption DEF Kinds, Terminal
    <2>3. CASE FailInCatch(j, <<result>>) /\ j \in FaultyListeners
      BY <1>0, <2>1, <2>2, <2>3, FailTold
    <2>4. CASE Emit(j, <<result>>) /\ Settle(j, result)
      <3>1. PICK p \in {"releasing", "done"} : Return(j, p, result)
        BY <2>4 DEF Settle
      <3>2. Story(j, result, Append(emitted[j], result))
        BY <1>0, <2>1, <2>2, TellingMore
      <3>3. Orderly(Append(emitted[j], result))
        BY <1>0, <2>2, InOrder DEF Tells
      <3> QED  BY <2>2, <2>4, <3>1, <3>2, <3>3, ToldOfOthers DEF Emit, Return, Tells
    <2> QED  BY <1>5, <2>3, <2>4 DEF AdapterReturns, Conclude
  <1>6. CASE AdapterThrows(j)
    BY <1>0, <1>1, <1>6, FailTold DEF AdapterThrows, Tells
  <1>7. CASE Released(j)
    <2>1. PICK result \in {outcome[j], "rejected"} : Return(j, "done", result)
      BY <1>7 DEF Released
    <2>2. emitted' = [emitted EXCEPT ![j] = emitted[j]]
      BY <1>7 DEF Released, Consistent, TypeOK
    <2>3. Tells(j, "done", result, emitted[j])
      BY <1>0, <1>7, <2>1 DEF Released, Tells
    <2> QED  BY <2>1, <2>2, <2>3, ToldOfOthers DEF Return
  <1>8. ASSUME NEW kind \in Reports, AdapterReports(j, kind)
        PROVE  Told'
    <2>1. /\ kind \in Kinds /\ IsStarted(emitted[j])
          /\ emitted[j] \o <<kind>> = Append(emitted[j], kind)
      BY <1>0, <1>8, OneMore DEF AdapterReports, Tells, Kinds
    <2>2. IsStarted(Append(emitted[j], kind)) /\ Append(emitted[j], kind) \in Seq(Kinds)
      BY <1>0, <1>8, <2>1, TellingMore
    <2>3. Orderly(Append(emitted[j], kind))
      BY <2>2, InOrder
    <2>4. /\ phase' = [phase EXCEPT ![j] = phase[j]]
          /\ outcome' = [outcome EXCEPT ![j] = outcome[j]]
      BY <1>8 DEF AdapterReports, Consistent, TypeOK
    <2> QED  BY <1>8, <2>1, <2>2, <2>3, <2>4, ToldOfOthers DEF AdapterReports, Emit, Tells
  <1> QED  BY <1>2, <1>3, <1>4, <1>5, <1>6, <1>7, <1>8 DEF JobStep

LEMMA ToldStep == Consistent /\ Told /\ [Next]_vars => Told'
  <1> SUFFICES ASSUME Consistent, Told, [Next]_vars PROVE Told'  OBVIOUS
  <1>1. ASSUME NEW m \in Managers, Crash(m) PROVE Told'
    <2> SUFFICES ASSUME NEW i \in Jobs
                 PROVE  Tells(i, phase[i], outcome[i], emitted[i])'
      BY DEF Told
    <2>1. /\ phase'[i] = phase[i] \/ phase'[i] = "dead"
          /\ emitted'[i] = emitted[i] /\ outcome'[i] = outcome[i]
      BY <1>1 DEF Crash
    <2> QED  BY <2>1 DEF Told, Tells, Story, IsQueued, IsStarted, Orderly
  <1>2. CASE UNCHANGED vars
    BY <1>2 DEF vars, Told, Tells, Story, IsQueued, IsStarted, Orderly
  <1> QED  BY <1>1, <1>2, ExecuteTold, JobStepTold DEF Next

\* What execute returns is what subscribers were told last; the manager announces
\* no other end unless a listener threw, and the adapter's own events lie between
\* started and that end, however lock, adapter, listeners, release and process fail.
THEOREM EventsAlwaysTell == Spec => []EventsTellOutcome
  <1>1. Init => Told  BY DEF Init, Told, Tells, Orderly
  <1>2. ASSUME Consistent, Told, NEW j \in Jobs, phase[j] = "done", outcome[j] # "rejected"
        PROVE  /\ Last(j) = IF outcome[j] = "blocked" THEN "failed" ELSE outcome[j]
               /\ j \notin FaultyListeners =>
                     \A k \in 1..Len(emitted[j]) - 1 : emitted[j][k] \notin Terminal
               /\ outcome[j] = "blocked" => \A k \in 1..Len(emitted[j]) : emitted[j][k] # "started"
    <2>1. PICK e, result : e = emitted[j] /\ e \in Seq(Kinds) /\ result = outcome[j]
      BY <1>2 DEF Consistent, TypeOK
    <2>2. Story(j, result, e)
      BY <1>2, <2>1 DEF Told, Tells
    <2>3. /\ e[Len(e)] = IF result = "blocked" THEN "failed" ELSE result
          /\ j \notin FaultyListeners => \A k \in 1..Len(e) - 1 : e[k] \notin Terminal
          /\ result = "blocked" => \A k \in 1..Len(e) : e[k] # "started"
      <3>1. CASE result = "blocked"
        <4>1. Len(e) = 2 /\ e[1] = "queued" /\ e[2] = "failed"
          BY <2>2, <3>1 DEF Story
        <4> QED  BY <3>1, <4>1 DEF Terminal
      <3>2. CASE result \in Terminal
        <4>1. e[1] = "queued" /\ e[2] = "started" /\ e[Len(e)] = result
          BY <2>2, <3>2 DEF Story
        <4>2. j \notin FaultyListeners => \A k \in 3..Len(e) - 1 : e[k] \in Reports
          BY <2>2, <3>2 DEF Story
        <4>3. Len(e) \in Nat
          BY <2>1
        <4>4. \A k \in 1..Len(e) - 1 : k = 1 \/ k = 2 \/ k \in 3..Len(e) - 1
          BY <4>3
        <4>5. j \notin FaultyListeners => \A k \in 1..Len(e) - 1 : e[k] \notin Terminal
          BY <4>1, <4>2, <4>4, RuntimeAssumption DEF Terminal
        <4> QED  BY <3>2, <4>1, <4>5 DEF Terminal
      <3> QED  BY <2>2, <3>1, <3>2 DEF Story
    <2> QED  BY <2>1, <2>3 DEF Last
  <1>3. Told => \A j \in Jobs : Orderly(emitted[j])
    BY DEF Told, Tells
  <1>4. Consistent /\ Told => EventsTellOutcome
    BY <1>2, <1>3 DEF EventsTellOutcome, Orderly
  <1> QED  BY <1>1, <1>4, ToldStep, AlwaysConsistent, PTL DEF Spec

-----------------------------------------------------------------------------
(***************************************************************************)
(* The desktop.                                                            *)
(***************************************************************************)

\* A command that is running works on the directory it named.
TargetIsNamed ==
    \A j \in LongRunning :
        phase[j] = "executing" /\ DirectoryOf[j] # NoDirectory => target[j] = DirectoryOf[j]

\* Of the commands that name their directory, no two run on one.
NamedExclusion ==
    \A i, j \in Jobs :
        /\ Working(i) /\ DirectoryOf[i] # NoDirectory
        /\ Working(j) /\ DirectoryOf[j] # NoDirectory
        /\ target[i] = target[j] /\ target[i] \in SoundScopes
        => i = j

(***************************************************************************)
(* The desktop runs the managers.                                          *)
(***************************************************************************)
LEMMA DesktopStepIsStep == [DesktopNext]_desktopVars => [Next]_vars
  <1> SUFFICES ASSUME [DesktopNext]_desktopVars PROVE [Next]_vars  OBVIOUS
  <1>1. ASSUME NEW j \in Jobs, DesktopExecute(j) PROVE Next
    BY <1>1 DEF DesktopExecute, Next
  <1>2. ASSUME NEW j \in Jobs,
               \/ LockAnswers(j) \/ EccReports(j)
               \/ AdapterSucceeds(j) \/ AdapterFails(j) \/ DesktopReleased(j)
        PROVE  JobStep(j)
    BY <1>2
    DEF LockAnswers, EccReports, AdapterSucceeds, AdapterFails, DesktopReleased, JobStep, Terminal
  <1>3. ASSUME NEW m \in Managers, DesktopCrash(m) PROVE Next
    BY <1>3 DEF DesktopCrash, Next
  <1>4. CASE UNCHANGED desktopVars
    BY <1>4 DEF desktopVars
  <1> QED  BY <1>1, <1>2, <1>3, <1>4 DEF DesktopNext, Next

\* With its adapters the desktop takes only the steps of the managers: scopes,
\* directories and the active workspace take nothing away from them.
THEOREM DesktopRunsManagers == DesktopSpec => Spec
  <1>1. DesktopInit => Init  BY DEF DesktopInit
  <1> QED  BY <1>1, DesktopStepIsStep, PTL DEF DesktopSpec, Spec

\* So what is promised of the managers holds of the desktop.
THEOREM DesktopKeepsPromises ==
    DesktopSpec => /\ [](ManagerExclusion /\ NothingLeaks /\ WorkIsGuarded /\ EventsTellOutcome)
                   /\ ImplementsScopeMutex
  BY DesktopRunsManagers, ManagersExclude, NothingEverLeaks, WorkIsAlwaysGuarded,
     EventsAlwaysTell, ManagersImplementMutex, PTL

(***************************************************************************)
(* The directory a command works on.                                       *)
(***************************************************************************)
\* Only the answer of the lock, or execute itself, begins the work.
LEMMA OthersDoNotBegin ==
    ASSUME Consistent, NEW j \in Jobs,
           \/ \E kind \in Reports : AdapterReports(j, kind)
           \/ \E result \in Terminal : AdapterReturns(j, result)
           \/ AdapterThrows(j) \/ Released(j)
    PROVE  \A k \in Jobs : phase'[k] = "executing" => phase[k] = "executing"
  BY DEF AdapterReports, AdapterReturns, AdapterThrows, Released, Conclude, FailInCatch, Settle, Return,
         Consistent, TypeOK

LEMMA NamedIsTarget ==
    ASSUME NEW j \in LongRunning, DirectoryOf[j] # NoDirectory
    PROVE  DirectoryFromRequest(j) = DirectoryOf[j]
  <1>1. CommandOf[j] \in longRunningCommands
    BY DesktopAssumption
  <1>2. CommandOf[j] \notin localCommands
    BY <1>1 DEF longRunningCommands, localCommands
  <1> QED  BY <1>2 DEF DirectoryFromRequest

LEMMA TargetStep ==
    Consistent /\ TargetIsNamed /\ [DesktopNext]_desktopVars => TargetIsNamed'
  <1> SUFFICES ASSUME Consistent, TargetIsNamed, [DesktopNext]_desktopVars,
                      NEW j \in LongRunning,
                      phase'[j] = "executing", DirectoryOf[j] # NoDirectory
               PROVE  target'[j] = DirectoryOf[j]
    BY DEF TargetIsNamed
  <1>0. j \in Jobs  BY RuntimeAssumption
  <1>1. CASE SetTarget
    <2>1. target'[j] = IF Begins(j) THEN DirectoryOf[j] ELSE target[j]
      BY <1>0, <1>1, NamedIsTarget DEF SetTarget
    <2> QED  BY <2>1 DEF Begins, TargetIsNamed
  <1>2. CASE target' = target /\ phase[j] = "executing"
    BY <1>2 DEF TargetIsNamed
  <1>3. ASSUME NEW k \in Jobs,
               \/ EccReports(k) \/ AdapterSucceeds(k) \/ AdapterFails(k)
               \/ DesktopReleased(k)
        PROVE  target' = target /\ phase[j] = "executing"
    BY <1>0, <1>3, OthersDoNotBegin
    DEF EccReports, AdapterSucceeds, AdapterFails, DesktopReleased, Terminal
  <1>4. ASSUME NEW m \in Managers, DesktopCrash(m)
        PROVE  target' = target /\ phase[j] = "executing"
    BY <1>0, <1>4 DEF DesktopCrash, Crash
  <1>5. CASE UNCHANGED desktopVars
    BY <1>2, <1>5 DEF desktopVars, vars
  <1> QED  BY <1>1, <1>2, <1>3, <1>4, <1>5 DEF DesktopNext, DesktopExecute, LockAnswers

\* Long-running commands that name their directory never overlap on it, in one
\* manager or in two, if the directory's lock excludes.
THEOREM NamedCommandsExclude == DesktopSpec => []NamedExclusion
  <1>1. DesktopInit => TargetIsNamed
    BY RuntimeAssumption DEF DesktopInit, Init, TargetIsNamed
  <1>2. SystemExclusion /\ TargetIsNamed => NamedExclusion
    BY DesktopAssumption DEF SystemExclusion, TargetIsNamed, NamedExclusion, Working, WorkspaceScope
  <1> QED  BY <1>1, <1>2, TargetStep, DesktopRunsManagers, AlwaysConsistent, SystemExcludes, PTL
           DEF DesktopSpec

\* If every long-running command names its directory, none overlap on one; a
\* command that does not works on the active workspace under the global scope,
\* and there desktop_runtime_fallback shows an overlap.
THEOREM WorkspacesExclude ==
    ASSUME \A j \in LongRunning : DirectoryOf[j] # NoDirectory
    PROVE  DesktopSpec => []WorkspaceExclusion
  <1>1. NamedExclusion => WorkspaceExclusion
    BY DEF NamedExclusion, WorkspaceExclusion, Working
  <1> QED  BY <1>1, NamedCommandsExclude, PTL
==============================================================================
