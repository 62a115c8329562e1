------------------------ MODULE SharedRuntimeManager ------------------------
(***************************************************************************)
(* SharedRuntimeManager.execute of electron/services/runtime: the life of  *)
(* a job, from its queued event to its terminal event, in several managers *)
(* (one per Electron process) that share the scope locks on disk.          *)
(*                                                                         *)
(* JavaScript runs a manager's code without interruption between two       *)
(* awaits, so an action is one such segment: Execute up to the await of    *)
(* acquireRuntimeLock, then what follows the lock's answer up to the await *)
(* of the adapter, then each event that the adapter passes on, then what   *)
(* follows the adapter's answer up to the await of release, then the       *)
(* return.                                                                 *)
(***************************************************************************)
EXTENDS Naturals, Sequences, FiniteSets

CONSTANTS
    Jobs, Managers, Scopes,
    NoJob,
    ManagerOf,       \* the manager a job is submitted to
    ScopeOf,         \* options.resolveScope of the job's request
    LongRunning,     \* the jobs for which options.isLongRunning
    SoundScopes,     \* the scopes whose lock on disk keeps two holders apart
    FaultyListeners, \* the jobs whose events a listener may throw on
    FaultyDisk,      \* the jobs for which a file operation on their lock may fail
    ReportingJobs,   \* the jobs whose adapter passes on events of its own
    Reports,         \* the kinds of those events
    MaxReports       \* bound: how many of them a job has

ASSUME RuntimeAssumption ==
    /\ NoJob \notin Jobs
    /\ ManagerOf \in [Jobs -> Managers]
    /\ ScopeOf \in [Jobs -> Scopes]
    /\ LongRunning \subseteq Jobs
    /\ SoundScopes \subseteq Scopes
    /\ FaultyListeners \subseteq Jobs /\ FaultyDisk \subseteq Jobs
    /\ ReportingJobs \subseteq Jobs
    /\ Reports \cap {"queued", "started", "completed", "failed", "cancelled"} = {}
    /\ MaxReports \in Nat

VARIABLES
    phase,     \* where the job's execute call stands
    active,    \* activeLongRunningJobsByScope of each manager
    holders,   \* the jobs whose lock is on disk and names a process that lives
    emitted,   \* the kinds of the events emitted for the job, in order; a
               \* subscriber sees types only, and takes a report for its namesake
    outcome    \* what execute returned, or is about to return

vars == <<phase, active, holders, emitted, outcome>>

Phases == {"idle", "acquiring", "executing", "releasing", "done", "dead"}
Terminal == {"completed", "failed", "cancelled"}
Kinds == Terminal \cup {"queued", "started"} \cup Reports
Outcomes == Terminal \cup {"none", "blocked", "rejected"}

TypeOK ==
    /\ phase \in [Jobs -> Phases]
    /\ active \in [Managers -> [Scopes -> Jobs \cup {NoJob}]]
    /\ holders \subseteq Jobs
    /\ emitted \in [Jobs -> Seq(Kinds)]
    /\ outcome \in [Jobs -> Outcomes]

Init ==
    /\ phase = [j \in Jobs |-> "idle"]
    /\ active = [m \in Managers |-> [s \in Scopes |-> NoJob]]
    /\ holders = {}
    /\ emitted = [j \in Jobs |-> << >>]
    /\ outcome = [j \in Jobs |-> "none"]

(***************************************************************************)
(* Pieces of execute.                                                      *)
(***************************************************************************)
TrackedNowhere(j) == NoJob   \* mutant: the map is not consulted

Tracked(j) == active[ManagerOf[j]][ScopeOf[j]]
TrackNothing(j) == UNCHANGED active   \* mutant: the job is not entered

Track(j) == active' = [active EXCEPT ![ManagerOf[j]][ScopeOf[j]] = j]

ClearNever(j) == UNCHANGED active   \* mutant: the entry stays

\* clearActiveScope: only the job that is tracked clears the entry.
ClearActiveScope(j) ==
    active' = [active EXCEPT ![ManagerOf[j]][ScopeOf[j]] = IF @ = j THEN NoJob ELSE @]

Emit(j, kinds) == emitted' = [emitted EXCEPT ![j] = @ \o kinds]

Return(j, p, result) ==
    /\ phase' = [phase EXCEPT ![j] = p]
    /\ outcome' = [outcome EXCEPT ![j] = result]

\* The finally clause: clear the map, then await the release of the handle, if
\* there is one.
Settle(j, result) ==
    /\ ClearActiveScope(j)
    /\ Return(j, IF j \in holders' THEN "releasing" ELSE "done", result)

\* The catch clause: emit failed; a listener that throws rejects the call.
FailInCatch(j, before) ==
    /\ Emit(j, Append(before, "failed"))
    /\ \/ Settle(j, "failed")
       \/ j \in FaultyListeners /\ Settle(j, "rejected")

\* emit(started), then adapter.execute.
StartWork(j, before) ==
    \/ /\ Emit(j, Append(before, "started"))
       /\ phase' = [phase EXCEPT ![j] = "executing"]
       /\ UNCHANGED <<active, outcome>>
    \/ j \in FaultyListeners /\ FailInCatch(j, Append(before, "started"))

\* Mutant: the event does not look at the result.
ConcludeCompleted(j, result) ==
    \/ Emit(j, <<"completed">>) /\ Settle(j, result)
    \/ j \in FaultyListeners /\ FailInCatch(j, <<result>>)

\* emit of the terminal event; if a listener throws on it, the catch clause
\* emits a failed event as well.
Conclude(j, result) ==
    \/ Emit(j, <<result>>) /\ Settle(j, result)
    \/ j \in FaultyListeners /\ FailInCatch(j, <<result>>)

\* failBlockedRequest.
Block(j, before) ==
    /\ Emit(j, Append(before, "failed"))
    /\ \/ Return(j, "done", "blocked")
       \/ j \in FaultyListeners /\ Return(j, "done", "rejected")

(***************************************************************************)
(* The segments of execute.                                                *)
(***************************************************************************)
Execute(j) ==
    /\ phase[j] = "idle"
    /\ UNCHANGED holders
    /\ \/ /\ j \in FaultyListeners
          /\ Emit(j, <<"queued">>) /\ Return(j, "done", "rejected")
          /\ UNCHANGED active
       \/ /\ j \in LongRunning /\ Tracked(j) # NoJob
          /\ Block(j, <<"queued">>)
          /\ UNCHANGED active
       \/ /\ j \in LongRunning /\ Tracked(j) = NoJob
          /\ Track(j)
          /\ Emit(j, <<"queued">>)
          /\ phase' = [phase EXCEPT ![j] = "acquiring"]
          /\ UNCHANGED outcome
       \/ j \notin LongRunning /\ StartWork(j, <<"queued">>)

LockHolders(s) == {j \in holders : ScopeOf[j] = s}

\* The lock's directory is made where there is none.
MakeLock(j) ==
    /\ ScopeOf[j] \in SoundScopes => LockHolders(ScopeOf[j]) = {}
    /\ holders' = holders \cup {j}

\* A call that gets no handle may leave a lock: its owner was written and could not
\* be read back, or neither be protected nor removed.
MayLeaveLock(j) == UNCHANGED holders \/ (j \in FaultyDisk /\ MakeLock(j))

\* Mutant: the lock is not needed.
LockNotNeeded(j) == phase[j] = "acquiring" /\ UNCHANGED holders /\ StartWork(j, << >>)

LockGranted(j) ==
    /\ phase[j] = "acquiring"
    /\ MakeLock(j)
    /\ StartWork(j, << >>)

LockDenied(j) ==
    /\ phase[j] = "acquiring"
    /\ ClearActiveScope(j)
    /\ Block(j, << >>)
    /\ MayLeaveLock(j)

\* acquireRuntimeLock throws: the entry is cleared and the error rethrown.
LockThrows(j) ==
    /\ phase[j] = "acquiring" /\ j \in FaultyDisk
    /\ ClearActiveScope(j)
    /\ Return(j, "done", "rejected")
    /\ MayLeaveLock(j)
    /\ UNCHANGED emitted

\* The adapter calls context.emit.  A listener that throws on it throws into the
\* adapter, which goes on, throws in its turn (AdapterThrows) or never answers.
AdapterReports(j, kind) ==
    /\ phase[j] = "executing" /\ j \in ReportingJobs
    /\ Len(emitted[j]) < 2 + MaxReports
    /\ Emit(j, <<kind>>)
    /\ UNCHANGED <<phase, active, holders, outcome>>

\* adapter.execute returns a result, whose event is completed, failed or
\* cancelled, or throws.
AdapterReturns(j, result) ==
    /\ phase[j] = "executing"
    /\ UNCHANGED holders
    /\ Conclude(j, result)

AdapterThrows(j) ==
    /\ phase[j] = "executing"
    /\ UNCHANGED holders
    /\ FailInCatch(j, << >>)

\* release removes the directory if it still reads its own name in it.  When the read
\* fails it returns with the lock in place; when rm fails it throws, with owner.json
\* removed or not.
Released(j) ==
    /\ phase[j] = "releasing"
    /\ \/ holders' = holders \ {j} /\ Return(j, "done", outcome[j])
       \/ j \in FaultyDisk /\ UNCHANGED holders /\ Return(j, "done", outcome[j])
       \/ /\ j \in FaultyDisk /\ holders' \in {holders, holders \ {j}}
          /\ Return(j, "done", "rejected")
    /\ UNCHANGED <<active, emitted>>

\* The process of a manager dies with its map and all its calls; its locks on
\* disk, those left behind too, no longer count, and a new process starts with
\* an empty map.
Crash(m) ==
    LET lost == {j \in Jobs : ManagerOf[j] = m /\ phase[j] \notin {"idle", "done", "dead"}}
    IN  /\ phase' = [j \in Jobs |-> IF j \in lost THEN "dead" ELSE phase[j]]
        /\ active' = [active EXCEPT ![m] = [s \in Scopes |-> NoJob]]
        /\ holders' = {j \in holders : ManagerOf[j] # m}
        /\ UNCHANGED <<emitted, outcome>>

JobStep(j) ==
    \/ LockGranted(j) \/ LockDenied(j) \/ LockThrows(j)
    \/ \E kind \in Reports : AdapterReports(j, kind)
    \/ \E result \in Terminal : AdapterReturns(j, result)
    \/ AdapterThrows(j) \/ Released(j)

Next ==
    \/ \E j \in Jobs : Execute(j) \/ JobStep(j)
    \/ \E m \in Managers : Crash(m)

Spec == Init /\ [][Next]_vars

(***************************************************************************)
(* Properties.                                                             *)
(***************************************************************************)
Working(j) == j \in LongRunning /\ phase[j] = "executing"

\* A manager never runs two long-running commands of one scope at once, even
\* when the locks on disk fail to keep them apart: its map alone suffices.
ManagerExclusion ==
    \A i, j \in Jobs :
        /\ Working(i) /\ Working(j)
        /\ ManagerOf[i] = ManagerOf[j] /\ ScopeOf[i] = ScopeOf[j]
        => i = j

\* Where the lock excludes, no two managers run two commands of a scope either.
SystemExclusion ==
    \A i, j \in Jobs :
        /\ Working(i) /\ Working(j)
        /\ ScopeOf[i] = ScopeOf[j] /\ ScopeOf[i] \in SoundScopes
        => i = j

\* The map never keeps an entry of a call that is over, whichever of the lock, the
\* adapter, a listener, the release or the process fails: it would refuse every
\* later command of the scope.  A lock outlives its call, refusing them until its
\* process ends, only if the file system failed that call: neither an adapter nor a
\* listener that throws can leave one.
NothingLeaks ==
    /\ \A m \in Managers, s \in Scopes :
         LET j == active[m][s]
         IN  j # NoJob => /\ ManagerOf[j] = m /\ ScopeOf[j] = s
                          /\ phase[j] \in {"acquiring", "executing"}
    /\ \A j \in holders : \/ phase[j] \in {"executing", "releasing"}
                          \/ phase[j] = "done" /\ j \in FaultyDisk

\* A command runs only while its job is tracked and holds the scope's lock, so
\* isScopeActive reports the scope as active for as long as the command runs.
WorkIsGuarded == \A j \in Jobs : Working(j) => Tracked(j) = j /\ j \in holders

Last(j) == emitted[j][Len(emitted[j])]

\* What execute returns is what the last event says, though the adapter may have
\* passed on completed, failed or cancelled events before, in which a subscriber
\* cannot see that the call goes on.  The manager itself announces one end, unless a
\* listener threw; a blocked job is never told of as started; and whatever fails,
\* the adapter's events come after started and before any announced end.
EventsTellOutcome ==
    \A j \in Jobs :
        LET e == emitted[j] IN
        /\ \A k \in 1..Len(e) : e[k] \in Reports =>
              k > 2 /\ e[2] = "started" /\ \A i \in 1..k : e[i] \notin Terminal
        /\ phase[j] = "done" /\ outcome[j] # "rejected" =>
              /\ Last(j) = IF outcome[j] = "blocked" THEN "failed" ELSE outcome[j]
              /\ j \notin FaultyListeners => \A k \in 1..Len(e) - 1 : e[k] \notin Terminal
              /\ outcome[j] = "blocked" => \A k \in 1..Len(e) : e[k] # "started"

\* The refinement mapping to the abstract specification of a scope lock.
SoundJobs == {j \in Jobs : ScopeOf[j] \in SoundScopes}
Mutex == INSTANCE ScopeMutex WITH Jobs <- SoundJobs,
                                  working <- {j \in SoundJobs : Working(j)}

\* On the scopes whose lock excludes, the managers implement the promise: a
\* command begins only when no other of its scope is running.
ImplementsScopeMutex == Mutex!Spec
=============================================================================
