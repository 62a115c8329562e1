---------------------------- MODULE RuntimeLocks ----------------------------
(***************************************************************************)
(* The directory locks of electron/services/runtime/runtimeLocks.ts for    *)
(* one scope.  A lock is a directory <name>.lock holding owner.json; jobs  *)
(* of several Electron processes contend for it with nothing in common but *)
(* the file system.  Every file-system call is one action, so that the     *)
(* calls of different processes interleave anywhere between two awaits.    *)
(*                                                                         *)
(* "main" is the lock of the scope, "reclaim" the lock a process takes     *)
(* before it deletes a stale main lock.  A directory remembers whether it  *)
(* exists (made), who created its owner.json (creator), whether the text   *)
(* of owner.json is there yet (written) and whether its mtime is younger   *)
(* than runtimeLockInitializationGraceMs (fresh).                          *)
(***************************************************************************)
EXTENDS Naturals, FiniteSets

CONSTANTS
    Jobs,           \* acquireRuntimeLock calls, each of a process of its own
    Observers,      \* isRuntimeScopeActive calls, likewise
    NoOne,          \* "no owner.json"
    RetryAttempts,  \* runtimeLockReclaimRetryAttempts
    SlowDisk        \* may a process pause longer than the grace period
                    \* between two of its file-system calls?

ASSUME JobsAssumption == Jobs \cap Observers = {} /\ NoOne \notin Jobs \cup Observers
ASSUME RetryAssumption == RetryAttempts \in Nat /\ SlowDisk \in BOOLEAN

VARIABLES made, creator, written, fresh,  \* the file system
          call, step,                     \* where each agent stands
          retries,                        \* remainingReclaimRetries
          alive                           \* isProcessAlive(pid) of each agent

fs == <<made, creator, written, fresh>>
vars == <<made, creator, written, fresh, call, step, retries, alive>>

Agents == Jobs \cup Observers
Paths == {"main", "reclaim"}

(***************************************************************************)
(* The calls an agent makes.  The four releases of a handle differ only in *)
(* what happens afterwards.                                                *)
(***************************************************************************)
Tries  == {"tryMain", "tryReclaim"}              \* acquireOwnerDirectoryLock
Probes == {"probeMain", "probeReclaim",          \* isRuntimeLockPathActive
           "reprobeMain", "recheckMain"}
Clears == {"clearMain", "clearReclaim"}          \* rm(path, recursive)
Frees  == {"freeMain", "freeThenRetry",          \* handle.release
           "freeThenDeny", "freeThenThrow"}
Ends   == {"blocked", "released", "failed", "active", "inactive", "dead"}
Calls  == Tries \cup Probes \cup Clears \cup Frees \cup Ends
            \cup {"idle", "existsMain", "wait", "running"}
Steps  == {"mkdir", "create", "fill", "verify", "undoRead", "undoRmdir",
           "read", "stat", "unlink", "rmdir", "go"}

PathOf(c) ==
    IF c \in {"tryReclaim", "probeReclaim", "clearReclaim",
              "freeThenRetry", "freeThenDeny", "freeThenThrow"}
    THEN "reclaim" ELSE "main"

FirstStep(c) ==
    CASE c \in Tries           -> "mkdir"
      [] c \in Probes \cup Frees -> "read"
      [] c \in Clears          -> "unlink"
      [] c = "existsMain"      -> "stat"
      [] OTHER                 -> "go"

Init ==
    /\ made = [p \in Paths |-> FALSE]
    /\ creator = [p \in Paths |-> NoOne]
    /\ written = [p \in Paths |-> FALSE]
    /\ fresh = [p \in Paths |-> FALSE]
    /\ call = [a \in Agents |-> "idle"]
    /\ step = [a \in Agents |-> "go"]
    /\ retries = [a \in Agents |-> RetryAttempts]
    /\ alive = [a \in Agents |-> TRUE]

TypeOK ==
    /\ made \in [Paths -> BOOLEAN]
    /\ creator \in [Paths -> Agents \cup {NoOne}]
    /\ written \in [Paths -> BOOLEAN]
    /\ fresh \in [Paths -> BOOLEAN]
    /\ call \in [Agents -> Calls]
    /\ step \in [Agents -> Steps]
    /\ retries \in [Agents -> Nat]
    /\ alive \in [Agents -> BOOLEAN]

At(a, C, s) == alive[a] /\ call[a] \in C /\ step[a] = s
Here(a) == PathOf(call[a])

(***************************************************************************)
(* Control flow: Next call of an agent, or next step of the current call.  *)
(***************************************************************************)
Enter(a, c) ==
    /\ call' = [call EXCEPT ![a] = c]
    /\ step' = [step EXCEPT ![a] = FirstStep(c)]

Continue(a, s) ==
    /\ step' = [step EXCEPT ![a] = s]
    /\ UNCHANGED call

Denied(a) == IF a \in Observers THEN "active" ELSE "blocked"

OnLocked(c) == IF c = "tryMain" THEN "running" ELSE "recheckMain"
OnTaken(c)  == IF c = "tryMain" THEN "probeMain" ELSE "probeReclaim"
OnThrow(c)  == IF c = "clearMain" THEN "freeThenThrow" ELSE "failed"
OnCleared(c) == IF c = "clearMain" THEN "freeThenRetry" ELSE "tryReclaim"

OnActive(a, c) ==
    CASE c = "probeReclaim" -> "reprobeMain"
      [] c = "recheckMain"  -> "freeThenDeny"
      [] OTHER              -> Denied(a)

OnInactive(a, c) ==
    CASE c = "probeMain"    -> IF a \in Observers THEN "existsMain" ELSE "tryReclaim"
      [] c = "probeReclaim" -> "clearReclaim"
      [] c = "recheckMain"  -> "clearMain"
      [] OTHER              -> IF a \in Observers THEN "inactive"
                               ELSE IF retries[a] = 0 THEN "blocked" ELSE "wait"

OnFreed(a, c) ==
    CASE c = "freeMain"      -> "released"
      [] c = "freeThenRetry" -> IF a \in Observers THEN "inactive" ELSE "tryMain"
      [] c = "freeThenDeny"  -> Denied(a)
      [] OTHER               -> "failed"

(***************************************************************************)
(* acquireOwnerDirectoryLock: mkdir, create owner.json with flag wx, write *)
(* its text, read it back.                                                 *)
(***************************************************************************)
MkDir(a) ==
    /\ At(a, Tries, "mkdir")
    /\ LET p == Here(a) IN
         IF made[p]
         THEN Enter(a, OnTaken(call[a])) /\ UNCHANGED fs
         ELSE /\ made' = [made EXCEPT ![p] = TRUE]
              /\ fresh' = [fresh EXCEPT ![p] = TRUE]
              /\ Continue(a, "create")
              /\ UNCHANGED <<creator, written>>
    /\ UNCHANGED <<retries, alive>>

CreateOwnerFile(a) ==
    /\ At(a, Tries, "create")
    /\ LET p == Here(a) IN
         \/ /\ ~made[p]                        \* ENOENT: the directory is gone
            /\ Continue(a, "undoRead") /\ UNCHANGED fs
         \/ /\ made[p] /\ creator[p] # NoOne   \* EEXIST: someone else's file
            /\ Enter(a, OnTaken(call[a])) /\ UNCHANGED fs
         \/ /\ made[p] /\ creator[p] = NoOne
            /\ creator' = [creator EXCEPT ![p] = a]
            /\ fresh' = [fresh EXCEPT ![p] = TRUE]
            /\ Continue(a, "fill") /\ UNCHANGED <<made, written>>
    /\ UNCHANGED <<retries, alive>>

\* The text goes to the file this agent opened, which may have been unlinked
\* meanwhile; chmod then finds whatever file is at the path, or none.
FillOwnerFile(a) ==
    /\ At(a, Tries, "fill")
    /\ LET p == Here(a) IN
         /\ written' = [written EXCEPT ![p] = @ \/ creator[p] = a]
         /\ Continue(a, IF creator[p] = NoOne THEN "undoRead" ELSE "verify")
    /\ UNCHANGED <<made, creator, fresh, retries, alive>>

Owner(p) == IF written[p] THEN creator[p] ELSE NoOne   \* readRuntimeLockOwner

VerifyOwner(a) ==
    /\ At(a, Tries, "verify")
    /\ Enter(a, IF Owner(Here(a)) = a THEN OnLocked(call[a]) ELSE OnTaken(call[a]))
    /\ UNCHANGED <<fs, retries, alive>>

\* removeFailedRuntimeLockDirectory, then the error is rethrown.
UndoRead(a) ==
    /\ At(a, Tries, "undoRead")
    /\ IF Owner(Here(a)) = NoOne
       THEN Continue(a, "undoRmdir")
       ELSE Enter(a, OnThrow(call[a]))
    /\ UNCHANGED <<fs, retries, alive>>

UndoRmdir(a) ==
    /\ At(a, Tries, "undoRmdir")
    /\ LET p == Here(a) IN
         made' = [made EXCEPT ![p] = @ /\ creator[p] # NoOne]
    /\ Enter(a, OnThrow(call[a]))
    /\ UNCHANGED <<creator, written, fresh, retries, alive>>

(***************************************************************************)
(* isRuntimeLockPathActive: read owner.json; without an owner, stat the    *)
(* directory and compare its mtime with the grace period.                  *)
(***************************************************************************)
\* Mutant: every owner is taken for dead.
ProbeOwnerAsDead(a) ==
    /\ At(a, Probes, "read")
    /\ IF Owner(Here(a)) = NoOne THEN Continue(a, "stat")
                                ELSE Enter(a, OnInactive(a, call[a]))
    /\ UNCHANGED <<fs, retries, alive>>

ProbeOwner(a) ==
    /\ At(a, Probes, "read")
    /\ LET o == Owner(Here(a)) IN
         IF o = NoOne
         THEN Continue(a, "stat")
         ELSE Enter(a, IF alive[o] THEN OnActive(a, call[a]) ELSE OnInactive(a, call[a]))
    /\ UNCHANGED <<fs, retries, alive>>

\* Mutants: no grace period, and a grace period that never ends.
ProbeAgeTooStrict(a) ==
    At(a, Probes, "stat") /\ Enter(a, OnInactive(a, call[a])) /\ UNCHANGED <<fs, retries, alive>>

ProbeAgeTooKind(a) ==
    /\ At(a, Probes, "stat")
    /\ Enter(a, IF made[Here(a)] THEN OnActive(a, call[a]) ELSE OnInactive(a, call[a]))
    /\ UNCHANGED <<fs, retries, alive>>

ProbeAge(a) ==
    /\ At(a, Probes, "stat")
    /\ LET p == Here(a) IN
         Enter(a, IF made[p] /\ fresh[p] THEN OnActive(a, call[a])
                                         ELSE OnInactive(a, call[a]))
    /\ UNCHANGED <<fs, retries, alive>>

\* runtimeLockPathExists, of an observer only.
CheckExists(a) ==
    /\ At(a, {"existsMain"}, "stat")
    /\ Enter(a, IF made["main"] THEN "tryReclaim" ELSE "inactive")
    /\ UNCHANGED <<fs, retries, alive>>

(***************************************************************************)
(* rm(path, {force, recursive}): unlink owner.json, then rmdir; rmdir      *)
(* fails with ENOTEMPTY when a new owner.json has appeared in between.     *)
(***************************************************************************)
Unlink(a) ==
    /\ At(a, Clears \cup Frees, "unlink")
    /\ LET p == Here(a) IN
         /\ creator' = [creator EXCEPT ![p] = NoOne]
         /\ written' = [written EXCEPT ![p] = FALSE]
         /\ fresh' = [fresh EXCEPT ![p] = @ \/ creator[p] # NoOne]
    /\ Continue(a, "rmdir")
    /\ UNCHANGED <<made, retries, alive>>

RmDir(a) ==
    /\ At(a, Clears \cup Frees, "rmdir")
    /\ LET p == Here(a)
           c == call[a]
           done == IF c \in Clears THEN OnCleared(c) ELSE OnFreed(a, c)
       IN  \/ /\ creator[p] = NoOne
              /\ made' = [made EXCEPT ![p] = FALSE]
              /\ Enter(a, done)
              /\ retries' = [retries EXCEPT ![a] =
                               IF c = "freeThenRetry" THEN RetryAttempts ELSE @]
           \/ /\ creator[p] # NoOne
              /\ Enter(a, OnThrow(c))
              /\ UNCHANGED <<made, retries>>
    /\ UNCHANGED <<creator, written, fresh, alive>>

\* Mutant: the handle is dropped without its lock.
ReleaseNothing(a) ==
    At(a, Frees, "read") /\ Enter(a, OnFreed(a, call[a])) /\ UNCHANGED <<fs, retries, alive>>

\* handle.release reads the owner first and removes only its own lock.
ReleaseRead(a) ==
    /\ At(a, Frees, "read")
    /\ LET c == call[a]
           mine == Owner(Here(a)) = a
       IN  /\ IF mine THEN Continue(a, "unlink") ELSE Enter(a, OnFreed(a, c))
           /\ retries' = [retries EXCEPT ![a] =
                            IF ~mine /\ c = "freeThenRetry" THEN RetryAttempts ELSE @]
    /\ UNCHANGED <<fs, alive>>

\* Mutant: the attempts are not counted.
RetryUncounted(a) == At(a, {"wait"}, "go") /\ Enter(a, "tryMain") /\ UNCHANGED <<fs, retries, alive>>

\* waitForRuntimeLockReclaimRetry, then the next attempt.
RetryAfterWait(a) ==
    /\ At(a, {"wait"}, "go")
    /\ Enter(a, "tryMain")
    /\ retries' = [retries EXCEPT ![a] = @ - 1]
    /\ UNCHANGED <<fs, alive>>

(***************************************************************************)
(* What the agents and their environment decide: when a call starts, when  *)
(* the locked command ends, when a process dies, when the grace is over.   *)
(***************************************************************************)
Start(a) ==
    /\ At(a, {"idle"}, "go")
    /\ Enter(a, IF a \in Observers THEN "probeMain" ELSE "tryMain")
    /\ UNCHANGED <<fs, retries, alive>>

Finish(a) ==
    /\ At(a, {"running"}, "go")
    /\ Enter(a, "freeMain")
    /\ UNCHANGED <<fs, retries, alive>>

Crash(a) ==
    /\ alive[a] /\ call[a] # "idle"
    /\ alive' = [alive EXCEPT ![a] = FALSE]
    /\ Enter(a, "dead")
    /\ UNCHANGED <<fs, retries>>

\* A live agent between two file-system calls on the same directory.
Midway(p) ==
    \E a \in Agents : /\ alive[a] /\ Here(a) = p
                      /\ step[a] \in {"create", "fill", "stat", "rmdir"}

GraceElapses(p) ==
    /\ made[p] /\ fresh[p]
    /\ SlowDisk \/ ~Midway(p)
    /\ fresh' = [fresh EXCEPT ![p] = FALSE]
    /\ UNCHANGED <<made, creator, written, call, step, retries, alive>>

AgentStep(a) ==
    \/ MkDir(a) \/ CreateOwnerFile(a) \/ FillOwnerFile(a) \/ VerifyOwner(a)
    \/ UndoRead(a) \/ UndoRmdir(a)
    \/ ProbeOwner(a) \/ ProbeAge(a) \/ CheckExists(a)
    \/ Unlink(a) \/ RmDir(a) \/ ReleaseRead(a)
    \/ RetryAfterWait(a)

Next ==
    \/ \E a \in Agents : AgentStep(a) \/ Start(a) \/ Finish(a) \/ Crash(a)
    \/ \E p \in Paths : GraceElapses(p)

\* An agent inside the protocol keeps being scheduled by its event loop; it
\* need not start, and the command it runs under the lock need not end.
Fairness == \A a \in Agents : WF_vars(AgentStep(a))

Spec == Init /\ [][Next]_vars
FairSpec == Spec /\ Fairness

(***************************************************************************)
(* Properties.                                                             *)
(***************************************************************************)
Running(j) == call[j] = "running"

\* Two jobs never execute a long-running command of the scope at once: what
\* acquireRuntimeLock exists for.
MutualExclusion == \A i, j \in Jobs : Running(i) /\ Running(j) => i = j

\* As long as no job has finished, failed or died, any number of jobs that
\* contend let one through at most, whatever the queries do and whichever of
\* them die: what breaks exclusion is only ever the removal of a job's lock.
Undisturbed ==
    \A j \in Jobs : alive[j] /\ call[j] \notin {"freeMain", "released", "failed"}
FirstComerExcludes == Undisturbed => MutualExclusion

\* Two processes and a query implement the promise of a scope lock: a job begins
\* its command only when no other is running, also when it got there by
\* reclaiming the lock of a process that died.
Mutex == INSTANCE ScopeMutex WITH ScopeOf <- [j \in Jobs |-> "main"],
                                  working <- {j \in Jobs : Running(j)}
LockImplementsMutex == Mutex!Spec

\* Every attempt and every release comes to an end whatever the others do:
\* the retry loop and the two recursions of the reclaim cannot go on forever.
AttemptsEnd ==
    \A a \in Agents :
        call[a] \notin Ends \cup {"idle", "running"}
            ~> call[a] \in Ends \cup {"running"}
=============================================================================
