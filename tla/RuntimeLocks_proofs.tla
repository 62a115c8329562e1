------------------------- MODULE RuntimeLocks_proofs -------------------------
(***************************************************************************)
(* Proofs about RuntimeLocks for any number of contending processes.       *)
(*                                                                         *)
(* MutualExclusion itself does not hold of three jobs (the runs show how   *)
(* it fails); what is proved is where it does: until a job's lock is first *)
(* taken away (Early), and so of two jobs, which implement ScopeMutex.     *)
(*                                                                         *)
(* No lock is left behind: as long as nobody dies each directory has       *)
(* somebody who is going to remove it, also when locks are taken from the  *)
(* processes that hold them (Tended).                                      *)
(*                                                                         *)
(* A process that comes alone is served, whatever the dead have left: at   *)
(* each of its calls it finds a lock left over, or its own (Lone).         *)
(***************************************************************************)
EXTENDS MCRuntimeLocks, TLAPS

\* An agent waits only while it has an attempt left.
WaitersMayRetry == \A a \in Agents : call[a] = "wait" => retries[a] > 0

Typed == TypeOK /\ WaitersMayRetry

USE DEF Paths

LEMMA CallSets ==
    /\ Tries \subseteq Calls /\ Probes \subseteq Calls /\ Clears \subseteq Calls
    /\ Frees \subseteq Calls /\ Ends \subseteq Calls
  BY DEF Calls, Tries, Probes, Clears, Frees, Ends

\* Where an agent goes next is always a call of the protocol, at its first step.
LEMMA NextCalls ==
    ASSUME NEW a \in Agents, NEW c \in Calls
    PROVE  /\ FirstStep(c) \in Steps /\ PathOf(c) \in Paths
           /\ Denied(a) \in Calls \ {"wait"} /\ OnLocked(c) \in Calls \ {"wait"}
           /\ OnTaken(c) \in Calls \ {"wait"} /\ OnThrow(c) \in Calls \ {"wait"}
           /\ OnCleared(c) \in Calls \ {"wait"} /\ OnActive(a, c) \in Calls \ {"wait"}
           /\ OnFreed(a, c) \in Calls \ {"wait"}
           /\ OnInactive(a, c) \in Calls
           /\ OnInactive(a, c) = "wait" => retries[a] # 0
  <1>1. FirstStep(c) \in Steps
    BY DEF FirstStep, Steps
  <1>2. PathOf(c) \in Paths
    BY DEF PathOf
  <1>3. Denied(a) \in Calls \ {"wait"}
    BY DEF Denied, Calls, Ends
  <1>4. /\ OnLocked(c) \in Calls \ {"wait"} /\ OnTaken(c) \in Calls \ {"wait"}
        /\ OnThrow(c) \in Calls \ {"wait"} /\ OnCleared(c) \in Calls \ {"wait"}
    BY DEF OnLocked, OnTaken, OnThrow, OnCleared, Calls, Tries, Probes, Frees, Ends
  <1>5. OnActive(a, c) \in Calls \ {"wait"}
    BY <1>3 DEF OnActive, Calls, Probes, Frees
  <1>6. OnFreed(a, c) \in Calls \ {"wait"}
    BY <1>3 DEF OnFreed, Calls, Tries, Ends
  <1>7. /\ OnInactive(a, c) \in Calls
        /\ OnInactive(a, c) = "wait" => retries[a] # 0
    BY DEF OnInactive, Calls, Tries, Clears, Ends
  <1> QED  BY <1>1, <1>2, <1>3, <1>4, <1>5, <1>6, <1>7

\* Entering a call of the protocol keeps the agents' state well typed, and
\* makes a waiter only of an agent with an attempt left.
LEMMA EnterTyped ==
    ASSUME Typed, NEW a \in Agents, NEW c \in Calls, Enter(a, c),
           c = "wait" => retries[a] # 0,
           retries' \in [Agents -> Nat],
           \A b \in Agents : b # a => retries'[b] = retries[b],
           c = "wait" => retries'[a] = retries[a]
    PROVE  /\ call' \in [Agents -> Calls] /\ step' \in [Agents -> Steps]
           /\ WaitersMayRetry'
  BY NextCalls DEF Typed, TypeOK, Enter, WaitersMayRetry

LEMMA ContinueTyped ==
    ASSUME Typed, NEW a \in Agents, NEW s \in Steps, Continue(a, s), call[a] # "wait",
           retries' \in [Agents -> Nat],
           \A b \in Agents : b # a => retries'[b] = retries[b]
    PROVE  /\ call' \in [Agents -> Calls] /\ step' \in [Agents -> Steps]
           /\ WaitersMayRetry'
  BY DEF Typed, TypeOK, Continue, WaitersMayRetry

LEMMA InitTyped == Init => Typed
  BY RetryAssumption DEF Init, Typed, TypeOK, WaitersMayRetry, Calls, Steps

LEMMA StepTyped ==
    ASSUME Typed, NEW a \in Agents, AgentStep(a)
    PROVE  Typed'
  <1> DEFINE c == call[a]
             p == Here(a)
  <1>0. /\ c \in Calls /\ p \in Paths
        /\ {"create", "fill", "verify", "undoRead", "undoRmdir", "stat", "unlink", "rmdir"}
             \subseteq Steps
        /\ "wait" \notin Tries \cup Probes \cup Clears \cup Frees
    BY NextCalls DEF Typed, TypeOK, Here, Steps, Tries, Probes, Clears, Frees
  <1>a. retries \in [Agents -> Nat] /\ RetryAttempts \in Nat
    BY RetryAssumption DEF Typed, TypeOK
  <1>1. CASE MkDir(a)
    <2>1. made' \in [Paths -> BOOLEAN] /\ fresh' \in [Paths -> BOOLEAN]
      BY <1>0, <1>1 DEF MkDir, Typed, TypeOK, fs
    <2>2. call' \in [Agents -> Calls] /\ step' \in [Agents -> Steps] /\ WaitersMayRetry'
      BY <1>0, <1>1, <1>a, NextCalls, EnterTyped, ContinueTyped DEF MkDir, At
    <2> QED  BY <1>1, <2>1, <2>2 DEF MkDir, Typed, TypeOK, fs
  <1>2. CASE CreateOwnerFile(a)
    <2>0. /\ UNCHANGED <<made, written, retries, alive>>
          /\ \/ UNCHANGED <<creator, fresh>>
             \/ /\ creator' = [creator EXCEPT ![p] = a]
                /\ fresh' = [fresh EXCEPT ![p] = TRUE]
      BY <1>2 DEF CreateOwnerFile, fs
    <2>1. creator' \in [Paths -> Agents \cup {NoOne}] /\ fresh' \in [Paths -> BOOLEAN]
      <3>1. creator \in [Paths -> Agents \cup {NoOne}] /\ fresh \in [Paths -> BOOLEAN]
        BY DEF Typed, TypeOK
      <3>2. CASE UNCHANGED <<creator, fresh>>
        BY <3>1, <3>2
      <3>3. CASE /\ creator' = [creator EXCEPT ![p] = a]
                 /\ fresh' = [fresh EXCEPT ![p] = TRUE]
        <4>1. a \in Agents \cup {NoOne} /\ TRUE \in BOOLEAN  OBVIOUS
        <4> QED  BY <3>1, <3>3, <4>1
      <3> QED  BY <2>0, <3>2, <3>3
    <2>2. call' \in [Agents -> Calls] /\ step' \in [Agents -> Steps] /\ WaitersMayRetry'
      BY <1>0, <1>2, <1>a, NextCalls, EnterTyped, ContinueTyped DEF CreateOwnerFile, At
    <2> QED  BY <2>0, <2>1, <2>2 DEF Typed, TypeOK
  <1>3. CASE FillOwnerFile(a)
    <2>1. written' \in [Paths -> BOOLEAN]
      BY <1>0, <1>3 DEF FillOwnerFile, Typed, TypeOK
    <2>2. call' \in [Agents -> Calls] /\ step' \in [Agents -> Steps] /\ WaitersMayRetry'
      BY <1>0, <1>3, <1>a, ContinueTyped DEF FillOwnerFile, At
    <2> QED  BY <1>3, <2>1, <2>2 DEF FillOwnerFile, Typed, TypeOK
  <1>4. CASE VerifyOwner(a)
    <2>2. call' \in [Agents -> Calls] /\ step' \in [Agents -> Steps] /\ WaitersMayRetry'
      BY <1>0, <1>4, <1>a, NextCalls, EnterTyped DEF VerifyOwner, At
    <2> QED  BY <1>4, <2>2 DEF VerifyOwner, Typed, TypeOK, fs
  <1>5. CASE UndoRead(a)
    <2>2. call' \in [Agents -> Calls] /\ step' \in [Agents -> Steps] /\ WaitersMayRetry'
      BY <1>0, <1>5, <1>a, NextCalls, EnterTyped, ContinueTyped DEF UndoRead, At
    <2> QED  BY <1>5, <2>2 DEF UndoRead, Typed, TypeOK, fs
  <1>6. CASE UndoRmdir(a)
    <2>1. made' \in [Paths -> BOOLEAN]
      BY <1>0, <1>6 DEF UndoRmdir, Typed, TypeOK
    <2>2. call' \in [Agents -> Calls] /\ step' \in [Agents -> Steps] /\ WaitersMayRetry'
      BY <1>0, <1>6, <1>a, NextCalls, EnterTyped DEF UndoRmdir, At
    <2> QED  BY <1>6, <2>1, <2>2 DEF UndoRmdir, Typed, TypeOK
  <1>7. CASE ProbeOwner(a)
    <2>2. call' \in [Agents -> Calls] /\ step' \in [Agents -> Steps] /\ WaitersMayRetry'
      BY <1>0, <1>7, <1>a, NextCalls, EnterTyped, ContinueTyped DEF ProbeOwner, At
    <2> QED  BY <1>7, <2>2 DEF ProbeOwner, Typed, TypeOK, fs
  <1>8. CASE ProbeAge(a)
    <2>2. call' \in [Agents -> Calls] /\ step' \in [Agents -> Steps] /\ WaitersMayRetry'
      BY <1>0, <1>8, <1>a, NextCalls, EnterTyped DEF ProbeAge, At
    <2> QED  BY <1>8, <2>2 DEF ProbeAge, Typed, TypeOK, fs
  <1>9. CASE CheckExists(a)
    <2>1. "tryReclaim" \in Calls /\ "inactive" \in Calls  BY DEF Calls, Tries, Ends
    <2>2. call' \in [Agents -> Calls] /\ step' \in [Agents -> Steps] /\ WaitersMayRetry'
      BY <1>9, <1>a, <2>1, EnterTyped DEF CheckExists
    <2> QED  BY <1>9, <2>2 DEF CheckExists, Typed, TypeOK, fs
  <1>10. CASE Unlink(a)
    <2>1. /\ creator' \in [Paths -> Agents \cup {NoOne}] /\ written' \in [Paths -> BOOLEAN]
          /\ fresh' \in [Paths -> BOOLEAN]
      BY <1>0, <1>10 DEF Unlink, Typed, TypeOK
    <2>2. call' \in [Agents -> Calls] /\ step' \in [Agents -> Steps] /\ WaitersMayRetry'
      BY <1>0, <1>10, <1>a, ContinueTyped DEF Unlink, At
    <2> QED  BY <1>10, <2>1, <2>2 DEF Unlink, Typed, TypeOK
  <1>11. CASE RmDir(a)
    <2>1. made' \in [Paths -> BOOLEAN]
      BY <1>0, <1>11 DEF RmDir, Typed, TypeOK
    <2>2. retries' \in [Agents -> Nat] /\ \A b \in Agents : b # a => retries'[b] = retries[b]
      BY <1>11, <1>a DEF RmDir
    <2>3. PICK d \in Calls \ {"wait"} : Enter(a, d)
      BY <1>0, <1>11, NextCalls DEF RmDir, At
    <2>4. call' \in [Agents -> Calls] /\ step' \in [Agents -> Steps] /\ WaitersMayRetry'
      BY <2>2, <2>3, EnterTyped
    <2> QED  BY <1>11, <2>1, <2>2, <2>4 DEF RmDir, Typed, TypeOK
  <1>12. CASE ReleaseRead(a)
    <2>1. retries' \in [Agents -> Nat] /\ \A b \in Agents : b # a => retries'[b] = retries[b]
      BY <1>12, <1>a DEF ReleaseRead
    <2>2. call' \in [Agents -> Calls] /\ step' \in [Agents -> Steps] /\ WaitersMayRetry'
      BY <1>0, <1>12, <2>1, NextCalls, EnterTyped, ContinueTyped DEF ReleaseRead, At
    <2> QED  BY <1>12, <2>1, <2>2 DEF ReleaseRead, Typed, TypeOK, fs
  <1>13. CASE RetryAfterWait(a)
    <2>1. "tryMain" \in Calls  BY DEF Calls, Tries
    <2>2. retries[a] \in Nat \ {0}
      BY <1>13, <1>a DEF RetryAfterWait, At, Typed, WaitersMayRetry
    <2>3. retries' \in [Agents -> Nat] /\ \A b \in Agents : b # a => retries'[b] = retries[b]
      BY <1>13, <1>a, <2>2 DEF RetryAfterWait
    <2>4. call' \in [Agents -> Calls] /\ step' \in [Agents -> Steps] /\ WaitersMayRetry'
      BY <1>13, <2>1, <2>3, EnterTyped DEF RetryAfterWait
    <2> QED  BY <1>13, <2>3, <2>4 DEF RetryAfterWait, Typed, TypeOK, fs
  <1> QED
    BY <1>1, <1>2, <1>3, <1>4, <1>5, <1>6, <1>7, <1>8, <1>9, <1>10, <1>11, <1>12, <1>13
    DEF AgentStep

LEMMA OtherStepsTyped ==
    ASSUME Typed,
           \/ \E a \in Agents : Start(a) \/ Finish(a) \/ Crash(a)
           \/ \E p \in Paths : GraceElapses(p)
    PROVE  Typed'
  <1>0. {"probeMain", "tryMain", "freeMain", "dead"} \subseteq Calls
    BY DEF Calls, Tries, Probes, Frees, Ends
  <1>a. retries \in [Agents -> Nat]  BY DEF Typed, TypeOK
  <1>1. ASSUME NEW a \in Agents, Start(a) \/ Finish(a) PROVE Typed'
    <2>1. call' \in [Agents -> Calls] /\ step' \in [Agents -> Steps] /\ WaitersMayRetry'
      BY <1>0, <1>1, <1>a, EnterTyped DEF Start, Finish
    <2> QED  BY <1>1, <2>1 DEF Start, Finish, Typed, TypeOK, fs
  <1>2. ASSUME NEW a \in Agents, Crash(a) PROVE Typed'
    <2>1. call' \in [Agents -> Calls] /\ step' \in [Agents -> Steps] /\ WaitersMayRetry'
      BY <1>0, <1>2, <1>a, EnterTyped DEF Crash
    <2> QED  BY <1>2, <2>1 DEF Crash, Typed, TypeOK, fs
  <1>3. ASSUME NEW p \in Paths, GraceElapses(p) PROVE Typed'
    BY <1>3 DEF GraceElapses, Typed, TypeOK, WaitersMayRetry
  <1> QED  BY <1>1, <1>2, <1>3

LEMMA NextTyped == Typed /\ [Next]_vars => Typed'
  <1> SUFFICES ASSUME Typed, [Next]_vars PROVE Typed'  OBVIOUS
  <1>1. CASE UNCHANGED vars
    BY <1>1 DEF vars, Typed, TypeOK, WaitersMayRetry
  <1> QED  BY <1>1, StepTyped, OtherStepsTyped DEF Next

\* Every reachable state is well typed; the retry budget never runs below zero.
THEOREM TypeCorrect == Spec => []TypeOK
  <1>1. Typed => TypeOK  BY DEF Typed
  <1> QED  BY <1>1, InitTyped, NextTyped, PTL DEF Spec

-----------------------------------------------------------------------------
(***************************************************************************)
(* Exclusion until the first disturbance.                                  *)
(***************************************************************************)

\* The calls of an agent that has seen the main lock and leaves it alone.
Onlookers == {"tryReclaim", "probeReclaim", "clearReclaim", "reprobeMain", "recheckMain",
              "freeThenDeny"}

SettingUp(a) == call[a] = "tryMain" /\ step[a] \in {"create", "fill"}

\* Where an agent may be; a query may also have failed or died.
EarlyCalls == Onlookers \cup {"idle", "tryMain", "probeMain", "existsMain", "running",
                             "blocked", "active", "inactive"}
MayBeAt(a, c) ==
    /\ c \in EarlyCalls \/ (a \in Observers /\ c \in {"failed", "dead"})
    /\ a \in Observers => c \notin {"tryMain", "running"}

\* Nobody is about to remove the main lock or to give up on it.
NobodyRemoves ==
    \A a \in Agents :
        /\ MayBeAt(a, call[a])
        /\ call[a] = "tryMain" => step[a] \in {"mkdir", "create", "fill", "verify"}

\* One job at a time sets the lock up, and the directory says how far it is.
OneSetsUp ==
    /\ \A a, b \in Agents : SettingUp(a) /\ SettingUp(b) => a = b
    /\ \A a \in Agents :
         /\ SettingUp(a) => made["main"] /\ ~written["main"]
         /\ SettingUp(a) => creator["main"] = IF step[a] = "fill" THEN a ELSE NoOne
         /\ (call[a] = "running" \/ (call[a] = "tryMain" /\ step[a] = "verify"))
              => creator["main"] = a /\ written["main"]
    /\ made["main"] /\ ~written["main"] => fresh["main"] /\ \E a \in Agents : SettingUp(a)
    /\ ~made["main"] => creator["main"] = NoOne
    /\ written["main"] => made["main"] /\ creator["main"] # NoOne
    /\ creator["main"] \in Jobs \cup {NoOne}

\* Whoever has found the lock still finds it taken.
OnlookersSeeIt ==
    \A a \in Agents :
        /\ call[a] \in Onlookers => made["main"]
        /\ a \in Jobs /\ call[a] = "probeMain" => made["main"]
        /\ call[a] \in {"probeMain", "reprobeMain", "recheckMain"} /\ step[a] = "stat"
             /\ made["main"] => fresh["main"]

Early == NobodyRemoves /\ OneSetsUp /\ OnlookersSeeIt
LEMMA InitEarly == Init => Early
  BY DEF Init, Early, NobodyRemoves, OneSetsUp, OnlookersSeeIt, SettingUp, Onlookers, EarlyCalls,
     MayBeAt

\* A process that is not alive is nowhere in the protocol.
DeadAreOut == \A a \in Agents : alive[a] \/ call[a] = "dead"

LEMMA DeadStayOut ==
    ASSUME Typed, DeadAreOut, [Next]_vars PROVE DeadAreOut'
  <1>1. ASSUME NEW a \in Agents, AgentStep(a) \/ Start(a) \/ Finish(a)
        PROVE  /\ alive' = alive /\ alive[a]
               /\ \A b \in Agents : b # a => call'[b] = call[b]
    BY <1>1 DEF AgentStep, Start, Finish, MkDir, CreateOwnerFile, FillOwnerFile, VerifyOwner,
         UndoRead, UndoRmdir, ProbeOwner, ProbeAge, CheckExists, Unlink, RmDir, ReleaseRead,
         RetryAfterWait, At, Enter, Continue, Typed, TypeOK
  <1>2. ASSUME NEW a \in Agents, Crash(a) PROVE DeadAreOut'
    BY <1>2 DEF Crash, Enter, DeadAreOut, Typed, TypeOK
  <1>3. ASSUME UNCHANGED <<call, alive>> PROVE DeadAreOut'
    BY <1>3 DEF DeadAreOut
  <1> QED  BY <1>1, <1>2, <1>3 DEF Next, DeadAreOut, GraceElapses, vars

\* A disturbance is never undone.
LEMMA UndisturbedBefore ==
    ASSUME Typed, Next, Undisturbed'
    PROVE  Undisturbed
  <1>1. ASSUME NEW b \in Agents, ~alive[b] PROVE ~alive'[b]
    <2>1. ASSUME NEW a \in Agents, AgentStep(a) \/ Start(a) \/ Finish(a) PROVE alive' = alive
      BY <2>1 DEF AgentStep, Start, Finish, MkDir, CreateOwnerFile, FillOwnerFile, VerifyOwner,
           UndoRead, UndoRmdir, ProbeOwner, ProbeAge, CheckExists, Unlink, RmDir, ReleaseRead,
           RetryAfterWait
    <2>2. ASSUME NEW a \in Agents, Crash(a) PROVE ~alive'[b]
      BY <1>1, <2>2 DEF Crash, Typed, TypeOK
    <2>3. ASSUME NEW p \in Paths, GraceElapses(p) PROVE alive' = alive
      BY <2>3 DEF GraceElapses
    <2> QED  BY <1>1, <2>1, <2>2, <2>3 DEF Next
  <1>2. ASSUME NEW b \in Agents, call[b] \in {"freeMain", "released", "failed"}, alive'[b]
        PROVE  call'[b] \in {"freeMain", "released", "failed"}
    <2>1. ASSUME NEW a \in Agents, a # b,
                 AgentStep(a) \/ Start(a) \/ Finish(a) \/ Crash(a)
          PROVE  call'[b] = call[b]
      BY <2>1 DEF AgentStep, Start, Finish, Crash, MkDir, CreateOwnerFile, FillOwnerFile,
           VerifyOwner, UndoRead, UndoRmdir, ProbeOwner, ProbeAge, CheckExists, Unlink, RmDir,
           ReleaseRead, RetryAfterWait, Enter, Continue, Typed, TypeOK
    <2>2. ASSUME ReleaseRead(b) \/ Unlink(b) \/ RmDir(b)
          PROVE  call'[b] \in {"freeMain", "released", "failed"}
      <3>1. call[b] = "freeMain"
        BY <1>2, <2>2 DEF ReleaseRead, Unlink, RmDir, At, Clears, Frees
      <3> QED
        BY <2>2, <3>1 DEF ReleaseRead, Unlink, RmDir, Enter, Continue, OnFreed, OnThrow, Clears,
             Typed, TypeOK
    <2>3. /\ ~Start(b) /\ ~Finish(b) /\ ~MkDir(b) /\ ~CreateOwnerFile(b) /\ ~FillOwnerFile(b)
          /\ ~VerifyOwner(b) /\ ~UndoRead(b) /\ ~UndoRmdir(b) /\ ~ProbeOwner(b)
          /\ ~ProbeAge(b) /\ ~CheckExists(b) /\ ~RetryAfterWait(b)
      BY <1>2 DEF Start, Finish, MkDir, CreateOwnerFile, FillOwnerFile, VerifyOwner, UndoRead,
           UndoRmdir, ProbeOwner, ProbeAge, CheckExists, RetryAfterWait, At, Tries, Probes
    <2>4. ~Crash(b)
      BY <1>2 DEF Crash, Typed, TypeOK
    <2>5. ASSUME NEW p \in Paths, GraceElapses(p) PROVE call' = call
      BY <2>5 DEF GraceElapses
    <2> QED  BY <1>2, <2>1, <2>2, <2>3, <2>4, <2>5 DEF Next, AgentStep
  <1> QED  BY <1>1, <1>2 DEF Undisturbed, Agents

\* A step that leaves the main lock as it is and moves an agent that is not
\* setting it up keeps Early, if it moves the agent to where Early lets it be.
LEMMA OnlyMoves ==
    ASSUME Typed, Early, NEW a \in Agents, NEW c \in Calls, NEW s \in Steps,
           call' = [call EXCEPT ![a] = c], step' = [step EXCEPT ![a] = s],
           made'["main"] = made["main"], creator'["main"] = creator["main"],
           written'["main"] = written["main"], fresh'["main"] = fresh["main"],
           ~SettingUp(a),
           MayBeAt(a, c),
           c = "tryMain" => s = "mkdir",
           c = "running" => creator["main"] = a /\ written["main"],
           c \in Onlookers => made["main"],
           a \in Jobs /\ c = "probeMain" => made["main"],
           c \in {"probeMain", "reprobeMain", "recheckMain"} /\ s = "stat" /\ made["main"]
             => fresh["main"]
    PROVE  Early'
  <1>1. /\ call'[a] = c /\ step'[a] = s
        /\ \A b \in Agents : b # a => call'[b] = call[b] /\ step'[b] = step[b]
    BY DEF Typed, TypeOK
  <1>2. \A b \in Agents : SettingUp(b)' <=> SettingUp(b)
    BY <1>1 DEF SettingUp
  <1>3. NobodyRemoves'
    BY <1>1 DEF Early, NobodyRemoves
  <1>4. OneSetsUp'
    <2>1. \A b, d \in Agents : SettingUp(b)' /\ SettingUp(d)' => b = d
      BY <1>2 DEF Early, OneSetsUp
    <2>2. ASSUME NEW b \in Agents
          PROVE  /\ SettingUp(b)' => made'["main"] /\ ~written'["main"]
                 /\ SettingUp(b)' => creator'["main"] = IF step'[b] = "fill" THEN b ELSE NoOne
                 /\ (call'[b] = "running" \/ (call'[b] = "tryMain" /\ step'[b] = "verify"))
                      => creator'["main"] = b /\ written'["main"]
      BY <1>1, <1>2 DEF Early, OneSetsUp
    <2>3. /\ made'["main"] /\ ~written'["main"]
               => fresh'["main"] /\ \E b \in Agents : SettingUp(b)'
          /\ ~made'["main"] => creator'["main"] = NoOne
          /\ written'["main"] => made'["main"] /\ creator'["main"] # NoOne
          /\ creator'["main"] \in Jobs \cup {NoOne}
      BY <1>2 DEF Early, OneSetsUp
    <2> QED  BY <2>1, <2>2, <2>3 DEF OneSetsUp
  <1>5. OnlookersSeeIt'
    BY <1>1 DEF Early, OnlookersSeeIt
  <1> QED  BY <1>3, <1>4, <1>5 DEF Early

\* The owner of a lock is alive as long as nothing has been disturbed, and
\* the main lock then has one, or is younger than the grace period.
LEMMA LockLooksTaken ==
    ASSUME Typed, Early, Undisturbed
    PROVE  /\ Owner("main") # NoOne => Owner("main") \in Jobs /\ alive[Owner("main")]
           /\ made["main"] /\ Owner("main") = NoOne => fresh["main"]
  <1>1. Owner("main") # NoOne => Owner("main") \in Jobs /\ alive[Owner("main")]
    BY DEF Owner, Early, OneSetsUp, Undisturbed
  <1>2. made["main"] /\ Owner("main") = NoOne => fresh["main"]
    BY DEF Owner, Early, OneSetsUp
  <1> QED  BY <1>1, <1>2

\* The steps of an attempt on the main lock.
LEMMA TryMainEarly ==
    ASSUME Typed, Early, Undisturbed', NEW a \in Agents, call[a] = "tryMain",
           MkDir(a) \/ CreateOwnerFile(a) \/ FillOwnerFile(a) \/ VerifyOwner(a)
             \/ UndoRead(a) \/ UndoRmdir(a)
    PROVE  Early'
  <1>0. /\ Here(a) = "main" /\ OnTaken("tryMain") = "probeMain"
        /\ OnLocked("tryMain") = "running"
        /\ FirstStep("probeMain") = "read" /\ FirstStep("running") = "go"
        /\ {"probeMain", "running"} \subseteq Calls /\ {"read", "go"} \subseteq Steps
    BY DEF Here, PathOf, OnTaken, OnLocked, FirstStep, Calls, Tries, Probes, Clears, Frees, Steps
  <1>1. step[a] \in {"mkdir", "create", "fill", "verify"} /\ a \in Jobs
    BY DEF Early, NobodyRemoves, MayBeAt, Agents
  <1>b. a \notin Observers
    BY <1>1, JobsAssumption
  <1>2. ASSUME step[a] # "create", step[a] # "fill" PROVE ~SettingUp(a)
    BY <1>2 DEF SettingUp
  <1>3. ASSUME Enter(a, "probeMain"), UNCHANGED fs, made["main"], ~SettingUp(a)
        PROVE  Early'
    BY <1>0, <1>b, <1>3, OnlyMoves DEF Enter, fs, MayBeAt, EarlyCalls, Onlookers
  <1>4. CASE MkDir(a)
    <2>1. CASE made["main"]
      BY <1>0, <1>2, <1>3, <1>4, <2>1 DEF MkDir, At
    <2>2. CASE ~made["main"]
      <3>1. /\ made' = [made EXCEPT !["main"] = TRUE] /\ fresh' = [fresh EXCEPT !["main"] = TRUE]
            /\ step' = [step EXCEPT ![a] = "create"] /\ UNCHANGED <<call, creator, written>>
        BY <1>0, <1>4, <2>2 DEF MkDir, Continue
      <3>2. made'["main"] /\ fresh'["main"] /\ step'[a] = "create"
              /\ \A d \in Agents : d # a => step'[d] = step[d]
        BY <3>1 DEF Typed, TypeOK
      <3>3. NobodyRemoves'
        BY <3>1, <3>2 DEF Early, NobodyRemoves
      <3>4. \A d \in Agents : SettingUp(d)' <=> d = a
        BY <2>2, <3>1, <3>2 DEF SettingUp, Early, OneSetsUp
      <3>5. OneSetsUp'
        BY <2>2, <3>1, <3>2, <3>4 DEF Early, OneSetsUp
      <3>6. OnlookersSeeIt'
        BY <3>1, <3>2 DEF OnlookersSeeIt
      <3> QED  BY <3>3, <3>5, <3>6 DEF Early
    <2> QED  BY <2>1, <2>2
  <1>5. CASE CreateOwnerFile(a)
    <2>1. SettingUp(a) /\ made["main"] /\ ~written["main"] /\ creator["main"] = NoOne
      BY <1>5 DEF CreateOwnerFile, At, SettingUp, Early, OneSetsUp
    <2>2. /\ creator' = [creator EXCEPT !["main"] = a]
          /\ fresh' = [fresh EXCEPT !["main"] = TRUE]
          /\ step' = [step EXCEPT ![a] = "fill"] /\ UNCHANGED <<call, made, written>>
      BY <1>0, <1>5, <2>1 DEF CreateOwnerFile, Continue
    <2>3. creator'["main"] = a /\ fresh'["main"] /\ step'[a] = "fill"
            /\ \A d \in Agents : d # a => step'[d] = step[d]
      BY <2>2 DEF Typed, TypeOK
    <2>4. NobodyRemoves'
      BY <2>2, <2>3 DEF Early, NobodyRemoves
    <2>5. \A d \in Agents : SettingUp(d)' <=> d = a
      BY <2>1, <2>2, <2>3 DEF SettingUp, Early, OneSetsUp
    <2>6. OneSetsUp'
      BY <1>1, <2>1, <2>2, <2>3, <2>5 DEF Early, OneSetsUp, SettingUp
    <2>7. OnlookersSeeIt'
      BY <2>1, <2>2, <2>3 DEF Early, OnlookersSeeIt
    <2> QED  BY <2>4, <2>6, <2>7 DEF Early
  <1>6. CASE FillOwnerFile(a)
    <2>1. SettingUp(a) /\ made["main"] /\ ~written["main"] /\ creator["main"] = a
      BY <1>6 DEF FillOwnerFile, At, SettingUp, Early, OneSetsUp
    <2>2. a # NoOne  BY JobsAssumption DEF Agents
    <2>3. /\ written' = [written EXCEPT !["main"] = TRUE]
          /\ step' = [step EXCEPT ![a] = "verify"] /\ UNCHANGED <<call, made, creator, fresh>>
      BY <1>0, <1>6, <2>1, <2>2 DEF FillOwnerFile, Continue
    <2>4. written'["main"] /\ step'[a] = "verify"
            /\ \A d \in Agents : d # a => step'[d] = step[d]
      BY <2>3 DEF Typed, TypeOK
    <2>5. NobodyRemoves'
      BY <2>3, <2>4 DEF Early, NobodyRemoves
    <2>6. \A d \in Agents : ~SettingUp(d)'
      BY <2>1, <2>3, <2>4 DEF SettingUp, Early, OneSetsUp
    <2>7. OneSetsUp'
      BY <2>1, <2>2, <2>3, <2>4, <2>6 DEF Early, OneSetsUp
    <2>8. OnlookersSeeIt'
      BY <2>1, <2>3, <2>4 DEF Early, OnlookersSeeIt
    <2> QED  BY <2>5, <2>7, <2>8 DEF Early
  <1>7. CASE VerifyOwner(a)
    <2>1. creator["main"] = a /\ written["main"] /\ Owner("main") = a /\ ~SettingUp(a)
      BY <1>2, <1>7 DEF VerifyOwner, At, Early, OneSetsUp, Owner
    <2>2. Enter(a, "running") /\ UNCHANGED fs
      BY <1>0, <1>7, <2>1 DEF VerifyOwner
    <2> QED  BY <1>0, <1>b, <2>1, <2>2, OnlyMoves DEF Enter, fs, Onlookers, MayBeAt, EarlyCalls
  <1>8. ~UndoRead(a) /\ ~UndoRmdir(a)
    BY <1>1 DEF UndoRead, UndoRmdir, At
  <1> QED  BY <1>4, <1>5, <1>6, <1>7, <1>8

\* The steps on the reclaim lock, which leave the main lock alone.
LEMMA ReclaimEarly ==
    ASSUME Typed, Early, Undisturbed, Undisturbed', NEW a \in Agents,
           Here(a) = "reclaim", AgentStep(a)
    PROVE  Early'
  <1>1. call[a] \in {"tryReclaim", "probeReclaim", "clearReclaim", "freeThenDeny"}
    BY DEF Here, PathOf, Early, NobodyRemoves, Onlookers, MayBeAt, EarlyCalls
  <1>2. made["main"] /\ ~SettingUp(a)
    BY <1>1 DEF Early, OnlookersSeeIt, SettingUp, Onlookers
  <1>3. /\ made'["main"] = made["main"] /\ creator'["main"] = creator["main"]
        /\ written'["main"] = written["main"] /\ fresh'["main"] = fresh["main"]
    BY DEF AgentStep, MkDir, CreateOwnerFile, FillOwnerFile, VerifyOwner, UndoRead, UndoRmdir,
       ProbeOwner, ProbeAge, CheckExists, Unlink, RmDir, ReleaseRead, RetryAfterWait, fs,
       Typed, TypeOK
  <1>4. ASSUME NEW s \in Steps, Continue(a, s) PROVE Early'
    <2>1. call' = [call EXCEPT ![a] = call[a]]
      BY <1>4 DEF Continue, Typed, TypeOK
    <2> QED
      BY <1>1, <1>2, <1>3, <1>4, <2>1, OnlyMoves
      DEF Continue, Onlookers, Typed, TypeOK, MayBeAt, EarlyCalls
  <1>5. ASSUME NEW c \in {"recheckMain", "probeReclaim", "reprobeMain", "clearReclaim",
                          "tryReclaim", "blocked", "active", "failed"},
               Enter(a, c)
        PROVE  Early'
    <2>1. c = "failed" => a \in Observers
      BY <1>5 DEF Enter, Undisturbed, Typed, TypeOK, Agents
    <2>2. c \in Calls /\ FirstStep(c) \in Steps /\ FirstStep(c) # "stat"
      BY <1>5
      DEF FirstStep, Steps, Calls, Tries, Probes, Clears, Frees, Ends
    <2>3. MayBeAt(a, c)
      BY <1>5, <2>1 DEF MayBeAt, EarlyCalls, Onlookers
    <2> QED
      BY <1>2, <1>3, <1>5, <2>2, <2>3, OnlyMoves DEF Enter, Onlookers
  <1>6. {"create", "fill", "verify", "undoRead", "undoRmdir", "stat", "unlink", "rmdir"}
          \subseteq Steps
    BY DEF Steps
  <1>7. /\ OnTaken("tryReclaim") = "probeReclaim" /\ OnLocked("tryReclaim") = "recheckMain"
        /\ OnThrow(call[a]) = "failed" /\ OnCleared("clearReclaim") = "tryReclaim"
        /\ OnActive(a, "probeReclaim") = "reprobeMain"
        /\ OnInactive(a, "probeReclaim") = "clearReclaim"
        /\ OnFreed(a, "freeThenDeny") \in {"blocked", "active"}
    BY <1>1
    DEF OnTaken, OnLocked, OnThrow, OnCleared, OnActive, OnInactive, OnFreed, Denied
  <1>8. CASE call[a] = "tryReclaim"
    BY <1>4, <1>5, <1>6, <1>7, <1>8
    DEF AgentStep, MkDir, CreateOwnerFile, FillOwnerFile, VerifyOwner, UndoRead, UndoRmdir,
        ProbeOwner, ProbeAge, CheckExists, Unlink, RmDir, ReleaseRead, RetryAfterWait, At,
        Probes, Clears, Frees
  <1>9. CASE call[a] = "probeReclaim"
    BY <1>4, <1>5, <1>6, <1>7, <1>9
    DEF AgentStep, MkDir, CreateOwnerFile, FillOwnerFile, VerifyOwner, UndoRead, UndoRmdir,
        ProbeOwner, ProbeAge, CheckExists, Unlink, RmDir, ReleaseRead, RetryAfterWait, At,
        Tries, Clears, Frees
  <1>10. CASE call[a] \in {"clearReclaim", "freeThenDeny"}
    <2>1. Unlink(a) \/ RmDir(a) \/ ReleaseRead(a)
      BY <1>10
      DEF AgentStep, MkDir, CreateOwnerFile, FillOwnerFile, VerifyOwner, UndoRead, UndoRmdir,
          ProbeOwner, ProbeAge, CheckExists, RetryAfterWait, At, Tries, Probes
    <2> QED
      BY <1>4, <1>5, <1>6, <1>7, <1>10, <2>1 DEF Unlink, RmDir, ReleaseRead, At, Clears, Frees
  <1> QED  BY <1>1, <1>8, <1>9, <1>10

\* The steps that look at the main lock.
LEMMA LookAtMainEarly ==
    ASSUME Typed, Early, Undisturbed, NEW a \in Agents, Here(a) = "main",
           ProbeOwner(a) \/ ProbeAge(a) \/ CheckExists(a)
    PROVE  Early'
  <1>1. call[a] \in {"probeMain", "reprobeMain", "recheckMain", "existsMain"}
    BY DEF ProbeOwner, ProbeAge, CheckExists, At, Probes, Here, PathOf
  <1>2. ~SettingUp(a) /\ UNCHANGED fs
    BY <1>1 DEF SettingUp, ProbeOwner, ProbeAge, CheckExists
  <1>3. ASSUME NEW c \in {"blocked", "active", "inactive", "existsMain", "freeThenDeny",
                          "tryReclaim"},
               Enter(a, c), c \in {"freeThenDeny", "tryReclaim"} => made["main"]
        PROVE  Early'
    <2>1. c \in Calls /\ FirstStep(c) \in Steps
      BY <1>3 DEF FirstStep, Steps, Calls, Tries, Probes, Clears, Frees, Ends
    <2>2. MayBeAt(a, c)
      BY <1>3 DEF MayBeAt, EarlyCalls, Onlookers
    <2> QED  BY <1>2, <1>3, <2>1, <2>2, OnlyMoves DEF Enter, Onlookers, fs
  <1>4. OnActive(a, call[a]) \in {"blocked", "active", "freeThenDeny"}
    BY <1>1 DEF OnActive, Denied
  <1>5. call[a] \in {"reprobeMain", "recheckMain"} => made["main"]
    BY DEF Early, OnlookersSeeIt, Onlookers
  <1>6. CASE ProbeOwner(a)
    <2>1. CASE Owner("main") = NoOne
      <3>1. Continue(a, "stat") /\ "stat" \in Steps
        BY <1>6, <2>1 DEF ProbeOwner, Steps
      <3>2. call' = [call EXCEPT ![a] = call[a]]
        BY <3>1 DEF Continue, Typed, TypeOK
      <3>3. made["main"] => fresh["main"]
        BY <2>1, LockLooksTaken
      <3>4. call[a] \in Calls /\ call[a] \in {"probeMain", "reprobeMain", "recheckMain"}
        BY <1>1, <1>6 DEF ProbeOwner, At, Probes, Typed, TypeOK
      <3>5. a \in Jobs /\ call[a] = "probeMain" => made["main"]
        BY DEF Early, OnlookersSeeIt
      <3> QED
        BY <1>2, <1>5, <3>1, <3>2, <3>3, <3>4, <3>5, OnlyMoves
        DEF Continue, Onlookers, fs, MayBeAt, EarlyCalls
    <2>2. CASE Owner("main") # NoOne
      <3>1. alive[Owner("main")]  BY <2>2, LockLooksTaken
      <3>2. made["main"]  BY <2>2 DEF Owner, Early, OneSetsUp
      <3> QED  BY <1>3, <1>4, <1>6, <2>2, <3>1, <3>2 DEF ProbeOwner
    <2> QED  BY <2>1, <2>2
  <1>7. CASE ProbeAge(a)
    <2>1. step[a] = "stat" /\ call[a] \in {"probeMain", "reprobeMain", "recheckMain"}
      BY <1>1, <1>7 DEF ProbeAge, At, Probes
    <2>2. CASE made["main"]
      <3>1. fresh["main"]  BY <2>1, <2>2 DEF Early, OnlookersSeeIt
      <3> QED  BY <1>3, <1>4, <1>7, <2>2, <3>1 DEF ProbeAge
    <2>3. CASE ~made["main"]
      <3>1. call[a] = "probeMain" /\ a \in Observers
        BY <1>5, <2>1, <2>3 DEF Early, OnlookersSeeIt, Agents
      <3>2. OnInactive(a, call[a]) = "existsMain"
        BY <3>1 DEF OnInactive
      <3> QED  BY <1>3, <1>7, <2>3, <3>2 DEF ProbeAge
    <2> QED  BY <2>2, <2>3
  <1>8. CASE CheckExists(a)
    BY <1>3, <1>8 DEF CheckExists
  <1> QED  BY <1>6, <1>7, <1>8

LEMMA AgentStepEarly ==
    ASSUME Typed, Early, Undisturbed, Undisturbed', NEW a \in Agents, AgentStep(a)
    PROVE  Early'
  <1>1. CASE Here(a) = "reclaim"
    BY <1>1, ReclaimEarly
  <1>2. CASE Here(a) = "main"
    <2>1. call[a] \in {"tryMain", "probeMain", "reprobeMain", "recheckMain", "existsMain",
                       "idle", "running", "blocked", "active", "inactive", "failed", "dead"}
      BY <1>2 DEF Here, PathOf, Early, NobodyRemoves, Onlookers, MayBeAt, EarlyCalls
    <2>2. \/ ProbeOwner(a) \/ ProbeAge(a) \/ CheckExists(a)
          \/ call[a] = "tryMain" /\ (MkDir(a) \/ CreateOwnerFile(a) \/ FillOwnerFile(a)
                                       \/ VerifyOwner(a) \/ UndoRead(a) \/ UndoRmdir(a))
      BY <2>1
      DEF AgentStep, MkDir, CreateOwnerFile, FillOwnerFile, VerifyOwner, UndoRead, UndoRmdir,
          Unlink, RmDir, ReleaseRead, RetryAfterWait, At, Tries, Clears, Frees
    <2> QED  BY <1>2, <2>2, LookAtMainEarly, TryMainEarly
  <1> QED  BY <1>1, <1>2 DEF Here, PathOf

\* An agent starts at the main lock; no job finishes or dies undisturbed; and
\* the grace period does not end under an agent that is at work on the lock.
LEMMA OtherStepsEarly ==
    ASSUME ~SlowDisk, Typed, DeadAreOut, Early, Undisturbed, Undisturbed',
           \/ \E a \in Agents : Start(a) \/ Finish(a) \/ Crash(a)
           \/ \E p \in Paths : GraceElapses(p)
    PROVE  Early'
  <1>1. ASSUME NEW a \in Agents, Start(a) PROVE Early'
    <2> DEFINE c == IF a \in Observers THEN "probeMain" ELSE "tryMain"
    <2>1. Enter(a, c) /\ UNCHANGED fs /\ ~SettingUp(a)
      BY <1>1 DEF Start, At, SettingUp
    <2>2. /\ c \in Calls /\ FirstStep(c) \in Steps /\ FirstStep(c) # "stat"
          /\ c = "tryMain" => FirstStep(c) = "mkdir"
      <3>1. CASE a \in Observers
        BY <3>1 DEF FirstStep, Steps, Calls, Tries, Probes, Clears, Frees, Ends
      <3>2. CASE a \notin Observers
        BY <3>2 DEF FirstStep, Steps, Calls, Tries, Probes, Clears, Frees, Ends
      <3> QED  BY <3>1, <3>2
    <2>3. a \in Jobs => c = "tryMain"
      BY JobsAssumption
    <2> HIDE DEF c
    <2>4. c \in {"probeMain", "tryMain"}  BY DEF c
    <2>5. MayBeAt(a, c)
      BY <2>4, JobsAssumption DEF MayBeAt, EarlyCalls, Onlookers, c
    <2> QED  BY <2>1, <2>2, <2>3, <2>4, <2>5, OnlyMoves DEF Enter, Onlookers, fs
  <1>2. ASSUME NEW a \in Agents PROVE ~Finish(a)
    <2>1. CASE a \in Jobs
      BY <2>1 DEF Finish, Enter, Undisturbed, Typed, TypeOK
    <2>2. CASE a \in Observers
      BY <2>2 DEF Finish, At, Early, NobodyRemoves, MayBeAt
    <2> QED  BY <2>1, <2>2 DEF Agents
  <1>4. ASSUME NEW a \in Agents, Crash(a) PROVE Early'
    <2>1. a \in Observers /\ a \notin Jobs
      BY <1>4, JobsAssumption DEF Crash, Undisturbed, Typed, TypeOK, Agents
    <2>2. ~SettingUp(a) /\ MayBeAt(a, "dead")
      BY <2>1 DEF SettingUp, Early, NobodyRemoves, MayBeAt
    <2>3. "dead" \in Calls /\ FirstStep("dead") \in Steps
      BY DEF FirstStep, Steps, Calls, Tries, Probes, Clears, Frees, Ends
    <2> QED  BY <1>4, <2>2, <2>3, OnlyMoves DEF Crash, Enter, fs, Onlookers
  <1>3. ASSUME NEW p \in Paths, GraceElapses(p) PROVE Early'
    <2>1. UNCHANGED <<made, creator, written, call, step>>
      BY <1>3 DEF GraceElapses
    <2>2. CASE p = "reclaim"
      <3>1. fresh'["main"] = fresh["main"]
        BY <1>3, <2>2 DEF GraceElapses, Typed, TypeOK
      <3> QED
        BY <2>1, <3>1 DEF Early, NobodyRemoves, OneSetsUp, OnlookersSeeIt, SettingUp
    <2>3. CASE p = "main"
      <3>1. ASSUME NEW a \in Agents, Here(a) = "main"
            PROVE  call[a] = "dead" \/ step[a] \notin {"create", "fill", "stat", "rmdir"}
        BY <1>3, <2>3, <3>1 DEF GraceElapses, Midway, DeadAreOut
      <3>2. \A a \in Agents : ~SettingUp(a)
        BY <3>1 DEF SettingUp, Here, PathOf
      <3>3. written["main"]
        BY <1>3, <2>3, <3>2 DEF GraceElapses, Early, OneSetsUp
      <3>4. \A a \in Agents :
              call[a] \in {"probeMain", "reprobeMain", "recheckMain"} => step[a] # "stat"
        BY <3>1 DEF Here, PathOf
      <3>5. OneSetsUp'
        BY <2>1, <3>2, <3>3 DEF Early, OneSetsUp, SettingUp
      <3> QED
        BY <2>1, <3>4, <3>5 DEF Early, NobodyRemoves, OnlookersSeeIt
    <2> QED  BY <2>2, <2>3
  <1> QED  BY <1>1, <1>2, <1>3, <1>4

LEMMA EarlyExcludes == Typed /\ Early => MutualExclusion
  BY DEF Early, OneSetsUp, MutualExclusion, Running, Agents

UntilDisturbed == Typed /\ DeadAreOut /\ (Undisturbed => Early)

LEMMA InitUntilDisturbed == Init => UntilDisturbed
  BY InitTyped, InitEarly DEF Init, DeadAreOut, UntilDisturbed

LEMMA NextUntilDisturbed ==
    ASSUME ~SlowDisk, UntilDisturbed, [Next]_vars PROVE UntilDisturbed'
  <1> SUFFICES ASSUME Undisturbed' PROVE Early'
    BY NextTyped, DeadStayOut DEF UntilDisturbed
  <1>1. CASE UNCHANGED vars
    BY <1>1
    DEF UntilDisturbed, vars, Undisturbed, Early, NobodyRemoves, OneSetsUp, OnlookersSeeIt,
        SettingUp, MayBeAt
  <1>2. CASE Next
    <2>1. Undisturbed /\ Early
      BY <1>2, UndisturbedBefore DEF UntilDisturbed
    <2> QED  BY <1>2, <2>1, AgentStepEarly, OtherStepsEarly DEF Next, UntilDisturbed
  <1> QED  BY <1>1, <1>2

\* Any number of processes that contend for a scope let one job through at
\* most, until one of the jobs dies, finishes or fails.
THEOREM FirstComersExclude ==
    ASSUME ~SlowDisk PROVE Spec => []FirstComerExcludes
  <1>1. UntilDisturbed => FirstComerExcludes
    BY EarlyExcludes DEF UntilDisturbed, FirstComerExcludes
  <1> QED  BY <1>1, InitUntilDisturbed, NextUntilDisturbed, PTL DEF Spec

-----------------------------------------------------------------------------
(***************************************************************************)
(* Two jobs: both running means that neither has been disturbed.           *)
(***************************************************************************)
LEMMA PairExcludes ==
    ASSUME NEW i, NEW j, Jobs \subseteq {i, j}, UntilDisturbed PROVE MutualExclusion
  <1> SUFFICES ASSUME NEW x \in Jobs, NEW y \in Jobs, Running(x), Running(y), x # y
               PROVE  FALSE
    BY DEF MutualExclusion
  <1>1. Jobs = {x, y}
    OBVIOUS
  <1>2. Undisturbed
    BY <1>1 DEF Undisturbed, UntilDisturbed, DeadAreOut, Running, Agents
  <1> QED  BY <1>2, EarlyExcludes DEF UntilDisturbed, MutualExclusion

\* Of two jobs, whatever the queries do, whoever dies and however a lock was
\* reclaimed, one runs its command at a time.
THEOREM TwoJobsExclude ==
    ASSUME ~SlowDisk, NEW i, NEW j, Jobs \subseteq {i, j}
    PROVE  Spec => []MutualExclusion
  <1>1. UntilDisturbed => MutualExclusion
    BY PairExcludes
  <1> QED  BY <1>1, InitUntilDisturbed, NextUntilDisturbed, PTL DEF Spec

\* A step moves one agent at most.
LEMMA OneMoves ==
    ASSUME Typed, [Next]_vars
    PROVE  call' = call \/ \E a \in Agents : \A b \in Agents : b # a => call'[b] = call[b]
  <1>1. ASSUME NEW a \in Agents, AgentStep(a) \/ Start(a) \/ Finish(a) \/ Crash(a)
        PROVE  \A b \in Agents : b # a => call'[b] = call[b]
    BY <1>1 DEF AgentStep, Start, Finish, Crash, MkDir, CreateOwnerFile, FillOwnerFile,
         VerifyOwner, UndoRead, UndoRmdir, ProbeOwner, ProbeAge, CheckExists, Unlink, RmDir,
         ReleaseRead, RetryAfterWait, Enter, Continue, Typed, TypeOK
  <1> QED  BY <1>1 DEF Next, GraceElapses, vars

Working == {j \in Jobs : Running(j)}

\* Where exclusion holds, a job that begins its command finds nobody at work.
LEMMA StepOfMutex ==
    ASSUME Typed, MutualExclusion', [Next]_vars
    PROVE  \/ \E j \in Jobs : Working = {} /\ Working' = Working \cup {j}
           \/ Working' \subseteq Working
  <1>1. CASE call' = call
    BY <1>1 DEF Working, Running
  <1>2. ASSUME NEW a \in Agents, \A b \in Agents : b # a => call'[b] = call[b]
        PROVE  \/ \E j \in Jobs : Working = {} /\ Working' = Working \cup {j}
               \/ Working' \subseteq Working
    <2>1. \A b \in Jobs : b # a => (Running(b)' <=> Running(b))
      BY <1>2 DEF Running, Agents
    <2>2. CASE a \in Jobs /\ Running(a)' /\ ~Running(a)
      <3>1. \A b \in Jobs : Running(b)' => b = a
        BY <2>2 DEF MutualExclusion
      <3> QED  BY <2>1, <2>2, <3>1 DEF Working
    <2>3. CASE ~(a \in Jobs /\ Running(a)' /\ ~Running(a))
      BY <2>1, <2>3 DEF Working
    <2> QED  BY <2>2, <2>3
  <1> QED  BY <1>1, <1>2, OneMoves

\* Two jobs implement the promise of a scope lock, step by step: who begins a
\* command finds nobody working, also when it got there by reclaiming a lock.
THEOREM TwoJobsImplementMutex ==
    ASSUME ~SlowDisk, NEW i, NEW j, Jobs \subseteq {i, j}
    PROVE  Spec => LockImplementsMutex
  <1>1. Init => Mutex!Init
    BY DEF Init, Mutex!Init, Running, Agents
  <1>2. UntilDisturbed /\ MutualExclusion' /\ [Next]_vars => [Mutex!Next]_Working
    <2> SUFFICES ASSUME UntilDisturbed, MutualExclusion', [Next]_vars
                 PROVE  Mutex!Next
      OBVIOUS
    <2>1. CASE \E k \in Jobs : Working = {} /\ Working' = Working \cup {k}
      BY <2>1 DEF Mutex!Next, Mutex!Begin, Working
    <2>2. CASE Working' \subseteq Working
      <3>1. Working' = Working \ (Working \ Working')
        BY <2>2
      <3>2. Working \ Working' \in SUBSET Working
        OBVIOUS
      <3> QED  BY <3>1, <3>2 DEF Mutex!Next, Mutex!End, Working
    <2> QED  BY <2>1, <2>2, StepOfMutex DEF UntilDisturbed
  <1>3. Spec => []MutualExclusion
    BY TwoJobsExclude
  <1> QED
    BY <1>1, <1>2, <1>3, InitUntilDisturbed, NextUntilDisturbed, PTL
    DEF Spec, LockImplementsMutex, Mutex!Spec, Working

-----------------------------------------------------------------------------
(***************************************************************************)
(* Every lock directory has an agent that is going to remove it.           *)
(***************************************************************************)
Installs(a, p) == call[a] \in Tries /\ Here(a) = p
Holds(a, p) ==
    \/ /\ p = "main"
       /\ call[a] = "running" \/ (call[a] = "freeMain" /\ step[a] \in {"read", "unlink"})
    \/ /\ p = "reclaim"
       /\ \/ call[a] \in {"recheckMain", "clearMain"}
          \/ /\ call[a] \in {"freeThenRetry", "freeThenDeny", "freeThenThrow"}
             /\ step[a] \in {"read", "unlink"}

\* Whoever created owner.json is going to be the owner, or is.
OwnerHolds(p) ==
    creator[p] # NoOne =>
        \/ Installs(creator[p], p) /\ step[creator[p]] = "fill"
        \/ written[p] /\ Installs(creator[p], p) /\ step[creator[p]] = "verify"
        \/ written[p] /\ Holds(creator[p], p)

\* An empty directory is about to get its owner.json or to be removed.
EmptyIsTended(p) ==
    made[p] /\ creator[p] = NoOne =>
        \E a \in Agents :
            /\ Here(a) = p
            /\ \/ call[a] \in Tries /\ step[a] = "create"
               \/ call[a] \in Clears \cup Frees /\ step[a] = "rmdir"

FilesAreInside == \A p \in Paths : (~made[p] => creator[p] = NoOne)
                                   /\ (written[p] => creator[p] # NoOne)
NobodyDied == \A a \in Agents : call[a] # "dead"
Tended == NobodyDied => \A p \in Paths : OwnerHolds(p) /\ EmptyIsTended(p)

LEMMA FilesStayInside ==
    ASSUME Typed, FilesAreInside, [Next]_vars PROVE FilesAreInside'
  <1>1. ASSUME NEW a \in Agents, AgentStep(a) PROVE FilesAreInside'
    <2>0. Here(a) \in Paths /\ a # NoOne
      BY JobsAssumption, NextCalls DEF Typed, TypeOK, Here, Agents
    <2>1. CASE MkDir(a)
      BY <2>0, <2>1 DEF MkDir, FilesAreInside, Typed, TypeOK, fs
    <2>2. CASE CreateOwnerFile(a)
      BY <2>0, <2>2 DEF CreateOwnerFile, FilesAreInside, Typed, TypeOK, fs
    <2>3. CASE FillOwnerFile(a)
      BY <2>0, <2>3 DEF FillOwnerFile, FilesAreInside, Typed, TypeOK
    <2>4. CASE UndoRmdir(a)
      BY <2>0, <2>4 DEF UndoRmdir, FilesAreInside, Typed, TypeOK
    <2>5. CASE Unlink(a)
      BY <2>0, <2>5 DEF Unlink, FilesAreInside, Typed, TypeOK
    <2>6. CASE RmDir(a)
      BY <2>0, <2>6 DEF RmDir, FilesAreInside, Typed, TypeOK
    <2>7. CASE UNCHANGED fs
      BY <2>7 DEF fs, FilesAreInside
    <2> QED
      BY <1>1, <2>1, <2>2, <2>3, <2>4, <2>5, <2>6, <2>7
      DEF AgentStep, VerifyOwner, UndoRead, ProbeOwner, ProbeAge, CheckExists, ReleaseRead,
          RetryAfterWait
  <1>2. CASE UNCHANGED <<made, creator, written>>
    BY <1>2 DEF FilesAreInside
  <1> QED
    BY <1>1, <1>2 DEF Next, Start, Finish, Crash, GraceElapses, vars, fs

\* A path that a step leaves as it was, when the agent of the step was not the one to
\* tend it, or still is.
LEMMA PathKept ==
    ASSUME Typed, NEW a \in Agents, NEW p \in Paths, OwnerHolds(p), EmptyIsTended(p),
           \A b \in Agents \ {a} : call'[b] = call[b] /\ step'[b] = step[b],
           made'[p] = made[p], creator'[p] = creator[p], written'[p] = written[p],
           creator[p] = a => OwnerHolds(p)',
           ~(/\ made[p] /\ creator[p] = NoOne /\ Here(a) = p
             /\ \/ call[a] \in Tries /\ step[a] = "create"
                \/ call[a] \in Clears \cup Frees /\ step[a] = "rmdir")
    PROVE  OwnerHolds(p)' /\ EmptyIsTended(p)'
  <1>1. creator[p] \in Agents \cup {NoOne}  BY DEF Typed, TypeOK
  <1>2. OwnerHolds(p)'
    BY <1>1 DEF OwnerHolds, Installs, Holds, Here
  <1>3. EmptyIsTended(p)'
    BY DEF EmptyIsTended, Here
  <1> QED  BY <1>2, <1>3

\* An agent at work on one path keeps its role at the other.
LEMMA OtherPathKept ==
    ASSUME Typed, NEW a \in Agents, AgentStep(a), NEW p \in Paths, p # Here(a),
           OwnerHolds(p), EmptyIsTended(p)
    PROVE  OwnerHolds(p)' /\ EmptyIsTended(p)'
  <1>1. \A b \in Agents \ {a} : call'[b] = call[b] /\ step'[b] = step[b]
    BY DEF AgentStep, MkDir, CreateOwnerFile, FillOwnerFile, VerifyOwner, UndoRead, UndoRmdir,
       ProbeOwner, ProbeAge, CheckExists, Unlink, RmDir, ReleaseRead, RetryAfterWait, Enter, Continue,
       Typed, TypeOK
  <1>2. made'[p] = made[p] /\ creator'[p] = creator[p] /\ written'[p] = written[p]
    BY DEF AgentStep, MkDir, CreateOwnerFile, FillOwnerFile, VerifyOwner, UndoRead, UndoRmdir,
       ProbeOwner, ProbeAge, CheckExists, Unlink, RmDir, ReleaseRead, RetryAfterWait, fs,
       Typed, TypeOK
  <1>3. ASSUME creator[p] = a PROVE OwnerHolds(p)'
    <2>0. a # NoOne  BY JobsAssumption DEF Agents
    <2>1. p = "reclaim" /\ call[a] \in {"recheckMain", "clearMain"} /\ written[p]
      BY <1>3, <2>0 DEF OwnerHolds, Installs, Holds, Here, PathOf, AgentStep, MkDir, CreateOwnerFile,
         FillOwnerFile, VerifyOwner, UndoRead, UndoRmdir, ProbeOwner, ProbeAge, CheckExists, Unlink,
         RmDir, ReleaseRead, RetryAfterWait, At, Tries, Probes, Clears, Frees
    <2>2. ProbeOwner(a) \/ ProbeAge(a) \/ Unlink(a) \/ RmDir(a)
      BY <2>1 DEF AgentStep, MkDir, CreateOwnerFile, FillOwnerFile, VerifyOwner, UndoRead, UndoRmdir,
         CheckExists, ReleaseRead, RetryAfterWait, At, Tries, Frees
    <2>3. \/ call'[a] \in {"recheckMain", "clearMain"}
          \/ call'[a] \in {"freeThenRetry", "freeThenDeny", "freeThenThrow"} /\ step'[a] = "read"
      BY <2>1, <2>2 DEF ProbeOwner, ProbeAge, Unlink, RmDir, Enter, Continue, OnActive, OnInactive,
         OnCleared, OnThrow, FirstStep, Tries, Probes, Frees, Clears, At, Typed, TypeOK
    <2> QED  BY <1>2, <1>3, <2>1, <2>3 DEF OwnerHolds, Holds
  <1> QED  BY <1>1, <1>2, <1>3, PathKept

\* The path that it works on.
LEMMA ThisPathKept ==
    ASSUME Typed, FilesAreInside, NEW a \in Agents, AgentStep(a), NEW p, p = Here(a),
           OwnerHolds(p), EmptyIsTended(p)
    PROVE  OwnerHolds(p)' /\ EmptyIsTended(p)'
  <1>0. /\ p \in Paths /\ a # NoOne /\ NoOne \notin Agents
        /\ call \in [Agents -> Calls] /\ step \in [Agents -> Steps]
        /\ creator \in [Paths -> Agents \cup {NoOne}]
        /\ made \in [Paths -> BOOLEAN] /\ written \in [Paths -> BOOLEAN]
    BY JobsAssumption, NextCalls DEF Typed, TypeOK, Here, Agents
  <1>1. \A b \in Agents \ {a} : call'[b] = call[b] /\ step'[b] = step[b]
    BY DEF AgentStep, MkDir, CreateOwnerFile, FillOwnerFile, VerifyOwner, UndoRead, UndoRmdir,
       ProbeOwner, ProbeAge, CheckExists, Unlink, RmDir, ReleaseRead, RetryAfterWait, Enter, Continue,
       Typed, TypeOK
  <1>2. CASE MkDir(a)
    <2>1. call[a] \in Tries /\ step[a] = "mkdir"  BY <1>2 DEF MkDir, At
    <2>2. creator[p] # a
      BY <1>0, <2>1 DEF OwnerHolds, Holds, Installs, Tries
    <2>3. CASE made[p]
      BY <1>1, <1>0, <1>2, <2>1, <2>2, <2>3, PathKept DEF MkDir, fs, Tries, Clears, Frees
    <2>4. CASE ~made[p]
      <3>1. /\ call'[a] = call[a] /\ step'[a] = "create" /\ creator[p] = NoOne
            /\ creator' = creator
        BY <1>0, <1>2, <2>4 DEF MkDir, Continue, FilesAreInside
      <3> QED  BY <1>0, <2>1, <3>1 DEF OwnerHolds, EmptyIsTended, Here
    <2> QED  BY <2>3, <2>4
  <1>3. CASE CreateOwnerFile(a)
    <2>1. call[a] \in Tries /\ step[a] = "create"  BY <1>3 DEF CreateOwnerFile, At
    <2>2. creator[p] # a
      BY <1>0, <2>1 DEF OwnerHolds, Holds, Installs, Tries
    <2>3. CASE UNCHANGED fs
      <3>1. ~(made[p] /\ creator[p] = NoOne)
        BY <1>0, <1>3, <2>1, <2>3 DEF CreateOwnerFile, fs
      <3> QED  BY <1>0, <1>1, <2>1, <2>2, <2>3, <3>1, PathKept DEF fs
    <2>4. CASE ~UNCHANGED fs
      <3>1. /\ creator'[p] = a /\ step'[a] = "fill" /\ call'[a] = call[a]
        BY <1>0, <1>3, <2>4 DEF CreateOwnerFile, Continue
      <3> QED  BY <1>0, <2>1, <3>1 DEF OwnerHolds, EmptyIsTended, Installs, Here
    <2> QED  BY <2>3, <2>4
  <1>4. CASE FillOwnerFile(a)
    <2>1. call[a] \in Tries /\ step[a] = "fill"  BY <1>4 DEF FillOwnerFile, At
    <2>2. /\ UNCHANGED <<made, creator>> /\ call'[a] = call[a]
          /\ written'[p] = (written[p] \/ creator[p] = a)
          /\ creator[p] = a => step'[a] = "verify"
      BY <1>0, <1>4 DEF FillOwnerFile, Continue
    <2>3. CASE creator[p] = a
      BY <1>0, <2>1, <2>2, <2>3 DEF OwnerHolds, EmptyIsTended, Installs, Here
    <2>4. CASE creator[p] # a
      <3>1. written'[p] = written[p]  BY <1>0, <2>2, <2>4
      <3> QED  BY <1>0, <1>1, <2>1, <2>2, <2>4, <3>1, PathKept DEF Tries, Clears, Frees
    <2> QED  BY <2>3, <2>4
  <1>5. CASE VerifyOwner(a)
    <2>1. call[a] \in Tries /\ step[a] = "verify" /\ UNCHANGED fs  BY <1>5 DEF VerifyOwner, At
    <2>2. ASSUME creator[p] = a PROVE OwnerHolds(p)'
      <3>1. written[p]
        BY <1>0, <2>1, <2>2 DEF OwnerHolds, Installs, Holds, Tries
      <3>2. Enter(a, OnLocked(call[a]))  BY <1>5, <2>2, <3>1 DEF VerifyOwner, Owner
      <3>3. call'[a] = IF p = "main" THEN "running" ELSE "recheckMain"
        BY <1>0, <2>1, <3>2 DEF Enter, OnLocked, Here, PathOf, Tries
      <3> QED  BY <1>0, <2>1, <2>2, <3>1, <3>3 DEF OwnerHolds, Holds, fs
    <2> QED  BY <1>0, <1>1, <2>1, <2>2, PathKept DEF fs, Tries, Clears, Frees
  <1>6. CASE UndoRead(a) \/ ProbeAge(a) \/ CheckExists(a) \/ RetryAfterWait(a)
    <2>1. UNCHANGED fs /\ step[a] \notin {"create", "rmdir"}
      BY <1>6 DEF UndoRead, ProbeAge, CheckExists, RetryAfterWait, At
    <2>2. creator[p] # a
      BY <1>0, <1>6 DEF UndoRead, ProbeAge, CheckExists, RetryAfterWait, At, OwnerHolds, Installs, Holds,
         Here, PathOf, Tries, Probes
    <2> QED  BY <1>0, <1>1, <2>1, <2>2, PathKept DEF fs
  <1>7. CASE ProbeOwner(a)
    <2>1. UNCHANGED fs /\ step[a] = "read" /\ call[a] \in Probes
      BY <1>7 DEF ProbeOwner, At
    <2>2. creator[p] # a
      BY <1>0, <2>1 DEF OwnerHolds, Installs, Holds, Here, PathOf, Tries, Probes
    <2> QED  BY <1>0, <1>1, <2>1, <2>2, PathKept DEF fs
  <1>8. CASE UndoRmdir(a)
    <2>1. /\ call[a] \in Tries /\ step[a] = "undoRmdir" /\ UNCHANGED <<creator, written>>
          /\ made'[p] = (made[p] /\ creator[p] # NoOne)
      BY <1>0, <1>8 DEF UndoRmdir, At
    <2>2. creator[p] # a
      BY <1>0, <2>1 DEF OwnerHolds, Installs, Holds, Tries
    <2>3. CASE creator[p] = NoOne
      BY <2>1, <2>3 DEF OwnerHolds, EmptyIsTended
    <2>4. CASE creator[p] # NoOne
      <3>1. made'[p] = made[p]  BY <1>0, <2>1, <2>4
      <3> QED  BY <1>0, <1>1, <2>1, <2>2, <2>4, <3>1, PathKept
    <2> QED  BY <2>3, <2>4
  <1>9. CASE Unlink(a)
    <2>1. /\ call[a] \in Clears \cup Frees /\ call'[a] = call[a] /\ step'[a] = "rmdir"
          /\ creator'[p] = NoOne
      BY <1>0, <1>9 DEF Unlink, At, Continue
    <2> QED  BY <1>0, <2>1 DEF OwnerHolds, EmptyIsTended, Here
  <1>10. CASE RmDir(a)
    <2>1. /\ call[a] \in Clears \cup Frees /\ step[a] = "rmdir" /\ UNCHANGED <<creator, written>>
          /\ \/ creator[p] = NoOne /\ made'[p] = FALSE
             \/ creator[p] # NoOne /\ made'[p] = made[p]
      BY <1>0, <1>10 DEF RmDir, At
    <2>2. creator[p] # a
      BY <1>0, <2>1 DEF OwnerHolds, Installs, Holds, Here, PathOf, Tries, Clears, Frees
    <2>3. CASE creator[p] = NoOne
      BY <2>1, <2>3 DEF OwnerHolds, EmptyIsTended
    <2>4. CASE creator[p] # NoOne
      BY <1>0, <1>1, <2>1, <2>2, <2>4, PathKept
    <2> QED  BY <2>3, <2>4
  <1>11. CASE ReleaseRead(a)
    <2>1. call[a] \in Frees /\ step[a] = "read" /\ UNCHANGED fs
      BY <1>11 DEF ReleaseRead, At
    <2>2. ASSUME creator[p] = a PROVE OwnerHolds(p)'
      <3>1. written[p] /\ Holds(a, p)
        BY <1>0, <2>1, <2>2 DEF OwnerHolds, Installs
      <3>2. Continue(a, "unlink")  BY <1>11, <2>2, <3>1 DEF ReleaseRead, Owner
      <3>3. call'[a] = call[a] /\ step'[a] = "unlink"  BY <1>0, <3>2 DEF Continue
      <3> QED  BY <1>0, <2>1, <2>2, <3>1, <3>3 DEF OwnerHolds, Holds, fs, Frees
    <2> QED  BY <1>0, <1>1, <2>1, <2>2, PathKept DEF fs
  <1> QED
    BY <1>2, <1>3, <1>4, <1>5, <1>6, <1>7, <1>8, <1>9, <1>10, <1>11 DEF AgentStep

LEMMA TendedStep == ASSUME Typed, Tended, FilesAreInside, Next PROVE Tended'
  <1> SUFFICES ASSUME NobodyDied' PROVE \A p \in Paths : OwnerHolds(p)' /\ EmptyIsTended(p)'
    BY DEF Tended
  <1>1. ASSUME NEW a \in Agents, AgentStep(a)
        PROVE  \A p \in Paths : OwnerHolds(p)' /\ EmptyIsTended(p)'
    <2>1. \A p \in Paths : OwnerHolds(p) /\ EmptyIsTended(p)
      BY <1>1 DEF Tended, NobodyDied, AgentStep, MkDir, CreateOwnerFile, FillOwnerFile, VerifyOwner,
         UndoRead, UndoRmdir, ProbeOwner, ProbeAge, CheckExists, Unlink, RmDir, ReleaseRead,
         RetryAfterWait, At, Tries, Probes, Clears, Frees, Enter, Continue, Typed, TypeOK
    <2> QED  BY <1>1, <2>1, OtherPathKept, ThisPathKept
  <1>2. ASSUME NEW a \in Agents, Start(a) \/ Finish(a)
        PROVE  \A p \in Paths : OwnerHolds(p)' /\ EmptyIsTended(p)'
    <2>0. a # NoOne /\ call \in [Agents -> Calls] /\ step \in [Agents -> Steps]
      BY JobsAssumption DEF Typed, TypeOK, Agents
    <2>1. \A p \in Paths : OwnerHolds(p) /\ EmptyIsTended(p)
      BY <1>2, <2>0 DEF Tended, NobodyDied, Start, Finish, At, Enter
    <2>2. /\ \A b \in Agents \ {a} : call'[b] = call[b] /\ step'[b] = step[b]
          /\ UNCHANGED fs
      BY <1>2, <2>0 DEF Start, Finish, Enter
    <2>3. ASSUME NEW p \in Paths, creator[p] = a PROVE OwnerHolds(p)'
      <3>1. p = "main" /\ call[a] = "running" /\ written[p]
        BY <1>2, <2>0, <2>1, <2>3 DEF Start, Finish, At, OwnerHolds, Installs, Holds, Tries
      <3>2. call'[a] = "freeMain" /\ step'[a] = "read"
        <4>1. Finish(a)  BY <1>2, <3>1 DEF Start, At
        <4>2. FirstStep("freeMain") = "read"  BY DEF FirstStep, Tries, Probes, Clears, Frees
        <4> QED  BY <2>0, <4>1, <4>2 DEF Finish, Enter
      <3> QED  BY <2>2, <2>3, <3>1, <3>2 DEF OwnerHolds, Holds, fs
    <2>4. call[a] \notin Tries \cup Clears \cup Frees
      BY <1>2 DEF Start, Finish, At, Tries, Clears, Frees
    <2> QED  BY <2>1, <2>2, <2>3, <2>4, PathKept DEF fs
  <1>3. ASSUME NEW a \in Agents, Crash(a) PROVE FALSE
    BY <1>3 DEF Crash, Enter, NobodyDied, Typed, TypeOK
  <1>4. ASSUME NEW q \in Paths, GraceElapses(q)
        PROVE  \A p \in Paths : OwnerHolds(p)' /\ EmptyIsTended(p)'
    BY <1>4 DEF GraceElapses, Tended, NobodyDied, OwnerHolds, EmptyIsTended, Installs, Holds, Here
  <1> QED  BY <1>1, <1>2, <1>3, <1>4 DEF Next

\* When every call is through and no process died, no lock directory is left.
THEOREM LocksNeverLeak == Spec => []NoLeak
  <1> DEFINE Inv == Typed /\ FilesAreInside /\ Tended
  <1>1. Init => Inv
    <2> SUFFICES ASSUME Init PROVE Inv
      OBVIOUS
    <2>1. Typed  BY InitTyped
    <2>2. FilesAreInside /\ Tended
      BY DEF Init, FilesAreInside, Tended, OwnerHolds, EmptyIsTended
    <2> QED  BY <2>1, <2>2
  <1>2. Inv /\ [Next]_vars => Inv'
    <2> SUFFICES ASSUME Inv, [Next]_vars PROVE Inv'
      OBVIOUS
    <2>1. CASE UNCHANGED vars
      <3>1. Tended'
        BY <2>1 DEF vars, Tended, NobodyDied, OwnerHolds, EmptyIsTended, Installs, Holds, Here
      <3> QED  BY <3>1, NextTyped, FilesStayInside
    <2>2. CASE Next
      BY <2>2, NextTyped, FilesStayInside, TendedStep
    <2> QED  BY <2>1, <2>2
  <1>3. Inv => NoLeak
    <2> SUFFICES ASSUME Inv, AllOver, NEW p \in Paths, made[p] PROVE FALSE
      BY DEF NoLeak
    <2>1. \A a \in Agents : call[a] \in Ends \ {"dead"}  BY DEF AllOver
    <2>2. OwnerHolds(p) /\ EmptyIsTended(p)  BY <2>1 DEF Tended, NobodyDied
    <2>3. creator[p] \in Agents \cup {NoOne}  BY DEF Typed, TypeOK
    <2>4. \A a \in Agents : call[a] \notin Tries \cup Clears \cup Frees /\ ~Holds(a, p)
      BY <2>1 DEF Ends, Tries, Clears, Frees, Holds
    <2> QED  BY <2>2, <2>3, <2>4 DEF OwnerHolds, EmptyIsTended, Installs
  <1> QED  BY <1>1, <1>2, <1>3, PTL DEF Spec

-----------------------------------------------------------------------------
(***************************************************************************)
(* A process that comes alone.                                             *)
(***************************************************************************)
\* A lock that somebody has left behind, or none.
LeftOver(p) == made[p] => ~fresh[p] /\ (Owner(p) # NoOne => ~alive[Owner(p)])

\* How far a is in making the lock p.
Trying(a, p) ==
    /\ step[a] \in {"mkdir", "create", "fill", "verify"}
    /\ step[a] = "mkdir" => LeftOver(p)
    /\ step[a] = "create" => made[p] /\ creator[p] = NoOne
    /\ step[a] = "fill" => made[p] /\ creator[p] = a
    /\ step[a] = "verify" => Owner(p) = a

MainIsInOrder(a) ==
    /\ call[a] = "tryMain" => Trying(a, "main")
    /\ call[a] \in {"probeMain", "existsMain", "tryReclaim", "probeReclaim", "clearReclaim",
                    "recheckMain"} => LeftOver("main")
    /\ call[a] \in {"running", "freeMain"} /\ step[a] # "rmdir" => Owner("main") = a
    /\ call[a] \in {"freeMain", "clearMain"} /\ step[a] = "rmdir" => creator["main"] = NoOne
    /\ call[a] = "freeThenRetry" => ~made["main"]

ReclaimIsInOrder(a) ==
    /\ call[a] = "tryReclaim" => Trying(a, "reclaim")
    /\ call[a] \in {"tryMain", "probeMain", "existsMain", "probeReclaim"} => LeftOver("reclaim")
    /\ call[a] \in {"recheckMain", "clearMain"} => Owner("reclaim") = a
    /\ call[a] = "freeThenRetry" /\ step[a] # "rmdir" => Owner("reclaim") = a
    /\ call[a] \in {"clearReclaim", "freeThenRetry"} /\ step[a] = "rmdir"
         => creator["reclaim"] = NoOne

LoneCalls == {"tryMain", "probeMain", "existsMain", "tryReclaim", "probeReclaim", "clearReclaim",
              "recheckMain", "clearMain", "freeThenRetry", "running", "freeMain"}

Lone(a) ==
    /\ \A b \in Others(a) : ~Busy(b)
    /\ \/ alive[a] /\ call[a] \in LoneCalls /\ MainIsInOrder(a) /\ ReclaimIsInOrder(a)
       \/ call[a] \in {"released", "inactive", "dead"}

\* A lock that is left over stays so while nobody is at it.
LEMMA LeftOverStays ==
    ASSUME Typed, FilesAreInside, NEW p \in Paths, LeftOver(p),
           made'[p] = made[p], creator'[p] = creator[p], written'[p] = written[p],
           fresh'[p] => fresh[p], \A b \in Agents : alive'[b] => alive[b]
    PROVE  LeftOver(p)'
  <1>1. Owner(p) \in Agents \cup {NoOne} /\ Owner(p)' = Owner(p)
    BY DEF Owner, Typed, TypeOK
  <1> QED  BY <1>1 DEF LeftOver

\* What the agent of a step leaves alone.
LEMMA StepLeaves ==
    ASSUME Typed, NEW a \in Agents, AgentStep(a) \/ Finish(a)
    PROVE  /\ alive' = alive
           /\ \A b \in Agents \ {a} : call'[b] = call[b] /\ step'[b] = step[b]
           /\ \A p \in Paths : p # Here(a) => /\ made'[p] = made[p] /\ creator'[p] = creator[p]
                                              /\ written'[p] = written[p] /\ fresh'[p] = fresh[p]
  <1>1. \A b \in Agents \ {a} : call'[b] = call[b] /\ step'[b] = step[b]
    BY DEF AgentStep, MkDir, CreateOwnerFile, FillOwnerFile, VerifyOwner, UndoRead, UndoRmdir,
       ProbeOwner, ProbeAge, CheckExists, Unlink, RmDir, ReleaseRead, RetryAfterWait, Enter, Continue,
       Finish, Typed, TypeOK
  <1>2. alive' = alive
    BY DEF AgentStep, MkDir, CreateOwnerFile, FillOwnerFile, VerifyOwner, UndoRead, UndoRmdir,
       ProbeOwner, ProbeAge, CheckExists, Unlink, RmDir, ReleaseRead, RetryAfterWait, Finish
  <1>3. \A p \in Paths : p # Here(a) => /\ made'[p] = made[p] /\ creator'[p] = creator[p]
                                        /\ written'[p] = written[p] /\ fresh'[p] = fresh[p]
    BY DEF AgentStep, MkDir, CreateOwnerFile, FillOwnerFile, VerifyOwner, UndoRead, UndoRmdir,
       ProbeOwner, ProbeAge, CheckExists, Unlink, RmDir, ReleaseRead, RetryAfterWait, fs, Finish,
       Typed, TypeOK
  <1> QED  BY <1>1, <1>2, <1>3

\* A step of an attempt: the agent goes on with it, has the lock, or finds it left over.
LEMMA TryingGoesOn ==
    ASSUME Typed, FilesAreInside, NEW a \in Agents, call[a] \in Tries, NEW p, p = Here(a), Trying(a, p),
           AgentStep(a)
    PROVE  \/ call'[a] = call[a] /\ Trying(a, p)'
           \/ /\ call'[a] = OnLocked(call[a]) /\ step'[a] = FirstStep(OnLocked(call[a]))
              /\ UNCHANGED fs /\ Owner(p) = a
           \/ /\ call'[a] = OnTaken(call[a]) /\ step'[a] = FirstStep(OnTaken(call[a]))
              /\ UNCHANGED fs /\ LeftOver(p)
  <1>0. /\ p \in Paths /\ a # NoOne /\ call \in [Agents -> Calls] /\ step \in [Agents -> Steps]
        /\ creator \in [Paths -> Agents \cup {NoOne}]
        /\ made \in [Paths -> BOOLEAN] /\ written \in [Paths -> BOOLEAN]
    BY JobsAssumption, NextCalls DEF Typed, TypeOK, Here, Agents
  <1>1. MkDir(a) \/ CreateOwnerFile(a) \/ FillOwnerFile(a) \/ VerifyOwner(a)
    BY DEF AgentStep, UndoRead, UndoRmdir, ProbeOwner, ProbeAge, CheckExists, Unlink, RmDir, ReleaseRead,
       RetryAfterWait, At, Tries, Probes, Clears, Frees, Trying
  <1>2. CASE MkDir(a)
    <2>1. step[a] = "mkdir" /\ LeftOver(p)  BY <1>2 DEF MkDir, At, Trying
    <2>2. CASE made[p]
      BY <1>0, <1>2, <2>1, <2>2 DEF MkDir, Enter
    <2>3. CASE ~made[p]
      BY <1>0, <1>2, <2>3 DEF MkDir, Continue, Trying, FilesAreInside
    <2> QED  BY <2>2, <2>3
  <1>3. CASE CreateOwnerFile(a)
    <2>1. made[p] /\ creator[p] = NoOne  BY <1>3 DEF CreateOwnerFile, At, Trying
    <2>2. /\ made' = made /\ creator'[p] = a /\ step'[a] = "fill" /\ call' = call
      BY <1>0, <1>3, <2>1 DEF CreateOwnerFile, Continue
    <2> QED  BY <2>1, <2>2 DEF Trying
  <1>4. CASE FillOwnerFile(a)
    <2>1. made[p] /\ creator[p] = a  BY <1>4 DEF FillOwnerFile, At, Trying
    <2>2. /\ creator' = creator /\ written'[p] /\ step'[a] = "verify" /\ call' = call
      BY <1>0, <1>4, <2>1 DEF FillOwnerFile, Continue
    <2> QED  BY <2>1, <2>2 DEF Trying, Owner
  <1>5. CASE VerifyOwner(a)
    <2>1. Owner(p) = a  BY <1>5 DEF VerifyOwner, At, Trying
    <2> QED  BY <1>0, <1>5, <2>1 DEF VerifyOwner, Enter
  <1> QED  BY <1>1, <1>2, <1>3, <1>4, <1>5

\* A lock that is left over is found inactive.
LEMMA ProbeFindsInactive ==
    ASSUME Typed, FilesAreInside, NEW a \in Agents, call[a] \in Probes, NEW p, p = Here(a), LeftOver(p),
           AgentStep(a)
    PROVE  /\ UNCHANGED fs
           /\ \/ call'[a] = call[a]
              \/ /\ call'[a] = OnInactive(a, call[a])
                 /\ step'[a] = FirstStep(OnInactive(a, call[a]))
  <1>0. /\ p \in Paths /\ call \in [Agents -> Calls] /\ step \in [Agents -> Steps]
        /\ NoOne \notin Agents
    BY JobsAssumption, NextCalls DEF Typed, TypeOK, Here, Agents
  <1>1. ProbeOwner(a) \/ ProbeAge(a)
    BY DEF AgentStep, MkDir, CreateOwnerFile, FillOwnerFile, VerifyOwner, UndoRead, UndoRmdir,
       CheckExists, Unlink, RmDir, ReleaseRead, RetryAfterWait, At, Tries, Probes, Clears, Frees
  <1>2. CASE ProbeOwner(a)
    <2>1. CASE Owner(p) = NoOne
      BY <1>0, <1>2, <2>1 DEF ProbeOwner, Continue
    <2>2. CASE Owner(p) # NoOne
      <3>1. ~alive[Owner(p)]
        BY <1>0, <2>2 DEF LeftOver, Owner, FilesAreInside
      <3> QED  BY <1>0, <1>2, <2>2, <3>1 DEF ProbeOwner, Enter
    <2> QED  BY <2>1, <2>2
  <1>3. CASE ProbeAge(a)
    BY <1>0, <1>3 DEF ProbeAge, Enter, LeftOver
  <1> QED  BY <1>1, <1>2, <1>3

\* rm of a directory that nobody else is at.
LEMMA ClearingGoesOn ==
    ASSUME Typed, NEW a \in Agents, call[a] \in Clears \cup Frees, NEW p, p = Here(a), AgentStep(a),
           step[a] = "rmdir" => creator[p] = NoOne,
           call[a] \in Frees /\ step[a] # "rmdir" => Owner(p) = a
    PROVE  \/ /\ call'[a] = call[a] /\ step[a] = "read" /\ step'[a] = "unlink" /\ UNCHANGED fs
           \/ call'[a] = call[a] /\ step[a] = "unlink" /\ step'[a] = "rmdir" /\ creator'[p] = NoOne
           \/ /\ step[a] = "rmdir" /\ made'[p] = FALSE /\ call[a] \in Clears
              /\ call'[a] = OnCleared(call[a]) /\ step'[a] = FirstStep(OnCleared(call[a]))
           \/ /\ step[a] = "rmdir" /\ made'[p] = FALSE /\ call[a] \in Frees
              /\ call'[a] = OnFreed(a, call[a]) /\ step'[a] = FirstStep(OnFreed(a, call[a]))
  <1>0. /\ p \in Paths /\ call \in [Agents -> Calls] /\ step \in [Agents -> Steps]
        /\ made \in [Paths -> BOOLEAN] /\ creator \in [Paths -> Agents \cup {NoOne}]
    BY NextCalls DEF Typed, TypeOK, Here
  <1>1. Unlink(a) \/ RmDir(a) \/ ReleaseRead(a)
    BY DEF AgentStep, MkDir, CreateOwnerFile, FillOwnerFile, VerifyOwner, UndoRead, UndoRmdir,
       ProbeOwner, ProbeAge, CheckExists, RetryAfterWait, At, Tries, Probes, Clears, Frees
  <1>2. CASE Unlink(a)
    BY <1>0, <1>2 DEF Unlink, At, Continue
  <1>3. CASE RmDir(a)
    <2>1. step[a] = "rmdir" /\ creator[p] = NoOne  BY <1>3 DEF RmDir, At
    <2>2. made'[p] = FALSE  BY <1>0, <1>3, <2>1 DEF RmDir
    <2> QED  BY <1>0, <1>3, <2>1, <2>2 DEF RmDir, Enter, Clears, Frees
  <1>4. CASE ReleaseRead(a)
    BY <1>0, <1>4 DEF ReleaseRead, At, Continue
  <1> QED  BY <1>1, <1>2, <1>3, <1>4

\* The step of a lone agent keeps it in order, or its call is over.
LEMMA LoneStep ==
    ASSUME Typed, FilesAreInside, NEW a \in Agents, alive[a], call[a] \in LoneCalls,
           MainIsInOrder(a), ReclaimIsInOrder(a), AgentStep(a) \/ Finish(a)
    PROVE  \/ call'[a] \in {"released", "inactive"}
           \/ alive'[a] /\ call'[a] \in LoneCalls /\ MainIsInOrder(a)' /\ ReclaimIsInOrder(a)'
  <1>1. alive'[a]  BY StepLeaves
  <1>2. ASSUME NEW p \in Paths, p # Here(a), LeftOver(p)  PROVE LeftOver(p)'
    BY <1>2, StepLeaves, LeftOverStays
  <1>3. ASSUME NEW p \in Paths, p # Here(a)
        PROVE  made'[p] = made[p] /\ creator'[p] = creator[p] /\ Owner(p)' = Owner(p)
    BY <1>3, StepLeaves DEF Owner
  <1>4. ASSUME NEW p \in Paths, made'[p] = FALSE  PROVE LeftOver(p)'
    BY <1>4 DEF LeftOver
  <1>5. ASSUME NEW p \in Paths, LeftOver(p), UNCHANGED fs  PROVE LeftOver(p)'
    BY <1>1, <1>5, StepLeaves DEF LeftOver, Owner, fs
  <1>6. "main" \in Paths /\ "reclaim" \in Paths /\ "main" # "reclaim"  BY DEF Paths
  <1>7. CASE call[a] = "running"
    <2>1. Finish(a)
      BY <1>7 DEF AgentStep, MkDir, CreateOwnerFile, FillOwnerFile, VerifyOwner, UndoRead, UndoRmdir,
         ProbeOwner, ProbeAge, CheckExists, Unlink, RmDir, ReleaseRead, RetryAfterWait, At, Tries,
         Probes, Clears, Frees
    <2>2. call'[a] = "freeMain" /\ step'[a] = "read" /\ UNCHANGED fs
      <3>1. UNCHANGED fs  BY <2>1 DEF Finish
      <3>2. FirstStep("freeMain") = "read"  BY DEF FirstStep, Tries, Probes, Clears, Frees
      <3> QED  BY <2>1, <3>1, <3>2 DEF Finish, Enter, Typed, TypeOK
    <2>3. Owner("main") = a /\ Owner("main")' = Owner("main")
      BY <1>7, <2>1, <2>2 DEF MainIsInOrder, Owner, fs, Finish, At
    <2> QED  BY <1>1, <2>2, <2>3 DEF LoneCalls, MainIsInOrder, ReclaimIsInOrder
  <1>8. CASE call[a] = "tryMain"
    <2>1. Here(a) = "main" /\ Trying(a, "main") /\ LeftOver("reclaim") /\ call[a] \in Tries
      BY <1>8 DEF Here, PathOf, MainIsInOrder, ReclaimIsInOrder, Tries
    <2>2. AgentStep(a) /\ LeftOver("reclaim")'
      BY <1>2, <1>6, <1>8, <2>1 DEF Finish, At
    <2>3. \/ call'[a] = "tryMain" /\ Trying(a, "main")'
          \/ call'[a] = "running" /\ Owner("main")' = a
          \/ call'[a] = "probeMain" /\ LeftOver("main")'
      <3>1. \/ call'[a] = call[a] /\ Trying(a, "main")'
            \/ call'[a] = OnLocked(call[a]) /\ UNCHANGED fs /\ Owner("main") = a
            \/ call'[a] = OnTaken(call[a]) /\ UNCHANGED fs /\ LeftOver("main")
        BY <2>1, <2>2, TryingGoesOn
      <3> QED  BY <1>5, <1>6, <1>8, <3>1 DEF OnLocked, OnTaken, Owner, fs
    <2> QED  BY <1>1, <2>2, <2>3 DEF LoneCalls, MainIsInOrder, ReclaimIsInOrder
  <1>9. CASE call[a] = "tryReclaim"
    <2>1. Here(a) = "reclaim" /\ Trying(a, "reclaim") /\ LeftOver("main") /\ call[a] \in Tries
      BY <1>9 DEF Here, PathOf, MainIsInOrder, ReclaimIsInOrder, Tries
    <2>2. AgentStep(a) /\ LeftOver("main")'
      BY <1>2, <1>6, <1>9, <2>1 DEF Finish, At
    <2>3. \/ call'[a] = "tryReclaim" /\ Trying(a, "reclaim")'
          \/ call'[a] = "recheckMain" /\ Owner("reclaim")' = a
          \/ call'[a] = "probeReclaim" /\ LeftOver("reclaim")'
      <3>1. \/ call'[a] = call[a] /\ Trying(a, "reclaim")'
            \/ call'[a] = OnLocked(call[a]) /\ UNCHANGED fs /\ Owner("reclaim") = a
            \/ call'[a] = OnTaken(call[a]) /\ UNCHANGED fs /\ LeftOver("reclaim")
        BY <2>1, <2>2, TryingGoesOn
      <3> QED  BY <1>5, <1>6, <1>9, <3>1 DEF OnLocked, OnTaken, Owner, fs
    <2> QED  BY <1>1, <2>2, <2>3 DEF LoneCalls, MainIsInOrder, ReclaimIsInOrder
  <1>10. CASE call[a] \in {"probeMain", "probeReclaim", "recheckMain"}
    <2>1. call[a] \in Probes /\ AgentStep(a) /\ LeftOver("main")
          /\ Here(a) = (IF call[a] = "probeReclaim" THEN "reclaim" ELSE "main")
          /\ (call[a] # "recheckMain" => LeftOver("reclaim"))
          /\ (call[a] = "recheckMain" => Owner("reclaim") = a)
      BY <1>10 DEF Probes, Finish, At, Here, PathOf, MainIsInOrder, ReclaimIsInOrder
    <2>2. /\ UNCHANGED fs
          /\ \/ call'[a] = call[a]
             \/ /\ call'[a] = OnInactive(a, call[a])
                /\ step'[a] = FirstStep(OnInactive(a, call[a]))
      BY <2>1, ProbeFindsInactive, <1>10
    <2>3. \/ call'[a] = call[a]
          \/ call[a] = "probeMain" /\ call'[a] = "existsMain"
          \/ call[a] = "probeMain" /\ call'[a] = "tryReclaim" /\ step'[a] = "mkdir"
          \/ call[a] = "probeReclaim" /\ call'[a] = "clearReclaim" /\ step'[a] = "unlink"
          \/ call[a] = "recheckMain" /\ call'[a] = "clearMain" /\ step'[a] = "unlink"
      BY <1>10, <2>2 DEF OnInactive, FirstStep, Tries, Probes, Clears, Frees
    <2>4. LeftOver("main")' /\ (call[a] # "recheckMain" => LeftOver("reclaim")')
          /\ Owner("reclaim")' = Owner("reclaim")
      BY <1>5, <1>6, <2>1, <2>2 DEF Owner, fs
    <2>5. call'[a] \in LoneCalls  BY <1>10, <2>3 DEF LoneCalls
    <2>6. MainIsInOrder(a)'
      BY <1>10, <2>3, <2>4 DEF MainIsInOrder
    <2>7. ReclaimIsInOrder(a)'
      BY <1>10, <2>1, <2>3, <2>4 DEF ReclaimIsInOrder, Trying
    <2> QED  BY <1>1, <2>5, <2>6, <2>7
  <1>11. CASE call[a] = "existsMain"
    <2>1. CheckExists(a) /\ LeftOver("main") /\ LeftOver("reclaim")
      BY <1>11 DEF AgentStep, MkDir, CreateOwnerFile, FillOwnerFile, VerifyOwner, UndoRead, UndoRmdir,
         ProbeOwner, ProbeAge, Unlink, RmDir, ReleaseRead, RetryAfterWait, Finish, At, Tries,
         Probes, Clears, Frees, MainIsInOrder, ReclaimIsInOrder
    <2>2. /\ UNCHANGED fs
          /\ call'[a] = "inactive" \/ (call'[a] = "tryReclaim" /\ step'[a] = "mkdir")
      <3>1. UNCHANGED fs  BY <2>1 DEF CheckExists
      <3>2. FirstStep("tryReclaim") = "mkdir"  BY DEF FirstStep, Tries, Probes, Clears, Frees
      <3> QED  BY <2>1, <3>1, <3>2 DEF CheckExists, Enter, Typed, TypeOK
    <2>3. LeftOver("main")' /\ LeftOver("reclaim")'  BY <1>5, <1>6, <2>1, <2>2
    <2> QED  BY <1>1, <2>2, <2>3 DEF LoneCalls, MainIsInOrder, ReclaimIsInOrder, Trying
  <1>12. CASE call[a] \in {"clearMain", "clearReclaim", "freeMain", "freeThenRetry"}
    <2> DEFINE p == Here(a)
    <2>1. /\ call[a] \in Clears \cup Frees /\ AgentStep(a)
          /\ call[a] \in Frees <=> call[a] \in {"freeMain", "freeThenRetry"}
          /\ p = (IF call[a] \in {"clearMain", "freeMain"} THEN "main" ELSE "reclaim")
      BY <1>12 DEF Clears, Frees, Finish, At, Here, PathOf
    <2>2. /\ step[a] = "rmdir" => creator[p] = NoOne
          /\ call[a] \in Frees /\ step[a] # "rmdir" => Owner(p) = a
      BY <1>12, <2>1 DEF MainIsInOrder, ReclaimIsInOrder
    <2>3. \/ /\ call'[a] = call[a] /\ step[a] = "read" /\ step'[a] = "unlink" /\ UNCHANGED fs
          \/ call'[a] = call[a] /\ step[a] = "unlink" /\ step'[a] = "rmdir" /\ creator'[p] = NoOne
          \/ /\ step[a] = "rmdir" /\ made'[p] = FALSE /\ call[a] \in Clears
             /\ call'[a] = OnCleared(call[a]) /\ step'[a] = FirstStep(OnCleared(call[a]))
          \/ /\ step[a] = "rmdir" /\ made'[p] = FALSE /\ call[a] \in Frees
             /\ call'[a] = OnFreed(a, call[a]) /\ step'[a] = FirstStep(OnFreed(a, call[a]))
      BY <2>1, <2>2, ClearingGoesOn
    <2>4. CASE call[a] = "clearMain"
      <3>1. p = "main" /\ Owner("reclaim")' = a
        BY <1>3, <1>6, <2>1, <2>4 DEF ReclaimIsInOrder
      <3>2. \/ call'[a] = "clearMain" /\ step'[a] = "unlink"
            \/ call'[a] = "clearMain" /\ step'[a] = "rmdir" /\ creator'["main"] = NoOne
            \/ call'[a] = "freeThenRetry" /\ step'[a] = "read" /\ made'["main"] = FALSE
        BY <2>3, <2>4, <3>1 DEF OnCleared, FirstStep, Tries, Probes, Frees, Clears
      <3> QED  BY <1>1, <3>1, <3>2 DEF LoneCalls, MainIsInOrder, ReclaimIsInOrder
    <2>5. CASE call[a] = "clearReclaim"
      <3>1. p = "reclaim" /\ LeftOver("main")'
        BY <1>2, <1>6, <2>1, <2>5 DEF MainIsInOrder
      <3>2. \/ call'[a] = "clearReclaim" /\ step'[a] = "unlink"
            \/ call'[a] = "clearReclaim" /\ step'[a] = "rmdir" /\ creator'["reclaim"] = NoOne
            \/ call'[a] = "tryReclaim" /\ step'[a] = "mkdir" /\ LeftOver("reclaim")'
        BY <1>4, <1>6, <2>3, <2>5, <3>1 DEF OnCleared, FirstStep, Tries, Probes, Frees, Clears
      <3> QED  BY <1>1, <3>1, <3>2 DEF LoneCalls, MainIsInOrder, ReclaimIsInOrder, Trying
    <2>6. CASE call[a] = "freeMain"
      <3>1. p = "main"  BY <2>1, <2>6
      <3>2. \/ /\ call'[a] = "freeMain" /\ step'[a] = "unlink" /\ UNCHANGED fs
               /\ step[a] = "read"
            \/ call'[a] = "freeMain" /\ step'[a] = "rmdir" /\ creator'["main"] = NoOne
            \/ call'[a] = "released"
        BY <2>3, <2>6, <3>1 DEF OnFreed, Clears
      <3>3. UNCHANGED fs => Owner("main")' = Owner("main")  BY DEF Owner, fs
      <3> QED  BY <1>1, <2>6, <3>2, <3>3 DEF LoneCalls, MainIsInOrder, ReclaimIsInOrder
    <2>7. CASE call[a] = "freeThenRetry"
      <3>1. p = "reclaim" /\ ~made'["main"]
        BY <1>3, <1>6, <2>1, <2>7 DEF MainIsInOrder
      <3>2. \/ /\ call'[a] = "freeThenRetry" /\ step'[a] = "unlink" /\ UNCHANGED fs
               /\ step[a] = "read"
            \/ call'[a] = "freeThenRetry" /\ step'[a] = "rmdir" /\ creator'["reclaim"] = NoOne
            \/ call'[a] = "inactive"
            \/ call'[a] = "tryMain" /\ step'[a] = "mkdir" /\ LeftOver("reclaim")'
        BY <1>4, <1>6, <2>3, <2>7, <3>1 DEF OnFreed, FirstStep, Tries, Probes, Frees, Clears
      <3>3. LeftOver("main")'  BY <3>1 DEF LeftOver
      <3>4. UNCHANGED fs => Owner("reclaim")' = Owner("reclaim")  BY DEF Owner, fs
      <3> QED  BY <1>1, <2>7, <3>1, <3>2, <3>3, <3>4
                DEF LoneCalls, MainIsInOrder, ReclaimIsInOrder, Trying
    <2> QED  BY <1>12, <2>4, <2>5, <2>6, <2>7
  <1> QED  BY <1>7, <1>8, <1>9, <1>10, <1>11, <1>12 DEF LoneCalls

\* Who takes a step is busy with the protocol.
LEMMA SteppersAreBusy ==
    ASSUME NEW a \in Agents, AgentStep(a) \/ Finish(a) PROVE Busy(a)
  BY DEF AgentStep, MkDir, CreateOwnerFile, FillOwnerFile, VerifyOwner, UndoRead, UndoRmdir,
     ProbeOwner, ProbeAge, CheckExists, Unlink, RmDir, ReleaseRead, RetryAfterWait, Finish, At,
     Tries, Probes, Clears, Frees, Busy, Ends

\* What the crash of a process or the end of a grace period does to a lone agent.
LEMMA LoneStaysLone ==
    ASSUME Typed, FilesAreInside, NEW a \in Agents, Lone(a), \A b \in Others(a) : ~Busy(b)',
           UNCHANGED <<made, creator, written>>, call'[a] = call[a], step'[a] = step[a],
           alive'[a] = alive[a], \A b \in Agents : alive'[b] => alive[b],
           \A p \in Paths : fresh'[p] => fresh[p]
    PROVE  Lone(a)'
  <1>1. ASSUME NEW p \in Paths PROVE LeftOver(p) => LeftOver(p)' /\ Owner(p)' = Owner(p)
    BY LeftOverStays DEF Owner
  <1>2. ASSUME NEW p \in Paths PROVE Owner(p)' = Owner(p)
    BY DEF Owner
  <1>3. "main" \in Paths /\ "reclaim" \in Paths  OBVIOUS
  <1>4. ASSUME NEW p \in Paths, Trying(a, p) PROVE Trying(a, p)'
    BY <1>1, <1>2, <1>4 DEF Trying
  <1>5. MainIsInOrder(a) => MainIsInOrder(a)'
    BY <1>1, <1>2, <1>3, <1>4 DEF MainIsInOrder
  <1>6. ReclaimIsInOrder(a) => ReclaimIsInOrder(a)'
    BY <1>1, <1>2, <1>3, <1>4 DEF ReclaimIsInOrder
  <1> QED  BY <1>5, <1>6 DEF Lone, Others

\* Every step keeps an agent lone, as long as no other joins.
LEMMA LoneNext ==
    ASSUME Typed, FilesAreInside, NEW a \in Agents, Lone(a), Next, \A b \in Others(a) : ~Busy(b)'
    PROVE  Lone(a)'
  <1>1. ASSUME NEW b \in Others(a), AgentStep(b) \/ Finish(b) \/ Start(b) PROVE FALSE
    <2>1. b \in Agents /\ ~Busy(b)  BY DEF Others, Lone
    <2>2. Start(b)  BY <1>1, <2>1, SteppersAreBusy
    <2>3. alive'[b] /\ call'[b] \in {"probeMain", "tryMain"}
      BY <2>1, <2>2 DEF Start, At, Enter, Typed, TypeOK
    <2>4. Busy(b)'  BY <2>3 DEF Busy, Ends
    <2> QED  BY <2>4
  <1>2. CASE AgentStep(a) \/ Finish(a)
    <2>1. Busy(a)  BY <1>2, SteppersAreBusy
    <2>2. alive[a] /\ call[a] \in LoneCalls /\ MainIsInOrder(a) /\ ReclaimIsInOrder(a)
      BY <2>1 DEF Lone, Busy, Ends
    <2>3. \/ call'[a] \in {"released", "inactive"}
          \/ alive'[a] /\ call'[a] \in LoneCalls /\ MainIsInOrder(a)' /\ ReclaimIsInOrder(a)'
      BY <1>2, <2>2, LoneStep
    <2> QED  BY <2>3 DEF Lone, Others
  <1>3. ~Start(a)
    BY DEF Start, At, Lone, LoneCalls
  <1>4. CASE Crash(a)
    <2>1. call'[a] = "dead"  BY <1>4 DEF Crash, Enter, Typed, TypeOK
    <2> QED  BY <2>1 DEF Lone, Others
  <1>5. ASSUME NEW b \in Others(a), Crash(b) PROVE Lone(a)'
    <2>1. b \in Agents /\ a # b  BY DEF Others
    <2>2. UNCHANGED fs  BY <1>5 DEF Crash
    <2>3. /\ call'[a] = call[a] /\ step'[a] = step[a] /\ alive'[a] = alive[a]
          /\ \A c \in Agents : alive'[c] => alive[c]
      BY <1>5, <2>1 DEF Crash, Enter, Typed, TypeOK
    <2> QED  BY <2>2, <2>3, LoneStaysLone DEF fs
  <1>6. ASSUME NEW p \in Paths, GraceElapses(p) PROVE Lone(a)'
    <2>1. \A q \in Paths : fresh'[q] => fresh[q]
      BY <1>6 DEF GraceElapses, Typed, TypeOK
    <2> QED  BY <1>6, <2>1, LoneStaysLone DEF GraceElapses
  <1> QED  BY <1>1, <1>2, <1>3, <1>4, <1>5, <1>6 DEF Next, Others

\* Who begins alone finds only what others have left behind.
LEMMA LoneStart ==
    ASSUME Typed, NEW a \in Agents, Next, call[a] = "idle", Busy(a)', Settled,
           \A b \in Others(a) : ~Busy(b)'
    PROVE  Lone(a)'
  <1>1. Start(a)
    <2>1. call'[a] # "idle" /\ alive'[a]  BY DEF Busy
    <2>2. ~AgentStep(a) /\ ~Finish(a)  BY SteppersAreBusy DEF Busy
    <2>3. ASSUME NEW b \in Others(a), AgentStep(b) \/ Finish(b) \/ Start(b) \/ Crash(b) PROVE FALSE
      <3>1. b \in Agents /\ a \in Agents \ {b}  BY DEF Others
      <3>2. call'[a] = call[a]
        BY <2>3, <3>1, StepLeaves DEF Start, Crash, Enter, Typed, TypeOK
      <3> QED  BY <2>1, <3>2
    <2>4. ASSUME NEW p \in Paths, GraceElapses(p) PROVE FALSE
      BY <2>1, <2>4 DEF GraceElapses
    <2>5. ~Crash(a)  BY DEF Crash
    <2> QED  BY <2>2, <2>3, <2>4, <2>5 DEF Next, Others
  <1>2. UNCHANGED fs /\ alive' = alive /\ alive[a]  BY <1>1 DEF Start, At
  <1>3. \/ call'[a] = "probeMain"
        \/ call'[a] = "tryMain" /\ step'[a] = "mkdir"
    <2>1. FirstStep("tryMain") = "mkdir"  BY DEF FirstStep, Tries, Probes, Clears, Frees
    <2> QED  BY <1>1, <2>1 DEF Start, Enter, Typed, TypeOK
  <1>4. LeftOver("main")' /\ LeftOver("reclaim")'
    BY <1>2 DEF Settled, LeftOver, Owner, fs
  <1> QED  BY <1>2, <1>3, <1>4 DEF Lone, Others, LoneCalls, MainIsInOrder, ReclaimIsInOrder, Trying

\* Whatever crashed processes left behind, a process that comes alone gets its lock, and a
\* query that comes alone finds nothing running: with any number of processes and retries,
\* also when a process may be slower than the grace period.
THEOREM LoneCallsSucceed == MCSpec => []LoneCallSucceeds
  <1> DEFINE Inv == /\ Typed /\ FilesAreInside /\ alone \in [Agents -> BOOLEAN]
                    /\ \A a \in Agents : alone[a] => Lone(a)
  <1>1. MCInit => Inv
    BY InitTyped DEF MCInit, Init, FilesAreInside
  <1>2. Inv /\ [MCNext]_mcvars => Inv'
    <2> SUFFICES ASSUME Inv, [MCNext]_mcvars PROVE Inv'  OBVIOUS
    <2>1. CASE MCNext
      <3>1. Typed' /\ FilesAreInside'
        BY <2>1, NextTyped, FilesStayInside DEF MCNext
      <3>2. alone' \in [Agents -> BOOLEAN]
        BY <2>1 DEF MCNext, Busy
      <3>3. ASSUME NEW a \in Agents, alone'[a] PROVE Lone(a)'
        <4>1. /\ alone[a] \/ (call[a] = "idle" /\ Busy(a)' /\ Settled)
              /\ \A b \in Others(a) : ~Busy(b)'
          BY <2>1, <3>3 DEF MCNext
        <4>2. Next  BY <2>1 DEF MCNext
        <4> QED  BY <4>1, <4>2, LoneNext, LoneStart
      <3> QED  BY <3>1, <3>2, <3>3
    <2>2. CASE UNCHANGED mcvars
      <3>1. UNCHANGED <<vars, alone>>  BY <2>2 DEF mcvars
      <3>2. UNCHANGED vars  BY <3>1
      <3>3. Typed' /\ FilesAreInside'  BY <3>2, NextTyped, FilesStayInside
      <3>4. ASSUME NEW a \in Agents, Lone(a) PROVE Lone(a)'
        BY <3>2, <3>4 DEF vars, Lone, Others, Busy, MainIsInOrder, ReclaimIsInOrder, Trying,
           LeftOver, Owner
      <3> QED  BY <3>1, <3>3, <3>4
    <2> QED  BY <2>1, <2>2
  <1>3. Inv => LoneCallSucceeds
    BY DEF Lone, LoneCalls, LoneCallSucceeds
  <1> QED  BY <1>1, <1>2, <1>3, PTL DEF MCSpec
==============================================================================
