--------------------------- MODULE MCRuntimeLocks ---------------------------
(***************************************************************************)
(* RuntimeLocks with a history variable: alone[a] says that agent a began  *)
(* its call when no other process was using the locks, no live process had *)
(* one on disk and no directory was within its grace period, and that no   *)
(* other process has joined since.                                         *)
(***************************************************************************)
EXTENDS RuntimeLocks

VARIABLE alone
mcvars == <<vars, alone>>

Busy(a) == alive[a] /\ call[a] \notin Ends \cup {"idle"}
Settled == \A p \in Paths : made[p] => /\ ~fresh[p]
                                       /\ Owner(p) # NoOne => ~alive[Owner(p)]
Others(a) == Agents \ {a}

MCInit == Init /\ alone = [a \in Agents |-> FALSE]

MCNext ==
    /\ Next
    /\ alone' = [a \in Agents |->
                   /\ \/ alone[a]
                      \/ call[a] = "idle" /\ Busy(a)' /\ Settled
                   /\ \A b \in Others(a) : ~Busy(b)']

MCSpec == MCInit /\ [][MCNext]_mcvars

\* Whatever crashed processes left behind, at whichever file-system call they
\* died, a process that then comes alone is neither refused the lock nor made
\* to fail, and a query that comes alone does not report a running job.
LoneCallSucceeds ==
    \A a \in Agents : alone[a] => call[a] \notin {"blocked", "failed", "active"}

AllOver == \A a \in Agents : call[a] \in Ends \ {"dead"}

\* When every call is through and no process died, no lock directory is left,
\* whoever deleted whose lock on the way: nothing delays the next command.
NoLeak == AllOver => \A p \in Paths : ~made[p]
=============================================================================
