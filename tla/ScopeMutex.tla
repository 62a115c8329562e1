----------------------------- MODULE ScopeMutex -----------------------------
(***************************************************************************)
(* What runtime locks promise: the long-running commands of one scope run  *)
(* one after another.  A command ends, whether its job finishes or its     *)
(* process dies, by leaving the set of working jobs.                       *)
(***************************************************************************)
CONSTANTS Jobs, ScopeOf

VARIABLE working

Init == working = {}

Begin(j) ==
    /\ \A i \in working : ScopeOf[i] # ScopeOf[j]
    /\ working' = working \cup {j}

\* A process that dies takes all its jobs with it.
End(ended) == working' = working \ ended

Next == (\E j \in Jobs : Begin(j)) \/ (\E ended \in SUBSET working : End(ended))

Spec == Init /\ [][Next]_working
=============================================================================
