---------------------------- MODULE AgentProvider ----------------------------
(***************************************************************************)
(* AgentProviderProcessRuntime (electron/services/agent): requests to an   *)
(* agent provider, which is a child process that reads a line per request  *)
(* on stdin and answers with a line on stdout.  A provider that fails is   *)
(* replaced by a new process with the next request, while output and       *)
(* events of the old one may still arrive.                                 *)
(*                                                                         *)
(* Children are numbered as they are spawned.  A line reaches the runtime  *)
(* whole or in two chunks.                                                 *)
(***************************************************************************)
EXTENDS Naturals, Sequences

CONSTANTS
    Requests,      \* each sent once
    MaxChildren,   \* bound: processes spawned
    MaxJunk        \* bound: lines that are not JSON, of all children

ASSUME ProviderAssumption == MaxChildren \in Nat /\ MaxJunk \in Nat

Children == 1..MaxChildren
NoChild == 0

VARIABLES
    child,      \* this.child
    spawned,    \* the number of processes spawned so far
    condition,  \* of each process
    stdinOpen,  \* processes whose stdin is neither destroyed nor ended
    killed,     \* processes that were sent a signal
    status,     \* of each request; pendingRequests has those that are pending
    owner,      \* the process it was written to
    settledBy,  \* the process whose answer or failure settled it
    stdout,     \* chunks on their way from each process
    buffer,     \* this.stdoutBuffer, chunk by chunk
    junk

processes == <<condition, stdinOpen, killed>>
requests == <<status, owner, settledBy>>
vars == <<child, spawned, condition, stdinOpen, killed, status, owner, settledBy,
          stdout, buffer, junk>>

Chunks == [from : Children, of : Requests, part : {"whole", "head", "tail"}]
            \cup [from : Children, part : {"junk"}]

TypeOK ==
    /\ child \in {NoChild} \cup Children
    /\ spawned \in {0} \cup Children
    /\ condition \in [Children -> {"unborn", "starting", "running", "exited", "closed"}]
    /\ stdinOpen \subseteq Children /\ killed \subseteq Children
    /\ status \in [Requests -> {"new", "pending", "answered", "rejected"}]
    /\ owner \in [Requests -> {NoChild} \cup Children]
    /\ settledBy \in [Requests -> {NoChild} \cup Children]
    /\ stdout \in [Children -> Seq(Chunks)]
    /\ buffer \in Seq(Chunks)
    /\ junk \in 0..MaxJunk

Init ==
    /\ child = NoChild
    /\ spawned = 0
    /\ condition = [c \in Children |-> "unborn"]
    /\ stdinOpen = {}
    /\ killed = {}
    /\ status = [r \in Requests |-> "new"]
    /\ owner = [r \in Requests |-> NoChild]
    /\ settledBy = [r \in Requests |-> NoChild]
    /\ stdout = [c \in Children |-> << >>]
    /\ buffer = << >>
    /\ junk = 0

Pending == {r \in Requests : status[r] = "pending"}

Settle(R, how, c) ==
    /\ status' = [r \in Requests |-> IF r \in R THEN how ELSE status[r]]
    /\ settledBy' = [r \in Requests |-> IF r \in R THEN c ELSE settledBy[r]]
    /\ UNCHANGED owner

RejectPending(c) == Settle(Pending, "rejected", c)

\* Mutants: pending requests are kept; any child counts; the buffer is kept.
FailureRejectsNothing(c) ==
    IF child = c
    THEN child' = NoChild /\ buffer' = << >> /\ UNCHANGED requests
    ELSE UNCHANGED <<requests, child, buffer>>

FailureOfAny(c) == RejectPending(c) /\ child' = NoChild /\ buffer' = << >>

FailureKeepsBuffer(c) ==
    IF child = c
    THEN RejectPending(c) /\ child' = NoChild /\ UNCHANGED buffer
    ELSE UNCHANGED <<requests, child, buffer>>

\* Only the failure of the current child counts.
HandleChildFailure(c) ==
    IF child = c
    THEN RejectPending(c) /\ child' = NoChild /\ buffer' = << >>
    ELSE UNCHANGED <<requests, child, buffer>>

(***************************************************************************)
(* sendRequest and ensureChild.                                            *)
(***************************************************************************)
EnsureChild ==
    IF child # NoChild
    THEN UNCHANGED <<child, spawned, condition, stdinOpen, buffer>>
    ELSE /\ spawned < MaxChildren
         /\ spawned' = spawned + 1
         /\ child' = spawned + 1
         /\ condition' = [condition EXCEPT ![spawned + 1] = "starting"]
         /\ stdinOpen' = stdinOpen \cup {spawned + 1}
         /\ buffer' = << >>

SendRequest(r) ==
    /\ status[r] = "new"
    /\ EnsureChild
    /\ owner' = [owner EXCEPT ![r] = child']
    /\ \/ child' \in stdinOpen' /\ status' = [status EXCEPT ![r] = "pending"]
                                /\ UNCHANGED settledBy
       \/ child' \notin stdinOpen' /\ status' = [status EXCEPT ![r] = "rejected"]
                                   /\ settledBy' = [settledBy EXCEPT ![r] = child']
    /\ UNCHANGED <<killed, stdout, junk>>

\* stdin.write throws: the child is given up, with the requests of before.
SendThrows(r) ==
    /\ status[r] = "new" /\ child # NoChild /\ child \in stdinOpen
    /\ status' = [s \in Requests |-> IF s = r \/ s \in Pending THEN "rejected" ELSE status[s]]
    /\ settledBy' = [s \in Requests |-> IF s = r \/ s \in Pending THEN child ELSE settledBy[s]]
    /\ owner' = [owner EXCEPT ![r] = child]
    /\ child' = NoChild /\ buffer' = << >>
    /\ killed' = killed \cup {child}
    /\ UNCHANGED <<spawned, condition, stdinOpen, stdout, junk>>

(***************************************************************************)
(* handleStdout, readProtocolLine and handleProtocolRecord.                *)
(***************************************************************************)
IsAnswer(line, r) ==
    \/ \E c \in Children : line = <<[from |-> c, of |-> r, part |-> "whole"]>>
    \/ \E c \in Children : line = <<[from |-> c, of |-> r, part |-> "head"],
                                    [from |-> c, of |-> r, part |-> "tail"]>>

HandleStdout(chunk) ==
    LET line == Append(buffer, chunk) IN
    IF chunk.part = "head"
    THEN buffer' = line /\ UNCHANGED requests
    ELSE /\ buffer' = << >>
         /\ IF \E r \in Requests : IsAnswer(line, r)
            THEN \E r \in Requests :
                   IsAnswer(line, r) /\ Settle({r} \cap Pending, "answered", chunk.from)
            ELSE RejectPending(chunk.from)

Data(c) ==
    /\ stdout[c] # << >>
    /\ stdout' = [stdout EXCEPT ![c] = Tail(@)]
    /\ IF child = c
       THEN HandleStdout(Head(stdout[c]))
       ELSE UNCHANGED <<requests, buffer>>
    /\ UNCHANGED <<child, spawned, processes, junk>>

(***************************************************************************)
(* Events of a child: an error of its stdin, which is destroyed by then,   *)
(* or of a write to it; a spawn that failed; close, after all its output.  *)
(***************************************************************************)
StdinErrorLeavesRunning(c) ==   \* mutant: without the kill
    /\ child = c /\ c \notin stdinOpen
    /\ HandleChildFailure(c)
    /\ UNCHANGED <<spawned, processes, stdout, junk>>

StdinError(c) ==
    /\ child = c /\ c \notin stdinOpen
    /\ HandleChildFailure(c)
    /\ killed' = killed \cup {c}
    /\ UNCHANGED <<spawned, condition, stdinOpen, stdout, junk>>

SpawnError(c) ==
    /\ condition[c] = "starting"
    /\ condition' = [condition EXCEPT ![c] = "closed"]
    /\ stdinOpen' = stdinOpen \ {c}
    /\ HandleChildFailure(c)
    /\ UNCHANGED <<spawned, killed, stdout, junk>>

CloseUnheard(c) ==   \* mutant: without the listener
    /\ condition[c] = "exited" /\ stdout[c] = << >>
    /\ condition' = [condition EXCEPT ![c] = "closed"]
    /\ UNCHANGED <<child, spawned, stdinOpen, killed, requests, stdout, buffer, junk>>

Close(c) ==
    /\ condition[c] = "exited" /\ stdout[c] = << >>
    /\ condition' = [condition EXCEPT ![c] = "closed"]
    /\ stdinOpen' = stdinOpen \ {c}
    /\ HandleChildFailure(c)
    /\ UNCHANGED <<spawned, killed, stdout, junk>>

(***************************************************************************)
(* What the provider processes do.                                         *)
(***************************************************************************)
Started(c) ==
    /\ condition[c] = "starting"
    /\ condition' = [condition EXCEPT ![c] = "running"]
    /\ UNCHANGED <<child, spawned, stdinOpen, killed, requests, stdout, buffer, junk>>

Write(c, chunks) ==
    /\ condition[c] = "running"
    /\ stdout' = [stdout EXCEPT ![c] = @ \o chunks]
    /\ UNCHANGED <<child, spawned, processes, requests, buffer>>

HasWritten(c, r) == \E i \in 1..Len(stdout[c]) : stdout[c][i].part # "junk" /\ stdout[c][i].of = r

\* An answer, also one that comes too late; written at once, in two chunks, or cut short.
Answers(c, r) ==
    LET Chunk(p) == [from |-> c, of |-> r, part |-> p] IN
    /\ owner[r] = c /\ ~HasWritten(c, r)
    /\ status[r] # "answered"
    /\ \A i \in 1..Len(stdout[c]) : stdout[c][i].part # "head" \/ i < Len(stdout[c])
    /\ buffer = << >> \/ child # c
    /\ \/ Write(c, <<Chunk("whole")>>)
       \/ Write(c, <<Chunk("head"), Chunk("tail")>>)
       \/ Write(c, <<Chunk("head")>>)
    /\ UNCHANGED junk

WritesJunk(c) ==
    /\ junk < MaxJunk /\ junk' = junk + 1
    /\ Write(c, <<[from |-> c, part |-> "junk"]>>)

Exits(c) ==
    /\ condition[c] = "running"
    /\ condition' = [condition EXCEPT ![c] = "exited"]
    /\ UNCHANGED <<child, spawned, stdinOpen, killed, requests, stdout, buffer, junk>>

StdinBreaks(c) ==
    /\ condition[c] \in {"starting", "running", "exited"} /\ c \in stdinOpen
    /\ stdinOpen' = stdinOpen \ {c}
    /\ UNCHANGED <<child, spawned, condition, killed, requests, stdout, buffer, junk>>

Event(c) == Data(c) \/ StdinError(c) \/ Close(c)

Next ==
    \/ \E r \in Requests : SendRequest(r) \/ SendThrows(r)
    \/ \E c \in Children : \/ Event(c) \/ SpawnError(c) \/ Started(c)
                           \/ WritesJunk(c) \/ Exits(c) \/ StdinBreaks(c)
                           \/ \E r \in Requests : Answers(c, r)

Spec == Init /\ [][Next]_vars

\* Node delivers output, errors and the end of a child; a process that has been
\* spawned starts or fails to.  The provider need not answer.
Fairness ==
    \A c \in Children : /\ WF_vars(Data(c)) /\ WF_vars(StdinError(c)) /\ WF_vars(Close(c))
                        /\ WF_vars(SpawnError(c) \/ Started(c))

FairSpec == Spec /\ Fairness

(***************************************************************************)
(* Properties.                                                             *)
(***************************************************************************)

\* A request waits only for the current child: whoever may still answer it, or
\* whose failure will reject it, is the process it was written to.
PendingIsAnswerable == \A r \in Pending : owner[r] = child /\ child # NoChild

\* A request is settled by its own process: neither the late output nor the late
\* failure of a process that was replaced touches the requests of its successor.
SettledByOwner == \A r \in Requests : settledBy[r] \in {NoChild, owner[r]}

\* What is left of a line in the buffer is of the current child: the end of one
\* process and the beginning of the next are never read as one line.
BufferIsCurrent == \A i \in 1..Len(buffer) : buffer[i].from = child

\* A process that was given up while it may be running has been killed: two
\* providers do not work side by side for good.
GivenUpIsKilled ==
    \A c \in Children : condition[c] = "running" /\ c # child => c \in killed

\* When the process of a request is gone, or its stdin broken, the request is
\* settled eventually: no caller waits for an answer that cannot come.
NoHopelessWait ==
    \A r \in Requests :
        /\ status[r] = "pending"
        /\ condition[owner[r]] \in {"exited", "closed"} \/ owner[r] \notin stdinOpen
        ~> status[r] # "pending"
=============================================================================
