------------------------ MODULE AgentProvider_proofs ------------------------
(***************************************************************************)
(* Proofs about AgentProvider, for any number of requests, processes and   *)
(* malformed lines.                                                        *)
(*                                                                         *)
(* The argument: a chunk on its way from a process names that process      *)
(* (OutputIsOwn), and output and failures of any but the current process   *)
(* are ignored.  So everything that waits, and everything in the buffer,   *)
(* belongs to the current process at all times.                            *)
(***************************************************************************)
EXTENDS AgentProvider, TLAPS

\* What the properties need in addition to be inductive.
OutputIsOwn ==
    \A c \in Children : \A i \in 1..Len(stdout[c]) : stdout[c][i].from = c
NumbersInOrder ==
    /\ child <= spawned
    /\ \A c \in Children : c > spawned => condition[c] = "unborn"
NewIsUntouched == \A r \in Requests : status[r] = "new" => settledBy[r] = NoChild
GivenUpStops ==
    \A c \in Children : condition[c] \in {"starting", "running"} /\ c # child => c \in killed

Inv ==
    /\ TypeOK /\ OutputIsOwn /\ NumbersInOrder /\ NewIsUntouched /\ GivenUpStops
    /\ PendingIsAnswerable /\ SettledByOwner /\ BufferIsCurrent

LEMMA ChildrenAreNumbers == Children \subseteq Nat \ {0} /\ NoChild \notin Children
  BY ProviderAssumption DEF Children, NoChild

LEMMA InitInv == Init => Inv
  <1> SUFFICES ASSUME Init PROVE Inv  OBVIOUS
  <1> USE DEF Init
  <1>1. TypeOK  BY ProviderAssumption DEF TypeOK
  <1>2. OutputIsOwn  BY DEF OutputIsOwn
  <1>3. NumbersInOrder  BY ChildrenAreNumbers DEF NumbersInOrder, NoChild
  <1>4. NewIsUntouched /\ GivenUpStops  BY DEF NewIsUntouched, GivenUpStops
  <1>5. PendingIsAnswerable /\ SettledByOwner
    BY DEF PendingIsAnswerable, Pending, SettledByOwner
  <1>6. BufferIsCurrent  BY DEF BufferIsCurrent
  <1> QED  BY <1>1, <1>2, <1>3, <1>4, <1>5, <1>6 DEF Inv

(***************************************************************************)
(* Settling requests.                                                      *)
(***************************************************************************)
RequestTypes ==
    /\ status \in [Requests -> {"new", "pending", "answered", "rejected"}]
    /\ owner \in [Requests -> {NoChild} \cup Children]
    /\ settledBy \in [Requests -> {NoChild} \cup Children]

LEMMA SettleSafe ==
    ASSUME Inv, NEW R, R \subseteq Pending, NEW c \in Children, child = c,
           NEW how \in {"answered", "rejected"}, Settle(R, how, c)
    PROVE  /\ RequestTypes' /\ NewIsUntouched' /\ SettledByOwner'
           /\ owner' = owner /\ Pending' = Pending \ R
  <1> USE DEF Settle
  <1>1. RequestTypes'  BY DEF Inv, TypeOK, RequestTypes
  <1>2. \A r \in R : status[r] = "pending" /\ owner[r] = c
    BY DEF Inv, PendingIsAnswerable, Pending
  <1>3. NewIsUntouched'  BY DEF Inv, NewIsUntouched
  <1>4. SettledByOwner'  BY <1>2 DEF Inv, SettledByOwner
  <1>5. Pending' = Pending \ R  BY DEF Pending
  <1> QED  BY <1>1, <1>3, <1>4, <1>5

\* handleChildFailure gives up the current child, or does nothing.
LEMMA FailureSafe ==
    ASSUME Inv, NEW c \in Children, HandleChildFailure(c)
    PROVE  /\ RequestTypes' /\ NewIsUntouched' /\ SettledByOwner'
           /\ child' \in {NoChild} \cup Children /\ buffer' \in Seq(Chunks)
           /\ PendingIsAnswerable' /\ BufferIsCurrent'
           /\ child' = IF child = c THEN NoChild ELSE child
  <1>1. CASE child = c
    <2>1. Settle(Pending, "rejected", c) /\ child' = NoChild /\ buffer' = << >>
      BY <1>1 DEF HandleChildFailure, RejectPending
    <2>2. RequestTypes' /\ NewIsUntouched' /\ SettledByOwner' /\ Pending' = {}
      BY <2>1, <1>1, SettleSafe
    <2> QED  BY <1>1, <2>1, <2>2 DEF PendingIsAnswerable, BufferIsCurrent
  <1>2. CASE child # c
    BY <1>2 DEF HandleChildFailure, requests, Inv, TypeOK, RequestTypes, NewIsUntouched,
                SettledByOwner, PendingIsAnswerable, Pending, BufferIsCurrent
  <1> QED  BY <1>1, <1>2

(***************************************************************************)
(* The steps.                                                              *)
(***************************************************************************)
LEMMA SendSafe == ASSUME Inv, NEW r \in Requests, SendRequest(r) PROVE Inv'
  <1> USE ChildrenAreNumbers DEF Inv
  <1>1. /\ status[r] = "new" /\ settledBy[r] = NoChild
        /\ owner' = [owner EXCEPT ![r] = child']
        /\ killed' = killed /\ stdout' = stdout /\ junk' = junk
    BY DEF SendRequest, NewIsUntouched
  <1>2. /\ child' \in Children /\ spawned' \in {0} \cup Children /\ spawned <= spawned'
        /\ condition' \in [Children -> {"unborn", "starting", "running", "exited", "closed"}]
        /\ stdinOpen' \subseteq Children
        /\ NumbersInOrder' /\ GivenUpStops' /\ BufferIsCurrent' /\ buffer' \in Seq(Chunks)
        /\ child # NoChild => child' = child
    <2>0. EnsureChild  BY DEF SendRequest
    <2>1. CASE child # NoChild
      <3>1. UNCHANGED <<child, spawned, condition, stdinOpen, buffer>>
        BY <2>0, <2>1 DEF EnsureChild
      <3>2. spawned \in Nat  BY DEF TypeOK
      <3>3. NumbersInOrder' /\ GivenUpStops' /\ BufferIsCurrent'
        BY <3>1, <1>1 DEF NumbersInOrder, GivenUpStops, BufferIsCurrent
      <3> QED  BY <2>1, <3>1, <3>2, <3>3 DEF TypeOK
    <2>2. CASE child = NoChild
      <3>1. spawned + 1 \in Children /\ spawned \in Nat
        BY <2>0, <2>2, ProviderAssumption DEF EnsureChild, TypeOK, Children
      <3>2. child' = spawned + 1 /\ spawned' = spawned + 1 /\ buffer' = << >>
        BY <2>0, <2>2 DEF EnsureChild
      <3>3. condition' = [condition EXCEPT ![spawned + 1] = "starting"]
        BY <2>0, <2>2 DEF EnsureChild
      <3>4. stdinOpen' \subseteq Children  BY <2>0, <2>2, <3>1 DEF EnsureChild, TypeOK
      <3>5. condition' \in [Children -> {"unborn", "starting", "running", "exited", "closed"}]
        BY <3>1, <3>3 DEF TypeOK
      <3>6. NumbersInOrder'  BY <3>1, <3>2, <3>3 DEF NumbersInOrder, TypeOK
      <3>7. GivenUpStops'
        BY <3>1, <3>2, <3>3, <2>2, <1>1 DEF GivenUpStops, TypeOK
      <3> QED  BY <2>2, <3>1, <3>2, <3>4, <3>5, <3>6, <3>7 DEF BufferIsCurrent
    <2> QED  BY <2>1, <2>2
  <1>3. \/ status' = [status EXCEPT ![r] = "pending"] /\ settledBy' = settledBy
        \/ /\ status' = [status EXCEPT ![r] = "rejected"]
           /\ settledBy' = [settledBy EXCEPT ![r] = child']
    BY DEF SendRequest
  <1>4. TypeOK'  BY <1>1, <1>2, <1>3 DEF TypeOK
  <1>5. NewIsUntouched'  BY <1>3 DEF NewIsUntouched, TypeOK
  <1>6. SettledByOwner'  BY <1>1, <1>3 DEF SettledByOwner, TypeOK
  <1>7. PendingIsAnswerable'
    BY <1>1, <1>2, <1>3 DEF PendingIsAnswerable, Pending, TypeOK
  <1>8. OutputIsOwn'  BY <1>1 DEF OutputIsOwn
  <1> QED  BY <1>2, <1>4, <1>5, <1>6, <1>7, <1>8

LEMMA ThrowSafe == ASSUME Inv, NEW r \in Requests, SendThrows(r) PROVE Inv'
  <1> USE ChildrenAreNumbers DEF Inv, SendThrows
  <1>1. TypeOK'  BY DEF TypeOK
  <1>2. OutputIsOwn'  BY DEF OutputIsOwn
  <1>3. NumbersInOrder'  BY ProviderAssumption DEF NumbersInOrder, TypeOK, Children, NoChild
  <1>4. GivenUpStops'  BY DEF GivenUpStops
  <1>5. NewIsUntouched' /\ PendingIsAnswerable'
    BY DEF NewIsUntouched, PendingIsAnswerable, Pending, TypeOK
  <1>6. SettledByOwner'
    BY DEF SettledByOwner, PendingIsAnswerable, Pending, TypeOK
  <1>7. BufferIsCurrent'  BY DEF BufferIsCurrent
  <1> QED  BY <1>1, <1>2, <1>3, <1>4, <1>5, <1>6, <1>7

\* Taking a chunk off a pipe, or putting chunks of the process on it.
LEMMA TakeChunk ==
    ASSUME NEW s \in Seq(Chunks), s # << >>, NEW c, \A i \in 1..Len(s) : s[i].from = c
    PROVE  /\ Head(s) \in Chunks /\ Head(s).from = c /\ Tail(s) \in Seq(Chunks)
           /\ \A i \in 1..Len(Tail(s)) : Tail(s)[i].from = c
  OBVIOUS

LEMMA AppendChunk ==
    ASSUME NEW s \in Seq(Chunks), NEW x \in Chunks, NEW c, x.from = c,
           \A i \in 1..Len(s) : s[i].from = c
    PROVE  /\ Append(s, x) \in Seq(Chunks)
           /\ \A i \in 1..Len(Append(s, x)) : Append(s, x)[i].from = c
  OBVIOUS

LEMMA DataSafe == ASSUME Inv, NEW c \in Children, Data(c) PROVE Inv'
  <1> USE DEF Inv
  <1>1. /\ stdout[c] \in Seq(Chunks) /\ stdout[c] # << >>
        /\ \A i \in 1..Len(stdout[c]) : stdout[c][i].from = c
        /\ stdout' = [stdout EXCEPT ![c] = Tail(@)]
        /\ UNCHANGED <<child, spawned, condition, stdinOpen, killed, junk>>
    BY DEF Data, TypeOK, OutputIsOwn, processes
  <1>2. /\ Head(stdout[c]) \in Chunks /\ Head(stdout[c]).from = c
        /\ Tail(stdout[c]) \in Seq(Chunks)
        /\ \A i \in 1..Len(Tail(stdout[c])) : Tail(stdout[c])[i].from = c
    BY <1>1, TakeChunk
  <1>3. OutputIsOwn' /\ stdout' \in [Children -> Seq(Chunks)]
    BY <1>1, <1>2 DEF OutputIsOwn, TypeOK
  <1>4. NumbersInOrder' /\ GivenUpStops'  BY <1>1 DEF NumbersInOrder, GivenUpStops
  <1>5. /\ RequestTypes' /\ NewIsUntouched' /\ SettledByOwner' /\ PendingIsAnswerable'
        /\ BufferIsCurrent' /\ buffer' \in Seq(Chunks)
    <2>1. CASE child # c
      BY <1>1, <2>1 DEF Data, requests, TypeOK, RequestTypes, NewIsUntouched, SettledByOwner,
                        PendingIsAnswerable, Pending, BufferIsCurrent
    <2>2. CASE child = c
      <3> DEFINE chunk == Head(stdout[c])
                 line == Append(buffer, chunk)
      <3>1. HandleStdout(chunk)  BY <2>2 DEF Data
      <3>2. line \in Seq(Chunks) /\ \A i \in 1..Len(line) : line[i].from = c
        BY <1>2, <2>2, AppendChunk DEF BufferIsCurrent, TypeOK
      <3>3. CASE chunk.part = "head"
        <4>1. buffer' = line /\ UNCHANGED requests  BY <3>1, <3>3 DEF HandleStdout
        <4> HIDE DEF line
        <4> QED  BY <3>2, <4>1, <1>1, <2>2
              DEF requests, TypeOK, RequestTypes, NewIsUntouched, SettledByOwner,
                  PendingIsAnswerable, Pending, BufferIsCurrent
      <3>4. CASE chunk.part # "head"
        <4>1. buffer' = << >>  BY <3>1, <3>4 DEF HandleStdout
        <4>2. /\ RequestTypes' /\ NewIsUntouched' /\ SettledByOwner'
              /\ owner' = owner /\ Pending' \subseteq Pending
          <5>1. CASE \E r \in Requests : IsAnswer(line, r)
            <6>1. PICK r \in Requests : Settle({r} \cap Pending, "answered", chunk.from)
              BY <3>1, <3>4, <5>1 DEF HandleStdout
            <6>2. Settle({r} \cap Pending, "answered", c)  BY <6>1, <1>2 DEF Settle
            <6>3. {r} \cap Pending \subseteq Pending  OBVIOUS
            <6>4. Pending' = Pending \ ({r} \cap Pending)
              BY <6>2, <6>3, <2>2, SettleSafe
            <6> QED  BY <6>2, <6>3, <6>4, <2>2, SettleSafe
          <5>2. CASE ~\E r \in Requests : IsAnswer(line, r)
            <6>1. Settle(Pending, "rejected", chunk.from)
              BY <3>1, <3>4, <5>2 DEF HandleStdout, RejectPending
            <6>2. Settle(Pending, "rejected", c)  BY <6>1, <1>2 DEF Settle
            <6> QED  BY <6>2, <2>2, SettleSafe
          <5> QED  BY <5>1, <5>2
        <4> QED  BY <4>1, <4>2, <1>1 DEF PendingIsAnswerable, BufferIsCurrent
      <3> QED  BY <3>3, <3>4
    <2> QED  BY <2>1, <2>2
  <1>6. TypeOK'  BY <1>1, <1>3, <1>5 DEF TypeOK, RequestTypes
  <1> QED  BY <1>3, <1>4, <1>5, <1>6

LEMMA EventSafe ==
    ASSUME Inv, NEW c \in Children, StdinError(c) \/ SpawnError(c) \/ Close(c)
    PROVE  Inv'
  <1> USE ChildrenAreNumbers DEF Inv
  <1>1. HandleChildFailure(c) /\ UNCHANGED <<spawned, stdout, junk>>
    BY DEF StdinError, SpawnError, Close
  <1>2. /\ RequestTypes' /\ NewIsUntouched' /\ SettledByOwner'
        /\ child' \in {NoChild} \cup Children /\ buffer' \in Seq(Chunks)
        /\ PendingIsAnswerable' /\ BufferIsCurrent'
        /\ child' = IF child = c THEN NoChild ELSE child
    BY <1>1, FailureSafe
  <1>3. \/ condition' = condition /\ stdinOpen' = stdinOpen /\ killed' = killed \cup {c}
        \/ /\ condition[c] # "unborn" /\ condition' = [condition EXCEPT ![c] = "closed"]
           /\ stdinOpen' \subseteq stdinOpen /\ killed' = killed
    BY DEF StdinError, SpawnError, Close
  <1>4. TypeOK'  BY <1>1, <1>2, <1>3 DEF TypeOK, RequestTypes
  <1>5. OutputIsOwn'  BY <1>1 DEF OutputIsOwn
  <1>6. NumbersInOrder'
    <2>1. child' <= spawned'  BY <1>1, <1>2 DEF NumbersInOrder, NoChild, TypeOK
    <2>2. \A d \in Children : d > spawned => condition'[d] = "unborn"
      BY <1>3 DEF NumbersInOrder, TypeOK
    <2> QED  BY <1>1, <2>1, <2>2 DEF NumbersInOrder
  <1>7. GivenUpStops'
    <2> SUFFICES ASSUME NEW d \in Children, condition'[d] \in {"starting", "running"}, d # child'
                 PROVE  d \in killed'
      BY DEF GivenUpStops
    <2>1. CASE d = c  BY <1>3, <2>1 DEF TypeOK
    <2>2. CASE d # c
      <3>1. condition[d] = condition'[d] /\ d # child  BY <1>2, <1>3, <2>2 DEF TypeOK
      <3> QED  BY <3>1, <1>3 DEF GivenUpStops
    <2> QED  BY <2>1, <2>2
  <1> QED  BY <1>2, <1>4, <1>5, <1>6, <1>7

\* What a process does changes its condition, its stdin or its output.
LEMMA SameRequests ==
    ASSUME Inv, UNCHANGED <<child, spawned, killed, status, owner, settledBy, buffer>>
    PROVE  NewIsUntouched' /\ PendingIsAnswerable' /\ SettledByOwner' /\ BufferIsCurrent'
           /\ RequestTypes'
  BY DEF Inv, NewIsUntouched, PendingIsAnswerable, Pending, SettledByOwner, BufferIsCurrent,
         TypeOK, RequestTypes

LEMMA ConditionSafe ==
    ASSUME Inv, NEW c \in Children, Started(c) \/ Exits(c) \/ StdinBreaks(c)
    PROVE  Inv'
  <1> USE DEF Inv
  <1>1. /\ UNCHANGED <<child, spawned, killed, status, owner, settledBy, buffer, stdout, junk>>
        /\ stdinOpen' \subseteq stdinOpen
    BY DEF Started, Exits, StdinBreaks, requests
  <1>2. \/ condition' = condition
        \/ condition[c] = "starting" /\ condition' = [condition EXCEPT ![c] = "running"]
        \/ condition[c] = "running" /\ condition' = [condition EXCEPT ![c] = "exited"]
    BY DEF Started, Exits, StdinBreaks
  <1>3. TypeOK'  BY <1>1, <1>2 DEF TypeOK
  <1>4. OutputIsOwn'  BY <1>1 DEF OutputIsOwn
  <1>5. NumbersInOrder'  BY <1>1, <1>2 DEF NumbersInOrder, TypeOK
  <1>6. GivenUpStops'  BY <1>1, <1>2 DEF GivenUpStops, TypeOK
  <1> QED  BY <1>1, <1>3, <1>4, <1>5, <1>6, SameRequests

LEMMA OutputSafe ==
    ASSUME Inv, NEW c \in Children, NEW s \in Seq(Chunks),
           \A i \in 1..Len(s) : s[i].from = c, Write(c, s), junk' \in 0..MaxJunk
    PROVE  Inv'
  <1> USE DEF Inv
  <1>1. /\ UNCHANGED <<child, spawned, condition, stdinOpen, killed, status, owner, settledBy,
                       buffer>>
        /\ stdout' = [stdout EXCEPT ![c] = @ \o s]
    BY DEF Write, processes, requests
  <1>2. stdout[c] \in Seq(Chunks) /\ \A i \in 1..Len(stdout[c]) : stdout[c][i].from = c
    BY DEF TypeOK, OutputIsOwn
  <1>3. /\ stdout[c] \o s \in Seq(Chunks)
        /\ \A i \in 1..Len(stdout[c] \o s) : (stdout[c] \o s)[i].from = c
    BY <1>2
  <1>4. TypeOK'  BY <1>1, <1>3 DEF TypeOK
  <1>5. OutputIsOwn'  BY <1>1, <1>3 DEF OutputIsOwn, TypeOK
  <1>6. NumbersInOrder' /\ GivenUpStops'  BY <1>1 DEF NumbersInOrder, GivenUpStops
  <1> QED  BY <1>1, <1>4, <1>5, <1>6, SameRequests

LEMMA WritesSafe ==
    ASSUME Inv, NEW c \in Children,
           WritesJunk(c) \/ \E r \in Requests : Answers(c, r)
    PROVE  Inv'
  <1>1. CASE WritesJunk(c)
    <2> DEFINE x == [from |-> c, part |-> "junk"]
    <2>1. x \in Chunks /\ x.from = c  BY DEF Chunks
    <2>2. junk' \in 0..MaxJunk /\ Write(c, <<x>>)
      BY <1>1, ProviderAssumption DEF WritesJunk, Inv, TypeOK
    <2> HIDE DEF x
    <2>3. <<x>> \in Seq(Chunks) /\ \A i \in 1..Len(<<x>>) : <<x>>[i].from = c  BY <2>1
    <2> QED  BY <2>2, <2>3, OutputSafe
  <1>2. ASSUME NEW r \in Requests, Answers(c, r) PROVE Inv'
    <2> DEFINE Chunk(p) == [from |-> c, of |-> r, part |-> p]
    <2>1. \A p \in {"whole", "head", "tail"} : Chunk(p) \in Chunks /\ Chunk(p).from = c
      BY DEF Chunks
    <2>2. /\ junk' \in 0..MaxJunk
          /\ \/ Write(c, <<Chunk("whole")>>)
             \/ Write(c, <<Chunk("head"), Chunk("tail")>>)
             \/ Write(c, <<Chunk("head")>>)
      BY <1>2 DEF Answers, Inv, TypeOK
    <2> HIDE DEF Chunk
    <2>3. ASSUME NEW p \in {"whole", "head"}
          PROVE  <<Chunk(p)>> \in Seq(Chunks) /\ \A i \in 1..Len(<<Chunk(p)>>) : <<Chunk(p)>>[i].from = c
      BY <2>1
    <2>4. LET s == <<Chunk("head"), Chunk("tail")>>
          IN  s \in Seq(Chunks) /\ \A i \in 1..Len(s) : s[i].from = c
      BY <2>1
    <2> QED  BY <2>2, <2>3, <2>4, OutputSafe
  <1> QED  BY <1>1, <1>2

LEMMA NextInv == Inv /\ [Next]_vars => Inv'
  <1> SUFFICES ASSUME Inv, [Next]_vars PROVE Inv'  OBVIOUS
  <1>1. CASE \E r \in Requests : SendRequest(r) \/ SendThrows(r)
    BY <1>1, SendSafe, ThrowSafe
  <1>2. ASSUME NEW c \in Children,
               \/ Event(c) \/ SpawnError(c) \/ Started(c)
               \/ WritesJunk(c) \/ Exits(c) \/ StdinBreaks(c)
               \/ \E r \in Requests : Answers(c, r)
        PROVE  Inv'
    BY <1>2, DataSafe, EventSafe, ConditionSafe, WritesSafe DEF Event
  <1>3. CASE UNCHANGED vars
    BY <1>3 DEF vars, Inv, TypeOK, OutputIsOwn, NumbersInOrder, NewIsUntouched, GivenUpStops,
                PendingIsAnswerable, Pending, SettledByOwner, BufferIsCurrent
  <1> QED  BY <1>1, <1>2, <1>3 DEF Next

LEMMA AlwaysInv == Spec => []Inv
  BY InitInv, NextInv, PTL DEF Spec

(***************************************************************************)
(* The theorems.                                                           *)
(***************************************************************************)

\* The variables keep their types.
THEOREM TypeCorrect == Spec => []TypeOK
  BY AlwaysInv, PTL DEF Inv

\* Every pending request was written to the current child.
THEOREM AlwaysAnswerable == Spec => []PendingIsAnswerable
  BY AlwaysInv, PTL DEF Inv

\* Every request is settled by its own process.
THEOREM AlwaysSettledByOwner == Spec => []SettledByOwner
  BY AlwaysInv, PTL DEF Inv

\* The buffer never holds output of a process that was replaced.
THEOREM BufferStaysCurrent == Spec => []BufferIsCurrent
  BY AlwaysInv, PTL DEF Inv

\* A provider that was given up has been killed.
THEOREM NoProviderLeftRunning == Spec => []GivenUpIsKilled
  <1>1. Inv => GivenUpIsKilled  BY DEF Inv, GivenUpStops, GivenUpIsKilled
  <1> QED  BY <1>1, AlwaysInv, PTL
=============================================================================
