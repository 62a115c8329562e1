---------------------------- MODULE Viewer_proofs ----------------------------
(***************************************************************************)
(* Proofs about Viewer, for any views, tiles, settings and capacity of the *)
(* cache.                                                                  *)
(*                                                                         *)
(* The argument: a plan and a plane are made with a revision of what they  *)
(* show, and whatever changes what they show raises that revision, so one  *)
(* that has the revision in force shows what is there (Honest).  Which     *)
(* revision counts depends on the source the viewer expects, and this one  *)
(* follows from the key as far as it matters: what the planner does        *)
(* otherwise (a hierarchy seen while it is moved, a layout without bins)   *)
(* is never taken for what is expected.                                    *)
(***************************************************************************)
EXTENDS Viewer, TLAPS

-----------------------------------------------------------------------------
(***************************************************************************)
(* The loader of detail, for any boxes and any number of failures.         *)
(*                                                                         *)
(* The argument: generations are given out in ascending order, and a       *)
(* request is sent only after every request with a lower one               *)
(* (PendingIsNewest).  The thread answers in the order it was asked        *)
(* (AnswersInOrder), so a result that is taken is older than everything    *)
(* that is still underway, and taking it does not make the viewer forget   *)
(* that it waits for the rest.                                             *)
(***************************************************************************)

AnyRequest == [viewport : Boxes \cup {NoBox}, generation : Nat]

LoaderTypeOK ==
    /\ load \in [pending : AnyRequest, inFlight : AnyRequest,
                 completed : AnyRequest, completedGeneration : Nat]
    /\ loadGeneration \in Nat
    /\ requests \in Seq(AnyRequest)
    /\ worker \in [phase : {"opening", "waiting", "loading", "gone"},
                   request : AnyRequest]
    /\ results \in Seq([request : AnyRequest, ok : BOOLEAN])

\* What is to be asked next is newer than all that was asked.
IsNewest(l, generation) ==
    /\ l.inFlight.generation <= generation
    /\ l.completedGeneration <= generation
    /\ l.pending # NoRequest => /\ l.pending.generation > l.inFlight.generation
                                /\ l.pending.generation > l.completedGeneration
                                /\ l.pending.generation <= generation
PendingIsNewest == IsNewest(load, loadGeneration)

AnswersInOrder ==
    /\ \A i \in DOMAIN results : \A j \in 1..(i - 1) :
          Real(i) => results[j].request.generation < results[i].request.generation
    /\ \A i \in DOMAIN results :
          /\ Working => results[i].request.generation < worker.request.generation
          /\ \A j \in DOMAIN requests :
                results[i].request.generation < requests[j].generation
    /\ \A i \in DOMAIN requests :
          /\ Working => worker.request.generation < requests[i].generation
          /\ \A j \in 1..(i - 1) : requests[j].generation < requests[i].generation

\* Only the thread that could not open the package answers to no request.
SuccessIsReal == \A i \in DOMAIN results : results[i].ok => Real(i)

LoaderInv ==
    /\ LoaderTypeOK /\ PendingIsNewest /\ WaitingIsKnown
    /\ AnswersInOrder /\ SuccessIsReal

LEMMA ElementInRange ==
    ASSUME NEW S, NEW s \in Seq(S), NEW i \in DOMAIN s
    PROVE  s[i] \in S
  OBVIOUS

LEMMA NoRequestIsRequest == NoRequest \in AnyRequest /\ NoRequest.generation = 0
  BY DEF NoRequest, AnyRequest

LEMMA LoaderInitInv == LoaderInit => LoaderInv
  <1> SUFFICES ASSUME LoaderInit PROVE LoaderInv  OBVIOUS
  <1> USE NoRequestIsRequest DEF LoaderInit
  <1>1. LoaderTypeOK  BY DEF LoaderTypeOK
  <1>2. PendingIsNewest  BY DEF PendingIsNewest, IsNewest
  <1>3. WaitingIsKnown  BY DEF WaitingIsKnown, Working
  <1>4. AnswersInOrder /\ SuccessIsReal  BY DEF AnswersInOrder, SuccessIsReal, Working
  <1> QED  BY <1>1, <1>2, <1>3, <1>4 DEF LoaderInv

(***************************************************************************)
(* Taking a result.                                                        *)
(***************************************************************************)
\* A result is merged only when nothing waits to be sent, and what is still
\* underway goes on waiting.
LEMMA PollingKeepsOrder ==
    ASSUME LoaderInv
    PROVE  /\ Polled \in [pending : AnyRequest, inFlight : AnyRequest,
                          completed : AnyRequest, completedGeneration : Nat]
           /\ IsNewest(Polled, loadGeneration)
           /\ Polled.pending = load.pending
           /\ \A r \in AnyRequest :
                 /\ Waits(load, r)
                 /\ results # <<>> => Newest(results).request.generation < r.generation
                 => /\ r.generation > Polled.completedGeneration
                    /\ r.generation <= Polled.inFlight.generation
  <1> USE NoRequestIsRequest DEF LoaderInv, LoaderTypeOK
  <1>1. CASE ~Lands
    <2>1. Polled = load  BY <1>1 DEF Polled
    <2> QED  BY <2>1 DEF PendingIsNewest, Waits
  <1>2. CASE Lands
    <2> DEFINE q == Newest(results).request
    <2>1. results # <<>> /\ Len(results) \in DOMAIN results  BY <1>2 DEF Lands
    <2>2. q \in AnyRequest
      <3>1. Newest(results) \in [request : AnyRequest, ok : BOOLEAN]
        BY <2>1, ElementInRange DEF Newest
      <3> QED  BY <3>1
    <2>3. q # NoRequest => q.generation <= load.inFlight.generation
      BY <2>1 DEF Newest, WaitingIsKnown, Waits, Real
    <2>4. q.generation <= loadGeneration
      BY <2>2, <2>3 DEF PendingIsNewest, IsNewest, AnyRequest
    <2>5. load.pending = NoRequest
      BY <1>2, <2>2, <2>3 DEF Lands, ShouldApplyResult, PendingIsNewest, IsNewest, AnyRequest
    <2>6. Polled = [load EXCEPT !.completed = q,
                       !.completedGeneration = Most(load.completedGeneration, q.generation),
                       !.inFlight = IF load.inFlight.generation <= q.generation
                                    THEN NoRequest ELSE load.inFlight]
      BY <1>2 DEF Polled, MarkCompleted
    <2>7. Most(load.completedGeneration, q.generation) \in Nat
      BY <2>2 DEF Most, AnyRequest
    <2>8. /\ Polled.pending = NoRequest
          /\ Polled.completedGeneration = Most(load.completedGeneration, q.generation)
          /\ Polled.inFlight = IF load.inFlight.generation <= q.generation
                               THEN NoRequest ELSE load.inFlight
      BY <2>5, <2>6
    <2>9. Polled \in [pending : AnyRequest, inFlight : AnyRequest,
                      completed : AnyRequest, completedGeneration : Nat]
      BY <2>2, <2>6, <2>7
    <2>10. IsNewest(Polled, loadGeneration)
      BY <2>2, <2>4, <2>8 DEF IsNewest, PendingIsNewest, Most, AnyRequest
    <2>11. \A r \in AnyRequest :
              Waits(load, r) /\ q.generation < r.generation
              => /\ r.generation > Polled.completedGeneration
                 /\ r.generation <= Polled.inFlight.generation
      BY <2>2, <2>8 DEF Waits, Most, AnyRequest
    <2> QED  BY <2>1, <2>5, <2>8, <2>9, <2>10, <2>11
  <1> QED  BY <1>1, <1>2

(***************************************************************************)
(* A frame.                                                                *)
(***************************************************************************)
LEMMA ServeSafe ==
    ASSUME LoaderInv, NEW want \in Boxes \cup {NoBox}, NEW held \in BOOLEAN,
           Serve(want, held)
    PROVE  LoaderInv'
  <1> DEFINE asks == want # NoBox /\ (held \/ NeedsRequest(Polled, want))
             next == loadGeneration + (IF asks THEN 1 ELSE 0)
             asked == IF want = NoBox THEN ClearPending(Polled)
                      ELSE IF asks THEN Request(Polled, want, next) ELSE Polled
             sends == want # NoBox /\ ~held /\ asked.pending # NoRequest
             States == [pending : AnyRequest, inFlight : AnyRequest,
                        completed : AnyRequest, completedGeneration : Nat]
  <1>1. /\ load' = IF sends THEN TakePending(asked) ELSE asked
        /\ loadGeneration' = next
        /\ requests' = IF sends /\ worker.phase # "gone"
                       THEN Append(requests, asked.pending) ELSE requests
        /\ results' = <<>>
        /\ worker' = worker
    BY DEF Serve
  <1>2. loadGeneration \in Nat /\ next \in Nat /\ next >= loadGeneration
        /\ (asks => next = loadGeneration + 1)
    BY DEF LoaderInv, LoaderTypeOK
  <1>3. Polled \in States /\ IsNewest(Polled, loadGeneration)
    BY PollingKeepsOrder
  <1>4. /\ asked \in States /\ IsNewest(asked, next)
        /\ asked.inFlight = Polled.inFlight
        /\ asked.completedGeneration = Polled.completedGeneration
    <2> HIDE DEF next
    <2>1. CASE want = NoBox
      <3>1. asked = [Polled EXCEPT !.pending = NoRequest]  BY <2>1 DEF ClearPending
      <3> QED  BY <1>2, <1>3, <3>1, NoRequestIsRequest DEF IsNewest, AnyRequest
    <2>2. CASE asks
      <3>1. asked = [Polled EXCEPT !.pending = [viewport |-> want, generation |-> next]]
        BY <2>2 DEF Request
      <3>2. [viewport |-> want, generation |-> next] \in AnyRequest
        BY <1>2 DEF AnyRequest
      <3>3. asked \in States  BY <1>3, <3>1, <3>2
      <3>4. asked.pending.generation = loadGeneration + 1  BY <1>2, <1>3, <2>2, <3>1
      <3> QED  BY <1>2, <1>3, <2>2, <3>1, <3>3, <3>4 DEF IsNewest, AnyRequest
    <2>3. CASE want # NoBox /\ ~asks
      <3>1. asked = Polled  BY <2>3
      <3> QED  BY <1>2, <1>3, <3>1 DEF IsNewest, AnyRequest
    <2> QED  BY <2>1, <2>2, <2>3
  <1> HIDE DEF next, asked
  <1>5. /\ load' \in States /\ IsNewest(load', next)
        /\ load'.completedGeneration = Polled.completedGeneration
        /\ load'.inFlight = IF sends THEN asked.pending ELSE Polled.inFlight
    <2>1. CASE sends
      <3>1. load' = [asked EXCEPT !.pending = NoRequest, !.inFlight = asked.pending]
        BY <1>1, <2>1 DEF TakePending
      <3> QED  BY <1>2, <1>4, <2>1, <3>1, NoRequestIsRequest DEF IsNewest, AnyRequest
    <2>2. CASE ~sends  BY <1>1, <1>4, <2>2
    <2> QED  BY <2>1, <2>2
  <1>6. sends => /\ asked.pending \in AnyRequest
                 /\ asked.pending.generation > Polled.inFlight.generation
                 /\ asked.pending.generation > Polled.completedGeneration
    BY <1>4 DEF IsNewest
  \* What was underway goes on waiting.
  <1>7. ASSUME NEW r \in AnyRequest, Waits(load, r),
               results # <<>> => Newest(results).request.generation < r.generation
        PROVE  /\ Waits(load', r)
               /\ r.generation <= Polled.inFlight.generation
    <2>1. /\ r.generation > Polled.completedGeneration
          /\ r.generation <= Polled.inFlight.generation
      BY <1>7, PollingKeepsOrder
    <2> QED  BY <1>3, <1>5, <1>6, <2>1 DEF Waits, AnyRequest
  <1>8. Working => worker.request \in AnyRequest /\ Waits(load', worker.request)
                   /\ worker.request.generation <= Polled.inFlight.generation
    <2> SUFFICES ASSUME Working
                 PROVE  /\ worker.request \in AnyRequest
                        /\ Waits(load', worker.request)
                        /\ worker.request.generation <= Polled.inFlight.generation
      OBVIOUS
    <2>1. worker.request \in AnyRequest /\ Waits(load, worker.request)
      BY DEF LoaderInv, LoaderTypeOK, WaitingIsKnown
    <2>2. results # <<>> => Newest(results).request.generation < worker.request.generation
      BY DEF LoaderInv, LoaderTypeOK, AnswersInOrder, Newest
    <2>3. worker'.request = worker.request  BY <1>1
    <2> QED  BY <1>7, <2>1, <2>2, <2>3 DEF Waits
  <1>9. \A i \in DOMAIN requests :
           /\ requests[i] \in AnyRequest /\ Waits(load', requests[i])
           /\ requests[i].generation <= Polled.inFlight.generation
    <2> SUFFICES ASSUME NEW i \in DOMAIN requests
                 PROVE  /\ requests[i] \in AnyRequest
                        /\ Waits(load', requests[i])
                        /\ requests[i].generation <= Polled.inFlight.generation
      BY DEF Waits
    <2> DEFINE r == requests[i]
    <2>1. r \in AnyRequest
      <3>1. requests \in Seq(AnyRequest)  BY DEF LoaderInv, LoaderTypeOK
      <3> QED  BY <3>1, ElementInRange
    <2>2. Waits(load, r)  BY DEF LoaderInv, WaitingIsKnown
    <2>3. results # <<>> => Newest(results).request.generation < r.generation
      BY DEF LoaderInv, LoaderTypeOK, AnswersInOrder, Newest
    <2>4. /\ load'.completedGeneration < r.generation
          /\ r.generation <= load'.inFlight.generation
          /\ r.generation <= Polled.inFlight.generation
      <3> HIDE DEF r
      <3>1. /\ r.generation > Polled.completedGeneration
            /\ r.generation <= Polled.inFlight.generation
        BY <2>1, <2>2, <2>3, PollingKeepsOrder
      <3> QED  BY <1>3, <1>5, <1>6, <2>1, <3>1 DEF AnyRequest
    <2> QED  BY <2>1, <2>4 DEF Waits
  \* The request that is sent is the newest of all.
  <1>10. CASE sends /\ worker.phase # "gone"
    <2>1. /\ requests' = Append(requests, asked.pending) /\ requests \in Seq(AnyRequest)
          /\ asked.pending \in AnyRequest
      BY <1>1, <1>6, <1>10 DEF LoaderInv, LoaderTypeOK
    <2>2. /\ requests' \in Seq(AnyRequest)
          /\ DOMAIN requests' = 1..(Len(requests) + 1)
          /\ \A i \in DOMAIN requests : requests'[i] = requests[i]
          /\ requests'[Len(requests) + 1] = asked.pending
          /\ DOMAIN requests = 1..Len(requests) /\ Len(requests) \in Nat
      BY <2>1
    <2>3. \A i \in DOMAIN requests :
             /\ requests[i].generation \in Nat
             /\ requests[i].generation < asked.pending.generation
      BY <1>3, <1>6, <1>9, <1>10 DEF AnyRequest
    <2>4. LoaderTypeOK'
      BY <1>1, <1>2, <1>5, <2>2 DEF LoaderInv, LoaderTypeOK
    <2>5. WaitingIsKnown'
      <3>1. \A i \in DOMAIN requests' : Waits(load', requests'[i]) \/ requests'[i] = asked.pending
        BY <1>9, <2>2
      <3>2. load'.inFlight = asked.pending
            /\ load'.completedGeneration < asked.pending.generation
        BY <1>3, <1>5, <1>6, <1>10 DEF AnyRequest
      <3>3. \A i \in DOMAIN requests' : Waits(load', requests'[i])
        BY <2>1, <3>1, <3>2 DEF Waits, AnyRequest
      <3>4. Working' => Waits(load', worker'.request)  BY <1>1, <1>8 DEF Working
      <3> QED  BY <1>1, <3>3, <3>4 DEF WaitingIsKnown
    <2>6. AnswersInOrder'
      <3>1. \A i \in DOMAIN requests' :
               /\ Working' => worker'.request.generation < requests'[i].generation
               /\ \A j \in 1..(i - 1) : requests'[j].generation < requests'[i].generation
        <4> SUFFICES ASSUME NEW i \in DOMAIN requests'
                     PROVE  /\ Working' => worker'.request.generation < requests'[i].generation
                            /\ \A j \in 1..(i - 1) :
                                  requests'[j].generation < requests'[i].generation
          OBVIOUS
        <4>1. CASE i \in DOMAIN requests
          <5>1. requests'[i] = requests[i] /\ \A j \in 1..(i - 1) : requests'[j] = requests[j]
            BY <2>2, <4>1
          <5> QED  BY <1>1, <4>1, <5>1 DEF LoaderInv, AnswersInOrder, Working
        <4>2. CASE i = Len(requests) + 1
          <5>1. \A j \in 1..(i - 1) : requests'[j].generation < requests'[i].generation
            BY <2>2, <2>3, <4>2
          <5>2. Working => worker.request.generation < asked.pending.generation
            BY <1>3, <1>6, <1>8, <1>10 DEF AnyRequest
          <5> QED  BY <1>1, <2>2, <4>2, <5>1, <5>2 DEF Working
        <4> QED  BY <2>2, <4>1, <4>2
      <3> QED  BY <1>1, <3>1 DEF AnswersInOrder
    <2> QED  BY <1>1, <1>5, <2>4, <2>5, <2>6 DEF LoaderInv, PendingIsNewest, SuccessIsReal
  <1>11. CASE ~(sends /\ worker.phase # "gone")
    <2>1. requests' = requests  BY <1>1, <1>11
    <2>2. LoaderTypeOK'
      BY <1>1, <1>2, <1>5, <2>1 DEF LoaderInv, LoaderTypeOK
    <2>3. WaitingIsKnown'
      <3>1. Working' => Waits(load', worker'.request)  BY <1>1, <1>8 DEF Working
      <3>2. \A i \in DOMAIN requests' : Waits(load', requests'[i])  BY <1>9, <2>1
      <3> QED  BY <1>1, <3>1, <3>2 DEF WaitingIsKnown
    <2>4. AnswersInOrder'
      BY <1>1, <2>1 DEF LoaderInv, AnswersInOrder, Working
    <2> QED  BY <1>1, <1>5, <2>2, <2>3, <2>4 DEF LoaderInv, PendingIsNewest, SuccessIsReal
  <1> QED  BY <1>10, <1>11

\* A frame changes which generation is done only by taking a result.
LEMMA ServeKeepsCompleted ==
    ASSUME LoaderInv, NEW want, NEW held, Serve(want, held)
    PROVE  load'.completedGeneration = Polled.completedGeneration
  <1>1. Polled \in [pending : AnyRequest, inFlight : AnyRequest,
                    completed : AnyRequest, completedGeneration : Nat]
    BY PollingKeepsOrder
  <1>2. \A r : [Polled EXCEPT !.pending = r].completedGeneration = Polled.completedGeneration
    BY <1>1
  <1>3. \A r, q : [[Polled EXCEPT !.pending = r] EXCEPT !.pending = NoRequest, !.inFlight = q]
                      .completedGeneration = Polled.completedGeneration
    BY <1>1
  <1>4. \A q : [Polled EXCEPT !.pending = NoRequest, !.inFlight = q].completedGeneration
               = Polled.completedGeneration
    BY <1>1
  <1> QED  BY <1>2, <1>3, <1>4 DEF Serve, Request, ClearPending, TakePending

(***************************************************************************)
(* The thread.                                                             *)
(***************************************************************************)
LEMMA WorkerSafe ==
    ASSUME LoaderInv, WorkerStep
    PROVE  LoaderInv'
  <1> USE NoRequestIsRequest DEF LoaderInv
  <1>1. load' = load /\ loadGeneration' = loadGeneration /\ PendingIsNewest'
    BY DEF WorkerStep, WorkerOpens, WorkerCannotOpen, WorkerTakes, WorkerLoads,
           WorkerFails, WorkerAnswers, PendingIsNewest
  <1>2. CASE WorkerOpens
    <2> USE <1>1, <1>2 DEF WorkerOpens
    <2>1. LoaderTypeOK'  BY DEF LoaderTypeOK
    <2>2. ~Working'  BY DEF LoaderTypeOK, Working
    <2>3. WaitingIsKnown'  BY <2>2 DEF WaitingIsKnown, Real, Waits
    <2>4. AnswersInOrder' /\ SuccessIsReal'
      BY <2>2 DEF AnswersInOrder, SuccessIsReal, Real
    <2> QED  BY <1>1, <2>1, <2>3, <2>4
  <1>3. CASE WorkerCannotOpen
    <2> DEFINE answer == [request |-> NoRequest, ok |-> FALSE]
    <2>1. /\ requests' = <<>> /\ ~Working' /\ worker'.phase = "gone"
          /\ worker'.request = worker.request
      BY <1>3 DEF WorkerCannotOpen, LoaderTypeOK, Working
    <2>2. results' = Append(results, answer)  BY <1>3 DEF WorkerCannotOpen
    <2>3. answer \in [request : AnyRequest, ok : BOOLEAN]  OBVIOUS
    <2>4. LoaderTypeOK'
      BY <1>1, <1>3, <2>1, <2>2, <2>3 DEF LoaderTypeOK, WorkerCannotOpen
    <2>5. /\ results \in Seq([request : AnyRequest, ok : BOOLEAN])
          /\ DOMAIN results = 1..Len(results) /\ DOMAIN results' = 1..(Len(results) + 1)
          /\ \A i \in DOMAIN results : results'[i] = results[i]
          /\ results'[Len(results) + 1] = answer
      BY <2>2, <2>3 DEF LoaderTypeOK
    <2>6. /\ results'[Len(results) + 1].request = NoRequest
          /\ results'[Len(results) + 1].ok = FALSE
          /\ \A i \in DOMAIN results' : i \in DOMAIN results \/ i = Len(results) + 1
      BY <2>5
    <2> HIDE DEF answer
    <2>7. WaitingIsKnown'
      <3> SUFFICES ASSUME NEW i \in DOMAIN results', results'[i].request # NoRequest
                   PROVE  Waits(load, results'[i].request)
        BY <1>1, <2>1 DEF WaitingIsKnown, Real, Waits
      <3>1. i \in DOMAIN results /\ results'[i] = results[i]  BY <2>5, <2>6
      <3> QED  BY <3>1 DEF WaitingIsKnown, Real
    <2>8. \A i \in DOMAIN results' : \A j \in 1..(i - 1) :
             Real(i)' => results'[j].request.generation < results'[i].request.generation
      <3> SUFFICES ASSUME NEW i \in DOMAIN results', results'[i].request # NoRequest,
                          NEW j \in 1..(i - 1)
                   PROVE  results'[j].request.generation < results'[i].request.generation
        BY DEF Real
      <3>1. i \in DOMAIN results /\ results'[i] = results[i]  BY <2>5, <2>6
      <3>2. j \in DOMAIN results /\ results'[j] = results[j]  BY <2>5, <3>1
      <3> QED  BY <3>1, <3>2 DEF AnswersInOrder, Real
    <2>9. AnswersInOrder'  BY <2>1, <2>8 DEF AnswersInOrder
    <2>10. SuccessIsReal'
      BY <2>5, <2>6 DEF SuccessIsReal, Real
    <2> QED  BY <1>1, <2>4, <2>7, <2>9, <2>10
  <1>4. CASE WorkerTakes
    <2>1. /\ requests' = <<>> /\ results' = results /\ Working'
          /\ worker'.request = requests[Len(requests)]
          /\ Len(requests) \in DOMAIN requests /\ worker'.phase = "loading"
          /\ worker' = [phase |-> "loading", request |-> requests[Len(requests)]]
      BY <1>4 DEF WorkerTakes, Newest, Working, LoaderTypeOK
    <2>2. requests[Len(requests)] \in AnyRequest
      <3>1. requests \in Seq(AnyRequest)  BY DEF LoaderTypeOK
      <3> QED  BY <2>1, <3>1, ElementInRange
    <2>3. LoaderTypeOK'  BY <1>1, <2>1, <2>2 DEF LoaderTypeOK
    <2>4. WaitingIsKnown'  BY <1>1, <2>1 DEF WaitingIsKnown, Real
    <2>5. AnswersInOrder' /\ SuccessIsReal'
      BY <2>1 DEF AnswersInOrder, SuccessIsReal, Real
    <2> QED  BY <1>1, <2>3, <2>4, <2>5
  <1>5. ASSUME NEW ok \in BOOLEAN, WorkerAnswers(ok)
        PROVE  LoaderInv'
    <2> DEFINE answer == [request |-> worker.request, ok |-> ok]
    <2>1. /\ requests' = requests /\ Working /\ ~Working'
          /\ worker' = [phase |-> "waiting", request |-> NoRequest]
      BY <1>5 DEF WorkerAnswers, Working
    <2>2. results' = Append(results, answer)  BY <1>5 DEF WorkerAnswers
    <2>3. answer \in [request : AnyRequest, ok : BOOLEAN]  BY DEF LoaderTypeOK
    <2>4. LoaderTypeOK'  BY <1>1, <2>1, <2>2, <2>3 DEF LoaderTypeOK
    <2>5. /\ results \in Seq([request : AnyRequest, ok : BOOLEAN])
          /\ DOMAIN results = 1..Len(results) /\ DOMAIN results' = 1..(Len(results) + 1)
          /\ \A i \in DOMAIN results : results'[i] = results[i]
          /\ results'[Len(results) + 1] = answer
      BY <2>2, <2>3 DEF LoaderTypeOK
    <2>6. Waits(load, worker.request) /\ worker.request # NoRequest
      BY <2>1 DEF WaitingIsKnown, Waits, LoaderTypeOK
    <2>7. \A i \in DOMAIN results : Real(i)' <=> Real(i)  BY <2>5 DEF Real
    <2>8. WaitingIsKnown'
      BY <1>1, <2>1, <2>5, <2>6, <2>7 DEF WaitingIsKnown
    <2>9. \A i \in DOMAIN results' : \A j \in 1..(i - 1) :
             Real(i)' => results'[j].request.generation < results'[i].request.generation
      BY <2>1, <2>5, <2>7 DEF AnswersInOrder
    <2>10. \A i \in DOMAIN results' : \A j \in DOMAIN requests' :
             results'[i].request.generation < requests'[j].generation
      BY <2>1, <2>5 DEF AnswersInOrder
    <2>11. AnswersInOrder'  BY <2>1, <2>9, <2>10 DEF AnswersInOrder
    <2>12. SuccessIsReal'  BY <2>5, <2>6, <2>7 DEF SuccessIsReal, Real
    <2> QED  BY <1>1, <2>4, <2>8, <2>11, <2>12
  <1> QED
    BY <1>2, <1>3, <1>4, <1>5 DEF WorkerStep, WorkerLoads, WorkerFails

(***************************************************************************)
(* The theorems.                                                           *)
(***************************************************************************)
LEMMA LoaderStep == LoaderInv /\ [LoaderNext]_loaderVars => LoaderInv'
  <1>1. CASE LoaderInv /\ LoaderNext
    BY <1>1, ServeSafe, WorkerSafe DEF LoaderNext
  <1>2. CASE LoaderInv /\ UNCHANGED loaderVars
    BY <1>2 DEF loaderVars, LoaderInv, LoaderTypeOK, PendingIsNewest, WaitingIsKnown,
                AnswersInOrder, SuccessIsReal, Real, Working
  <1> QED  BY <1>1, <1>2

\* A request whose answer no frame has had is newer than what the session
\* has, and the viewer knows that it waits, however the frames, the moves of
\* the view, the thread and its failures are ordered.
THEOREM WaitingIsAlwaysKnown == LoaderSpec => []WaitingIsKnown
  <1>1. LoaderInv => WaitingIsKnown  BY DEF LoaderInv
  <1> QED  BY <1>1, LoaderInitInv, LoaderStep, PTL DEF LoaderSpec

\* What the session merges is newer than all it merged before: a stale result
\* never comes after a newer one.
THEOREM DetailNeverGoesBack ==
    LoaderSpec => [][merged' # merged
                     => load'.completedGeneration > load.completedGeneration]_loaderVars
  <1>1. LoaderInv /\ [LoaderNext]_loaderVars
        => [merged' # merged
            => load'.completedGeneration > load.completedGeneration]_loaderVars
    <2> SUFFICES ASSUME LoaderInv, LoaderNext, merged' # merged
                 PROVE  load'.completedGeneration > load.completedGeneration
      BY DEF loaderVars
    <2>1. PICK want \in Boxes \cup {NoBox}, held \in BOOLEAN : Serve(want, held)
      BY DEF LoaderNext, WorkerStep, WorkerOpens, WorkerCannotOpen, WorkerTakes,
             WorkerLoads, WorkerFails, WorkerAnswers
    <2>2. Lands  BY <2>1 DEF Serve
    <2> DEFINE q == Newest(results).request
    <2>3. results # <<>> /\ Len(results) \in DOMAIN results /\ Newest(results).ok
      BY <2>2 DEF Lands, LoaderInv, LoaderTypeOK
    <2>4. Waits(load, q)
      BY <2>3 DEF LoaderInv, SuccessIsReal, WaitingIsKnown, Real, Newest
    <2>5. q \in AnyRequest
      <3>1. results \in Seq([request : AnyRequest, ok : BOOLEAN])
        BY DEF LoaderInv, LoaderTypeOK
      <3>2. Newest(results) \in [request : AnyRequest, ok : BOOLEAN]
        BY <2>3, <3>1, ElementInRange DEF Newest
      <3> QED  BY <3>2
    <2>6. load \in [pending : AnyRequest, inFlight : AnyRequest,
                    completed : AnyRequest, completedGeneration : Nat]
      BY DEF LoaderInv, LoaderTypeOK
    <2>7. Polled.completedGeneration = Most(load.completedGeneration, q.generation)
      BY <2>2, <2>6 DEF Polled, MarkCompleted
    <2>8. load'.completedGeneration = Polled.completedGeneration
      BY <2>1, ServeKeepsCompleted
    <2> HIDE DEF q
    <2> QED  BY <2>4, <2>5, <2>6, <2>7, <2>8 DEF Waits, Most, AnyRequest
  <1> QED  BY <1>1, LoaderInitInv, LoaderStep, PTL DEF LoaderSpec

-----------------------------------------------------------------------------
(***************************************************************************)
(* The frames.                                                             *)
(***************************************************************************)

Coarse == {"HierarchyFar", "HierarchyMid"}
Sources == Coarse \cup {"HierarchyNear", "OverviewDensity", "FlatDetail"}
Shown == {"all", "unbinned", "none"}
Levels == {NoLevel, "Near", "Mid", "Far"}
Overviews == {0, 1, 2}

\* What the key of a plan is made of.
PlanBoxes == {v.box : v \in Views} \cup DetailBoxes
Zooms == {v.upp : v \in Views}
PlanKeys == PlanBoxes \X Zooms \X Shown \X BOOLEAN \X Sources
PlaneKeys == Sources \X PlanKeys \X Nat
Contents == SUBSET (Tiles \cup Overviews)

ViewerTypeOK ==
    /\ design \in Designs
    /\ view \in Views /\ shown \in Shown /\ moving \in BOOLEAN
    /\ overview \in Overviews
    /\ revisions \in [hierarchy : Nat, overview : Nat, detail : Nat]
    /\ level \in Levels
    /\ plan = NoPlan
       \/ plan \in [source : Sources, key : PlanKeys, revision : Nat, shows : Contents]

\* Only a flat design has an overview.
OverviewIsFlat == overview # 0 => design = "flat"

\* The viewer expects the density of a flat design that is seen from far.
ExpectsDensity(upp, what) == what # "none" /\ design = "flat" /\ upp >= Settings.coarse

\* What is made of a source for a key: where it can come from, and that it shows
\* what the session holds if its revision is the one in force.
Honest(source, key, revision, shows) ==
    /\ source = "HierarchyNear" => key[4] = FALSE
    /\ source = "OverviewDensity" => key[3] = "all" /\ ExpectsDensity(key[2], key[3])
    /\ source = "FlatDetail" /\ key[3] # "none" => design # "hierarchy"
    /\ source \in Coarse \cup {"HierarchyNear"} => design = "hierarchy"
    /\ source \in Coarse \/ key[3] = "none" => shows = {}
    /\ source = "OverviewDensity" =>
          /\ revision <= revisions.overview
          /\ revision = revisions.overview => shows = {overview}
    /\ IsDetail(source) /\ key[3] # "none" /\ ~ExpectsDensity(key[2], key[3]) =>
          /\ revision <= revisions.detail
          /\ revision = revisions.detail => shows = {t \in Detail : Meets(t, key[1])}

PlanIsHonest == plan # NoPlan => Honest(plan.source, plan.key, plan.revision, plan.shows)

\* The planes, in the cache and on the screen.
Planes == [key : PlaneKeys, shows : Contents]
HonestPlanes == {q \in Planes : Honest(q.key[1], q.key[2], q.key[3], q.shows)}
PlanesAreHonest ==
    planes \in Seq(HonestPlanes) /\ texture \in HonestPlanes \cup {NoTexture}

ViewerInv ==
    /\ ViewerTypeOK /\ OverviewIsFlat
    /\ PlanIsHonest /\ PlanesAreHonest
    /\ PlanIsCurrent /\ TextureShowsPlan

(***************************************************************************)
(* What the viewer expects and what the planner does.                      *)
(***************************************************************************)
LEMMA SettingsMoved ==
    ASSUME NEW move \in BOOLEAN
    PROVE  /\ SettingsFor(move).bbox = Settings.bbox
           /\ SettingsFor(move).coarse = Settings.coarse
           /\ SettingsFor(move).idle = Settings.idle
           /\ SettingsFor(move).force = move
  BY ViewerAssumption DEF SettingsFor

\* A level that was entered is kept when nothing moves.
LEMMA ClassifyStable ==
    ASSUME NEW upp, NEW settings, NEW before, NEW after,
           after = before \/ after = ClassifyLod(upp, settings, before)
    PROVE  ClassifyLod(upp, settings, after) = ClassifyLod(upp, settings, before)
  BY DEF ClassifyLod

LEMMA LevelsOfDetail ==
    ASSUME NEW upp, NEW settings, NEW before
    PROVE  /\ ClassifyLod(upp, settings, before) \in {"Near", "Mid", "Far"}
           /\ upp >= settings.coarse => ClassifyLod(upp, settings, before) # "Near"
  BY DEF ClassifyLod

\* The expectation and the plan do not depend on which of the two set the level.
LEMMA LevelIsSettled ==
    ASSUME NEW v, NEW what, NEW move, NEW ov, NEW before, NEW after,
           \/ after = Expected(v, what, move, ov, before).level
           \/ after = Planned(v, what, move, ov, before).level
    PROVE  /\ Expected(v, what, move, ov, after).source
              = Expected(v, what, move, ov, before).source
           /\ Planned(v, what, move, ov, after).source
              = Planned(v, what, move, ov, before).source
  <1> DEFINE l == ClassifyLod(v.upp, SettingsFor(move), before)
  <1>1. CASE what = "none"
    BY <1>1 DEF Expected, Planned
  <1>2. CASE what # "none"
    <2>1. after = before \/ after = l
      BY <1>2 DEF Expected, Planned
    <2>2. ClassifyLod(v.upp, SettingsFor(move), after) = l
      BY <2>1, ClassifyStable
    <2> HIDE DEF l
    <2> QED  BY <1>2, <2>2 DEF Expected, Planned, l
  <1> QED  BY <1>1, <1>2

\* A design without a hierarchy: the zoom and what is shown tell what is expected
\* and what is planned.
LEMMA FlatSources ==
    ASSUME ViewerInv, NEW v, NEW what, NEW move \in BOOLEAN, NEW ov, NEW before,
           design # "hierarchy",
           ov # 0 => design = "flat",
           design = "flat" /\ v.upp >= Settings.coarse => ov # 0
    PROVE  /\ Expected(v, what, move, ov, before).source =
                 IF ExpectsDensity(v.upp, what) THEN "OverviewDensity" ELSE "FlatDetail"
           /\ Planned(v, what, move, ov, before).source =
                 IF ExpectsDensity(v.upp, what) /\ what = "all"
                 THEN "OverviewDensity" ELSE "FlatDetail"
  <1> DEFINE l == ClassifyLod(v.upp, SettingsFor(move), before)
  <1>1. v.upp >= Settings.coarse => l # "Near"
    BY SettingsMoved, LevelsOfDetail
  <1> HIDE DEF l
  <1>2. CASE what = "none"
    BY <1>2 DEF Expected, Planned, ExpectsDensity
  <1>3. CASE what # "none"
    BY <1>1, <1>3 DEF Expected, Planned, OverviewUsable, ExpectsDensity, l
  <1> QED  BY <1>2, <1>3

\* A hierarchy: the planner does what is expected, except that it does not expand
\* it while the view is moved.
LEMMA HierarchySources ==
    ASSUME NEW v, NEW what, NEW move \in BOOLEAN, NEW ov, NEW before,
           design = "hierarchy", what # "none"
    PROVE  LET expected == Expected(v, what, move, ov, before).source
               planned == Planned(v, what, move, ov, before).source
           IN  /\ expected \in Coarse \cup {"HierarchyNear"}
               /\ planned \in Coarse \cup {"HierarchyNear"}
               /\ planned = "HierarchyNear" => ~move
               /\ ~move \/ expected # "HierarchyNear" => planned = expected
  <1> DEFINE l == ClassifyLod(v.upp, SettingsFor(move), before)
  <1>1. l \in {"Near", "Mid", "Far"}  BY LevelsOfDetail
  <1>2. RestsInDetail(l, v.upp, SettingsFor(move)) => l = "Mid" /\ ~move
    BY SettingsMoved DEF RestsInDetail
  <1> HIDE DEF l
  <1> QED  BY <1>1, <1>2 DEF Expected, Planned, Coarse, l

LEMMA NothingShown ==
    ASSUME NEW v, NEW move, NEW ov, NEW before
    PROVE  /\ Expected(v, "none", move, ov, before) = [source |-> "FlatDetail", level |-> before]
           /\ Planned(v, "none", move, ov, before) = [source |-> "FlatDetail", level |-> before]
  BY DEF Expected, Planned

LEMMA SourcesAndLevels ==
    ASSUME NEW v, NEW what, NEW move, NEW ov, NEW before \in Levels
    PROVE  /\ Expected(v, what, move, ov, before).source \in Sources
           /\ Planned(v, what, move, ov, before).source \in Sources
           /\ Expected(v, what, move, ov, before).level \in Levels
           /\ Planned(v, what, move, ov, before).level \in Levels
  <1>1. CASE what = "none"  BY <1>1 DEF Expected, Planned, Sources
  <1>2. CASE what # "none"
    BY <1>2, LevelsOfDetail DEF Expected, Planned, Sources, Coarse, Levels
  <1> QED  BY <1>1, <1>2

(***************************************************************************)
(* Revisions.                                                              *)
(***************************************************************************)
\* What a frame does to the revisions: they rise with what they are of.
RevisionsRise ==
    /\ revisions' \in [hierarchy : Nat, overview : Nat, detail : Nat]
    /\ revisions'.hierarchy = revisions.hierarchy
    /\ revisions.overview <= revisions'.overview
    /\ revisions.overview = revisions'.overview => overview' = overview
    /\ revisions.detail <= revisions'.detail
    /\ revisions.detail = revisions'.detail => Detail' = Detail

LEMMA FrameRevisions ==
    ASSUME ViewerInv, NEW v \in Views, NEW what \in Shown, NEW move \in BOOLEAN,
           Frame(v, what, move)
    PROVE  RevisionsRise
  <1> DEFINE more == IF overview' # overview THEN 1 ELSE 0
             detailed == IF Detail' # Detail THEN 1 ELSE 0
  <1>1. revisions \in [hierarchy : Nat, overview : Nat, detail : Nat]
    BY DEF ViewerInv, ViewerTypeOK
  <1>2. /\ more \in Nat /\ detailed \in Nat
        /\ more = 0 => overview' = overview
        /\ detailed = 0 => Detail' = Detail
    OBVIOUS
  <1>3. revisions' = [revisions EXCEPT !.overview = revisions.overview + more,
                                       !.detail = revisions.detail + detailed]
    BY DEF Frame
  <1> HIDE DEF more, detailed
  <1>4. revisions' = [hierarchy |-> revisions.hierarchy,
                      overview |-> revisions.overview + more,
                      detail |-> revisions.detail + detailed]
    BY <1>1, <1>3
  <1> QED  BY <1>1, <1>2, <1>4 DEF RevisionsRise

\* What was made before stays what it is said to be.
LEMMA HonestLater ==
    ASSUME ViewerInv, RevisionsRise, design' = design,
           NEW source \in Sources, NEW key \in PlanKeys, NEW revision \in Nat, NEW shows,
           Honest(source, key, revision, shows)
    PROVE  Honest(source, key, revision, shows)'
  <1>1. revisions \in [hierarchy : Nat, overview : Nat, detail : Nat]
    BY DEF ViewerInv, ViewerTypeOK
  <1>2. ExpectsDensity(key[2], key[3])' = ExpectsDensity(key[2], key[3])
    BY DEF ExpectsDensity
  <1>3. source = "OverviewDensity" =>
          /\ revision <= revisions'.overview
          /\ revision = revisions'.overview => shows = {overview'}
    BY <1>1 DEF RevisionsRise, Honest
  <1>4. IsDetail(source) /\ key[3] # "none" /\ ~ExpectsDensity(key[2], key[3]) =>
          /\ revision <= revisions'.detail
          /\ revision = revisions'.detail => shows = {t \in Detail' : Meets(t, key[1])}
    BY <1>1 DEF RevisionsRise, Honest
  <1> QED  BY <1>2, <1>3, <1>4 DEF Honest

(***************************************************************************)
(* The plan of a frame.                                                    *)
(***************************************************************************)
\* The overview after a frame.
LEMMA FrameOverview ==
    ASSUME ViewerInv, NEW v \in Views, NEW what, NEW move, Frame(v, what, move)
    PROVE  /\ overview' \in Overviews /\ design' = design
           /\ overview' # 0 => design = "flat"
           /\ design = "flat" /\ v.upp >= Settings.coarse => overview' # 0
  BY DEF Frame, OverviewFor, OverviewLevel, ViewerInv, ViewerTypeOK, OverviewIsFlat, Overviews

\* A plan made in this frame is what it is said to be, and one that is kept
\* is the one that would be made.
LEMMA FramePlanHonest ==
    ASSUME ViewerInv, NEW v \in Views, NEW what \in Shown, NEW move \in BOOLEAN,
           Frame(v, what, move),
           NEW expected, expected = Expected(v, what, move, overview', level).source,
           NEW source, source = Planned(v, what, move, overview', level).source,
           NEW box, NEW key, key = PlanKey(box, v.upp, what, move, source),
           NEW revision, revision = RevisionFor(expected, revisions'),
           NEW shows, shows = Shows(source, box, what, Detail', overview')
    PROVE  Honest(source, key, revision, shows)'
  <1>1. /\ overview' \in Overviews /\ design' = design
        /\ overview' # 0 => design = "flat"
        /\ design = "flat" /\ v.upp >= Settings.coarse => overview' # 0
    BY FrameOverview
  <1>2. key[1] = box /\ key[2] = v.upp /\ key[3] = what /\ key[4] = move
    BY DEF PlanKey
  <1>3. revisions' \in [hierarchy : Nat, overview : Nat, detail : Nat]
    BY FrameRevisions DEF RevisionsRise
  <1>4. \A upp, w : ExpectsDensity(upp, w)' = ExpectsDensity(upp, w)
    BY <1>1 DEF ExpectsDensity
  <1>5. CASE what = "none"
    <2>1. source = "FlatDetail" /\ expected = "FlatDetail"  BY <1>5, NothingShown
    <2>2. shows = {}  BY <1>5 DEF Shows
    <2> QED  BY <1>2, <1>5, <2>1, <2>2 DEF Honest, Coarse
  <1>6. CASE what # "none" /\ design = "hierarchy"
    <2>1. /\ source \in Coarse \cup {"HierarchyNear"}
          /\ source = "HierarchyNear" => ~move /\ expected = "HierarchyNear"
      BY <1>6, HierarchySources
    <2>2. source \in Coarse => shows = {}
      BY <1>6 DEF Shows, Coarse, IsDetail
    <2>3. source = "HierarchyNear" =>
             /\ revision = revisions'.detail
             /\ shows = {t \in Detail' : Meets(t, box)}
      BY <1>6, <2>1 DEF Shows, IsDetail, RevisionFor, IsHierarchyCoarse
    <2> QED  BY <1>1, <1>2, <1>3, <1>4, <1>6, <2>1, <2>2, <2>3 DEF Honest, Coarse, IsDetail
  <1>7. CASE what # "none" /\ design # "hierarchy"
    <2>1. /\ expected = IF ExpectsDensity(v.upp, what) THEN "OverviewDensity" ELSE "FlatDetail"
          /\ source = IF ExpectsDensity(v.upp, what) /\ what = "all"
                      THEN "OverviewDensity" ELSE "FlatDetail"
      BY <1>1, <1>7, FlatSources
    <2>2. source = "OverviewDensity" => revision = revisions'.overview /\ shows = {overview'}
      BY <1>7, <2>1 DEF Shows, IsDetail, RevisionFor, IsHierarchyCoarse
    <2>3. source = "FlatDetail" /\ ~ExpectsDensity(v.upp, what) =>
             /\ revision = revisions'.detail
             /\ shows = {t \in Detail' : Meets(t, box)}
      BY <1>7, <2>1 DEF Shows, IsDetail, RevisionFor, IsHierarchyCoarse
    <2> QED  BY <1>1, <1>2, <1>3, <1>4, <1>7, <2>1, <2>2, <2>3 DEF Honest, Coarse, IsDetail
  <1> QED  BY <1>5, <1>6, <1>7

\* What is honest, and has the key, the source and the revision that are expected,
\* is planned so, and shows what the plan would.
LEMMA ExpectedIsPlanned ==
    ASSUME ViewerInv, NEW v \in Views, NEW what \in Shown, NEW move \in BOOLEAN,
           Frame(v, what, move),
           NEW expected, expected = Expected(v, what, move, overview', level).source,
           NEW box, NEW key, key = PlanKey(box, v.upp, what, move, expected),
           NEW revision, revision = RevisionFor(expected, revisions'), NEW shows,
           Honest(expected, key, revision, shows)'
    PROVE  /\ Planned(v, what, move, overview', level).source = expected
           /\ shows = Shows(expected, box, what, Detail', overview')
  <1>1. /\ overview' \in Overviews /\ design' = design
        /\ overview' # 0 => design = "flat"
        /\ design = "flat" /\ v.upp >= Settings.coarse => overview' # 0
    BY FrameOverview
  <1>2. key[1] = box /\ key[2] = v.upp /\ key[3] = what /\ key[4] = move
    BY DEF PlanKey
  <1>3. \A upp, w : ExpectsDensity(upp, w)' = ExpectsDensity(upp, w)
    BY <1>1 DEF ExpectsDensity
  <1>4. CASE what = "none"
    <2>1. shows = {}  BY <1>2, <1>4 DEF Honest
    <2> QED  BY <1>4, <2>1, NothingShown DEF Shows
  <1>5. CASE what # "none" /\ design = "hierarchy"
    <2>1. /\ expected \in Coarse \cup {"HierarchyNear"}
          /\ ~move \/ expected # "HierarchyNear" =>
                Planned(v, what, move, overview', level).source = expected
      BY <1>5, HierarchySources
    <2>2. expected = "HierarchyNear" =>
             /\ move = FALSE /\ shows = {t \in Detail' : Meets(t, box)}
      BY <1>1, <1>2, <1>3, <1>5
         DEF Honest, RevisionFor, IsHierarchyCoarse, IsDetail, ExpectsDensity
    <2>3. expected \in Coarse => shows = {}
      BY DEF Honest
    <2> QED  BY <1>5, <2>1, <2>2, <2>3 DEF Shows, IsDetail, Coarse
  <1>6. CASE what # "none" /\ design # "hierarchy"
    <2>1. /\ expected = IF ExpectsDensity(v.upp, what) THEN "OverviewDensity" ELSE "FlatDetail"
          /\ Planned(v, what, move, overview', level).source
             = IF ExpectsDensity(v.upp, what) /\ what = "all"
               THEN "OverviewDensity" ELSE "FlatDetail"
      BY <1>1, <1>6, FlatSources
    <2>2. expected = "OverviewDensity" => what = "all" /\ shows = {overview'}
      BY <1>1, <1>2, <1>3 DEF Honest, RevisionFor, IsHierarchyCoarse
    <2>3. expected = "FlatDetail" => shows = {t \in Detail' : Meets(t, box)}
      BY <1>1, <1>2, <1>3, <1>6, <2>1 DEF Honest, RevisionFor, IsHierarchyCoarse, IsDetail
    <2> QED  BY <1>6, <2>1, <2>2, <2>3 DEF Shows, IsDetail
  <1> QED  BY <1>4, <1>5, <1>6

LEMMA PlanKeyTyped ==
    ASSUME NEW v \in Views, NEW what \in Shown, NEW move \in BOOLEAN,
           NEW source \in Sources, NEW expected
    PROVE  PlanKey(PlanBox(v, expected), v.upp, what, move, source) \in PlanKeys
  <1>1. PlanBox(v, expected) \in PlanBoxes
    BY DEF PlanBox, PlanBoxes, DetailBoxes, DetailLoadBox
  <1>2. v.upp \in Zooms  BY DEF Zooms
  <1> QED  BY <1>1, <1>2 DEF PlanKey, PlanKeys

LEMMA ShowsTyped ==
    ASSUME NEW source, NEW box, NEW what, NEW tiles \in SUBSET Tiles, NEW ov \in Overviews
    PROVE  Shows(source, box, what, tiles, ov) \in Contents
  BY DEF Shows, Contents

LEMMA RevisionTyped ==
    ASSUME NEW source, NEW revs \in [hierarchy : Nat, overview : Nat, detail : Nat]
    PROVE  RevisionFor(source, revs) \in Nat
  BY DEF RevisionFor

LEMMA DetailTyped == Detail \in SUBSET Tiles /\ Detail' \in SUBSET Tiles
  BY DEF Detail, TilesIn

\* The plan after a frame, kept or made.
LEMMA FramePlan ==
    ASSUME ViewerInv, NEW v \in Views, NEW what \in Shown, NEW move \in BOOLEAN,
           Frame(v, what, move),
           NEW expected, expected = Expected(v, what, move, overview', level),
           NEW box, box = PlanBox(v, expected.source),
           NEW planned, planned = Planned(v, what, move, overview', level)
    PROVE  /\ level' \in Levels /\ level' \in {expected.level, planned.level}
           /\ plan' = [source |-> planned.source,
                       key |-> PlanKey(box, v.upp, what, move, planned.source),
                       revision |-> RevisionFor(expected.source, revisions'),
                       shows |-> Shows(planned.source, box, what, Detail', overview')]
  <1> DEFINE key(source) == PlanKey(box, v.upp, what, move, source)
             revision == RevisionFor(expected.source, revisions')
             reuse == /\ plan.key = key(expected.source)
                      /\ plan.revision = revision
                      /\ plan.source = expected.source
             made == [source |-> planned.source, key |-> key(planned.source),
                      revision |-> revision,
                      shows |-> Shows(planned.source, box, what, Detail', overview')]
  <1>1. MakePlan(v, what, move, expected)  BY DEF Frame
  <1>2. /\ plan' = IF reuse THEN plan ELSE made
        /\ level' = IF reuse THEN expected.level ELSE planned.level
    BY <1>1 DEF MakePlan
  <1>3. level' \in Levels /\ level' \in {expected.level, planned.level}
    BY <1>2, SourcesAndLevels DEF ViewerInv, ViewerTypeOK
  <1>4. ASSUME reuse PROVE plan = made
    <2>1. plan # NoPlan
      <3>1. plan.key = key(expected.source)
        BY <1>4
      <3>2. NoPlan.key = <<>>
        BY DEF NoPlan, NoBox
      <3>3. key(expected.source) # <<>>
        BY DEF PlanKey
      <3> HIDE DEF key
      <3> QED  BY <3>1, <3>2, <3>3
    <2>2. /\ plan \in [source : Sources, key : PlanKeys, revision : Nat, shows : Contents]
          /\ Honest(plan.source, plan.key, plan.revision, plan.shows)
      BY <2>1 DEF ViewerInv, ViewerTypeOK, PlanIsHonest
    <2>3. PICK s \in Sources, k \in PlanKeys, n \in Nat, c \in Contents :
             /\ s = plan.source /\ k = plan.key /\ n = plan.revision /\ c = plan.shows
             /\ plan = [source |-> s, key |-> k, revision |-> n, shows |-> c]
      BY <2>2
    <2>4. Honest(s, k, n, c)'
      BY <2>2, <2>3, FrameRevisions, FrameOverview, HonestLater
    <2>5. s = expected.source /\ k = key(s) /\ n = RevisionFor(s, revisions')
      BY <1>4, <2>3
    <2>6. planned.source = s /\ c = Shows(s, box, what, Detail', overview')
      BY <2>4, <2>5, ExpectedIsPlanned
    <2> QED  BY <2>3, <2>5, <2>6
  <1> QED  BY <1>2, <1>3, <1>4

\* After the frame the same is expected and planned as in it.
LEMMA FrameExpectation ==
    ASSUME ViewerInv, NEW v \in Views, NEW what \in Shown, NEW move \in BOOLEAN,
           Frame(v, what, move)
    PROVE  /\ Expected(view, shown, moving, overview, level)'.source
              = Expected(v, what, move, overview', level).source
           /\ Planned(view, shown, moving, overview, level)'.source
              = Planned(v, what, move, overview', level).source
           /\ view' = v /\ shown' = what /\ moving' = move
  <1>1. view' = v /\ shown' = what /\ moving' = move /\ design' = design
    BY DEF Frame
  <1>2. /\ Expected(view, shown, moving, overview, level)'
           = Expected(v, what, move, overview', level')
        /\ Planned(view, shown, moving, overview, level)'
           = Planned(v, what, move, overview', level')
    BY <1>1 DEF Expected, Planned, OverviewUsable
  <1>3. \/ level' = Expected(v, what, move, overview', level).level
        \/ level' = Planned(v, what, move, overview', level).level
    BY FramePlan
  <1> QED  BY <1>1, <1>2, <1>3, LevelIsSettled

(***************************************************************************)
(* The planes and the texture of a frame.                                  *)
(***************************************************************************)
LEMMA SequenceOfMore ==
    ASSUME NEW S, NEW T, NEW s \in Seq(S), \A q \in S : q \in T
    PROVE  s \in Seq(T)
  BY s \in [1..Len(s) -> T], Len(s) \in Nat

LEMMA OthersAreThere ==
    ASSUME NEW S, planes \in Seq(S), NEW key
    PROVE  Others(key) \in Seq(S)
  <1>1. CASE ~Cached(key)
    BY <1>1 DEF Others
  <1>2. CASE Cached(key)
    <2> DEFINE k == PlaceOf(key)
    <2>1. k \in 1..Len(planes)
      BY <1>2 DEF Cached, PlaceOf
    <2> HIDE DEF k
    <2>2. /\ SubSeq(planes, 1, k - 1) \in Seq(S)
          /\ SubSeq(planes, k + 1, Len(planes)) \in Seq(S)
      BY <2>1
    <2> QED  BY <1>2, <2>2 DEF Others, k
  <1> QED  BY <1>1, <1>2

LEMMA TouchedAreThere ==
    ASSUME NEW S, planes \in Seq(S), NEW plane \in S
    PROVE  Touched(plane) \in Seq(S)
  <1> DEFINE all == Append(Others(plane.key), plane)
  <1>1. all \in Seq(S) /\ all # <<>>
    BY OthersAreThere
  <1>2. Touched(plane) = IF Len(all) > CacheCapacity THEN Tail(all) ELSE all
    BY DEF Touched
  <1> HIDE DEF all
  <1> QED  BY <1>1, <1>2

\* The plan after a frame is well typed, and honest.
LEMMA FramePlanTyped ==
    ASSUME ViewerInv, NEW v \in Views, NEW what \in Shown, NEW move \in BOOLEAN,
           Frame(v, what, move)
    PROVE  /\ plan' \in [source : Sources, key : PlanKeys, revision : Nat, shows : Contents]
           /\ plan'.revision
              = RevisionFor(Expected(v, what, move, overview', level).source, revisions')
           /\ Honest(plan.source, plan.key, plan.revision, plan.shows)'
  <1> DEFINE expected == Expected(v, what, move, overview', level)
             box == PlanBox(v, expected.source)
             source == Planned(v, what, move, overview', level).source
             key == PlanKey(box, v.upp, what, move, source)
             revision == RevisionFor(expected.source, revisions')
             shows == Shows(source, box, what, Detail', overview')
  <1>1. plan' = [source |-> source, key |-> key, revision |-> revision, shows |-> shows]
    BY FramePlan
  <1>2. source \in Sources /\ expected.source \in Sources
    BY SourcesAndLevels DEF ViewerInv, ViewerTypeOK
  <1>3. key \in PlanKeys  BY <1>2, PlanKeyTyped
  <1>4. revision \in Nat  BY FrameRevisions, RevisionTyped DEF RevisionsRise
  <1>5. shows \in Contents  BY FrameOverview, ShowsTyped, DetailTyped
  <1>6. PICK s, k, n, c : s = source /\ k = key /\ n = revision /\ c = shows
    OBVIOUS
  <1>7. Honest(s, k, n, c)'
    BY <1>6, FramePlanHonest
  <1>8. plan'.source = s /\ plan'.key = k /\ plan'.revision = n /\ plan'.shows = c
    BY <1>1, <1>6
  <1>9. Honest(plan.source, plan.key, plan.revision, plan.shows)'
    BY <1>7, <1>8 DEF Honest
  <1> QED  BY <1>1, <1>2, <1>3, <1>4, <1>5, <1>9

\* What a frame draws directly or as a texture: the planes are still honest, and
\* a texture at rest has the key of the plan.
LEMMA DrawnPlanes ==
    ASSUME ViewerInv, NEW v \in Views, NEW what \in Shown, NEW move \in BOOLEAN,
           Frame(v, what, move)
    PROVE  /\ PlanesAreHonest'
           /\ ~move /\ UsesPlane(plan')
              => /\ texture' \in HonestPlanes'
                 /\ texture'.key = <<plan'.source, plan'.key, plan'.revision>>
  <1> DEFINE revision == RevisionFor(Expected(v, what, move, overview', level).source, revisions')
             key == PlaneKey(plan', revision)
  <1>1. planes \in Seq(HonestPlanes) /\ texture \in HonestPlanes \cup {NoTexture}
    BY DEF ViewerInv, PlanesAreHonest
  \* What was honest before the frame is honest after it.
  <1>2. ASSUME NEW q \in HonestPlanes
        PROVE  q \in HonestPlanes'
    <2>1. /\ q.key[1] \in Sources /\ q.key[2] \in PlanKeys /\ q.key[3] \in Nat
          /\ q \in Planes /\ Honest(q.key[1], q.key[2], q.key[3], q.shows)
      BY <1>2 DEF HonestPlanes, Planes, PlaneKeys
    <2>2. Honest(q.key[1], q.key[2], q.key[3], q.shows)'
      BY <2>1, HonestLater, FrameRevisions, FrameOverview
    <2> QED  BY <2>1, <2>2 DEF HonestPlanes
  <1>3. planes \in Seq(HonestPlanes')
    BY <1>1, <1>2, SequenceOfMore
  <1>4. /\ plan' \in [source : Sources, key : PlanKeys, revision : Nat, shows : Contents]
        /\ plan'.revision = revision
        /\ Honest(plan.source, plan.key, plan.revision, plan.shows)'
    BY FramePlanTyped
  <1>5. key = <<plan'.source, plan'.key, plan'.revision>>
    BY <1>4 DEF PlaneKey
  <1>6. PICK made \in Planes : made = [key |-> key, shows |-> plan'.shows]
    <2>1. plan'.source \in Sources /\ plan'.key \in PlanKeys /\ plan'.revision \in Nat
          /\ plan'.shows \in Contents
      BY <1>4
    <2>2. key \in PlaneKeys
      BY <1>5, <2>1 DEF PlaneKeys
    <2>3. [key |-> key, shows |-> plan'.shows] \in Planes
      BY <2>1, <2>2 DEF Planes
    <2> QED  BY <2>3, Zenon
  <1>7. made \in HonestPlanes'
    BY <1>4, <1>5, <1>6 DEF HonestPlanes, Honest
  <1>8. IF UsesPlane(plan') THEN DrawPlane(plan', revision, move)
                            ELSE UNCHANGED <<planes, texture>>
    BY DEF Frame
  <1>9. CASE UNCHANGED <<planes, texture>> /\ (move \/ ~UsesPlane(plan'))
    BY <1>1, <1>2, <1>3, <1>9 DEF PlanesAreHonest
  <1>10. CASE UsesPlane(plan') /\ DrawPlane(plan', revision, move)
              /\ ~(UNCHANGED <<planes, texture>> /\ move)
    <2> DEFINE plane == IF Cached(key) THEN PlaneAt(key) ELSE [key |-> key, shows |-> plan'.shows]
    <2>1. Cached(key) => PlaneAt(key) \in HonestPlanes' /\ PlaneAt(key).key = key
      <3>1. ASSUME Cached(key) PROVE PlaceOf(key) \in DOMAIN planes /\ planes[PlaceOf(key)].key = key
        BY <3>1 DEF Cached, PlaceOf
      <3> QED  BY <1>3, <3>1 DEF PlaneAt
    <2>2. plane \in HonestPlanes' /\ plane.key = key
      BY <1>6, <1>7, <2>1
    <2> HIDE DEF plane
    <2>3. Touched(plane) \in Seq(HonestPlanes')
      BY <1>3, <2>2, TouchedAreThere
    <2>4. CASE texture # NoTexture /\ texture.key = key
      <3>1. Cached(key) => Touched(PlaneAt(key)) \in Seq(HonestPlanes')
        BY <1>3, <2>1, TouchedAreThere
      <3>2. planes' \in Seq(HonestPlanes') /\ texture' = texture
        BY <1>3, <1>10, <2>4, <3>1 DEF DrawPlane
      <3> QED  BY <1>1, <1>2, <1>5, <2>4, <3>2 DEF PlanesAreHonest
    <2>5. CASE ~(texture # NoTexture /\ texture.key = key)
      <3>1. planes' = Touched(plane) /\ texture' = plane
        BY <1>10, <2>5 DEF DrawPlane, plane
      <3> QED  BY <1>5, <2>2, <2>3, <3>1 DEF PlanesAreHonest
    <2> QED  BY <2>4, <2>5
  <1> QED  BY <1>8, <1>9, <1>10

(***************************************************************************)
(* The steps.                                                              *)
(***************************************************************************)
LEMMA FrameSafe ==
    ASSUME ViewerInv, NEW v \in Views, NEW what \in Shown, NEW move \in BOOLEAN,
           Frame(v, what, move)
    PROVE  ViewerInv'
  <1> DEFINE expected == Expected(v, what, move, overview', level)
             planned == Planned(v, what, move, overview', level)
             box == PlanBox(v, expected.source)
             revision == RevisionFor(expected.source, revisions')
  <1>1. /\ overview' \in Overviews /\ design' = design /\ design \in Designs
        /\ overview' # 0 => design = "flat"
    BY FrameOverview DEF ViewerInv, ViewerTypeOK
  <1>2. /\ Expected(view, shown, moving, overview, level)'.source = expected.source
        /\ Planned(view, shown, moving, overview, level)'.source = planned.source
        /\ view' = v /\ shown' = what /\ moving' = move
    BY FrameExpectation
  <1>3. /\ level' \in Levels
        /\ plan' = [source |-> planned.source,
                    key |-> PlanKey(box, v.upp, what, move, planned.source),
                    revision |-> revision,
                    shows |-> Shows(planned.source, box, what, Detail', overview')]
    BY FramePlan
  <1>4. /\ plan' \in [source : Sources, key : PlanKeys, revision : Nat, shows : Contents]
        /\ plan'.revision = revision
        /\ Honest(plan.source, plan.key, plan.revision, plan.shows)'
    BY FramePlanTyped
  <1>5. ViewerTypeOK'
    BY <1>1, <1>2, <1>3, <1>4, FrameRevisions DEF ViewerTypeOK, RevisionsRise
  <1>6. OverviewIsFlat' /\ PlanIsHonest'
    BY <1>1, <1>4 DEF OverviewIsFlat, PlanIsHonest
  <1>7. PlanesAreHonest'  BY DrawnPlanes
  <1>8. PlanIsCurrent'
    <2>1. PICK e, p :
             e = Expected(view, shown, moving, overview, level)'
             /\ p = Planned(view, shown, moving, overview, level)'
             /\ e.source = expected.source /\ p.source = planned.source
      BY <1>2
    <2> HIDE DEF expected, planned
    <2>2. PlanBox(view, e.source)' = box
      BY <1>2, <2>1 DEF PlanBox
    <2> QED  BY <1>2, <1>3, <2>1, <2>2 DEF PlanIsCurrent
  <1>9. TextureShowsPlan'
    <2>1. SUFFICES ASSUME ~move, UsesPlane(plan'), plan'.source = expected.source
                   PROVE  texture'.shows = plan'.shows
      BY <1>2 DEF TextureShowsPlan, UsesPlane
    <2>2. /\ texture' \in HonestPlanes'
          /\ texture'.key = <<plan'.source, plan'.key, plan'.revision>>
      BY <2>1, DrawnPlanes
    <2>3. PICK s, b, k, n, c :
             /\ s = expected.source /\ b = box /\ k = PlanKey(box, v.upp, what, move, s)
             /\ n = revision /\ c = texture'.shows
      OBVIOUS
    <2>4. plan'.source = s /\ plan'.key = k /\ plan'.revision = n
          /\ plan'.shows = Shows(s, b, what, Detail', overview')
      BY <1>3, <2>1, <2>3
    <2>5. Honest(texture.key[1], texture.key[2], texture.key[3], texture.shows)'
      BY <2>2 DEF HonestPlanes
    <2>6. Honest(s, k, n, c)'
      BY <2>2, <2>3, <2>4, <2>5 DEF Honest
    <2>7. c = Shows(s, b, what, Detail', overview')
      BY <2>3, <2>6, ExpectedIsPlanned
    <2> QED  BY <2>3, <2>4, <2>7
  <1> QED  BY <1>5, <1>6, <1>7, <1>8, <1>9 DEF ViewerInv

LEMMA ViewerInitInv == Init => ViewerInv
  <1> SUFFICES ASSUME Init PROVE ViewerInv  OBVIOUS
  <1>1. plan = NoPlan /\ planes = <<>> /\ texture = NoTexture /\ overview = 0
    BY DEF Init
  <1>2. ViewerTypeOK
    BY ViewerAssumption DEF Init, ViewerTypeOK, Shown, Overviews, Levels
  <1>3. PlanesAreHonest  BY <1>1 DEF PlanesAreHonest
  <1> QED  BY <1>1, <1>2, <1>3
           DEF ViewerInv, OverviewIsFlat, PlanIsHonest, PlanIsCurrent, TextureShowsPlan

\* A step of the thread changes nothing of what is shown, and neither does a
\* frame that draws no session.
LEMMA BackgroundSafe ==
    ASSUME ViewerInv, merged' = merged,
           UNCHANGED <<design, view, shown, moving, overview, revisions, level, plan,
                       planes, texture>>
    PROVE  ViewerInv'
  <1>1. Detail' = Detail  BY DEF Detail
  <1>2. \A source, key, revision, shows :
           Honest(source, key, revision, shows)' = Honest(source, key, revision, shows)
    BY <1>1 DEF Honest, ExpectsDensity
  <1>3. ViewerTypeOK' /\ OverviewIsFlat'
    BY DEF ViewerInv, ViewerTypeOK, OverviewIsFlat
  <1>4. PlanIsHonest'
    BY <1>1 DEF ViewerInv, PlanIsHonest, Honest, ExpectsDensity
  <1>5. PlanesAreHonest'
    BY <1>1 DEF ViewerInv, PlanesAreHonest, HonestPlanes, Honest, ExpectsDensity
  <1>6. PlanIsCurrent'
    BY <1>1 DEF ViewerInv, PlanIsCurrent, Expected, Planned, OverviewUsable
  <1>7. TextureShowsPlan'
    BY <1>1 DEF ViewerInv, TextureShowsPlan, Expected, OverviewUsable, UsesPlane
  <1> QED  BY <1>3, <1>4, <1>5, <1>6, <1>7 DEF ViewerInv

LEMMA ViewerStep == ViewerInv /\ [Next]_vars => ViewerInv'
  <1> SUFFICES ASSUME ViewerInv, [Next]_vars PROVE ViewerInv'  OBVIOUS
  <1>1. view \in Views /\ shown \in Shown
    BY DEF ViewerInv, ViewerTypeOK
  <1>2. CASE SessionLoads
    BY <1>2, BackgroundSafe DEF SessionLoads, loaderVars
  <1>3. CASE Loader
    BY <1>3, BackgroundSafe DEF Loader, viewerVars, WorkerStep, WorkerOpens,
       WorkerCannotOpen, WorkerTakes, WorkerLoads, WorkerFails, WorkerAnswers
  <1>4. CASE LoadingCanvas
    BY <1>4, BackgroundSafe DEF LoadingCanvas, loaderVars
  <1>5. CASE Move
    BY <1>1, <1>5, FrameSafe DEF Move
  <1>6. CASE Toggle
    BY <1>1, <1>6, FrameSafe DEF Toggle, Shown
  <1>7. CASE Rest
    BY <1>1, <1>7, FrameSafe DEF Rest
  <1>8. CASE UNCHANGED vars
    BY <1>8, BackgroundSafe DEF vars, viewerVars, loaderVars
  <1> QED  BY <1>2, <1>3, <1>4, <1>5, <1>6, <1>7, <1>8 DEF Next

\* The plan that is drawn is the one that planning anew would make, however long
\* it was kept: whatever changes what it shows changes its key or its revision.
THEOREM PlanIsAlwaysCurrent == Spec => []PlanIsCurrent
  <1>1. ViewerInv => PlanIsCurrent  BY DEF ViewerInv
  <1> QED  BY <1>1, ViewerInitInv, ViewerStep, PTL DEF Spec

\* A view at rest shows the plan's own texture, wherever it was found, for any
\* size of the plane cache.
THEOREM TextureAlwaysShowsPlan == Spec => []TextureShowsPlan
  <1>1. ViewerInv => TextureShowsPlan  BY DEF ViewerInv
  <1> QED  BY <1>1, ViewerInitInv, ViewerStep, PTL DEF Spec

(***************************************************************************)
(* The viewer runs the loader.                                             *)
(***************************************************************************)
LEMMA FrameServes ==
    ASSUME NEW v \in Views, NEW what, NEW move \in BOOLEAN, Frame(v, what, move)
    PROVE  LoaderNext
  <1>1. PICK want : want \in Boxes \cup {NoBox} /\ Serve(want, move)
    BY ViewerAssumption DEF Frame, WantedBox, DetailBoxes
  <1> QED  BY <1>1 DEF LoaderNext

LEMMA ViewerStepsLoader == ViewerInv /\ [Next]_vars => [LoaderNext]_loaderVars
  <1> SUFFICES ASSUME ViewerInv, [Next]_vars PROVE [LoaderNext]_loaderVars  OBVIOUS
  <1>1. view \in Views
    BY DEF ViewerInv, ViewerTypeOK
  <1>2. CASE SessionLoads \/ LoadingCanvas
    BY <1>2 DEF SessionLoads, LoadingCanvas
  <1>3. CASE Loader
    BY <1>3 DEF Loader, LoaderNext
  <1>4. CASE Move
    BY <1>4, FrameServes DEF Move
  <1>5. CASE Toggle
    BY <1>1, <1>5, FrameServes DEF Toggle
  <1>6. CASE Rest
    BY <1>1, <1>6, FrameServes DEF Rest
  <1>7. CASE UNCHANGED vars
    BY <1>7 DEF vars
  <1> QED  BY <1>2, <1>3, <1>4, <1>5, <1>6, <1>7 DEF Next

\* What the frames and the thread do to the requests and their results is what
\* the loader's specification allows.
THEOREM ViewerRunsLoader == Spec => LoaderSpec
  <1>1. Init => LoaderInit  BY DEF Init
  <1> QED  BY <1>1, ViewerInitInv, ViewerStep, ViewerStepsLoader, PTL DEF Spec, LoaderSpec

\* In the viewer too a frame that sees no pending work is right.
THEOREM ViewerKnowsItsWork == Spec => []WaitingIsKnown
  BY ViewerRunsLoader, WaitingIsAlwaysKnown, PTL
==============================================================================
