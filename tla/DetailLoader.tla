---------------------------- MODULE DetailLoader ----------------------------
(***************************************************************************)
(* How the native viewer gets the detail of what it looks at: the frame    *)
(* loop asks (AsyncLoadState), a thread of its own reads the package       *)
(* (BackgroundLoadHandle), and two channels lie between them.  A request   *)
(* is a viewport with a generation.  While the view is moved the frames    *)
(* only replace what is to be asked for; it is sent when the view rests.   *)
(* The thread works at the newest request it finds, and a frame takes the  *)
(* newest result.                                                          *)
(***************************************************************************)
EXTENDS Integers, Sequences, LayoutGeometry

CONSTANTS
    Boxes,          \* the viewports detail may be asked for, world boxes
    MaxFailures     \* bound: how often the thread fails

ASSUME LoaderAssumption == MaxFailures \in Nat

VARIABLES
    load,           \* AsyncLoadState: pending, inFlight, completed
    loadGeneration, \* load_generation, the last one given out
    requests,       \* the channel to the thread
    worker,         \* the thread: its phase, and the request it works at
    results,        \* the channel back
    merged,         \* viewports whose batch the session has merged
    failures        \* how often the thread has failed

loaderVars == <<load, loadGeneration, requests, worker, results, merged, failures>>

\* None, and also what a thread that could not open the package answers to.
NoRequest == [viewport |-> NoBox, generation |-> 0]

LoaderInit ==
    /\ load = [pending |-> NoRequest, inFlight |-> NoRequest,
               completed |-> NoRequest, completedGeneration |-> 0]
    /\ loadGeneration = 0
    /\ requests = <<>>
    /\ worker = [phase |-> "opening", request |-> NoRequest]
    /\ results = <<>>
    /\ merged = {}
    /\ failures = 0

-----------------------------------------------------------------------------
(* AsyncLoadState, a value that the frames change.                         *)

Request(l, box, generation) ==
    [l EXCEPT !.pending = [viewport |-> box, generation |-> generation]]

TakePending(l) ==
    [l EXCEPT !.pending = NoRequest,
              !.inFlight = IF l.pending # NoRequest THEN l.pending ELSE @]

ClearPending(l) == [l EXCEPT !.pending = NoRequest]

HasPendingWork(l) == l.pending # NoRequest \/ l.inFlight # NoRequest

NeedsRequest(l, box) ==
    \A r \in {l.pending, l.inFlight, l.completed} \ {NoRequest} :
        ~Within(box, r.viewport)

ShouldApplyResult(l, request) ==
    /\ request.generation >= l.completedGeneration
    /\ l.pending # NoRequest => request.generation >= l.pending.generation

\* Mutant: whatever is under way counts as answered.
MarkAllCompleted(l, request) ==
    [l EXCEPT !.completed = request,
              !.completedGeneration = Most(@, request.generation),
              !.inFlight = NoRequest]

MarkCompleted(l, request) ==
    [l EXCEPT !.completed = request,
              !.completedGeneration = Most(@, request.generation),
              !.inFlight = IF @.generation <= request.generation THEN NoRequest ELSE @]

-----------------------------------------------------------------------------
(* The frame's part.                                                       *)

Newest(s) == s[Len(s)]

\* A result counts when nothing newer was asked for, and its batch is there.
Lands == /\ results # <<>>
         /\ ShouldApplyResult(load, Newest(results).request)
         /\ Newest(results).ok

Polled == IF Lands THEN MarkCompleted(load, Newest(results).request) ELSE load

\* One frame that wants the detail of a box (NoBox: of none), while the view
\* is moved or at rest.
Serve(want, moving) ==
    LET asks == want # NoBox /\ (moving \/ NeedsRequest(Polled, want))
        next == loadGeneration + (IF asks THEN 1 ELSE 0)
        asked == IF want = NoBox THEN ClearPending(Polled)
                 ELSE IF asks THEN Request(Polled, want, next) ELSE Polled
        sends == want # NoBox /\ ~moving /\ asked.pending # NoRequest
    IN  /\ load' = IF sends THEN TakePending(asked) ELSE asked
        /\ loadGeneration' = next
        /\ requests' = IF sends /\ worker.phase # "gone"
                       THEN Append(requests, asked.pending) ELSE requests
        /\ results' = <<>>
        /\ merged' = IF Lands THEN merged \cup {Newest(results).request.viewport}
                     ELSE merged
        /\ UNCHANGED <<worker, failures>>

-----------------------------------------------------------------------------
(* The thread's part.                                                      *)

WorkerOpens ==
    /\ worker.phase = "opening"
    /\ worker' = [worker EXCEPT !.phase = "waiting"]
    /\ UNCHANGED <<load, loadGeneration, requests, results, merged, failures>>

\* The thread says so once and is gone; what is sent to it later is lost.
WorkerCannotOpen ==
    /\ worker.phase = "opening" /\ failures < MaxFailures
    /\ worker' = [worker EXCEPT !.phase = "gone"]
    /\ requests' = <<>>
    /\ results' = Append(results, [request |-> NoRequest, ok |-> FALSE])
    /\ failures' = failures + 1
    /\ UNCHANGED <<load, loadGeneration, merged>>

\* Mutant: the oldest request is taken.
WorkerTakesOldest ==
    /\ worker.phase = "waiting" /\ requests # <<>>
    /\ worker' = [phase |-> "loading", request |-> requests[1]]
    /\ requests' = <<>>
    /\ UNCHANGED <<load, loadGeneration, results, merged, failures>>

\* recv, then try_recv until the channel is empty.
WorkerTakes ==
    /\ worker.phase = "waiting" /\ requests # <<>>
    /\ worker' = [phase |-> "loading", request |-> Newest(requests)]
    /\ requests' = <<>>
    /\ UNCHANGED <<load, loadGeneration, results, merged, failures>>

WorkerAnswers(ok) ==
    /\ worker.phase = "loading"
    /\ worker' = [phase |-> "waiting", request |-> NoRequest]
    /\ results' = Append(results, [request |-> worker.request, ok |-> ok])
    /\ UNCHANGED <<load, loadGeneration, requests, merged>>

WorkerLoads == WorkerAnswers(TRUE) /\ UNCHANGED failures

WorkerFails ==
    /\ failures < MaxFailures
    /\ WorkerAnswers(FALSE)
    /\ failures' = failures + 1

WorkerStep == WorkerOpens \/ WorkerCannotOpen \/ WorkerTakes \/ WorkerLoads \/ WorkerFails

LoaderNext ==
    \/ \E want \in Boxes \cup {NoBox}, moving \in BOOLEAN : Serve(want, moving)
    \/ WorkerStep

LoaderSpec == LoaderInit /\ [][LoaderNext]_loaderVars

-----------------------------------------------------------------------------
(* Properties.                                                             *)

\* A request that was sent, and whose answer no frame has had yet.
Waits(l, r) == /\ r.generation > l.completedGeneration
               /\ r.generation <= l.inFlight.generation

Real(i) == results[i].request # NoRequest
Working == worker.phase = "loading"

\* Every request that was sent and that no frame has had the answer of is
\* newer than what the session has, and the viewer knows that it waits: a
\* frame that says there is no work left is right.
WaitingIsKnown ==
    /\ \A i \in DOMAIN results : Real(i) => Waits(load, results[i].request)
    /\ Working => Waits(load, worker.request)
    /\ \A i \in DOMAIN requests : Waits(load, requests[i])
==============================================================================
