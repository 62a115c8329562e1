------------------------------- MODULE LogTail -------------------------------
(***************************************************************************)
(* A live log from the file a tool writes to the text on the screen:       *)
(* LogTailService (electron/services/logTailService.ts) with               *)
(* readOptionalProjectTextFileUpdate of WorkspaceService, the channel      *)
(* workspaceLogTail between main process and renderer, and                 *)
(* applyLiveTailEvent of useHomeData.ts.                                   *)
(*                                                                         *)
(* One subscription.  A byte of the log is a pair <<generation, index>>:   *)
(* each time the log is begun anew its bytes are of another generation.    *)
(* A character is one byte.                                                *)
(***************************************************************************)
EXTENDS Naturals, Sequences

CONSTANTS
    MaxInitialChars, MaxChunkChars,  \* options of the subscription
    BytesPerChar,                    \* UTF8_MAX_BYTES_PER_CODE_UNIT
    \* Bounds of the environment:
    MaxSize,         \* length of a log
    MaxGenerations,  \* how often it is begun
    MaxFaults,       \* reads that fail, errors of the watcher
    MaxInFlight      \* events on their way to the renderer

ASSUME TailAssumption ==
    /\ {MaxInitialChars, MaxChunkChars, BytesPerChar, MaxGenerations, MaxInFlight} \subseteq Nat \ {0}
    /\ {MaxSize, MaxFaults} \subseteq Nat

VARIABLES
    log,       \* the file: there?, generation, inode, size
    watching,  \* has chokidar finished its initial scan?
    notice,    \* a change that chokidar has not reported yet
    faults,
    sub,       \* LogTailSubscriptionState
    sync,      \* where performSync stands: "none", "open", "read", "apply"
    handle,    \* the open file and the range performSync is going to read
    update,    \* what it read
    channel,   \* events sent to the renderer and not handled yet
    listening, \* is the renderer's listener registered?
    view       \* the text of the live segment, and the banner before it

file == <<log, faults>>
reading == <<handle, update>>
screen == <<listening, view>>
vars == <<log, watching, notice, faults, sub, sync, handle, update, channel, listening, view>>

Missing == [missing |-> TRUE]
NoHandle == [inode |-> 0, generation |-> 0, from |-> 0, size |-> 0, reset |-> FALSE]

\* subscribeProjectLogTail: the watcher is started and a first sync scheduled.
Init ==
    /\ log = [there |-> FALSE, generation |-> 0, inode |-> 0, size |-> 0]
    /\ watching = FALSE
    /\ notice = FALSE
    /\ faults = 0
    /\ sub = [hasSnapshot |-> FALSE, wasMissing |-> FALSE, offset |-> 0, closed |-> FALSE,
              syncTimer |-> TRUE, retryTimer |-> FALSE, syncQueued |-> FALSE]
    /\ sync = "none"
    /\ handle = NoHandle
    /\ update = Missing
    /\ channel = << >>
    /\ listening = TRUE
    /\ view = [text |-> << >>, banner |-> FALSE]

(***************************************************************************)
(* The tool that writes the log.                                           *)
(***************************************************************************)
\* What happens to the file once nobody listens is left out.
Changes(to) ==
    /\ listening /\ ~sub.closed
    /\ log' = to
    /\ notice' = (notice \/ watching)
    /\ UNCHANGED <<watching, faults, sub, sync, handle, update, channel, screen>>

Create ==
    /\ ~log.there /\ log.generation < MaxGenerations
    /\ Changes([there |-> TRUE, generation |-> log.generation + 1,
                inode |-> log.inode + 1, size |-> 0])

Append1 == log.there /\ log.size < MaxSize /\ Changes([log EXCEPT !.size = @ + 1])

Remove == log.there /\ Changes([log EXCEPT !.there = FALSE, !.size = 0])

\* Opened for writing: the same file, begun anew.
Truncate ==
    /\ log.there /\ log.generation < MaxGenerations
    /\ Changes([log EXCEPT !.generation = @ + 1, !.size = 0])

(***************************************************************************)
(* Timers and the watcher.  The operators say how they change the state of *)
(* the subscription.                                                       *)
(***************************************************************************)
ScheduleRetry(s) == IF s.closed THEN s ELSE [s EXCEPT !.retryTimer = TRUE]

ScheduleSync(s, inFlight) ==
    IF s.closed THEN s
    ELSE IF inFlight THEN [s EXCEPT !.retryTimer = FALSE, !.syncQueued = TRUE]
    ELSE [s EXCEPT !.retryTimer = FALSE, !.syncTimer = TRUE]

Emit(event) ==
    /\ Len(channel) < MaxInFlight
    /\ channel' = IF sub.closed THEN channel ELSE Append(channel, event)

WatcherReady ==
    /\ ~watching /\ watching' = TRUE
    /\ UNCHANGED <<file, notice, sub, sync, reading, channel, screen>>

WatcherNotices ==
    /\ notice /\ notice' = FALSE
    /\ sub' = ScheduleSync(sub, sync # "none")
    /\ UNCHANGED <<file, watching, sync, reading, channel, screen>>

WatcherError ==
    /\ ~sub.closed /\ faults < MaxFaults /\ faults' = faults + 1
    /\ Emit([type |-> "error"])
    /\ sub' = ScheduleRetry(sub)
    /\ UNCHANGED <<log, watching, notice, sync, reading, screen>>

RetryTimerFires ==
    /\ sub.retryTimer
    /\ sub' = ScheduleSync([sub EXCEPT !.retryTimer = FALSE], sync # "none")
    /\ UNCHANGED <<file, watching, notice, sync, reading, channel, screen>>

\* performSync up to its first await.
SyncTimerFires ==
    /\ sub.syncTimer
    /\ IF sync = "none"
       THEN sync' = "open" /\ sub' = [sub EXCEPT !.syncTimer = FALSE]
       ELSE UNCHANGED sync /\ sub' = [sub EXCEPT !.syncTimer = FALSE, !.syncQueued = TRUE]
    /\ UNCHANGED <<file, watching, notice, reading, channel, screen>>

(***************************************************************************)
(* readOptionalProjectTextFileUpdate: open and stat, then read.  A file    *)
(* that was removed meanwhile is read to its end; one that was truncated   *)
(* yields what is there by then.                                           *)
(***************************************************************************)
Limit == IF sub.hasSnapshot THEN MaxChunkChars ELSE MaxInitialChars
Text(generation, from, to) == [i \in 1..(to - from) |-> <<generation, from + i>>]
LastOf(text, n) == SubSeq(text, Len(text) - n + 1, Len(text))

OpenLog ==
    /\ sync = "open"
    /\ LET truncated == sub.offset > log.size
           unread == IF truncated THEN 0 ELSE log.size - sub.offset
           tooMuch == unread > Limit * BytesPerChar
           last == IF log.size > Limit * BytesPerChar THEN log.size - Limit * BytesPerChar ELSE 0
       IN  IF log.there
           THEN /\ handle' = [inode |-> log.inode, generation |-> log.generation,
                              from |-> IF truncated \/ tooMuch THEN last ELSE sub.offset,
                              size |-> log.size, reset |-> truncated \/ tooMuch]
                /\ sync' = "read" /\ UNCHANGED update
           ELSE sync' = "apply" /\ update' = Missing /\ UNCHANGED handle
    /\ UNCHANGED <<file, watching, notice, sub, channel, screen>>

ReadLog ==
    /\ sync = "read"
    /\ LET same == log.there /\ log.inode = handle.inode
           generation == IF same THEN log.generation ELSE handle.generation
           end == IF same /\ log.size < handle.size THEN log.size ELSE handle.size
           raw == IF end > handle.from THEN Text(generation, handle.from, end) ELSE << >>
           tooLong == Len(raw) > Limit
           cut == handle.reset \/ tooLong
       IN  update' = [missing |-> FALSE, size |-> handle.size, reset |-> cut,
                      content |-> IF tooLong THEN LastOf(raw, Limit) ELSE raw]
    /\ sync' = "apply" /\ handle' = NoHandle
    /\ UNCHANGED <<file, watching, notice, sub, channel, screen>>

(***************************************************************************)
(* The rest of performSync, with its finally clause.                       *)
(***************************************************************************)
\* Mutants: a sync asked for meanwhile is forgotten; what was read is read again;
\* sizes are added up.
FinishForgetful(s) ==
    sync' = "none" /\ update' = Missing /\ handle' = NoHandle
        /\ sub' = [s EXCEPT !.syncQueued = FALSE]

Finish(s) ==
    /\ sync' = "none" /\ update' = Missing /\ handle' = NoHandle
    /\ sub' = IF s.syncQueued /\ ~s.closed
              THEN ScheduleSync([s EXCEPT !.syncQueued = FALSE], FALSE)
              ELSE s

DeliveredAgain(s) ==
    [s EXCEPT !.hasSnapshot = TRUE, !.wasMissing = FALSE, !.retryTimer = FALSE]

Delivered(s) ==
    [s EXCEPT !.hasSnapshot = TRUE, !.wasMissing = FALSE,
              !.offset = update.size, !.retryTimer = FALSE]

ApplyClosed == sub.closed /\ Finish(sub) /\ UNCHANGED channel

ApplyMissing ==
    /\ ~sub.closed /\ update = Missing
    /\ IF sub.wasMissing THEN UNCHANGED channel ELSE Emit([type |-> "waiting"])
    /\ Finish(ScheduleRetry([sub EXCEPT !.wasMissing = TRUE]))

EventType ==
    IF ~sub.hasSnapshot THEN "snapshot"
    ELSE IF update.reset \/ sub.wasMissing THEN "reset" ELSE "append"

\* An append of nothing is not sent: with the offset, the size is the same too.
ApplyUpdate ==
    /\ ~sub.closed /\ update # Missing
    /\ IF EventType = "append" /\ update.content = << >> /\ update.size = sub.offset
       THEN UNCHANGED channel
       ELSE Emit([type |-> EventType, content |-> update.content, truncated |-> update.reset])
    /\ Finish(Delivered(sub))

Apply ==
    /\ sync = "apply"
    /\ ApplyClosed \/ ApplyMissing \/ ApplyUpdate
    /\ UNCHANGED <<file, watching, notice, screen>>

\* open or read fails with something else than ENOENT.
ReadFails ==
    /\ sync \in {"open", "read"} /\ faults < MaxFaults /\ faults' = faults + 1
    /\ IF sub.closed
       THEN UNCHANGED channel /\ Finish(sub)
       ELSE Emit([type |-> "error"]) /\ Finish(ScheduleRetry(sub))
    /\ UNCHANGED <<log, watching, notice, screen>>

(***************************************************************************)
(* closeSubscription, for unsubscribeProjectLogTail and clearProjectRoot.  *)
(***************************************************************************)
\* Mutant: the timers run on.
CloseWithTimers ==
    /\ ~sub.closed /\ sub' = [sub EXCEPT !.closed = TRUE]
    /\ UNCHANGED <<file, watching, notice, sync, reading, channel>>

CloseSubscription ==
    /\ ~sub.closed
    /\ sub' = [sub EXCEPT !.closed = TRUE, !.syncTimer = FALSE, !.retryTimer = FALSE]
    /\ UNCHANGED <<file, watching, notice, sync, reading, channel>>

ClearProjectRoot == CloseSubscription /\ UNCHANGED screen

(***************************************************************************)
(* The renderer: applyLiveTailEvent, and unwatch.                          *)
(***************************************************************************)
\* Mutant: a reset never has the banner.
ShownUnmarked(event) ==
    CASE event.type = "error"   -> view
      [] event.type = "waiting" -> [text |-> << >>, banner |-> FALSE]
      [] event.type = "append"  -> [view EXCEPT !.text = @ \o event.content]
      [] OTHER -> [text |-> event.content,
                   banner |-> event.truncated /\ event.type = "snapshot"]

Shown(event) ==
    CASE event.type = "error"   -> view
      [] event.type = "waiting" -> [text |-> << >>, banner |-> FALSE]
      [] event.type = "append"  -> [view EXCEPT !.text = @ \o event.content]
      [] OTHER                  -> [text |-> event.content, banner |-> event.truncated]

HandleEvent ==
    /\ channel # << >>
    /\ channel' = Tail(channel)
    /\ view' = IF listening THEN Shown(Head(channel)) ELSE view
    /\ UNCHANGED <<file, watching, notice, sub, sync, reading, listening>>

Unwatch ==
    /\ listening /\ listening' = FALSE
    /\ UNCHANGED <<file, watching, notice, sub, sync, reading, channel, view>>

Unsubscribe == ~listening /\ CloseSubscription /\ UNCHANGED screen

Writer == Create \/ Append1 \/ Remove \/ Truncate

Service ==
    \/ WatcherNotices \/ RetryTimerFires \/ SyncTimerFires
    \/ OpenLog \/ ReadLog \/ Apply

Next ==
    \/ Writer \/ Service \/ HandleEvent
    \/ WatcherReady \/ WatcherError \/ ReadFails
    \/ Unwatch \/ Unsubscribe \/ ClearProjectRoot

Spec == Init /\ [][Next]_vars

\* Timers fire, chokidar reports, file-system calls answer and messages arrive.
Fairness ==
    /\ WF_vars(WatcherNotices) /\ WF_vars(RetryTimerFires) /\ WF_vars(SyncTimerFires)
    /\ WF_vars(OpenLog) /\ WF_vars(ReadLog) /\ WF_vars(Apply)
    /\ WF_vars(HandleEvent) /\ WF_vars(Unsubscribe)

FairSpec == Spec /\ Fairness
=============================================================================
