------------------------------ MODULE MCLogTail ------------------------------
(***************************************************************************)
(* LogTail with a history variable: torn says that the log was begun anew  *)
(* while performSync had it open and had not read it yet.                  *)
(***************************************************************************)
EXTENDS LogTail

VARIABLE torn
mcvars == <<vars, torn>>

MCInit == Init /\ torn = FALSE
MCNext == Next /\ torn' = (torn \/ (sync = "read" /\ Truncate))
MCSpec == MCInit /\ [][MCNext]_mcvars /\ Fairness

\* Unless the log was begun anew under a read, the view shows consecutive
\* positions of the file, in order, whatever the order of appends, removals,
\* rewrites, reads, timers and messages: no byte is shown twice, none is left
\* out, and text of an older log never follows text of a newer one.
ViewIsConsecutive ==
    ~torn => \A i \in 1..Len(view.text) - 1 :
        /\ view.text[i + 1][2] = view.text[i][2] + 1
        /\ view.text[i + 1][1] >= view.text[i][1]

\* As long as the log was begun only once, a view that does not begin with the
\* first byte of the file says so with the banner.
BannerTells ==
    log.generation <= 1 /\ view.text # << >> /\ ~view.banner => view.text[1][2] = 1

UpToDate ==
    IF log.there /\ log.size > 0
    THEN view.text # << >> /\ view.text[Len(view.text)] = <<log.generation, log.size>>
    ELSE view.text = << >>

Unseen == watching /\ sub.wasMissing /\ log.there /\ sync = "none"

\* Once chokidar is ready, a change, and a file that was found missing and came
\* into being unnoticed, is on the screen eventually, through failing reads, errors of the
\* watcher and changes during a sync: no wake-up is lost.  (A log begun anew may
\* be taken for the old one; and what was written between the first sync and the
\* end of chokidar's scan is only shown with the next change.)
CatchesUp ==
    (notice \/ Unseen) /\ log.generation <= 1
        ~> UpToDate \/ sub.closed \/ ~listening \/ log.generation > 1

\* Once closed, a subscription has no timer and sends nothing, also when a sync
\* was under way.
ClosedStaysQuiet ==
    [][sub.closed => /\ ~sub'.syncTimer /\ ~sub'.retryTimer
                     /\ channel' # channel => channel = <<Head(channel)>> \o channel']_vars
=============================================================================
