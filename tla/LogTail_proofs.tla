--------------------------- MODULE LogTail_proofs ---------------------------
(***************************************************************************)
(* Proofs about LogTail: what the renderer shows is in order, begins where *)
(* it says, and nothing follows the end of a subscription.                 *)
(*                                                                         *)
(* The argument: the events on their way to the renderer are looked at as  *)
(* the views it is going to show (Ahead).  Every one of them is sound, and *)
(* the last one ends where the subscription stands, so that what performSync *)
(* reads next continues it.                                                *)
(***************************************************************************)
EXTENDS MCLogTail, SequenceTheorems, TLAPS

Bytes == Nat \X Nat
Texts == Seq(Bytes)
Views == [text : Texts, banner : BOOLEAN]
Contents == [type : {"snapshot", "reset", "append"}, content : Texts, truncated : BOOLEAN]
Events == [type : {"error", "waiting"}] \cup Contents
Updates == [missing : {FALSE}, size : Nat, reset : BOOLEAN, content : Texts]

(***************************************************************************)
(* Texts.                                                                  *)
(***************************************************************************)
Consecutive(text) ==
    \A i \in 1..Len(text) - 1 : /\ text[i + 1][2] = text[i][2] + 1
                                /\ text[i + 1][1] >= text[i][1]
UpTo(text, generation) == \A i \in 1..Len(text) : text[i][1] <= generation

LEMMA TextIs ==
    ASSUME NEW g \in Nat, NEW from \in Nat, NEW to \in Nat, from <= to
    PROVE  /\ Text(g, from, to) \in Texts /\ Len(Text(g, from, to)) = to - from
           /\ \A i \in 1..(to - from) : Text(g, from, to)[i] = <<g, from + i>>
  <1>1. to - from \in Nat  OBVIOUS
  <1>2. \A i \in 1..(to - from) : <<g, from + i>> \in Bytes
    BY DEF Bytes
  <1> QED  BY <1>1, <1>2 DEF Text, Texts

LEMMA LastOfIs ==
    ASSUME NEW text \in Texts, NEW n \in Nat, n <= Len(text)
    PROVE  /\ LastOf(text, n) \in Texts /\ Len(LastOf(text, n)) = n
           /\ \A i \in 1..n : LastOf(text, n)[i] = text[Len(text) - n + i]
  <1>1. Len(text) \in Nat  BY DEF Texts
  <1> DEFINE m == Len(text) - n + 1
  <1>2. m \in Int /\ Len(text) \in Int /\ \A i \in m..Len(text) : text[i] \in Bytes
    BY <1>1, ElementOfSeq DEF Texts
  <1>3. /\ SubSeq(text, m, Len(text)) \in Seq(Bytes)
        /\ Len(SubSeq(text, m, Len(text))) = IF m <= Len(text) THEN Len(text) - m + 1 ELSE 0
        /\ \A i \in 1..Len(text) - m + 1 : SubSeq(text, m, Len(text))[i] = text[m + i - 1]
    BY <1>2, SubSeqProperties
  <1>4. Len(text) - m + 1 = n /\ (m <= Len(text) <=> n > 0)
    BY <1>1
  <1>5. \A i \in 1..n : m + i - 1 = Len(text) - n + i
    BY <1>1
  <1>6. LastOf(text, n) = SubSeq(text, m, Len(text))
    BY DEF LastOf
  <1> HIDE DEF m
  <1>7. Len(LastOf(text, n)) = n
    BY <1>3, <1>4, <1>6
  <1>8. ASSUME NEW i \in 1..n PROVE LastOf(text, n)[i] = text[Len(text) - n + i]
    <2>1. i \in 1..Len(text) - m + 1  BY <1>4
    <2>2. SubSeq(text, m, Len(text))[i] = text[m + i - 1]  BY <1>3, <2>1
    <2> QED  BY <1>5, <1>6, <2>2
  <1>9. LastOf(text, n) \in Texts
    BY <1>3, <1>6 DEF Texts
  <1> QED  BY <1>7, <1>8, <1>9

\* A piece of generation g that begins behind position from.
Piece(text, g, from) == \A i \in 1..Len(text) : text[i] = <<g, from + i>>

LEMMA PieceConsecutive ==
    ASSUME NEW text \in Texts, NEW g \in Nat, NEW from \in Nat, Piece(text, g, from)
    PROVE  Consecutive(text) /\ UpTo(text, g)
  <1>1. Len(text) \in Nat  BY DEF Texts
  <1>2. ASSUME NEW i \in 1..Len(text) - 1
        PROVE  text[i + 1][2] = text[i][2] + 1 /\ text[i + 1][1] >= text[i][1]
    <2>1. i \in 1..Len(text) /\ i + 1 \in 1..Len(text)  BY <1>1
    <2>2. text[i] = <<g, from + i>> /\ text[i + 1] = <<g, from + (i + 1)>>  BY <2>1 DEF Piece
    <2> QED  BY <2>2
  <1>3. ASSUME NEW i \in 1..Len(text) PROVE text[i][1] <= g
    <2>1. text[i] = <<g, from + i>>  BY DEF Piece
    <2> QED  BY <2>1
  <1> QED  BY <1>2, <1>3 DEF Consecutive, UpTo

\* A text that goes on where another one ends.
LEMMA JoinConsecutive ==
    ASSUME NEW a \in Texts, NEW b \in Texts, Consecutive(a), Consecutive(b),
           a # << >> /\ b # << >> => /\ b[1][2] = a[Len(a)][2] + 1
                                     /\ b[1][1] >= a[Len(a)][1]
    PROVE  Consecutive(a \o b)
  <1>1. /\ Len(a) \in Nat /\ Len(b) \in Nat /\ Len(a \o b) = Len(a) + Len(b)
        /\ \A i \in 1..Len(a) + Len(b) :
              (a \o b)[i] = IF i <= Len(a) THEN a[i] ELSE b[i - Len(a)]
    BY ConcatProperties DEF Texts
  <1> SUFFICES ASSUME NEW i \in 1..Len(a \o b) - 1
               PROVE  /\ (a \o b)[i + 1][2] = (a \o b)[i][2] + 1
                      /\ (a \o b)[i + 1][1] >= (a \o b)[i][1]
    BY DEF Consecutive
  <1>2. i \in 1..Len(a) + Len(b) /\ i + 1 \in 1..Len(a) + Len(b)
    BY <1>1
  <1>3. CASE i + 1 <= Len(a)
    <2>1. (a \o b)[i] = a[i] /\ (a \o b)[i + 1] = a[i + 1] /\ i \in 1..Len(a) - 1
      BY <1>1, <1>2, <1>3
    <2> QED  BY <2>1 DEF Consecutive
  <1>4. CASE i = Len(a)
    <2>1. (a \o b)[i] = a[Len(a)] /\ (a \o b)[i + 1] = b[1]
      BY <1>1, <1>2, <1>4
    <2>2. a # << >> /\ b # << >>
      BY <1>1, <1>2, <1>4
    <2> QED  BY <2>1, <2>2
  <1>5. CASE i > Len(a)
    <2> DEFINE j == i - Len(a)
    <2>1. (a \o b)[i] = b[j] /\ (a \o b)[i + 1] = b[j + 1] /\ j \in 1..Len(b) - 1
      BY <1>1, <1>2, <1>5
    <2> QED  BY <2>1 DEF Consecutive
  <1> QED  BY <1>1, <1>2, <1>3, <1>4, <1>5

LEMMA JoinUpTo ==
    ASSUME NEW a \in Texts, NEW b \in Texts, NEW g \in Nat, UpTo(a, g), UpTo(b, g)
    PROVE  UpTo(a \o b, g)
  <1>1. /\ Len(a) \in Nat /\ Len(b) \in Nat /\ Len(a \o b) = Len(a) + Len(b)
        /\ \A i \in 1..Len(a) + Len(b) :
              (a \o b)[i] = IF i <= Len(a) THEN a[i] ELSE b[i - Len(a)]
    BY ConcatProperties DEF Texts
  <1> QED  BY <1>1 DEF UpTo

\* The two ends of a text of two parts.
LEMMA JoinEnds ==
    ASSUME NEW a \in Texts, NEW b \in Texts, b # << >>
    PROVE  /\ a \o b \in Texts /\ a \o b # << >>
           /\ (a \o b)[Len(a \o b)] = b[Len(b)]
           /\ (a \o b)[1] = IF a = << >> THEN b[1] ELSE a[1]
  <1>1. /\ Len(a) \in Nat /\ Len(b) \in Nat \ {0} /\ a \o b \in Texts
        /\ Len(a \o b) = Len(a) + Len(b)
        /\ \A i \in 1..Len(a) + Len(b) :
              (a \o b)[i] = IF i <= Len(a) THEN a[i] ELSE b[i - Len(a)]
        /\ a # << >> => Len(a) \in Nat \ {0}
    BY ConcatProperties, EmptySeq DEF Texts
  <1>2. Len(a) + Len(b) \in 1..Len(a) + Len(b) /\ 1 \in 1..Len(a) + Len(b)
    BY <1>1
  <1>3. (a \o b)[Len(a \o b)] = b[Len(b)]
    BY <1>1, <1>2
  <1>4. a \o b # << >>
    BY <1>1, EmptySeq
  <1>5. CASE a = << >>
    <2>1. Len(a) = 0  BY <1>5
    <2> QED  BY <1>1, <1>2, <1>3, <1>4, <1>5, <2>1
  <1>6. CASE a # << >>
    BY <1>1, <1>2, <1>3, <1>4, <1>6
  <1> QED  BY <1>5, <1>6

(***************************************************************************)
(* The views that the events on their way are going to make.               *)
(***************************************************************************)
ShownOn(v, event) ==
    CASE event.type = "error"   -> v
      [] event.type = "waiting" -> [text |-> << >>, banner |-> FALSE]
      [] event.type = "append"  -> [v EXCEPT !.text = @ \o event.content]
      [] OTHER                  -> [text |-> event.content, banner |-> event.truncated]

Ahead(ch, v, s) ==
    /\ s \in [1..Len(ch) + 1 -> Views]
    /\ s[1] = v
    /\ \A i \in 1..Len(ch) : s[i + 1] = ShownOn(s[i], ch[i])

LEMMA ShownTyped ==
    ASSUME NEW v \in Views, NEW e \in Events PROVE ShownOn(v, e) \in Views
  <1>0. << >> \in Texts  BY EmptySeq DEF Texts
  <1>1. CASE e.type = "error"
    BY <1>1 DEF ShownOn
  <1>2. CASE e.type = "waiting"
    BY <1>0, <1>2 DEF ShownOn, Views
  <1>3. CASE e.type = "append"
    <2>1. e \in Contents  BY <1>3 DEF Events
    <2>2. v.text \in Texts /\ e.content \in Texts  BY <2>1 DEF Contents, Views
    <2>3. v.text \o e.content \in Texts  BY <2>2, ConcatProperties DEF Texts
    <2>4. ShownOn(v, e) = [v EXCEPT !.text = v.text \o e.content]
      BY <1>3 DEF ShownOn
    <2> QED  BY <2>3, <2>4 DEF Views
  <1>4. CASE e.type \in {"snapshot", "reset"}
    <2>1. e \in Contents  BY <1>4 DEF Events
    <2> QED  BY <1>4, <2>1 DEF ShownOn, Contents, Views
  <1>5. e.type \in {"error", "waiting", "snapshot", "reset", "append"}
    BY DEF Events, Contents
  <1> QED  BY <1>1, <1>2, <1>3, <1>4, <1>5

LEMMA AheadMore ==
    ASSUME NEW ch \in Seq(Events), NEW v, NEW s, Ahead(ch, v, s), NEW e \in Events
    PROVE  \E t : /\ Ahead(Append(ch, e), v, t)
                  /\ t[Len(Append(ch, e)) + 1] = ShownOn(s[Len(ch) + 1], e)
                  /\ \A i \in 1..Len(ch) + 1 : t[i] = s[i]
  <1> DEFINE n == Len(ch)
             w == ShownOn(s[n + 1], e)
             t == [i \in 1..n + 2 |-> IF i = n + 2 THEN w ELSE s[i]]
  <1>1. n \in Nat  OBVIOUS
  <1>2. s \in [1..n + 1 -> Views] /\ s[1] = v /\ \A i \in 1..n : s[i + 1] = ShownOn(s[i], ch[i])
    BY DEF Ahead
  <1>3. w \in Views
    <2>1. s[n + 1] \in Views  BY <1>1, <1>2
    <2> QED  BY <2>1, ShownTyped
  <1>4. /\ Len(Append(ch, e)) = n + 1
        /\ Append(ch, e)[n + 1] = e
        /\ \A i \in 1..n : Append(ch, e)[i] = ch[i]
    OBVIOUS
  <1> HIDE DEF w
  <1>5. /\ t \in [1..n + 2 -> Views] /\ t[n + 2] = w
        /\ \A i \in 1..n + 1 : t[i] = s[i]
    BY <1>1, <1>2, <1>3
  <1>6. ASSUME NEW i \in 1..n + 1 PROVE t[i + 1] = ShownOn(t[i], Append(ch, e)[i])
    <2>1. CASE i = n + 1
      <3>1. t[i + 1] = w /\ t[i] = s[n + 1]  BY <1>1, <1>5, <2>1
      <3> QED  BY <1>4, <2>1, <3>1 DEF w
    <2>2. CASE i # n + 1
      <3>1. i \in 1..n /\ i + 1 \in 1..n + 1  BY <1>1, <2>2
      <3>2. t[i + 1] = s[i + 1] /\ t[i] = s[i]  BY <1>5, <3>1
      <3> QED  BY <1>2, <1>4, <3>1, <3>2
    <2> QED  BY <2>1, <2>2
  <1> HIDE DEF t
  <1>7. t[1] = v  BY <1>1, <1>2, <1>5
  <1>8. (n + 1) + 1 = n + 2  BY <1>1
  <1>9. Ahead(Append(ch, e), v, t)
    BY <1>4, <1>5, <1>6, <1>7, <1>8 DEF Ahead
  <1> QED  BY <1>4, <1>5, <1>8, <1>9 DEF w

LEMMA AheadLess ==
    ASSUME NEW ch \in Seq(Events), ch # << >>, NEW v, NEW s, Ahead(ch, v, s)
    PROVE  \E t : /\ Ahead(Tail(ch), ShownOn(v, Head(ch)), t)
                  /\ t[Len(Tail(ch)) + 1] = s[Len(ch) + 1]
                  /\ \A i \in 1..Len(ch) : t[i] = s[i + 1]
  <1> DEFINE n == Len(ch)
             t == [i \in 1..n |-> s[i + 1]]
  <1>1. n \in Nat \ {0}  BY EmptySeq
  <1>2. s \in [1..n + 1 -> Views] /\ s[1] = v /\ \A i \in 1..n : s[i + 1] = ShownOn(s[i], ch[i])
    BY DEF Ahead
  <1>3. /\ Len(Tail(ch)) = n - 1 /\ Head(ch) = ch[1]
        /\ \A i \in 1..n - 1 : Tail(ch)[i] = ch[i + 1]
    BY <1>1, HeadTailProperties
  <1>4. t \in [1..n -> Views] /\ \A i \in 1..n : t[i] = s[i + 1]
    BY <1>1, <1>2
  <1>5. t[1] = ShownOn(v, Head(ch))
    BY <1>1, <1>2, <1>3, <1>4
  <1>6. ASSUME NEW i \in 1..n - 1 PROVE t[i + 1] = ShownOn(t[i], Tail(ch)[i])
    <2>1. i \in 1..n /\ i + 1 \in 1..n  BY <1>1
    <2>2. t[i + 1] = s[(i + 1) + 1] /\ t[i] = s[i + 1]  BY <1>4, <2>1
    <2> QED  BY <1>2, <1>3, <2>1, <2>2
  <1> HIDE DEF t
  <1>7. (n - 1) + 1 = n  BY <1>1
  <1>8. Ahead(Tail(ch), ShownOn(v, Head(ch)), t)
    BY <1>3, <1>4, <1>5, <1>6, <1>7 DEF Ahead
  <1>9. t[n] = s[n + 1]  BY <1>1, <1>4
  <1> QED  BY <1>3, <1>4, <1>7, <1>8, <1>9

(***************************************************************************)
(* The invariant.                                                          *)
(***************************************************************************)
Logs == [there : BOOLEAN, generation : Nat, inode : Nat, size : Nat]
Subs == [hasSnapshot : BOOLEAN, wasMissing : BOOLEAN, offset : Nat, closed : BOOLEAN,
         syncTimer : BOOLEAN, retryTimer : BOOLEAN, syncQueued : BOOLEAN]
Handles == [inode : Nat, generation : Nat, from : Nat, size : Nat, reset : BOOLEAN]

Typed ==
    /\ log \in Logs /\ sub \in Subs
    /\ sync \in {"none", "open", "read", "apply"}
    /\ handle \in Handles
    /\ update \in Updates \cup {Missing}
    /\ channel \in Seq(Events)
    /\ listening \in BOOLEAN /\ view \in Views /\ torn \in BOOLEAN

\* A closed subscription has no timer.
ClosedIsOff == sub.closed => ~sub.syncTimer /\ ~sub.retryTimer

\* What performSync is going to read, and what it has read.
HasContent == sync = "apply" /\ update # Missing
Ranged ==
    /\ handle.from <= handle.size
    /\ ~handle.reset => handle.from = sub.offset
    /\ handle.from = handle.size => ~handle.reset \/ handle.size = 0
    /\ handle.generation <= log.generation /\ handle.inode <= log.inode
    /\ ~torn /\ log.there /\ log.inode = handle.inode =>
         handle.generation = log.generation /\ handle.size <= log.size
Opened == sync = "read" => Ranged
Fetched ==
    HasContent /\ ~torn =>
        \E g, from \in Nat :
            /\ Piece(update.content, g, from)
            /\ g <= log.generation
            /\ from + Len(update.content) = update.size
            /\ ~update.reset => from = sub.offset
            /\ update.content = << >> => ~update.reset \/ update.size = 0

\* As long as the log was begun once only, a log that has gone is gone for good.
BegunOnce ==
    /\ log.generation <= 1 => ~torn
    /\ log.there \/ sub.hasSnapshot \/ sync = "read" \/ HasContent => log.generation >= 1
    /\ ~sub.hasSnapshot => sub.offset = 0
    /\ log.generation <= 1 /\ sub.hasSnapshot =>
         /\ sub.wasMissing => ~log.there /\ sync # "read" /\ ~HasContent
         /\ sync = "apply" /\ update = Missing => ~log.there

State == Typed /\ ClosedIsOff /\ Opened /\ Fetched /\ BegunOnce

\* A view that is in order, and the one that performSync is going to go on with.
Sound(v) ==
    /\ ~torn => Consecutive(v.text) /\ UpTo(v.text, log.generation)
    /\ log.generation <= 1 /\ v.text # << >> /\ ~v.banner => v.text[1][2] = 1
Latest(v) ==
    /\ sub.hasSnapshot /\ ~sub.wasMissing =>
         /\ ~torn /\ v.text # << >> => v.text[Len(v.text)][2] = sub.offset
         /\ log.generation <= 1 /\ v.text = << >> => sub.offset = 0
    /\ ~torn /\ sync = "read" => UpTo(v.text, handle.generation)
    /\ ~torn /\ HasContent /\ update.content # << >> => UpTo(v.text, update.content[1][1])

Screen ==
    /\ Sound(view)
    /\ listening =>
         \E s : /\ Ahead(channel, view, s)
                /\ \A i \in 1..Len(channel) + 1 : Sound(s[i])
                /\ Latest(s[Len(channel) + 1])

(***************************************************************************)
(* Timers.                                                                 *)
(***************************************************************************)
LEMMA SchedulesKeep ==
    ASSUME NEW s \in Subs, NEW b \in BOOLEAN, NEW t \in {ScheduleRetry(s), ScheduleSync(s, b)}
    PROVE  /\ t \in Subs /\ t.hasSnapshot = s.hasSnapshot /\ t.wasMissing = s.wasMissing
           /\ t.offset = s.offset /\ t.closed = s.closed
           /\ s.closed => t = s
  <1>1. CASE s.closed
    <2>1. ScheduleRetry(s) = s  BY <1>1 DEF ScheduleRetry
    <2>2. ScheduleSync(s, b) = s  BY <1>1 DEF ScheduleSync
    <2> QED  BY <2>1, <2>2
  <1>2. CASE ~s.closed /\ t = ScheduleRetry(s)
    <2>1. t = [s EXCEPT !.retryTimer = TRUE]  BY <1>2 DEF ScheduleRetry
    <2> QED  BY <1>2, <2>1 DEF Subs
  <1>3. CASE ~s.closed /\ t = ScheduleSync(s, b)
    <2>1. t \in {[s EXCEPT !.retryTimer = FALSE, !.syncQueued = TRUE],
                 [s EXCEPT !.retryTimer = FALSE, !.syncTimer = TRUE]}
      BY <1>3 DEF ScheduleSync
    <2> QED  BY <1>3, <2>1 DEF Subs
  <1> QED  BY <1>1, <1>2, <1>3

LEMMA FinishKeeps ==
    ASSUME NEW s \in Subs, Finish(s)
    PROVE  /\ sub' \in Subs /\ sub'.hasSnapshot = s.hasSnapshot
           /\ sub'.wasMissing = s.wasMissing
           /\ sub'.offset = s.offset /\ sub'.closed = s.closed
           /\ s.closed => sub' = s
           /\ sync' = "none" /\ update' = Missing /\ handle' = NoHandle
  <1>1. CASE s.syncQueued /\ ~s.closed
    <2> DEFINE t == [s EXCEPT !.syncQueued = FALSE]
    <2>1. /\ t \in Subs /\ t.hasSnapshot = s.hasSnapshot /\ t.wasMissing = s.wasMissing
          /\ t.offset = s.offset /\ t.closed = s.closed
      BY DEF Subs
    <2>2. sub' = ScheduleSync(t, FALSE)  BY <1>1 DEF Finish
    <2> HIDE DEF t
    <2> QED  BY <1>1, <2>1, <2>2, SchedulesKeep DEF Finish
  <1>2. CASE ~(s.syncQueued /\ ~s.closed)
    BY <1>2 DEF Finish
  <1> QED  BY <1>1, <1>2

LEMMA DeliveredIs ==
    ASSUME sub \in Subs, update \in Updates
    PROVE  /\ Delivered(sub) \in Subs /\ Delivered(sub).hasSnapshot
           /\ ~Delivered(sub).wasMissing /\ Delivered(sub).offset = update.size
           /\ Delivered(sub).closed = sub.closed
  BY DEF Delivered, Subs, Updates

LEMMA EmitTyped ==
    ASSUME channel \in Seq(Events), NEW e \in Events, Emit(e)
    PROVE  channel' \in Seq(Events)
  BY DEF Emit

LEMMA LimitIs == Limit \in Nat \ {0} /\ Limit * BytesPerChar \in Nat \ {0}
  <1>1. Limit \in Nat \ {0} /\ BytesPerChar \in Nat \ {0}
    BY TailAssumption DEF Limit
  <1>2. \A m, n \in Nat \ {0} : m * n \in Nat \ {0}
    OBVIOUS
  <1> QED  BY <1>1, <1>2

(***************************************************************************)
(* Steps that leave the reading alone.                                     *)
(***************************************************************************)
Same(s, t) == /\ s.hasSnapshot = t.hasSnapshot /\ s.wasMissing = t.wasMissing
              /\ s.offset = t.offset

\* The log as it was, or changed by the tool.
Onward ==
    /\ log' \in Logs
    /\ log'.generation >= log.generation /\ log'.inode >= log.inode
    /\ torn' \in BOOLEAN /\ (~torn' => ~torn)
    /\ torn' => torn \/ log'.generation > 1
    /\ log'.there /\ ~log.there => log'.generation > log.generation /\ log'.inode > log.inode
    /\ sync = "read" /\ ~torn' /\ log'.there /\ log.there =>
         log'.generation = log.generation /\ log'.inode = log.inode /\ log'.size >= log.size
    /\ log'.there => log'.generation >= 1

LEMMA OnwardStep == ASSUME State, [MCNext]_mcvars PROVE Onward
  <1>0. log \in Logs /\ (log.there => log.generation >= 1) /\ (log.generation <= 1 => ~torn)
    BY DEF State, Typed, BegunOnce
  <1>1. ASSUME UNCHANGED log, ~torn' => ~torn, torn' => torn \/ Truncate, torn' \in BOOLEAN
        PROVE  Onward
    <2>1. ASSUME Truncate PROVE FALSE
      <3>1. log'.generation = log.generation + 1
        BY <1>0, <2>1 DEF Truncate, Changes, Logs
      <3>2. log'.generation = log.generation /\ log.generation \in Nat
        BY <1>0, <1>1 DEF Logs
      <3> QED  BY <3>1, <3>2
    <2> QED  BY <1>0, <1>1, <2>1 DEF Onward, Logs
  <1>2. CASE UNCHANGED mcvars
    BY <1>1, <1>2 DEF mcvars, vars, State, Typed
  <1>3. CASE MCNext
    <2>1. (~torn' => ~torn) /\ (torn' => torn \/ Truncate)
          /\ (sync = "read" /\ Truncate => torn') /\ torn' \in BOOLEAN
      BY <1>3 DEF MCNext, State, Typed
    <2>2. CASE Create
      <3>1. /\ ~log.there
            /\ log' = [there |-> TRUE, generation |-> log.generation + 1,
                       inode |-> log.inode + 1, size |-> 0]
        BY <2>2 DEF Create, Changes
      <3>2. ~Truncate  BY <3>1 DEF Truncate
      <3>3. /\ log' \in Logs /\ log'.there
            /\ log'.generation = log.generation + 1 /\ log'.inode = log.inode + 1
            /\ log.generation \in Nat /\ log.inode \in Nat
        BY <1>0, <3>1 DEF Logs
      <3>4. /\ log'.generation >= log.generation /\ log'.inode >= log.inode
            /\ log'.generation > log.generation /\ log'.inode > log.inode /\ log'.generation >= 1
        BY <3>3
      <3> QED  BY <2>1, <3>1, <3>2, <3>3, <3>4 DEF Onward
    <2>3. CASE Append1
      <3>1. log.there /\ log' = [log EXCEPT !.size = log.size + 1]
        BY <2>3 DEF Append1, Changes
      <3>2. /\ log' \in Logs /\ log'.there /\ log'.size = log.size + 1
            /\ log'.generation = log.generation /\ log'.inode = log.inode
            /\ log.generation \in Nat /\ log.inode \in Nat /\ log.size \in Nat
        BY <1>0, <3>1 DEF Logs
      <3>3. ~Truncate
        <4>1. Truncate => log'.generation = log.generation + 1
          BY <1>0 DEF Truncate, Changes, Logs
        <4> QED  BY <3>2, <4>1
      <3> QED  BY <1>0, <2>1, <3>1, <3>2, <3>3 DEF Onward
    <2>4. CASE Remove
      <3>1. log.there /\ log' = [log EXCEPT !.there = FALSE, !.size = 0]
        BY <2>4 DEF Remove, Changes
      <3>2. /\ log' \in Logs /\ ~log'.there
            /\ log'.generation = log.generation /\ log'.inode = log.inode
            /\ log.generation \in Nat /\ log.inode \in Nat
        BY <1>0, <3>1 DEF Logs
      <3>3. ~Truncate
        <4>1. Truncate => log'.generation = log.generation + 1
          BY <1>0 DEF Truncate, Changes, Logs
        <4> QED  BY <3>2, <4>1
      <3> QED  BY <1>0, <2>1, <3>1, <3>2, <3>3 DEF Onward
    <2>5. CASE Truncate
      <3>1. log.there /\ log' = [log EXCEPT !.generation = log.generation + 1, !.size = 0]
        BY <2>5 DEF Truncate, Changes
      <3>2. /\ log' \in Logs /\ log'.there
            /\ log'.generation = log.generation + 1 /\ log'.inode = log.inode
            /\ log.generation \in Nat /\ log.inode \in Nat
        <4> DEFINE g == log.generation + 1
        <4>1. g \in Nat /\ log' = [log EXCEPT !.generation = g, !.size = 0]
          BY <1>0, <3>1 DEF Logs
        <4> HIDE DEF g
        <4>2. /\ log' \in Logs /\ log'.there = log.there
              /\ log'.generation = g /\ log'.inode = log.inode
          BY <1>0, <4>1 DEF Logs
        <4> QED  BY <1>0, <3>1, <4>2 DEF Logs, g
      <3>3. log.generation >= 1  BY <1>0, <3>1
      <3>4. /\ log'.generation >= log.generation /\ log'.inode >= log.inode
            /\ log'.generation > 1 /\ log'.generation >= 1
        BY <3>2, <3>3
      <3> QED  BY <2>1, <2>5, <3>1, <3>2, <3>4 DEF Onward
    <2>6. CASE Service \/ HandleEvent \/ WatcherReady \/ WatcherError \/ ReadFails
               \/ Unwatch \/ Unsubscribe \/ ClearProjectRoot
      <3>1. UNCHANGED log
        BY <2>6 DEF Service, WatcherNotices, RetryTimerFires, SyncTimerFires, OpenLog, ReadLog, Apply,
               HandleEvent, WatcherReady, WatcherError, ReadFails, Unwatch, Unsubscribe,
               ClearProjectRoot, CloseSubscription, file
      <3> QED  BY <1>1, <2>1, <3>1
    <2> QED  BY <1>3, <2>2, <2>3, <2>4, <2>5, <2>6 DEF MCNext, Next, Writer
  <1> QED  BY <1>2, <1>3

\* The rest of State, when the reading is not touched.
LEMMA ReadingStays ==
    ASSUME State, Onward, Typed', ClosedIsOff', Same(sub', sub),
           UNCHANGED <<handle, update>>,
           sync' = sync \/ (sync = "none" /\ sync' = "open")
    PROVE  State'
  <1>0. /\ Typed /\ Opened /\ Fetched /\ BegunOnce
        /\ log \in Logs /\ log' \in Logs /\ handle \in Handles /\ sub \in Subs
    BY DEF State, Typed, Onward
  <1>1. Opened'
    <2> SUFFICES ASSUME sync' = "read" PROVE Ranged'
      BY DEF Opened
    <2>1. sync = "read" /\ handle' = handle /\ sub'.offset = sub.offset
      BY DEF Same
    <2>2. /\ handle.from <= handle.size
          /\ ~handle.reset => handle.from = sub.offset
          /\ handle.from = handle.size => ~handle.reset \/ handle.size = 0
          /\ handle.generation <= log.generation /\ handle.inode <= log.inode
          /\ ~torn /\ log.there /\ log.inode = handle.inode =>
               handle.generation = log.generation /\ handle.size <= log.size
      BY <1>0, <2>1 DEF Opened, Ranged
    <2>3. handle.generation <= log'.generation /\ handle.inode <= log'.inode
      BY <1>0, <2>2 DEF Onward, Logs, Handles
    <2>4. ASSUME ~torn', log'.there, log'.inode = handle.inode
          PROVE  handle.generation = log'.generation /\ handle.size <= log'.size
      <3>1. log.there
        BY <1>0, <2>2, <2>4 DEF Onward, Logs, Handles
      <3>2. log'.generation = log.generation /\ log'.inode = log.inode /\ log'.size >= log.size
        BY <2>1, <2>4, <3>1 DEF Onward
      <3> QED  BY <1>0, <2>2, <2>4, <3>1, <3>2 DEF Onward, Logs, Handles
    <2> QED  BY <2>1, <2>2, <2>3, <2>4 DEF Ranged
  <1>2. Fetched'
    <2> SUFFICES ASSUME HasContent', ~torn' PROVE Fetched'
      BY DEF Fetched
    <2>1. HasContent /\ ~torn  BY DEF HasContent, Onward
    <2>2. PICK g \in Nat, from \in Nat :
            /\ Piece(update.content, g, from)
            /\ g <= log.generation
            /\ from + Len(update.content) = update.size
            /\ ~update.reset => from = sub.offset
            /\ update.content = << >> => ~update.reset \/ update.size = 0
      BY <1>0, <2>1 DEF Fetched
    <2>3. g <= log'.generation  BY <1>0, <2>2 DEF Onward, Logs
    <2>4. update' = update /\ sub'.offset = sub.offset  BY DEF Same
    <2> QED  BY <2>2, <2>3, <2>4 DEF Fetched
  <1>3. BegunOnce'
    BY DEF State, Typed, BegunOnce, HasContent, Onward, Same, Logs, Subs
  <1> QED  BY <1>1, <1>2, <1>3 DEF State

LEMMA OutsideState ==
    ASSUME State, Onward,
           Writer \/ HandleEvent \/ WatcherReady \/ WatcherNotices \/ WatcherError
             \/ RetryTimerFires \/ SyncTimerFires \/ Unwatch \/ Unsubscribe \/ ClearProjectRoot
    PROVE  State' /\ Same(sub', sub) /\ UNCHANGED <<handle, update>>
           /\ (sync' = sync \/ (sync = "none" /\ sync' = "open"))
  <1>0. Typed /\ ClosedIsOff /\ sub \in Subs
    BY DEF State, Typed
  <1>1. /\ sub' \in Subs /\ Same(sub', sub) /\ ClosedIsOff'
        /\ UNCHANGED <<handle, update>>
        /\ sync' = sync \/ (sync = "none" /\ sync' = "open")
    <2>1. CASE Writer
      BY <1>0, <2>1 DEF Writer, Create, Append1, Remove, Truncate, Changes, Same, ClosedIsOff
    <2>2. CASE HandleEvent \/ WatcherReady \/ Unwatch
      BY <1>0, <2>2 DEF HandleEvent, WatcherReady, Unwatch, Same, ClosedIsOff, reading
    <2>3. CASE WatcherNotices
      <3>1. PICK b \in BOOLEAN : sub' = ScheduleSync(sub, b)
        BY <2>3 DEF WatcherNotices
      <3> QED
        BY <1>0, <2>3, <3>1, SchedulesKeep DEF WatcherNotices, Same, ClosedIsOff, reading
    <2>4. CASE WatcherError
      <3>1. sub' = ScheduleRetry(sub) /\ ~sub.closed
        BY <2>4 DEF WatcherError
      <3>2. FALSE \in BOOLEAN  OBVIOUS
      <3>3. sub' \in Subs /\ Same(sub', sub) /\ sub'.closed = sub.closed
        BY <1>0, <3>1, <3>2, SchedulesKeep DEF Same
      <3> QED
        BY <1>0, <2>4, <3>1, <3>3 DEF WatcherError, ClosedIsOff, reading
    <2>5. CASE RetryTimerFires
      <3> DEFINE t == [sub EXCEPT !.retryTimer = FALSE]
      <3>1. PICK b \in BOOLEAN : sub' = ScheduleSync(t, b)
        BY <2>5 DEF RetryTimerFires
      <3>2. t \in Subs /\ Same(t, sub) /\ t.closed = sub.closed /\ ~sub.closed
        BY <1>0, <2>5 DEF Subs, Same, RetryTimerFires, ClosedIsOff
      <3> HIDE DEF t
      <3>3. sub' \in Subs /\ Same(sub', sub) /\ ~sub'.closed
        BY <3>1, <3>2, SchedulesKeep DEF Same
      <3> QED
        BY <2>5, <3>3 DEF RetryTimerFires, ClosedIsOff, reading
    <2>6. CASE SyncTimerFires
      BY <1>0, <2>6 DEF SyncTimerFires, Same, ClosedIsOff, Subs, reading
    <2>7. CASE Unsubscribe \/ ClearProjectRoot
      BY <1>0, <2>7 DEF Unsubscribe, ClearProjectRoot, CloseSubscription, Same, ClosedIsOff, Subs,
                        reading
    <2> QED  BY <2>1, <2>2, <2>3, <2>4, <2>5, <2>6, <2>7
  <1>2. channel' \in Seq(Events)
    <2>1. CASE WatcherError
      <3>1. [type |-> "error"] \in Events /\ Emit([type |-> "error"])
        BY <2>1 DEF WatcherError, Events
      <3> QED  BY <1>0, <3>1, EmitTyped DEF Typed
    <2>2. CASE HandleEvent
      BY <1>0, <2>2, HeadTailProperties DEF HandleEvent, Typed
    <2>3. CASE ~WatcherError /\ ~HandleEvent
      BY <1>0, <2>3 DEF Writer, Create, Append1, Remove, Truncate, Changes, WatcherReady,
           WatcherNotices, RetryTimerFires, SyncTimerFires, Unwatch, Unsubscribe, ClearProjectRoot,
           CloseSubscription, Typed
    <2> QED  BY <2>1, <2>2, <2>3
  <1>3. view' \in Views /\ listening' \in BOOLEAN
    <2>1. CASE HandleEvent
      <3>1. Head(channel) \in Events
        BY <1>0, <2>1, HeadTailProperties DEF HandleEvent, Typed
      <3>2. Shown(Head(channel)) = ShownOn(view, Head(channel))
        BY DEF Shown, ShownOn
      <3> QED  BY <1>0, <2>1, <3>1, <3>2, ShownTyped DEF HandleEvent, Typed
    <2>2. CASE ~HandleEvent
      BY <1>0, <2>2 DEF Writer, Create, Append1, Remove, Truncate, Changes, WatcherReady, WatcherError,
           WatcherNotices, RetryTimerFires, SyncTimerFires, Unwatch, Unsubscribe, ClearProjectRoot,
           CloseSubscription, Typed, screen
    <2> QED  BY <2>1, <2>2
  <1>4. Typed'
    BY <1>0, <1>1, <1>2, <1>3 DEF Typed, Onward
  <1> QED  BY <1>1, <1>4, ReadingStays

(***************************************************************************)
(* Steps of performSync.                                                   *)
(***************************************************************************)
LEMMA OpenState == ASSUME State, OpenLog, UNCHANGED torn PROVE State'
  <1>0. /\ Typed /\ ClosedIsOff /\ Fetched /\ BegunOnce /\ sync = "open"
        /\ log \in Logs /\ sub \in Subs /\ handle \in Handles
        /\ UNCHANGED <<log, sub, channel, listening, view>>
    BY DEF State, Typed, OpenLog, file, screen
  <1>1. CASE ~log.there
    <2>1. sync' = "apply" /\ update' = Missing /\ handle' = handle
      BY <1>1 DEF OpenLog
    <2>2. Typed' /\ ClosedIsOff'
      BY <1>0, <2>1 DEF Typed, ClosedIsOff
    <2>3. Opened' /\ Fetched'
      BY <2>1 DEF Opened, Fetched, HasContent
    <2>4. BegunOnce'
      BY <1>0, <1>1, <2>1 DEF BegunOnce, HasContent
    <2> QED  BY <2>2, <2>3, <2>4 DEF State
  <1>2. CASE log.there
    <2> DEFINE most == Limit * BytesPerChar
               truncated == sub.offset > log.size
               unread == IF truncated THEN 0 ELSE log.size - sub.offset
               last == IF log.size > most THEN log.size - most ELSE 0
               from == IF truncated \/ unread > most THEN last ELSE sub.offset
    <2>1. /\ handle' = [inode |-> log.inode, generation |-> log.generation,
                        from |-> from, size |-> log.size, reset |-> truncated \/ unread > most]
          /\ sync' = "read" /\ update' = update
      BY <1>2 DEF OpenLog
    <2>2. most \in Nat \ {0} /\ log.size \in Nat /\ sub.offset \in Nat
      BY <1>0, LimitIs DEF Logs, Subs
    <2> HIDE DEF most
    <2>3. /\ from \in Nat /\ from <= log.size
          /\ truncated \/ unread > most => from # log.size \/ log.size = 0
          /\ ~(truncated \/ unread > most) => from = sub.offset
      BY <2>2
    <2> HIDE DEF from, truncated, unread
    <2>4. handle' \in Handles
      BY <1>0, <2>1, <2>3 DEF Handles, Logs
    <2>5. Typed' /\ ClosedIsOff'
      BY <1>0, <2>1, <2>4 DEF Typed, ClosedIsOff
    <2>6. Opened'
      <3>1. /\ handle'.from = from /\ handle'.size = log.size
            /\ handle'.generation = log.generation /\ handle'.inode = log.inode
            /\ ~handle'.reset => ~(truncated \/ unread > most)
            /\ handle'.reset => truncated \/ unread > most
        BY <2>1
      <3>2. log' = log /\ sub' = sub /\ log.generation \in Nat /\ log.inode \in Nat /\ log.size \in Nat
        BY <1>0 DEF Logs
      <3> QED  BY <2>3, <3>1, <3>2 DEF Opened, Ranged
    <2>7. Fetched'
      BY <2>1 DEF Fetched, HasContent
    <2>8. BegunOnce'
      BY <1>0, <1>2, <2>1 DEF BegunOnce, HasContent
    <2> QED  BY <2>5, <2>6, <2>7, <2>8 DEF State
  <1> QED  BY <1>1, <1>2

\* What is read, once it has been cut to the limit, still ends where it ended.
LEMMA CutIs ==
    ASSUME NEW raw \in Texts, NEW g \in Nat, NEW from \in Nat,
           Piece(raw, g, from), NEW n \in Nat \ {0}, NEW text,
           text = IF Len(raw) > n THEN LastOf(raw, n) ELSE raw
    PROVE  \E f \in Nat : /\ text \in Texts /\ Piece(text, g, f)
                          /\ f + Len(text) = from + Len(raw)
                          /\ Len(raw) <= n => f = from
                          /\ text = << >> => Len(raw) = 0
  <1>0. Len(raw) \in Nat  BY DEF Texts
  <1>1. CASE Len(raw) <= n
    <2>1. text = raw  BY <1>0, <1>1
    <2>2. text = << >> => Len(raw) = 0  BY <2>1
    <2> QED  BY <1>0, <2>1, <2>2
  <1>2. CASE Len(raw) > n
    <2> DEFINE f == from + (Len(raw) - n)
    <2>1. text = LastOf(raw, n)  BY <1>2
    <2>2. /\ text \in Texts /\ Len(text) = n
          /\ \A i \in 1..n : text[i] = raw[Len(raw) - n + i]
      BY <1>0, <1>2, <2>1, LastOfIs
    <2>3. f \in Nat /\ f + n = from + Len(raw)  BY <1>0, <1>2
    <2>4. ASSUME NEW i \in 1..Len(text) PROVE text[i] = <<g, f + i>>
      <3>1. Len(raw) - n + i \in 1..Len(raw)  BY <1>0, <1>2, <2>2
      <3>2. raw[Len(raw) - n + i] = <<g, from + (Len(raw) - n + i)>>  BY <3>1 DEF Piece
      <3>3. from + (Len(raw) - n + i) = f + i  BY <1>0, <2>2
      <3> QED  BY <2>2, <3>2, <3>3
    <2>5. text # << >> /\ f + Len(text) = from + Len(raw)  BY <2>2, <2>3
    <2>6. ~(Len(raw) <= n)  BY <1>0, <1>2
    <2> HIDE DEF f
    <2>7. Piece(text, g, f)  BY <2>4 DEF Piece
    <2> QED  BY <2>2, <2>3, <2>5, <2>6, <2>7
  <1>3. Len(raw) <= n \/ Len(raw) > n  BY <1>0
  <1> QED  BY <1>1, <1>2, <1>3, Zenon

LEMMA ReadState ==
    ASSUME State, ReadLog, UNCHANGED torn
    PROVE  /\ State'
           /\ ~torn /\ update'.content # << >> => update'.content[1][1] = handle.generation
  <1>0. /\ Typed /\ ClosedIsOff /\ BegunOnce /\ Ranged /\ sync = "read" /\ sync' = "apply"
        /\ log \in Logs /\ sub \in Subs /\ handle \in Handles /\ handle' = NoHandle
        /\ UNCHANGED <<log, sub, channel, listening, view>>
    BY DEF State, Typed, Opened, ReadLog, file, screen
  <1> DEFINE same == log.there /\ log.inode = handle.inode
             g == IF same THEN log.generation ELSE handle.generation
             end == IF same /\ log.size < handle.size THEN log.size ELSE handle.size
             raw == IF end > handle.from THEN Text(g, handle.from, end) ELSE << >>
             text == IF Len(raw) > Limit THEN LastOf(raw, Limit) ELSE raw
  <1>1. update' = [missing |-> FALSE, size |-> handle.size,
                   reset |-> handle.reset \/ Len(raw) > Limit, content |-> text]
    BY DEF ReadLog
  <1>2. /\ g \in Nat /\ g <= log.generation /\ end \in Nat
        /\ handle.from \in Nat /\ handle.size \in Nat /\ handle.reset \in BOOLEAN
        /\ ~torn => g = handle.generation /\ end = handle.size
    BY <1>0 DEF Ranged, Logs, Handles
  <1> HIDE DEF g, end
  <1>3. /\ raw \in Texts
        /\ \A i \in 1..Len(raw) : raw[i] = <<g, handle.from + i>>
        /\ Len(raw) = IF end > handle.from THEN end - handle.from ELSE 0
    <2>1. CASE end > handle.from
      <3>1. raw = Text(g, handle.from, end)  BY <2>1
      <3>2. handle.from <= end  BY <1>2, <2>1
      <3>3. /\ Text(g, handle.from, end) \in Texts
            /\ Len(Text(g, handle.from, end)) = end - handle.from
            /\ \A i \in 1..(end - handle.from) :
                 Text(g, handle.from, end)[i] = <<g, handle.from + i>>
        BY <1>2, <3>2, TextIs
      <3> HIDE DEF raw
      <3> QED  BY <2>1, <3>1, <3>3
    <2>2. CASE ~(end > handle.from)
      <3>1. raw = << >>  BY <2>2
      <3> HIDE DEF raw
      <3> QED  BY <2>2, <3>1, EmptySeq DEF Texts
    <2> QED  BY <2>1, <2>2
  <1>4. Limit \in Nat \ {0}  BY LimitIs
  <1> HIDE DEF raw
  <1>5. PICK f \in Nat : /\ text \in Texts /\ Piece(text, g, f)
                         /\ f + Len(text) = handle.from + Len(raw)
                         /\ Len(raw) <= Limit => f = handle.from
                         /\ text = << >> => Len(raw) = 0
    <2>1. text = IF Len(raw) > Limit THEN LastOf(raw, Limit) ELSE raw  OBVIOUS
    <2> HIDE DEF text
    <2>2. Piece(raw, g, handle.from)  BY <1>3 DEF Piece
    <2> QED  BY <1>2, <1>3, <1>4, <2>1, <2>2, CutIs
  <1> HIDE DEF text
  <1>6. /\ update'.content = text /\ update'.size = handle.size
        /\ update'.reset = (handle.reset \/ Len(raw) > Limit) /\ update' \in Updates
    BY <1>1, <1>2, <1>5 DEF Updates
  <1>7. Len(raw) \in Nat  BY <1>3 DEF Texts
  <1>8. Typed' /\ ClosedIsOff'
    <2>1. NoHandle \in Handles  BY DEF NoHandle, Handles
    <2> QED  BY <1>0, <1>6, <2>1 DEF Typed, ClosedIsOff
  <1>9. Fetched'
    <2> SUFFICES ASSUME ~torn PROVE Fetched'
      BY DEF Fetched
    <2>1. handle.from + Len(raw) = handle.size
      BY <1>0, <1>2, <1>3 DEF Ranged
    <2>2. ASSUME ~update'.reset PROVE f = sub.offset
      <3>1. ~handle.reset /\ ~(Len(raw) > Limit)  BY <1>6, <2>2
      <3>2. Len(raw) <= Limit  BY <1>4, <1>7, <3>1
      <3> QED  BY <1>0, <1>5, <3>1, <3>2 DEF Ranged
    <2>3. text = << >> => ~update'.reset \/ handle.size = 0
      BY <1>0, <1>2, <1>4, <1>5, <1>6, <1>7, <2>1 DEF Ranged
    <2> QED  BY <1>0, <1>2, <1>5, <1>6, <2>1, <2>2, <2>3 DEF Fetched, Piece
  <1>10. Opened'  BY <1>0 DEF Opened
  <1>11. BegunOnce'
    <2>1. update' # Missing
      BY <1>1 DEF Missing
    <2> QED  BY <1>0, <2>1 DEF BegunOnce, HasContent
  <1>12. ASSUME ~torn, update'.content # << >> PROVE update'.content[1][1] = handle.generation
    <2>1. 1 \in 1..Len(text)
      BY <1>5, <1>6, <1>12, EmptySeq DEF Texts
    <2>2. text[1] = <<g, f + 1>>  BY <1>5, <2>1 DEF Piece
    <2> QED  BY <1>2, <1>6, <1>12, <2>2
  <1> QED  BY <1>8, <1>9, <1>10, <1>11, <1>12 DEF State

\* A sync that ends.
LEMMA EndedState ==
    ASSUME State, NEW s \in Subs, Finish(s), UNCHANGED <<log, torn, listening, view>>,
           channel' \in Seq(Events),
           s.closed => s = sub,
           s.hasSnapshot => log.generation >= 1,
           ~s.hasSnapshot => s.offset = 0,
           log.generation <= 1 /\ s.hasSnapshot /\ s.wasMissing => ~log.there
    PROVE  State'
  <1>0. Typed /\ ClosedIsOff /\ BegunOnce
    BY DEF State
  <1>1. /\ sub' \in Subs /\ sub'.hasSnapshot = s.hasSnapshot
        /\ sub'.wasMissing = s.wasMissing
        /\ sub'.offset = s.offset /\ sub'.closed = s.closed
        /\ s.closed => sub' = s
        /\ sync' = "none" /\ update' = Missing /\ handle' = NoHandle
    BY FinishKeeps
  <1>2. Typed'
    <2>1. NoHandle \in Handles  BY DEF NoHandle, Handles
    <2> QED  BY <1>0, <1>1, <2>1 DEF Typed
  <1>3. ClosedIsOff'
    BY <1>0, <1>1 DEF ClosedIsOff
  <1>4. Opened' /\ Fetched'
    BY <1>1 DEF Opened, Fetched, HasContent
  <1>5. BegunOnce'
    BY <1>0, <1>1 DEF BegunOnce, HasContent
  <1> QED  BY <1>2, <1>3, <1>4, <1>5 DEF State

LEMMA ApplyState == ASSUME State, Apply, UNCHANGED torn PROVE State'
  <1>0. /\ Typed /\ BegunOnce /\ sync = "apply" /\ sub \in Subs /\ channel \in Seq(Events)
        /\ UNCHANGED <<log, listening, view>>
    BY DEF State, Typed, Apply, file, screen
  <1>1. CASE ApplyClosed
    <2>1. Finish(sub) /\ channel' = channel  BY <1>1 DEF ApplyClosed
    <2> QED  BY <1>0, <2>1, EndedState DEF BegunOnce
  <1>2. CASE ApplyMissing
    <2> DEFINE m == [sub EXCEPT !.wasMissing = TRUE]
               s == ScheduleRetry(m)
    <2>1. ~sub.closed /\ update = Missing /\ Finish(s)
      BY <1>2 DEF ApplyMissing
    <2>2. /\ m \in Subs /\ m.hasSnapshot = sub.hasSnapshot /\ m.offset = sub.offset
          /\ m.closed = sub.closed /\ m.wasMissing
      BY <1>0 DEF Subs
    <2> HIDE DEF m
    <2>3. /\ s \in Subs /\ s.hasSnapshot = sub.hasSnapshot /\ s.offset = sub.offset
          /\ s.closed = sub.closed
      BY <2>2, SchedulesKeep
    <2>4. channel' \in Seq(Events)
      <3>1. [type |-> "waiting"] \in Events  BY DEF Events
      <3>2. channel' = channel \/ Emit([type |-> "waiting"])  BY <1>2 DEF ApplyMissing
      <3> QED  BY <1>0, <3>1, <3>2, EmitTyped
    <2> HIDE DEF s
    <2> QED  BY <1>0, <2>1, <2>3, <2>4, EndedState DEF BegunOnce
  <1>3. CASE ApplyUpdate
    <2> DEFINE e == [type |-> EventType, content |-> update.content, truncated |-> update.reset]
    <2>1. /\ ~sub.closed /\ update # Missing /\ Finish(Delivered(sub))
          /\ channel' = channel \/ Emit(e)
      BY <1>3 DEF ApplyUpdate
    <2>2. update \in Updates  BY <1>0, <2>1 DEF Typed
    <2>3. /\ Delivered(sub) \in Subs /\ Delivered(sub).hasSnapshot
          /\ ~Delivered(sub).wasMissing /\ ~Delivered(sub).closed
      BY <1>0, <2>1, <2>2, DeliveredIs
    <2>4. channel' \in Seq(Events)
      <3>1. e \in Contents  BY <2>2 DEF Contents, Updates, EventType
      <3>2. e \in Events  BY <3>1 DEF Events
      <3> HIDE DEF e
      <3> QED  BY <1>0, <2>1, <3>2, EmitTyped
    <2>5. log.generation >= 1
      BY <1>0, <2>1 DEF BegunOnce, HasContent
    <2> QED  BY <1>0, <2>1, <2>3, <2>4, <2>5, EndedState
  <1> QED  BY <1>1, <1>2, <1>3 DEF Apply

LEMMA ReadFailsState == ASSUME State, ReadFails, UNCHANGED torn PROVE State'
  <1>0. /\ Typed /\ BegunOnce /\ sub \in Subs /\ channel \in Seq(Events)
        /\ UNCHANGED <<log, listening, view>>
    BY DEF State, Typed, ReadFails, screen
  <1>1. CASE sub.closed
    <2>1. Finish(sub) /\ channel' = channel  BY <1>1 DEF ReadFails
    <2> QED  BY <1>0, <2>1, EndedState DEF BegunOnce
  <1>2. CASE ~sub.closed
    <2> DEFINE s == ScheduleRetry(sub)
    <2>1. Emit([type |-> "error"]) /\ Finish(s)
      BY <1>2 DEF ReadFails
    <2>2. /\ s \in Subs /\ s.hasSnapshot = sub.hasSnapshot /\ s.offset = sub.offset
          /\ s.closed = sub.closed /\ s.wasMissing = sub.wasMissing
      <3>1. FALSE \in BOOLEAN  OBVIOUS
      <3> QED  BY <1>0, <3>1, SchedulesKeep
    <2>3. [type |-> "error"] \in Events  BY DEF Events
    <2>4. channel' \in Seq(Events)
      BY <1>0, <2>1, <2>3, EmitTyped
    <2> HIDE DEF s
    <2> QED  BY <1>0, <1>2, <2>1, <2>2, <2>4, EndedState DEF BegunOnce
  <1> QED  BY <1>1, <1>2

(***************************************************************************)
(* State is an invariant.                                                  *)
(***************************************************************************)
\* Only a step of the tool tears what is read.
LEMMA TornStays == ASSUME State, MCNext, UNCHANGED log PROVE torn' = torn
  <1>1. ~Truncate
    <2>1. log \in Logs  BY DEF State, Typed
    <2>2. Truncate => log'.generation = log.generation + 1
      BY <2>1 DEF Truncate, Changes, Logs
    <2> QED  BY <2>1, <2>2 DEF Logs
  <1>2. torn' = (torn \/ FALSE) /\ torn \in BOOLEAN
    BY <1>1 DEF MCNext, State, Typed
  <1> QED  BY <1>2

LEMMA StateStep == ASSUME State, [MCNext]_mcvars PROVE State'
  <1>1. Onward  BY OnwardStep
  <1>2. CASE UNCHANGED mcvars
    <2>1. UNCHANGED <<log, sub, sync, handle, update, channel, listening, view, torn>>
      BY <1>2 DEF mcvars, vars, reading, screen, file
    <2>2. Typed' /\ ClosedIsOff' /\ Same(sub', sub)
      BY <2>1 DEF State, Typed, ClosedIsOff, Same
    <2> QED  BY <1>1, <2>1, <2>2, ReadingStays
  <1>3. CASE OpenLog /\ MCNext
    BY <1>3, OpenState, TornStays DEF OpenLog, file
  <1>4. CASE ReadLog /\ MCNext
    BY <1>4, ReadState, TornStays DEF ReadLog, file
  <1>5. CASE Apply /\ MCNext
    BY <1>5, ApplyState, TornStays DEF Apply, file
  <1>6. CASE ReadFails /\ MCNext
    BY <1>6, ReadFailsState, TornStays DEF ReadFails
  <1>7. CASE \/ Writer \/ HandleEvent \/ WatcherReady \/ WatcherNotices \/ WatcherError
             \/ RetryTimerFires \/ SyncTimerFires \/ Unwatch \/ Unsubscribe \/ ClearProjectRoot
    BY <1>1, <1>7, OutsideState
  <1> QED  BY <1>2, <1>3, <1>4, <1>5, <1>6, <1>7 DEF MCNext, Next, Service

LEMMA StateInit == MCInit => State
  <1> SUFFICES ASSUME MCInit PROVE State
    OBVIOUS
  <1>1. << >> \in Texts /\ << >> \in Seq(Events)
    BY EmptySeq DEF Texts
  <1>2. Typed
    BY <1>1 DEF MCInit, Init, Typed, Logs, Subs, Handles, NoHandle, Views
  <1> QED  BY <1>2 DEF MCInit, Init, State, ClosedIsOff, Opened, Fetched, HasContent, BegunOnce

\* The service, the read under way and the messages agree on sizes, generations and who is
\* subscribed, whatever the order of the tool, the watcher, the timers and the reads.
THEOREM StateInvariant == MCSpec => []State
  <1> QED  BY StateInit, StateStep, PTL DEF MCSpec

\* Once closed, a subscription has no timer and sends nothing.
LEMMA QuietStep ==
    ASSUME State, [MCNext]_mcvars, State', sub.closed
    PROVE  /\ ~sub'.syncTimer /\ ~sub'.retryTimer
           /\ channel' # channel => channel = <<Head(channel)>> \o channel'
  <1>0. /\ sub \in Subs /\ channel \in Seq(Events) /\ ClosedIsOff /\ ClosedIsOff'
    BY DEF State, Typed
  <1>1. sub'.closed
    <2>1. CASE UNCHANGED mcvars
      BY <2>1 DEF mcvars, vars
    <2>2. CASE Apply
      <3>1. Finish(sub)  BY <2>2 DEF Apply, ApplyClosed, ApplyMissing, ApplyUpdate
      <3> QED  BY <1>0, <3>1, FinishKeeps
    <2>3. CASE ReadFails
      <3>1. Finish(sub)  BY <2>3 DEF ReadFails
      <3> QED  BY <1>0, <3>1, FinishKeeps
    <2>4. CASE WatcherNotices
      BY <2>4 DEF WatcherNotices, ScheduleSync
    <2>5. CASE Writer \/ HandleEvent \/ WatcherReady \/ Unwatch \/ OpenLog \/ ReadLog
      BY <2>5 DEF Writer, Create, Append1, Remove, Truncate, Changes, HandleEvent, WatcherReady,
                  Unwatch, OpenLog, ReadLog
    <2>6. CASE WatcherError \/ RetryTimerFires \/ SyncTimerFires \/ Unsubscribe \/ ClearProjectRoot
      BY <1>0, <2>6 DEF WatcherError, RetryTimerFires, SyncTimerFires, Unsubscribe, ClearProjectRoot,
                        CloseSubscription, ClosedIsOff
    <2> QED  BY <2>1, <2>2, <2>3, <2>4, <2>5, <2>6 DEF MCNext, Next, Service
  <1>2. channel' = channel \/ HandleEvent
    BY DEF MCNext, Next, Service, mcvars, vars, Writer, Create, Append1, Remove, Truncate, Changes,
           WatcherReady, WatcherError, Unwatch, OpenLog, ReadLog, WatcherNotices, RetryTimerFires,
           SyncTimerFires, Unsubscribe, ClearProjectRoot, CloseSubscription, Apply, ApplyClosed,
           ApplyMissing, ApplyUpdate, ReadFails
  <1>3. ASSUME HandleEvent PROVE channel = <<Head(channel)>> \o channel'
    BY <1>0, <1>3, HeadTailProperties DEF HandleEvent
  <1> QED  BY <1>0, <1>1, <1>2, <1>3 DEF ClosedIsOff

\* A closed subscription has no timer and sends nothing any more, also when a
\* sync was under way as it was closed.
THEOREM NothingAfterClose == MCSpec => ClosedStaysQuiet
  <1>1. ASSUME State, State', [MCNext]_mcvars
        PROVE  [sub.closed => /\ ~sub'.syncTimer /\ ~sub'.retryTimer
                              /\ channel' # channel => channel = <<Head(channel)>> \o channel']_vars
    BY <1>1, QuietStep
  <1> QED  BY <1>1, StateInvariant, PTL DEF MCSpec, ClosedStaysQuiet

(***************************************************************************)
(* What the steps make of the views ahead.                                 *)
(***************************************************************************)
LEMMA SoundStays ==
    ASSUME State, Onward, NEW v \in Views, Sound(v) PROVE Sound(v)'
  <1>1. /\ log.generation \in Nat /\ log'.generation \in Nat /\ log'.generation >= log.generation
        /\ ~torn' => ~torn
    BY DEF State, Typed, Onward, Logs
  <1>2. /\ ~torn => Consecutive(v.text) /\ UpTo(v.text, log.generation)
        /\ log.generation <= 1 /\ v.text # << >> /\ ~v.banner => v.text[1][2] = 1
    BY DEF Sound
  <1>3. ASSUME UpTo(v.text, log.generation) PROVE UpTo(v.text, log'.generation)
    <2> SUFFICES ASSUME NEW i \in 1..Len(v.text) PROVE v.text[i][1] <= log'.generation
      BY DEF UpTo
    <2>1. v.text \in Texts /\ v.text[i][1] <= log.generation
      BY <1>3 DEF UpTo, Views
    <2>2. v.text[i] \in Bytes
      BY <2>1, ElementOfSeq DEF Texts
    <2>3. v.text[i][1] \in Nat
      BY <2>2 DEF Bytes
    <2> QED  BY <1>1, <2>1, <2>3
  <1>4. log'.generation <= 1 => log.generation <= 1
    BY <1>1
  <1> QED  BY <1>1, <1>2, <1>3, <1>4 DEF Sound

LEMMA LatestStays ==
    ASSUME State, Onward, Same(sub', sub), UNCHANGED <<handle, update>>,
           sync' = sync \/ (sync = "none" /\ sync' = "open"),
           NEW v \in Views, Latest(v)
    PROVE  Latest(v)'
  <1>1. /\ log'.generation <= 1 => log.generation <= 1
        /\ ~torn' => ~torn
        /\ sync' = "read" => sync = "read"
        /\ HasContent' => HasContent
        /\ sub'.hasSnapshot = sub.hasSnapshot /\ sub'.wasMissing = sub.wasMissing
        /\ sub'.offset = sub.offset /\ handle' = handle /\ update' = update
    BY DEF State, Typed, Onward, Logs, Same, HasContent
  <1> QED  BY <1>1 DEF Latest

LEMMA ScreenFrom ==
    ASSUME NEW s, Ahead(channel', view', s), Len(channel') \in Nat,
           \A i \in 1..Len(channel') + 1 : Sound(s[i])',
           NEW w, w = s[Len(channel') + 1], Latest(w)'
    PROVE  Screen'
  <1>1. s[1] = view'  BY DEF Ahead
  <1>2. Sound(s[1])'  BY 1 \in 1..Len(channel') + 1
  <1>3. Sound(view)'  BY <1>1, <1>2 DEF Sound
  <1>4. Latest(s[Len(channel) + 1])'  BY DEF Latest
  <1> QED  BY <1>3, <1>4 DEF Screen

\* Nothing is sent and nothing is shown.
LEMMA QuietScreen ==
    ASSUME State, Onward, Screen, UNCHANGED <<channel, view>>, listening' => listening,
           \A v \in Views : Sound(v) /\ Latest(v) => Latest(v)'
    PROVE  Screen'
  <1>0. view \in Views /\ channel \in Seq(Events)  BY DEF State, Typed
  <1>1. Sound(view)'
    <2>1. PICK v \in Views : v = view  BY <1>0
    <2>2. Sound(v)  BY <2>1 DEF Screen
    <2>3. Sound(v)'  BY <2>2, SoundStays
    <2> QED  BY <2>1, <2>3 DEF Sound
  <1>2. CASE ~listening'
    BY <1>1, <1>2 DEF Screen
  <1>3. CASE listening'
    <2>1. PICK s : /\ Ahead(channel, view, s)
                   /\ \A i \in 1..Len(channel) + 1 : Sound(s[i])
                   /\ Latest(s[Len(channel) + 1])
      BY <1>3 DEF Screen
    <2>2. Len(channel) \in Nat /\ \A i \in 1..Len(channel) + 1 : s[i] \in Views
      BY <1>0, <2>1 DEF Ahead
    <2>3. ASSUME NEW i \in 1..Len(channel) + 1 PROVE Sound(s[i])'
      BY <2>1, <2>2, <2>3, SoundStays
    <2>4. PICK w \in Views : w = s[Len(channel) + 1]
      BY <2>2
    <2>5. Sound(w) /\ Latest(w)
      BY <2>1, <2>2, <2>4
    <2>6. Latest(w)'
      BY <2>5
    <2>7. Ahead(channel', view', s) /\ Len(channel') \in Nat /\ w = s[Len(channel') + 1]
      BY <2>1, <2>2, <2>4
    <2>8. \A i \in 1..Len(channel') + 1 : Sound(s[i])'
      BY <2>3
    <2> QED  BY <2>6, <2>7, <2>8, ScreenFrom
  <1> QED  BY <1>2, <1>3

\* An event is sent.
LEMMA EmitScreen ==
    ASSUME State, Onward, Screen, UNCHANGED <<listening, view>>,
           NEW e \in Events, channel' = Append(channel, e),
           \A v, w \in Views : Sound(v) /\ Latest(v) /\ w = ShownOn(v, e) => Sound(w)' /\ Latest(w)'
    PROVE  Screen'
  <1>0. view \in Views /\ channel \in Seq(Events)  BY DEF State, Typed
  <1>1. Sound(view)'
    <2>1. PICK v \in Views : v = view  BY <1>0
    <2>2. Sound(v)  BY <2>1 DEF Screen
    <2>3. Sound(v)'  BY <2>2, SoundStays
    <2> QED  BY <2>1, <2>3 DEF Sound
  <1>2. CASE ~listening
    BY <1>1, <1>2 DEF Screen
  <1>3. CASE listening
    <2>1. PICK s : /\ Ahead(channel, view, s)
                   /\ \A i \in 1..Len(channel) + 1 : Sound(s[i])
                   /\ Latest(s[Len(channel) + 1])
      BY <1>3 DEF Screen
    <2>2. PICK t : /\ Ahead(Append(channel, e), view, t)
                   /\ t[Len(Append(channel, e)) + 1] = ShownOn(s[Len(channel) + 1], e)
                   /\ \A i \in 1..Len(channel) + 1 : t[i] = s[i]
      BY <1>0, <2>1, AheadMore
    <2>3. /\ Len(channel) \in Nat /\ \A i \in 1..Len(channel) + 1 : s[i] \in Views
          /\ Len(channel') = Len(channel) + 1
      BY <1>0, <2>1 DEF Ahead
    <2>4. \A i \in 1..Len(channel') + 1 : t[i] \in Views
      BY <2>2, <2>3 DEF Ahead
    <2>5. PICK v \in Views : v = s[Len(channel) + 1]
      BY <2>3
    <2>6. PICK w \in Views : w = t[Len(channel') + 1]
      BY <2>3, <2>4
    <2>7. w = ShownOn(v, e)
      BY <2>2, <2>5, <2>6
    <2>8. Sound(v) /\ Latest(v)
      BY <2>1, <2>3, <2>5
    <2>9. Sound(w)' /\ Latest(w)'
      BY <2>7, <2>8
    <2>10. ASSUME NEW i \in 1..Len(channel') + 1 PROVE Sound(t[i])'
      <3>1. CASE i = Len(channel') + 1
        <4>1. t[i] = w  BY <2>6, <3>1
        <4> QED  BY <2>9, <4>1
      <3>2. CASE i # Len(channel') + 1
        <4>1. i \in 1..Len(channel) + 1  BY <2>3, <3>2
        <4>2. s[i] \in Views /\ Sound(s[i])  BY <2>1, <2>3, <4>1
        <4>3. Sound(s[i])'  BY <4>2, SoundStays
        <4> QED  BY <2>2, <4>1, <4>3
      <3> QED  BY <3>1, <3>2
    <2>11. Ahead(channel', view', t) /\ Len(channel') \in Nat
      BY <2>2, <2>3
    <2> QED  BY <2>6, <2>9, <2>10, <2>11, ScreenFrom
  <1> QED  BY <1>2, <1>3

\* An event is shown, or dropped when nobody listens.
LEMMA HandleScreen ==
    ASSUME State, Onward, Screen, HandleEvent
    PROVE  Screen'
  <1>0. /\ view \in Views /\ channel \in Seq(Events) /\ channel # << >> /\ channel' = Tail(channel)
        /\ UNCHANGED <<sub, sync, handle, update, listening>>
    BY DEF State, Typed, HandleEvent, reading
  <1>1. CASE ~listening
    <2>1. PICK v \in Views : v = view  BY <1>0
    <2>2. Sound(v)  BY <2>1 DEF Screen
    <2>3. Sound(v)'  BY <2>2, SoundStays
    <2>4. view' = v  BY <1>1, <2>1 DEF HandleEvent
    <2>5. Sound(view)'  BY <2>3, <2>4 DEF Sound
    <2> QED  BY <1>0, <1>1, <2>5 DEF Screen
  <1>2. CASE listening
    <2>1. PICK s : /\ Ahead(channel, view, s)
                   /\ \A i \in 1..Len(channel) + 1 : Sound(s[i])
                   /\ Latest(s[Len(channel) + 1])
      BY <1>2 DEF Screen
    <2>2. PICK t : /\ Ahead(Tail(channel), ShownOn(view, Head(channel)), t)
                   /\ t[Len(Tail(channel)) + 1] = s[Len(channel) + 1]
                   /\ \A i \in 1..Len(channel) : t[i] = s[i + 1]
      BY <1>0, <2>1, AheadLess
    <2>3. view' = ShownOn(view, Head(channel))
      BY <1>2 DEF HandleEvent, Shown, ShownOn
    <2>4. /\ Len(channel) \in Nat /\ \A i \in 1..Len(channel) + 1 : s[i] \in Views
          /\ Len(channel') + 1 = Len(channel) /\ Len(channel') \in Nat
      <3>1. Len(channel) \in Nat /\ \A i \in 1..Len(channel) + 1 : s[i] \in Views
        BY <1>0, <2>1 DEF Ahead
      <3>2. Len(Tail(channel)) = Len(channel) - 1 /\ Len(channel) # 0
        BY <1>0, HeadTailProperties, EmptySeq
      <3> QED  BY <1>0, <3>1, <3>2
    <2>5. PICK w \in Views : w = s[Len(channel) + 1]
      BY <2>4
    <2>6. Latest(w)  BY <2>1, <2>5
    <2>7. Same(sub', sub)  BY <1>0 DEF Same
    <2>8. Latest(w)'  BY <1>0, <2>6, <2>7, LatestStays
    <2>9. ASSUME NEW i \in 1..Len(channel') + 1 PROVE Sound(t[i])'
      <3>1. i \in 1..Len(channel) /\ i + 1 \in 1..Len(channel) + 1  BY <2>4
      <3>2. PICK v \in Views : v = s[i + 1]  BY <2>4, <3>1
      <3>3. Sound(v)  BY <2>1, <3>1, <3>2
      <3>4. Sound(v)'  BY <3>3, SoundStays
      <3>5. t[i] = v  BY <2>2, <3>1, <3>2
      <3> QED  BY <3>4, <3>5
    <2>10. Ahead(channel', view', t) /\ w = t[Len(channel') + 1]
      BY <1>0, <2>2, <2>3, <2>5
    <2> QED  BY <2>4, <2>8, <2>9, <2>10, ScreenFrom
  <1> QED  BY <1>1, <1>2

LEMMA OpenScreen == ASSUME State, Onward, Screen, OpenLog, UNCHANGED torn PROVE Screen'
  <1>0. /\ log \in Logs
        /\ UNCHANGED <<log, sub, channel, view, listening, torn>>
    BY DEF State, Typed, OpenLog, screen, file
  <1>1. ASSUME NEW v \in Views, Sound(v), Latest(v) PROVE Latest(v)'
    <2>1. CASE ~log.there
      <3>1. sync' = "apply" /\ update' = Missing
        BY <2>1 DEF OpenLog
      <3>2. sync' # "read" /\ ~HasContent'
        BY <3>1 DEF HasContent
      <3> QED  BY <1>0, <1>1, <3>2 DEF Latest
    <2>2. CASE log.there
      <3>1. sync' = "read" /\ handle'.generation = log.generation
        BY <2>2 DEF OpenLog
      <3>2. ~HasContent'
        BY <3>1 DEF HasContent
      <3>3. ~torn => UpTo(v.text, log.generation)
        BY <1>1 DEF Sound
      <3> QED  BY <1>0, <1>1, <3>1, <3>2, <3>3 DEF Latest
    <2> QED  BY <2>1, <2>2
  <1> QED  BY <1>0, <1>1, QuietScreen

LEMMA ReadScreen == ASSUME State, Onward, Screen, ReadLog, UNCHANGED torn PROVE Screen'
  <1>0. /\ sync = "read" /\ sync' = "apply"
        /\ UNCHANGED <<log, sub, channel, view, listening, torn>>
    BY DEF ReadLog, screen, file
  <1>1. ~torn /\ update'.content # << >> => update'.content[1][1] = handle.generation
    BY ReadState
  <1>2. ASSUME NEW v \in Views, Sound(v), Latest(v) PROVE Latest(v)'
    <2>1. ~torn => UpTo(v.text, handle.generation)
      BY <1>0, <1>2 DEF Latest
    <2>2. /\ sub.hasSnapshot /\ ~sub.wasMissing =>
               /\ ~torn /\ v.text # << >> => v.text[Len(v.text)][2] = sub.offset
               /\ log.generation <= 1 /\ v.text = << >> => sub.offset = 0
      BY <1>2 DEF Latest
    <2>3. ASSUME ~torn, update'.content # << >> PROVE UpTo(v.text, update'.content[1][1])
      BY <1>1, <2>1, <2>3
    <2> QED  BY <1>0, <2>2, <2>3 DEF Latest
  <1> QED  BY <1>0, <1>2, QuietScreen

\* A sync that sends nothing but an error or that the log is not there.
LEMMA NothingNew ==
    ASSUME State, Onward, Screen, UNCHANGED <<view, listening, torn, log>>,
           NEW s \in Subs, Finish(s),
           s.hasSnapshot /\ ~s.wasMissing =>
              sub.hasSnapshot /\ ~sub.wasMissing /\ s.offset = sub.offset,
           \/ channel' = channel
           \/ channel' = Append(channel, [type |-> "error"])
           \/ channel' = Append(channel, [type |-> "waiting"]) /\ s.wasMissing
    PROVE  Screen'
  <1>1. /\ sub'.hasSnapshot = s.hasSnapshot /\ sub'.wasMissing = s.wasMissing
        /\ sub'.offset = s.offset /\ sync' = "none"
    BY FinishKeeps
  <1>2. sync' # "read" /\ ~HasContent'
    BY <1>1 DEF HasContent
  <1>3. ASSUME NEW v \in Views, Latest(v) PROVE Latest(v)'
    BY <1>1, <1>2, <1>3 DEF Latest
  <1>4. CASE channel' = channel
    BY <1>3, <1>4, QuietScreen
  <1>5. CASE channel' = Append(channel, [type |-> "error"])
    <2>1. PICK e \in Events : e = [type |-> "error"]
      BY DEF Events
    <2>2. ASSUME NEW v \in Views, NEW w \in Views, Sound(v), Latest(v), w = ShownOn(v, e)
          PROVE  Sound(w)' /\ Latest(w)'
      <3>1. w = v  BY <2>1, <2>2 DEF ShownOn
      <3>2. Sound(v)'  BY <2>2, SoundStays
      <3>3. Latest(v)'  BY <1>3, <2>2
      <3> QED  BY <3>1, <3>2, <3>3
    <2>3. channel' = Append(channel, e)  BY <1>5, <2>1
    <2> QED  BY <2>2, <2>3, EmitScreen
  <1>6. CASE channel' = Append(channel, [type |-> "waiting"]) /\ s.wasMissing
    <2>1. PICK e \in Events : e = [type |-> "waiting"]
      BY DEF Events
    <2>2. ASSUME NEW v \in Views, NEW w \in Views, Sound(v), Latest(v), w = ShownOn(v, e)
          PROVE  Sound(w)' /\ Latest(w)'
      <3>1. w = [text |-> << >>, banner |-> FALSE]  BY <2>1, <2>2 DEF ShownOn
      <3>2. w.text = << >> /\ Len(w.text) = 0  BY <3>1
      <3>3. Consecutive(w.text) /\ \A g : UpTo(w.text, g)  BY <3>2 DEF Consecutive, UpTo
      <3> QED  BY <1>1, <1>2, <1>6, <3>2, <3>3 DEF Sound, Latest
    <2>3. channel' = Append(channel, e)  BY <1>6, <2>1
    <2> QED  BY <2>2, <2>3, EmitScreen
  <1> QED  BY <1>4, <1>5, <1>6

LEMMA ReadFailsScreen == ASSUME State, Onward, Screen, ReadFails, UNCHANGED torn PROVE Screen'
  <1>0. sub \in Subs /\ UNCHANGED <<view, listening, log>>
    BY DEF State, Typed, ReadFails, screen
  <1>1. CASE sub.closed
    <2>1. Finish(sub) /\ channel' = channel  BY <1>1 DEF ReadFails
    <2> QED  BY <1>0, <2>1, NothingNew
  <1>2. CASE ~sub.closed
    <2> DEFINE s == ScheduleRetry(sub)
    <2>1. Finish(s) /\ channel' = Append(channel, [type |-> "error"])
      BY <1>2 DEF ReadFails, Emit
    <2>2. /\ s \in Subs /\ s.hasSnapshot = sub.hasSnapshot /\ s.offset = sub.offset
          /\ s.wasMissing = sub.wasMissing
      <3>1. FALSE \in BOOLEAN  OBVIOUS
      <3> QED  BY <1>0, <3>1, SchedulesKeep
    <2> HIDE DEF s
    <2> QED  BY <1>0, <2>1, <2>2, NothingNew
  <1> QED  BY <1>1, <1>2

LEMMA PieceEnds ==
    ASSUME NEW text \in Texts, NEW g \in Nat, NEW from \in Nat, Piece(text, g, from),
           text # << >>
    PROVE  /\ Len(text) \in Nat /\ Len(text) > 0
           /\ text[1][1] = g /\ text[1][2] = from + 1
           /\ text[Len(text)][1] = g /\ text[Len(text)][2] = from + Len(text)
  <1>1. Len(text) \in Nat /\ Len(text) > 0
    BY EmptySeq DEF Texts
  <1>2. text[1] = <<g, from + 1>> /\ text[Len(text)] = <<g, from + Len(text)>>
    BY <1>1 DEF Piece
  <1> QED  BY <1>1, <1>2

\* The view that an update makes.
LEMMA UpdateMakes ==
    ASSUME State, UNCHANGED <<torn, log>>, HasContent, Finish(Delivered(sub)),
           ~(EventType = "append" /\ update.content = << >> /\ update.size = sub.offset),
           NEW v \in Views, NEW w \in Views, Sound(v), Latest(v),
           NEW e \in Contents, e.type = EventType, e.content = update.content,
           e.truncated = update.reset, w = ShownOn(v, e)
    PROVE  Sound(w)' /\ Latest(w)'
  <1>0. /\ sync = "apply" /\ sub \in Subs /\ update \in Updates /\ log \in Logs /\ BegunOnce /\ Fetched
        /\ log.generation \in Nat
    BY DEF State, Typed, HasContent, Logs
  <1>1. /\ sub'.hasSnapshot /\ ~sub'.wasMissing /\ sub'.offset = update.size /\ sync' = "none"
    BY <1>0, FinishKeeps, DeliveredIs
  <1>2. sync' # "read" /\ ~HasContent' /\ log' = log /\ torn' = torn
    BY <1>1 DEF HasContent
  <1>3. CASE torn
    <2>1. ~(log.generation <= 1)  BY <1>0, <1>3 DEF BegunOnce
    <2> QED  BY <1>2, <1>3, <2>1 DEF Sound, Latest
  <1>4. CASE ~torn
    <2> DEFINE u == update.content
    <2>1. u \in Texts /\ update.size \in Nat /\ update.reset \in BOOLEAN /\ sub.offset \in Nat
      BY <1>0 DEF Updates, Subs
    <2>2. PICK g \in Nat, from \in Nat :
            /\ Piece(u, g, from)
            /\ g <= log.generation
            /\ from + Len(u) = update.size
            /\ ~update.reset => from = sub.offset
            /\ u = << >> => ~update.reset \/ update.size = 0
      BY <1>4 DEF State, Fetched
    <2>3. e.content = u  OBVIOUS
    <2>4. u = << >> => Len(u) = 0  OBVIOUS
    <2> HIDE DEF u
    <2>5. Consecutive(u) /\ UpTo(u, g)
      BY <2>1, <2>2, PieceConsecutive
    <2>6. u # << >> => /\ Len(u) \in Nat /\ Len(u) > 0
                       /\ u[1][1] = g /\ u[1][2] = from + 1
                       /\ u[Len(u)][1] = g /\ u[Len(u)][2] = update.size
      <3> SUFFICES ASSUME u # << >>
                   PROVE  /\ Len(u) \in Nat /\ Len(u) > 0
                          /\ u[1][1] = g /\ u[1][2] = from + 1
                          /\ u[Len(u)][1] = g /\ u[Len(u)][2] = update.size
        OBVIOUS
      <3>1. /\ Len(u) \in Nat /\ Len(u) > 0
            /\ u[1][1] = g /\ u[1][2] = from + 1
            /\ u[Len(u)][1] = g /\ u[Len(u)][2] = from + Len(u)
        BY <2>1, <2>2, PieceEnds
      <3> QED  BY <2>2, <3>1
    <2>7. UpTo(u, log.generation)
      <3> SUFFICES ASSUME NEW i \in 1..Len(u) PROVE u[i][1] <= log.generation
        BY DEF UpTo
      <3>1. u[i] = <<g, from + i>>  BY <2>2 DEF Piece
      <3>2. u[i][1] = g  BY <3>1
      <3> QED  BY <2>2, <3>2
    <2>8. CASE EventType # "append"
      <3>1. w.text = u /\ w.banner = update.reset
        <4>1. EventType \in {"snapshot", "reset", "append"}  BY DEF EventType
        <4>2. e.type \in {"snapshot", "reset"}  BY <2>8, <4>1
        <4> QED  BY <2>3, <4>2 DEF ShownOn
      <3>2. ~sub.hasSnapshot \/ update.reset \/ sub.wasMissing
        BY <2>8 DEF EventType
      <3>3. ASSUME log.generation <= 1, ~update.reset PROVE from = 0
        <4>1. ~sub.hasSnapshot
          BY <1>0, <3>2, <3>3 DEF BegunOnce, State, HasContent
        <4> QED  BY <1>0, <2>2, <3>3, <4>1 DEF BegunOnce
      <3>4. Sound(w)'
        <4>1. Consecutive(w.text) /\ UpTo(w.text, log.generation)  BY <2>5, <2>7, <3>1
        <4>2. log.generation <= 1 /\ w.text # << >> /\ ~w.banner => w.text[1][2] = 1
          BY <2>2, <2>6, <3>1, <3>3
        <4> QED  BY <1>2, <4>1, <4>2 DEF Sound
      <3>5. Latest(w)'
        <4>1. w.text # << >> => w.text[Len(w.text)][2] = update.size  BY <2>6, <3>1
        <4>2. ASSUME log.generation <= 1, w.text = << >> PROVE update.size = 0
          BY <2>2, <2>4, <3>1, <3>3, <4>2
        <4> QED  BY <1>1, <1>2, <4>1, <4>2 DEF Latest
      <3> QED  BY <3>4, <3>5
    <2>9. CASE EventType = "append"
      <3>1. w = [v EXCEPT !.text = v.text \o u]
        BY <2>3, <2>9 DEF ShownOn
      <3>2. v.text \in Texts /\ w.text = v.text \o u /\ w.banner = v.banner
        BY <3>1 DEF Views
      <3>3. sub.hasSnapshot /\ ~sub.wasMissing /\ ~update.reset
        BY <2>9 DEF EventType
      <3>4. from = sub.offset  BY <2>2, <3>3
      <3>5. u # << >>
        BY <2>1, <2>2, <2>3, <2>4, <2>9, <3>4
      <3>6. /\ v.text # << >> => v.text[Len(v.text)][2] = sub.offset
            /\ log.generation <= 1 /\ v.text = << >> => sub.offset = 0
            /\ UpTo(v.text, u[1][1])
        BY <1>4, <2>3, <3>3, <3>5 DEF Latest
      <3>7. Consecutive(v.text) /\ UpTo(v.text, log.generation)
        BY <1>4 DEF Sound
      <3>8. v.text # << >> => v.text[Len(v.text)][1] <= u[1][1]
        <4> SUFFICES ASSUME v.text # << >> PROVE v.text[Len(v.text)][1] <= u[1][1]
          OBVIOUS
        <4>1. Len(v.text) \in 1..Len(v.text)  BY <3>2, EmptySeq DEF Texts
        <4> QED  BY <3>6, <4>1 DEF UpTo
      <3>9. v.text # << >> => /\ u[1][2] = v.text[Len(v.text)][2] + 1
                              /\ u[1][1] >= v.text[Len(v.text)][1]
        <4> SUFFICES ASSUME v.text # << >>
                     PROVE  /\ u[1][2] = v.text[Len(v.text)][2] + 1
                            /\ u[1][1] >= v.text[Len(v.text)][1]
          OBVIOUS
        <4>1. Len(v.text) \in 1..Len(v.text)  BY <3>2, EmptySeq DEF Texts
        <4>2. v.text[Len(v.text)] \in Bytes  BY <3>2, <4>1, ElementOfSeq DEF Texts
        <4>3. v.text[Len(v.text)][1] \in Nat /\ u[1][1] \in Nat  BY <2>2, <2>6, <3>5, <4>2 DEF Bytes
        <4> QED  BY <2>6, <3>4, <3>5, <3>6, <3>8, <4>3
      <3>10. Consecutive(w.text)
        BY <2>1, <2>5, <3>2, <3>7, <3>9, JoinConsecutive
      <3>11. UpTo(w.text, log.generation)
        BY <1>0, <2>1, <2>7, <3>2, <3>7, JoinUpTo
      <3>12. /\ w.text # << >> /\ w.text[Len(w.text)] = u[Len(u)]
             /\ w.text[1] = IF v.text = << >> THEN u[1] ELSE v.text[1]
        <4> DEFINE a == v.text
        <4>1. a \in Texts  BY <3>2
        <4> HIDE DEF a
        <4>2. /\ a \o u # << >> /\ (a \o u)[Len(a \o u)] = u[Len(u)]
              /\ (a \o u)[1] = IF a = << >> THEN u[1] ELSE a[1]
          BY <2>1, <3>5, <4>1, JoinEnds
        <4> QED  BY <3>2, <4>2 DEF a
      <3>13. ASSUME log.generation <= 1, ~w.banner PROVE w.text[1][2] = 1
        <4>1. CASE v.text = << >>
          <5>1. u[1][2] = 0 + 1  BY <2>6, <3>4, <3>5, <3>6, <3>13, <4>1
          <5> QED  BY <3>12, <4>1, <5>1
        <4>2. CASE v.text # << >>
          <5>1. v.text[1][2] = 1  BY <3>2, <3>13, <4>2 DEF Sound
          <5> QED  BY <3>12, <4>2, <5>1
        <4> QED  BY <4>1, <4>2
      <3>14. Sound(w)'
        BY <1>2, <3>10, <3>11, <3>13 DEF Sound
      <3>15. Latest(w)'
        <4>1. w.text[Len(w.text)][2] = update.size  BY <2>6, <3>5, <3>12
        <4> QED  BY <1>1, <1>2, <3>12, <4>1 DEF Latest
      <3> QED  BY <3>14, <3>15
    <2> QED  BY <2>8, <2>9
  <1> QED  BY <1>3, <1>4

LEMMA ApplyScreen == ASSUME State, Onward, Screen, Apply, UNCHANGED torn PROVE Screen'
  <1>0. /\ sub \in Subs /\ sync = "apply" /\ UNCHANGED <<view, listening, log>>
    BY DEF State, Typed, Apply, screen, file
  <1>1. CASE ApplyClosed
    <2>1. Finish(sub) /\ channel' = channel  BY <1>1 DEF ApplyClosed
    <2> QED  BY <1>0, <2>1, NothingNew
  <1>2. CASE ApplyMissing
    <2> DEFINE m == [sub EXCEPT !.wasMissing = TRUE]
               s == ScheduleRetry(m)
    <2>1. /\ Finish(s)
          /\ channel' = channel \/ channel' = Append(channel, [type |-> "waiting"])
      BY <1>2 DEF ApplyMissing, Emit
    <2>2. m \in Subs /\ m.wasMissing
      BY <1>0 DEF Subs
    <2> HIDE DEF m
    <2>3. s \in Subs /\ s.wasMissing
      <3>1. FALSE \in BOOLEAN  OBVIOUS
      <3> QED  BY <2>2, <3>1, SchedulesKeep
    <2> HIDE DEF s
    <2> QED  BY <1>0, <2>1, <2>3, NothingNew
  <1>3. CASE ApplyUpdate
    <2>1. /\ ~sub.closed /\ update # Missing /\ Finish(Delivered(sub))
      BY <1>3 DEF ApplyUpdate
    <2>2. update \in Updates /\ HasContent
      BY <1>0, <2>1 DEF State, Typed, HasContent
    <2>3. CASE EventType = "append" /\ update.content = << >> /\ update.size = sub.offset
      <3>1. channel' = channel  BY <1>3, <2>3 DEF ApplyUpdate
      <3>2. sub.hasSnapshot /\ ~sub.wasMissing
        BY <2>3 DEF EventType
      <3>3. /\ sub'.hasSnapshot /\ ~sub'.wasMissing /\ sub'.offset = sub.offset /\ sync' = "none"
        BY <1>0, <2>1, <2>2, <2>3, FinishKeeps, DeliveredIs
      <3>4. sync' # "read" /\ ~HasContent'  BY <3>3 DEF HasContent
      <3>5. ASSUME NEW v \in Views, Latest(v) PROVE Latest(v)'
        BY <1>0, <3>2, <3>3, <3>4, <3>5 DEF Latest
      <3> QED  BY <1>0, <3>1, <3>5, QuietScreen
    <2>4. CASE ~(EventType = "append" /\ update.content = << >> /\ update.size = sub.offset)
      <3> DEFINE x == [type |-> EventType, content |-> update.content, truncated |-> update.reset]
      <3>1. channel' = Append(channel, x)
        BY <1>3, <2>1, <2>4 DEF ApplyUpdate, Emit
      <3>2. x \in Contents  BY <2>2 DEF Contents, Updates, EventType
      <3>3. PICK e \in Contents : e = x  BY <3>2
      <3>4. e.type = EventType /\ e.content = update.content /\ e.truncated = update.reset
        BY <3>3
      <3> HIDE DEF x
      <3>5. ASSUME NEW v \in Views, NEW w \in Views, Sound(v), Latest(v), w = ShownOn(v, e)
            PROVE  Sound(w)' /\ Latest(w)'
        BY <1>0, <2>1, <2>2, <2>4, <3>4, <3>5, UpdateMakes
      <3>6. channel' = Append(channel, e) /\ e \in Events  BY <3>1, <3>3 DEF Events
      <3> QED  BY <1>0, <3>5, <3>6, EmitScreen
    <2> QED  BY <2>3, <2>4
  <1> QED  BY <1>1, <1>2, <1>3 DEF Apply

(***************************************************************************)
(* Screen is an invariant.                                                 *)
(***************************************************************************)
LEMMA ScreenStep == ASSUME State, Screen, [MCNext]_mcvars PROVE Screen'
  <1>1. Onward  BY OnwardStep
  <1>2. CASE UNCHANGED mcvars
    <2>1. UNCHANGED <<sub, sync, handle, update, channel, listening, view>>
      BY <1>2 DEF mcvars, vars, reading, screen
    <2>2. Same(sub', sub)  BY <2>1 DEF Same
    <2>3. ASSUME NEW v \in Views, Latest(v) PROVE Latest(v)'
      BY <1>1, <2>1, <2>2, <2>3, LatestStays
    <2> QED  BY <1>1, <2>1, <2>3, QuietScreen
  <1>3. CASE OpenLog /\ MCNext
    BY <1>1, <1>3, OpenScreen, TornStays DEF OpenLog, file
  <1>4. CASE ReadLog /\ MCNext
    BY <1>1, <1>4, ReadScreen, TornStays DEF ReadLog, file
  <1>5. CASE Apply /\ MCNext
    BY <1>1, <1>5, ApplyScreen, TornStays DEF Apply, file
  <1>6. CASE ReadFails /\ MCNext
    BY <1>1, <1>6, ReadFailsScreen, TornStays DEF ReadFails
  <1>7. CASE HandleEvent
    BY <1>1, <1>7, HandleScreen
  <1>8. CASE \/ Writer \/ WatcherReady \/ WatcherNotices \/ WatcherError \/ RetryTimerFires
             \/ SyncTimerFires \/ Unwatch \/ Unsubscribe \/ ClearProjectRoot
    <2>1. /\ Same(sub', sub) /\ UNCHANGED <<handle, update>>
          /\ sync' = sync \/ (sync = "none" /\ sync' = "open")
      BY <1>1, <1>8, OutsideState
    <2>2. ASSUME NEW v \in Views, Latest(v) PROVE Latest(v)'
      BY <1>1, <2>1, <2>2, LatestStays
    <2>3. view' = view /\ (listening' => listening)
      BY <1>8 DEF Writer, Create, Append1, Remove, Truncate, Changes, WatcherReady, WatcherError,
           WatcherNotices, RetryTimerFires, SyncTimerFires, Unwatch, Unsubscribe, ClearProjectRoot,
           screen
    <2>4. CASE WatcherError
      <3>1. PICK e \in Events : e = [type |-> "error"]
        BY DEF Events
      <3>2. channel' = Append(channel, e) /\ UNCHANGED <<listening, view>>
        BY <2>4, <3>1 DEF WatcherError, Emit, screen
      <3>3. ASSUME NEW v \in Views, NEW w \in Views, Sound(v), Latest(v), w = ShownOn(v, e)
            PROVE  Sound(w)' /\ Latest(w)'
        <4>1. w = v  BY <3>1, <3>3 DEF ShownOn
        <4>2. Sound(v)'  BY <1>1, <3>3, SoundStays
        <4> QED  BY <2>2, <3>3, <4>1, <4>2
      <3> QED  BY <1>1, <3>2, <3>3, EmitScreen
    <2>5. CASE ~WatcherError
      <3>1. channel' = channel
        BY <1>8, <2>5 DEF Writer, Create, Append1, Remove, Truncate, Changes, WatcherReady,
             WatcherNotices, RetryTimerFires, SyncTimerFires, Unwatch, Unsubscribe, ClearProjectRoot,
             CloseSubscription
      <3> QED  BY <1>1, <2>2, <2>3, <3>1, QuietScreen
    <2> QED  BY <2>4, <2>5
  <1> QED
    BY <1>2, <1>3, <1>4, <1>5, <1>6, <1>7, <1>8 DEF MCNext, Next, Service

LEMMA ScreenInit == MCInit => Screen
  <1> SUFFICES ASSUME MCInit PROVE Screen
    OBVIOUS
  <1>1. /\ view.text = << >> /\ channel = << >> /\ ~sub.hasSnapshot /\ sync = "none"
        /\ view \in Views /\ Len(view.text) = 0 /\ Len(channel) = 0
    BY StateInit DEF MCInit, Init, State, Typed
  <1>2. Sound(view) /\ Latest(view)
    BY <1>1 DEF Sound, Latest, HasContent, Consecutive, UpTo
  <1> DEFINE s == [i \in 1..1 |-> view]
  <1>3. Len(channel) + 1 = 1  BY <1>1
  <1>4. Ahead(channel, view, s) /\ s[1] = view
    BY <1>1, <1>3 DEF Ahead
  <1>5. \A i \in 1..1 : s[i] = view
    OBVIOUS
  <1> HIDE DEF s
  <1> QED  BY <1>2, <1>3, <1>4, <1>5 DEF Screen

LEMMA ScreenInvariant == MCSpec => [](State /\ Screen)
  <1> QED  BY StateInit, StateStep, ScreenInit, ScreenStep, PTL DEF MCSpec

\* Unless the log was begun anew under a read, what the renderer shows is a run of
\* consecutive bytes of the file, in order, and no older text follows newer text, whatever
\* the order of the tool, the watcher, the timers, the reads and the messages.
THEOREM ViewsAreConsecutive == MCSpec => []ViewIsConsecutive
  <1>1. Screen => ViewIsConsecutive
    BY DEF Screen, Sound, Consecutive, ViewIsConsecutive
  <1> QED  BY <1>1, ScreenInvariant, PTL

\* As long as the log was begun only once, a view without the banner begins with
\* the first byte of the file.
THEOREM BannerAlwaysTells == MCSpec => []BannerTells
  <1>1. Screen => BannerTells
    BY DEF Screen, Sound, BannerTells
  <1> QED  BY <1>1, ScreenInvariant, PTL
==============================================================================
