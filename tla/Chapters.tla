------------------------------ MODULE Chapters ------------------------------
(***************************************************************************)
(* The match video's chapters (internal/server/chapters.go): each poll of    *)
(* /live notes the wickets it sees fall, and the start of an innings, in the *)
(* database; when the stream has been off for a while, or at the panel's     *)
(* button, they are written into the description of the video that holds    *)
(* most of them.                                                           *)
(*                                                                         *)
(* Time is in units of Gap seconds at most.  Fifties and five-fors are noted *)
(* as wickets are, and left out; so are the words of a description.          *)
(***************************************************************************)
EXTENDS Integers, Sequences, SequencesExt

CONSTANTS
    Lead, Gap,     \* chapterLead, chapterGap
    Writers,       \* who writes chapters: the timer, the panel
    Horizon,       \* bound on now
    MaxWickets,    \* bound on the wickets of an innings
    MaxVideos,     \* bound on the broadcasts
    MaxTroubles    \* bound on corrections, failed writes and restarts

VARIABLES
    now,
    innings, started, wickets,   \* the frame: its innings, a ball bowled in it, wickets
    prev,       \* momentsPrev
    moments,    \* the table, in its order: [key, ts]
    videos,     \* the broadcasts: [start, end], end 0 while it is live
    written,    \* the chapters in each one's description, with the end they were made for, and
                \* (history) whether some that stood there had been made for an end
    writer,     \* each AddChaptersToYouTube: what it is about to put, and where
    due,        \* a timer of streamEnded is running
    troubles

frame == <<innings, started, wickets>>
log == <<prev, moments>>
youtube == <<videos, written>>
vars == <<now, frame, log, youtube, writer, due, troubles>>

Nothing == [set |-> FALSE, innings |-> 1, started |-> FALSE, wickets |-> 0]
Idle == [video |-> 0, lines |-> <<>>, end |-> 0]
NoChapters == [lines |-> <<>>, end |-> 0, known |-> FALSE]

Init ==
    /\ now = 1 /\ innings = 1 /\ started = FALSE /\ wickets = 0
    /\ prev = Nothing /\ moments = <<>>
    /\ videos = <<>> /\ written = <<>>
    /\ writer = [w \in Writers |-> Idle] /\ due = FALSE /\ troubles = 0

Larger(a, b) == IF a < b THEN b ELSE a
Trouble == troubles < MaxTroubles /\ troubles' = troubles + 1

-----------------------------------------------------------------------------
(* The match, as the scorer enters it.                                        *)

Tick ==
    /\ now < Horizon /\ now' = now + 1
    /\ UNCHANGED <<frame, log, youtube, writer, due, troubles>>

Play(in, out) ==
    /\ started' = TRUE /\ wickets' = wickets + out /\ innings' = in
    /\ UNCHANGED <<now, log, youtube, writer, due>>

Bowl == ~started /\ Play(innings, 0) /\ UNCHANGED troubles
WicketFalls == wickets < MaxWickets /\ Play(innings, 1) /\ UNCHANGED troubles
Correct == wickets > 0 /\ Trouble /\ Play(innings, -1)

Turn ==
    /\ innings = 1 /\ started /\ innings' = 2 /\ started' = FALSE /\ wickets' = 0
    /\ UNCHANGED <<now, log, youtube, writer, due, troubles>>

-----------------------------------------------------------------------------
(* LogMoments.  Its memory moves on whether or not the rows are written, and   *)
(* a key already there keeps its row.                                         *)

Fresh == ~prev.set \/ prev.innings # innings
Before == IF Fresh THEN [Nothing EXCEPT !.set = TRUE, !.innings = innings] ELSE prev

\* How many wickets fell since the frame before; a first frame has none before it.
Fallen == IF Fresh THEN 0 ELSE Larger(0, wickets - prev.wickets)

Keys ==
    (IF started /\ ~Before.started THEN <<<<innings, 0>>>> ELSE <<>>)
    \o [i \in 1..Fallen |-> <<innings, prev.wickets + i>>]

Known == {moments[i].key : i \in DOMAIN moments}
Rows == LET keys == Keys IN [i \in DOMAIN keys |-> [key |-> keys[i], ts |-> now]]

\* Mutant: a key already there is written again.
NewRowsReplacing == Rows

NewRows == SelectSeq(Rows, LAMBDA r : r.key \notin Known)

Poll ==
    /\ prev' = [Before EXCEPT !.started = @ \/ started, !.wickets = wickets]
    /\ \/ moments' = moments \o NewRows /\ UNCHANGED troubles
       \/ Keys # <<>> /\ Trouble /\ UNCHANGED moments
    /\ UNCHANGED <<now, frame, youtube, writer, due>>

Restart ==
    /\ prev.set /\ Trouble /\ prev' = Nothing /\ due' = FALSE
    /\ writer' = [w \in Writers |-> Idle]
    /\ UNCHANGED <<now, frame, moments, youtube>>

-----------------------------------------------------------------------------
(* matchVideo and BuildChapters.                                              *)

Ended(v) == v.end # 0
During(m, v) == m.ts >= v.start /\ (Ended(v) => m.ts <= v.end)
Holds(v) == Cardinality({i \in DOMAIN moments : During(moments[i], v)})

\* Of two that hold as many, the one YouTube lists first.
MatchVideos ==
    LET held == [k \in DOMAIN videos |-> Holds(videos[k])]
    IN {k \in DOMAIN videos : held[k] # 0 /\ \A j \in DOMAIN videos : held[j] <= held[k]}

\* Not before its turn: close moments stay in order, a gap apart.
Spaced(at, last) == Larger(at, last + Gap)

\* Mutant: only what comes after the end is left out.
LineToTheEnd(lines, m, v) ==
    IF Ended(v) /\ m.ts > v.end THEN lines
    ELSE Append(lines, [at |-> Spaced(m.ts - v.start - Lead, lines[Len(lines)].at), of |-> m.key])

Line(lines, m, v) ==
    LET at == Spaced(m.ts - v.start - Lead, lines[Len(lines)].at)
    IN IF Ended(v) /\ (m.ts > v.end \/ at > v.end - v.start - Gap)
       THEN lines
       ELSE Append(lines, [at |-> at, of |-> m.key])

Start == [at |-> 0, of |-> <<0, 0>>]
BuildChapters(v) ==
    LET upTo[n \in 0..Len(moments)] ==
            IF n = 0 THEN <<Start>> ELSE Line(upTo[n - 1], moments[n], v)
    IN upTo[Len(moments)]

-----------------------------------------------------------------------------
(* AddChaptersToYouTube: what is read, and then put.                          *)

Enough(k) == Len(moments) >= 2 /\ Len(BuildChapters(videos[k])) >= 3

Read(w) ==
    /\ writer[w] = Idle
    /\ \E k \in MatchVideos :
          /\ Enough(k)
          /\ writer' = [writer EXCEPT ![w] = [video |-> k, lines |-> BuildChapters(videos[k]),
                                             end |-> videos[k].end]]

AskAtThePanel ==
    /\ Read("panel")
    /\ UNCHANGED <<now, frame, log, youtube, due, troubles>>

Put(w) ==
    /\ writer[w] # Idle /\ writer' = [writer EXCEPT ![w] = Idle]
    /\ written' = [written EXCEPT ![writer[w].video] =
                      [lines |-> writer[w].lines, end |-> writer[w].end,
                       known |-> @.known \/ writer[w].end # 0]]
    /\ UNCHANGED <<now, frame, log, videos, due, troubles>>

-----------------------------------------------------------------------------
(* The stream, and the timer its end starts.                                  *)

Live == videos # <<>> /\ ~Ended(videos[Len(videos)])

GoLive ==
    /\ ~Live /\ Len(videos) < MaxVideos
    /\ videos' = Append(videos, [start |-> now, end |-> 0])
    /\ written' = Append(written, NoChapters)
    /\ UNCHANGED <<now, frame, log, writer, due, troubles>>

StreamEnds ==
    /\ Live /\ now > videos[Len(videos)].start
    /\ videos' = [videos EXCEPT ![Len(videos)].end = now] /\ due' = TRUE
    /\ UNCHANGED <<now, frame, log, written, writer, troubles>>

\* chaptersAfterStreamEnd: only if the stream is still off.
TimerFires ==
    /\ due /\ due' = FALSE
    /\ \/ ~Live /\ Read("timer")
       \/ (Live \/ writer["timer"] # Idle \/ MatchVideos = {}
           \/ \E k \in MatchVideos : ~Enough(k))
          /\ UNCHANGED writer
    /\ UNCHANGED <<now, frame, log, youtube, troubles>>

Next ==
    \/ Tick \/ Bowl \/ WicketFalls \/ Correct \/ Turn \/ Poll \/ Restart
    \/ AskAtThePanel \/ TimerFires \/ \E w \in Writers : Put(w)
    \/ GoLive \/ StreamEnds

Spec == Init /\ [][Next]_vars

-----------------------------------------------------------------------------
\* Chapters made before the broadcast ended have replaced ones made for its end: a press at the
\* panel read the video while it was live, and its answer to YouTube came after the timer's.
Overtaken(k) == written[k].known /\ written[k].end = 0

\* What stands in a description is what YouTube shows as chapters: three at least, the first at
\* 0:00, none shorter than the gap, and no moment twice.  The last one, too, is no shorter than
\* the gap, from the first writer that knew the video's end on, whatever was written into it while
\* it was live and however often it is written again; but for a press that is overtaken, after
\* which it may be, until somebody presses once more.
ChaptersFit ==
    \A k \in DOMAIN written :
        LET lines == written[k].lines
        IN lines # <<>> =>
              /\ Len(lines) >= 3 /\ lines[1].at = 0
              /\ \A i, j \in DOMAIN lines : lines[i].of = lines[j].of => i = j
              /\ \A i \in 2..Len(lines) : lines[i].at >= lines[i - 1].at + Gap
              /\ written[k].known /\ ~Overtaken(k) =>
                    lines[Len(lines)].at + Gap <= videos[k].end - videos[k].start
=============================================================================
