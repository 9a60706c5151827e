------------------------------ MODULE BreakShow ------------------------------
(***************************************************************************)
(* Whether there is a break: the server's word (breakshow.go), which plays    *)
(* replays over the picture while it lasts, and the overlay's                  *)
(* (overlay.html), which finds drinks and the innings break and is to end any  *)
(* break at the first ball after.  They tell each other by POST and by the     *)
(* commands the overlay fetches every three seconds (commentary.go).           *)
(*                                                                         *)
(* The reel itself is in OnAir.                                              *)
(***************************************************************************)
EXTENDS Naturals, Sequences

CONSTANTS
    InningsBalls,      \* bound on the balls of an innings: all of them
    DrinksAt,          \* the balls of drinks_over
    MaxBreakPresses,   \* bound on the panel's presses
    MaxBreakFaults,    \* bound on the faults
    BreakFaults        \* of "restart", "reload", "lost", "hasty"

VARIABLES
    frame,             \* the scorer's: [innings, balls]
    breakOn,           \* breakNow.active
    began,             \* history: the frame when it came on, or none
    command,           \* the commands the overlay has yet to fetch: a subset of {"break", "break_end"}
    seenAt,            \* _breakAt: the overlay's last frame, or none since it loaded
    breakShown,        \* _break: the frame it began at, or none
    timer,             \* _breakTimer runs, and will tell the server
    had,               \* _drinksDone, and _inningsBreakDone as "innings"
    posts,             \* the overlay's POSTs on their way
    breakPresses, breakFaults

overlay == <<seenAt, breakShown, timer, had>>
breaks == <<frame, breakOn, began, command, overlay, posts, breakPresses, breakFaults>>

None == [innings |-> 0, balls |-> 0]

BreakInit ==
    /\ frame = [innings |-> 1, balls |-> 0] /\ breakOn = FALSE /\ began = None /\ command = {}
    /\ seenAt = None /\ breakShown = None /\ timer = FALSE /\ had = {}
    /\ posts = <<>> /\ breakPresses = 0 /\ breakFaults = 0

BreakFault(f) ==
    f \in BreakFaults /\ breakFaults < MaxBreakFaults /\ breakFaults' = breakFaults + 1

-----------------------------------------------------------------------------
(* The match.                                                                 *)

Scores(f) ==
    frame' = f /\ UNCHANGED <<breakOn, began, command, overlay, posts, breakPresses, breakFaults>>

BallBowled == frame.balls < InningsBalls /\ Scores([frame EXCEPT !.balls = @ + 1])
Undo == frame.balls > 0 /\ Scores([frame EXCEPT !.balls = @ - 1])
Turn == frame.innings = 1 /\ frame.balls > 0 /\ Scores([innings |-> 2, balls |-> 0])

-----------------------------------------------------------------------------
(* The server.                                                                *)

\* A start within three seconds of an end finds the end's command still there.
StartBreak ==
    /\ breakOn' = TRUE /\ began' = (IF breakOn THEN began ELSE frame)
    /\ command' = command \cup {"break"}
    /\ IF "break_end" \in command THEN BreakFault("hasty") ELSE UNCHANGED breakFaults

EndBreak == breakOn' = FALSE /\ began' = None /\ command' = command \cup {"break_end"}

PressStart ==
    /\ breakPresses < MaxBreakPresses /\ breakPresses' = breakPresses + 1
    /\ StartBreak
    /\ UNCHANGED <<frame, overlay, posts>>

PressEnd ==
    /\ breakPresses < MaxBreakPresses /\ breakPresses' = breakPresses + 1
    /\ EndBreak
    /\ UNCHANGED <<frame, overlay, posts, breakFaults>>

Arrive ==
    /\ posts # <<>> /\ posts' = Tail(posts)
    /\ \/ Head(posts) = "start" /\ StartBreak
       \/ Head(posts) = "end" /\ EndBreak /\ UNCHANGED breakFaults
       \/ BreakFault("lost") /\ UNCHANGED <<breakOn, began, command>>
    /\ UNCHANGED <<frame, overlay, breakPresses>>

Restart ==
    /\ BreakFault("restart") /\ breakOn' = FALSE /\ began' = None /\ command' = {}
    /\ UNCHANGED <<frame, overlay, posts, breakPresses>>

-----------------------------------------------------------------------------
(* The overlay.                                                               *)

\* Begins, or only renames; the server is told after the over's graphics.
BreakBegins(tell) ==
    IF breakShown # None THEN UNCHANGED <<breakShown, timer>>
    ELSE /\ breakShown' = (IF seenAt = None THEN [innings |-> 1, balls |-> 0] ELSE seenAt)
         /\ timer' = tell

End == breakShown' = None /\ timer' = FALSE

\* Mutant: the server is not told of an end the overlay found.
EndUntold == End /\ UNCHANGED posts

EndTold == End /\ posts' = Append(posts, "end")

\* A ball in the same innings, or the next innings under way.
After(f, g) == \/ f.innings = g.innings /\ f.balls > g.balls
               \/ f.innings > g.innings /\ f.balls > 0
PlayAgain == After(frame, breakShown)

Drinks == IF frame.innings = 1 THEN "drinks 1" ELSE "drinks 2"

\* updateBreak, on a frame of /live.
Poll ==
    /\ seenAt' = frame
    /\ \/ /\ breakShown # None /\ PlayAgain /\ EndTold /\ UNCHANGED had
       \/ /\ breakShown # None /\ ~PlayAgain /\ UNCHANGED <<breakShown, timer, had, posts>>
       \/ /\ breakShown = None /\ UNCHANGED posts
          /\ LET innings == frame.innings = 1 /\ "innings" \notin had /\ frame.balls = InningsBalls
                 drinks == ~innings /\ frame.balls = DrinksAt /\ Drinks \notin had
             IN IF innings \/ drinks
                THEN /\ had' = had \cup {IF innings THEN "innings" ELSE Drinks}
                     /\ breakShown' = frame /\ timer' = TRUE
                ELSE UNCHANGED <<had, breakShown, timer>>
    /\ UNCHANGED <<frame, breakOn, began, command, breakPresses, breakFaults>>

\* Seven seconds after the break began, or more: the commands of before have been fetched.
TimerFires ==
    /\ timer /\ command = {} /\ timer' = FALSE /\ posts' = Append(posts, "start")
    /\ UNCHANGED <<frame, breakOn, began, command, seenAt, breakShown, had, breakPresses, breakFaults>>

\* pollCommands: both may be there, in whatever order they were given.
FetchCommands ==
    /\ command # {} /\ command' = {}
    /\ IF "break_end" \in command THEN End
       ELSE BreakBegins(FALSE)
    /\ UNCHANGED <<frame, breakOn, began, seenAt, had, posts, breakPresses, breakFaults>>

\* OBS is opened again, or the overlay's watch has it load afresh.
Reload ==
    /\ BreakFault("reload") /\ seenAt' = None /\ breakShown' = None /\ timer' = FALSE /\ had' = {}
    /\ UNCHANGED <<frame, breakOn, began, command, posts, breakPresses>>

BreakNext ==
    \/ BallBowled \/ Undo \/ Turn \/ PressStart \/ PressEnd \/ Arrive \/ Restart
    \/ Poll \/ TimerFires \/ FetchCommands \/ Reload

BreakSpec == BreakInit /\ [][BreakNext]_breaks

-----------------------------------------------------------------------------
\* "it ends the break at the first ball after" (breakshow.go:5-6), "it ends at the next ball"
\* (control.html:3368): when the overlay has seen a ball bowled since, the break is over; or
\* it has sent word of its end, or was told of the break since and ends it at the ball after.
EndsWithPlay ==
    (breakOn /\ After(seenAt, began)) =>
        \/ breakShown # None \/ "break" \in command
        \/ \E i \in DOMAIN posts : posts[i] = "end"
=============================================================================
