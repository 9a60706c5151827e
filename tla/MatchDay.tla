------------------------------ MODULE MatchDay ------------------------------
(***************************************************************************)
(* The streaming laptop's window and the match day it runs (internal/app),   *)
(* with the clubhouse screen that may start it, stop it and switch the       *)
(* laptop off from afar (internal/clubhouse/link.go, power.go).              *)
(*                                                                         *)
(* The launcher is its stages as the window can tell them apart: its own     *)
(* loop around the server is the module Supervisor, the window's questions   *)
(* the module Asker.  Of the roles only the streaming laptop's is modelled.  *)
(***************************************************************************)
EXTENDS Naturals

CONSTANTS
    StopButtons,      \* the Stop buttons that may be pressed
    MaxDays,    \* bound: match days of one evening
    MaxSaves    \* bound: saves of the setup page

VARIABLES
    phase,      \* "home", "starting", "running", "stopped" or "already"
    launcher,   \* its stage: "off", "preparing", "waiting" for the server, "up", "opened",
                \* "serving" (it listens to interrupt) or "leaving"
    interrupt,  \* what the channel, with room for one, holds
    abandoned,
    window,     \* "open", "closed" (done), "finishing" or "exited"
    stopper,    \* each stopThenClose: "idle", "waiting", "closing OBS" or "over"
    wants,      \* and what it was asked: [app, obs]
    saving,     \* a save of the setup page has passed its check of the phase
    obs,        \* "closed", "open" or "streaming"
    power,      \* "on", "counting" down or "off"
    switching,  \* /poweroff has found the laptop ready
    days, saves,
    heard       \* history: nobody has asked this match day to stop, or its loop has heard

launch == <<launcher, interrupt, days>>
stops == <<stopper, wants>>
machine == <<obs, power, switching>>
setup == <<saving, saves>>
matchDay == <<phase, launch, abandoned, window, stops, setup, machine, heard>>

On == launcher # "off"
Alive == window # "exited" /\ power # "off"

DayInit ==
    /\ phase = "home" /\ launcher = "off" /\ interrupt = FALSE /\ abandoned = FALSE
    /\ window = "open"
    /\ stopper = [s \in StopButtons |-> "idle"]
    /\ wants = [s \in StopButtons |-> [app |-> FALSE, obs |-> FALSE]]
    /\ saving = FALSE /\ saves = 0
    /\ obs = "closed" /\ power = "on" /\ switching = FALSE
    /\ days = 0 /\ heard = TRUE

-----------------------------------------------------------------------------
(* startMatchDay, and the launcher's way through the day.                     *)

StartMatchDay ==
    /\ Alive /\ ~On /\ phase \in {"home", "stopped"} /\ days < MaxDays
    /\ launcher' = "preparing" /\ phase' = "starting" /\ days' = days + 1
    /\ interrupt' = FALSE /\ heard' = TRUE
    /\ UNCHANGED <<abandoned, window, stops, setup, obs, switching>>

PressStart == power # "off" /\ StartMatchDay /\ UNCHANGED power

Stage(from, to) ==
    /\ Alive /\ launcher = from /\ launcher' = to
    /\ UNCHANGED <<days, abandoned, window, stops, setup, power, switching>>

\* obs.Prepare opens OBS before the server is started.
Prepare ==
    /\ Stage("preparing", "waiting") /\ obs' \in {obs, IF obs = "closed" THEN "open" ELSE obs}
    /\ UNCHANGED <<phase, interrupt, heard>>

\* The server would not start, or nothing could be written: the process ends.
Die ==
    /\ Alive /\ launcher = "preparing" /\ window' = "exited" /\ launcher' = "off"
    /\ UNCHANGED <<phase, interrupt, days, abandoned, stops, setup, machine, heard>>

\* Another copy's server holds the port: its panel is opened, and a question waits.
AnotherCopy ==
    /\ Stage("preparing", "leaving") /\ phase' = "running"
    /\ UNCHANGED <<interrupt, obs, heard>>

ServerAnswers == Stage("waiting", "up") /\ UNCHANGED <<phase, interrupt, obs, heard>>

PanelReady ==
    /\ Stage("up", "opened") /\ phase' = "running"
    /\ UNCHANGED <<interrupt, obs, heard>>

Listen == Stage("opened", "serving") /\ UNCHANGED <<phase, interrupt, obs, heard>>

\* WaitForServer gave up: nobody opens the panel, the loop is entered as it is.
NoAnswerInTime == Stage("waiting", "serving") /\ UNCHANGED <<phase, interrupt, obs, heard>>

Hear ==
    /\ Stage("serving", "leaving") /\ interrupt /\ interrupt' = FALSE /\ heard' = TRUE
    /\ UNCHANGED <<phase, obs>>

End ==
    /\ Stage("leaving", "off") /\ phase' = "stopped"
    /\ UNCHANGED <<interrupt, obs, heard>>

-----------------------------------------------------------------------------
(* stop, quit and finish.                                                     *)

\* Mutant: the interrupt is given only to a loop that is there to take it.
KeepsUnbuffered == launcher = "serving"

Keeps == TRUE

Abandons == On /\ phase = "starting"

\* What stop() does to the day; a window that quits goes to "closed".
StopDay ==
    IF Abandons
    THEN abandoned' = TRUE /\ UNCHANGED <<interrupt, heard>>
    ELSE /\ interrupt' = (interrupt \/ (On /\ Keeps))
         /\ heard' = (heard /\ ~(On /\ launcher # "leaving"))
         /\ UNCHANGED abandoned

Quits == IF window = "open" THEN "closed" ELSE window

\* A Stop: its goroutine calls stop() first of all.
PressStop(s, app, withOBS) ==
    /\ Alive /\ window = "open" /\ stopper[s] = "idle"
    /\ stopper' = [stopper EXCEPT ![s] = "waiting"]
    /\ wants' = [wants EXCEPT ![s] = [app |-> app, obs |-> withOBS]]
    /\ StopDay
    /\ window' = IF Abandons THEN Quits ELSE window
    /\ UNCHANGED <<phase, launcher, days, setup, machine>>

\* One look at the phase, every 300 ms.
SeeItOver(s) ==
    /\ Alive /\ stopper[s] = "waiting" /\ phase \notin {"starting", "running"}
    /\ stopper' = [stopper EXCEPT ![s] = "closing OBS"]
    /\ UNCHANGED <<phase, launch, abandoned, window, wants, setup, machine, heard>>

GoneMeanwhile(s) ==
    /\ stopper[s] = "waiting" /\ window # "open" /\ phase \in {"starting", "running"}
    /\ stopper' = [stopper EXCEPT ![s] = "over"]
    /\ UNCHANGED <<phase, launch, abandoned, window, wants, setup, machine, heard>>

\* obs.Finish closes an OBS that is not on air.
FinishOBS(ok) ==
    \/ ok /\ obs # "streaming" /\ obs' = "closed"
    \/ ~ok /\ obs # "closed" /\ UNCHANGED obs

CloseUp(s) ==
    /\ Alive /\ stopper[s] = "closing OBS" /\ stopper' = [stopper EXCEPT ![s] = "over"]
    /\ \E ok \in BOOLEAN :
          /\ IF wants[s].obs THEN FinishOBS(ok) ELSE ok /\ UNCHANGED obs
          /\ window' = IF wants[s].app /\ ok THEN Quits ELSE window
    /\ UNCHANGED <<phase, launch, abandoned, wants, setup, power, switching, heard>>

\* The page's Close, and the window's own when nothing is running: a match day under a phase
\* that does not say so is told to stop.
CloseWindow ==
    /\ Alive /\ window = "open" /\ phase \notin {"starting", "running"}
    /\ window' = "closed" /\ StopDay
    /\ UNCHANGED <<phase, launcher, days, stops, setup, machine>>

\* The window is gone: stop once more, then wait.
Finish ==
    /\ Alive /\ window = "closed" /\ window' = "finishing" /\ StopDay
    /\ UNCHANGED <<phase, launcher, days, stops, setup, machine>>

\* The end of the launcher, or the 20 s there are for it.
Exit(inTime) ==
    /\ Alive /\ window = "finishing" /\ (inTime => abandoned \/ ~On)
    /\ window' = "exited" /\ launcher' = "off"
    /\ UNCHANGED <<phase, interrupt, days, abandoned, stops, setup, machine, heard>>

-----------------------------------------------------------------------------
(* The setup page: its check of the phase, and enterRole once it is saved.     *)

BeginSave ==
    /\ Alive /\ window = "open" /\ phase \notin {"starting", "running"} /\ ~saving
    /\ saves < MaxSaves /\ saving' = TRUE /\ saves' = saves + 1
    /\ UNCHANGED <<phase, launch, abandoned, window, stops, machine, heard>>

EnterRole ==
    /\ Alive /\ saving /\ saving' = FALSE
    /\ phase' = IF launcher \in {"up", "opened", "serving", "leaving"} THEN "already" ELSE "home"
    /\ UNCHANGED <<saves, launch, abandoned, window, stops, machine, heard>>

-----------------------------------------------------------------------------
(* The clubhouse screen, and the laptop's power.                              *)

ScreenStart == window = "open" /\ power # "off" /\ StartMatchDay /\ power' = "on"

\* An answer of the screen's Stop: while starting it is refused.
ScreenStop(s, withOBS) == phase = "running" /\ PressStop(s, FALSE, withOBS)

Ready ==
    /\ Alive /\ window = "open" /\ ~switching /\ phase \notin {"starting", "running"}
    /\ \/ obs = "closed" /\ UNCHANGED obs
       \/ FinishOBS(TRUE)
    /\ switching' = TRUE
    /\ UNCHANGED <<phase, launch, abandoned, window, stops, setup, power, heard>>

PowerOff ==
    /\ Alive /\ switching /\ switching' = FALSE /\ power' = "counting"
    /\ UNCHANGED <<phase, launch, abandoned, window, stops, setup, obs, heard>>

KeepItOn ==
    /\ Alive /\ window = "open" /\ power = "counting" /\ power' = "on"
    /\ UNCHANGED <<phase, launch, abandoned, window, stops, setup, obs, switching, heard>>

SwitchesOff ==
    /\ power = "counting" /\ power' = "off"
    /\ UNCHANGED <<phase, launch, abandoned, window, stops, setup, obs, switching, heard>>

\* People at OBS itself.
UseOBS ==
    /\ Alive /\ obs' \in {"closed", "open", "streaming"} \ {obs}
    /\ UNCHANGED <<phase, launch, abandoned, window, stops, setup, power, switching, heard>>

-----------------------------------------------------------------------------
Launcher ==
    Prepare \/ Die \/ AnotherCopy \/ ServerAnswers \/ PanelReady
    \/ Listen \/ NoAnswerInTime \/ Hear \/ End

Window ==
    \/ \E s \in StopButtons :
          \/ \E app, withOBS \in BOOLEAN : PressStop(s, app, withOBS)
          \/ SeeItOver(s) \/ GoneMeanwhile(s) \/ CloseUp(s)
    \/ CloseWindow \/ Finish \/ \E inTime \in BOOLEAN : Exit(inTime)
    \/ PressStart \/ BeginSave \/ EnterRole

Screen ==
    \/ ScreenStart \/ \E s \in StopButtons, withOBS \in BOOLEAN : ScreenStop(s, withOBS)
    \/ Ready \/ PowerOff \/ KeepItOn

DayNext == Launcher \/ Window \/ Screen \/ SwitchesOff \/ UseOBS

DaySpec == DayInit /\ [][DayNext]_matchDay

-----------------------------------------------------------------------------
\* What match day's loop has been told is what was asked of this match day: a stop pressed
\* before the loop listens is kept for it, and none is left over from another day.
StopsAreForToday ==
    launcher \notin {"off", "leaving"} => (interrupt <=> ~heard)

\* "the launcher getting OBS, the match and the server ready" (app.go:52) is over once the
\* launcher is in its loop; only then can match day be stopped without closing the window.
GettingReadyEnds == launcher = "serving" => phase # "starting"

\* "The screen may switch this laptop off when match day is over" (CLUBHOUSE_SCREEN.md:49).
OnForMatchDay == power = "off" => ~(phase = "running" /\ launcher = "serving")
=============================================================================
