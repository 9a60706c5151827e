------------------------------- MODULE OBSReady ------------------------------
(***************************************************************************)
(* Getting OBS ready for a match: Prepare edits OBS's own files while it is   *)
(* closed and opens it (prep.go), Setup builds the scenes over its WebSocket  *)
(* (setup.go), and after the match its update check is put back (the guard's   *)
(* tick, finish.go, the launcher's end).                                     *)
(*                                                                         *)
(* OBS reads its files when it opens and writes them back when it closes:     *)
(* what is edited in between is lost.  People open and close it, it crashes,  *)
(* and the laptop loses power, between any two steps.                        *)
(***************************************************************************)
EXTENDS Naturals

CONSTANTS
    MaxReadyPresses,   \* bound on what people do
    MaxReadyFaults     \* bound on crashes, power cuts and refusals

VARIABLES
    obsNow,       \* [proc, by, mem: its settings, built: it has a buffer to start, buffer, live,
                  \*  dialled: Setup has its connection to it]
    obsFiles,     \* its files
    sentinel,     \* its marker of a run that has not ended well
    paused,       \* .cricketstream-updates-paused: what the check was, or "none"
    confPw,       \* config.ini's obs_password
    serverPw,     \* the server's copy of it
    managed,      \* config.ini's manage_obs: off, the club sets OBS up by hand
    readying,     \* the job: [at: the next step, by, ready: Prepare's answer, again: OBS was restarted,
                  \*  hampered: OBS went, refused the buffer or would not close under it (history)]
    putBack,      \* the update check being put back: [at, was]
    choice,       \* what the club has chosen for the check
    raced,        \* OBS was opened, or a job begun, in the middle of an edit of its files
    readyPresses, readyFaults

passwords == <<confPw, serverPw>>
readyBounds == <<readyPresses, readyFaults>>
obsReady == <<obsNow, obsFiles, sentinel, paused, passwords, managed, readying, putBack, choice, raced, readyBounds>>

\* check: EnableAutoUpdates.  ws: the WebSocket server is on, with password pw.
\* rb: the replay buffer is switched on in the profile.
New == [profile |-> FALSE, check |-> "unset", ws |-> FALSE, pw |-> "none", rb |-> FALSE,
        scenes |-> FALSE]
InUse == [profile : {TRUE}, check : {"true", "false"}, ws : BOOLEAN, pw : {"theirs"}, rb : {FALSE},
          scenes : {FALSE}]
NotOpen == [proc |-> "off", by |-> "nobody", mem |-> New, built |-> FALSE,
            buffer |-> FALSE, live |-> FALSE, dialled |-> FALSE]
NoJob == [at |-> "no", by |-> "nobody", ready |-> FALSE, again |-> FALSE, hampered |-> FALSE]
Resting == [at |-> "no", was |-> "none"]

ReadyInit ==
    /\ obsNow = NotOpen /\ obsFiles \in {New} \union InUse
    /\ sentinel \in BOOLEAN /\ paused = "none" /\ managed \in BOOLEAN
    /\ confPw = IF managed THEN "none" ELSE obsFiles.pw
    /\ serverPw = confPw /\ (managed \/ obsFiles.ws)
    /\ readying = NoJob /\ putBack = Resting /\ choice = obsFiles.check /\ raced = FALSE
    /\ readyPresses = 0 /\ readyFaults = 0

ReadyPressed == readyPresses < MaxReadyPresses /\ readyPresses' = readyPresses + 1
Accident == readyFaults < MaxReadyFaults /\ readyFaults' = readyFaults + 1
StepsTo(step) == readying' = [readying EXCEPT !.at = step]

Answering == obsNow.proc = "on" /\ obsNow.mem.ws

-----------------------------------------------------------------------------
(* Prepare, of an OBS that is managed; the others are only set up.              *)

BeginJob ==
    /\ readying.at = "no" /\ ReadyPressed
    /\ \E who \in {"launcher", "panel"} :
           readying' = [NoJob EXCEPT !.at = IF managed THEN "look" ELSE "setup", !.by = who]
    /\ raced' = (raced \/ putBack # Resting)
    /\ UNCHANGED <<obsNow, obsFiles, sentinel, paused, passwords, putBack, choice, readyFaults>>

Prepared(ok) ==
    readying' = [readying EXCEPT !.at = IF readying.again THEN "setup" ELSE "copy", !.ready = ok]

\* OBS is open: its file says whether it can be reached, and its port has to answer.
FindOpen ==
    /\ readying.at = "look" /\ obsNow.proc # "off" /\ obsFiles.ws /\ Answering
    /\ confPw' = obsFiles.pw /\ Prepared(TRUE)
    /\ UNCHANGED <<obsNow, obsFiles, sentinel, paused, serverPw, putBack, choice, raced, readyBounds>>

\* The launcher waits for the operator to close it, or to carry on; the panel's job does not.
CarryOn ==
    /\ readying.at = "look" /\ obsNow.proc # "off" /\ ~(obsFiles.ws /\ Answering)
    /\ Prepared(FALSE)
    /\ UNCHANGED <<obsNow, obsFiles, sentinel, paused, passwords, putBack, choice, raced, readyBounds>>

FindClosed ==
    /\ readying.at = "look" /\ obsNow.proc = "off" /\ StepsTo("ws")
    /\ UNCHANGED <<obsNow, obsFiles, sentinel, paused, passwords, putBack, choice, raced, readyBounds>>

EnsureWebsocket ==
    /\ readying.at = "ws" /\ StepsTo("sync")
    /\ obsFiles' = IF obsFiles.ws THEN obsFiles ELSE [obsFiles EXCEPT !.ws = TRUE, !.pw = "ours"]
    /\ UNCHANGED <<obsNow, sentinel, paused, passwords, putBack, choice, raced, readyBounds>>

SyncConfigPassword ==
    /\ readying.at = "sync" /\ confPw' = obsFiles.pw /\ StepsTo("profile")
    /\ UNCHANGED <<obsNow, obsFiles, sentinel, paused, serverPw, putBack, choice, raced, readyBounds>>

\* The replay buffer, the video and the encoder, in a profile OBS has once made.
EnsureReplayBuffer ==
    /\ readying.at = "profile" /\ StepsTo("mark")
    /\ obsFiles' = [obsFiles EXCEPT !.rb = @ \/ obsFiles.profile]
    /\ UNCHANGED <<obsNow, sentinel, paused, passwords, putBack, choice, raced, readyBounds>>

\* A club that has the check off is left as it is.
PauseMark ==
    /\ readying.at = "mark"
    /\ IF paused = "none" /\ obsFiles.check # "false" THEN paused' = obsFiles.check
       ELSE UNCHANGED paused
    /\ IF paused = "none" /\ obsFiles.check = "false" THEN StepsTo("clear") ELSE StepsTo("pause")
    /\ UNCHANGED <<obsNow, obsFiles, sentinel, passwords, putBack, choice, raced, readyBounds>>

PauseUpdateCheck ==
    /\ readying.at = "pause" /\ obsFiles' = [obsFiles EXCEPT !.check = "false"] /\ StepsTo("clear")
    /\ UNCHANGED <<obsNow, sentinel, paused, passwords, putBack, choice, raced, readyBounds>>

ClearCrashSentinel ==
    /\ readying.at = "clear" /\ sentinel' = FALSE /\ StepsTo("launch")
    /\ UNCHANGED <<obsNow, obsFiles, paused, passwords, putBack, choice, raced, readyBounds>>

\* OBS opens: from its files, and with a question of its own if its last run did not end well,
\* or if it is to start a buffer and has no scenes.  A person at it answers.
OpenOBS(who, startsBuffer) ==
    LET asks == who = "us" /\ (sentinel \/ (startsBuffer /\ ~obsFiles.scenes))
        built == obsFiles.profile /\ obsFiles.rb
    IN /\ obsNow' = [proc |-> IF asks THEN "asks" ELSE "on", by |-> who,
                  mem |-> [obsFiles EXCEPT !.profile = TRUE], built |-> built,
                  buffer |-> startsBuffer /\ built /\ ~asks, live |-> FALSE, dialled |-> FALSE]
       /\ obsFiles' = [obsFiles EXCEPT !.profile = TRUE] /\ sentinel' = TRUE

\* Mutant: the buffer is asked for whatever the scenes.
LaunchArgsAlways == TRUE

\* LaunchArgsFor.
LaunchArgs == obsFiles.scenes

LaunchOBS ==
    /\ readying.at = "launch"
    /\ \/ /\ IF obsNow.proc = "off" THEN OpenOBS("us", LaunchArgs)
             ELSE UNCHANGED <<obsNow, obsFiles, sentinel>>
          /\ StepsTo("wait") /\ UNCHANGED readyFaults
       \/ Accident /\ Prepared(FALSE) /\ UNCHANGED <<obsNow, obsFiles, sentinel>>
    /\ UNCHANGED <<paused, passwords, putBack, choice, raced, readyPresses>>

\* WaitForWebsocket; OBS may be slower than the wait.
Wait ==
    /\ readying.at = "wait"
    /\ \/ Prepared(Answering) /\ UNCHANGED readyFaults
       \/ Accident /\ Prepared(FALSE)
    /\ UNCHANGED <<obsNow, obsFiles, sentinel, paused, passwords, putBack, choice, raced, readyPresses>>

-----------------------------------------------------------------------------
(* The rest of the job: the server's password, the scenes and the buffer.      *)

CopyPassword ==
    /\ readying.at = "copy" /\ StepsTo("setup")
    /\ serverPw' = IF confPw # "none" THEN confPw ELSE serverPw
    /\ UNCHANGED <<obsNow, obsFiles, sentinel, paused, confPw, putBack, choice, raced, readyBounds>>

Connected == Answering /\ confPw = obsNow.mem.pw

\* Once it has dialled, what OBS does not do is told and passed over.
SetupScenes ==
    /\ readying.at = "setup"
    /\ \/ ~Connected /\ UNCHANGED <<obsNow, readyFaults>> /\ StepsTo("failed")
       \/ /\ Connected /\ StepsTo("buffer")
          /\ \/ UNCHANGED readyFaults /\ obsNow' = [obsNow EXCEPT !.mem.scenes = TRUE, !.dialled = TRUE]
             \/ Accident /\ obsNow' = [obsNow EXCEPT !.dialled = TRUE]
    /\ UNCHANGED <<obsFiles, sentinel, paused, passwords, putBack, choice, raced, readyPresses>>

\* Mutant: a new OBS is not opened once more.
StartsOnce ==
    /\ obsNow' = [obsNow EXCEPT !.mem.rb = TRUE, !.buffer = @ \/ obsNow.built] /\ StepsTo("done")

\* An output that was switched off when OBS opened cannot be started before it opens again.
StartsBuffer ==
    /\ obsNow' = [obsNow EXCEPT !.mem.rb = TRUE, !.buffer = @ \/ obsNow.built]
    /\ IF obsNow.buffer \/ obsNow.built \/ readying.again THEN StepsTo("done") ELSE StepsTo("restart")

\* OBS has gone, or refuses: a warning, and set up all the same ("return true").
NoBuffer ==
    \E enabled \in BOOLEAN :
        /\ obsNow' = [obsNow EXCEPT !.mem.rb = @ \/ (obsNow.dialled /\ enabled)]
        /\ readying' = [readying EXCEPT !.at = IF enabled /\ ~readying.again THEN "restart" ELSE "done",
                                       !.hampered = TRUE]

SetupBuffer ==
    /\ readying.at = "buffer"
    /\ \/ obsNow.dialled /\ StartsBuffer /\ UNCHANGED readyFaults
       \/ obsNow.dialled /\ Accident /\ NoBuffer
       \/ ~obsNow.dialled /\ NoBuffer /\ UNCHANGED readyFaults
    /\ UNCHANGED <<obsFiles, sentinel, paused, passwords, putBack, choice, raced, readyPresses>>

\* A clean exit: OBS writes what it has in memory.
CloseOBS == obsNow' = NotOpen /\ obsFiles' = obsNow.mem /\ sentinel' = FALSE

\* closeOBS: OBS asks before it ends anything on air, and may not close in time; closed, it
\* is prepared and set up once more.  An OBS that is not managed is left as it is.
RestartOBS ==
    /\ readying.at = "restart"
    /\ \/ /\ ~managed \/ obsNow.live \/ obsNow.buffer
          /\ UNCHANGED <<obsNow, obsFiles, sentinel, readyFaults>> /\ StepsTo("done")
       \/ /\ managed /\ obsNow.proc # "off" /\ Accident
          /\ readying' = [readying EXCEPT !.at = "done", !.hampered = TRUE]
          /\ UNCHANGED <<obsNow, obsFiles, sentinel>>
       \/ /\ managed /\ ~obsNow.live /\ ~obsNow.buffer /\ UNCHANGED readyFaults
          /\ IF obsNow.proc = "off" THEN UNCHANGED <<obsNow, obsFiles, sentinel>> ELSE CloseOBS
          /\ readying' = [NoJob EXCEPT !.at = "look", !.by = "panel", !.again = TRUE]
    /\ UNCHANGED <<paused, passwords, putBack, choice, raced, readyPresses>>

EndJob ==
    /\ readying.at \in {"done", "failed"} /\ readying' = NoJob
    /\ UNCHANGED <<obsNow, obsFiles, sentinel, paused, passwords, putBack, choice, raced, readyBounds>>

-----------------------------------------------------------------------------
(* ResumeUpdateCheck, once its caller has seen OBS closed.                     *)

ResumeReads ==
    /\ putBack = Resting /\ readying.at = "no" /\ obsNow.proc = "off" /\ paused # "none"
    /\ putBack' = [at |-> "write", was |-> IF paused = "unset" THEN "true" ELSE paused]
    /\ UNCHANGED <<obsNow, obsFiles, sentinel, paused, passwords, readying, choice, raced, readyBounds>>

ResumeWrites ==
    /\ putBack.at = "write" /\ obsFiles' = [obsFiles EXCEPT !.check = putBack.was]
    /\ putBack' = [putBack EXCEPT !.at = "remove"]
    /\ UNCHANGED <<obsNow, sentinel, paused, passwords, readying, choice, raced, readyBounds>>

ResumeEnds ==
    /\ putBack.at = "remove" /\ putBack' = Resting
    /\ \/ paused' = "none" /\ UNCHANGED readyFaults
       \/ Accident /\ UNCHANGED paused
    /\ UNCHANGED <<obsNow, obsFiles, sentinel, passwords, readying, choice, raced, readyPresses>>

-----------------------------------------------------------------------------
(* People, OBS and the laptop.                                                *)

Editing == readying.at \in {"ws", "sync", "profile", "mark", "pause", "clear", "launch"}
           \/ readying.again \/ putBack # Resting

OpenByHand ==
    /\ obsNow.proc = "off" /\ ReadyPressed /\ OpenOBS("people", FALSE)
    /\ raced' = (raced \/ Editing)
    /\ UNCHANGED <<paused, passwords, readying, putBack, choice, readyFaults>>

CloseByHand ==
    /\ obsNow.proc = "on" /\ ReadyPressed /\ CloseOBS
    /\ UNCHANGED <<paused, passwords, readying, putBack, choice, raced, readyFaults>>

AnswerQuestion ==
    /\ obsNow.proc = "asks" /\ obsNow' = [obsNow EXCEPT !.proc = "on"]
    /\ UNCHANGED <<obsFiles, sentinel, paused, passwords, readying, putBack, choice, raced, readyBounds>>

\* The club changes its mind, in OBS (which saves what is changed), while nothing is paused.
ChangeCheck ==
    /\ obsNow.proc = "on" /\ paused = "none" /\ ReadyPressed
    /\ choice' = IF obsNow.mem.check = "false" THEN "true" ELSE "false"
    /\ obsNow' = [obsNow EXCEPT !.mem.check = choice']
    /\ obsFiles' = [obsFiles EXCEPT !.check = choice']
    /\ UNCHANGED <<sentinel, paused, passwords, readying, putBack, raced, readyFaults>>

StartStream ==
    /\ obsNow.proc = "on" /\ ~obsNow.live /\ ReadyPressed /\ obsNow' = [obsNow EXCEPT !.live = TRUE]
    /\ UNCHANGED <<obsFiles, sentinel, paused, passwords, readying, putBack, choice, raced, readyFaults>>

OBSCrash ==
    /\ obsNow.proc # "off" /\ Accident /\ obsNow' = NotOpen
    /\ UNCHANGED <<obsFiles, sentinel, paused, passwords, readying, putBack, choice, raced, readyPresses>>

PowerCut ==
    /\ Accident /\ obsNow' = NotOpen /\ readying' = NoJob /\ putBack' = Resting
    /\ UNCHANGED <<obsFiles, sentinel, paused, passwords, choice, raced, readyPresses>>

-----------------------------------------------------------------------------
GetPrepared ==
    \/ BeginJob \/ FindOpen \/ CarryOn \/ FindClosed \/ EnsureWebsocket \/ SyncConfigPassword
    \/ EnsureReplayBuffer \/ PauseMark \/ PauseUpdateCheck \/ ClearCrashSentinel \/ LaunchOBS \/ Wait

Setup == CopyPassword \/ SetupScenes \/ SetupBuffer \/ RestartOBS \/ EndJob

Resume == ResumeReads \/ ResumeWrites \/ ResumeEnds

World ==
    \/ OpenByHand \/ CloseByHand \/ AnswerQuestion \/ ChangeCheck \/ StartStream \/ OBSCrash \/ PowerCut

ReadyNext == (GetPrepared \/ Setup \/ Resume \/ World) /\ UNCHANGED managed

ReadySpec == ReadyInit /\ [][ReadyNext]_obsReady

\* What the update check comes back to: the marker remembers, or OBS does, or its file.
ComesBack ==
    IF paused # "none" THEN paused
    ELSE IF obsNow.proc = "off" THEN obsFiles.check ELSE obsNow.mem.check

\* "Turns OBS's update check off, remembering what it was" (prep.go:230): the club's own choice
\* is never lost, whatever crashes between the steps and however often it is paused, unless OBS
\* is opened, or another job begun, in the middle of putting it back.
ChoiceIsKept == ~raced => (ComesBack = "false") = (choice = "false")

\* An OBS the code opens stops at no question nobody is there to answer; and a job that says
\* "OBS is ready." leaves the server with OBS's password and, where OBS is managed, the buffer
\* running, on a new OBS too, unless OBS is live: but for a job under which OBS went, refused the
\* buffer or would not close, which says it all the same.
EndsReady ==
    ~raced =>
        /\ obsNow'.by = "us" => obsNow'.proc # "asks"
        /\ readying.at # "done" /\ readying'.at = "done" /\ ~readying'.hampered =>
            /\ managed => obsNow'.buffer \/ obsNow'.live
            /\ serverPw' = obsFiles'.pw

ReadyInTheEnd == [][EndsReady /\ ChoiceIsKept']_obsReady
==============================================================================
