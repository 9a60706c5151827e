------------------------------- MODULE ObsGuard -------------------------------
(***************************************************************************)
(* OBS crash recovery (internal/server/obsguard.go).  Every few seconds the  *)
(* guard looks at OBS; when OBS has gone without a clean exit it reopens it, *)
(* and puts the stream back only if it was live.                             *)
(*                                                                         *)
(* One call of obsGuardTick is a sequence of phases, because everything else *)
(* goes on while it runs: "idle" between checks; "down" after the process    *)
(* check and before the crash marker is read; "waiting" for the reopened     *)
(* OBS to answer; "restore" before the scene and the stream are asked for.   *)
(* The stream monitor (streamquality.go) contributes its two flags, which    *)
(* the guard falls back on when OBS does not answer it.                      *)
(***************************************************************************)
EXTENDS OBS

CONSTANTS
    MaxRestarts,   \* obsGuardMaxRestarts (3)
    Window,        \* obsGuardWindowSec, in checks
    FreezeChecks,  \* obsFreezeSec, in checks
    Passes,        \* obsGuardRestorePasses (6)
    Faults         \* what may fail: a subset of {"query", "launch", "slow", "refuse",
                   \* "server", "job"}

ASSUME GuardAssumption ==
    /\ MaxRestarts \in Nat \ {0} /\ Window \in Nat \ {0}
    /\ FreezeChecks \in Nat \ {0} /\ Passes \in Nat \ {0}
    /\ MaxCrashes \in Nat /\ MaxPresses \in Nat

VARIABLES
    phase, armed, streaming, gaveUp,
    pending, pendingStream, tries,   \* the reopen that is not finished yet
    restarts,       \* the ages, in checks, of the recent reopen attempts
    hungFor,        \* checks OBS's window has been hung for
    wasStreaming,   \* obsGuardTick's local
    monReach, monLive,  \* streamMon's reachable and streaming
    busy,           \* the checklist's Start OBS job is running
    opened,         \* history: the ages of the launches made
    stopSeen        \* history: OBS told the guard of a stop the operator made

guardVars == <<phase, armed, streaming, gaveUp, pending, pendingStream, tries,
               restarts, hungFor, wasStreaming, opened, stopSeen>>
vars == <<obsVars, guardVars, monReach, monLive, busy>>

GuardInit ==
    /\ phase = "idle" /\ armed = FALSE /\ streaming = FALSE /\ gaveUp = FALSE
    /\ pending = FALSE /\ pendingStream = FALSE /\ tries = 0
    /\ restarts = {} /\ hungFor = 0 /\ wasStreaming = FALSE
    /\ monReach = FALSE /\ monLive = FALSE /\ busy = FALSE
    /\ opened = {} /\ stopSeen = FALSE
Init == OBSInit /\ GuardInit

-----------------------------------------------------------------------------
(* The port: a stuck OBS may or may not still accept a connection.           *)
PortUp == CASE proc \in {"up", "frozen"} -> {TRUE}
            [] proc = "stuck" -> BOOLEAN
            [] OTHER -> {FALSE}
Answers == (IF proc \in {"up", "frozen"} THEN {TRUE} ELSE {FALSE})
           \cup (IF "query" \in Faults THEN {FALSE} ELSE {})

Older(ages) == {a + 1 : a \in {x \in ages : x + 1 < Window}}

\* Mutant: an unanswered question means live.
SampleOptimistic(known) ==
    /\ (known /\ streaming' = live) \/ (~known /\ streaming' = TRUE)
    /\ UNCHANGED stopSeen

\* Whether it is live: asked of OBS, else the monitor's flag, else left alone.
Sample(known) ==
    \/ /\ known /\ streaming' = live
       /\ IF ~live /\ offBy = "operator" THEN stopSeen' = TRUE ELSE UNCHANGED stopSeen
    \/ /\ ~known /\ UNCHANGED stopSeen
       /\ \/ monReach /\ streaming' = monLive
          \/ ~monReach /\ UNCHANGED streaming

LeaveOBS == UNCHANGED <<proc, live, lastExit, offBy>>

\* obsFreezeCheck: a window hung for FreezeChecks is closed unless the stream is
\* still going out.  A force-close leaves the crash marker.
Flowing == proc = "frozen" /\ live
FreezeCheck ==
    \/ ~Hung /\ hungFor' = 0 /\ LeaveOBS
    \/ Hung /\ hungFor < FreezeChecks /\ hungFor' = hungFor + 1 /\ LeaveOBS
    \/ Hung /\ hungFor = FreezeChecks /\ Flowing /\ UNCHANGED hungFor /\ LeaveOBS
    \/ Hung /\ hungFor = FreezeChecks /\ ~Flowing /\ hungFor' = 0 /\ Dies

\* A check begins; everything that happened is a check older.
Check == /\ phase = "idle" /\ ~busy
         /\ restarts' = Older(restarts) /\ opened' = Older(opened)
         /\ UNCHANGED <<marker, everLive, crashes, presses, gaveUp, pending,
                        pendingStream, tries, monReach, monLive, busy>>

Ask(portUp) == \E known \in IF portUp THEN Answers ELSE {FALSE} : Sample(known)

\* OBS is running: start watching it, finish a reopen, or look for a freeze.
StartWatching ==
    /\ Check /\ ~armed /\ TRUE \in PortUp
    /\ armed' = TRUE /\ Ask(TRUE)
    /\ UNCHANGED <<phase, wasStreaming, hungFor>> /\ LeaveOBS
ResumeReopen ==
    /\ Check /\ armed /\ pending /\ TRUE \in PortUp
    /\ Ask(TRUE)
    /\ phase' = "restore" /\ wasStreaming' = pendingStream
    /\ UNCHANGED <<armed, hungFor>> /\ LeaveOBS
Watch ==
    /\ Check /\ armed /\ Running
    /\ \E portUp \in PortUp : ~(pending /\ portUp) /\ Ask(portUp)
    /\ FreezeCheck
    /\ UNCHANGED <<phase, armed, wasStreaming>>

\* OBS is not running: nothing to the guard until it has seen it.
FindDown ==
    /\ Check /\ armed /\ ~Running
    /\ phase' = "down"
    /\ wasStreaming' = IF pending THEN pendingStream ELSE streaming
    /\ UNCHANGED <<armed, streaming, stopSeen, hungFor>> /\ LeaveOBS
SeeNothing ==
    /\ Check /\ ~armed /\ FALSE \in PortUp
    /\ UNCHANGED <<phase, armed, streaming, stopSeen, hungFor, wasStreaming>> /\ LeaveOBS

\* Mutants: OBS being down is enough; the unfinished reopen is not remembered.
CrashedAlways == TRUE
CrashedByMarker == marker

Crashed == pending \/ marker
Closed ==
    /\ phase = "down" /\ ~Crashed
    /\ phase' = "idle" /\ armed' = FALSE /\ streaming' = FALSE
    /\ UNCHANGED <<obsVars, gaveUp, pending, pendingStream, tries, restarts, hungFor,
                   wasStreaming, opened, stopSeen, monReach, monLive, busy>>

GiveUp ==
    /\ phase = "down" /\ Crashed
    /\ Cardinality(restarts) >= MaxRestarts
    /\ phase' = "idle" /\ armed' = FALSE /\ gaveUp' = TRUE /\ pending' = FALSE
    /\ UNCHANGED <<obsVars, streaming, pendingStream, tries, restarts, hungFor,
                   wasStreaming, opened, stopSeen, monReach, monLive, busy>>

\* Mutant: one reopen more.
RetryOnceMore == /\ phase = "down" /\ Crashed /\ Cardinality(restarts) <= MaxRestarts
                 /\ restarts' = restarts \cup {0}
Retry == /\ phase = "down" /\ Crashed /\ Cardinality(restarts) < MaxRestarts
         /\ restarts' = restarts \cup {0}

\* OBS's program is not found: the marker stays, so the next check tries again.
NoProgram ==
    /\ Retry /\ "launch" \in Faults
    /\ phase' = "idle"
    /\ UNCHANGED <<obsVars, armed, streaming, gaveUp, pending, pendingStream, tries,
                   hungFor, wasStreaming, opened, stopSeen, monReach, monLive, busy>>

\* Clear the marker, note the reopen, launch.  A second OBS beside one that is
\* already running shuts itself down.
Reopen ==
    /\ Retry /\ pending' = TRUE /\ pendingStream' = wasStreaming /\ tries' = 0
    /\ UNCHANGED <<live, lastExit, offBy, everLive, crashes, presses, armed, streaming,
                   gaveUp, hungFor, wasStreaming, stopSeen, monReach, monLive, busy>>
Launch ==
    /\ Reopen
    /\ \/ Running /\ marker' = FALSE /\ UNCHANGED proc
       \/ ~Running /\ marker' = TRUE /\ proc' = "loading"
    /\ phase' = "waiting" /\ opened' = opened \cup {0}
LaunchFails ==
    /\ Reopen /\ "launch" \in Faults
    /\ marker' = FALSE
    /\ phase' = "idle" /\ UNCHANGED <<proc, opened>>

\* guardWaitWS: OBS answers, or obsGuardStartupSec pass without it.
Await ==
    /\ phase = "waiting"
    /\ \/ TRUE \in PortUp /\ phase' = "restore"
       \/ (~Running \/ proc = "stuck" \/ "slow" \in Faults) /\ phase' = "idle"
    /\ UNCHANGED <<obsVars, armed, streaming, gaveUp, pending, pendingStream, tries,
                   restarts, hungFor, wasStreaming, opened, stopSeen,
                   monReach, monLive, busy>>

\* obsGuardRestore: StartStream only if it was live; refused, it is asked again on
\* the next checks, Passes times.
Accepted == /\ proc \in {"up", "frozen"} /\ ~live
            /\ live' = TRUE /\ pending' = FALSE /\ UNCHANGED tries
Refused ==  /\ proc \notin {"up", "frozen"} \/ live \/ "refuse" \in Faults
            /\ tries' = tries + 1
            /\ \/ tries' < Passes /\ UNCHANGED pending
               \/ tries' >= Passes /\ pending' = FALSE
            /\ UNCHANGED live
Restore ==
    /\ phase = "restore" /\ phase' = "idle"
    /\ IF wasStreaming THEN Accepted \/ Refused
       ELSE pending' = FALSE /\ UNCHANGED <<tries, live>>
    /\ UNCHANGED <<proc, marker, lastExit, offBy, everLive, crashes, presses, armed,
                   streaming, gaveUp, pendingStream, restarts, hungFor, wasStreaming,
                   opened, stopSeen, monReach, monLive, busy>>

GuardStep == StartWatching \/ ResumeReopen \/ Watch \/ FindDown \/ SeeNothing
             \/ Closed \/ GiveUp \/ NoProgram
             \/ Launch \/ LaunchFails \/ Await \/ Restore

-----------------------------------------------------------------------------
(* The rest of the server. *)

\* streamMonitorTick's reading of OBS.
MonitorTick ==
    /\ \E known \in Answers :
        \/ known /\ monReach' = TRUE /\ monLive' = live
        \/ ~known /\ monReach' = FALSE /\ monLive' = FALSE
    /\ UNCHANGED <<obsVars, guardVars, busy>>

\* The Start OBS job closes OBS cleanly, opens it again and finishes.
JobStart ==
    /\ "job" \in Faults /\ ~busy /\ Press /\ busy' = TRUE
    /\ IF proc = "up" THEN CleanExit ELSE UNCHANGED <<proc, marker, live, lastExit, offBy>>
    /\ UNCHANGED <<everLive, crashes, guardVars, monReach, monLive>>
JobEnd ==
    /\ busy /\ busy' = FALSE
    /\ \/ proc = "off" /\ proc' = "loading" /\ marker' = TRUE
       \/ UNCHANGED <<proc, marker>>
    /\ UNCHANGED <<live, lastExit, offBy, everLive, crashes, presses, guardVars,
                   monReach, monLive>>

\* The server dies and is started again: the guard's memory goes with it.
ServerRestart ==
    /\ "server" \in Faults /\ Press
    /\ phase' = "idle" /\ armed' = FALSE /\ streaming' = FALSE /\ gaveUp' = FALSE
    /\ pending' = FALSE /\ pendingStream' = FALSE /\ tries' = 0 /\ restarts' = {}
    /\ hungFor' = 0 /\ wasStreaming' = FALSE /\ busy' = FALSE
    /\ monReach' = FALSE /\ monLive' = FALSE /\ opened' = {} /\ stopSeen' = FALSE
    /\ UNCHANGED <<proc, marker, live, lastExit, offBy, everLive, crashes>>

Operator == /\ Open \/ Close \/ GoLive \/ StopLive
            /\ IF live' THEN stopSeen' = FALSE ELSE UNCHANGED stopSeen
            /\ UNCHANGED <<phase, armed, streaming, gaveUp, pending, pendingStream, tries,
                           restarts, hungFor, wasStreaming, opened, monReach, monLive, busy>>
Program == /\ Loaded \/ Crash \/ Freeze \/ Thaw
           /\ UNCHANGED <<guardVars, monReach, monLive, busy>>

Next == GuardStep \/ MonitorTick \/ JobStart \/ JobEnd \/ ServerRestart
        \/ Operator \/ Program

OBSLoads == Loaded /\ UNCHANGED <<guardVars, monReach, monLive, busy>>

\* The guard's loop keeps being scheduled; a loading OBS loads, a job ends.
Fairness == /\ WF_vars(GuardStep)
            /\ WF_vars(OBSLoads)
            /\ WF_vars(JobEnd)

Spec == Init /\ [][Next]_vars
FairSpec == Spec /\ Fairness

-----------------------------------------------------------------------------
(* Properties *)

GuardTypeOK ==
    /\ OBSTypeOK
    /\ phase \in {"idle", "down", "waiting", "restore"}
    /\ armed \in BOOLEAN /\ streaming \in BOOLEAN /\ gaveUp \in BOOLEAN
    /\ pending \in BOOLEAN /\ pendingStream \in BOOLEAN /\ tries \in Nat
    /\ restarts \in SUBSET (0..Window-1) /\ opened \in SUBSET (0..Window-1)
    /\ hungFor \in 0..FreezeChecks /\ wasStreaming \in BOOLEAN
    /\ monReach \in BOOLEAN /\ monLive \in BOOLEAN /\ busy \in BOOLEAN
    /\ stopSeen \in BOOLEAN

\* Whatever way OBS opens, freezes and crashes, the guard never puts on air a
\* stream nobody started ("a crash before kick-off must not put the club on air").
Restarts == phase = "restore" /\ phase' = "idle" /\ ~live /\ live'
NothingUninvited == [][Restarts => everLive]_vars

\* OBS is reopened only when it last went away by a crash, or when the reopen is
\* one the guard began itself and has not finished.
Launches == phase = "down" /\ phase' = "waiting" /\ ~Running
OnlyACrashIsUndone == [][Launches => lastExit = "crash" \/ pending]_vars

\* Within any window the guard launches OBS at most MaxRestarts times, failed
\* launches, slow starts and repeated crashes included.
ReopensAreCapped == Cardinality(opened) <= MaxRestarts

\* A reopen that is not finished is being watched: the guard is armed, and there
\* are passes left to ask for the stream.
PendingIsWatched == pending => armed /\ tries < Passes

\* "The stream is only restarted when OBS itself said it was live just before the
\* crash": not when OBS has told the guard that the operator stopped it.
StoppedStaysStopped == [][Restarts => ~stopSeen]_vars

\* A stream that was live when OBS crashed comes back, or the guard has used up
\* its reopens or its passes and said so; here nobody presses anything meanwhile.
\* And an OBS the guard watches does not stay stuck: it is closed for reopening.
Owed == /\ phase = "idle" /\ ~busy /\ armed /\ proc = "off" /\ Crashed
        /\ IF pending THEN pendingStream ELSE streaming
        /\ presses = MaxPresses
StreamComesBack ==
    /\ Owed ~> (live \/ gaveUp \/ tries >= Passes)
    /\ (proc = "stuck" /\ armed) ~> (proc # "stuck" \/ ~armed)
=============================================================================
