-------------------------------- MODULE MCLive --------------------------------
(* What must happen in the end, for three parts of the system that share no     *)
(* state; and with them the launcher's own update, and the highlights video. A  *)
(* behaviour is one of one part, chosen at the start; the others stay as they   *)
(* begin.                                                                      *)
EXTENDS Supervisor, Update, Highlights

VARIABLES
    part,
    phase, armed, outStream, gaveUp, pending, pendingStream, tries, reopens, hungFor,
    wasStreaming, monReach, monLive, restarting, opened, stopSeen,
    proc, marker, live, lastExit, offBy, everLive, crashes, pressed,
    mode, typed, behind, scorer, resolved, lastSeen, wait, okAge, cache, mirror, sync, call,
    leftover, shown, lapses

obs == <<phase, armed, outStream, gaveUp, pending, pendingStream, tries, reopens, hungFor,
         wasStreaming, monReach, monLive, restarting, opened, stopSeen,
         proc, marker, live, lastExit, offBy, everLive, crashes, pressed>>
feed == <<mode, typed, behind, scorer, resolved, lastSeen, wait, okAge, cache, mirror, sync, call,
          leftover, shown, lapses>>

Guard == INSTANCE ObsGuard WITH
    MaxCrashes <- 2, MaxPresses <- 2, MaxRestarts <- 2, Window <- 4, FreezeChecks <- 1,
    Passes <- 2, Faults <- {"launch", "slow", "refuse"}, restarts <- reopens, busy <- restarting,
    streaming <- outStream, presses <- pressed

Feed == INSTANCE FeedLink WITH
    Modes <- {"agent", "bridge"}, Addresses <- {1, 2}, Pollers <- {"overlay"},
    Stale <- 1, MaxFrame <- 1, MaxFaults <- 2, faults <- lapses

parts == <<part, vars, obs, feed, update, highlights>>

PartsInit ==
    /\ part \in {"supervisor", "guard", "feed", "update", "reel"}
    /\ Init /\ Guard!Init /\ Feed!Init /\ UpdateInit /\ HighlightsInit
    \* A part that stays begins in one way.
    /\ (part # "guard" => ~marker)
    /\ (part # "update" => aside = "none")
    /\ (part # "feed" => mode = "agent" /\ ~typed /\ ~behind)

Only(name) == part = name /\ UNCHANGED part

PartsNext ==
    \/ Only("supervisor") /\ Next
       /\ UNCHANGED <<obs, feed, update, highlights>>
    \/ Only("guard") /\ Guard!Next
       /\ UNCHANGED <<vars, feed, update, highlights>>
    \/ Only("feed") /\ Feed!Next
       /\ UNCHANGED <<vars, obs, update, highlights>>
    \/ Only("update") /\ UpdateNext
       /\ UNCHANGED <<vars, obs, feed, highlights>>
    \/ Only("reel") /\ HighlightsNext
       /\ UNCHANGED <<vars, obs, feed, update>>

\* Each part's own fairness, when it is the part chosen.
PartsFairness ==
    /\ WF_vars(part = "supervisor" /\ Watch) /\ WF_vars(part = "supervisor" /\ NoticeAnswer)
    /\ WF_vars(part = "supervisor" /\ Settle) /\ WF_vars(part = "supervisor" /\ CrashedOnce)
    /\ WF_vars(part = "supervisor" /\ KeepsCrashing)
    /\ WF_vars(part = "supervisor" /\ LeaveReplay)
    /\ SF_vars(part = "supervisor" /\ LookAtOBS) /\ SF_vars(part = "supervisor" /\ CutBack)
    /\ SF_vars(part = "supervisor" /\ Launch)
    /\ WF_obs(part = "guard" /\ Guard!GuardStep) /\ WF_obs(part = "guard" /\ Guard!OBSLoads)
    /\ WF_obs(part = "guard" /\ Guard!JobEnd)
    /\ WF_feed(part = "feed" /\ Feed!Steps("overlay"))
    /\ WF_feed(part = "feed" /\ Feed!Fetch) /\ WF_feed(part = "feed" /\ Feed!KeepTime)
    /\ WF_feed(part = "feed" /\ Feed!Tick)

PartsSpec == PartsInit /\ [][PartsNext]_parts /\ PartsFairness

-----------------------------------------------------------------------------
(* The parts' properties, under the names their modules give them.            *)

\* A stream lost to a crash comes back, and an OBS that hangs without its stream is closed.
StreamComesBack == Guard!StreamComesBack

\* The scorer's latest frame is shown in the end.
LinkComesBack == Feed!LinkComesBack
===============================================================================
