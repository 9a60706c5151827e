------------------------------ MODULE MCQuality ------------------------------
(* What the server does to OBS, in small parts: in one the steps of the      *)
(* quality ladder fail, each call and the server, and it is gone up and down again; *)
(* in another it is a ladder of three, under a server that restarts and a club    *)
(* that sets the bitrate itself; in the third replays, held cuts and the break      *)
(* show cut OBS's scenes, and any of them may fail.  And, in a fourth, what the     *)
(* laptop's window asks before it does any of that.                             *)
EXTENDS Asker, StreamQuality

VARIABLES
    part,    \* which of them
    v1, v2, v3, v4, v5, v6, v7, v8, v9, v10, v11, v12, v13, v14, v15,  \* the second's or the third's
    w1, w2, w3, w4, w5, w6, w7, w8, w9, w10

first == <<v1, v2, v3, v4, v5, v6, v7, v8, v9, v10, v11, v12, v13, v14, v15>>
second == <<w1, w2, w3, w4, w5, w6, w7, w8, w9, w10>>

Rungs == <<100, 50>>

Climb == INSTANCE StreamQuality WITH
    MaxCrashes <- 0, MaxPresses <- 4, Ladder <- <<100, 70, 35>>, Full <- 4000, Least <- 500,
    AutoDownshift <- TRUE, Enough <- 2, Cooldown <- 2, FailTicks <- 3, UpAfter <- 2, MaxWait <- 4,
    Steps <- {}, Faults <- {"server", "foreign", "trigger", "unsaved"},
    proc <- v1, marker <- v2, live <- v3, lastExit <- v4, offBy <- v5, everLive <- v6,
    crashes <- v7, presses <- v8, kbps <- v9, enc <- v10, rb <- v11, stopping <- v12, mon <- v13,
    saved <- v14, clearing <- v15, tick <- w1, shift <- w2, trigger <- w3, told <- w4, club <- w5,
    proven <- w6, unmade <- w7,
    mixed <- w8, deserted <- w9, unwritten <- w10

Pictures == INSTANCE OnAir WITH
    Replays <- {"one"}, Reasons <- {"Wicket"}, D <- 1, Save <- 1, Slack <- 1,
    Attempts <- 1, HoldFor <- 1, Clip <- 1, Lead <- 1, Between <- 1, MaxFaults <- 1,
    Faults <- {"lost", "refuse", "nosave", "restart", "impatient", "off air"},
    scene <- v1, cutBy <- v2, sideOn <- v3, rp <- v4, latest <- v5, busy <- v6, meant <- v7,
    hold <- v8, back <- v9, reel <- v10, brk <- v11, strikes <- v12, watch <- v13, since <- v14,
    faults <- v15

Idle2 == w1 = 0 /\ w2 = 0 /\ w3 = 0 /\ w4 = 0 /\ w5 = 0 /\ w6 = 0 /\ w7 = 0
         /\ w8 = 0 /\ w9 = 0 /\ w10 = 0
Idle1 == /\ v1 = 0 /\ v2 = 0 /\ v3 = 0 /\ v4 = 0 /\ v5 = 0 /\ v6 = 0 /\ v7 = 0 /\ v8 = 0 /\ v9 = 0
         /\ v10 = 0 /\ v11 = 0 /\ v12 = 0 /\ v13 = 0 /\ v14 = 0 /\ v15 = 0

ClubInit ==
    /\ part \in {"step", "climb", "pictures", "questions"}
    /\ Init /\ ~marker /\ AskerInit
    /\ CASE part = "climb" -> Climb!Init /\ ~v2
         [] part = "pictures" -> Pictures!AirInit /\ Idle2
         [] OTHER -> Idle1 /\ Idle2

ClubNext ==
    /\ UNCHANGED part
    /\ \/ part = "step" /\ Next /\ UNCHANGED <<asker, first, second>>
       \/ part = "climb" /\ Climb!Next /\ UNCHANGED <<vars, asker>>
       \/ part = "pictures" /\ Pictures!AirNext /\ UNCHANGED <<vars, asker, second>>
       \/ part = "questions" /\ AskerNext /\ UNCHANGED <<vars, first, second>>

\* The fairness of StreamQuality in the first part, and that of OnAir in the third.
ClubSpec ==
        /\ ClubInit /\ [][ClubNext]_<<part, vars, asker, first, second>>
        /\ WF_vars(part = "step" /\ StepAction)
        /\ WF_vars(part = "step" /\ StopCompletes)
        /\ WF_vars(part = "step" /\ Tick)
        /\ WF_first(part = "pictures" /\ Pictures!Replay("one"))
        /\ WF_first(part = "pictures" /\ Pictures!WayBack)
        /\ WF_first(part = "pictures" /\ Pictures!ReelStep)
        /\ WF_first(part = "pictures" /\ Pictures!WatchStep)
        /\ SF_first(part = "pictures" /\ Pictures!Tick)

-----------------------------------------------------------------------------
(* The properties that are of more than one part, or not of the modules extended.  *)

\* The place on the ladder in the match state, from which a restarted server goes on, is the one
\* in memory.
RungIsKept == part = "climb" => Climb!LadderIsSaved

\* What the server takes from the viewers it gives back in the end: a stream that a step
\* stopped, unless the operator is told to see to it; and the picture that a replay took,
\* whichever goroutine that was to cut back died or was not answered ("This watches for the
\* Replay scene live on air with no replay meant to be on it", replaywatch.go).
Taken == \/ part = "step" /\ TakenDownByStep /\ ~told /\ ~deserted
         \/ part = "pictures" /\ v1 = "replay"

ViewersGetItBack == Taken ~> ~Taken
==============================================================================
