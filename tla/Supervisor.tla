----------------------------- MODULE Supervisor -----------------------------
(***************************************************************************)
(* The launcher's loop around the server (internal/launcher/run.go,          *)
(* RunServerWithRestarts): quick restarts while a crash may be a one-off,    *)
(* then one try a minute for as long as match day lasts; the watcher that    *)
(* kills a server which no longer answers (watchHung); the look at OBS that  *)
(* takes viewers off a replay no server is left to end (LeaveReplay).        *)
(*                                                                         *)
(* Of time only the order is kept: a round is "old" once it has run for      *)
(* serverSettledAfter, which is far longer than a silent server lives.       *)
(***************************************************************************)
EXTENDS Naturals

CONSTANTS
    MaxRestarts,    \* ServerMaxRestarts: quick restarts before it slows down
    HungAfter,      \* hungAfterMisses
    MaxQuick        \* bound on the rounds counted in quick

VARIABLES
    server,    \* the process: "none", "starting", "working" or "hung"
    at,        \* the loop: "waiting", "backoff", "resting" or "stopped"
    restarts,
    told,      \* the club has heard it keeps crashing
    down,      \* the window says the server is not there
    old,       \* this round has run for serverSettledAfter
    answered, missed,   \* watchHung
    cutter,    \* LeaveReplay: "none", "looking", "cutting"
    scene,     \* OBS on air: "main" or "replay"
    quick      \* history: rounds in a row that ended before they were old

loop == <<at, restarts, told, down, quick>>
watcher == <<answered, missed>>
onAir == <<cutter, scene>>
vars == <<server, loop, old, watcher, onAir>>

ASSUME SupervisorAssumption ==
    /\ MaxRestarts \in Nat /\ HungAfter \in Nat \ {0}
    /\ MaxQuick \in Nat /\ MaxQuick >= MaxRestarts

Init ==
    /\ server = "starting" /\ at = "waiting"
    /\ restarts = 0 /\ told = FALSE /\ down = FALSE /\ quick = 0
    /\ old = FALSE /\ answered = FALSE /\ missed = 0
    /\ cutter = "none" /\ scene = "main"

-----------------------------------------------------------------------------
(* The server, and a replay it puts on air.                                   *)

Becomes(states, next) ==
    /\ server \in states /\ server' = next
    /\ UNCHANGED <<loop, old, watcher, onAir>>

ComesUp == Becomes({"starting", "hung"}, "working")
Hangs == Becomes({"starting", "working"}, "hung")
Dies == Becomes({"starting", "working", "hung"}, "none")

Replay(from, to) ==
    /\ server = "working" /\ scene = from /\ scene' = to
    /\ UNCHANGED <<server, loop, old, watcher, cutter>>

StartReplay == Replay("main", "replay")
EndReplay == Replay("replay", "main")

GrowsOld ==
    /\ at = "waiting" /\ server # "none" /\ answered /\ ~old /\ old' = TRUE
    /\ UNCHANGED <<server, loop, watcher, onAir>>

-----------------------------------------------------------------------------
(* watchHung, one look at /health.                                            *)

Watching == at = "waiting" /\ server # "none" /\ UNCHANGED <<loop, old, onAir>>

Answers ==
    /\ Watching /\ server = "working"
    /\ answered' = TRUE /\ missed' = 0 /\ UNCHANGED server

\* Past hungStartLimit without a first answer.
NeverAnswered ==
    /\ Watching /\ server # "working" /\ ~answered
    /\ server' = "none" /\ UNCHANGED watcher

Misses ==
    /\ Watching /\ server # "working" /\ answered
    /\ missed' = missed + 1 /\ UNCHANGED answered
    /\ server' = IF missed' >= HungAfter THEN "none" ELSE server

-----------------------------------------------------------------------------
(* The rounds of the loop.                                                    *)

NoticeAnswer ==
    /\ at = "waiting" /\ down /\ answered /\ down' = FALSE
    /\ UNCHANGED <<server, at, restarts, told, quick, old, watcher, onAir>>

Settle ==
    /\ at = "waiting" /\ told /\ old
    /\ told' = FALSE /\ restarts' = 0
    /\ UNCHANGED <<server, at, down, quick, old, watcher, onAir>>

\* Mutant: every crash counts, however long the server had run.
CountedAlways == restarts

Counted == IF old THEN 0 ELSE restarts

Exited == at = "waiting" /\ server = "none"

Round == /\ quick' = IF old THEN 0 ELSE IF quick < MaxQuick THEN quick + 1 ELSE quick
         /\ UNCHANGED <<server, old, watcher, scene>>

CrashedOnce ==
    /\ Exited /\ Counted < MaxRestarts
    /\ at' = "backoff" /\ restarts' = Counted + 1
    /\ UNCHANGED <<told, down, cutter>> /\ Round

\* Mutant: OBS is looked at the first time only.
LooksOnce == IF told THEN cutter ELSE "looking"

Looks == "looking"

KeepsCrashing ==
    /\ Exited /\ Counted >= MaxRestarts
    /\ at' = "resting" /\ restarts' = Counted
    /\ told' = TRUE /\ down' = TRUE /\ cutter' = Looks
    /\ Round

\* LeaveReplay: its two calls of OBS time out well within serverRetryEvery.
LookAtOBS ==
    /\ cutter = "looking" /\ cutter' = IF scene = "replay" THEN "cutting" ELSE "none"
    /\ UNCHANGED <<server, loop, old, watcher, scene>>
CutBack ==
    /\ cutter = "cutting" /\ cutter' = "none" /\ scene' = "main"
    /\ UNCHANGED <<server, loop, old, watcher>>
NoAnswerFromOBS ==
    /\ cutter # "none" /\ cutter' = "none"
    /\ UNCHANGED <<server, loop, old, watcher, scene>>

\* Mutant: the next server is started without the minute's wait.
DueAtOnce == at \in {"backoff", "resting"}

\* Mutant: the quick restarts are the last ones.
DueWhileQuick == at = "backoff"

Due == at = "backoff" \/ (at = "resting" /\ cutter = "none")

NextRound == at' = "waiting" /\ old' = FALSE /\ answered' = FALSE /\ missed' = 0

Launch ==
    /\ Due /\ server' = "starting" /\ NextRound
    /\ UNCHANGED <<restarts, told, down, quick, onAir>>

\* The old process is waited for again, and has of course exited.
LaunchFails ==
    /\ Due /\ NextRound
    /\ UNCHANGED <<server, restarts, told, down, quick, onAir>>

\* Stop: a server that runs is told to stop, then killed.
Interrupt ==
    /\ at \in {"waiting", "resting"} /\ at' = "stopped" /\ server' = "none"
    /\ UNCHANGED <<restarts, told, down, quick, old, watcher, onAir>>

Stopped == at = "stopped" /\ UNCHANGED vars

Environment == ComesUp \/ Hangs \/ Dies \/ StartReplay \/ EndReplay \/ GrowsOld
Watch == Answers \/ NeverAnswered \/ Misses
Loop == NoticeAnswer \/ Settle \/ CrashedOnce \/ KeepsCrashing
LeaveReplay == LookAtOBS \/ CutBack \/ NoAnswerFromOBS

Next == Environment \/ Watch \/ Loop \/ LeaveReplay \/ Launch \/ LaunchFails \/ Interrupt \/ Stopped

Spec == Init /\ [][Next]_vars

(* The watcher ticks and the loop takes what is ready; a try comes after the   *)
(* minute, and some try starts a process; OBS answers some of the looks.       *)
Fairness ==
    /\ WF_vars(Watch) /\ WF_vars(NoticeAnswer) /\ WF_vars(Settle)
    /\ WF_vars(CrashedOnce) /\ WF_vars(KeepsCrashing) /\ WF_vars(LeaveReplay)
    /\ SF_vars(LookAtOBS) /\ SF_vars(CutBack)
    /\ SF_vars(Launch)

FairSpec == Spec /\ Fairness

-----------------------------------------------------------------------------
\* The shape of the state.
SupervisorTypeOK ==
    /\ server \in {"none", "starting", "working", "hung"}
    /\ at \in {"waiting", "backoff", "resting", "stopped"}
    /\ restarts \in 0 .. MaxRestarts /\ missed \in 0 .. HungAfter /\ quick \in 0 .. MaxQuick
    /\ {told, down, old, answered} \subseteq BOOLEAN
    /\ cutter \in {"none", "looking", "cutting"} /\ scene \in {"main", "replay"}

(* "Three crashes hours apart aren't a crash loop": the club is told the        *)
(* server keeps crashing only when every one of the quick restarts has failed   *)
(* in turn, none of their rounds having settled.                               *)
OnlyALoopIsTold == [][~told /\ told' => quick' >= MaxRestarts]_vars

(* "This can't cut away from a real replay": while a server runs, the launcher  *)
(* is not about to change the scene on air.                                    *)
NoCutUnderAServer == cutter # "none" => server = "none"

\* It never stops trying: a server that is hung answers again or is killed, and without
\* one another is started; and the window stops saying the server is not there once it
\* is back for good.
ServerIsReplaced ==
    /\ server = "hung" ~> server # "hung"
    /\ server = "none" /\ at # "stopped" ~> server # "none" \/ at = "stopped"
    /\ <>[](server = "working" /\ at # "stopped") => <>[](~down)

\* A replay is not left on air by a server that never works again.
ReplayIsLeft == <>[](server # "working" /\ at # "stopped") => <>[](scene = "main")
=============================================================================
