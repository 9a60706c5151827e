----------------------------- MODULE Live_proofs -----------------------------
(* What run "live" checks, proved: the launcher's loop, its own update and the   *)
(* highlights video, for every value of their constants.                        *)
EXTENDS Supervisor, Update, Highlights, TLAPS

-----------------------------------------------------------------------------
(***************************************************************************)
(* The launcher's loop for every number of quick restarts and of misses:     *)
(* the shape of its state, that it never has OBS cut away while a server     *)
(* runs, and that the club is told of a crash loop only when it is one.      *)
(***************************************************************************)

-----------------------------------------------------------------------------
(* The type invariant, its numbers apart from its flags and names.            *)

LoopNumbers == restarts \in 0 .. MaxRestarts /\ missed \in 0 .. HungAfter /\ quick \in 0 .. MaxQuick
LoopFlags == told \in BOOLEAN /\ down \in BOOLEAN /\ old \in BOOLEAN /\ answered \in BOOLEAN
LoopNames ==
    /\ server \in {"none", "starting", "working", "hung"}
    /\ at \in {"waiting", "backoff", "resting", "stopped"}
    /\ cutter \in {"none", "looking", "cutting"} /\ scene \in {"main", "replay"}

(* A silent server is killed at its last miss, so while it runs there is room   *)
(* for another.                                                                *)
RoomForAMiss == server # "none" => missed < HungAfter

\* A server runs only while the loop waits for it, and OBS is looked at only
\* while the loop rests without one.
LoopPhase ==
    /\ server # "none" => at = "waiting"
    /\ cutter # "none" => server = "none" /\ at \in {"resting", "stopped"}

\* Every restart but one of those counted is of a round that never settled.
QuickCounted == restarts <= quick + 1

LoopInv == LoopNumbers /\ LoopFlags /\ LoopNames /\ RoomForAMiss /\ LoopPhase /\ QuickCounted

LEMMA LoopBegins == Init => LoopInv
<1> SUFFICES ASSUME Init PROVE LoopInv
    OBVIOUS
<1>1. restarts = 0 /\ missed = 0 /\ quick = 0
    BY DEF Init
<1>2. LoopNumbers /\ RoomForAMiss /\ QuickCounted
    BY <1>1, SupervisorAssumption DEF LoopNumbers, RoomForAMiss, QuickCounted
<1>3. LoopFlags /\ LoopNames /\ LoopPhase
    BY DEF Init, LoopFlags, LoopNames, LoopPhase
<1> QED BY <1>2, <1>3 DEF LoopInv

-----------------------------------------------------------------------------
(* One lemma for each group of actions.                                       *)

LEMMA EnvironmentKeeps == LoopInv /\ Environment => LoopInv'
<1> SUFFICES ASSUME LoopInv, Environment PROVE LoopInv'
    OBVIOUS
<1> USE DEF LoopInv, LoopNumbers, LoopFlags, LoopNames, RoomForAMiss, LoopPhase, QuickCounted, loop, watcher, onAir
<1>1. CASE ComesUp
    BY <1>1 DEF ComesUp, Becomes
<1>2. CASE Hangs
    BY <1>2 DEF Hangs, Becomes
<1>3. CASE Dies
    BY <1>3 DEF Dies, Becomes
<1>4. CASE StartReplay
    BY <1>4 DEF StartReplay, Replay
<1>5. CASE EndReplay
    BY <1>5 DEF EndReplay, Replay
<1>6. CASE GrowsOld
    BY <1>6 DEF GrowsOld
<1> QED BY <1>1, <1>2, <1>3, <1>4, <1>5, <1>6 DEF Environment

LEMMA WatchKeeps == LoopInv /\ Watch => LoopInv'
<1> SUFFICES ASSUME LoopInv, Watch PROVE LoopInv'
    OBVIOUS
<1> USE SupervisorAssumption
    DEF LoopInv, LoopNumbers, LoopFlags, LoopNames, RoomForAMiss, LoopPhase, QuickCounted, loop, watcher, onAir, Watching
<1>1. CASE Answers
    <2>1. missed' = 0 /\ UNCHANGED <<restarts, quick>>
        BY <1>1 DEF Answers
    <2>2. LoopNumbers' /\ RoomForAMiss' /\ QuickCounted'
        BY <2>1
    <2>3. LoopFlags' /\ LoopNames' /\ LoopPhase'
        BY <1>1 DEF Answers
    <2> QED BY <2>2, <2>3
<1>2. CASE NeverAnswered
    BY <1>2 DEF NeverAnswered
<1>3. CASE Misses
    BY <1>3 DEF Misses
<1> QED BY <1>1, <1>2, <1>3 DEF Watch

LEMMA LoopKeeps == LoopInv /\ Loop => LoopInv'
<1> SUFFICES ASSUME LoopInv, Loop PROVE LoopInv'
    OBVIOUS
<1> USE SupervisorAssumption
    DEF LoopInv, LoopNumbers, LoopFlags, LoopNames, RoomForAMiss, LoopPhase, QuickCounted, watcher, onAir
<1>1. CASE NoticeAnswer
    BY <1>1 DEF NoticeAnswer
<1>2. CASE Settle
    <2>1. restarts' = 0 /\ UNCHANGED <<missed, quick, server>>
        BY <1>2 DEF Settle
    <2>2. LoopNumbers' /\ RoomForAMiss' /\ QuickCounted'
        BY <2>1
    <2>3. LoopFlags' /\ LoopNames' /\ LoopPhase'
        BY <1>2 DEF Settle
    <2> QED BY <2>2, <2>3
<1>3. CASE CrashedOnce
    BY <1>3 DEF CrashedOnce, Round, Exited, Counted
<1>4. CASE KeepsCrashing
    BY <1>4 DEF KeepsCrashing, Round, Exited, Counted, Looks
<1> QED BY <1>1, <1>2, <1>3, <1>4 DEF Loop

LEMMA OtherKeeps ==
    LoopInv /\ (LeaveReplay \/ Launch \/ LaunchFails \/ Interrupt \/ Stopped) => LoopInv'
<1> SUFFICES ASSUME LoopInv, LeaveReplay \/ Launch \/ LaunchFails \/ Interrupt \/ Stopped
             PROVE LoopInv'
    OBVIOUS
<1> USE SupervisorAssumption
    DEF LoopInv, LoopNumbers, LoopFlags, LoopNames, RoomForAMiss, LoopPhase, QuickCounted, loop, watcher, onAir
<1>1. CASE LeaveReplay
    BY <1>1 DEF LeaveReplay, LookAtOBS, CutBack, NoAnswerFromOBS
<1>2. CASE Launch
    <2>1. missed' = 0 /\ UNCHANGED <<restarts, quick>>
        BY <1>2 DEF Launch, NextRound
    <2>2. LoopNumbers' /\ RoomForAMiss' /\ QuickCounted'
        BY <2>1
    <2>3. LoopFlags' /\ LoopNames' /\ LoopPhase'
        BY <1>2 DEF Launch, Due, NextRound
    <2> QED BY <2>2, <2>3
<1>3. CASE LaunchFails
    <2>1. missed' = 0 /\ UNCHANGED <<restarts, quick>>
        BY <1>3 DEF LaunchFails, NextRound
    <2>2. LoopNumbers' /\ RoomForAMiss' /\ QuickCounted'
        BY <2>1
    <2>3. LoopFlags' /\ LoopNames' /\ LoopPhase'
        BY <1>3 DEF LaunchFails, Due, NextRound
    <2> QED BY <2>2, <2>3
<1>4. CASE Interrupt
    BY <1>4 DEF Interrupt
<1>5. CASE Stopped
    BY <1>5 DEF Stopped, vars
<1> QED BY <1>1, <1>2, <1>3, <1>4, <1>5

LEMMA LoopStepKeeps == LoopInv /\ [Next]_vars => LoopInv'
<1> SUFFICES ASSUME LoopInv, [Next]_vars PROVE LoopInv'
    OBVIOUS
<1>1. CASE UNCHANGED vars
    BY <1>1 DEF vars, loop, watcher, onAir, LoopInv, LoopNumbers, LoopFlags, LoopNames, RoomForAMiss, LoopPhase, QuickCounted
<1> QED BY <1>1, EnvironmentKeeps, WatchKeeps, LoopKeeps, OtherKeeps DEF Next

LEMMA LoopInductive == Spec => []LoopInv
BY LoopBegins, LoopStepKeeps, PTL DEF Spec

-----------------------------------------------------------------------------
(* Each variable of the loop, the watcher and the scene stays in its range.    *)
THEOREM SupervisorTyped == Spec => []SupervisorTypeOK
<1>1. LoopInv => SupervisorTypeOK
    BY DEF LoopInv, LoopNumbers, LoopFlags, LoopNames, SupervisorTypeOK
<1> QED BY <1>1, LoopInductive, PTL

(* The launcher's look at OBS (cutBackFromReplay) is never under way while a    *)
(* server runs, so it cannot cut away from a real replay.                      *)
THEOREM NoCut == Spec => []NoCutUnderAServer
<1>1. LoopInv => NoCutUnderAServer
    BY DEF LoopInv, LoopPhase, NoCutUnderAServer
<1> QED BY <1>1, LoopInductive, PTL

(* The "keeps crashing" message is said only in a round that ends a run of at    *)
(* least ServerMaxRestarts rounds which never settled.                         *)
THEOREM OnlyALoop == Spec => OnlyALoopIsTold
<1>1. ASSUME LoopInv, [Next]_vars, ~told, told' PROVE quick' >= MaxRestarts
    <2>1. CASE KeepsCrashing
        BY <1>1, <2>1, SupervisorAssumption
        DEF LoopInv, LoopNumbers, LoopFlags, QuickCounted, KeepsCrashing, Round, Counted
    <2>2. ASSUME ~KeepsCrashing PROVE told' = told \/ told' = FALSE
        BY <1>1, <2>2
        DEF Next, Environment, Watch, Loop, LeaveReplay, ComesUp, Hangs, Dies, Becomes,
            StartReplay, EndReplay, Replay, GrowsOld, Answers, NeverAnswered, Misses, Watching,
            NoticeAnswer, Settle, CrashedOnce, LookAtOBS, CutBack, NoAnswerFromOBS, Launch,
            LaunchFails, Interrupt, Stopped, NextRound, loop, vars
    <2> QED BY <1>1, <2>1, <2>2
<1>2. LoopInv /\ [Next]_vars => [~told /\ told' => quick' >= MaxRestarts]_vars
    BY <1>1
<1> QED BY <1>2, LoopInductive, PTL DEF Spec, OnlyALoopIsTold

-----------------------------------------------------------------------------
(***************************************************************************)
(* A whole copy of the program is always there (update.go), for any number of   *)
(* presses of Update now, wherever each fails and whenever the process ends.     *)
(*                                                                         *)
(* ACopyIsThere is not inductive.  While this copy runs, the copy it is runs      *)
(* under the program's name until one goroutine moves it aside, and until it is    *)
(* moved back no other may (OneSwap, Beside): Windows does not let them replace    *)
(* the one that runs.  What is under the name meanwhile is told by where that one   *)
(* goroutine is (Named).                                                      *)
(***************************************************************************)

UpdateSteps == {"idle", "begun", "fetching", "writing", "checking", "checked", "placing", "placed",
          "undoing", "failing", "quitting", "over"}

UpdateTyped ==
    /\ exe \in {"old", "new", "broken", "none"} /\ aside \in {"old", "stale", "none"}
    /\ stage \in [Presses -> UpdateSteps]
    /\ window \in {"open", "finishing", "gone"}
    /\ successor \in {"none", "waiting", "open", "gone"}

\* Where this copy is moved aside for, and not moved back yet.
Between == {"placing", "placed", "undoing", "quitting"}

OneSwap == \A u, v \in Presses : stage[u] \in Between /\ stage[v] \in Between => u = v

Beside == Running /\ aside # "old" => exe = "old" /\ \A u \in Presses : stage[u] \notin Between

Named ==
    Running /\ aside = "old" =>
        /\ \A u \in Presses :
              /\ stage[u] \in {"placing", "undoing"} => exe = "none"
              /\ stage[u] = "placed" => exe \in {"new", "broken"}
              /\ stage[u] = "quitting" => exe \in {"new", "broken"}
        /\ (\A u \in Presses : stage[u] \notin Between) => exe \in {"new", "broken"}

Followed == successor # "none" =>
    /\ exe \in {"new", "broken"} /\ (Running => aside = "old")
    /\ \A u \in Presses : stage[u] # "placed"

Ended == ~Running =>
    /\ exe = "none" => aside = "old" /\ torn
    /\ exe = "broken" => aside = "old" \/ successor = "open"
    /\ \A u \in Presses : stage[u] = "over"

UpdateInv == UpdateTyped /\ OneSwap /\ Beside /\ Named /\ Followed /\ Ended

-----------------------------------------------------------------------------
LEMMA UpdateBegins == UpdateInit => UpdateInv
  BY DEF UpdateInit, UpdateInv, UpdateTyped, UpdateSteps, Between, OneSwap, Beside, Named, Followed, Ended, Running

(* Where a goroutine goes without touching the program's names, nothing else changes.          *)
LEMMA QuietKeeps ==
  ASSUME UpdateInv, Running, NEW u \in Presses, stage[u] \notin Between,
         NEW to \in UpdateSteps \ Between, stage' = [stage EXCEPT ![u] = to],
         UNCHANGED <<exe, window, successor, torn>>,
         aside' = aside \/ (aside = "stale" /\ aside' = "none")
  PROVE  UpdateInv'
<1> USE DEF UpdateInv
<1>1. stage'[u] = to /\ \A v \in Presses \ {u} : stage'[v] = stage[v]
  BY DEF UpdateTyped
<1>2. UpdateTyped' /\ Running' /\ (aside' = "old" <=> aside = "old")
  BY DEF UpdateTyped, Running
<1>3. \A v \in Presses : /\ stage'[v] \in Between <=> stage[v] \in Between
                         /\ stage'[v] \in Between => stage'[v] = stage[v]
  BY <1>1
<1>4. OneSwap'
  BY <1>3 DEF OneSwap
<1>5. Beside'
  BY <1>2, <1>3 DEF Beside
<1>6. Named'
  BY <1>2, <1>3 DEF Named, Between
<1>7. Followed' /\ Ended'
  BY <1>2, <1>3 DEF Followed, Ended, Between
<1> QED
  BY <1>2, <1>4, <1>5, <1>6, <1>7

(* The goroutine that has this copy aside goes on: no other has.                              *)
LEMMA SwapKeeps ==
  ASSUME UpdateInv, Running, NEW u \in Presses, stage[u] \in Between,
         NEW to \in Between, stage' = [stage EXCEPT ![u] = to],
         UNCHANGED <<aside, window, torn>>,
         exe' \in {"old", "new", "broken", "none"},
         to \in {"placing", "undoing"} => exe' = "none",
         to = "placed" => exe' \in {"new", "broken"},
         to = "quitting" => exe' \in {"new", "broken"},
         successor' \in {"none", "waiting", "open", "gone"},
         successor' # "none" => exe' \in {"new", "broken"} /\ to # "placed"
  PROVE  UpdateInv'
<1> USE DEF UpdateInv
<1>1. stage'[u] = to /\ \A v \in Presses \ {u} : stage'[v] = stage[v]
  BY DEF UpdateTyped
<1>2. aside = "old" /\ Running'
  BY DEF Beside, Running
<1>3. UpdateTyped'
  BY DEF UpdateTyped, UpdateSteps, Between
<1>4. \A v \in Presses : stage'[v] \in Between => v = u
  BY <1>1 DEF OneSwap
<1>5. OneSwap' /\ Beside' /\ Followed' /\ Ended'
  BY <1>1, <1>2, <1>4 DEF OneSwap, Beside, Followed, Ended, Between
<1>6. Named'
  BY <1>1, <1>4 DEF Named, Between
<1> QED
  BY <1>3, <1>5, <1>6

(* The start of a swap, and its two ends: moved back, and the new copy started.                *)
LEMMA MoveAsideKeeps ==
  ASSUME UpdateInv, NEW u \in Presses, MoveAside(u)
  PROVE  UpdateInv'
<1> USE DEF UpdateInv
<1>1. /\ Running /\ aside # "old" /\ exe' = "none" /\ aside' = exe
      /\ stage' = [stage EXCEPT ![u] = "placing"] /\ UNCHANGED <<window, successor, torn>>
  BY DEF MoveAside, Goes, Others
<1>2. exe = "old" /\ \A v \in Presses : stage[v] \notin Between
  BY <1>1 DEF Beside
<1>3. stage'[u] = "placing" /\ \A v \in Presses \ {u} : stage'[v] = stage[v]
  BY <1>1 DEF UpdateTyped
<1>4. UpdateTyped' /\ Running' /\ aside' = "old"
  BY <1>1, <1>2 DEF UpdateTyped, UpdateSteps, Running
<1>5. successor = "none"
  BY <1>1 DEF Followed, UpdateTyped
<1>6. OneSwap' /\ Beside' /\ Followed' /\ Ended'
  BY <1>1, <1>2, <1>3, <1>4, <1>5 DEF OneSwap, Beside, Followed, Ended
<1>7. Named'
  BY <1>1, <1>2, <1>3 DEF Named, Between
<1> QED
  BY <1>4, <1>6, <1>7

LEMMA UndoKeeps ==
  ASSUME UpdateInv, NEW u \in Presses, Undo(u)
  PROVE  UpdateInv'
<1> USE DEF UpdateInv
<1>1. /\ Running /\ stage[u] = "undoing" /\ exe' = aside /\ aside' = "none"
      /\ stage' = [stage EXCEPT ![u] = "failing"] /\ UNCHANGED <<window, successor, torn>>
  BY DEF Undo, Goes, Others
<1>2. aside = "old" /\ exe = "none"
  BY <1>1 DEF Beside, Named, Between
<1>3. stage'[u] = "failing" /\ \A v \in Presses \ {u} : stage'[v] = stage[v]
  BY <1>1 DEF UpdateTyped
<1>4. \A v \in Presses : stage'[v] \notin Between
  BY <1>1, <1>3 DEF OneSwap, Between
<1>5. UpdateTyped' /\ Running'
  BY <1>1, <1>2 DEF UpdateTyped, UpdateSteps, Running
<1>6. successor = "none"
  BY <1>2 DEF Followed
<1> QED
  BY <1>1, <1>2, <1>4, <1>5, <1>6 DEF OneSwap, Beside, Named, Followed, Ended

LEMMA QuitKeeps ==
  ASSUME UpdateInv, NEW u \in Presses, Quit(u)
  PROVE  UpdateInv'
<1> USE DEF UpdateInv
<1>1. /\ Running /\ stage[u] = "quitting" /\ UNCHANGED <<exe, aside, successor, torn>>
      /\ stage' = [stage EXCEPT ![u] = "over"]
      /\ window' = (IF window = "open" THEN "finishing" ELSE window)
  BY DEF Quit, Goes
<1>2. aside = "old" /\ exe \in {"new", "broken"}
  BY <1>1 DEF Beside, Named, Between
<1>3. stage'[u] = "over" /\ \A v \in Presses \ {u} : stage'[v] = stage[v]
  BY <1>1 DEF UpdateTyped
<1>4. \A v \in Presses : stage'[v] \notin Between
  BY <1>1, <1>3 DEF OneSwap, Between
<1>5. UpdateTyped' /\ Running'
  BY <1>1 DEF UpdateTyped, UpdateSteps, Running
<1> QED
  BY <1>1, <1>2, <1>4, <1>5 DEF OneSwap, Beside, Named, Followed, Ended, Between

LEMMA PressKeeps ==
  ASSUME UpdateInv, NEW u \in Presses, Step(u)
  PROVE  UpdateInv'
<1> USE DEF UpdateInv
<1>1. CASE Begin(u)
  BY <1>1, QuietKeeps DEF Begin, Goes, files, Others, UpdateSteps, Between
<1>2. ASSUME NEW from \in UpdateSteps \ Between, Fail(u, from) PROVE UpdateInv'
  BY <1>2, QuietKeeps DEF Fail, Goes, Others, UpdateSteps, Between
<1>3. CASE Create(u)
  BY <1>3, QuietKeeps DEF Create, Goes, Others, UpdateSteps, Between
<1>4. CASE Progress(u)
  BY <1>4 DEF Progress, files, Others, UpdateTyped, OneSwap, Beside, Named, Followed, Ended, Running
<1>5. ASSUME NEW what \in {"bad", "good"}, Fetched(u, what) PROVE UpdateInv'
  BY <1>5, QuietKeeps DEF Fetched, Goes, Others, UpdateSteps, Between
<1>6. CASE Checked(u)
  BY <1>6, QuietKeeps DEF Checked, Goes, files, Others, UpdateSteps, Between
<1>7. CASE Refused(u)
  BY <1>2, <1>7 DEF Refused, UpdateSteps, Between
<1>8. CASE MoveAside(u)
  BY <1>8, MoveAsideKeeps
<1>9. CASE CannotMove(u)
  BY <1>9, QuietKeeps DEF CannotMove, Goes, Others, UpdateSteps, Between
<1>10. CASE Place(u)
  <2>1. successor = "none"
    BY <1>10 DEF Place, Goes, Followed, Named, Beside, Between
  <2> QED
    BY <1>10, <2>1, SwapKeeps DEF Place, Goes, Others, Between
<1>11. CASE CannotPlace(u)
  <2>1. exe = "none" /\ successor = "none"
    BY <1>11 DEF CannotPlace, Goes, Followed, Named, Beside, Between
  <2> QED
    BY <1>11, <2>1, SwapKeeps DEF CannotPlace, AfterRefusal, Goes, files, Others, Between
<1>12. CASE Relaunch(u)
  <2>1. exe \in {"new", "broken"}
    BY <1>12 DEF Relaunch, Goes, Beside, Named, Between
  <2> QED
    BY <1>12, <2>1, SwapKeeps DEF Relaunch, Goes, files, Between
<1>13. CASE WillNotStart(u)
  <2>1. successor = "none"
    BY <1>13 DEF WillNotStart, Goes, Followed
  <2> QED
    BY <1>13, <2>1, SwapKeeps DEF WillNotStart, Goes, Others, Between
<1>14. CASE Undo(u)
  BY <1>14, UndoKeeps
<1>15. CASE Quit(u)
  BY <1>15, QuitKeeps
<1> QED
  BY <1>1, <1>2, <1>3, <1>4, <1>5, <1>6, <1>7, <1>8, <1>9, <1>10, <1>11, <1>12, <1>13,
     <1>14, <1>15 DEF Step, UpdateSteps, Between
(* The process ends, and the copy that follows tidies up what is beside it.                    *)
LEMMA EndsKeep ==
  ASSUME UpdateInv, Exit \/ TakeOver
  PROVE  UpdateInv'
<1> USE DEF UpdateInv
<1>1. CASE Exit
  <2>1. /\ Running /\ ~Running' /\ UNCHANGED <<exe, aside, successor>>
        /\ torn' = (exe = "none") /\ stage' = [u \in Presses |-> "over"] /\ window' = "gone"
    BY <1>1 DEF Exit, files, Running
  <2>2. UpdateTyped' /\ \A u \in Presses : stage'[u] = "over"
    BY <2>1 DEF UpdateTyped, UpdateSteps
  <2>3. exe \in {"none", "broken"} => aside = "old"
    BY <2>1 DEF Beside
  <2> QED
    BY <2>1, <2>2, <2>3 DEF OneSwap, Beside, Named, Followed, Ended, Between
<1>2. CASE TakeOver
  <2>1. /\ ~Running /\ ~Running' /\ successor = "waiting" /\ successor' = "open"
        /\ aside' \in {aside, "none"} /\ UNCHANGED <<exe, stage, window, torn>>
    BY <1>2 DEF TakeOver, threads, Running
  <2>2. exe \in {"new", "broken"}
    BY <2>1 DEF Followed
  <2> QED
    BY <2>1, <2>2 DEF UpdateTyped, OneSwap, Beside, Named, Followed, Ended
<1> QED
  BY <1>1, <1>2

LEMMA UpdateKeeps == UpdateInv /\ [UpdateNext]_update => UpdateInv'
<1> SUFFICES ASSUME UpdateInv, [UpdateNext]_update PROVE UpdateInv'
  OBVIOUS
<1> USE DEF UpdateInv
<1>1. ASSUME NEW u \in Presses, Press(u) PROVE UpdateInv'
  BY <1>1, QuietKeeps DEF Press, Goes, files, Others, UpdateSteps, Between
<1>2. ASSUME NEW u \in Presses, Step(u) PROVE UpdateInv'
  BY <1>2, PressKeeps
<1>3. CASE UNCHANGED <<exe, aside, stage, window, successor, torn>>
  BY <1>3 DEF UpdateTyped, OneSwap, Beside, Named, Followed, Ended, Running
<1>4. CASE Check \/ StartMatchDay \/ MatchDayEnds \/ UNCHANGED update
  BY <1>3, <1>4 DEF Check, StartMatchDay, MatchDayEnds, update, files, threads
<1>5. CASE CloseWindow \/ LeaveItOpen
  <2>1. /\ UNCHANGED <<exe, aside, stage, torn>> /\ (Running <=> Running') /\ UpdateTyped'
        /\ successor' # "none" => successor # "none"
        /\ successor = "open" => successor' = "open"
    BY <1>5 DEF CloseWindow, LeaveItOpen, files, threads, Running, UpdateTyped
  <2> QED
    BY <2>1 DEF OneSwap, Beside, Named, Followed, Ended
<1>6. CASE Exit \/ TakeOver
  BY <1>6, EndsKeep
<1> QED
  BY <1>1, <1>2, <1>4, <1>5, <1>6 DEF UpdateNext

-----------------------------------------------------------------------------
(* However an update goes, a copy is under the program's name, but for a swap that is under      *)
(* way or that the end of the process cut short; and the old one is beside it then, and where    *)
(* what was placed is not what was checked, until the copy that was started removes it.          *)
THEOREM ACopyAlways == UpdateSpec => []ACopyIsThere
<1>1. UpdateInv => ACopyIsThere
  <2> SUFFICES ASSUME UpdateInv PROVE ACopyIsThere
    OBVIOUS
  <2>1. CASE ~Running
    BY <2>1 DEF UpdateInv, Ended, ACopyIsThere
  <2>2. CASE Running /\ aside # "old"
    BY <2>2 DEF UpdateInv, Beside, ACopyIsThere
  <2>3. CASE Running /\ aside = "old"
    <3>1. CASE \A u \in Presses : stage[u] \notin Between
      BY <2>3, <3>1 DEF UpdateInv, Named, ACopyIsThere
    <3>2. CASE \E u \in Presses : stage[u] \in Between
      BY <2>3, <3>2 DEF UpdateInv, Named, ACopyIsThere, Swapping, Between
    <3> QED
      BY <3>1, <3>2
  <2> QED
    BY <2>1, <2>2, <2>3
<1> QED
  BY UpdateBegins, UpdateKeeps, <1>1, PTL DEF UpdateSpec

-----------------------------------------------------------------------------
(***************************************************************************)
(* Once per match unless forced (ytafter.go), for any number of streams,       *)
(* presses, jobs, failures and restarts.                                      *)
(*                                                                         *)
(* OncePerMatch is not inductive: it holds because there is never a second     *)
(* upload at work (OneJob, which rests on the flag: BusyIsSaid), because one     *)
(* that is not forced found no record and none can appear beside it            *)
(* (NoneRecorded), and because a video the server has no record of is either      *)
(* excused or in the hands of the job that is about to record it (VideosCounted).       *)
(***************************************************************************)

JobPlaces == {"none", "asked", "uploading", "taken", "recorded"}

HighlightsTyped ==
    /\ job \in [Jobs -> [at : JobPlaces, force : BOOLEAN]]
    /\ \A j \in Jobs : job[j].at = "none" => job[j] = Free
    /\ videos \in Nat /\ excused \in Nat
    /\ running \in BOOLEAN /\ recorded \in BOOLEAN

AtWork(j) == job[j].at # "none"

OneJob == \A j, k \in Jobs : AtWork(j) /\ AtWork(k) => j = k

BusyIsSaid == \A j \in Jobs : AtWork(j) => running

NoneRecorded == \A j \in Jobs : job[j].at = "uploading" /\ ~job[j].force => ~recorded

\* A video that nobody forced is in the hands of a job that has yet to record it.
InHand == \E j \in Jobs : job[j].at = "taken" /\ ~job[j].force

VideosCounted ==
    /\ recorded \/ InHand => videos <= excused + 1
    /\ ~recorded /\ ~InHand => videos <= excused

HighlightsInv == HighlightsTyped /\ OneJob /\ BusyIsSaid /\ NoneRecorded /\ VideosCounted

-----------------------------------------------------------------------------
LEMMA HighlightsBegin == HighlightsInit => HighlightsInv
<1> SUFFICES ASSUME HighlightsInit PROVE HighlightsInv
  OBVIOUS
<1>1. HighlightsTyped
  BY DEF HighlightsInit, HighlightsTyped, JobPlaces, Free
<1>2. \A j \in Jobs : ~AtWork(j) /\ job[j].at = "none"
  BY DEF HighlightsInit, AtWork, Free
<1>3. OneJob /\ BusyIsSaid /\ NoneRecorded /\ ~InHand
  BY <1>2 DEF OneJob, BusyIsSaid, NoneRecorded, InHand
<1>4. VideosCounted
  BY <1>3 DEF HighlightsInit, VideosCounted
<1> QED
  BY <1>1, <1>3, <1>4 DEF HighlightsInv

(* StartHighlightsUpload: a job begins only where none is at work.  Nothing that the counts    *)
(* depend on changes.                                                                        *)
LEMMA StartKeeps ==
  ASSUME HighlightsInv, NEW force \in BOOLEAN, Start(force),
         UNCHANGED <<recorded, videos, excused>>
  PROVE  HighlightsInv'
<1> USE DEF HighlightsInv
<1>1. CASE running
  <2>1. UNCHANGED <<running, job>>
    BY <1>1 DEF Start, Idle
  <2> QED
    BY <2>1 DEF HighlightsTyped, OneJob, BusyIsSaid, NoneRecorded, VideosCounted, InHand, AtWork
<1>2. CASE ~running
  <2>1. PICK j \in Jobs : job' = [job EXCEPT ![j] = [at |-> "asked", force |-> force]]
    BY <1>2 DEF Start, Idle
  <2>2. running' = TRUE
    BY <1>2 DEF Start, Idle
  <2>3. \A k \in Jobs : ~AtWork(k)
    BY <1>2 DEF BusyIsSaid
  <2>4. \A k \in Jobs : AtWork(k)' <=> k = j
    BY <2>1, <2>3 DEF HighlightsTyped, AtWork
  <2>5. HighlightsTyped'
    BY <2>1, <2>2 DEF HighlightsTyped, JobPlaces, Free
  <2>6. \A k \in Jobs : job'[k].at \notin {"uploading", "taken"}
    BY <2>1, <2>3 DEF HighlightsTyped, AtWork
  <2>7. ~InHand /\ ~InHand'
    BY <2>3, <2>6 DEF InHand, AtWork
  <2>8. VideosCounted'
    BY <2>7 DEF VideosCounted
  <2> QED
    BY <2>2, <2>4, <2>5, <2>6, <2>8 DEF OneJob, BusyIsSaid, NoneRecorded
<1> QED
  BY <1>1, <1>2 DEF HighlightsTyped

(* What all the steps of an upload have in common: the job at work is the only one, and where  *)
(* it goes is where all are.                                                                 *)
LEMMA OnlyItMoves ==
  ASSUME HighlightsInv, NEW j \in Jobs, AtWork(j),
         NEW n \in [at : JobPlaces, force : BOOLEAN], n.at = "none" => n = Free,
         job' = [job EXCEPT ![j] = n]
  PROVE  /\ job' \in [Jobs -> [at : JobPlaces, force : BOOLEAN]]
         /\ \A k \in Jobs : job'[k].at = "none" => job'[k] = Free
         /\ OneJob'
         /\ \A k \in Jobs : AtWork(k)' => k = j /\ n.at # "none"
         /\ InHand <=> job[j].at = "taken" /\ ~job[j].force
         /\ InHand' <=> n.at = "taken" /\ ~n.force
<1> USE DEF HighlightsInv
<1>1. job'[j] = n /\ \A k \in Jobs \ {j} : job'[k] = job[k]
  BY DEF HighlightsTyped
<1>2. \A k \in Jobs \ {j} : job[k].at = "none"
  BY DEF OneJob, AtWork
<1>3. \A k \in Jobs : AtWork(k)' => k = j /\ n.at # "none"
  BY <1>1, <1>2 DEF AtWork
<1>4. InHand <=> job[j].at = "taken" /\ ~job[j].force
  BY <1>2 DEF InHand
<1>5. InHand' <=> n.at = "taken" /\ ~n.force
  BY <1>1, <1>2 DEF InHand
<1>6. OneJob'
  BY <1>3 DEF OneJob
<1>7. job' \in [Jobs -> [at : JobPlaces, force : BOOLEAN]]
  BY DEF HighlightsTyped
<1>8. \A k \in Jobs : job'[k].at = "none" => job'[k] = Free
  BY <1>1 DEF HighlightsTyped
<1> QED
  BY <1>3, <1>4, <1>5, <1>6, <1>7, <1>8

(* A way out gives the flag up, and no other job has it. *)
LEMMA LeavingKeeps ==
  ASSUME HighlightsInv, NEW j \in Jobs, NEW from \in JobPlaces \ {"none"}, Leaves(j, from),
         UNCHANGED recorded, videos' \in Nat, excused' \in Nat,
         ~recorded /\ ~InHand' => videos' <= excused',
         recorded => videos' <= excused' + 1
  PROVE  HighlightsInv'
<1>1. AtWork(j) /\ job' = [job EXCEPT ![j] = Free] /\ running' = FALSE
  BY DEF Leaves, AtWork
<1>2. /\ job' \in [Jobs -> [at : JobPlaces, force : BOOLEAN]]
      /\ \A k \in Jobs : job'[k].at = "none" => job'[k] = Free
      /\ OneJob' /\ ~InHand'
      /\ \A k \in Jobs : ~AtWork(k)'
  <2>1. Free \in [at : JobPlaces, force : BOOLEAN] /\ Free.at = "none"
    BY DEF Free, JobPlaces
  <2> QED
    BY <1>1, <2>1, OnlyItMoves
<1>3. HighlightsTyped'
  BY <1>1, <1>2 DEF HighlightsInv, HighlightsTyped
<1>4. BusyIsSaid' /\ NoneRecorded'
  BY <1>2 DEF BusyIsSaid, NoneRecorded, AtWork
<1>5. VideosCounted'
  BY <1>2 DEF VideosCounted, HighlightsInv, HighlightsTyped
<1> QED
  BY <1>2, <1>3, <1>4, <1>5 DEF HighlightsInv

(* Every step of an upload keeps the invariant. *)
LEMMA JobKeeps ==
  ASSUME HighlightsInv, NEW j \in Jobs, JobStep(j)
  PROVE  HighlightsInv'
<1> USE DEF HighlightsInv
<1>1. CASE AlreadyThere(j)
  <2>1. Leaves(j, "asked") /\ UNCHANGED <<recorded, videos, excused>>
    BY <1>1 DEF AlreadyThere
  <2>2. ~InHand
    BY <1>1 DEF AlreadyThere, Leaves, OneJob, InHand, AtWork
  <2> QED
    BY <2>1, <2>2, LeavingKeeps DEF VideosCounted, HighlightsTyped, JobPlaces
<1>2. CASE CannotBuild(j)
  <2>1. Leaves(j, "asked") /\ UNCHANGED <<recorded, videos, excused>>
    BY <1>2 DEF CannotBuild
  <2>2. ~InHand
    BY <1>2 DEF CannotBuild, Leaves, OneJob, InHand, AtWork
  <2> QED
    BY <2>1, <2>2, LeavingKeeps DEF VideosCounted, HighlightsTyped, JobPlaces
<1>3. CASE UploadFails(j)
  <2>1. Leaves(j, "uploading") /\ UNCHANGED <<recorded, videos, excused>>
    BY <1>3 DEF UploadFails
  <2>2. ~InHand
    BY <1>3 DEF UploadFails, Leaves, OneJob, InHand, AtWork
  <2> QED
    BY <2>1, <2>2, LeavingKeeps DEF VideosCounted, HighlightsTyped, JobPlaces
<1>4. CASE AnswerLost(j)
  <2>1. Leaves(j, "uploading") /\ UNCHANGED recorded /\ videos' = videos + 1 /\ excused' = excused + 1
    BY <1>4 DEF AnswerLost
  <2>2. ~InHand
    BY <1>4 DEF AnswerLost, Leaves, OneJob, InHand, AtWork
  <2> QED
    BY <2>1, <2>2, LeavingKeeps DEF VideosCounted, HighlightsTyped, JobPlaces
<1>5. CASE Finish(j)
  <2>1. Leaves(j, "recorded") /\ UNCHANGED <<recorded, videos, excused>>
    BY <1>5 DEF Finish
  <2>2. ~InHand
    BY <1>5 DEF Finish, Leaves, OneJob, InHand, AtWork
  <2> QED
    BY <2>1, <2>2, LeavingKeeps DEF VideosCounted, HighlightsTyped, JobPlaces
<1>6. CASE Build(j)
  <2> DEFINE n == [job[j] EXCEPT !.at = "uploading"]
  <2>1. /\ job[j].at = "asked" /\ job' = [job EXCEPT ![j] = n] /\ running' = TRUE
        /\ ~recorded \/ job[j].force
        /\ UNCHANGED <<recorded, videos, excused>>
    BY <1>6 DEF Build, JobGoes
  <2>2. AtWork(j) /\ n \in [at : JobPlaces, force : BOOLEAN] /\ n.at = "uploading" /\ n.force = job[j].force
    BY <2>1 DEF AtWork, HighlightsTyped, JobPlaces
  <2> HIDE DEF n
  <2>3. /\ job' \in [Jobs -> [at : JobPlaces, force : BOOLEAN]]
        /\ \A k \in Jobs : job'[k].at = "none" => job'[k] = Free
        /\ OneJob' /\ \A k \in Jobs : AtWork(k)' => k = j
        /\ ~InHand /\ ~InHand'
    BY <2>1, <2>2, OnlyItMoves
  <2>4. HighlightsTyped' /\ BusyIsSaid'
    BY <2>1, <2>3 DEF HighlightsTyped, BusyIsSaid
  <2>5. NoneRecorded'
    BY <2>1, <2>2, <2>3 DEF NoneRecorded, AtWork, HighlightsTyped
  <2>6. VideosCounted'
    BY <2>1, <2>3 DEF VideosCounted
  <2> QED
    BY <2>3, <2>4, <2>5, <2>6
<1>7. CASE RecordUnread(j)
  <2> DEFINE n == [at |-> "uploading", force |-> TRUE]
  <2>1. /\ job[j] = [at |-> "asked", force |-> FALSE] /\ job' = [job EXCEPT ![j] = n]
        /\ UNCHANGED <<running, recorded, videos, excused>>
    BY <1>7 DEF RecordUnread
  <2>2. /\ AtWork(j) /\ job[j].at = "asked"
        /\ n \in [at : JobPlaces, force : BOOLEAN] /\ n.at = "uploading"
    BY <2>1 DEF AtWork, JobPlaces
  <2> HIDE DEF n
  <2>3. /\ job' \in [Jobs -> [at : JobPlaces, force : BOOLEAN]]
        /\ \A k \in Jobs : job'[k].at = "none" => job'[k] = Free
        /\ OneJob' /\ \A k \in Jobs : AtWork(k)' => k = j
        /\ ~InHand /\ ~InHand'
    BY <2>1, <2>2, OnlyItMoves
  <2>4. HighlightsTyped' /\ BusyIsSaid'
    BY <2>1, <2>2, <2>3 DEF HighlightsTyped, BusyIsSaid
  <2>5. NoneRecorded'
    <3>1. job'[j].force = TRUE
      BY <2>1 DEF HighlightsTyped, n
    <3> QED
      BY <2>3, <3>1 DEF NoneRecorded, AtWork
  <2>6. VideosCounted'
    BY <2>1, <2>3 DEF VideosCounted
  <2> QED
    BY <2>3, <2>4, <2>5, <2>6
<1>8. CASE Upload(j)
  <2> DEFINE n == [job[j] EXCEPT !.at = "taken"]
  <2>1. /\ job[j].at = "uploading" /\ job' = [job EXCEPT ![j] = n]
        /\ videos' = videos + 1 /\ excused' = excused + Excuse(j)
        /\ UNCHANGED <<running, recorded>>
    BY <1>8 DEF Upload, JobGoes
  <2>2. AtWork(j) /\ n \in [at : JobPlaces, force : BOOLEAN] /\ n.at = "taken" /\ n.force = job[j].force
    BY <2>1 DEF AtWork, HighlightsTyped, JobPlaces
  <2> HIDE DEF n
  <2>3. /\ job' \in [Jobs -> [at : JobPlaces, force : BOOLEAN]]
        /\ \A k \in Jobs : job'[k].at = "none" => job'[k] = Free
        /\ OneJob' /\ \A k \in Jobs : AtWork(k)' => k = j
        /\ ~InHand /\ (InHand' <=> ~job[j].force)
    BY <2>1, <2>2, OnlyItMoves
  <2>4. Excuse(j) = (IF job[j].force THEN 1 ELSE 0)
    BY DEF Excuse
  <2>5. HighlightsTyped' /\ BusyIsSaid'
    BY <2>1, <2>2, <2>3, <2>4 DEF HighlightsTyped, BusyIsSaid
  <2>6. NoneRecorded'
    BY <2>1, <2>2, <2>3 DEF NoneRecorded, AtWork, HighlightsTyped
  <2>7. VideosCounted'
    <3>1. CASE job[j].force
      BY <2>1, <2>3, <2>4, <3>1 DEF VideosCounted, HighlightsTyped
    <3>2. CASE ~job[j].force
      BY <2>1, <2>3, <2>4, <3>2 DEF VideosCounted, NoneRecorded, HighlightsTyped
    <3> QED
      BY <3>1, <3>2
  <2> QED
    BY <2>3, <2>5, <2>6, <2>7
<1>9. CASE Record(j)
  <2> DEFINE n == [job[j] EXCEPT !.at = "recorded"]
  <2>1. /\ job[j].at = "taken" /\ job' = [job EXCEPT ![j] = n]
        /\ UNCHANGED <<running, videos>>
        /\ \/ recorded' = TRUE /\ UNCHANGED excused
           \/ ~recorded /\ excused' = excused + 1 - Excuse(j) /\ UNCHANGED recorded
    BY <1>9 DEF Record, JobGoes
  <2>2. AtWork(j) /\ n \in [at : JobPlaces, force : BOOLEAN] /\ n.at = "recorded"
    BY <2>1 DEF AtWork, HighlightsTyped, JobPlaces
  <2> HIDE DEF n
  <2>3. /\ job' \in [Jobs -> [at : JobPlaces, force : BOOLEAN]]
        /\ \A k \in Jobs : job'[k].at = "none" => job'[k] = Free
        /\ OneJob' /\ \A k \in Jobs : AtWork(k)' => k = j
        /\ (InHand <=> ~job[j].force) /\ ~InHand'
    BY <2>1, <2>2, OnlyItMoves
  <2>4. Excuse(j) = (IF job[j].force THEN 1 ELSE 0)
    BY DEF Excuse
  <2>5. HighlightsTyped' /\ BusyIsSaid'
    <3>1. excused' \in Nat
      BY <2>1, <2>4 DEF HighlightsTyped
    <3>2. running
      BY <2>2 DEF BusyIsSaid
    <3> QED
      BY <2>1, <2>3, <3>1, <3>2 DEF HighlightsTyped, BusyIsSaid
  <2>6. NoneRecorded'
    BY <2>1, <2>2, <2>3 DEF NoneRecorded, AtWork, HighlightsTyped
  <2>7. VideosCounted'
    <3>1. CASE job[j].force
      BY <2>1, <2>3, <2>4, <3>1 DEF VideosCounted, HighlightsTyped
    <3>2. CASE ~job[j].force
      BY <2>1, <2>3, <2>4, <3>2 DEF VideosCounted, HighlightsTyped
    <3> QED
      BY <3>1, <3>2
  <2> QED
    BY <2>3, <2>5, <2>6, <2>7
<1> QED
  BY <1>1, <1>2, <1>3, <1>4, <1>5, <1>6, <1>7, <1>8, <1>9 DEF JobStep

(* A restart forgets every job; what one of them had given YouTube stays there. *)
LEMMA RestartKeeps ==
  ASSUME HighlightsInv, Restart
  PROVE  HighlightsInv'
<1> USE DEF HighlightsInv
<1>1. job' = [j \in Jobs |-> Free] /\ running' = FALSE /\ UNCHANGED recorded
  BY DEF Restart
<1>2. /\ job' \in [Jobs -> [at : JobPlaces, force : BOOLEAN]]
      /\ \A k \in Jobs : job'[k] = Free
      /\ \A k \in Jobs : job'[k].at = "none"
  BY <1>1 DEF JobPlaces, Free
<1>3. OneJob' /\ BusyIsSaid' /\ NoneRecorded' /\ ~InHand'
  BY <1>2 DEF OneJob, BusyIsSaid, NoneRecorded, InHand, AtWork
<1>4. videos' \in Nat /\ excused' \in Nat /\ VideosCounted'
  <2>1. CASE /\ \E j \in Jobs : job[j].at = "uploading"
             /\ videos' = videos + 1 /\ excused' = excused + 1
    <3>1. ~InHand
      BY <2>1 DEF InHand, OneJob, AtWork
    <3> QED
      BY <1>1, <1>3, <2>1, <3>1 DEF VideosCounted, HighlightsTyped
  <2>2. CASE /\ \E j \in Jobs : job[j].at = "taken" /\ ~job[j].force
             /\ excused' = excused + 1 /\ UNCHANGED videos
    BY <1>1, <1>3, <2>2 DEF VideosCounted, HighlightsTyped, InHand
  <2>3. CASE /\ \A j \in Jobs : job[j].at = "taken" => job[j].force
             /\ UNCHANGED <<videos, excused>>
    BY <1>1, <1>3, <2>3 DEF VideosCounted, HighlightsTyped, InHand
  <2> QED
    BY <2>1, <2>2, <2>3 DEF Restart
<1>5. HighlightsTyped'
  BY <1>1, <1>2, <1>4 DEF HighlightsTyped
<1> QED
  BY <1>3, <1>4, <1>5

LEMMA HighlightsKeep == HighlightsInv /\ [HighlightsNext]_highlights => HighlightsInv'
<1> SUFFICES ASSUME HighlightsInv, [HighlightsNext]_highlights PROVE HighlightsInv'
  OBVIOUS
<1> DEFINE Same == UNCHANGED <<running, job, recorded, videos, excused>>
<1>1. CASE Same
  BY <1>1 DEF HighlightsInv, HighlightsTyped, OneJob, BusyIsSaid, NoneRecorded, VideosCounted, InHand, AtWork
<1>2. ASSUME NEW force \in BOOLEAN, PressButton(force) PROVE HighlightsInv'
  BY <1>2, StartKeeps DEF PressButton
<1>3. ASSUME NEW j \in Jobs, JobStep(j) PROVE HighlightsInv'
  BY <1>3, JobKeeps
<1>4. CASE StreamEnds \/ StreamsAgain \/ ResultKnown \/ TimerFires
  BY <1>1, <1>4 DEF StreamEnds, StreamsAgain, ResultKnown, TimerFires
<1>5. CASE TimerStarts
  BY <1>5, StartKeeps DEF TimerStarts
<1>6. CASE Restart
  BY <1>6, RestartKeeps
<1>7. CASE UNCHANGED highlights
  BY <1>1, <1>7 DEF highlights
<1> QED
  BY <1>2, <1>3, <1>4, <1>5, <1>6, <1>7 DEF HighlightsNext

-----------------------------------------------------------------------------
(* A match has one highlights video, but for those that were forced and those the server       *)
(* cannot know of.                                                                           *)
THEOREM OneVideo == HighlightsSpec => []OncePerMatch
<1>1. HighlightsInv => OncePerMatch
  BY DEF HighlightsInv, HighlightsTyped, VideosCounted, OncePerMatch
<1> QED
  BY HighlightsBegin, HighlightsKeep, <1>1, PTL DEF HighlightsSpec
==============================================================================
