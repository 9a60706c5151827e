-------------------------------- MODULE OnAir --------------------------------
(***************************************************************************)
(* Everything that cuts OBS's scene during a match: replays (obsops.go), the *)
(* held cuts to camera 2 (camhold.go), the break show's reel (breakshow.go), *)
(* the watch for a replay left on air (replaywatch.go), and people.  Each is *)
(* a goroutine of its own; none holds a lock while it looks at OBS and cuts. *)
(*                                                                         *)
(* Time goes by in ticks, of five to eight seconds.  A request to OBS takes  *)
(* none; the sleeps of the code do, and a tick only comes when nothing is    *)
(* due.  Its answer may be no, or be lost though the cut was made.           *)
(***************************************************************************)
EXTENDS Naturals, FiniteSets

CONSTANTS
    Replays,     \* names for the replays asked for: a bound on their number
    Reasons,     \* what they are asked for: a subset of {"Wicket", "Six"}
    D,           \* replay_duration
    Save,        \* the wait for the clip: 3 s, then 7 looks a second apart
    Slack,       \* what noteReplay and setReplayBusy add (15 s)
    Attempts,    \* tries to cut back at the end (1, then 3 on new sockets)
    HoldFor,     \* seconds a camera cut is held for
    Clip, Lead, Between,   \* the reel's waits
    MaxFaults,   \* bound on the failures and restarts in a behaviour
    Faults       \* what may fail: a subset of {"lost", "refuse", "nosave", "restart",
                 \* "impatient", "off air"}

VARIABLES
    scene,               \* OBS's, while it streams
    cutBy,               \* history: who cut last
    sideOn,              \* side-on replays are switched on
    rp,                  \* the replays' goroutines
    latest,              \* the replay replayLatest has counted last
    busy, meant,         \* ticks left of replayBusyUntil and playReplayUntil
    hold,                \* ticks left of camHoldUntil
    back,                \* a way back to the main scene: "none", "asking", "cutting"
    reel, brk,           \* the break show's goroutine; breakNow.active
    strikes, watch,      \* replayWatchStrikes; "idle", "due", "cutting"
    since,               \* ticks since the overlay asked for a replay (its own clock)
    faults

thread == <<rp, latest>>
clocks == <<busy, meant, since>>
camera == <<hold, back>>
show == <<reel, brk>>
watching == <<strikes, watch>>
air == <<scene, cutBy, sideOn, thread, clocks, camera, show, watching, faults>>

Scenes == {"main", "cam2", "replay"}

\* What is taken of the constants: times are whole ticks, ten seconds' saving is less than
\* the fifteen that every promise adds, and a replay is nobody else.
Timed ==
    /\ {D, Save, Slack, HoldFor, Clip, Lead, Between} \subseteq Nat
    /\ Attempts \in Nat \ {0} /\ Save < Slack
\* With camera 2's clip a wicket's replay is twice as long as a six's.
OneLength == "Wicket" \in Reasons => Reasons = {"Wicket"}
NamesApart == Replays \cap {"none", "people", "hold", "reel", "watch"} = {}
AutoWindow == D + 1    \* the overlay's replayWindow: replay_duration + 5 s
Silent == [at |-> "off", left |-> 0]
Larger(x, y) == IF x < y THEN y ELSE x

AirInit ==
    /\ scene = "main" /\ cutBy = "people" /\ sideOn \in BOOLEAN
    /\ rp = [r \in Replays |-> [at |-> "none", left |-> 0, side |-> FALSE]]
    /\ latest = "none" /\ busy = 0 /\ meant = 0 /\ since = AutoWindow
    /\ hold = 0 /\ back = "none"
    /\ reel = Silent /\ brk = FALSE /\ strikes = 0 /\ watch = "idle" /\ faults = 0

Fault(f) == f \in Faults /\ faults < MaxFaults /\ faults' = faults + 1

\* SetCurrentProgramScene as its caller sees it: done and said so, refused, or done with
\* the answer lost.
Cut(who, to, ok) ==
    \/ ok = TRUE /\ scene' = to /\ cutBy' = who /\ UNCHANGED faults
    \/ ok = FALSE /\ Fault("refuse") /\ UNCHANGED <<scene, cutBy>>
    \/ ok = FALSE /\ Fault("lost") /\ scene' = to /\ cutBy' = who

-----------------------------------------------------------------------------
(* A replay: ObsTriggerReplay.                                                *)

At(r, where) == rp[r].at = where
Go(r, where, ticks) == rp' = [rp EXCEPT ![r].at = where, ![r].left = ticks]
Done == [at |-> "over", left |-> 0, side |-> FALSE]
Leave(r) == rp' = [rp EXCEPT ![r] = Done]

\* How long the replay says it will be.
Promise(side) == (IF side THEN 2 * D ELSE D) + Slack

Trigger(r) ==
    /\ At(r, "none") /\ r = CHOOSE q \in Replays : At(q, "none")    \* the next name
    /\ \E reason \in Reasons : LET side == sideOn /\ reason = "Wicket" IN
        /\ rp' = [rp EXCEPT ![r] = [at |-> "saving", left |-> Save, side |-> side]]
        /\ meant' = Larger(meant, Promise(side)) /\ busy' = Promise(side)
    /\ since' = 0
    /\ UNCHANGED <<scene, cutBy, sideOn, latest, camera, show, watching, faults>>

Thread(r) == r \in Replays /\ UNCHANGED <<sideOn, clocks, camera, show, watching>>

\* OBS does not answer, the buffer is not running, or no clip is written.
NoClip(r) ==
    /\ Thread(r) /\ At(r, "saving") /\ Fault("nosave")
    /\ Leave(r) /\ UNCHANGED <<scene, cutBy, latest>>

\* The clip is set on ReplayClip, and the newest replay is this one.
ClipFound(r) ==
    /\ Thread(r) /\ At(r, "saving")
    /\ latest' = r /\ Go(r, "ready", 0)
    /\ UNCHANGED <<scene, cutBy, faults>>

\* Whatever OBS answers, the replay goes on.
TakePicture(r) ==
    /\ Thread(r) /\ At(r, "ready") /\ (\E ok \in BOOLEAN : Cut(r, "replay", ok))
    /\ Go(r, "on", D) /\ UNCHANGED latest

\* Camera 2's clip, when FFmpeg has one, on the same source.  FFmpeg is given 20 s from
\* the start: by the end of the main clip it has answered.
SideClip(r) ==
    /\ Thread(r) /\ At(r, "on") /\ rp[r].left = 0 /\ rp[r].side
    /\ \E length \in {0, D} : Go(r, "side", length)
    /\ UNCHANGED <<scene, cutBy, latest, faults>>

Played(r) == rp[r].left = 0 /\ (At(r, "side") \/ (At(r, "on") /\ ~rp[r].side))

\* Mutant: the newest replay is not asked for.
CutBackAnyway(r) ==
    /\ Thread(r) /\ Played(r) /\ Go(r, "back", Attempts)
    /\ UNCHANGED <<scene, cutBy, latest, faults>>

LeaveOrReturn(r) ==
    /\ Thread(r) /\ Played(r)
    /\ IF latest = r THEN Go(r, "back", Attempts) ELSE Leave(r)
    /\ UNCHANGED <<scene, cutBy, latest, faults>>

\* After the last attempt, the replay watch has it.
ReturnToMain(r) ==
    /\ Thread(r) /\ At(r, "back")
    /\ \E ok \in BOOLEAN :
        /\ Cut(r, "main", ok)
        /\ IF ok \/ rp[r].left = 1 THEN Leave(r) ELSE Go(r, "back", rp[r].left - 1)
    /\ UNCHANGED latest

Replay(r) == NoClip(r) \/ ClipFound(r) \/ TakePicture(r) \/ SideClip(r)
             \/ LeaveOrReturn(r) \/ ReturnToMain(r)

-----------------------------------------------------------------------------
(* Camera 2: /camera/scene with "hold", with "if_on", and plain.              *)

Camera == UNCHANGED <<sideOn, thread, clocks, show, watching>>

\* The overlay's planned cuts (the over change, a walk-out), while its own clock says no
\* replay can still be on.
HoldCut ==
    /\ Camera /\ since >= AutoWindow
    /\ \E ok \in BOOLEAN : Cut("people", "cam2", ok) /\ hold' = IF ok THEN HoldFor ELSE hold
    /\ UNCHANGED back

\* A cut by hand from the panel ends the hold; one in OBS itself does not.
CutByHand ==
    /\ Camera /\ scene' \in Scenes /\ cutBy' = "people" /\ hold' \in {0, hold}
    /\ UNCHANGED <<back, faults>>

\* cutIfOn: play has restarted.
PlayRestarts ==
    /\ Camera /\ back = "none"
    /\ back' = "asking" /\ hold' = 0 /\ UNCHANGED <<scene, cutBy, faults>>

\* The end of a hold that is still the newest, and cutIfOn: is OBS still on camera 2?
AskScene ==
    /\ Camera /\ back = "asking"
    /\ \/ back' = (IF scene = "cam2" THEN "cutting" ELSE "none") /\ UNCHANGED faults
       \/ Fault("refuse") /\ back' = "none"
    /\ UNCHANGED <<scene, cutBy, hold>>

CutBack ==
    /\ Camera /\ back = "cutting" /\ back' = "none"
    /\ \E ok \in BOOLEAN : Cut("hold", "main", ok)
    /\ UNCHANGED hold

-----------------------------------------------------------------------------
(* The break show.                                                            *)

Reel(at, ticks) == reel' = [at |-> at, left |-> ticks]
InReel(at) == reel.at = at /\ UNCHANGED <<sideOn, thread, busy, since, camera, watching>>

\* The reel of an earlier break has ended: it does so long before the next one's lead.
StartBreak ==
    /\ InReel("off") /\ ~brk /\ brk' = TRUE /\ Reel("lead", Lead)
    /\ UNCHANGED <<scene, cutBy, meant, faults>>

\* The waits of the reel end with the break.
EndBreak ==
    /\ brk /\ brk' = FALSE
    /\ IF reel.at \in {"clear", "playing"} THEN UNCHANGED reel ELSE reel' = Silent
    /\ UNCHANGED <<scene, cutBy, sideOn, thread, clocks, camera, watching, faults>>

\* breakClear
BreakClear == hold = 0 /\ busy = 0

ReelWaits ==
    /\ reel.at \in {"lead", "between"} /\ InReel(reel.at) /\ reel.left = 0
    /\ Reel("waiting", 0)
    /\ UNCHANGED <<scene, cutBy, meant, brk, faults>>

\* No saved replay: the graphics carry on.
NoClips ==
    /\ InReel("waiting") /\ reel' = Silent
    /\ UNCHANGED <<scene, cutBy, meant, brk, faults>>

ReelGoesOn ==
    /\ InReel("waiting")
    /\ \/ BreakClear /\ UNCHANGED faults
       \/ ~BreakClear /\ Fault("impatient")    \* 120 looks, a second apart, are enough
    /\ \/ Reel("clear", 0) /\ meant' = Larger(meant, Clip + 1)
       \/ Reel("between", Between) /\ UNCHANGED meant    \* a quality step is under way
    /\ UNCHANGED <<scene, cutBy, brk>>

\* A clip that OBS does not take ends the reel.
ShowClip ==
    /\ InReel("clear")
    /\ \E ok \in BOOLEAN : Cut("reel", "replay", ok) /\ (IF ok THEN Reel("playing", Clip) ELSE reel' = Silent)
    /\ UNCHANGED <<meant, brk>>

ClipEnds ==
    /\ InReel("playing") /\ (reel.left = 0 \/ ~brk)
    /\ \E ok \in BOOLEAN : Cut("reel", "main", ok)
    /\ IF brk THEN Reel("between", Between) ELSE reel' = Silent
    /\ UNCHANGED <<meant, brk>>

-----------------------------------------------------------------------------
(* The replay watch, every tick (10 s): no less often than the code.          *)

Watching == UNCHANGED <<sideOn, thread, clocks, camera, show>>

\* Mutant: during a break the scene is left to the break show.
LeftOutsideBreaks == scene = "replay" /\ meant = 0 /\ ~brk

LeftOnAir == scene = "replay" /\ meant = 0

LookAtOBS ==
    /\ Watching /\ watch = "due" /\ UNCHANGED <<scene, cutBy>>
    /\ \/ /\ UNCHANGED faults
          /\ IF LeftOnAir
             THEN /\ strikes' = IF strikes < 2 THEN strikes + 1 ELSE strikes
                  /\ watch' = IF strikes >= 1 THEN "cutting" ELSE "idle"
             ELSE strikes' = 0 /\ watch' = "idle"
       \/ Fault("refuse") /\ watch' = "idle" /\ UNCHANGED strikes
       \/ Fault("off air") /\ watch' = "idle" /\ strikes' = 0

WatchCuts ==
    /\ Watching /\ watch = "cutting" /\ watch' = "idle"
    /\ \E ok \in BOOLEAN : Cut("watch", "main", ok) /\ strikes' = IF ok THEN 0 ELSE strikes

-----------------------------------------------------------------------------

\* The server is killed and started again: OBS, and the overlay's clock, stay.
ServerRestarts ==
    /\ Fault("restart")
    /\ rp' = [r \in Replays |-> IF At(r, "none") THEN rp[r] ELSE Done]
    /\ latest' = "none" /\ busy' = 0 /\ meant' = 0 /\ hold' = 0 /\ back' = "none"
    /\ reel' = Silent /\ brk' = FALSE /\ strikes' = 0 /\ watch' = "idle"
    /\ UNCHANGED <<scene, cutBy, sideOn, since>>

Sleeping(r) == rp[r].at \in {"none", "over"} \/ (rp[r].at \in {"saving", "on", "side"} /\ rp[r].left > 0)
ReelSleeps == \/ reel.at = "off"
              \/ reel.at = "waiting" /\ ~BreakClear
              \/ reel.at \in {"lead", "between"} /\ reel.left > 0
              \/ reel.at = "playing" /\ reel.left > 0 /\ brk
NothingDue == /\ \A r \in Replays : Sleeping(r)
              /\ back = "none" /\ ReelSleeps /\ watch = "idle"

Less(n) == IF n > 0 THEN n - 1 ELSE 0

Tick ==
    /\ NothingDue
    /\ rp' = [r \in Replays |-> [rp[r] EXCEPT !.left = Less(@)]]
    /\ reel' = [reel EXCEPT !.left = Less(@)]
    /\ busy' = Less(busy) /\ meant' = Less(meant)
    /\ since' = IF since < AutoWindow THEN since + 1 ELSE since
    /\ hold' = Less(hold) /\ back' = IF hold = 1 THEN "asking" ELSE "none"
    /\ watch' = "due"
    /\ UNCHANGED <<scene, cutBy, sideOn, latest, brk, strikes, faults>>

ReelStep == ReelWaits \/ NoClips \/ ReelGoesOn \/ ShowClip \/ ClipEnds
Program == (\E r \in Replays : Replay(r)) \/ AskScene \/ CutBack \/ ReelStep \/ LookAtOBS \/ WatchCuts
People == \/ \E r \in Replays : Trigger(r)
          \/ HoldCut \/ CutByHand \/ PlayRestarts \/ StartBreak \/ EndBreak \/ ServerRestarts

AirNext == Program \/ Tick \/ People

AirSpec == AirInit /\ [][AirNext]_air

WayBack == AskScene \/ CutBack
WatchStep == LookAtOBS \/ WatchCuts

\* The goroutines are scheduled, and time goes by whatever people press.
AirFairness == /\ \A r \in Replays : WF_air(Replay(r))
            /\ WF_air(WayBack) /\ WF_air(ReelStep) /\ WF_air(WatchStep)
            /\ SF_air(Tick)
FairAirSpec == AirSpec /\ AirFairness

-----------------------------------------------------------------------------
\* The newest replay, on the scene that it or an older one took and nobody has cut since.
Claim == IF /\ scene = "replay" /\ cutBy \in Replays /\ latest # "none"
            /\ rp[latest].at \in {"on", "side", "back"}
         THEN latest ELSE "none"

Looked == {r \in Replays : At(r, "back")}
          \cup (IF back = "cutting" THEN {"hold"} ELSE {})
          \cup (IF reel.at \in {"clear", "playing"} THEN {"reel"} ELSE {})
          \cup (IF watch = "cutting" THEN {"watch"} ELSE {})

P == INSTANCE Picture WITH claim <- Claim, looked <- Looked, Others <- {"hold", "reel", "watch"}

(* A replay on air is left alone: an older replay's end, a held cut's way back,  *)
(* the reel and the replay watch cut only after a look that found no replay but  *)
(* their own, however the sleeps, the promises and the failures fall together.   *)
OnlyAfterALook == P!Spec

(* "Never cuts while a replay could still be on screen" (CHANGELOG.md): the       *)
(* overlay's planned cut does not take viewers off a replay.                     *)
OverChangeSparesReplays == [][HoldCut /\ scene' = "cam2" => Claim = "none"]_air
==============================================================================
