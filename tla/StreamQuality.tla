---------------------------- MODULE StreamQuality ----------------------------
(***************************************************************************)
(* The quality ladder (internal/server/streamquality.go): the monitor that   *)
(* watches the stream and decides a step, and the step itself, which stops   *)
(* the stream and the replay buffer, sets the bitrate and starts them again. *)
(*                                                                         *)
(* A step is a run of OBS calls, each an action here; a tick of the monitor  *)
(* is a call and then a judgement under the lock.  OBS builds its encoder    *)
(* when an output starts with no other running, and keeps it till all stop.  *)
(* Time is counted in ticks; the line's figures are "bad", "fair" or "clean".  *)
(***************************************************************************)
EXTENDS OBS, Sequences

CONSTANTS
    Ladder,      \* StreamLadder, in percent
    Full, Least, \* the club's bitrate, and streamLadderKbps's floor (500)
    AutoDownshift, \* stream_auto_downshift
    Enough,      \* samples a judgement needs (3)
    Cooldown, FailTicks, UpAfter, MaxWait, \* the ladder's waits, in ticks
    Steps,       \* the panel's buttons: a subset of {"down", "up", "restore"}
    Faults       \* a subset of {"query", "refuse", "lost", "hang", "server",
                 \* "foreign", "trigger", "crash", "unsaved"}

ASSUME QualityAssumption ==
    /\ Ladder \in Seq(Nat) /\ Len(Ladder) > 0 /\ {Full, Least} \subseteq Nat \ {0}
    /\ AutoDownshift \in BOOLEAN /\ Enough \in Nat /\ Enough >= 2
    /\ {Cooldown, FailTicks, UpAfter, MaxWait} \subseteq Nat

VARIABLES
    kbps, enc, rb, stopping,  \* OBS: bitrate set, bitrate encoded, replay buffer, flushing
    mon,      \* streamMon
    saved,    \* stream_ladder in the match state
    clearing, \* the monitor's goroutine that will clear it
    tick,     \* the monitor's goroutine
    shift,    \* the step under way
    trigger,  \* the replay trigger has seen no step under way and no buffer
    mixed,    \* history: with the encoder in use, the club set a bitrate, or in the middle of a
              \* step another started the buffer: the trigger, or an OBS that had just loaded
    told,    \* history: told to look at OBS since a step last found the stream up
    deserted, \* history: since it last started, a step left the stream stopping, or down, with
              \* nobody to see to it: the server died, or the stop was never answered
    unwritten, \* history: the ladder's last save failed
    club,     \* history: the bitrate the club set
    proven,   \* history: ticks in a row that showed a clean line at this rung
    unmade    \* history: a step down was decided in the clean spell that still stands, and not made

encVars == <<kbps, enc, rb, stopping, mixed>>
evidence == <<proven, unmade>>
memVars == <<mon, saved, unwritten, clearing, tick, shift, trigger, told, deserted, evidence>>
qualityVars == <<encVars, memVars, club>>
vars == <<obsVars, qualityVars>>

Top == Len(Ladder) - 1
Least2(a, b) == IF a < b THEN a ELSE b
Most(a, b) == IF a > b THEN a ELSE b
Long == Most(Cooldown, FailTicks)
StreamLadderKbps(base, step) == Most(Least, (base * Ladder[step + 1]) \div 100)

None == [step |-> 0, baseline |-> 0, kbps |-> 0]
NoShift == [at |-> "none"]
Rest == [at |-> "idle"]
NewStreamMon == [live |-> FALSE, baseline |-> 0, step |-> 0, current |-> 0,
                 lastDir |-> "", wait |-> UpAfter, since |-> Long, samples |-> 0,
                 cleanFor |-> 0, foreign |-> 0]

QualityInit ==
    /\ kbps = Full /\ enc = 0 /\ rb = FALSE /\ stopping = FALSE /\ mixed = FALSE
    /\ deserted = FALSE /\ unwritten = FALSE
    /\ mon = NewStreamMon /\ saved = None /\ clearing = FALSE
    /\ tick = Rest /\ shift = NoShift /\ trigger = FALSE
    /\ told = FALSE /\ club = Full /\ proven = 0 /\ unmade = FALSE
Init == OBSInit /\ QualityInit

-----------------------------------------------------------------------------
(* OBS's outputs. *)
Shifting == shift.at # "none"
Up == proc = "up"
Fails(fault) == ~Up \/ fault \in Faults

EncoderFollows(mixing) ==
    /\ enc' = IF ~live' /\ ~rb' THEN 0 ELSE IF enc = 0 THEN kbps' ELSE enc
    /\ mixed' = (enc' # 0 /\ (mixed \/ mixing))

\* OBS refuses to start an output twice, or while it is still stopping.
StreamStarts == Up /\ ~live /\ live' = TRUE /\ UNCHANGED <<proc, marker, lastExit, offBy>>
LeaveStream == UNCHANGED <<proc, marker, live, lastExit, offBy>>
Quiet == UNCHANGED <<everLive, crashes, presses>>

\* A stop is asynchronous: the stream stays active until its backlog has gone.
StopCompletes ==
    /\ stopping /\ stopping' = FALSE
    /\ live' = FALSE /\ offBy' = "shift"
    /\ UNCHANGED <<proc, marker, lastExit, kbps, rb, memVars, club>> /\ Quiet
    /\ EncoderFollows(FALSE)

\* A start, a crash or an end of the stream takes its outputs along; OBS is
\* launched with the replay buffer on.
Outputs ==
    /\ rb' = IF proc' = "up" THEN (IF proc = "loading" THEN TRUE ELSE rb) ELSE FALSE
    /\ stopping' = (stopping /\ live')
    /\ UNCHANGED kbps /\ EncoderFollows(Shifting /\ rb' /\ ~rb)

Program == /\ Loaded \/ ("crash" \in Faults /\ Crash)
           /\ Outputs /\ UNCHANGED <<memVars, club>>
\* The operator leaves Start Streaming alone while a step runs.
Operator == /\ Open \/ StopLive \/ (~Shifting /\ GoLive)
            /\ Outputs /\ deserted' = (deserted /\ (live' => live))
            /\ UNCHANGED <<mon, saved, unwritten, clearing, tick, shift, trigger, told, evidence, club>>

\* The club's own change of the bitrate in OBS.
SetInOBS ==
    /\ "foreign" \in Faults /\ Up /\ ~Shifting /\ Press
    /\ kbps' = club + 100 /\ club' = club + 100 /\ mixed' = (mixed \/ enc # 0)
    /\ UNCHANGED <<proc, marker, live, lastExit, offBy, everLive, crashes, enc, rb, stopping, memVars>>

-----------------------------------------------------------------------------
(* The step: ApplyStreamQualityStep. *)

OnlyShift(s) == /\ shift' = s
                /\ UNCHANGED <<mon, saved, unwritten, clearing, tick, trigger, evidence, club>>
At(phase) == [shift EXCEPT !.at = phase]

\* What is left once the stream is dealt with: the buffer the step stopped.
Leave == IF shift.rbStopped THEN At("replay") ELSE NoShift

\* Refused when a step runs, with no baseline, and when OBS does not answer.
Begin(who, step) ==
    /\ ~Shifting /\ mon.baseline # 0 /\ Up
    /\ \E rbWas \in {rb} \cup (IF "query" \in Faults THEN {TRUE} ELSE {}) :
        shift' = [at |-> IF live THEN "stop" ELSE IF rbWas THEN "buffer" ELSE "set",
                  by |-> who, to |-> step, base |-> mon.baseline, wasLive |-> live,
                  rbWas |-> rbWas, rbStopped |-> FALSE, changed |-> FALSE, fine |-> TRUE]
    /\ told' = (told /\ (~live \/ stopping)) /\ UNCHANGED deserted

PanelStep(step) ==
    /\ \/ "down" \in Steps /\ step = Least2(mon.step + 1, Top)
       \/ "up" \in Steps /\ step = Most(mon.step - 1, 0)
       \/ "restore" \in Steps /\ step = 0
    /\ step # mon.step
Panel ==
    /\ Press
    /\ \E step \in 0..Top : PanelStep(step) /\ Begin("panel", step)
    /\ UNCHANGED <<proc, marker, live, lastExit, offBy, everLive, crashes, encVars,
                   mon, saved, unwritten, clearing, tick, trigger, evidence, club>>

\* StopStream: accepted, refused, or done though the answer is lost.
StopStream ==
    /\ shift.at = "stop"
    /\ \/ Up /\ live /\ stopping' = TRUE /\ OnlyShift(At("flush"))
       \/ (Fails("refuse") \/ ~live) /\ UNCHANGED stopping /\ OnlyShift(At("unsure"))
       \/ "lost" \in Faults /\ Up /\ live /\ stopping' = TRUE /\ OnlyShift(At("unsure"))
    /\ UNCHANGED <<kbps, enc, rb, mixed, told, deserted>> /\ LeaveStream /\ Quiet

\* waitStopped; a stop not accepted is given a few seconds, not a minute.
Stopped ==
    /\ shift.at \in {"flush", "unsure"} /\ Up /\ ~live
    /\ OnlyShift(At(IF shift.rbWas THEN "buffer" ELSE "set"))
    /\ UNCHANGED <<encVars, told, deserted>> /\ LeaveStream /\ Quiet
\* Still live when the polls of an unsure stop are over, it is said that nothing was interrupted.
NotStopped ==
    /\ \/ shift.at = "flush" /\ (Fails("query") \/ (live /\ "hang" \in Faults))
          /\ told' = TRUE /\ UNCHANGED deserted
       \/ shift.at = "unsure" /\ Fails("query") /\ told' = TRUE /\ UNCHANGED deserted
       \/ /\ shift.at = "unsure" /\ Up /\ live /\ UNCHANGED told
          /\ deserted' = (deserted \/ stopping)
    /\ OnlyShift(Leave)
    /\ UNCHANGED encVars /\ LeaveStream /\ Quiet

\* Back to the stream, or out.
Onward(phase) == IF shift.wasLive THEN At(phase) ELSE Leave

\* Mutant: the replay buffer is left running.
StopReplayBufferSkipped ==
    /\ shift.at = "buffer" /\ UNCHANGED encVars
    /\ OnlyShift([At("set") EXCEPT !.rbStopped = FALSE])
    /\ UNCHANGED <<told, deserted>> /\ LeaveStream /\ Quiet

StopReplayBuffer ==
    /\ shift.at = "buffer"
    /\ \/ /\ Up /\ rb' = FALSE
          /\ OnlyShift([At("set") EXCEPT !.rbStopped = rb])
       \/ /\ Fails("refuse") /\ rb' \in {rb} \cup (IF Fails("query") THEN {FALSE} ELSE {})
          /\ \E unknown \in {FALSE} \cup (IF Fails("query") THEN {TRUE} ELSE {}) :
                LET on == [shift EXCEPT !.rbStopped = unknown]
                IN OnlyShift(IF shift.wasLive THEN [on EXCEPT !.at = "start"]
                             ELSE IF unknown THEN [on EXCEPT !.at = "replay"] ELSE NoShift)
    /\ UNCHANGED <<kbps, stopping, told, deserted>> /\ LeaveStream /\ Quiet
    /\ EncoderFollows(FALSE)

SetBitrate ==
    /\ shift.at = "set"
    /\ \/ /\ Up /\ kbps' = StreamLadderKbps(shift.base, shift.to)
          /\ OnlyShift([At(IF shift.wasLive THEN "start" ELSE "record") EXCEPT !.changed = TRUE])
       \/ /\ Fails("refuse") /\ UNCHANGED kbps
          /\ OnlyShift(Onward("start"))
       \/ /\ "lost" \in Faults /\ Up /\ kbps' = StreamLadderKbps(shift.base, shift.to)
          /\ OnlyShift(Onward("start"))
    /\ UNCHANGED <<enc, rb, stopping, mixed, told, deserted>> /\ LeaveStream /\ Quiet

\* backOnAir: start it, and see that it stays.
Finish(fine) == IF shift.changed THEN [At("record") EXCEPT !.fine = fine] ELSE Leave
StartStream ==
    /\ shift.at = "start"
    /\ \/ StreamStarts /\ OnlyShift(At("stay")) /\ told' = FALSE /\ deserted' = FALSE
       \/ /\ Fails("refuse") \/ live
          /\ LeaveStream /\ told' = TRUE /\ UNCHANGED deserted
          /\ OnlyShift(Finish(FALSE))
    /\ UNCHANGED <<kbps, rb, stopping>> /\ Quiet /\ EncoderFollows(FALSE)
Stay ==
    /\ shift.at = "stay"
    /\ \/ Up /\ live /\ OnlyShift(Finish(TRUE)) /\ UNCHANGED told
       \/ (Fails("query") \/ ~live) /\ OnlyShift(Finish(FALSE)) /\ told' = TRUE
    /\ UNCHANGED <<encVars, deserted>> /\ LeaveStream /\ Quiet

\* noteDirLocked
NotedDir(m, step) ==
    IF step = m.step THEN m
    ELSE IF step < m.step THEN [m EXCEPT !.lastDir = "up", !.cleanFor = 0]
    ELSE [m EXCEPT !.lastDir = "down", !.cleanFor = 0,
                   !.wait = IF m.lastDir = "up" /\ m.since < FailTicks
                            THEN Least2(2 * m.wait, MaxWait) ELSE UpAfter]
Recorded(m, step) ==
    [NotedDir(m, step) EXCEPT !.step = step, !.since = 0, !.samples = 0,
                              !.current = StreamLadderKbps(shift.base, step)]
Record ==
    /\ shift.at = "record"
    /\ mon' = Recorded(mon, shift.to)
    /\ proven' = 0 /\ unmade' = FALSE
    /\ shift' = [At("save") EXCEPT !.base = IF shift.fine THEN shift.base ELSE mon.baseline]
    /\ UNCHANGED <<encVars, told, deserted, saved, unwritten, clearing, tick, trigger, club>>
    /\ LeaveStream /\ Quiet

\* Mutant: the bitrate saved is the one the ladder hangs from.
SavedLadderFull(step, baseline) ==
    IF step = 0 THEN None ELSE [step |-> step, baseline |-> baseline, kbps |-> baseline]

SavedLadder(step, baseline) ==
    IF step = 0 THEN None
    ELSE [step |-> step, baseline |-> baseline, kbps |-> mon.current]
\* UpdateState lets SaveState's error go: the file is then as it was, and memory is not.
Written(ladder) == \/ saved' = ladder /\ unwritten' = FALSE
                   \/ "unsaved" \in Faults /\ UNCHANGED saved /\ unwritten' = TRUE
\* The goroutine that clears the saved ladder is not delayed for a whole step.
SaveLadder ==
    /\ shift.at = "save" /\ ~clearing
    /\ Written(SavedLadder(shift.to, shift.base))
    /\ shift' = Leave
    /\ UNCHANGED <<encVars, mon, clearing, tick, trigger, told, deserted, evidence, club>>
    /\ LeaveStream /\ Quiet

\* replayBackNote: tried again and again, then left for the next replay.
ReplayBack ==
    /\ shift.at = "replay"
    /\ \/ Up /\ rb' = TRUE
       \/ Fails("refuse") /\ UNCHANGED rb
    /\ OnlyShift(NoShift)
    /\ UNCHANGED <<kbps, stopping, told, deserted>> /\ LeaveStream /\ Quiet
    /\ EncoderFollows(FALSE)

StepAction == StopStream \/ Stopped \/ NotStopped \/ StopReplayBuffer \/ SetBitrate
              \/ StartStream \/ Stay \/ Record \/ SaveLadder \/ ReplayBack

-----------------------------------------------------------------------------
(* The monitor: streamMonitorTick, every StreamPollSec. *)

LeaveOBS == UNCHANGED <<obsVars, encVars, club>>
OnlyMonitor == UNCHANGED <<shift, trigger, told, deserted>> /\ LeaveOBS

Read ==
    /\ tick.at = "idle"
    /\ \E ok \in (IF Up THEN {TRUE} ELSE {}) \cup (IF Fails("query") THEN {FALSE} ELSE {}) :
        tick' = [at |-> "read", ok |-> ok, live |-> ok /\ live, kbps |-> kbps]
    /\ UNCHANGED <<mon, saved, unwritten, clearing, evidence>> /\ OnlyMonitor

Aged(m) == [m EXCEPT !.since = Least2(@ + 1, Long),
                     !.cleanFor = IF @ = 0 THEN 0 ELSE Least2(@ + 1, MaxWait + 1)]

\* Unreachable, or off air: the evidence goes, the ladder stays.
JudgeOffAir ==
    /\ tick.at = "read" /\ ~tick.live
    /\ mon' = [Aged(mon) EXCEPT !.live = FALSE, !.samples = 0]
    /\ proven' = 0 /\ tick' = Rest
    /\ UNCHANGED <<saved, unwritten, clearing, unmade>> /\ OnlyMonitor

\* Somebody else's bitrate, on two ticks: the ladder starts again from it.
Foreign == mon.step > 0 /\ tick.kbps # mon.current /\ ~Shifting
Rebased == IF ~Foreign THEN [mon EXCEPT !.foreign = 0]
           ELSE IF mon.foreign = 0 THEN [mon EXCEPT !.foreign = 1]
           ELSE [mon EXCEPT !.step = 0, !.foreign = 0, !.lastDir = "",
                            !.wait = UpAfter, !.cleanFor = 0]

\* resumeLadderLocked, else the baseline is the bitrate OBS is set to.
Resumed(m) ==
    IF m.baseline = 0 /\ saved # None /\ saved.kbps = tick.kbps
    THEN [m EXCEPT !.step = saved.step, !.baseline = saved.baseline, !.current = saved.kbps,
                   !.lastDir = "down", !.since = 0, !.cleanFor = 0]
    ELSE [m EXCEPT !.baseline = tick.kbps, !.current = tick.kbps]
Based(m) == IF m.step = 0 THEN Resumed(m) ELSE m

Sampled(m) == [Aged(m) EXCEPT !.live = TRUE, !.samples = Least2(@ + 1, Enough)]

Clean(m, line) == line = "clean" /\ m.samples = Enough
Spell(m, line) == [m EXCEPT !.cleanFor = IF Clean(m, line) THEN Most(@, 1) ELSE 0]

\* EvaluateStreamSamples: a step up that the line cannot take waits for no cooldown.
FailedUp(m) == m.lastDir = "up" /\ m.since < FailTicks
Downshift(m, line) ==
    line = "bad" /\ m.samples = Enough /\ (m.since >= Cooldown \/ FailedUp(m))

\* Mutant: the wait is one tick short.
UpshiftEarly(m, atBreak) == m.cleanFor > 0 /\ m.cleanFor >= m.wait /\ atBreak
\* EvaluateUpshift
Upshift(m, atBreak) == m.cleanFor > 0 /\ m.cleanFor - 1 >= m.wait /\ atBreak

Decided(step, line) == [at |-> "decided", to |-> step, line |-> line]
Judge(line, atBreak) ==
    /\ tick.at = "read" /\ tick.live
    /\ LET m == Sampled(Based(Rebased))
           n == Spell(m, line)
       IN  /\ clearing' = (clearing \/ (Rebased.step # mon.step))
           /\ \/ /\ Downshift(m, line) /\ AutoDownshift /\ m.step < Top
                 /\ mon' = m /\ tick' = Decided(m.step + 1, line)
                 /\ unmade' = (m.cleanFor > 0)
              \/ /\ ~(Downshift(m, line) /\ AutoDownshift /\ m.step < Top)
                 /\ mon' = n /\ unmade' = (unmade /\ n.cleanFor > 0)
                 /\ tick' = IF /\ AutoDownshift /\ n.step > 0
                               /\ Upshift(n, atBreak) /\ ~Downshift(m, line)
                            THEN Decided(n.step - 1, line) ELSE Rest
           /\ proven' = IF line = "clean" /\ m.samples = Enough /\ m.step = mon.step
                        THEN Least2(proven + 1, MaxWait + 1) ELSE 0
    /\ UNCHANGED <<saved, unwritten>> /\ OnlyMonitor

\* saveLadder(0, ...) in a goroutine of its own.
ClearLadder ==
    /\ clearing /\ clearing' = FALSE /\ Written(None)
    /\ UNCHANGED <<mon, tick, evidence>> /\ OnlyMonitor

\* The lock is tried after the monitor's lock has been let go.
AutoStep ==
    /\ tick.at = "decided"
    /\ \/ Begin("auto", tick.to) /\ tick' = [tick EXCEPT !.at = "stepping"]
       \/ /\ Shifting \/ mon.baseline = 0 \/ Fails("query")
          /\ tick' = Rest /\ UNCHANGED <<shift, told, deserted>>
    /\ UNCHANGED <<mon, saved, unwritten, clearing, trigger, evidence>> /\ LeaveOBS
AutoDone ==
    /\ tick.at = "stepping" /\ ~(Shifting /\ shift.by = "auto")
    /\ tick' = Rest
    /\ UNCHANGED <<mon, saved, unwritten, clearing, evidence>> /\ OnlyMonitor

Tick == Read \/ JudgeOffAir \/ (\E line \in {"bad", "fair", "clean"}, atBreak \in BOOLEAN :
                                   Judge(line, atBreak))
        \/ ClearLadder \/ AutoStep \/ AutoDone

-----------------------------------------------------------------------------
(* Others. *)

\* The replay trigger finds no buffer and no step under way, and starts one.
TriggerLook ==
    /\ "trigger" \in Faults /\ Up /\ ~rb /\ ~Shifting /\ ~trigger /\ Press
    /\ trigger' = TRUE
    /\ UNCHANGED <<proc, marker, live, lastExit, offBy, everLive, crashes, encVars,
                   mon, saved, unwritten, clearing, tick, shift, told, deserted, evidence, club>>
TriggerStart ==
    /\ trigger /\ trigger' = FALSE
    /\ rb' = (rb \/ Up)
    /\ UNCHANGED <<kbps, stopping, mon, saved, unwritten, clearing, tick, shift, told, deserted,
                   evidence, club>>
    /\ LeaveStream /\ Quiet /\ EncoderFollows(Shifting /\ rb' /\ ~rb)

\* The server dies and comes back: its memory and its goroutines are gone.
ServerRestart ==
    /\ "server" \in Faults /\ Press
    /\ mon' = NewStreamMon /\ clearing' = FALSE /\ tick' = Rest /\ shift' = NoShift
    /\ trigger' = FALSE /\ UNCHANGED told /\ proven' = 0 /\ unmade' = FALSE
    /\ deserted' = (deserted \/ Shifting) /\ unwritten' = FALSE
    /\ UNCHANGED <<proc, marker, live, lastExit, offBy, everLive, crashes, encVars, saved, club>>

Next == StopCompletes \/ Program \/ Operator \/ SetInOBS \/ Panel \/ StepAction \/ Tick
        \/ TriggerLook \/ TriggerStart \/ ServerRestart

\* The step and the monitor run in goroutines of the server; a flush ends.
Fairness == WF_vars(StepAction) /\ WF_vars(StopCompletes) /\ WF_vars(Tick)
Spec == Init /\ [][Next]_vars
FairSpec == Spec /\ Fairness

-----------------------------------------------------------------------------
(* Properties *)

\* When no step is under way the last one has ended well, whatever OBS refused, left unanswered
\* or did without an answer, whoever died in the middle: an OBS that is live encodes at the
\* bitrate that is set, no step having left the old encoder running; and a stream that a step
\* took down is back, or the operator was told to look.  The code does not keep the first where
\* another starts the buffer in the middle of the step (ObsTriggerReplay looks at shifting and
\* starts it later; an OBS that is opened then comes up with it), till the encoder is next
\* free; nor the second where the server dies in the middle, or takes a stop whose answer was
\* lost and whose flush is slow for one that was refused, till the stream is next started.
TakenDownByStep == ~live /\ offBy = "shift"

StepsEndWell ==
    ~Shifting => /\ live /\ ~mixed => enc = kbps
                 /\ TakenDownByStep /\ ~deserted => told

\* The place on the ladder kept in the match state is the one in memory, so that a
\* restarted server goes on from it; but for a save that failed, until one lands or the server
\* that has the place in memory is gone.
LadderIsSaved ==
    ~Shifting /\ ~clearing /\ ~unwritten /\ mon.step > 0 =>
        saved = [step |-> mon.step, baseline |-> mon.baseline, kbps |-> mon.current]

\* The ladder hangs from the bitrate the club chose, never from one of its own rungs:
\* Restore restores what the club had.
BaselineIsTheClubs == mon.baseline \in {0, club}

\* The ladder steps up by itself only after as many clean ticks in a row, at that
\* rung and on air, as the wait asks for; or when a bad tick in between decided a step down
\* that was not made, after which the code goes on counting from the spell's beginning
\* (streamMonitorTick returns before clean_since is set).
StepsUp == tick'.at = "decided" /\ tick.at = "read" /\ tick'.to < mon'.step
UpshiftIsEarned == [][StepsUp => proven' > mon'.wait \/ unmade']_vars
=============================================================================
