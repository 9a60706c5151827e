---------------------------- MODULE Quality_proofs ---------------------------
(* The quality ladder (streamquality.go), for every ladder, every wait and any  *)
(* number of presses and crashes.                                             *)
EXTENDS StreamQuality, TLAPS

-----------------------------------------------------------------------------
(* What the variables are.                                                    *)

Rates == Nat \ {0}
Places == 0 .. Top
Mons == [live : BOOLEAN, baseline : Nat, step : Places, current : Nat, lastDir : {"", "up", "down"},
         wait : Nat, since : Nat, samples : 0 .. Enough, cleanFor : Nat, foreign : {0, 1}]
Saves == {None} \cup [step : Places \ {0}, baseline : Rates, kbps : Nat]
Ticks == [at : {"idle"}]
         \cup [at : {"read"}, ok : BOOLEAN, live : BOOLEAN, kbps : Rates]
         \cup [at : {"decided", "stepping"}, to : Places, line : {"bad", "fair", "clean"}]
Phases == {"stop", "flush", "unsure", "buffer", "set", "start", "stay", "record", "save", "replay"}
Shifts == [at : Phases, by : {"panel", "auto"}, to : Places, base : Rates, wasLive : BOOLEAN,
           rbWas : BOOLEAN, rbStopped : BOOLEAN, changed : BOOLEAN, fine : BOOLEAN]

RatesTyped == kbps \in Rates /\ club \in Rates
MemTyped == mon \in Mons /\ saved \in Saves
StepTyped == tick \in Ticks /\ shift \in {NoShift} \cup Shifts
FlagsTyped == rb \in BOOLEAN /\ live \in BOOLEAN

\* A rung is of a bitrate that was the club's: nothing is stepped from before one is known.
KnowsTheClubs == mon.step > 0 \/ Shifting => mon.baseline # 0

QualityTyped == RatesTyped /\ MemTyped /\ StepTyped /\ FlagsTyped /\ KnowsTheClubs

LEMMA ARungIsARate ==
  ASSUME NEW base \in Nat, NEW step \in Places
  PROVE  StreamLadderKbps(base, step) \in Rates
<1>1. Ladder[step + 1] \in Nat
  BY QualityAssumption DEF Places, Top
<1>2. base * Ladder[step + 1] \in Nat
  BY <1>1
<1>3. (base * Ladder[step + 1]) \div 100 \in Nat
  BY <1>2
<1>4. Least \in Nat \ {0}
  BY QualityAssumption
<1> QED
  BY <1>3, <1>4 DEF StreamLadderKbps, Most, Rates

LEMMA ThePlaces == Places \subseteq Nat /\ 0 \in Places /\ Top \in Nat
<1>1. Len(Ladder) \in Nat /\ Len(Ladder) > 0
  BY QualityAssumption
<1> QED
  BY <1>1 DEF Places, Top

LEMMA TheWaits == /\ {Cooldown, FailTicks, UpAfter, MaxWait, Long, MaxWait + 1} \subseteq Nat
                  /\ Enough \in Nat /\ Enough >= 2
  BY QualityAssumption DEF Long, Most

LEMMA LeastOfTwo ==
  ASSUME NEW a \in Nat, NEW b \in Nat
  PROVE  /\ Least2(a, b) \in Nat /\ Least2(a, b) <= a /\ Least2(a, b) <= b
         /\ Least2(a, b) \in {a, b}
  BY DEF Least2

LEMMA QualityBegins == Init => QualityTyped
<1> SUFFICES ASSUME Init PROVE QualityTyped
  OBVIOUS
<1>1. RatesTyped
  BY QualityAssumption DEF Init, QualityInit, RatesTyped, Rates
<1>2. 0 \in Places /\ UpAfter \in Nat /\ Long \in Nat /\ 0 \in 0 .. Enough
  BY QualityAssumption DEF Places, Top, Long, Most
<1>3. mon \in Mons
  BY <1>2 DEF Init, QualityInit, NewStreamMon, Mons
<1>4. saved \in Saves
  BY DEF Init, QualityInit, Saves
<1>5. StepTyped
  BY DEF Init, QualityInit, Rest, StepTyped, Ticks
<1>6. KnowsTheClubs
  <2>1. mon.step = 0
    BY DEF Init, QualityInit, NewStreamMon
  <2>2. ~Shifting
    BY DEF Init, QualityInit, NoShift, Shifting
  <2> QED
    BY <2>1, <2>2 DEF KnowsTheClubs
<1>7. FlagsTyped
  BY DEF Init, QualityInit, OBSInit, FlagsTyped
<1> QED
  BY <1>1, <1>3, <1>4, <1>5, <1>6, <1>7 DEF QualityTyped, MemTyped

\* A place in a step that stands as it stood, but for where it is.
LEMMA AtIsAShift ==
  ASSUME shift \in Shifts, NEW p \in Phases
  PROVE  At(p) \in Shifts /\ At(p).at = p /\ At(p).by = shift.by /\ At(p).to = shift.to
         /\ At(p).base = shift.base /\ At(p).wasLive = shift.wasLive /\ At(p).rbWas = shift.rbWas
  BY DEF At, Shifts

LEMMA LeaveIsAShift ==
  ASSUME shift \in Shifts
  PROVE  Leave \in {NoShift, At("replay")} /\ Leave \in {NoShift} \cup Shifts
  BY AtIsAShift DEF Leave, Phases

\* One who is at a place of a step is in a step.
LEMMA InAStep == ASSUME StepTyped, shift.at # "none" PROVE shift \in Shifts
  BY DEF StepTyped, NoShift

-----------------------------------------------------------------------------
(* Every action keeps the types.                                              *)

\* What moves nothing but OBS's outputs.
LEMMA OutputsKeepTypes ==
  ASSUME QualityTyped, UNCHANGED <<mon, saved, tick, shift>>, RatesTyped', FlagsTyped'
  PROVE  QualityTyped'
  BY DEF QualityTyped, MemTyped, StepTyped, KnowsTheClubs, Shifting

\* What moves nothing but the step, and leaves the clubs' bitrate known.
LEMMA AStepKeepsTypes ==
  ASSUME QualityTyped, UNCHANGED <<mon, saved>>, tick' \in Ticks, shift' \in {NoShift} \cup Shifts,
         mon.baseline # 0, RatesTyped', FlagsTyped'
  PROVE  QualityTyped'
  BY DEF QualityTyped, MemTyped, StepTyped, KnowsTheClubs

LEMMA BeginTyped ==
  ASSUME QualityTyped, NEW who \in {"panel", "auto"}, NEW step \in Places, Begin(who, step)
  PROVE  shift' \in Shifts /\ mon.baseline # 0 /\ shift'.by = who
  <1>1. mon.baseline \in Rates /\ rb \in BOOLEAN /\ live \in BOOLEAN /\ mon.baseline # 0
    BY DEF Begin, QualityTyped, MemTyped, Mons, Rates, FlagsTyped
  <1>2. PICK rbWas \in {rb} \cup {TRUE} :
           shift' = [at |-> IF live THEN "stop" ELSE IF rbWas THEN "buffer" ELSE "set",
                     by |-> who, to |-> step, base |-> mon.baseline, wasLive |-> live,
                     rbWas |-> rbWas, rbStopped |-> FALSE, changed |-> FALSE, fine |-> TRUE]
    BY DEF Begin
  <1>3. rbWas \in BOOLEAN
    BY <1>1, <1>2
  <1> QED
    BY <1>1, <1>2, <1>3 DEF Shifts, Phases

LEMMA PanelKeepsTypes == ASSUME QualityTyped, Panel PROVE QualityTyped'
<1>1. PICK step \in Places : PanelStep(step) /\ Begin("panel", step)
  BY DEF Panel, Places
<1>2. shift' \in Shifts /\ mon.baseline # 0
  BY <1>1, BeginTyped
<1>3. UNCHANGED <<mon, saved, tick, kbps, club, rb, live>>
  BY DEF Panel, encVars
<1> QED
  BY <1>2, <1>3, AStepKeepsTypes DEF QualityTyped, StepTyped, RatesTyped, FlagsTyped

\* In a step the club's bitrate is known, and a place is one of its own.
LEMMA InAStepTyped ==
  ASSUME QualityTyped, shift.at # "none"
  PROVE  /\ shift \in Shifts /\ mon.baseline # 0
         /\ \A p \in Phases : At(p) \in Shifts
         /\ Leave \in {NoShift} \cup Shifts
  BY InAStep, AtIsAShift, LeaveIsAShift DEF QualityTyped, KnowsTheClubs, Shifting

LEMMA CallsKeepTypes ==
  ASSUME QualityTyped, StopStream \/ Stopped \/ NotStopped \/ StartStream \/ Stay \/ ReplayBack
  PROVE  QualityTyped'
<1>1. shift.at # "none"
  BY DEF StopStream, Stopped, NotStopped, StartStream, Stay, ReplayBack
<1> USE InAStepTyped, <1>1
<1>2. UNCHANGED <<mon, saved, tick, kbps, club>>
  BY DEF StopStream, Stopped, NotStopped, StartStream, Stay, ReplayBack, OnlyShift, encVars
<1>3. shift' \in {NoShift} \cup Shifts
  <2>1. CASE StopStream \/ Stopped \/ NotStopped \/ ReplayBack
    BY <2>1 DEF StopStream, Stopped, NotStopped, ReplayBack, OnlyShift, Phases
  <2>2. CASE StartStream \/ Stay
    <3>1. \A fine \in BOOLEAN : Finish(fine) \in {NoShift} \cup Shifts
      <4> TAKE fine \in BOOLEAN
      <4>1. At("record") \in Shifts
        BY DEF Phases
      <4>2. [At("record") EXCEPT !.fine = fine] \in Shifts
        BY <4>1 DEF Shifts
      <4> QED
        BY <4>2 DEF Finish
    <3> QED
      BY <2>2, <3>1 DEF StartStream, Stay, OnlyShift, Phases
  <2> QED
    BY <2>1, <2>2
<1>4. FlagsTyped'
  BY DEF StopStream, Stopped, NotStopped, StartStream, Stay, ReplayBack, LeaveStream, StreamStarts,
         encVars, QualityTyped, FlagsTyped
<1> QED
  BY <1>2, <1>3, <1>4, AStepKeepsTypes DEF QualityTyped, StepTyped, RatesTyped

LEMMA SettingKeepsTypes ==
  ASSUME QualityTyped, StopReplayBuffer \/ SetBitrate
  PROVE  QualityTyped'
<1>1. shift.at # "none"
  BY DEF StopReplayBuffer, SetBitrate
<1> USE InAStepTyped, <1>1
<1>2. UNCHANGED <<mon, saved, tick, club>>
  BY DEF StopReplayBuffer, SetBitrate, OnlyShift
<1>3. shift' \in {NoShift} \cup Shifts
  <2>1. \A p \in Phases, b \in BOOLEAN : /\ [At(p) EXCEPT !.rbStopped = b] \in Shifts
                                        /\ [At(p) EXCEPT !.changed = b] \in Shifts
    BY DEF Shifts
  <2>2. \A p \in Phases, b \in BOOLEAN :
            LET on == [shift EXCEPT !.rbStopped = b]
            IN on \in Shifts /\ [on EXCEPT !.at = p] \in Shifts
    BY DEF Shifts
  <2>3. CASE StopReplayBuffer
    BY <2>1, <2>2, <2>3 DEF StopReplayBuffer, OnlyShift, Phases, QualityTyped, FlagsTyped
  <2>4. CASE SetBitrate
    BY <2>1, <2>4 DEF SetBitrate, Onward, OnlyShift, Phases
  <2> QED
    BY <2>3, <2>4
<1>4. FlagsTyped'
  BY DEF StopReplayBuffer, SetBitrate, LeaveStream, QualityTyped, FlagsTyped
<1>5. RatesTyped'
  <2>1. StreamLadderKbps(shift.base, shift.to) \in Rates
    BY ARungIsARate DEF Shifts, Rates
  <2> QED
    BY <2>1 DEF StopReplayBuffer, SetBitrate, OnlyShift, QualityTyped, RatesTyped
<1> QED
  BY <1>2, <1>3, <1>4, <1>5, AStepKeepsTypes DEF QualityTyped, StepTyped

\* What the monitor remembers of a step that was made.
LEMMA ARecordIsRight ==
  ASSUME mon \in Mons, shift \in Shifts, NEW step \in Places
  PROVE  LET m == Recorded(mon, step)
         IN  /\ m \in Mons /\ m.step = step /\ m.samples = 0 /\ m.baseline = mon.baseline
             /\ m.current = StreamLadderKbps(shift.base, step)
<1> DEFINE n == NotedDir(mon, step)
<1>1. n \in Mons /\ n.baseline = mon.baseline
  <2>1. CASE step < mon.step
    BY <2>1 DEF NotedDir, Mons
  <2>2. CASE ~(step < mon.step)
    <3>1. Least2(2 * mon.wait, MaxWait) \in Nat /\ UpAfter \in Nat
      <4>1. mon.wait \in Nat
        BY DEF Mons
      <4>2. 2 * mon.wait \in Nat
        BY <4>1
      <4> QED
        BY <4>2, TheWaits, LeastOfTwo
    <3>2. \A w \in Nat : LET m == [mon EXCEPT !.lastDir = "down", !.cleanFor = 0, !.wait = w]
                         IN  m \in Mons /\ m.baseline = mon.baseline
      BY DEF Mons
    <3>3. CASE step = mon.step
      BY <3>3 DEF NotedDir
    <3>4. CASE step # mon.step
      <4> DEFINE w == IF mon.lastDir = "up" /\ mon.since < FailTicks
                      THEN Least2(2 * mon.wait, MaxWait) ELSE UpAfter
      <4>1. w \in Nat
        BY <3>1
      <4>2. n = [mon EXCEPT !.lastDir = "down", !.cleanFor = 0, !.wait = w]
        BY <2>2, <3>4 DEF NotedDir
      <4> HIDE DEF w, n
      <4> QED
        BY <3>2, <4>1, <4>2
    <3> QED
      BY <3>3, <3>4
  <2> QED
    BY <2>1, <2>2
<1>2. StreamLadderKbps(shift.base, step) \in Nat
  BY ARungIsARate DEF Shifts, Rates
<1>3. 0 \in 0 .. Enough
  BY QualityAssumption
<1> HIDE DEF n
<1> QED
  BY <1>1, <1>2, <1>3 DEF Recorded, Mons, n

LEMMA RecordKeepsTypes == ASSUME QualityTyped, Record PROVE QualityTyped'
<1>1. shift \in Shifts /\ mon.baseline # 0 /\ At("save") \in Shifts
  BY InAStepTyped DEF Record, Phases
<1>2. /\ mon' \in Mons /\ mon'.baseline = mon.baseline
  BY <1>1, ARecordIsRight DEF Record, QualityTyped, MemTyped, Shifts
<1>3. shift' \in Shifts
  <2>1. shift.base \in Rates /\ mon.baseline \in Rates
    BY <1>1 DEF Shifts, Rates, QualityTyped, MemTyped, Mons
  <2> QED
    BY <1>1, <2>1 DEF Record, Shifts
<1>4. UNCHANGED <<saved, tick, kbps, club, rb, live>>
  BY DEF Record, encVars, LeaveStream
<1> QED
  BY <1>1, <1>2, <1>3, <1>4
  DEF QualityTyped, RatesTyped, MemTyped, StepTyped, FlagsTyped, KnowsTheClubs

LEMMA SaveLadderKeepsTypes == ASSUME QualityTyped, SaveLadder PROVE QualityTyped'
<1>1. shift \in Shifts /\ mon.baseline # 0 /\ Leave \in {NoShift} \cup Shifts
  BY InAStepTyped DEF SaveLadder
<1>2. saved' \in Saves
  <2>1. shift.to = 0 => SavedLadder(shift.to, shift.base) \in Saves
    BY DEF SavedLadder, Saves
  <2>2. ASSUME shift.to # 0 PROVE SavedLadder(shift.to, shift.base) \in Saves
    <3>1. shift.to \in Places \ {0} /\ shift.base \in Rates /\ mon.current \in Nat
      BY <1>1, <2>2 DEF Shifts, QualityTyped, MemTyped, Mons
    <3> QED
      BY <2>2, <3>1 DEF SavedLadder, Saves
  <2>3. SavedLadder(shift.to, shift.base) \in Saves
    BY <2>1, <2>2
  <2>4. saved \in Saves
    BY DEF QualityTyped, MemTyped
  <2> QED
    BY <2>3, <2>4 DEF SaveLadder, Written
<1>3. UNCHANGED <<mon, tick, kbps, club, rb, live>>
  BY DEF SaveLadder, encVars, LeaveStream
<1>4. shift' \in {NoShift} \cup Shifts
  BY <1>1 DEF SaveLadder
<1> QED
  BY <1>1, <1>2, <1>3, <1>4
  DEF QualityTyped, RatesTyped, MemTyped, StepTyped, FlagsTyped, KnowsTheClubs

-----------------------------------------------------------------------------
(* The monitor's memory, a judgement at a time.                                 *)

LEMMA AgedIsAMon ==
  ASSUME NEW m \in Mons
  PROVE  /\ Aged(m) \in Mons /\ Aged(m).samples = m.samples
         /\ Aged(m).step = m.step /\ Aged(m).baseline = m.baseline
         /\ Aged(m).current = m.current /\ Aged(m).wait = m.wait
         /\ Aged(m).cleanFor = IF m.cleanFor = 0 THEN 0 ELSE Least2(m.cleanFor + 1, MaxWait + 1)
<1>1. Least2(m.since + 1, Long) \in Nat /\ Least2(m.cleanFor + 1, MaxWait + 1) \in Nat
  <2>1. m.since \in Nat /\ m.cleanFor \in Nat
    BY DEF Mons
  <2>2. m.since + 1 \in Nat /\ m.cleanFor + 1 \in Nat
    BY <2>1
  <2> QED
    BY <2>2, TheWaits, LeastOfTwo
<1> QED
  BY <1>1 DEF Aged, Mons

LEMMA RebasedIsAMon ==
  ASSUME mon \in Mons
  PROVE  /\ Rebased \in Mons /\ Rebased.baseline = mon.baseline /\ Rebased.samples = mon.samples
         /\ Rebased.current = mon.current
         /\ \/ Rebased.step = mon.step /\ Rebased.cleanFor = mon.cleanFor /\ Rebased.wait = mon.wait
            \/ mon.step > 0 /\ Rebased.step = 0 /\ Rebased.cleanFor = 0
<1>1. UpAfter \in Nat /\ 0 \in Places
  BY TheWaits, ThePlaces
<1>2. CASE ~Foreign
  BY <1>2 DEF Rebased, Mons
<1>3. CASE Foreign /\ mon.foreign = 0
  BY <1>3 DEF Rebased, Mons
<1>4. CASE Foreign /\ mon.foreign # 0
  <2>1. mon.step > 0
    BY <1>4 DEF Foreign
  <2> QED
    BY <1>1, <1>4, <2>1 DEF Rebased, Mons
<1> QED
  BY <1>2, <1>3, <1>4

LEMMA BasedIsAMon ==
  ASSUME NEW m \in Mons, saved \in Saves, tick.kbps \in Rates, m.step > 0 => m.baseline # 0
  PROVE  LET b == Based(m)
         IN  /\ b \in Mons /\ b.samples = m.samples /\ b.baseline # 0
             /\ m.step > 0 => b = m
             /\ m.baseline # 0 => b.step = m.step /\ b.cleanFor = m.cleanFor
             /\ b.step > 0 /\ m.step = 0 =>
                  m.baseline = 0 /\ saved = [step |-> b.step, baseline |-> b.baseline, kbps |-> b.current]
<1>1. m.step \in Nat
  BY ThePlaces DEF Mons
<1>2. CASE m.step # 0
  <2>1. m.step > 0
    BY <1>1, <1>2
  <2>2. Based(m) = m
    BY <1>2 DEF Based
  <2> QED
    BY <1>2, <2>1, <2>2
<1>3. CASE m.step = 0
  <2>1. Based(m) = Resumed(m) /\ ~(m.step > 0)
    BY <1>3 DEF Based
  <2>2. CASE m.baseline = 0 /\ saved # None /\ saved.kbps = tick.kbps
    <3> DEFINE On(step, base, rate) == [m EXCEPT !.step = step, !.baseline = base, !.current = rate,
                                                 !.lastDir = "down", !.since = 0, !.cleanFor = 0]
    <3>1. Based(m) = On(saved.step, saved.baseline, saved.kbps)
      BY <2>1, <2>2 DEF Resumed
    <3>2. saved \in [step : Places \ {0}, baseline : Rates, kbps : Nat]
      BY <2>2 DEF Saves
    <3>3. saved.baseline \in Nat /\ saved.baseline # 0 /\ saved.step \in Places /\ saved.kbps \in Nat
          /\ saved = [step |-> saved.step, baseline |-> saved.baseline, kbps |-> saved.kbps]
      BY <3>2 DEF Rates
    <3>4. \A step \in Places, base \in Nat, rate \in Nat :
             LET b == On(step, base, rate)
             IN  b \in Mons /\ b.samples = m.samples /\ b.step = step /\ b.baseline = base
                 /\ b.current = rate
      <4> TAKE step \in Places, base \in Nat, rate \in Nat
      <4> DEFINE l == [m EXCEPT !.step = step, !.baseline = base, !.current = rate]
      <4>1. l \in Mons /\ l.samples = m.samples /\ l.step = step /\ l.baseline = base
            /\ l.current = rate
        BY DEF Mons
      <4> DEFINE b == [l EXCEPT !.lastDir = "down", !.since = 0, !.cleanFor = 0]
      <4> HIDE DEF l
      <4>2. b \in Mons /\ b.samples = m.samples /\ b.step = step /\ b.baseline = base
            /\ b.current = rate
        BY <4>1 DEF Mons
      <4>3. b = On(step, base, rate)
        BY DEF l, Mons
      <4> QED
        BY <4>2, <4>3
    <3> HIDE DEF On
    <3>5. /\ Based(m) \in Mons /\ Based(m).samples = m.samples
          /\ Based(m).step = saved.step /\ Based(m).baseline = saved.baseline
          /\ Based(m).current = saved.kbps
      BY <3>1, <3>3, <3>4
    <3> QED
      BY <2>1, <2>2, <3>3, <3>5
  <2>3. CASE ~(m.baseline = 0 /\ saved # None /\ saved.kbps = tick.kbps)
    <3>1. Based(m) = [m EXCEPT !.baseline = tick.kbps, !.current = tick.kbps]
      BY <2>1, <2>3 DEF Resumed
    <3>2. tick.kbps \in Nat /\ tick.kbps # 0
      BY DEF Rates
    <3>3. /\ Based(m) \in Mons /\ Based(m).samples = m.samples
          /\ Based(m).step = m.step /\ Based(m).baseline = tick.kbps /\ Based(m).cleanFor = m.cleanFor
      BY <3>1, <3>2 DEF Mons
    <3> QED
      BY <1>3, <2>1, <3>2, <3>3
  <2> QED
    BY <2>2, <2>3
<1> QED
  BY <1>2, <1>3

LEMMA SampledIsAMon ==
  ASSUME NEW m \in Mons
  PROVE  LET s == Sampled(m)
         IN  /\ s \in Mons /\ s.step = m.step /\ s.baseline = m.baseline /\ s.wait = m.wait
             /\ s.current = m.current
             /\ s.samples = Least2(m.samples + 1, Enough)
             /\ s.cleanFor = IF m.cleanFor = 0 THEN 0 ELSE Least2(m.cleanFor + 1, MaxWait + 1)
<1>1. m.samples \in 0 .. Enough
  BY DEF Mons
<1>2. Least2(m.samples + 1, Enough) \in 0 .. Enough
  BY <1>1, TheWaits DEF Least2
<1>3. Aged(m) \in Mons /\ Aged(m).samples = m.samples
  BY AgedIsAMon
<1> HIDE DEF Aged
<1> QED
  BY <1>2, <1>3, AgedIsAMon DEF Sampled, Mons

LEMMA SpellIsAMon ==
  ASSUME NEW m \in Mons, NEW line
  PROVE  LET n == Spell(m, line)
         IN  /\ n \in Mons /\ n.step = m.step /\ n.baseline = m.baseline /\ n.wait = m.wait
             /\ n.samples = m.samples /\ n.current = m.current
             /\ n.cleanFor = IF Clean(m, line) THEN Most(m.cleanFor, 1) ELSE 0
<1>1. m.cleanFor \in Nat
  BY DEF Mons
<1>2. Most(m.cleanFor, 1) \in Nat
  BY <1>1 DEF Most
<1> HIDE DEF Clean, Most
<1> QED
  BY <1>2 DEF Spell, Mons

\* The memory that a judgement starts from: the same place as before, an older spell;
\* or, in a server that has just found the stream, the place that was saved.
LEMMA Judged ==
  ASSUME QualityTyped, tick.at = "read"
  PROVE  LET m == Sampled(Based(Rebased))
         IN  /\ m \in Mons /\ m.baseline # 0 /\ Rebased.step \in Places
             /\ m.samples = Least2(mon.samples + 1, Enough)
             /\ m.step > 0 /\ mon.baseline # 0 =>
                  /\ m.step = mon.step /\ Rebased.step = mon.step
                  /\ m.baseline = mon.baseline /\ m.current = mon.current
                  /\ m.cleanFor = IF mon.cleanFor = 0 THEN 0 ELSE Least2(mon.cleanFor + 1, MaxWait + 1)
             /\ m.step > 0 /\ mon.baseline = 0 =>
                  /\ mon.step = 0 /\ Rebased.step = 0
                  /\ saved = [step |-> m.step, baseline |-> m.baseline, kbps |-> m.current]
<1> DEFINE r == Rebased
           b == Based(r)
           m == Sampled(b)
<1>1. mon \in Mons /\ saved \in Saves /\ (mon.step > 0 => mon.baseline # 0)
  BY DEF QualityTyped, MemTyped, KnowsTheClubs
<1>2. tick.kbps \in Rates
  BY DEF QualityTyped, StepTyped, Ticks
<1>3. /\ r \in Mons /\ r.baseline = mon.baseline /\ r.samples = mon.samples /\ r.current = mon.current
      /\ \/ r.step = mon.step /\ r.cleanFor = mon.cleanFor
         \/ mon.step > 0 /\ r.step = 0
  BY <1>1, RebasedIsAMon
<1>4. mon.step \in Nat /\ r.step \in Nat /\ mon.step \in Places /\ r.step \in Places
  BY <1>1, <1>3, ThePlaces DEF Mons
<1> HIDE DEF r
<1>5. r.step > 0 => r.baseline # 0
  BY <1>1, <1>3, <1>4
<1>6. /\ b \in Mons /\ b.samples = r.samples /\ b.baseline # 0
      /\ r.step > 0 => b = r
      /\ r.baseline # 0 => b.step = r.step /\ b.cleanFor = r.cleanFor
      /\ b.step > 0 /\ r.step = 0 =>
           r.baseline = 0 /\ saved = [step |-> b.step, baseline |-> b.baseline, kbps |-> b.current]
  BY <1>1, <1>2, <1>3, <1>5, BasedIsAMon
<1>7. b.step \in Nat
  BY <1>6, ThePlaces DEF Mons
<1> HIDE DEF b
<1>8. /\ m \in Mons /\ m.step = b.step /\ m.baseline = b.baseline /\ m.current = b.current
      /\ m.samples = Least2(b.samples + 1, Enough)
      /\ m.cleanFor = IF b.cleanFor = 0 THEN 0 ELSE Least2(b.cleanFor + 1, MaxWait + 1)
  BY <1>6, SampledIsAMon
<1> HIDE DEF m
<1>9. ASSUME m.step > 0, mon.baseline # 0
      PROVE  /\ m.step = mon.step /\ r.step = mon.step
             /\ m.baseline = mon.baseline /\ m.current = mon.current
             /\ m.cleanFor = IF mon.cleanFor = 0 THEN 0 ELSE Least2(mon.cleanFor + 1, MaxWait + 1)
  <2>1. r.step = b.step /\ r.step > 0
    BY <1>3, <1>6, <1>8, <1>9
  <2>2. b = r
    BY <1>6, <2>1
  <2>3. r.step = mon.step /\ r.cleanFor = mon.cleanFor
    BY <1>3, <1>4, <2>1
  <2> QED
    BY <1>3, <1>8, <2>1, <2>2, <2>3
<1>10. ASSUME m.step > 0, mon.baseline = 0
       PROVE  /\ mon.step = 0 /\ r.step = 0
              /\ saved = [step |-> m.step, baseline |-> m.baseline, kbps |-> m.current]
  <2>1. mon.step = 0 /\ r.step = 0
    BY <1>1, <1>3, <1>4, <1>10
  <2> QED
    BY <1>6, <1>8, <1>10, <2>1
<1> QED
  BY <1>3, <1>4, <1>6, <1>8, <1>9, <1>10 DEF m, b, r

LEMMA JudgeKeepsTypes ==
  ASSUME QualityTyped, NEW line \in {"bad", "fair", "clean"}, NEW atBreak \in BOOLEAN,
         Judge(line, atBreak)
  PROVE  QualityTyped'
<1> DEFINE m == Sampled(Based(Rebased))
           n == Spell(m, line)
<1>1. m \in Mons /\ m.baseline # 0
  BY Judged DEF Judge
<1> HIDE DEF m
<1>2. n \in Mons /\ n.baseline # 0 /\ n.step = m.step
  BY <1>1, SpellIsAMon
<1> HIDE DEF n
<1>3. /\ mon' \in {m, n}
      /\ \/ m.step < Top /\ tick' = Decided(m.step + 1, line)
         \/ n.step > 0 /\ tick' = Decided(n.step - 1, line)
         \/ tick' = Rest
  BY DEF Judge, m, n
<1>4. m.step \in Places
  BY <1>1 DEF Mons
<1>5. tick' \in Ticks
  <2>1. \A s \in Places : Decided(s, line) \in Ticks
    BY DEF Decided, Ticks
  <2>2. Rest \in Ticks
    BY DEF Rest, Ticks
  <2>3. /\ m.step < Top => m.step + 1 \in Places
        /\ m.step > 0 => m.step - 1 \in Places
    BY <1>4, ThePlaces DEF Places
  <2> QED
    BY <1>2, <1>3, <2>1, <2>2, <2>3
<1>6. UNCHANGED <<saved, shift, kbps, club, rb, live>>
  BY DEF Judge, OnlyMonitor, LeaveOBS, encVars, obsVars
<1>7. mon' \in Mons /\ mon'.baseline # 0
  BY <1>1, <1>2, <1>3
<1> QED
  BY <1>5, <1>6, <1>7
  DEF QualityTyped, RatesTyped, MemTyped, StepTyped, FlagsTyped, KnowsTheClubs

LEMMA OffAirKeepsTypes == ASSUME QualityTyped, JudgeOffAir PROVE QualityTyped'
<1>1. Aged(mon) \in Mons /\ Aged(mon).step = mon.step /\ Aged(mon).baseline = mon.baseline
  BY AgedIsAMon DEF QualityTyped, MemTyped
<1>2. 0 \in 0 .. Enough
  BY TheWaits
<1> HIDE DEF Aged
<1>3. mon' \in Mons /\ mon'.step = mon.step /\ mon'.baseline = mon.baseline
  BY <1>1, <1>2 DEF JudgeOffAir, Mons
<1>4. tick' \in Ticks
  BY DEF JudgeOffAir, Rest, Ticks
<1>5. UNCHANGED <<saved, shift, kbps, club, rb, live>>
  BY DEF JudgeOffAir, OnlyMonitor, LeaveOBS, encVars, obsVars
<1> QED
  BY <1>3, <1>4, <1>5
  DEF QualityTyped, RatesTyped, MemTyped, StepTyped, FlagsTyped, KnowsTheClubs, Shifting

LEMMA TicksKeepTypes ==
  ASSUME QualityTyped, Read \/ ClearLadder \/ AutoStep \/ AutoDone
  PROVE  QualityTyped'
<1>1. UNCHANGED <<mon, kbps, club, rb, live>>
  BY DEF Read, ClearLadder, AutoStep, AutoDone, OnlyMonitor, LeaveOBS, encVars, obsVars
<1>2. CASE Read
  <2>1. tick' \in Ticks
    <3>1. PICK ok \in BOOLEAN : tick' = [at |-> "read", ok |-> ok, live |-> ok /\ live, kbps |-> kbps]
      BY <1>2 DEF Read
    <3>2. (ok /\ live) \in BOOLEAN /\ kbps \in Rates
      BY DEF QualityTyped, RatesTyped
    <3> QED
      BY <3>1, <3>2 DEF Ticks
  <2> QED
    BY <1>1, <1>2, <2>1
    DEF Read, OnlyMonitor, QualityTyped, RatesTyped, MemTyped, StepTyped, FlagsTyped,
        KnowsTheClubs, Shifting
<1>3. CASE ClearLadder
  <2>1. saved' \in Saves
    BY <1>3 DEF ClearLadder, Written, Saves, QualityTyped, MemTyped
  <2> QED
    BY <1>1, <1>3, <2>1
    DEF ClearLadder, OnlyMonitor, QualityTyped, RatesTyped, MemTyped, StepTyped, FlagsTyped,
        KnowsTheClubs, Shifting
<1>4. CASE AutoDone
  BY <1>1, <1>4
  DEF AutoDone, OnlyMonitor, QualityTyped, RatesTyped, MemTyped, StepTyped, FlagsTyped,
      KnowsTheClubs, Shifting, Rest, Ticks
<1>5. CASE AutoStep
  <2>1. UNCHANGED saved
    BY <1>5 DEF AutoStep
  <2>2. tick.at = "decided"
    BY <1>5 DEF AutoStep
  <2>3. tick \in [at : {"decided", "stepping"}, to : Places, line : {"bad", "fair", "clean"}]
    BY <2>2 DEF QualityTyped, StepTyped, Ticks
  <2>4. CASE Begin("auto", tick.to) /\ tick' = [tick EXCEPT !.at = "stepping"]
    <3>1. shift' \in Shifts /\ mon.baseline # 0
      BY <2>3, <2>4, BeginTyped
    <3>2. tick' \in Ticks
      BY <2>3, <2>4 DEF Ticks
    <3> QED
      BY <1>1, <2>1, <3>1, <3>2, AStepKeepsTypes DEF QualityTyped, RatesTyped, FlagsTyped
  <2>5. CASE tick' = Rest /\ UNCHANGED <<shift, told>>
    BY <1>1, <2>1, <2>5
    DEF QualityTyped, RatesTyped, MemTyped, StepTyped, FlagsTyped, KnowsTheClubs, Shifting, Rest, Ticks
  <2> QED
    BY <1>5, <2>4, <2>5 DEF AutoStep
<1> QED
  BY <1>2, <1>3, <1>4, <1>5

LEMMA OBSKeepsTypes ==
  ASSUME QualityTyped,
         StopCompletes \/ Program \/ Operator \/ SetInOBS \/ TriggerLook \/ TriggerStart
  PROVE  QualityTyped'
<1>1. UNCHANGED <<mon, saved, tick, shift>>
  BY DEF StopCompletes, Program, Operator, SetInOBS, TriggerLook, TriggerStart, memVars
<1>2. RatesTyped'
  <2>1. CASE SetInOBS
    <3>1. club + 100 \in Rates
      BY DEF QualityTyped, RatesTyped, Rates
    <3> QED
      BY <2>1, <3>1 DEF SetInOBS, RatesTyped
  <2>2. CASE ~SetInOBS
    <3>1. UNCHANGED <<kbps, club>>
      BY <2>2 DEF StopCompletes, Program, Operator, TriggerLook, TriggerStart, encVars, Outputs
    <3> QED
      BY <3>1 DEF QualityTyped, RatesTyped
  <2> QED
    BY <2>1, <2>2
<1>3. rb' \in BOOLEAN
  BY DEF StopCompletes, Program, Operator, SetInOBS, TriggerLook, TriggerStart, encVars,
         Outputs, QualityTyped, FlagsTyped
<1>4. live' \in BOOLEAN
  BY DEF StopCompletes, Program, Operator, SetInOBS, TriggerLook, TriggerStart, LeaveStream,
         QualityTyped, FlagsTyped, Loaded, Crash, Open, StopLive, GoLive, Dies
<1> QED
  BY <1>1, <1>2, <1>3, <1>4, OutputsKeepTypes DEF FlagsTyped

LEMMA RestartKeepsTypes == ASSUME QualityTyped, ServerRestart PROVE QualityTyped'
<1>1. NewStreamMon \in Mons
  <2>1. 0 \in Places /\ UpAfter \in Nat /\ Long \in Nat /\ 0 \in 0 .. Enough
    BY ThePlaces, TheWaits
  <2> QED
    BY <2>1 DEF NewStreamMon, Mons
<1>2. NewStreamMon.step = 0 /\ ~(NewStreamMon.step > 0)
  BY DEF NewStreamMon
<1> QED
  BY <1>1, <1>2
  DEF ServerRestart, QualityTyped, RatesTyped, MemTyped, StepTyped, FlagsTyped, KnowsTheClubs,
      Shifting, NoShift, Rest, Ticks, encVars

\* Type correctness, and no step before the club's bitrate is known.
THEOREM QualityTypes == Spec => []QualityTyped
<1>1. Init => QualityTyped
  BY QualityBegins
<1>2. QualityTyped /\ [Next]_vars => QualityTyped'
  <2> SUFFICES ASSUME QualityTyped, [Next]_vars PROVE QualityTyped'
    OBVIOUS
  <2>1. CASE UNCHANGED vars
    BY <2>1, OutputsKeepTypes
    DEF vars, obsVars, qualityVars, encVars, memVars, QualityTyped, RatesTyped, FlagsTyped
  <2>2. CASE StopCompletes \/ Program \/ Operator \/ SetInOBS \/ TriggerLook \/ TriggerStart
    BY <2>2, OBSKeepsTypes
  <2>3. CASE Panel
    BY <2>3, PanelKeepsTypes
  <2>4. CASE StepAction
    BY <2>4, CallsKeepTypes, SettingKeepsTypes, RecordKeepsTypes, SaveLadderKeepsTypes DEF StepAction
  <2>5. CASE Tick
    BY <2>5, TicksKeepTypes, OffAirKeepsTypes, JudgeKeepsTypes DEF Tick
  <2>6. CASE ServerRestart
    BY <2>6, RestartKeepsTypes
  <2> QED
    BY <2>1, <2>2, <2>3, <2>4, <2>5, <2>6 DEF Next
<1> QED
  BY <1>1, <1>2, PTL DEF Spec

-----------------------------------------------------------------------------
(* A step up is earned.                                                       *)

\* The code's clean spell (cleanFor) is never longer than the clean ticks that were counted at
\* this rung, but for a spell that a step down not made did not end; and a spell is there
\* only with samples enough, of a stream whose baseline is known.
SpellIsProven ==
    /\ proven \in Nat /\ unmade \in BOOLEAN
    /\ mon.baseline = 0 => mon.samples = 0
    /\ mon.samples \in 1 .. Enough - 1 => mon.cleanFor = 0
    /\ mon.step > 0 /\ mon.samples = Enough /\ ~unmade => mon.cleanFor <= proven
Earned == QualityTyped /\ SpellIsProven

LEMMA EarnedBegins == Init => SpellIsProven
<1> SUFFICES ASSUME Init PROVE SpellIsProven
  OBVIOUS
<1>1. mon.samples = 0
  BY DEF Init, QualityInit, NewStreamMon
<1>2. proven \in Nat /\ unmade \in BOOLEAN
  BY DEF Init, QualityInit
<1>3. 0 \notin 1 .. Enough - 1 /\ 0 # Enough
  BY TheWaits
<1> QED
  BY <1>1, <1>2, <1>3 DEF SpellIsProven

\* The spell after a judgement, and what there is to show for it.
LEMMA JudgeIsProven ==
  ASSUME Earned, NEW line \in {"bad", "fair", "clean"}, NEW atBreak \in BOOLEAN,
         Judge(line, atBreak)
  PROVE  SpellIsProven' /\ (StepsUp => proven' > mon'.wait \/ unmade')
<1> DEFINE m == Sampled(Based(Rebased))
           n == Spell(m, line)
           enough == line = "clean" /\ m.samples = Enough
           down == Downshift(m, line) /\ AutoDownshift /\ m.step < Top
<1>1. /\ m \in Mons /\ m.baseline # 0
      /\ m.samples = Least2(mon.samples + 1, Enough)
      /\ m.step > 0 /\ mon.baseline # 0 =>
           /\ m.step = mon.step
           /\ m.cleanFor = IF mon.cleanFor = 0 THEN 0 ELSE Least2(mon.cleanFor + 1, MaxWait + 1)
  BY Judged DEF Judge, Earned
<1>2. /\ proven' = IF enough /\ m.step = mon.step THEN Least2(proven + 1, MaxWait + 1) ELSE 0
      /\ \/ down /\ mon' = m /\ tick' = Decided(m.step + 1, line) /\ unmade' = (m.cleanFor > 0)
         \/ /\ mon' = n /\ unmade' = (unmade /\ n.cleanFor > 0)
            /\ \/ n.step > 0 /\ Upshift(n, atBreak) /\ tick' = Decided(n.step - 1, line)
               \/ tick' = Rest
  BY DEF Judge
<1> HIDE DEF m
<1>3. /\ n \in Mons /\ n.step = m.step /\ n.baseline = m.baseline /\ n.wait = m.wait
      /\ n.samples = m.samples
      /\ n.cleanFor = IF enough THEN Most(m.cleanFor, 1) ELSE 0
  BY <1>1, SpellIsAMon DEF Clean
<1> HIDE DEF n
<1>4. /\ mon.samples \in 0 .. Enough /\ mon.cleanFor \in Nat /\ m.cleanFor \in Nat
      /\ m.step \in Nat /\ m.wait \in Nat /\ n.cleanFor \in Nat
  BY <1>1, <1>3, ThePlaces DEF Mons, Earned, QualityTyped, MemTyped
<1>5. proven \in Nat /\ unmade \in BOOLEAN /\ Enough \in Nat /\ Enough >= 2 /\ MaxWait + 1 \in Nat
      /\ MaxWait + 1 >= 1
  <2>1. MaxWait \in Nat
    BY TheWaits
  <2> QED
    BY <2>1, TheWaits DEF Earned, SpellIsProven
<1>6. proven' \in Nat
  BY <1>2, <1>5 DEF Least2
<1>7. unmade' \in BOOLEAN
  <2>1. (m.cleanFor > 0) \in BOOLEAN /\ (n.cleanFor > 0) \in BOOLEAN
    BY <1>4
  <2>2. (unmade /\ n.cleanFor > 0) \in BOOLEAN
    OBVIOUS
  <2> QED
    BY <1>2, <2>1, <2>2, Zenon
<1>8. mon'.baseline # 0 /\ mon'.samples = m.samples
  BY <1>1, <1>2, <1>3
<1>9. m.samples \in 1 .. Enough - 1 => mon'.cleanFor = 0
  <2> SUFFICES ASSUME m.samples \in 1 .. Enough - 1 PROVE mon'.cleanFor = 0
    OBVIOUS
  <2>1. m.samples # Enough
    BY <1>5
  <2>2. ~down
    BY <2>1 DEF Downshift
  <2> QED
    BY <1>2, <1>3, <2>1, <2>2
<1>10. m.step > 0 /\ m.samples = Enough /\ ~unmade' => mon'.cleanFor <= proven'
  <2> SUFFICES ASSUME m.step > 0, m.samples = Enough, ~unmade' PROVE mon'.cleanFor <= proven'
    OBVIOUS
  <2>1. CASE mon' = m /\ unmade' = (m.cleanFor > 0)
    <3>1. ~(m.cleanFor > 0)
      BY <2>1, Zenon
    <3>2. m.cleanFor = 0
      BY <1>4, <3>1
    <3> QED
      BY <1>6, <2>1, <3>2
  <2>2. CASE mon' = n /\ unmade' = (unmade /\ n.cleanFor > 0)
    <3>1. CASE ~enough
      BY <1>3, <1>6, <2>2, <3>1
    <3>2. CASE enough
      <4>1. mon.samples \in {Enough - 1, Enough}
        BY <1>1, <1>4, <1>5 DEF Least2
      <4>2. mon.baseline # 0
        <5>1. mon.samples # 0
          BY <1>5, <4>1
        <5> QED
          BY <5>1 DEF Earned, SpellIsProven
      <4>3. /\ m.step = mon.step
            /\ m.cleanFor = IF mon.cleanFor = 0 THEN 0 ELSE Least2(mon.cleanFor + 1, MaxWait + 1)
        BY <1>1, <4>2
      <4>4. proven' = Least2(proven + 1, MaxWait + 1) /\ n.cleanFor = Most(m.cleanFor, 1)
        BY <1>2, <1>3, <3>2, <4>3
      <4>5. n.cleanFor > 0
        BY <1>4, <4>4 DEF Most
      <4>6. ~unmade
        BY <2>2, <4>5
      <4>7. mon.cleanFor <= proven
        <5>1. CASE mon.samples = Enough
          BY <4>3, <4>6, <5>1 DEF Earned, SpellIsProven
        <5>2. CASE mon.samples = Enough - 1
          <6>1. mon.samples \in 1 .. Enough - 1
            BY <1>5, <5>2
          <6>2. mon.cleanFor = 0
            BY <6>1 DEF Earned, SpellIsProven
          <6> QED
            BY <1>5, <6>2
        <5> QED
          BY <4>1, <5>1, <5>2
      <4>8. m.cleanFor <= proven' /\ 1 <= proven'
        BY <1>4, <1>5, <4>3, <4>4, <4>7 DEF Least2
      <4> QED
        BY <1>4, <1>6, <2>2, <4>4, <4>8 DEF Most
    <3> QED
      BY <3>1, <3>2
  <2> QED
    BY <1>2, <2>1, <2>2
<1>11. mon'.step = m.step
  BY <1>2, <1>3
<1>12. SpellIsProven'
  BY <1>6, <1>7, <1>8, <1>9, <1>10, <1>11 DEF SpellIsProven
<1>13. StepsUp => proven' > mon'.wait \/ unmade'
  <2> SUFFICES ASSUME StepsUp, ~unmade' PROVE proven' > mon'.wait
    OBVIOUS
  <2>1. tick'.at = "decided" /\ tick'.to < m.step
    BY <1>11 DEF StepsUp
  <2>2. \A s : Decided(s, line).to = s
    BY DEF Decided
  <2>3. tick' # Rest
    BY <2>1 DEF Rest
  <2>4. tick' # Decided(m.step + 1, line)
    BY <1>4, <2>1, <2>2
  <2>5. n.step > 0 /\ Upshift(n, atBreak) /\ mon' = n
    BY <1>2, <2>3, <2>4
  <2>6. n.cleanFor > 0 /\ n.cleanFor - 1 >= n.wait
    BY <2>5 DEF Upshift
  <2>7. m.samples = Enough
    BY <1>3, <2>6
  <2>8. n.cleanFor <= proven'
    BY <1>3, <1>10, <2>5, <2>7
  <2> QED
    BY <1>3, <1>4, <1>6, <2>5, <2>6, <2>8
<1> QED
  BY <1>12, <1>13

\* Nothing else lengthens a spell, or shortens what it has to show, but with the samples gone.
LEMMA TheRestIsProven ==
  ASSUME Earned, QualityTyped', [Next]_vars,
         ~(\E line \in {"bad", "fair", "clean"}, atBreak \in BOOLEAN : Judge(line, atBreak))
  PROVE  SpellIsProven'
<1>1. CASE UNCHANGED <<mon, evidence>>
  BY <1>1 DEF evidence, Earned, SpellIsProven
<1>2. CASE mon'.samples = 0 /\ proven' = 0 /\ unmade' \in {FALSE, unmade}
  <2>1. 0 \notin 1 .. Enough - 1 /\ 0 # Enough
    BY TheWaits
  <2>2. proven' \in Nat /\ unmade' \in BOOLEAN
    BY <1>2 DEF Earned, SpellIsProven
  <2> QED
    BY <1>2, <2>1, <2>2 DEF SpellIsProven
<1>3. CASE Record
  <2>1. mon'.samples = 0
    BY <1>3, InAStepTyped, ARecordIsRight
    DEF Record, Earned, QualityTyped, MemTyped, Shifts
  <2> QED
    BY <1>2, <1>3, <2>1 DEF Record
<1>4. CASE JudgeOffAir
  <2>1. Aged(mon) \in Mons
    BY AgedIsAMon DEF Earned, QualityTyped, MemTyped
  <2> HIDE DEF Aged
  <2>2. mon'.samples = 0
    BY <1>4, <2>1 DEF JudgeOffAir, Mons
  <2> QED
    BY <1>2, <1>4, <2>2 DEF JudgeOffAir
<1>5. CASE ServerRestart
  BY <1>2, <1>5 DEF ServerRestart, NewStreamMon
<1>6. CASE Panel \/ StopCompletes \/ Program \/ Operator \/ SetInOBS \/ TriggerLook \/ TriggerStart
  BY <1>1, <1>6
  DEF Panel, StopCompletes, Program, Operator, SetInOBS, TriggerLook, TriggerStart, memVars, evidence
<1>7. CASE StepAction /\ ~Record
  BY <1>1, <1>7
  DEF StepAction, StopStream, Stopped, NotStopped, StopReplayBuffer, SetBitrate, StartStream, Stay,
      SaveLadder, ReplayBack, OnlyShift
<1>8. CASE Read \/ ClearLadder \/ AutoStep \/ AutoDone
  BY <1>1, <1>8 DEF Read, ClearLadder, AutoStep, AutoDone
<1>9. CASE UNCHANGED vars
  BY <1>1, <1>9 DEF vars, qualityVars, memVars, evidence
<1> QED
  BY <1>3, <1>4, <1>5, <1>6, <1>7, <1>8, <1>9 DEF Next, StepAction, Tick

\* A step is decided by a judgement, and by nothing else.
LEMMA OnlyAJudgementDecides ==
  ASSUME [Next]_vars, StepsUp
  PROVE  \E line \in {"bad", "fair", "clean"}, atBreak \in BOOLEAN : Judge(line, atBreak)
<1> SUFFICES ASSUME ~(\E line \in {"bad", "fair", "clean"}, atBreak \in BOOLEAN : Judge(line, atBreak))
             PROVE  FALSE
  OBVIOUS
<1>1. tick.at = "read" /\ tick'.at = "decided"
  BY DEF StepsUp
<1>2. tick' # tick /\ tick' # Rest
  BY <1>1 DEF Rest
<1>3. ~(Panel \/ StopCompletes \/ Program \/ Operator \/ SetInOBS \/ TriggerLook \/ TriggerStart)
  BY <1>2
  DEF Panel, StopCompletes, Program, Operator, SetInOBS, TriggerLook, TriggerStart, memVars
<1>4. ~StepAction
  BY <1>2
  DEF StepAction, StopStream, Stopped, NotStopped, StopReplayBuffer, SetBitrate, StartStream, Stay,
      Record, SaveLadder, ReplayBack, OnlyShift
<1>5. ~(Read \/ ClearLadder \/ AutoStep \/ AutoDone \/ JudgeOffAir \/ ServerRestart)
  BY <1>1, <1>2 DEF Read, ClearLadder, AutoStep, AutoDone, JudgeOffAir, ServerRestart
<1>6. ~UNCHANGED vars
  BY <1>2 DEF vars, qualityVars, memVars
<1> QED
  BY <1>3, <1>4, <1>5, <1>6 DEF Next, Tick

\* The ladder climbs on its own only after clean ticks in a row at that rung and on air,
\* as many as the wait asks for, or over a step down that was decided and not made.
THEOREM UpshiftEarned == Spec => UpshiftIsEarned
<1>1. Init => SpellIsProven
  BY EarnedBegins
<1>2. Earned /\ QualityTyped' /\ [Next]_vars =>
         SpellIsProven' /\ [StepsUp => proven' > mon'.wait \/ unmade']_vars
  <2> SUFFICES ASSUME Earned, QualityTyped', [Next]_vars
               PROVE  SpellIsProven' /\ (StepsUp => proven' > mon'.wait \/ unmade')
    BY Zenon
  <2>1. CASE \E line \in {"bad", "fair", "clean"}, atBreak \in BOOLEAN : Judge(line, atBreak)
    BY <2>1, JudgeIsProven
  <2>2. CASE ~(\E line \in {"bad", "fair", "clean"}, atBreak \in BOOLEAN : Judge(line, atBreak))
    BY <2>2, TheRestIsProven, OnlyAJudgementDecides
  <2> QED
    BY <2>1, <2>2
<1>3. Earned <=> QualityTyped /\ SpellIsProven
  BY DEF Earned
<1> QED
  BY <1>1, <1>2, <1>3, QualityTypes, PTL DEF Spec, UpshiftIsEarned

-----------------------------------------------------------------------------
(* A step ends well: with the new bitrate, and with the stream or the operator told.  *)

\* OBS's outputs run in an OBS that runs, and on an encoder.
OutputsInv ==
    /\ ~Up => ~live /\ ~rb
    /\ stopping => live
    /\ (~live /\ ~rb) <=> enc = 0

\* A step sets the bitrate with nothing encoding; and where nobody has mixed in, what is on
\* encodes at the bitrate that is set.
EncoderInv ==
    /\ shift.at \in {"buffer", "set", "start"} => ~live
    /\ ~mixed =>
         /\ live \/ rb => enc = kbps
         /\ shift.at = "set" => ~rb
         /\ shift.at \in {"stop", "flush", "unsure"} /\ ~shift.rbWas => ~rb

\* Where the step itself will see to the stream.
InHand == \/ shift.at \in {"flush", "unsure"}
          \/ shift.at \in {"buffer", "set", "start"} /\ shift.wasLive
ToldInv ==
    /\ shift.at \in {"stop", "flush", "unsure", "start", "stay"} => shift.wasLive
    /\ ~InHand => (stopping => told \/ deserted) /\ (TakenDownByStep => told \/ deserted)

EndFlags == {stopping, told, mixed, deserted} \subseteq BOOLEAN
EndInv == QualityTyped /\ EndFlags /\ OutputsInv /\ EncoderInv /\ ToldInv

LEMMA EndBegins == Init => EndFlags /\ OutputsInv /\ EncoderInv /\ ToldInv
<1> SUFFICES ASSUME Init PROVE EndFlags /\ OutputsInv /\ EncoderInv /\ ToldInv
  OBVIOUS
<1>1. ~live /\ ~rb /\ ~stopping /\ enc = 0 /\ shift.at = "none" /\ offBy = "never"
      /\ told = FALSE /\ mixed = FALSE /\ deserted = FALSE /\ stopping = FALSE
  BY DEF Init, OBSInit, QualityInit, NoShift
<1> QED
  BY <1>1 DEF EndFlags, OutputsInv, EncoderInv, ToldInv, InHand, TakenDownByStep, Shifting

\* The encoder, when an output starts or ends and the bitrate is left alone.
LEMMA EncoderStaysRight ==
  ASSUME EndInv, NEW mixing \in BOOLEAN, EncoderFollows(mixing), UNCHANGED kbps
  PROVE  /\ (~live' /\ ~rb') <=> enc' = 0
         /\ mixed' \in BOOLEAN
         /\ ~mixed' => (~live' /\ ~rb') \/ (~mixed /\ ~mixing)
         /\ ~mixed' => (live' \/ rb' => enc' = kbps')
<1>1. kbps # 0
  BY DEF EndInv, QualityTyped, RatesTyped, Rates
<1>2. (~live' /\ ~rb') <=> enc' = 0
  BY <1>1 DEF EncoderFollows, EndInv, OutputsInv
<1>3. mixed' \in BOOLEAN /\ (~mixed' => enc' = 0 \/ (~mixed /\ ~mixing))
  <2>1. mixed' = (enc' # 0 /\ (mixed \/ mixing))
    BY DEF EncoderFollows
  <2>2. mixed' \in BOOLEAN
    BY <2>1, Zenon
  <2>3. ~mixed' => enc' = 0 \/ (~mixed /\ ~mixing)
    BY <2>1, Zenon
  <2> QED
    BY <2>2, <2>3
<1>4. ~mixed => (live' \/ rb' => enc' = kbps')
  BY <1>1 DEF EncoderFollows, EndInv, OutputsInv, EncoderInv
<1> QED
  BY <1>2, <1>3, <1>4

\* Who else moves an output, with the step where it is: it mixes in, or it starts nothing.
LEMMA OthersMixIn ==
  ASSUME EndInv, NEW mixing \in BOOLEAN, EncoderFollows(mixing), UNCHANGED <<kbps, shift>>,
         Shifting /\ rb' /\ ~rb => mixing, shift.at \in {"buffer", "set", "start"} => ~live'
  PROVE  EncoderInv'
<1>1. /\ ~mixed' => (~live' /\ ~rb') \/ (~mixed /\ ~mixing)
      /\ ~mixed' => (live' \/ rb' => enc' = kbps')
  BY EncoderStaysRight
<1>2. shift.at \in {"set", "stop", "flush", "unsure"} => Shifting
  BY DEF Shifting
<1> QED
  BY <1>1, <1>2 DEF EndInv, EncoderInv

\* What OBS and the operator do to the outputs, whatever step is under way.
LEMMA ProgramEndsWell == ASSUME EndInv, Program \/ Operator PROVE OutputsInv' /\ EncoderInv' /\ ToldInv'
<1>1. UNCHANGED <<mon, shift, told, kbps>> /\ Outputs
  BY DEF Program, Operator, memVars, Outputs
<1> DEFINE mixing == Shifting /\ rb' /\ ~rb
<1>2. mixing \in BOOLEAN /\ EncoderFollows(mixing)
  BY <1>1 DEF Outputs
<1>3. OutputsInv'
  <2>1. (~live' /\ ~rb') <=> enc' = 0
    BY <1>1, <1>2, EncoderStaysRight
  <2>2. ~Up' => ~live' /\ ~rb'
    BY DEF Program, Operator, Outputs, Up, EndInv, OutputsInv, Loaded, Crash, Dies, Open, StopLive, GoLive
  <2>3. stopping' => live'
    BY <1>1 DEF Outputs
  <2> QED
    BY <2>1, <2>2, <2>3 DEF OutputsInv
<1>4. EncoderInv'
  <2>1. shift.at \in {"buffer", "set", "start"} => ~live'
    BY DEF Program, Operator, Loaded, Crash, Dies, Open, StopLive, GoLive, EndInv, EncoderInv, Shifting
  <2> QED
    BY <1>1, <1>2, <2>1, OthersMixIn
<1>5. ToldInv'
  <2>1. (stopping' => stopping) /\ (TakenDownByStep' => TakenDownByStep)
    <3>1. stopping' => stopping
      BY <1>1 DEF Outputs
    <3>2. TakenDownByStep' => TakenDownByStep
      <4>1. CASE Program
        BY <4>1 DEF TakenDownByStep, Program, Loaded, Crash, Dies
      <4>2. CASE Operator
        BY <4>2 DEF TakenDownByStep, Operator, Open, StopLive, GoLive
      <4> QED
        BY <4>1, <4>2
    <3> QED
      BY <3>1, <3>2
  <2>2. (stopping' \/ TakenDownByStep') /\ deserted => deserted'
    <3>1. stopping' \/ TakenDownByStep' => (live' => live)
      BY <2>1 DEF EndInv, OutputsInv, TakenDownByStep
    <3> QED
      BY <3>1 DEF Program, Operator, memVars
  <2> QED
    BY <1>1, <2>1, <2>2 DEF EndInv, ToldInv, InHand
<1> QED
  BY <1>3, <1>4, <1>5

LEMMA AStopEndsWell == ASSUME EndInv, StopCompletes PROVE OutputsInv' /\ EncoderInv' /\ ToldInv'
<1>1. /\ UNCHANGED <<proc, rb, kbps, shift, told, deserted>> /\ live /\ ~live' /\ ~stopping'
      /\ EncoderFollows(FALSE)
  BY DEF StopCompletes, memVars, Quiet, EndInv, OutputsInv
<1>2. OutputsInv'
  BY <1>1, EncoderStaysRight DEF EndInv, OutputsInv, Up
<1>3. EncoderInv'
  BY <1>1, OthersMixIn
<1>4. ToldInv'
  <2>1. ~(shift.at \in {"buffer", "set", "start"})
    BY <1>1 DEF EndInv, EncoderInv
  <2>2. ~InHand => told \/ deserted
    BY DEF StopCompletes, EndInv, ToldInv
  <2> QED
    BY <1>1, <2>1, <2>2 DEF EndInv, ToldInv, InHand
<1> QED
  BY <1>2, <1>3, <1>4

\* A step that begins finds the stream as it is.
LEMMA BeginEndsWell ==
  ASSUME EndInv, NEW who \in {"panel", "auto"}, NEW step \in Places, Begin(who, step),
         UNCHANGED <<proc, live, offBy, encVars>>
  PROVE  OutputsInv' /\ EncoderInv' /\ ToldInv'
<1>1. PICK rbWas \in {rb} \cup {TRUE} :
           shift' = [at |-> IF live THEN "stop" ELSE IF rbWas THEN "buffer" ELSE "set",
                     by |-> who, to |-> step, base |-> mon.baseline, wasLive |-> live,
                     rbWas |-> rbWas, rbStopped |-> FALSE, changed |-> FALSE, fine |-> TRUE]
  BY DEF Begin
<1>2. /\ shift'.at = IF live THEN "stop" ELSE IF rbWas THEN "buffer" ELSE "set"
      /\ shift'.wasLive = live /\ shift'.rbWas = rbWas
  BY <1>1
<1>3. OutputsInv'
  BY DEF encVars, EndInv, OutputsInv, Up
<1>4. EncoderInv'
  <2>1. Up /\ (~rbWas => ~rb)
    BY <1>1 DEF Begin
  <2> QED
    BY <1>2, <2>1 DEF encVars, EndInv, EncoderInv, Up, Shifting
<1>5. ToldInv'
  <2>1. ~Shifting /\ told' = (told /\ (~live \/ stopping)) /\ UNCHANGED deserted
    BY DEF Begin
  <2>2. (stopping => told \/ deserted) /\ (TakenDownByStep => told \/ deserted)
    BY <2>1 DEF EndInv, ToldInv, InHand, Shifting
  <2> QED
    BY <1>2, <2>1, <2>2 DEF encVars, ToldInv, TakenDownByStep
<1> QED
  BY <1>3, <1>4, <1>5

\* Where a call leaves the step: at another of its places, with the stream and the buffer
\* still to see to; or behind all that.
Goes(place) == shift'.at = place /\ shift'.wasLive = shift.wasLive /\ shift'.rbWas = shift.rbWas
Behind == shift'.at \in {"record", "save", "replay", "none"}

LEMMA WhereAStepGoes ==
  ASSUME QualityTyped, StepAction
  PROVE  /\ StopStream => /\ Goes("flush") \/ Goes("unsure")
                          /\ UNCHANGED stopping \/ (live /\ stopping' = TRUE)
         /\ Stopped => Goes(IF shift.rbWas THEN "buffer" ELSE "set")
         /\ NotStopped => Behind
         /\ StopReplayBuffer => \/ rb' = FALSE /\ Goes("set")
                                \/ IF shift.wasLive THEN Goes("start") ELSE Behind
         /\ SetBitrate => IF shift.wasLive THEN Goes("start") ELSE Behind
         /\ StartStream => \/ ~live /\ live' = TRUE /\ told' = FALSE /\ Goes("stay")
                           \/ told' = TRUE /\ LeaveStream /\ Behind
         /\ Stay \/ Record \/ SaveLadder \/ ReplayBack => Behind
<1>1. shift \in Shifts
  <2>1. shift.at # "none"
    BY DEF StepAction, StopStream, Stopped, NotStopped, StopReplayBuffer, SetBitrate, StartStream,
           Stay, Record, SaveLadder, ReplayBack
  <2> QED
    BY <2>1, InAStepTyped
<1>2. \A p \in Phases : /\ At(p) \in Shifts /\ At(p).at = p
                        /\ At(p).wasLive = shift.wasLive /\ At(p).rbWas = shift.rbWas
  BY <1>1, AtIsAShift
<1>3. \A s \in Shifts : /\ [s EXCEPT !.rbStopped = FALSE].at = s.at
                        /\ \A b : /\ [s EXCEPT !.rbStopped = b].at = s.at
                                 /\ [s EXCEPT !.rbStopped = b].wasLive = s.wasLive
                                 /\ [s EXCEPT !.rbStopped = b].rbWas = s.rbWas
                                 /\ [s EXCEPT !.changed = b].at = s.at
                                 /\ [s EXCEPT !.changed = b].wasLive = s.wasLive
                                 /\ [s EXCEPT !.changed = b].rbWas = s.rbWas
                                 /\ [s EXCEPT !.fine = b].at = s.at
                                 /\ [s EXCEPT !.base = b].at = s.at
  BY DEF Shifts
<1>4. Leave.at \in {"replay", "none"} /\ NoShift.at = "none"
  BY <1>2 DEF Leave, NoShift, Phases
<1>5. \A f : Finish(f).at \in {"record", "replay", "none"}
  BY <1>2, <1>3, <1>4 DEF Finish, Phases
<1> HIDE DEF At, Leave, Finish
<1>6. StopStream => /\ Goes("flush") \/ Goes("unsure")
                    /\ UNCHANGED stopping \/ (live /\ stopping' = TRUE)
  <2>1. StopStream => shift' \in {At("flush"), At("unsure")}
    BY DEF StopStream, OnlyShift
  <2>2. StopStream => UNCHANGED stopping \/ (live /\ stopping' = TRUE)
    BY DEF StopStream
  <2> QED
    BY <1>2, <2>1, <2>2 DEF Goes, Phases
<1>7. Stopped => Goes(IF shift.rbWas THEN "buffer" ELSE "set")
  BY <1>2 DEF Stopped, OnlyShift, Goes, Phases
<1>8. NotStopped => Behind
  BY <1>4 DEF NotStopped, OnlyShift, Behind
<1>9. StopReplayBuffer => \/ rb' = FALSE /\ Goes("set")
                          \/ IF shift.wasLive THEN Goes("start") ELSE Behind
  <2> SUFFICES ASSUME StopReplayBuffer
               PROVE  \/ rb' = FALSE /\ Goes("set")
                      \/ IF shift.wasLive THEN Goes("start") ELSE Behind
    OBVIOUS
  <2>1. CASE rb' = FALSE /\ shift' = [At("set") EXCEPT !.rbStopped = rb]
    BY <1>2, <1>3, <2>1 DEF Goes, Phases
  <2>2. ASSUME NEW unknown \in BOOLEAN,
               LET on == [shift EXCEPT !.rbStopped = unknown]
               IN shift' = IF shift.wasLive THEN [on EXCEPT !.at = "start"]
                           ELSE IF unknown THEN [on EXCEPT !.at = "replay"] ELSE NoShift
        PROVE  IF shift.wasLive THEN Goes("start") ELSE Behind
    BY <1>1, <1>4, <2>2 DEF Goes, Behind, Shifts
  <2> QED
    BY <2>1, <2>2 DEF StopReplayBuffer, OnlyShift
<1>10. SetBitrate => IF shift.wasLive THEN Goes("start") ELSE Behind
  <2>1. \A p \in Phases : LET on == [At(p) EXCEPT !.changed = TRUE]
                          IN on.at = p /\ on.wasLive = shift.wasLive /\ on.rbWas = shift.rbWas
    BY <1>2, <1>3
  <2>2. SetBitrate => \/ shift' = [At(IF shift.wasLive THEN "start" ELSE "record") EXCEPT !.changed = TRUE]
                      \/ shift' = IF shift.wasLive THEN At("start") ELSE Leave
    BY DEF SetBitrate, Onward, OnlyShift
  <2>3. /\ At("start").at = "start" /\ At("record").at = "record"
        /\ At("start").wasLive = shift.wasLive /\ At("start").rbWas = shift.rbWas
    BY <1>2 DEF Phases
  <2>4. LET on(p) == [At(p) EXCEPT !.changed = TRUE]
        IN  /\ on("start").at = "start" /\ on("record").at = "record"
            /\ on("start").wasLive = shift.wasLive /\ on("start").rbWas = shift.rbWas
    BY <2>1 DEF Phases
  <2>5. ASSUME SetBitrate, shift.wasLive PROVE Goes("start")
    BY <2>2, <2>3, <2>4, <2>5 DEF Goes
  <2>6. ASSUME SetBitrate, ~shift.wasLive PROVE Behind
    BY <1>4, <2>2, <2>4, <2>6 DEF Behind
  <2> QED
    BY <2>5, <2>6
<1>11. StartStream => \/ ~live /\ live' = TRUE /\ told' = FALSE /\ Goes("stay")
                      \/ told' = TRUE /\ LeaveStream /\ Behind
  BY <1>2, <1>5 DEF StartStream, StreamStarts, OnlyShift, Goes, Behind, Phases
<1>12. Stay \/ Record \/ SaveLadder \/ ReplayBack => Behind
  <2>1. \A b : [At("save") EXCEPT !.base = b].at = "save"
    BY <1>2, <1>3 DEF Phases
  <2>2. Record => shift'.at = "save"
    BY <2>1 DEF Record
  <2> QED
    BY <1>4, <1>5, <2>2 DEF Stay, SaveLadder, ReplayBack, OnlyShift, Behind
<1> QED
  BY <1>1, <1>6, <1>7, <1>8, <1>9, <1>10, <1>11, <1>12

\* A step that is behind its calls, with the outputs as they were.
LEMMA BehindIsWell ==
  ASSUME EndInv, Behind, OutputsInv', ~mixed' => (live' \/ rb' => enc' = kbps'),
         stopping' => told' \/ deserted', TakenDownByStep' => told' \/ deserted'
  PROVE  EncoderInv' /\ ToldInv'
<1>1. ~(shift'.at \in {"buffer", "set", "start", "stop", "flush", "unsure", "stay"})
  BY DEF Behind
<1>2. EncoderInv'
  BY <1>1 DEF EncoderInv
<1>3. ToldInv'
  BY <1>1 DEF ToldInv, InHand
<1> QED
  BY <1>2, <1>3

\* A call that moves no output and tells no more or less leaves them right.
LEMMA OutputsAreLeft ==
  ASSUME EndInv, UNCHANGED <<proc, live, rb, enc, stopping>>
  PROVE  OutputsInv'
  BY DEF EndInv, OutputsInv, Up

LEMMA CallsEndWell ==
  ASSUME EndInv, StepAction
  PROVE  OutputsInv' /\ EncoderInv' /\ ToldInv'
<1>1. Shifting /\ UNCHANGED <<proc, offBy>>
  BY DEF Shifting, StepAction, StopStream, Stopped, NotStopped, StopReplayBuffer, SetBitrate, StartStream,
         Stay, Record, SaveLadder, ReplayBack, LeaveStream, StreamStarts, Quiet
<1>2. ~StartStream => (deserted => deserted')
  BY DEF StepAction, StopStream, Stopped, NotStopped, StopReplayBuffer, SetBitrate,
         Stay, Record, SaveLadder, ReplayBack
<1> USE WhereAStepGoes
<1>3. CASE StopStream
  <2>1. UNCHANGED <<live, kbps, enc, rb, mixed, told>> /\ shift.at = "stop"
    BY <1>3 DEF StopStream, LeaveStream
  <2>2. UNCHANGED stopping \/ (live /\ stopping' = TRUE)
    BY <1>3 DEF EndInv
  <2>3. OutputsInv'
    BY <1>1, <2>1, <2>2 DEF EndInv, OutputsInv, Up
  <2>4. Goes("flush") \/ Goes("unsure")
    BY <1>3 DEF EndInv
  <2>5. EncoderInv'
    BY <2>1, <2>4 DEF Goes, EndInv, EncoderInv
  <2>6. ToldInv'
    BY <2>1, <2>4 DEF Goes, EndInv, ToldInv, InHand
  <2> QED
    BY <2>3, <2>5, <2>6
<1>4. CASE Stopped
  <2>1. UNCHANGED <<live, encVars, told>> /\ ~live /\ shift.at \in {"flush", "unsure"}
    BY <1>4 DEF Stopped, LeaveStream
  <2>2. Goes(IF shift.rbWas THEN "buffer" ELSE "set")
    BY <1>4 DEF EndInv
  <2>3. OutputsInv'
    BY <1>1, <2>1, OutputsAreLeft DEF encVars
  <2>4. EncoderInv'
    BY <2>1, <2>2 DEF Goes, EndInv, EncoderInv, encVars
  <2>5. ToldInv'
    BY <2>1, <2>2 DEF Goes, EndInv, ToldInv, InHand
  <2> QED
    BY <2>3, <2>4, <2>5
<1>5. CASE NotStopped
  <2>1. UNCHANGED <<live, encVars>> /\ Behind
    BY <1>5 DEF NotStopped, LeaveStream, EndInv
  <2>2. told' \/ (live /\ deserted' = (deserted \/ stopping))
    BY <1>5 DEF NotStopped
  <2>3. (stopping' => told' \/ deserted') /\ (TakenDownByStep' => told' \/ deserted')
    BY <2>1, <2>2 DEF TakenDownByStep, encVars
  <2>4. OutputsInv'
    BY <1>1, <2>1, OutputsAreLeft DEF encVars
  <2>5. ~mixed' => (live' \/ rb' => enc' = kbps')
    BY <2>1 DEF encVars, EndInv, EncoderInv
  <2> QED
    BY <2>1, <2>3, <2>4, <2>5, BehindIsWell
<1>6. CASE StopReplayBuffer
  <2>1. UNCHANGED <<live, kbps, stopping, told>> /\ ~live /\ EncoderFollows(FALSE) /\ shift.at = "buffer"
    BY <1>6 DEF StopReplayBuffer, LeaveStream, EndInv, EncoderInv
  <2>2. ~Up => ~rb'
    BY <1>6 DEF StopReplayBuffer, EndInv, OutputsInv
  <2>3. OutputsInv'
    BY <1>1, <2>1, <2>2, EncoderStaysRight DEF EndInv, OutputsInv, Up
  <2>4. ~mixed' => (live' \/ rb' => enc' = kbps')
    BY <2>1, EncoderStaysRight
  <2>5. ~shift.wasLive => (stopping => told \/ deserted) /\ (TakenDownByStep => told \/ deserted)
    BY <2>1 DEF EndInv, ToldInv, InHand
  <2>6. ~shift.wasLive => /\ stopping' => told' \/ deserted'
                          /\ TakenDownByStep' => told' \/ deserted'
    <3>1. UNCHANGED deserted
      BY <1>6 DEF StopReplayBuffer
    <3>2. UNCHANGED TakenDownByStep
      BY <1>1, <2>1 DEF TakenDownByStep
    <3> QED
      BY <2>1, <2>5, <3>1, <3>2
  <2>7. CASE rb' = FALSE /\ Goes("set")
    <3>1. EncoderInv'
      BY <2>1, <2>4, <2>7 DEF Goes, EncoderInv
    <3>2. ToldInv'
      BY <2>1, <2>6, <2>7 DEF Goes, ToldInv, InHand
    <3> QED
      BY <2>3, <3>1, <3>2
  <2>8. CASE shift.wasLive /\ Goes("start")
    <3>1. EncoderInv'
      BY <2>1, <2>4, <2>8 DEF Goes, EncoderInv
    <3>2. ToldInv'
      BY <2>8 DEF Goes, ToldInv, InHand
    <3> QED
      BY <2>3, <3>1, <3>2
  <2>9. CASE ~shift.wasLive /\ Behind
    BY <2>3, <2>4, <2>6, <2>9, BehindIsWell
  <2> QED
    BY <1>6, <2>7, <2>8, <2>9 DEF EndInv
<1>7. CASE SetBitrate
  <2>1. UNCHANGED <<live, enc, rb, mixed, stopping, told, deserted>> /\ ~live /\ shift.at = "set"
    BY <1>7 DEF SetBitrate, LeaveStream, EndInv, EncoderInv
  <2>2. OutputsInv'
    BY <1>1, <2>1, OutputsAreLeft
  <2>3. ~mixed' => ~live' /\ ~rb'
    BY <2>1 DEF EndInv, EncoderInv
  <2>4. CASE shift.wasLive /\ Goes("start")
    <3>1. EncoderInv'
      BY <2>1, <2>3, <2>4 DEF Goes, EncoderInv
    <3>2. ToldInv'
      BY <2>4 DEF Goes, ToldInv, InHand
    <3> QED
      BY <2>2, <3>1, <3>2
  <2>5. CASE ~shift.wasLive /\ Behind
    <3>1. (stopping => told \/ deserted) /\ (TakenDownByStep => told \/ deserted)
      BY <2>1, <2>5 DEF EndInv, ToldInv, InHand
    <3>2. (stopping' => told' \/ deserted') /\ (TakenDownByStep' => told' \/ deserted')
      BY <1>1, <2>1, <3>1 DEF TakenDownByStep
    <3> QED
      BY <2>2, <2>3, <2>5, <3>2, BehindIsWell
  <2> QED
    BY <1>7, <2>4, <2>5 DEF EndInv
<1>8. CASE StartStream
  <2>1. UNCHANGED <<kbps, rb, stopping>> /\ EncoderFollows(FALSE) /\ ~live /\ ~stopping
    BY <1>8 DEF StartStream, EndInv, EncoderInv, OutputsInv
  <2>2. ~mixed' => (live' \/ rb' => enc' = kbps')
    BY <2>1, EncoderStaysRight
  <2>3. live' = live \/ Up
    BY <1>8 DEF StartStream, StreamStarts, LeaveStream
  <2>4. OutputsInv'
    <3>1. (~live' /\ ~rb') <=> enc' = 0
      BY <2>1, EncoderStaysRight
    <3>2. ~Up => ~live' /\ ~rb'
      BY <2>1, <2>3 DEF EndInv, OutputsInv
    <3>3. ~stopping'
      BY <2>1
    <3> QED
      BY <1>1, <3>1, <3>2, <3>3 DEF OutputsInv, Up
  <2>5. CASE live' = TRUE /\ told' = FALSE /\ Goes("stay")
    <3>1. shift.wasLive
      BY <1>8 DEF StartStream, EndInv, ToldInv
    <3>2. EncoderInv'
      BY <2>2, <2>5 DEF Goes, EncoderInv
    <3>3. ToldInv'
      BY <2>1, <2>5, <3>1 DEF Goes, ToldInv, TakenDownByStep
    <3> QED
      BY <2>4, <3>2, <3>3
  <2>6. CASE told' = TRUE /\ LeaveStream /\ Behind
    BY <2>2, <2>4, <2>6, BehindIsWell
  <2> QED
    BY <1>8, <2>5, <2>6 DEF EndInv
<1>9. CASE Stay \/ Record \/ SaveLadder
  <2>1. /\ UNCHANGED <<live, encVars>> /\ Behind /\ shift.at \in {"stay", "record", "save"}
        /\ told' = TRUE \/ UNCHANGED told
    BY <1>9 DEF Stay, Record, SaveLadder, LeaveStream, EndInv
  <2>2. (stopping => told \/ deserted) /\ (TakenDownByStep => told \/ deserted)
    BY <2>1 DEF EndInv, ToldInv, InHand
  <2>3. deserted => deserted'
    BY <1>2, <1>9, <2>1 DEF StartStream
  <2>4. (stopping' => told' \/ deserted') /\ (TakenDownByStep' => told' \/ deserted')
    BY <1>1, <2>1, <2>2, <2>3 DEF TakenDownByStep, encVars
  <2>5. OutputsInv'
    BY <1>1, <2>1, OutputsAreLeft DEF encVars
  <2>6. ~mixed' => (live' \/ rb' => enc' = kbps')
    BY <2>1 DEF encVars, EndInv, EncoderInv
  <2> QED
    BY <2>1, <2>4, <2>5, <2>6, BehindIsWell
<1>10. CASE ReplayBack
  <2>1. /\ UNCHANGED <<live, kbps, stopping, told, deserted>> /\ EncoderFollows(FALSE) /\ Behind
        /\ shift.at = "replay"
    BY <1>10 DEF ReplayBack, LeaveStream, EndInv
  <2>2. rb' = rb \/ Up
    BY <1>10 DEF ReplayBack
  <2>3. (stopping => told \/ deserted) /\ (TakenDownByStep => told \/ deserted)
    BY <2>1 DEF EndInv, ToldInv, InHand
  <2>4. (stopping' => told' \/ deserted') /\ (TakenDownByStep' => told' \/ deserted')
    <3>1. UNCHANGED TakenDownByStep
      BY <1>1, <2>1 DEF TakenDownByStep
    <3> QED
      BY <2>1, <2>3, <3>1
  <2>5. OutputsInv'
    <3>1. (~live' /\ ~rb') <=> enc' = 0
      BY <2>1, EncoderStaysRight
    <3> QED
      BY <1>1, <2>1, <2>2, <3>1 DEF EndInv, OutputsInv, Up
  <2>6. ~mixed' => (live' \/ rb' => enc' = kbps')
    BY <2>1, EncoderStaysRight
  <2> QED
    BY <2>1, <2>4, <2>5, <2>6, BehindIsWell
<1> QED
  BY <1>3, <1>4, <1>5, <1>6, <1>7, <1>8, <1>9, <1>10 DEF StepAction

\* The club sets another bitrate, the trigger starts the buffer, the server dies.
LEMMA OthersEndWell ==
  ASSUME EndInv, SetInOBS \/ TriggerLook \/ TriggerStart \/ ServerRestart
  PROVE  OutputsInv' /\ EncoderInv' /\ ToldInv'
<1>1. UNCHANGED <<proc, live, stopping, offBy, told>> /\ (deserted => deserted')
  <2>1. UNCHANGED <<proc, live, stopping, offBy, told>>
    BY DEF SetInOBS, TriggerLook, TriggerStart, ServerRestart, memVars, encVars, LeaveStream
  <2>2. SetInOBS \/ TriggerLook \/ TriggerStart => UNCHANGED deserted
    BY DEF SetInOBS, TriggerLook, TriggerStart, memVars
  <2>3. ServerRestart => deserted' = (deserted \/ Shifting)
    BY DEF ServerRestart
  <2>4. deserted' = (deserted \/ Shifting) \/ deserted' = deserted
    BY <2>2, <2>3
  <2>5. deserted => deserted'
    BY <2>4, Zenon
  <2> QED
    BY <2>1, <2>5
<1>2. CASE SetInOBS
  <2>1. UNCHANGED <<enc, rb, shift>> /\ mixed' = (mixed \/ enc # 0)
    BY <1>2 DEF SetInOBS, memVars
  <2>2. OutputsInv'
    BY <1>1, <2>1, OutputsAreLeft
  <2>3. EncoderInv'
    BY <1>1, <2>1 DEF EndInv, OutputsInv, EncoderInv
  <2>4. ToldInv'
    BY <1>1, <2>1 DEF EndInv, ToldInv, InHand, TakenDownByStep
  <2> QED
    BY <2>2, <2>3, <2>4
<1>3. CASE TriggerLook
  <2>1. UNCHANGED <<encVars, shift, deserted>>
    BY <1>3 DEF TriggerLook
  <2> QED
    BY <1>1, <2>1
    DEF encVars, EndInv, OutputsInv, EncoderInv, ToldInv, InHand, TakenDownByStep, Up
<1>4. CASE TriggerStart
  <2> DEFINE mixing == Shifting /\ rb' /\ ~rb
  <2>1. /\ UNCHANGED <<kbps, shift>> /\ mixing \in BOOLEAN /\ EncoderFollows(mixing)
        /\ rb' = (rb \/ Up)
    BY <1>4 DEF TriggerStart
  <2>2. (~live' /\ ~rb') <=> enc' = 0
    BY <2>1, EncoderStaysRight
  <2>3. OutputsInv'
    BY <1>1, <2>1, <2>2 DEF EndInv, OutputsInv, Up
  <2>4. EncoderInv'
    <3>1. shift.at \in {"buffer", "set", "start"} => ~live'
      BY <1>1 DEF EndInv, EncoderInv
    <3> QED
      BY <2>1, <3>1, OthersMixIn
  <2>5. ToldInv'
    BY <1>1, <2>1 DEF EndInv, ToldInv, InHand, TakenDownByStep
  <2> QED
    BY <2>3, <2>4, <2>5
<1>5. CASE ServerRestart
  <2>1. UNCHANGED encVars /\ shift'.at = "none" /\ deserted' = (deserted \/ Shifting)
    BY <1>5 DEF ServerRestart, NoShift
  <2>2. OutputsInv'
    BY <1>1, <2>1, OutputsAreLeft DEF encVars
  <2>3. EncoderInv'
    BY <1>1, <2>1 DEF EndInv, EncoderInv, encVars
  <2>4. stopping \/ TakenDownByStep => told \/ deserted \/ Shifting
    BY DEF EndInv, ToldInv, InHand, Shifting
  <2>5. UNCHANGED <<stopping, told, TakenDownByStep>>
    BY <1>1 DEF TakenDownByStep
  <2>6. stopping' \/ TakenDownByStep' => told' \/ deserted'
    BY <2>1, <2>4, <2>5
  <2>7. ToldInv'
    BY <2>1, <2>6 DEF ToldInv, InHand
  <2> QED
    BY <2>2, <2>3, <2>7
<1> QED
  BY <1>2, <1>3, <1>4, <1>5

LEMMA FlagsStay ==
  ASSUME EndInv, [Next]_vars
  PROVE  EndFlags'
<1>1. {stopping, told, mixed, deserted} \subseteq BOOLEAN
  BY DEF EndInv, EndFlags
<1>2. CASE StepAction
  <2>1. {stopping', told', deserted'} \subseteq BOOLEAN
    BY <1>1, <1>2
    DEF StepAction, StopStream, Stopped, NotStopped, StopReplayBuffer, SetBitrate, StartStream, Stay,
        Record, SaveLadder, ReplayBack, encVars
  <2>2. mixed' \in BOOLEAN
    BY <1>1, <1>2
    DEF StepAction, StopStream, Stopped, NotStopped, StopReplayBuffer, SetBitrate, StartStream, Stay,
        Record, SaveLadder, ReplayBack, encVars, EncoderFollows
  <2> QED
    BY <2>1, <2>2 DEF EndFlags
<1>3. CASE Tick
  BY <1>1, <1>3
  DEF Tick, Read, JudgeOffAir, Judge, ClearLadder, AutoStep, AutoDone, OnlyMonitor, LeaveOBS, encVars,
      Begin, EndFlags
<1>4. CASE Program \/ Operator \/ StopCompletes
  <2>1. /\ UNCHANGED told /\ stopping' \in BOOLEAN /\ deserted' \in BOOLEAN
    BY <1>1, <1>4 DEF Program, Operator, StopCompletes, Outputs, memVars
  <2>2. mixed' \in BOOLEAN
    BY <1>1, <1>4 DEF Program, Operator, StopCompletes, Outputs, EncoderFollows
  <2> QED
    BY <1>1, <2>1, <2>2 DEF EndFlags
<1>5. CASE SetInOBS \/ TriggerLook \/ TriggerStart \/ ServerRestart
  <2>1. {stopping', told', deserted'} \subseteq BOOLEAN
    BY <1>1, <1>5 DEF SetInOBS, TriggerLook, TriggerStart, ServerRestart, encVars, memVars
  <2>2. mixed' \in BOOLEAN
    BY <1>1, <1>5 DEF SetInOBS, TriggerLook, TriggerStart, ServerRestart, encVars, EncoderFollows
  <2> QED
    BY <2>1, <2>2 DEF EndFlags
<1>6. CASE Panel \/ UNCHANGED vars
  BY <1>1, <1>6 DEF Panel, Begin, vars, qualityVars, encVars, memVars, EndFlags
<1> QED
  BY <1>2, <1>3, <1>4, <1>5, <1>6 DEF Next

LEMMA EverythingEndsWell ==
  ASSUME EndInv, [Next]_vars
  PROVE  OutputsInv' /\ EncoderInv' /\ ToldInv'
<1>1. CASE UNCHANGED <<obsVars, encVars, shift, told, deserted>>
  BY <1>1
  DEF obsVars, encVars, EndInv, OutputsInv, EncoderInv, ToldInv, InHand, TakenDownByStep, Up, Shifting
<1>2. CASE Tick
  <2>1. CASE AutoStep /\ Begin("auto", tick.to)
    <3>1. tick.to \in Places
      <4>1. tick.at = "decided"
        BY <2>1 DEF AutoStep
      <4> QED
        BY <4>1 DEF EndInv, QualityTyped, StepTyped, Ticks
    <3> QED
      BY <2>1, <3>1, BeginEndsWell DEF AutoStep, LeaveOBS, obsVars
  <2>2. CASE ~(AutoStep /\ Begin("auto", tick.to))
    BY <1>1, <1>2, <2>2
    DEF Tick, Read, JudgeOffAir, Judge, ClearLadder, AutoStep, AutoDone, OnlyMonitor, LeaveOBS
  <2> QED
    BY <2>1, <2>2
<1>3. CASE Panel
  <2>1. PICK step \in Places : Begin("panel", step)
    BY <1>3 DEF Panel, Places
  <2> QED
    BY <1>3, <2>1, BeginEndsWell DEF Panel
<1>4. CASE UNCHANGED vars
  BY <1>1, <1>4 DEF vars, qualityVars, memVars
<1> QED
  BY <1>2, <1>3, <1>4, OthersEndWell, ProgramEndsWell, AStopEndsWell, CallsEndWell DEF Next

\* However a step ends, by itself or through what OBS refuses, leaves unanswered or does by
\* crashing, or with the server: an OBS on air encodes at the bitrate set, where no other has
\* mixed in since the encoder was free; and a stream the step took down is back, or the operator
\* has been told, where the step was not cut off or its stop left unanswered.
THEOREM StepsDoEndWell == Spec => []StepsEndWell
<1>1. Init => EndFlags /\ OutputsInv /\ EncoderInv /\ ToldInv
  BY EndBegins
<1>2. EndInv /\ [Next]_vars => EndFlags' /\ OutputsInv' /\ EncoderInv' /\ ToldInv'
  BY FlagsStay, EverythingEndsWell
<1>3. EndInv <=> QualityTyped /\ EndFlags /\ OutputsInv /\ EncoderInv /\ ToldInv
  BY DEF EndInv
<1>4. EndInv => StepsEndWell
  <2> SUFFICES ASSUME EndInv, ~Shifting
               PROVE  (live /\ ~mixed => enc = kbps) /\ (TakenDownByStep /\ ~deserted => told)
    BY DEF StepsEndWell
  <2>1. ~InHand
    BY DEF Shifting, InHand
  <2> QED
    BY <2>1 DEF EndInv, EncoderInv, ToldInv
<1> QED
  BY <1>1, <1>2, <1>3, <1>4, QualityTypes, PTL DEF Spec

-----------------------------------------------------------------------------
(* The place on the ladder is in the match state.                                *)

\* The ladder is left to itself; anything may fail, the server restart and OBS crash.
NoPresses == Steps = {}

\* A step under way is the monitor's, which waits for it; the place in memory is in the match
\* state, but while the step has yet to save it, or the monitor to clear it.
SavedInv ==
    /\ Shifting => tick.at = "stepping" /\ shift.by = "auto" /\ shift.base = mon.baseline
    /\ shift.at = "save" => shift.to = mon.step
    /\ clearing => mon.baseline # 0 /\ (mon.step = 0 \/ shift.at = "save")
    /\ ~clearing /\ ~unwritten /\ mon.step > 0 /\ shift.at # "save" =>
         saved = [step |-> mon.step, baseline |-> mon.baseline, kbps |-> mon.current]
KeptInv == QualityTyped /\ SavedInv

LEMMA SavedBegins == Init => SavedInv
<1> SUFFICES ASSUME Init PROVE SavedInv
  OBVIOUS
<1>1. mon.step = 0 /\ shift.at = "none" /\ clearing = FALSE
  BY DEF Init, QualityInit, NewStreamMon, NoShift
<1> QED
  BY <1>1 DEF SavedInv, Shifting

\* What the calls of a step leave as it was decided.
LEMMA CallsKeepThePlan ==
  ASSUME QualityTyped, StepAction, ~Record, ~SaveLadder
  PROVE  /\ UNCHANGED <<mon, saved, unwritten, clearing, tick>> /\ Shifting /\ shift'.at # "save"
         /\ shift.at # "save"
         /\ shift'.at # "none" => shift'.by = shift.by /\ shift'.to = shift.to /\ shift'.base = shift.base
<1>1. shift.at # "none"
  BY DEF StepAction, StopStream, Stopped, NotStopped, StopReplayBuffer, SetBitrate, StartStream,
         Stay, ReplayBack
<1>2. shift \in Shifts
  BY <1>1, InAStepTyped
<1> DEFINE Same(s) == /\ s.at # "save"
                      /\ s.at # "none" => s.by = shift.by /\ s.to = shift.to /\ s.base = shift.base
<1>3. \A p \in Phases : At(p).at = p /\ At(p).by = shift.by /\ At(p).to = shift.to /\ At(p).base = shift.base
  BY <1>2, AtIsAShift
<1>4. \A p \in Phases \ {"save"} : Same(At(p))
  BY <1>3
<1>5. Same(NoShift)
  BY DEF NoShift
<1>6. Same(Leave)
  BY <1>4, <1>5 DEF Leave, Phases
<1>7. \A p \in Phases \ {"save"}, b \in BOOLEAN :
          /\ Same([At(p) EXCEPT !.rbStopped = b]) /\ Same([At(p) EXCEPT !.changed = b])
          /\ Same([At(p) EXCEPT !.fine = b])
  <2>1. \A p \in Phases : At(p) \in Shifts
    BY <1>2, AtIsAShift
  <2> HIDE DEF At
  <2>2. \A s \in Shifts, b \in BOOLEAN :
            Same(s) => /\ Same([s EXCEPT !.rbStopped = b]) /\ Same([s EXCEPT !.changed = b])
                       /\ Same([s EXCEPT !.fine = b])
    BY DEF Shifts
  <2> HIDE DEF Same
  <2> QED
    BY <1>4, <2>1, <2>2
<1>8. \A b \in BOOLEAN : Same([[shift EXCEPT !.rbStopped = b] EXCEPT !.at = "start"])
                      /\ Same([[shift EXCEPT !.rbStopped = b] EXCEPT !.at = "replay"])
  BY <1>2 DEF Shifts
<1>9. \A f \in BOOLEAN : Same(Finish(f))
  BY <1>6, <1>7 DEF Finish, Phases
<1> HIDE DEF Same, At, Leave, Finish
<1>10. CASE StopStream \/ Stopped \/ NotStopped \/ Stay \/ StartStream \/ ReplayBack
  <2>1. Same(shift')
    BY <1>4, <1>5, <1>6, <1>9, <1>10
    DEF StopStream, Stopped, NotStopped, Stay, StartStream, ReplayBack, OnlyShift, Phases
  <2>2. UNCHANGED <<mon, saved, unwritten, clearing, tick>> /\ shift.at # "save"
    BY <1>10 DEF StopStream, Stopped, NotStopped, Stay, StartStream, ReplayBack, OnlyShift
  <2> QED
    BY <1>1, <2>1, <2>2 DEF Same, Shifting
<1>11. CASE StopReplayBuffer
  <2>1. Same(shift')
    <3>1. CASE shift' = [At("set") EXCEPT !.rbStopped = rb]
      BY <1>7, <3>1 DEF Phases, QualityTyped, FlagsTyped
    <3>2. ASSUME NEW unknown \in BOOLEAN,
                 LET on == [shift EXCEPT !.rbStopped = unknown]
                 IN shift' = IF shift.wasLive THEN [on EXCEPT !.at = "start"]
                             ELSE IF unknown THEN [on EXCEPT !.at = "replay"] ELSE NoShift
          PROVE  Same(shift')
      BY <1>5, <1>8, <3>2
    <3> QED
      BY <1>11, <3>1, <3>2 DEF StopReplayBuffer, OnlyShift
  <2>2. UNCHANGED <<mon, saved, unwritten, clearing, tick>> /\ shift.at # "save"
    BY <1>11 DEF StopReplayBuffer, OnlyShift
  <2> QED
    BY <1>1, <2>1, <2>2 DEF Same, Shifting
<1>12. CASE SetBitrate
  <2>1. Same(shift')
    BY <1>4, <1>6, <1>7, <1>12 DEF SetBitrate, Onward, OnlyShift, Phases
  <2>2. UNCHANGED <<mon, saved, unwritten, clearing, tick>> /\ shift.at # "save"
    BY <1>12 DEF SetBitrate, OnlyShift
  <2> QED
    BY <1>1, <2>1, <2>2 DEF Same, Shifting
<1> QED
  BY <1>10, <1>11, <1>12 DEF StepAction

LEMMA StepsKeepTheSaved ==
  ASSUME KeptInv, StepAction
  PROVE  SavedInv'
<1>1. CASE ~Record /\ ~SaveLadder
  BY <1>1, CallsKeepThePlan DEF KeptInv, SavedInv, Shifting
<1>2. CASE Record
  <2>1. shift \in Shifts /\ Shifting /\ shift.at = "record"
    BY <1>2, InAStepTyped DEF Record, Shifting, KeptInv
  <2>2. mon'.step = shift.to /\ mon'.baseline = mon.baseline /\ mon.baseline # 0
    BY <1>2, <2>1, ARecordIsRight DEF Record, KeptInv, QualityTyped, MemTyped, Shifts, KnowsTheClubs
  <2>3. shift'.at = "save" /\ shift'.by = shift.by /\ shift'.to = shift.to /\ shift'.base = mon.baseline
    <3>1. /\ At("save") \in Shifts /\ At("save").at = "save" /\ At("save").by = shift.by
          /\ At("save").to = shift.to
      BY <2>1, AtIsAShift DEF Phases
    <3>2. shift.base = mon.baseline
      BY <2>1 DEF KeptInv, SavedInv
    <3> HIDE DEF At
    <3>3. shift' = [At("save") EXCEPT !.base = mon.baseline]
      BY <1>2, <3>2 DEF Record
    <3> QED
      BY <3>1, <3>3 DEF Shifts
  <2>4. tick' = tick /\ clearing' = clearing
    BY <1>2 DEF Record
  <2> QED
    BY <2>1, <2>2, <2>3, <2>4 DEF KeptInv, SavedInv, Shifting
<1>3. CASE SaveLadder
  <2>1. shift.at = "save" /\ ~clearing /\ shift.to = mon.step /\ shift.base = mon.baseline
    BY <1>3 DEF SaveLadder, KeptInv, SavedInv, Shifting
  <2>2. shift' \in {NoShift, At("replay")} /\ shift'.at # "save"
        /\ (shift'.at # "none" => shift'.by = shift.by /\ shift'.base = shift.base)
    BY <1>3, InAStepTyped, AtIsAShift DEF SaveLadder, Leave, KeptInv, NoShift, Phases
  <2>3. mon.step # 0 /\ ~unwritten' => saved' = [step |-> mon.step, baseline |-> mon.baseline, kbps |-> mon.current]
    BY <1>3, <2>1 DEF SaveLadder, Written, SavedLadder
  <2>4. mon.step > 0 => mon.step # 0
    OBVIOUS
  <2>5. UNCHANGED <<mon, clearing, tick>>
    BY <1>3 DEF SaveLadder
  <2> QED
    BY <2>1, <2>2, <2>3, <2>4, <2>5 DEF KeptInv, SavedInv, Shifting
<1> QED
  BY <1>1, <1>2, <1>3

LEMMA JudgementKeepsTheSaved ==
  ASSUME KeptInv, NEW line \in {"bad", "fair", "clean"}, NEW atBreak \in BOOLEAN,
         Judge(line, atBreak)
  PROVE  SavedInv'
<1> DEFINE m == Sampled(Based(Rebased))
           n == Spell(m, line)
<1>1. /\ m \in Mons /\ m.baseline # 0
      /\ m.step > 0 /\ mon.baseline # 0 =>
           /\ m.step = mon.step /\ Rebased.step = mon.step
           /\ m.baseline = mon.baseline /\ m.current = mon.current
      /\ m.step > 0 /\ mon.baseline = 0 =>
           /\ mon.step = 0 /\ Rebased.step = 0
           /\ saved = [step |-> m.step, baseline |-> m.baseline, kbps |-> m.current]
  BY Judged DEF Judge, KeptInv
<1>2. mon' \in {m, n} /\ clearing' = (clearing \/ Rebased.step # mon.step)
  BY DEF Judge
<1> HIDE DEF m
<1>3. n.step = m.step /\ n.baseline = m.baseline /\ n.current = m.current
  BY <1>1, SpellIsAMon
<1> HIDE DEF n
<1>4. mon'.step = m.step /\ mon'.baseline = m.baseline /\ mon'.current = m.current
  BY <1>2, <1>3
<1>5. UNCHANGED <<shift, saved, unwritten>> /\ ~Shifting /\ shift.at # "save"
  BY DEF Judge, OnlyMonitor, KeptInv, SavedInv, Shifting
<1>6. m.step \in Nat /\ mon.step \in Nat
  BY <1>1, ThePlaces DEF Mons, KeptInv, QualityTyped, MemTyped
<1>7. clearing' => m.step = 0
  <2> SUFFICES ASSUME clearing', m.step # 0 PROVE FALSE
    OBVIOUS
  <2>1. m.step > 0
    BY <1>6
  <2>2. Rebased.step = mon.step /\ clearing
    BY <1>1, <1>2, <2>1
  <2>3. mon.baseline # 0 /\ mon.step = 0
    BY <1>5, <2>2 DEF KeptInv, SavedInv
  <2> QED
    BY <1>1, <2>1, <2>3
<1>8. ~clearing' /\ ~unwritten /\ m.step > 0 =>
        saved = [step |-> m.step, baseline |-> m.baseline, kbps |-> m.current]
  BY <1>1, <1>2, <1>5 DEF KeptInv, SavedInv
<1> QED
  BY <1>1, <1>4, <1>5, <1>7, <1>8 DEF SavedInv, Shifting

LEMMA TicksKeepTheSaved ==
  ASSUME KeptInv, Tick
  PROVE  SavedInv'
<1>1. CASE JudgeOffAir
  <2>1. /\ Aged(mon) \in Mons /\ Aged(mon).step = mon.step /\ Aged(mon).baseline = mon.baseline
        /\ Aged(mon).current = mon.current
    BY AgedIsAMon DEF KeptInv, QualityTyped, MemTyped
  <2> HIDE DEF Aged
  <2>2. mon'.step = mon.step /\ mon'.baseline = mon.baseline /\ mon'.current = mon.current
    BY <1>1, <2>1 DEF JudgeOffAir, Mons
  <2>3. UNCHANGED <<shift, saved, unwritten, clearing>> /\ ~Shifting
    BY <1>1 DEF JudgeOffAir, OnlyMonitor, KeptInv, SavedInv
  <2> QED
    BY <2>2, <2>3 DEF KeptInv, SavedInv, Shifting
<1>2. CASE Read
  <2>1. UNCHANGED <<mon, shift, saved, unwritten, clearing>> /\ ~Shifting
    BY <1>2 DEF Read, OnlyMonitor, KeptInv, SavedInv
  <2> QED
    BY <2>1 DEF KeptInv, SavedInv, Shifting
<1>3. CASE ClearLadder
  <2>1. UNCHANGED <<mon, shift, tick>> /\ clearing /\ ~clearing'
    BY <1>3 DEF ClearLadder, OnlyMonitor
  <2>2. mon.step > 0 => shift.at = "save"
    BY <2>1 DEF KeptInv, SavedInv
  <2> QED
    BY <2>1, <2>2 DEF KeptInv, SavedInv, Shifting
<1>4. CASE AutoDone
  <2>1. UNCHANGED <<mon, shift, saved, unwritten, clearing>> /\ ~Shifting
    BY <1>4 DEF AutoDone, OnlyMonitor, KeptInv, SavedInv
  <2> QED
    BY <2>1 DEF KeptInv, SavedInv, Shifting
<1>5. CASE AutoStep
  <2>1. UNCHANGED <<mon, saved, unwritten, clearing>> /\ tick.at = "decided" /\ ~Shifting
    BY <1>5 DEF AutoStep, KeptInv, SavedInv
  <2>2. CASE Begin("auto", tick.to) /\ tick' = [tick EXCEPT !.at = "stepping"]
    <3>1. shift'.at # "save" /\ shift'.by = "auto" /\ shift'.base = mon.baseline
      BY <2>2 DEF Begin
    <3>2. tick'.at = "stepping"
      BY <2>1, <2>2 DEF KeptInv, QualityTyped, StepTyped, Ticks
    <3> QED
      BY <2>1, <3>1, <3>2 DEF KeptInv, SavedInv, Shifting
  <2>3. CASE UNCHANGED shift
    BY <2>1, <2>3 DEF KeptInv, SavedInv, Shifting
  <2> QED
    BY <1>5, <2>2, <2>3 DEF AutoStep
<1> QED
  BY <1>1, <1>2, <1>3, <1>4, <1>5, JudgementKeepsTheSaved DEF Tick

\* A ladder left to itself has, between its steps, its place in the match state, but for a save
\* that failed and till the next that lands: what a server that dies there goes on from is the
\* rung, the baseline and the bitrate it had.
THEOREM LadderSaved == ASSUME NoPresses PROVE Spec => []LadderIsSaved
<1>1. Init => SavedInv
  BY SavedBegins
<1>2. KeptInv /\ [Next]_vars => SavedInv'
  <2> SUFFICES ASSUME KeptInv, [Next]_vars PROVE SavedInv'
    OBVIOUS
  <2>1. CASE ServerRestart
    <3>1. mon'.step = 0 /\ shift'.at = "none" /\ clearing' = FALSE
      BY <2>1 DEF ServerRestart, NewStreamMon, NoShift
    <3> QED
      BY <3>1 DEF SavedInv, Shifting
  <2>2. ~Panel
    BY DEF NoPresses, Panel, PanelStep
  <2>3. CASE StopCompletes \/ Program \/ Operator \/ SetInOBS \/ TriggerLook \/ TriggerStart
             \/ UNCHANGED vars
    <3>1. UNCHANGED <<mon, saved, unwritten, clearing, tick, shift>>
      BY <2>3
      DEF StopCompletes, Program, Operator, SetInOBS, TriggerLook, TriggerStart, memVars, vars, qualityVars
    <3> QED
      BY <3>1 DEF KeptInv, SavedInv, Shifting
  <2> QED
    BY <2>1, <2>2, <2>3, StepsKeepTheSaved, TicksKeepTheSaved DEF Next
<1>3. KeptInv <=> QualityTyped /\ SavedInv
  BY DEF KeptInv
<1>4. KeptInv => LadderIsSaved
  BY DEF KeptInv, SavedInv, LadderIsSaved, Shifting
<1> QED
  BY <1>1, <1>2, <1>3, <1>4, QualityTypes, PTL DEF Spec
==============================================================================
