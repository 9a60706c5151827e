--------------------------- MODULE Recovery_proofs ---------------------------
EXTENDS ObsGuard, Talk, TalkSource, FiniteSetTheorems, WellFoundedInduction, TLAPS

(***************************************************************************)
(* What OBS crash recovery (obsguard.go) never does, for any number of         *)
(* crashes, presses, reopens and passes, any window and any set of faults.     *)
(*                                                                         *)
(* The type invariant is proved in four parts, because flags, names, counts    *)
(* and the ages of the reopens need different reasoning.                       *)
(***************************************************************************)

Flags == /\ marker \in BOOLEAN /\ live \in BOOLEAN /\ everLive \in BOOLEAN
         /\ armed \in BOOLEAN /\ streaming \in BOOLEAN /\ gaveUp \in BOOLEAN
         /\ pending \in BOOLEAN /\ pendingStream \in BOOLEAN
         /\ wasStreaming \in BOOLEAN /\ busy \in BOOLEAN /\ stopSeen \in BOOLEAN
         /\ monReach \in BOOLEAN /\ monLive \in BOOLEAN
Names == /\ proc \in Procs /\ lastExit \in {"none", "clean", "crash"}
         /\ offBy \in {"never", "operator", "crash", "shift"}
         /\ phase \in {"idle", "down", "waiting", "restore"}
Counts == /\ crashes \in Nat /\ presses \in Nat /\ tries \in Nat
          /\ hungFor \in 0..FreezeChecks
Ages == restarts \in SUBSET (0..Window-1) /\ opened \in SUBSET (0..Window-1)

(* Every step leaves the two-valued variables two-valued. *)
LEMMA FlagsKept ==
  ASSUME Flags, [Next]_vars PROVE Flags'
<1> USE DEF Flags, guardVars, obsVars
<1>1. ASSUME NEW heard \in BOOLEAN, Ask(heard)
      PROVE  streaming' \in BOOLEAN /\ stopSeen' \in BOOLEAN
  BY <1>1, ZenonT(60) DEF Ask, Sample
<1>2. CASE StartWatching
  <2>1. streaming' \in BOOLEAN /\ stopSeen' \in BOOLEAN
    BY <1>1, <1>2 DEF StartWatching
  <2> QED
    BY <1>2, <2>1, ZenonT(60) DEF StartWatching, Check, LeaveOBS
<1>3. CASE ResumeReopen
  <2>1. streaming' \in BOOLEAN /\ stopSeen' \in BOOLEAN
    BY <1>1, <1>3 DEF ResumeReopen
  <2> QED
    BY <1>3, <2>1, ZenonT(60) DEF ResumeReopen, Check, LeaveOBS
<1>4. CASE Watch
  <2>1. streaming' \in BOOLEAN /\ stopSeen' \in BOOLEAN
    BY <1>1, <1>4, ZenonT(60) DEF Watch, PortUp
  <2>2. live' \in BOOLEAN
    BY <1>4, ZenonT(60) DEF Watch, FreezeCheck, Dies, LeaveOBS
  <2> QED
    BY <1>4, <2>1, <2>2, ZenonT(60) DEF Watch, Check
<1>5. CASE FindDown
  BY <1>5, ZenonT(60) DEF FindDown, Check, LeaveOBS
<1>6. CASE SeeNothing
  BY <1>6, ZenonT(60) DEF SeeNothing, Check, LeaveOBS
<1>7. CASE Closed
  BY <1>7, ZenonT(60) DEF Closed
<1>8. CASE GiveUp
  BY <1>8, ZenonT(60) DEF GiveUp
<1>9. CASE NoProgram
  BY <1>9, ZenonT(60) DEF NoProgram
<1>10. CASE Launch
  BY <1>10, ZenonT(60) DEF Launch, Reopen
<1>11. CASE LaunchFails
  BY <1>11, ZenonT(60) DEF LaunchFails, Reopen
<1>12. CASE Await
  BY <1>12, ZenonT(60) DEF Await
<1>13. CASE Restore
  BY <1>13, ZenonT(60) DEF Restore, Accepted, Refused
<1>14. CASE MonitorTick
  BY <1>14, ZenonT(60) DEF MonitorTick
<1>15. CASE JobStart
  BY <1>15, ZenonT(60) DEF JobStart, CleanExit
<1>16. CASE JobEnd
  BY <1>16, ZenonT(60) DEF JobEnd
<1>17. CASE ServerRestart
  BY <1>17, ZenonT(60) DEF ServerRestart
<1>18. CASE Operator
  <2>1. marker' \in BOOLEAN /\ live' \in BOOLEAN /\ everLive' \in BOOLEAN
    <3>1. CASE Open
      BY <3>1, ZenonT(60) DEF Open
    <3>2. CASE Close
      BY <3>2, ZenonT(60) DEF Close, CleanExit
    <3>3. CASE GoLive
      BY <3>3, ZenonT(60) DEF GoLive
    <3>4. CASE StopLive
      BY <3>4, ZenonT(60) DEF StopLive
    <3> QED
      BY <1>18, <3>1, <3>2, <3>3, <3>4 DEF Operator
  <2>2. stopSeen' \in BOOLEAN
    BY <1>18, ZenonT(60) DEF Operator
  <2> QED
    BY <1>18, <2>1, <2>2, ZenonT(60) DEF Operator
<1>19. CASE Program
  <2>1. marker' \in BOOLEAN /\ live' \in BOOLEAN /\ everLive' \in BOOLEAN
    <3>1. CASE Loaded
      BY <3>1, ZenonT(60) DEF Loaded
    <3>2. CASE Crash
      BY <3>2, ZenonT(60) DEF Crash, Dies
    <3>3. CASE Freeze
      BY <3>3, ZenonT(60) DEF Freeze
    <3>4. CASE Thaw
      BY <3>4, ZenonT(60) DEF Thaw
    <3> QED
      BY <1>19, <3>1, <3>2, <3>3, <3>4 DEF Program
  <2> QED
    BY <1>19, <2>1, ZenonT(60) DEF Program
<1>20. CASE UNCHANGED vars
  <2>1. /\ marker' = marker /\ live' = live /\ everLive' = everLive
    BY <1>20 DEF vars
  <2>2. /\ armed' = armed /\ streaming' = streaming /\ gaveUp' = gaveUp
        /\ pending' = pending /\ pendingStream' = pendingStream
        /\ wasStreaming' = wasStreaming /\ stopSeen' = stopSeen
    BY <1>20 DEF vars
  <2>3. monReach' = monReach /\ monLive' = monLive /\ busy' = busy
    BY <1>20 DEF vars
  <2> QED
    BY <2>1, <2>2, <2>3, ZenonT(60)
<1> QED
  BY <1>2, <1>3, <1>4, <1>5, <1>6, <1>7, <1>8, <1>9, <1>10, <1>11, <1>12, <1>13,
     <1>14, <1>15, <1>16, <1>17, <1>18, <1>19, <1>20
  DEF Next, GuardStep

(* OBS, its last exit and the phase of the check stay among their names. *)
LEMMA NamesKept ==
  ASSUME Names, [Next]_vars PROVE Names'
<1> USE DEF Names, Procs, guardVars, obsVars
<1>1. CASE StartWatching \/ ResumeReopen
  BY <1>1 DEF StartWatching, ResumeReopen, Check, LeaveOBS
<1>2. CASE Watch
  BY <1>2 DEF Watch, Check, FreezeCheck, Dies, LeaveOBS
<1>3. CASE FindDown \/ SeeNothing
  BY <1>3 DEF FindDown, SeeNothing, Check, LeaveOBS
<1>4. CASE Closed \/ GiveUp \/ NoProgram
  BY <1>4 DEF Closed, GiveUp, NoProgram, Retry
<1>5. CASE Launch \/ LaunchFails
  BY <1>5 DEF Launch, LaunchFails, Reopen, Retry
<1>6. CASE Await \/ Restore
  BY <1>6 DEF Await, Restore, Accepted, Refused
<1>7. CASE MonitorTick
  BY <1>7 DEF MonitorTick
<1>8. CASE JobStart \/ JobEnd
  BY <1>8 DEF JobStart, JobEnd, CleanExit
<1>9. CASE ServerRestart
  BY <1>9 DEF ServerRestart
<1>10. CASE Operator
  BY <1>10 DEF Operator, Open, Close, GoLive, StopLive, CleanExit
<1>11. CASE Program
  BY <1>11 DEF Program, Loaded, Crash, Freeze, Thaw, Dies
<1>12. CASE UNCHANGED vars
  BY <1>12 DEF vars
<1> QED
  BY <1>1, <1>2, <1>3, <1>4, <1>5, <1>6, <1>7, <1>8, <1>9, <1>10, <1>11, <1>12
  DEF Next, GuardStep

(* The counters stay natural, and the freeze count never passes its limit. *)
LEMMA CountsKept ==
  ASSUME Counts, [Next]_vars PROVE Counts'
<1> USE GuardAssumption DEF Counts, guardVars, obsVars
<1>1. CASE StartWatching \/ ResumeReopen
  BY <1>1 DEF StartWatching, ResumeReopen, Check, LeaveOBS
<1>2. CASE Watch
  BY <1>2 DEF Watch, Check, FreezeCheck, Dies, LeaveOBS
<1>3. CASE FindDown \/ SeeNothing
  BY <1>3 DEF FindDown, SeeNothing, Check, LeaveOBS
<1>4. CASE Closed \/ GiveUp \/ NoProgram
  BY <1>4 DEF Closed, GiveUp, NoProgram, Retry
<1>5. CASE Launch \/ LaunchFails
  BY <1>5 DEF Launch, LaunchFails, Reopen, Retry
<1>6. CASE Await
  BY <1>6 DEF Await
<1>7. CASE Restore
  <2>1. tries' = tries + 1 \/ tries' = tries
    BY <1>7, ZenonT(60) DEF Restore, Accepted, Refused
  <2>2. UNCHANGED <<crashes, presses, hungFor>>
    BY <1>7 DEF Restore
  <2> QED
    BY <2>1, <2>2
<1>8. CASE MonitorTick
  BY <1>8 DEF MonitorTick
<1>9. CASE JobStart \/ JobEnd
  BY <1>9 DEF JobStart, JobEnd, Press
<1>10. CASE ServerRestart
  BY <1>10 DEF ServerRestart, Press
<1>11. CASE Operator
  BY <1>11 DEF Operator, Open, Close, GoLive, StopLive, Press
<1>12. CASE Program
  BY <1>12 DEF Program, Loaded, Crash, Freeze, Thaw
<1>13. CASE UNCHANGED vars
  BY <1>13 DEF vars
<1> QED
  BY <1>1, <1>2, <1>3, <1>4, <1>5, <1>6, <1>7, <1>8, <1>9, <1>10, <1>11, <1>12, <1>13
  DEF Next, GuardStep

(* Only a check, a reopen and a restart of the server touch the guard's tally. *)
LEMMA BookkeepingSteps ==
  ASSUME [Next]_vars
  PROVE  \/ Check \/ Launch \/ LaunchFails \/ NoProgram \/ ServerRestart
         \/ UNCHANGED <<restarts, opened>>
<1> USE DEF guardVars
<1>1. CASE StartWatching \/ ResumeReopen \/ Watch \/ FindDown \/ SeeNothing
  BY <1>1 DEF StartWatching, ResumeReopen, Watch, FindDown, SeeNothing
<1>2. CASE Closed \/ GiveUp
  BY <1>2 DEF Closed, GiveUp
<1>3. CASE Await \/ Restore
  BY <1>3 DEF Await, Restore
<1>4. CASE MonitorTick \/ JobStart \/ JobEnd
  BY <1>4 DEF MonitorTick, JobStart, JobEnd
<1>5. CASE Operator \/ Program
  BY <1>5 DEF Operator, Program
<1>6. CASE UNCHANGED vars
  BY <1>6 DEF vars
<1> QED
  BY <1>1, <1>2, <1>3, <1>4, <1>5, <1>6 DEF Next, GuardStep

(* Every reopen remembered is younger than the window. *)
LEMMA AgesKept ==
  ASSUME Ages, [Next]_vars PROVE Ages'
<1> USE GuardAssumption DEF Ages
<1>1. CASE Check
  <2>1. restarts' = Older(restarts) /\ opened' = Older(opened)
    BY <1>1 DEF Check
  <2>2. ASSUME NEW S \in SUBSET (0..Window-1) PROVE Older(S) \in SUBSET (0..Window-1)
    BY DEF Older
  <2> QED
    BY <2>1, <2>2
<1>2. CASE Launch \/ LaunchFails \/ NoProgram
  <2>1. restarts' = restarts \cup {0} /\ opened' \in {opened, opened \cup {0}}
    BY <1>2, ZenonT(60) DEF Launch, LaunchFails, NoProgram, Reopen, Retry
  <2> QED
    BY <2>1
<1>3. CASE ServerRestart
  BY <1>3 DEF ServerRestart
<1>4. CASE UNCHANGED <<restarts, opened>>
  BY <1>4
<1> QED
  BY <1>1, <1>2, <1>3, <1>4, BookkeepingSteps

(* Whatever OBS, the operator and the server do, each variable of the guard    *)
(* stays in its range.                                                       *)
THEOREM TypeCorrect == Spec => []GuardTypeOK
<1> DEFINE Parts == Flags /\ Names /\ Counts /\ Ages
<1>1. GuardTypeOK <=> Parts
  BY DEF GuardTypeOK, OBSTypeOK, Flags, Names, Counts, Ages
<1>2. Init => Parts
  <2> SUFFICES ASSUME Init PROVE Parts
    OBVIOUS
  <2> USE GuardAssumption DEF Init, OBSInit, GuardInit
  <2>1. Flags
    BY DEF Flags
  <2>2. Names
    BY DEF Names, Procs
  <2>3. Counts
    BY DEF Counts
  <2>4. Ages
    BY DEF Ages
  <2> QED
    BY <2>1, <2>2, <2>3, <2>4
<1>3. Parts /\ [Next]_vars => Parts'
  BY FlagsKept, NamesKept, CountsKept, AgesKept
<1> HIDE DEF Parts
<1>4. Spec => []Parts
  BY <1>2, <1>3, PTL DEF Spec
<1> QED
  BY <1>1, <1>4, PTL

-----------------------------------------------------------------------------
(* The steps that can arm the guard, or begin or end a reopen. *)
LEMMA WatchSteps ==
  ASSUME [Next]_vars
  PROVE  \/ StartWatching \/ ResumeReopen \/ FindDown \/ Closed \/ GiveUp \/ NoProgram
         \/ Launch \/ LaunchFails \/ Await \/ Restore \/ ServerRestart
         \/ UNCHANGED <<phase, armed, pending, tries>>
<1>1. CASE Watch \/ SeeNothing
  BY <1>1 DEF Watch, SeeNothing, Check
<1>2. CASE MonitorTick \/ JobStart \/ JobEnd \/ Operator \/ Program
  BY <1>2 DEF MonitorTick, JobStart, JobEnd, Operator, Program, guardVars
<1>3. CASE UNCHANGED vars
  BY <1>3 DEF vars, guardVars
<1> QED
  BY <1>1, <1>2, <1>3 DEF Next, GuardStep

\* PendingIsWatched is not inductive: a check past its first look is an armed guard's.
WatchInv == /\ phase # "idle" \/ pending => armed
            /\ pending => tries < Passes

(* A reopen left unfinished by one check of obsGuardTick is always picked up by *)
(* the next: the guard is armed, and passes are left.                         *)
THEOREM PendingWatched == Spec => []PendingIsWatched
<1>1. Init => WatchInv
  BY DEF Init, GuardInit, WatchInv
<1>2. WatchInv /\ [Next]_vars => WatchInv'
  <2> SUFFICES ASSUME WatchInv, [Next]_vars PROVE WatchInv'
    OBVIOUS
  <2>1. (phase # "idle" \/ pending => armed)'
    <3> USE DEF WatchInv
    <3>1. CASE StartWatching \/ ResumeReopen \/ FindDown
      BY <3>1, ZenonT(60) DEF StartWatching, ResumeReopen, FindDown, Check
    <3>2. CASE Closed \/ GiveUp
      BY <3>2, ZenonT(60) DEF Closed, GiveUp, Crashed
    <3>3. CASE NoProgram \/ Launch \/ LaunchFails
      BY <3>3, ZenonT(60) DEF NoProgram, Launch, LaunchFails, Reopen, Retry
    <3>4. CASE Await \/ Restore
      BY <3>4, ZenonT(60) DEF Await, Restore, Accepted, Refused
    <3>5. CASE ServerRestart
      BY <3>5, ZenonT(60) DEF ServerRestart
    <3>6. CASE UNCHANGED <<phase, armed, pending, tries>>
      BY <3>6, ZenonT(60)
    <3> QED
      BY <3>1, <3>2, <3>3, <3>4, <3>5, <3>6, WatchSteps
  <2>2. (pending => tries < Passes)'
    <3>1. CASE Launch \/ LaunchFails
      <4>1. tries' = 0
        BY <3>1 DEF Launch, LaunchFails, Reopen
      <4> QED
        BY <4>1, GuardAssumption
    <3>2. CASE Restore
      <4>1. pending' => Refused
        BY <3>2 DEF Restore, Accepted
      <4>2. Refused => tries' = tries + 1 /\ (pending' => tries' < Passes)
        BY DEF Refused
      <4> QED
        BY <4>1, <4>2
    <3>3. CASE UNCHANGED tries /\ (pending' => pending)
      BY <3>3 DEF WatchInv
    <3>4. CASE StartWatching \/ ResumeReopen \/ FindDown \/ Await
      <4>1. UNCHANGED <<tries, pending>>
        BY <3>4 DEF StartWatching, ResumeReopen, FindDown, Check, Await
      <4> QED
        BY <4>1, <3>3
    <3>5. CASE Closed \/ GiveUp \/ NoProgram
      <4>1. UNCHANGED tries
        BY <3>5 DEF Closed, GiveUp, NoProgram
      <4>2. pending' => pending
        BY <3>5 DEF Closed, GiveUp, NoProgram
      <4> QED
        BY <4>1, <4>2, <3>3
    <3>6. ServerRestart => ~pending'
      BY DEF ServerRestart
    <3> QED
      BY <3>1, <3>2, <3>3, <3>4, <3>5, <3>6, WatchSteps
  <2> QED
    BY <2>1, <2>2 DEF WatchInv
<1>3. WatchInv => PendingIsWatched
  BY DEF WatchInv, PendingIsWatched
<1> QED
  BY <1>1, <1>2, <1>3, PTL DEF Spec

-----------------------------------------------------------------------------
(* Everything the guard could mistake for a live stream. *)
Hearsay == live \/ streaming \/ monLive \/ wasStreaming \/ pendingStream
AirInv == Hearsay => everLive

(* The guard's, the monitor's and the check's idea of a live stream all go back *)
(* to one the operator started, so no restore starts another.                 *)
THEOREM Uninvited == Spec => NothingUninvited
<1>1. Init => AirInv
  BY DEF Init, OBSInit, GuardInit, AirInv, Hearsay
<1>2. AirInv /\ [Next]_vars => AirInv'
  <2> SUFFICES ASSUME AirInv, [Next]_vars PROVE AirInv'
    OBVIOUS
  <2> USE DEF AirInv, Hearsay, guardVars, obsVars
  <2>1. CASE StartWatching \/ ResumeReopen
    BY <2>1 DEF StartWatching, ResumeReopen, Check, Ask, Sample, LeaveOBS
  <2>2. CASE Watch
    BY <2>2 DEF Watch, Check, Ask, Sample, FreezeCheck, Dies, LeaveOBS
  <2>3. CASE FindDown \/ SeeNothing
    BY <2>3 DEF FindDown, SeeNothing, Check, LeaveOBS
  <2>4. CASE Closed \/ GiveUp \/ NoProgram
    BY <2>4 DEF Closed, GiveUp, NoProgram, Retry
  <2>5. CASE Launch \/ LaunchFails
    BY <2>5 DEF Launch, LaunchFails, Reopen, Retry
  <2>6. CASE Await \/ Restore
    BY <2>6 DEF Await, Restore, Accepted, Refused
  <2>7. CASE MonitorTick
    BY <2>7 DEF MonitorTick
  <2>8. CASE JobStart \/ JobEnd
    BY <2>8 DEF JobStart, JobEnd, CleanExit
  <2>9. CASE ServerRestart
    BY <2>9 DEF ServerRestart
  <2>10. CASE Operator
    BY <2>10 DEF Operator, Open, Close, GoLive, StopLive, CleanExit
  <2>11. CASE Program
    BY <2>11 DEF Program, Loaded, Crash, Freeze, Thaw, Dies
  <2>12. CASE UNCHANGED vars
    BY <2>12 DEF vars
  <2> QED
    BY <2>1, <2>2, <2>3, <2>4, <2>5, <2>6, <2>7, <2>8, <2>9, <2>10, <2>11, <2>12
    DEF Next, GuardStep
<1>3. AirInv /\ [Next]_vars => [Restarts => everLive]_vars
  <2> SUFFICES ASSUME AirInv, Next, Restarts PROVE everLive
    OBVIOUS
  <2>1. phase = "restore" /\ phase' = "idle" /\ ~live /\ live'
    BY DEF Restarts
  <2>2. Restore
    BY <2>1 DEF Next, GuardStep, StartWatching, ResumeReopen, Watch, FindDown, SeeNothing,
       Check, Closed, GiveUp, NoProgram, Launch, LaunchFails, Reopen, Retry, Await,
       MonitorTick, JobStart, JobEnd, ServerRestart, Operator, Program, obsVars, guardVars
  <2>3. wasStreaming
    BY <2>1, <2>2 DEF Restore
  <2> QED
    BY <2>3 DEF AirInv, Hearsay
<1> QED
  BY <1>1, <1>2, <1>3, PTL DEF Spec, NothingUninvited

-----------------------------------------------------------------------------
(* A marker with no OBS running is a crash's. *)
MarkerInv == marker /\ ~Running => lastExit = "crash"

(* obsGuardTick launches OBS after a crash, or to finish a reopen of its own:    *)
(* in the check and between its looks OBS may come and go.                    *)
THEOREM CrashUndone == Spec => OnlyACrashIsUndone
<1>1. Init => MarkerInv
  BY DEF Init, OBSInit, MarkerInv, Running
<1>2. MarkerInv /\ [Next]_vars => MarkerInv'
  <2> SUFFICES ASSUME MarkerInv, [Next]_vars PROVE MarkerInv'
    OBVIOUS
  <2> USE DEF MarkerInv, Running
  <2>1. CASE Watch
    BY <2>1, ZenonT(60) DEF Watch, Check, FreezeCheck, Dies, LeaveOBS
  <2>2. CASE Launch \/ LaunchFails
    BY <2>2, ZenonT(60) DEF Launch, LaunchFails, Reopen
  <2>3. CASE JobStart
    BY <2>3, ZenonT(60) DEF JobStart, CleanExit
  <2>4. CASE JobEnd
    BY <2>4, ZenonT(60) DEF JobEnd
  <2>5. CASE Operator
    BY <2>5 DEF Operator, Open, Close, GoLive, StopLive, CleanExit
  <2>6. CASE Program
    BY <2>6 DEF Program, Loaded, Crash, Freeze, Thaw, Dies, Hung
  <2>7. CASE UNCHANGED <<marker, proc, lastExit>>
    BY <2>7
  <2>8. StartWatching \/ ResumeReopen \/ FindDown \/ SeeNothing
        => UNCHANGED <<marker, proc, lastExit>>
    BY DEF StartWatching, ResumeReopen, FindDown, SeeNothing, Check, LeaveOBS
  <2>9. Closed \/ GiveUp \/ NoProgram \/ Await \/ Restore \/ MonitorTick
        \/ ServerRestart \/ UNCHANGED vars
        => UNCHANGED <<marker, proc, lastExit>>
    BY DEF Closed, GiveUp, NoProgram, Await, Restore, MonitorTick, ServerRestart,
           obsVars, vars
  <2> QED
    BY <2>1, <2>2, <2>3, <2>4, <2>5, <2>6, <2>7, <2>8, <2>9 DEF Next, GuardStep
<1>3. MarkerInv /\ [Next]_vars => [Launches => lastExit = "crash" \/ pending]_vars
  <2> SUFFICES ASSUME MarkerInv, Next, Launches PROVE lastExit = "crash" \/ pending
    OBVIOUS
  <2>1. phase = "down" /\ phase' = "waiting" /\ ~Running
    BY DEF Launches
  <2>2. Launch
    BY <2>1 DEF Next, GuardStep, StartWatching, ResumeReopen, Watch, FindDown, SeeNothing,
       Check, Closed, GiveUp, NoProgram, LaunchFails, Await, Restore,
       MonitorTick, JobStart, JobEnd, ServerRestart, Operator, Program, guardVars
  <2>3. Crashed
    BY <2>2 DEF Launch, Reopen, Retry
  <2> QED
    BY <2>1, <2>3, ZenonT(60) DEF Crashed, MarkerInv
<1> QED
  BY <1>1, <1>2, <1>3, PTL DEF Spec, OnlyACrashIsUndone

-----------------------------------------------------------------------------
(* Every launch is on the guard's own tally, which it tests before it adds. *)
TallyInv == opened \subseteq restarts /\ Cardinality(restarts) <= MaxRestarts

(* A check can only forget reopens: ages are told apart, so the tally never grows. *)
LEMMA AgeingShrinks ==
  ASSUME NEW S, IsFiniteSet(S)
  PROVE  IsFiniteSet(Older(S)) /\ Cardinality(Older(S)) <= Cardinality(S)
<1> DEFINE T == {x \in S : x + 1 < Window}
           f == [a \in T |-> a + 1]
<1>1. IsFiniteSet(T) /\ Cardinality(T) <= Cardinality(S)
  BY FS_Subset
<1>2. f \in Surjection(T, Older(S))
  BY DEF Surjection, Older
<1>3. IsFiniteSet(Older(S)) /\ Cardinality(Older(S)) <= Cardinality(T)
  BY <1>1, <1>2, FS_Surjection
<1>4. /\ Cardinality(S) \in Nat /\ Cardinality(T) \in Nat
      /\ Cardinality(Older(S)) \in Nat
  BY <1>1, <1>3, FS_CardinalityType
<1> QED
  BY <1>1, <1>3, <1>4

(* However OBS crashes and launches fail, obsGuardTick launches it at most        *)
(* MaxRestarts times in any window.                                          *)
THEOREM ReopensCapped == Spec => []ReopensAreCapped
<1>1. Init => TallyInv
  BY GuardAssumption, FS_EmptySet DEF Init, GuardInit, TallyInv
<1>2. Ages /\ TallyInv /\ [Next]_vars => TallyInv'
  <2> SUFFICES ASSUME Ages, TallyInv, [Next]_vars PROVE TallyInv'
    OBVIOUS
  <2>0. IsFiniteSet(restarts) /\ Cardinality(restarts) \in Nat
    <3>1. IsFiniteSet(0..Window-1)
      BY GuardAssumption, FS_Interval
    <3> QED
      BY <3>1, FS_Subset, FS_CardinalityType DEF Ages
  <2>1. CASE Check
    <3>1. restarts' = Older(restarts) /\ opened' = Older(opened)
      BY <2>1 DEF Check
    <3>2. IsFiniteSet(restarts') /\ Cardinality(restarts') <= Cardinality(restarts)
      BY <2>0, <3>1, AgeingShrinks
    <3>3. Cardinality(restarts') \in Nat
      BY <3>2, FS_CardinalityType
    <3>4. opened' \subseteq restarts'
      BY <3>1 DEF TallyInv, Older
    <3> QED
      BY <2>0, <3>2, <3>3, <3>4, GuardAssumption DEF TallyInv
  <2>2. CASE Launch \/ LaunchFails \/ NoProgram
    <3>1. /\ restarts' = restarts \cup {0} /\ opened' \in {opened, opened \cup {0}}
          /\ Cardinality(restarts) < MaxRestarts
      BY <2>2, ZenonT(60) DEF Launch, LaunchFails, NoProgram, Reopen, Retry
    <3>2. Cardinality(restarts') <= Cardinality(restarts) + 1
      BY <2>0, <3>1, FS_AddElement
    <3>3. IsFiniteSet(restarts') /\ Cardinality(restarts') \in Nat
      BY <2>0, <3>1, FS_AddElement, FS_CardinalityType
    <3> QED
      BY <2>0, <3>1, <3>2, <3>3, GuardAssumption DEF TallyInv
  <2>3. CASE ServerRestart
    BY <2>3, GuardAssumption, FS_EmptySet DEF ServerRestart, TallyInv
  <2>4. CASE UNCHANGED <<restarts, opened>>
    BY <2>4 DEF TallyInv
  <2> QED
    BY <2>1, <2>2, <2>3, <2>4, BookkeepingSteps
<1>3. Ages /\ TallyInv => ReopensAreCapped
  <2> SUFFICES ASSUME Ages, TallyInv PROVE ReopensAreCapped
    OBVIOUS
  <2>1. IsFiniteSet(0..Window-1)
    BY GuardAssumption, FS_Interval
  <2>2. IsFiniteSet(restarts) /\ IsFiniteSet(opened)
    BY <2>1, FS_Subset DEF Ages
  <2>3. Cardinality(opened) <= Cardinality(restarts)
    BY <2>2, FS_Subset DEF TallyInv
  <2>4. Cardinality(opened) \in Nat /\ Cardinality(restarts) \in Nat
    BY <2>2, FS_CardinalityType
  <2> QED
    BY <2>3, <2>4, GuardAssumption DEF TallyInv, ReopensAreCapped
<1>4. GuardTypeOK => Ages
  BY DEF GuardTypeOK, Ages
<1> QED
  BY <1>1, <1>2, <1>3, <1>4, TypeCorrect, PTL DEF Spec

-----------------------------------------------------------------------------
(***************************************************************************)
(* One voice, and the right one after a restart, for any number of phones and *)
(* crashes and for every length of time in talk.go.                          *)
(*                                                                         *)
(* The invariant says what talk_session.json is worth if the last save reached *)
(* it.  While commentary is on it has the key and who is on air, and is no older *)
(* than the last save; while it is off there is none; and in an outage it is    *)
(* what the crash left, as old as the outage and a save's delay at most.  If the *)
(* last save did not reach it, it is as old as the outage still.              *)
(***************************************************************************)

Someone == Phones \cup {"nobody"}
Records == [at : States, seen : Nat]

TypeOK ==
    /\ up \in BOOLEAN /\ srv \in BOOLEAN /\ looked \in BOOLEAN
    /\ key \in Nat /\ ons \in Nat /\ saved \in Nat /\ away \in Nat
    /\ phone \in [Phones -> Records]
    /\ file \in [key : Nat, age : Nat, who : Someone]
    /\ before \in Someone \cup {"off"}
    /\ unsaved \in BOOLEAN /\ lostSaves \in Nat

AtMostOne(ph) == \A p, q \in OnAirIn(ph) : p = q

\* The file says who is on air.
Right == OnAirIn(phone) = {file.who} \cap Phones

Fresh ==
    up /\ on => /\ saved <= SaveEvery /\ (looked => saved < SaveEvery)
                /\ ~unsaved => file.key = key /\ Right /\ file.age <= saved

OffAir == ~on => /\ \A p \in Phones : phone[p].at \notin {"waiting", "on_air"}
                 /\ ~srv
                 /\ (up /\ ~unsaved => file = NoFile)

\* What a crash or a stop left behind, if the last save reached it.
Bequest ==
    /\ before = "off" => file = NoFile
    /\ before # "off" => file.key # 0 /\ file.who = before /\ file.age <= away + SaveEvery

Left == ~up => /\ ~on /\ looked
               /\ \A p \in Phones : phone[p].at \in {"new", "gone"}
               /\ file.key # 0 => away <= file.age
               /\ ~unsaved => Bequest

IInv == TypeOK /\ AtMostOne(phone) /\ Fresh /\ OffAir /\ Left

-----------------------------------------------------------------------------
(* Who is on air, and what a save says of it.                                 *)

LEMMA WhoIsRight ==
  ASSUME NEW ph, AtMostOne(ph)
  PROVE  Who(ph) \in Someone /\ OnAirIn(ph) = {Who(ph)} \cap Phones
<1>1. CASE OnAirIn(ph) = {}
  BY <1>1, TalkAssumption DEF Who, Someone
<1>2. CASE OnAirIn(ph) # {}
  <2>1. PICK p \in OnAirIn(ph) : TRUE
    BY <1>2
  <2>2. Who(ph) \in OnAirIn(ph)
    BY <1>2 DEF Who
  <2>3. OnAirIn(ph) = {Who(ph)} /\ OnAirIn(ph) \subseteq Phones
    BY <2>2 DEF AtMostOne, OnAirIn
  <2> QED
    BY <2>3 DEF Someone
<1> QED
  BY <1>1, <1>2

\* What a save, landed or lost, leaves of the counts.
LEMMA SaveCounts ==
  ASSUME TypeOK, NEW k, NEW ph, Save(k, ph)
  PROVE  saved' = 0 /\ unsaved' \in BOOLEAN /\ lostSaves' \in Nat
<1>1. saved' = 0
  BY DEF Save
<1>2. unsaved' \in BOOLEAN
  BY Zenon DEF Save
<1>3. lostSaves' = lostSaves \/ lostSaves' = lostSaves + 1
  BY Zenon DEF Save
<1> QED
  BY <1>1, <1>2, <1>3 DEF TypeOK

\* A handler that saves with commentary on leaves a file that is right, and new, or as it was.
LEMMA SaveKeeps ==
  ASSUME TypeOK, up', key' \in Nat, key' # 0, Save(key', phone'), AtMostOne(phone'),
         phone' \in [Phones -> Records], UNCHANGED <<away, before>>,
         srv' \in BOOLEAN, looked' \in BOOLEAN, ons' \in Nat
  PROVE  IInv'
<1>1. saved' = 0 /\ unsaved' \in BOOLEAN /\ lostSaves' \in Nat
  BY SaveCounts
<1>2. Who(phone') \in Someone /\ OnAirIn(phone') = {Who(phone')} \cap Phones
  BY WhoIsRight
<1>3. ~unsaved' => file' = [key |-> key', age |-> 0, who |-> Who(phone')]
  BY DEF Save
<1>4. TypeOK'
  <2>1. file' \in [key : Nat, age : Nat, who : Someone]
    BY <1>2 DEF Save, TypeOK
  <2> QED
    BY <2>1, <1>1 DEF TypeOK
<1>5. Fresh'
  <2>1. ~unsaved' => file'.key = key' /\ Right' /\ file'.age <= saved'
    BY <1>1, <1>2, <1>3 DEF Right
  <2> QED
    BY <1>1, <2>1, TalkAssumption DEF Fresh
<1>6. OffAir' /\ Left'
  BY DEF OffAir, Left, on
<1> QED
  BY <1>4, <1>5, <1>6 DEF IInv

\* One that takes no save leaves whoever is on air there.
LEMMA QuietKeeps ==
  ASSUME IInv, up, UNCHANGED <<up, key, ons, saves, looked, away, before>>,
         phone' \in [Phones -> Records], OnAirIn(phone') = OnAirIn(phone), srv' \in BOOLEAN,
         ~on => ~srv' /\ \A p \in Phones : phone'[p].at # "waiting"
  PROVE  IInv'
<1> USE DEF IInv
<1>0. UNCHANGED <<saved, file, unsaved, lostSaves>>
  BY DEF saves
<1>1. TypeOK' /\ AtMostOne(phone')
  BY <1>0 DEF TypeOK, AtMostOne
<1>2. Fresh'
  BY <1>0 DEF Fresh, Right, on
<1>3. OffAir'
  <2> SUFFICES ASSUME ~on PROVE \A p \in Phones : phone'[p].at # "on_air"
    BY <1>0 DEF OffAir, on
  <2>1. OnAirIn(phone) = {}
    BY DEF OffAir, OnAirIn
  <2> QED
    BY <2>1 DEF OnAirIn
<1>4. Left'
  BY DEF Left
<1> QED
  BY <1>1, <1>2, <1>3, <1>4

-----------------------------------------------------------------------------
LEMMA InitIInv == TalkInit => IInv
<1> SUFFICES ASSUME TalkInit PROVE IInv
  OBVIOUS
<1>1. TypeOK
  BY DEF TalkInit, TypeOK, Records, States, NoFile, Someone
<1>2. AtMostOne(phone) /\ Fresh /\ OffAir /\ Left
  BY DEF TalkInit, AtMostOne, OnAirIn, Fresh, OffAir, Left, on
<1> QED
  BY <1>1, <1>2 DEF IInv

LEMMA NobodyIsTyped ==
  ASSUME TypeOK
  PROVE  /\ Nobody \in [Phones -> Records] /\ OnAirIn(Nobody) = {}
         /\ \A p \in Phones : Nobody[p].at \notin {"waiting", "on_air"}
  BY DEF TypeOK, Nobody, Absent, Records, States, OnAirIn

\* A removal that fails leaves the file as it was.
LEMMA RemovalIsTyped ==
  ASSUME TypeOK, NEW ph, Save(0, ph)
  PROVE  /\ file' \in [key : Nat, age : Nat, who : Someone] /\ saved' \in Nat
         /\ unsaved' \in BOOLEAN /\ lostSaves' \in Nat
         /\ ~unsaved' => file' = NoFile
         /\ file' \in {file, NoFile}
<1>1. file' \in {file, NoFile} /\ (~unsaved' => file' = NoFile)
  BY Zenon DEF Save
<1> QED
  BY <1>1, SaveCounts DEF TypeOK, NoFile, Someone

\* The switch and the port.
LEMMA SwitchKeeps ==
  ASSUME IInv, NEW o \in Openers, TalkOn(o) \/ TalkOff \/ Bind(o) \/ OpenPort(o) \/ PortInUse(o)
                                  \/ OtherProgram
  PROVE  IInv'
<1> USE DEF IInv
<1>1. CASE TalkOn(o)
  <2>1. /\ up' /\ key' = ons + 1 /\ ons' = ons + 1 /\ phone' = Nobody /\ Save(key', phone')
        /\ UNCHANGED <<srv, looked, away, before>>
    BY <1>1 DEF TalkOn, outage
  <2>2. AtMostOne(phone')
    BY <2>1, NobodyIsTyped DEF AtMostOne
  <2> QED
    BY <2>1, <2>2, NobodyIsTyped, SaveKeeps DEF TypeOK
<1>2. CASE TalkOff
  <2>1. /\ up /\ up' /\ key' = 0 /\ phone' = Nobody /\ Save(0, phone') /\ ~srv'
        /\ UNCHANGED <<ons, looked, away, before>> /\ srv' \in BOOLEAN
    BY <1>2 DEF TalkOff, outage
  <2>2. TypeOK' /\ AtMostOne(phone')
    BY <2>1, NobodyIsTyped, RemovalIsTyped DEF TypeOK, AtMostOne
  <2>3. Fresh' /\ Left'
    BY <2>1 DEF Fresh, Left, on
  <2>4. OffAir'
    BY <2>1, NobodyIsTyped, RemovalIsTyped DEF OffAir
  <2> QED
    BY <2>2, <2>3, <2>4
<1>3. CASE Bind(o) \/ PortInUse(o) \/ OtherProgram
  <2>1. up /\ UNCHANGED <<up, key, ons, phone, saves, looked, away, before, srv>>
    BY <1>3 DEF Bind, PortInUse, OtherProgram, Opener, outage
  <2> QED
    BY <2>1, QuietKeeps DEF TypeOK, OffAir
<1>4. CASE OpenPort(o)
  <2>1. /\ up /\ UNCHANGED <<up, key, ons, phone, saves, looked, away, before>>
        /\ srv' = (srv \/ on)
    BY <1>4 DEF OpenPort, Opener, outage
  <2>2. srv' \in BOOLEAN /\ (~on => ~srv')
    BY <2>1 DEF TypeOK, OffAir
  <2>3. ~on => \A p \in Phones : phone'[p].at # "waiting"
    BY <2>1 DEF OffAir
  <2> QED
    BY <2>1, <2>2, <2>3, QuietKeeps DEF TypeOK
<1> QED
  BY <1>1, <1>2, <1>3, <1>4

-----------------------------------------------------------------------------
LEMMA SetMoves ==
  ASSUME TypeOK, NEW p \in Phones, NEW state \in States
  PROVE  /\ Set(p, state) \in [Phones -> Records]
         /\ Set(p, state)[p].at = state
         /\ \A q \in Phones \ {p} : Set(p, state)[q] = phone[q]
         /\ state # "on_air" => OnAirIn(Set(p, state)) = OnAirIn(phone) \ {p}
  BY DEF TypeOK, Set, Records, OnAirIn

\* The phones' requests and the operator's buttons.
LEMMA RequestKeeps ==
  ASSUME IInv, NEW p \in Phones,
         HasKey(p) \/ Join(p) \/ Touch(p) \/ LeavePage(p) \/ Approve(p) \/ Dismiss(p) \/ Adjust(p)
  PROVE  IInv'
<1> USE DEF IInv
<1>0. /\ up /\ UNCHANGED <<up, key, ons, srv, looked, away, before>>
      /\ key' \in Nat /\ ons' \in Nat /\ srv' \in BOOLEAN /\ looked' \in BOOLEAN /\ up'
  <2>1. Request(p)
    BY DEF HasKey, Join, Touch, LeavePage, Approve, Dismiss, Adjust
  <2> QED
    BY <2>1 DEF Request, door, outage, TypeOK
<1>1. phone[p].at \in {"waiting", "on_air"} => on /\ key' # 0
  BY <1>0 DEF OffAir, on
<1>2. AtMostOne(phone)
  OBVIOUS
<1>3. CASE HasKey(p)
  <2>1. phone' = Set(p, "let in") /\ phone[p].at = "new" /\ on /\ NoSave
    BY <1>3 DEF HasKey
  <2>2. phone' \in [Phones -> Records] /\ OnAirIn(phone') = OnAirIn(phone) \ {p}
    BY <2>1, SetMoves DEF States
  <2>3. p \notin OnAirIn(phone)
    BY <2>1 DEF OnAirIn
  <2> QED
    BY <1>0, <2>1, <2>2, <2>3, QuietKeeps DEF NoSave
<1>4. CASE Join(p)
  <2>1. /\ phone[p].at = "let in" /\ NoSave
        /\ \/ on /\ phone' = Set(p, "waiting")
           \/ phone' = [phone EXCEPT ![p] = Absent]
    BY <1>4 DEF Join
  <2>2. CASE on /\ phone' = Set(p, "waiting")
    <3>1. phone' \in [Phones -> Records] /\ OnAirIn(phone') = OnAirIn(phone) \ {p}
      BY <2>2, SetMoves DEF States
    <3>2. p \notin OnAirIn(phone)
      BY <2>1 DEF OnAirIn
    <3> QED
      BY <1>0, <2>1, <2>2, <3>1, <3>2, QuietKeeps DEF NoSave
  <2>3. CASE phone' = [phone EXCEPT ![p] = Absent]
    <3>1. /\ phone' \in [Phones -> Records] /\ OnAirIn(phone') = OnAirIn(phone)
          /\ \A q \in Phones : phone'[q].at = "waiting" => phone[q].at = "waiting"
      BY <2>1, <2>3 DEF TypeOK, Records, States, Absent, OnAirIn
    <3> QED
      BY <1>0, <2>1, <3>1, QuietKeeps DEF NoSave, OffAir
  <2> QED
    BY <2>1, <2>2, <2>3
<1>5. CASE Touch(p)
  <2>1. phone' = [phone EXCEPT ![p].seen = 0]
    BY <1>5 DEF Touch
  <2>2. /\ phone' \in [Phones -> Records] /\ OnAirIn(phone') = OnAirIn(phone)
        /\ \A q \in Phones : phone'[q].at = phone[q].at
    BY <2>1 DEF TypeOK, Records, OnAirIn
  <2>3. CASE NoSave
    BY <1>0, <2>2, <2>3, QuietKeeps DEF NoSave, OffAir
  <2>4. CASE phone[p].at = "on_air" /\ Save(key, phone')
    BY <1>0, <1>1, <1>2, <2>2, <2>4, SaveKeeps DEF AtMostOne
  <2> QED
    BY <1>5, <2>3, <2>4 DEF Touch
<1>6. CASE LeavePage(p) \/ Dismiss(p)
  <2>1. PICK state \in {"refused", "ended"} : phone' = Set(p, state)
    BY <1>6 DEF LeavePage, Dismiss
  <2>2. phone[p].at \in {"waiting", "on_air"} /\ Save(key, phone')
    BY <1>6 DEF LeavePage, Dismiss
  <2>3. phone' \in [Phones -> Records] /\ OnAirIn(phone') \subseteq OnAirIn(phone)
    BY <2>1, SetMoves DEF States
  <2> QED
    BY <1>0, <1>1, <1>2, <2>2, <2>3, SaveKeeps DEF AtMostOne
<1>7. CASE Approve(p)
  <2>1. /\ phone[p].at = "waiting" /\ Save(key, phone')
        /\ phone' = [q \in Phones |-> IF q = p THEN [at |-> "on_air", seen |-> 0]
                                      ELSE IF phone[q].at = "on_air" THEN [at |-> "ended", seen |-> 0]
                                      ELSE phone[q]]
    BY <1>7 DEF Approve
  <2>2. phone' \in [Phones -> Records] /\ OnAirIn(phone') = {p}
    BY <2>1 DEF TypeOK, Records, States, OnAirIn
  <2> QED
    BY <1>0, <1>1, <2>1, <2>2, SaveKeeps DEF AtMostOne
<1>8. CASE Adjust(p)
  BY <1>0, <1>1, <1>2, <1>8, SaveKeeps DEF Adjust, TypeOK
<1> QED
  BY <1>3, <1>4, <1>5, <1>6, <1>7, <1>8

-----------------------------------------------------------------------------
(* talkTick, an outage and the time.                                          *)

LEMMA Limits == SessionFor + 1 \in Nat /\ LostFor + 1 \in Nat /\ SaveEvery \in Nat
  BY TalkAssumption

LEMMA JudgedIsTyped ==
  ASSUME NEW r \in Records
  PROVE  Judged(r) \in Records /\ (Judged(r).at \in {"waiting", "on_air"} => Judged(r).at = r.at)
  BY DEF Judged, Records, States, Absent

LEMMA TalkTickKeeps == ASSUME IInv, TalkTick PROVE IInv'
<1> USE DEF IInv
<1>0. up /\ up' /\ looked' /\ UNCHANGED <<up, key, ons, srv, away, before>>
  BY DEF TalkTick, outage
<1>1. CASE ~on
  <2>1. UNCHANGED <<phone, saved, file, unsaved, lostSaves>>
    BY <1>1 DEF TalkTick, NoSave, saves
  <2>2. TypeOK' /\ AtMostOne(phone')
    BY <1>0, <2>1 DEF TypeOK, TalkTick, AtMostOne
  <2>3. Fresh' /\ OffAir' /\ Left'
    BY <1>0, <1>1, <2>1 DEF Fresh, OffAir, Left, on
  <2> QED
    BY <2>2, <2>3
<1>2. CASE on
  <2>1. /\ phone' = [p \in Phones |-> Judged(phone[p])]
        /\ IF OnAirIn(phone') # OnAirIn(phone) \/ saved >= SaveEvery
           THEN Save(key, phone') ELSE NoSave
    BY <1>2 DEF TalkTick
  <2>2. phone' \in [Phones -> Records] /\ OnAirIn(phone') \subseteq OnAirIn(phone)
    BY <2>1, JudgedIsTyped DEF TypeOK, OnAirIn
  <2>3. AtMostOne(phone')
    BY <2>2 DEF AtMostOne
  <2>4. key' \in Nat /\ key' # 0 /\ srv' \in BOOLEAN /\ looked' \in BOOLEAN /\ ons' \in Nat
    BY <1>0, <1>2 DEF TypeOK, on, TalkTick
  <2>5. CASE Save(key, phone')
    BY <1>0, <2>2, <2>3, <2>4, <2>5, SaveKeeps
  <2>6. CASE OnAirIn(phone') = OnAirIn(phone) /\ ~(saved >= SaveEvery) /\ NoSave
    <3>1. TypeOK'
      BY <1>0, <2>2, <2>4, <2>6 DEF TypeOK, NoSave, saves
    <3>2. Fresh'
      BY <1>0, <1>2, <2>6, TalkAssumption DEF Fresh, Right, on, NoSave, saves, TypeOK
    <3>3. OffAir' /\ Left'
      BY <1>0, <2>4 DEF OffAir, Left, on
    <3> QED
      BY <2>3, <3>1, <3>2, <3>3
  <2> QED
    BY <2>1, <2>5, <2>6
<1> QED
  BY <1>1, <1>2

LEMMA GoDownKeeps == ASSUME IInv, ServerCrash \/ CleanStop PROVE IInv'
<1> USE DEF IInv
<1>0. /\ up /\ ~up' /\ away' = 0 /\ key' = 0 /\ ~srv' /\ looked' /\ ons' = ons
      /\ phone' = [p \in Phones |-> IF phone[p].at = "new" THEN phone[p] ELSE Absent]
      /\ up' \in BOOLEAN /\ srv' \in BOOLEAN /\ looked' \in BOOLEAN
  BY DEF ServerCrash, CleanStop, GoDown
<1>1. /\ phone' \in [Phones -> Records]
      /\ \A p \in Phones : phone'[p].at \in {"new", "gone"}
      /\ AtMostOne(phone')
  BY <1>0 DEF TypeOK, Records, States, Absent, AtMostOne, OnAirIn
<1>2. CASE ServerCrash /\ on
  <2>1. before' = Who(phone) /\ UNCHANGED <<file, saved, unsaved, lostSaves>>
    BY <1>2 DEF ServerCrash, NoSave, saves
  <2>2. ~unsaved => Right /\ file.key # 0 /\ file.age <= SaveEvery
    BY <1>0, <1>2, TalkAssumption DEF Fresh, on, TypeOK
  <2>3. Who(phone) \in Someone /\ OnAirIn(phone) = {Who(phone)} \cap Phones
    BY WhoIsRight
  <2>4. file.who \in Someone
    BY DEF TypeOK
  <2>5. ~unsaved => Who(phone) = file.who
    BY <2>2, <2>3, <2>4, TalkAssumption DEF Right, Someone
  <2>6. before' # "off"
    BY <2>1, <2>3, TalkAssumption DEF Someone
  <2>7. TypeOK' /\ AtMostOne(phone')
    BY <1>0, <1>1, <2>1, <2>3 DEF TypeOK
  <2>8. Left'
    <3>1. file.age \in Nat /\ SaveEvery \in Nat
      BY Limits DEF TypeOK
    <3>2. ~unsaved => file'.key # 0 /\ file'.who = before' /\ file'.age <= away' + SaveEvery
      BY <1>0, <2>1, <2>2, <2>5, <3>1
    <3>3. away' <= file'.age
      BY <1>0, <2>1, <3>1
    <3>4. ~unsaved' => Bequest'
      BY <2>1, <2>6, <3>2 DEF Bequest
    <3> QED
      BY <1>0, <1>1, <3>3, <3>4 DEF Left, on
  <2>9. Fresh' /\ OffAir'
    BY <1>0, <1>1 DEF Fresh, OffAir
  <2> QED
    BY <2>7, <2>8, <2>9
<1>3. CASE (ServerCrash /\ ~on) \/ CleanStop
  <2>1. /\ before' = "off" /\ (~unsaved' => file' = NoFile)
        /\ file' \in {file, NoFile}
        /\ file' \in [key : Nat, age : Nat, who : Someone] /\ saved' \in Nat
        /\ unsaved' \in BOOLEAN /\ lostSaves' \in Nat
    <3>1. CASE ServerCrash /\ ~on
      BY <1>0, <3>1 DEF ServerCrash, NoSave, saves, OffAir, TypeOK
    <3>2. CASE CleanStop
      BY <3>2, RemovalIsTyped DEF CleanStop
    <3> QED
      BY <1>3, <3>1, <3>2
  <2>2. TypeOK'
    BY <1>0, <1>1, <2>1 DEF TypeOK
  <2>3. away' <= file'.age
    BY <1>0, <2>1
  <2>4. Left' /\ Fresh' /\ OffAir'
    BY <1>0, <1>1, <2>1, <2>3 DEF Left, Bequest, Fresh, OffAir, on
  <2> QED
    BY <1>1, <2>2, <2>4
<1> QED
  BY <1>2, <1>3

LEMMA TalkResumeKeeps == ASSUME IInv, TalkResume PROVE IInv'
<1> USE DEF IInv
<1>0. /\ ~up /\ up' /\ up' \in BOOLEAN /\ UNCHANGED <<ons, srv, looked, away, before>>
      /\ ~on /\ ~srv
  BY DEF TalkResume, Left, OffAir
<1>1. CASE file.key # 0 /\ file.age <= SessionFor
  <2>1. /\ key' = file.key /\ Save(key', phone')
        /\ phone' = [p \in Phones |-> IF p = file.who THEN [at |-> "on_air", seen |-> 0]
                                      ELSE phone[p]]
    BY <1>1 DEF TalkResume
  <2>2. phone' \in [Phones -> Records]
    BY <2>1 DEF TypeOK, Records, States
  <2>3. OnAirIn(phone') \subseteq {file.who}
    BY <1>0, <2>1 DEF OnAirIn, Left
  <2>4. AtMostOne(phone')
    BY <2>3 DEF AtMostOne
  <2> QED
    BY <1>0, <1>1, <2>1, <2>2, <2>4, SaveKeeps DEF TypeOK
<1>2. CASE ~(file.key # 0 /\ file.age <= SessionFor)
  <2>1. Save(0, phone) /\ UNCHANGED <<key, phone>>
    BY <1>2 DEF TalkResume
  <2>2. TypeOK' /\ AtMostOne(phone') /\ (~unsaved' => file' = NoFile)
    BY <1>0, <2>1, RemovalIsTyped DEF TypeOK, AtMostOne
  <2>3. Fresh' /\ OffAir' /\ Left'
    BY <1>0, <2>1, <2>2 DEF Fresh, OffAir, Left, on
  <2> QED
    BY <2>2, <2>3
<1> QED
  BY <1>1, <1>2

LEMMA CapIs ==
  ASSUME NEW n \in Nat, NEW top \in Nat
  PROVE  /\ Cap(n, top) \in Nat /\ Cap(n, top) <= n + 1
         /\ n <= top => Cap(n, top) <= top
         /\ n < top => Cap(n, top) = n + 1
  BY DEF Cap

LEMMA TickKeeps == ASSUME IInv, Tick PROVE IInv'
<1> USE DEF IInv
<1>0. /\ looked /\ looked' = ~up /\ UNCHANGED <<key, ons, srv, up, before, unsaved, lostSaves>>
      /\ saved' = Cap(saved, SaveEvery)
      /\ away' = IF up THEN away ELSE Cap(away, SessionFor + 1)
      /\ file' = [file EXCEPT !.age = IF file.key # 0 THEN Cap(@, SessionFor + 1) ELSE @]
  BY DEF Tick, door
<1>1. /\ phone' \in [Phones -> Records]
      /\ \A p \in Phones : phone'[p].at = phone[p].at
  <2>1. phone' = [p \in Phones |-> [phone[p] EXCEPT !.seen = IF Known(p) THEN Cap(@, LostFor + 1) ELSE @]]
    BY DEF Tick
  <2>2. ASSUME NEW p \in Phones
        PROVE  phone'[p] \in Records /\ phone'[p].at = phone[p].at
    <3>1. phone[p].seen \in Nat /\ Cap(phone[p].seen, LostFor + 1) \in Nat
      BY CapIs, Limits DEF TypeOK, Records
    <3> QED
      BY <2>1, <3>1 DEF TypeOK, Records
  <2> QED
    BY <2>1, <2>2
<1>2. OnAirIn(phone') = OnAirIn(phone)
  BY <1>1 DEF OnAirIn
<1>3. /\ file'.key = file.key /\ file'.who = file.who /\ file'.age \in Nat
      /\ file'.age = IF file.key # 0 THEN Cap(file.age, SessionFor + 1) ELSE file.age
      /\ file' \in [key : Nat, age : Nat, who : Someone]
  <2>1. file.age \in Nat /\ Cap(file.age, SessionFor + 1) \in Nat
    BY CapIs, Limits DEF TypeOK
  <2> QED
    BY <1>0, <2>1 DEF TypeOK
<1>4. file = NoFile => file' = NoFile
  BY <1>0, <1>3 DEF NoFile
<1>5. TypeOK' /\ AtMostOne(phone')
  <2>1. AtMostOne(phone')
    BY <1>2 DEF AtMostOne
  <2> QED
    BY <1>0, <1>1, <1>3, <2>1, CapIs, Limits DEF TypeOK
<1>6. Fresh'
  <2> SUFFICES ASSUME up, on
               PROVE  /\ saved' <= SaveEvery /\ ~looked'
                      /\ ~unsaved => file'.key = key' /\ Right' /\ file'.age <= saved'
    BY <1>0 DEF Fresh, on
  <2>1. saved < SaveEvery /\ (~unsaved => file.age <= saved /\ file.key = key /\ Right)
    BY <1>0 DEF Fresh
  <2>2. saved' = saved + 1 /\ file'.age <= file.age + 1
    BY <1>0, <1>3, <2>1, CapIs, Limits DEF TypeOK
  <2>3. Right => Right'
    BY <1>2, <1>3 DEF Right
  <2>4. /\ saved \in Nat /\ file.age \in Nat /\ SaveEvery \in Nat /\ ~looked'
        /\ file'.key = file.key /\ key' = key /\ file'.age \in Nat
    BY <1>0, <1>3, TalkAssumption DEF TypeOK
  <2>5. saved' <= SaveEvery /\ (file.age <= saved => file'.age <= saved')
    BY <2>1, <2>2, <2>4
  <2> QED
    BY <2>1, <2>3, <2>4, <2>5
<1>7. OffAir'
  BY <1>0, <1>1, <1>4 DEF OffAir, on
<1>8. Left'
  <2> SUFFICES ASSUME ~up
               PROVE  /\ ~on' /\ looked' /\ \A p \in Phones : phone'[p].at \in {"new", "gone"}
                      /\ file'.key # 0 => away' <= file'.age
                      /\ ~unsaved => Bequest'
    BY <1>0 DEF Left
  <2>1. ASSUME file.key # 0
        PROVE  away' <= file'.age /\ (file.age <= away + SaveEvery => file'.age <= away' + SaveEvery)
    <3>1. /\ away <= file.age
          /\ away' = Cap(away, SessionFor + 1) /\ file'.age = Cap(file.age, SessionFor + 1)
      BY <1>0, <1>3, <2>1 DEF Left
    <3> QED
      BY <3>1, TalkAssumption DEF TypeOK, Cap
  <2>2. ASSUME Bequest PROVE Bequest'
    <3>1. before = "off" => file' = NoFile
      BY <1>4, <2>2 DEF Bequest
    <3>2. before # "off" => file'.key # 0 /\ file'.who = before /\ file'.age <= away' + SaveEvery
      BY <1>3, <2>1, <2>2 DEF Bequest
    <3> QED
      BY <1>0, <3>1, <3>2 DEF Bequest
  <2> QED
    BY <1>0, <1>1, <1>3, <2>1, <2>2 DEF Left, on
<1> QED
  BY <1>5, <1>6, <1>7, <1>8

LEMMA NextKeeps == IInv /\ [TalkNext]_talk => IInv'
<1> SUFFICES ASSUME IInv, [TalkNext]_talk PROVE IInv'
  OBVIOUS
<1>1. CASE TalkNext
  <2>1. CASE TalkOff \/ OtherProgram
    BY <2>1, SwitchKeeps DEF Openers
  <2>2. CASE \E o \in Openers : TalkOn(o) \/ Bind(o) \/ OpenPort(o) \/ PortInUse(o)
    BY <2>2, SwitchKeeps
  <2>3. CASE \E p \in Phones : \/ HasKey(p) \/ Join(p) \/ Touch(p) \/ LeavePage(p)
                               \/ Approve(p) \/ Dismiss(p) \/ Adjust(p)
    BY <2>3, RequestKeeps
  <2>4. CASE TalkTick \/ ServerCrash \/ CleanStop \/ TalkResume \/ Tick
    BY <2>4, TalkTickKeeps, GoDownKeeps, TalkResumeKeeps, TickKeeps
  <2> QED
    BY <1>1, <2>1, <2>2, <2>3, <2>4 DEF TalkNext
<1>2. CASE UNCHANGED talk
  BY <1>2 DEF talk, saves, door, outage, IInv, TypeOK, AtMostOne, Fresh, Right, OnAirIn, OffAir, Left,
             Bequest, on
<1> QED
  BY <1>1, <1>2

-----------------------------------------------------------------------------
(* One voice at a time behind an open switch, however many phones ask, hand over, are lost or are *)
(* picked up after a crash, and whenever the port is opened.                                     *)
THEOREM OneVoiceAlways == TalkSpec => []OneVoice
<1>1. IInv => OneVoice
  <2> SUFFICES ASSUME IInv PROVE OneVoice
    OBVIOUS
  <2>1. Cardinality(In("on_air")) <= 1
    <3>1. In("on_air") = OnAirIn(phone)
      BY DEF In, OnAirIn
    <3>2. CASE OnAirIn(phone) = {}
      BY <3>1, <3>2, FS_EmptySet
    <3>3. CASE OnAirIn(phone) # {}
      <4>1. PICK p \in OnAirIn(phone) : TRUE
        BY <3>3
      <4>2. OnAirIn(phone) = {p}
        BY <4>1 DEF IInv, AtMostOne
      <4>3. Cardinality({p}) = 1
        BY FS_Singleton
      <4> QED
        BY <3>1, <4>2, <4>3
    <3> QED
      BY <3>2, <3>3
  <2>2. ~on => In("waiting") \cup In("on_air") = {} /\ ~srv
    BY DEF IInv, OffAir, In
  <2> QED
    BY <2>1, <2>2 DEF OneVoice
<1> QED
  BY InitIInv, NextKeeps, <1>1, PTL DEF TalkSpec

(* If the last save reached the disk, who is on air after a restart is who was at the crash, if   *)
(* the outage was short; and nobody, if commentary was off or the server was stopped.  Whatever    *)
(* saves and removals fail, nobody is after a long outage, and one phone at most after a short one. *)
THEOREM ResumesRight == TalkSpec => ResumeIsExact
<1>1. IInv /\ [TalkNext]_talk => [ResumesExactly]_talk
  <2> SUFFICES ASSUME IInv, TalkNext, ~up, up' PROVE ResumesExactly
    BY DEF ResumesExactly, talk, outage
  <2> USE DEF IInv
  <2>1. TalkResume
    BY DEF TalkNext, TalkOff, OtherProgram, TalkOn, Bind, OpenPort, PortInUse, Opener, HasKey, Join,
           Touch, LeavePage, Approve, Dismiss, Adjust, Request, TalkTick, ServerCrash, CleanStop,
           GoDown, Tick
  <2>2. /\ key = 0 /\ \A p \in Phones : phone[p].at \in {"new", "gone"}
        /\ file.key # 0 => away <= file.age
        /\ ~unsaved => Bequest
    BY DEF Left, on
  <2>3. CASE file.key # 0 /\ file.age <= SessionFor
    <3>1. /\ key' = file.key
          /\ phone' = [p \in Phones |-> IF p = file.who THEN [at |-> "on_air", seen |-> 0]
                                        ELSE phone[p]]
      BY <2>1, <2>3 DEF TalkResume
    <3>2. OnAirIn(phone') = {file.who} \cap Phones
      BY <2>2, <3>1 DEF OnAirIn
    <3>3. Cardinality(OnAirIn(phone')) <= 1
      <4>1. OnAirIn(phone') = {} \/ OnAirIn(phone') = {file.who}
        BY <3>2
      <4>2. Cardinality({}) = 0 /\ Cardinality({file.who}) = 1
        BY FS_EmptySet, FS_Singleton
      <4> QED
        BY <4>1, <4>2
    <3>4. ~(away > SessionFor)
      BY <2>2, <2>3, TalkAssumption DEF TypeOK
    <3>5. ASSUME ~unsaved
          PROVE  /\ OnAirIn(phone') \subseteq {before} /\ before # "off" /\ key' # 0
                 /\ before \in Phones => OnAirIn(phone') = {before}
      <4>1. before # "off" /\ file.who = before
        BY <2>2, <2>3, <3>5 DEF Bequest, NoFile
      <4> QED
        BY <2>3, <3>1, <3>2, <4>1
    <3> QED
      BY <3>3, <3>4, <3>5 DEF ResumesExactly
  <2>4. CASE ~(file.key # 0 /\ file.age <= SessionFor)
    <3>1. UNCHANGED <<key, phone>>
      BY <2>1, <2>4 DEF TalkResume
    <3>2. OnAirIn(phone') = {} /\ key' = 0
      BY <2>2, <3>1 DEF OnAirIn
    <3>3. ~unsaved => ~(before \in {"nobody"} \cup Phones /\ away + SaveEvery < SessionFor)
      BY <2>2, <2>4, TalkAssumption DEF TypeOK, Someone, Bequest
    <3>4. Cardinality(OnAirIn(phone')) <= 1
      BY <3>2, FS_EmptySet
    <3> QED
      BY <3>2, <3>3, <3>4 DEF ResumesExactly
  <2> QED
    BY <2>3, <2>4
<1> QED
  BY InitIInv, NextKeeps, <1>1, PTL DEF TalkSpec, ResumeIsExact

-----------------------------------------------------------------------------
(* TalkSource: what a pass has read may be out of date, but only one way.  Nobody  *)
(* else puts the source into a scene, so a scene that was seen without it is        *)
(* without it still, until the pass comes to it; and without an input of the name    *)
(* there is nothing in any scene.                                              *)

SourceTyped ==
    /\ items \in [Scenes -> {0, 1}] /\ input \in BOOLEAN /\ todo \subseteq Nat
    /\ pass \in {"idle", "list", "read", "create", "scenes", "cameras", "reload"}

NothingWithoutInput == ~input => \A s \in Scenes : items[s] = 0

\* The scenes the pass has yet to come to.
Ahead == IF pass = "create" THEN Scenes ELSE IF pass = "scenes" THEN todo ELSE {}

SeenEmptyIsEmpty == \A s \in Ahead \cap Scenes : Missing(sawItem[s]) => items[s] = 0

SourceInv == SourceTyped /\ NothingWithoutInput /\ SeenEmptyIsEmpty

LEMMA LeastNatural ==
  ASSUME NEW T \in SUBSET Nat, T # {}
  PROVE  \E x \in T : \A y \in T : x <= y
<1> DEFINE R == {p \in Nat \X Nat : p[1] < p[2]}
<1>1. R = OpToRel(<, Nat)
  BY DEF OpToRel
<1>2. IsWellFoundedOn(R, Nat)
  BY <1>1, NatLessThanWellFounded
<1>3. PICK x \in T : \A y \in T : ~(<<y, x>> \in R)
  <2> HIDE DEF R
  <2> QED
    BY <1>2, WFMin
<1>4. \A y \in T : x <= y
  <2> TAKE y \in T
  <2>1. <<y, x>> \in Nat \X Nat /\ <<y, x>>[1] = y /\ <<y, x>>[2] = x
    OBVIOUS
  <2>2. ~(y < x)
    BY <1>3, <2>1
  <2> QED
    BY <2>2
<1> QED
  BY <1>4

LEMMA NextIsToDo ==
  ASSUME todo \subseteq Nat, todo # {}
  PROVE  Next1 \in todo
<1>1. \E s \in todo : \A t \in todo : s <= t
  BY LeastNatural
<1> QED
  BY <1>1 DEF Next1

LEMMA SourceInitInv == SourceInit => SourceInv
  BY DEF SourceInit, SourceInv, SourceTyped, NothingWithoutInput, SeenEmptyIsEmpty, Ahead

(* What OBS has and what was read stand, and no scene comes back on the list.     *)
(* What OBS has and what was read stand, and no scene comes back on the list.     *)
LEMMA SourceStays ==
  ASSUME SourceInv, UNCHANGED <<items, input, sawItem>>, SourceTyped',
         Ahead' \subseteq Ahead
  PROVE  SourceInv'
  BY DEF SourceInv, NothingWithoutInput, SeenEmptyIsEmpty

LEMMA CreateKeeps ==
  ASSUME SourceInv, Numbered, Create
  PROVE  SourceInv'
<1> USE DEF SourceInv
<1>1. UNCHANGED sawItem /\ pass = "create"
  BY DEF Create, InPass, read
<1>2. CASE UNCHANGED <<items, input>>
  <2>1. SourceTyped' /\ Ahead' \subseteq Ahead
    BY <1>1, <1>2 DEF Create, InPass, Ends, SourceTyped, Ahead, Numbered
  <2> QED
    BY <1>1, <1>2, <2>1, SourceStays
<1>3. CASE ~UNCHANGED <<items, input>>
  <2>1. /\ ~input /\ input' /\ items' = [items EXCEPT ![First] = @ + 1]
        /\ \/ pass' = "scenes" /\ todo' = Scenes \ {First}
           \/ Ends(FALSE)
    BY <1>3 DEF Create
  <2>2. \A s \in Scenes : items'[s] = IF s = First THEN 1 ELSE 0
    BY <2>1 DEF SourceTyped, NothingWithoutInput
  <2>3. items' \in [Scenes -> {0, 1}]
    BY <2>1, <2>2 DEF SourceTyped
  <2>4. SourceTyped'
    BY <2>1, <2>3 DEF SourceTyped, Ends, Numbered
  <2>5. First \notin Ahead'
    BY <2>1 DEF Ahead, Ends
  <2>6. SeenEmptyIsEmpty'
    BY <2>2, <2>5 DEF SeenEmptyIsEmpty
  <2> QED
    BY <2>1, <2>4, <2>6 DEF NothingWithoutInput
<1> QED
  BY <1>2, <1>3

(* The scene at hand is on the list no more once it has been given the source.      *)
LEMMA AddKeeps ==
  ASSUME SourceInv, Numbered, AddToScene
  PROVE  SourceInv'
<1> USE DEF SourceInv
<1>1. UNCHANGED <<input, sawItem>> /\ pass = "scenes"
  BY DEF AddToScene, InPass, read
<1>2. /\ todo' \subseteq Nat /\ pass' \in {"scenes", "cameras"} /\ Ahead' \subseteq Ahead
      /\ todo # {} => Next1 \notin Ahead'
  BY <1>1 DEF AddToScene, Onward, Ahead, SourceTyped, Numbered
<1>3. CASE UNCHANGED items
  BY <1>1, <1>2, <1>3, SourceStays DEF SourceTyped
<1>4. CASE ~UNCHANGED items
  <2>1. /\ todo # {} /\ Missing(sawItem[Next1]) /\ input
        /\ items' = [items EXCEPT ![Next1] = @ + 1]
    BY <1>4 DEF AddToScene
  <2>2. Next1 \in Ahead
    BY <1>1, <2>1, NextIsToDo DEF SourceTyped, Ahead
  <2>3. \A s \in Scenes : items'[s] = IF s = Next1 THEN 1 ELSE items[s]
    BY <2>1, <2>2 DEF SourceTyped, SeenEmptyIsEmpty
  <2>4. items' \in [Scenes -> {0, 1}]
    BY <2>1, <2>3 DEF SourceTyped
  <2>5. SourceTyped'
    BY <1>1, <1>2, <2>4 DEF SourceTyped
  <2>6. SeenEmptyIsEmpty'
    BY <1>1, <1>2, <2>1, <2>3 DEF SeenEmptyIsEmpty
  <2> QED
    BY <1>1, <2>1, <2>5, <2>6 DEF NothingWithoutInput
<1> QED
  BY <1>3, <1>4

(* A scene the pass sees without the source is without it.                        *)
LEMMA ReadKeeps ==
  ASSUME SourceInv, ReadAll
  PROVE  SourceInv'
<1> USE DEF SourceInv
<1>1. UNCHANGED <<items, input>>
  BY DEF ReadAll, obs
<1>2. CASE Ends(FALSE)
  BY <1>1, <1>2 DEF Ends, SourceTyped, NothingWithoutInput, SeenEmptyIsEmpty, Ahead
<1>3. CASE pass' = "create" /\ UNCHANGED todo
  <2>1. \A s \in Scenes : sawItem'[s] \in {Truth(items[s]), "unknown"}
    BY <1>3 DEF ReadAll, Ends
  <2>2. \A s \in Scenes : Missing(sawItem'[s]) => items[s] = 0
    BY <2>1 DEF Missing, Truth, SourceTyped
  <2> QED
    BY <1>1, <1>3, <2>2 DEF SourceTyped, NothingWithoutInput, SeenEmptyIsEmpty
<1> QED
  BY <1>2, <1>3 DEF ReadAll

(* The operator takes away, and never puts there.                                *)
LEMMA EditKeeps ==
  ASSUME SourceInv, Edit
  PROVE  SourceInv'
<1> USE DEF SourceInv
<1>1. UNCHANGED <<pass, todo, sawItem>>
  BY DEF Edit, read
<1>2. /\ items' \in [Scenes -> {0, 1}] /\ input' \in BOOLEAN
      /\ \A s \in Scenes : items'[s] \in {0, items[s]}
      /\ ~input' => ~input \/ \A s \in Scenes : items'[s] = 0
  <2>1. \/ UNCHANGED <<items, input>>
        \/ UNCHANGED input /\ \E s \in Scenes : items' = [items EXCEPT ![s] = 0]
        \/ input' = FALSE /\ items' = [s \in Scenes |-> 0]
    BY DEF Edit
  <2>2. CASE UNCHANGED <<items, input>>
    BY <2>2 DEF SourceTyped
  <2>3. CASE UNCHANGED input /\ \E s \in Scenes : items' = [items EXCEPT ![s] = 0]
    BY <2>3 DEF SourceTyped
  <2>4. CASE input' = FALSE /\ items' = [s \in Scenes |-> 0]
    BY <2>4 DEF SourceTyped
  <2> QED
    BY <2>1, <2>2, <2>3, <2>4
<1> QED
  BY <1>1, <1>2 DEF SourceTyped, NothingWithoutInput, SeenEmptyIsEmpty, Ahead

LEMMA SourceNextKeeps ==
  ASSUME SourceInv, Numbered, [SourceNext]_talkSource
  PROVE  SourceInv'
<1> USE DEF SourceInv
<1>1. CASE UNCHANGED talkSource
  BY <1>1, SourceStays DEF talkSource, obs, read, SourceTyped, Ahead
<1>2. CASE Due \/ Switch \/ Page \/ ServerDies \/ Reload \/ ListScenes
  <2>1. UNCHANGED <<items, input, sawItem>>
    BY <1>2 DEF Due, Switch, Page, ServerDies, Reload, ListScenes, obs, read
  <2>2. SourceTyped' /\ Ahead' \subseteq Ahead
    BY <1>2, <2>1 DEF Due, Switch, Page, ServerDies, Reload, ListScenes, InPass, Ends, SourceTyped,
                      Ahead
  <2> QED
    BY <2>1, <2>2, SourceStays
<1>3. CASE AddFilter
  <2>1. UNCHANGED <<items, input, sawItem>> /\ pass = "cameras" /\ todo' \subseteq Nat
        /\ pass' \in {"cameras", "reload"}
    BY <1>3 DEF AddFilter, InPass, Onward, read, SourceTyped
  <2> QED
    BY <2>1, SourceStays DEF SourceTyped, Ahead
<1> QED
  BY <1>1, <1>2, <1>3, CreateKeeps, AddKeeps, ReadKeeps, EditKeeps DEF SourceNext

(* Whatever OBS refuses, whatever answer is lost, whatever the operator takes away  *)
(* and however often the server dies, the source is never twice in a scene.        *)
THEOREM OneSourceAlways ==
  ASSUME Numbered
  PROVE  SourceSpec => []OneSource
<1>1. SourceInv => OneSource
  BY DEF SourceInv, SourceTyped, OneSource
<1> QED
  BY SourceInitInv, SourceNextKeeps, <1>1, PTL DEF SourceSpec
==============================================================================
