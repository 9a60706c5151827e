---------------------------- MODULE Server_proofs ----------------------------
(* Five parts of the server that run "parts" checks, for every value of their   *)
(* constants: the practice match, whose feed can be put back; the logins; the   *)
(* scorer's file on its way to the overlay; the break, which play ends; and       *)
(* getting OBS ready.                                                        *)
EXTENDS Requests, Rehearsal, ScorerFile, BreakShow, OBSReady, TLAPS

-----------------------------------------------------------------------------
(* The practice match (rehearsal.go).                                         *)
(*                                                                         *)
(* SourceCanReturn is not inductive: a second practice that began while the     *)
(* feed still is the simulator's would save the simulator's folder as the club's  *)
(* own.  Without a failed write none does: by the time one may begin, and         *)
(* whenever the server starts, the feed has been put back (BackInTime).          *)

\* What a club types for its feed is not the simulator's folder, nor "nothing saved".
ClubsOwn == Sim \notin Folders /\ Nothing \notin Folders

Bounds == [upsets : Nat, fails : Nat, starts : Nat]

PracticeTyped ==
    /\ alive \in BOOLEAN /\ over \in BOOLEAN
    /\ at \in {"off", "marked", "pointed", "playing", "restored", "cleaned"}
    /\ bound \in Bounds

\* What is saved to put back is the club's, until one practice has begun over another.
NoteIsTheClubs ==
    ~over => /\ source \in Folders \cup {Sim} /\ note \in Folders \cup {Nothing}
             /\ (source = Sim => note \in Folders)

BackInTime == alive /\ at \notin {"pointed", "playing"} /\ bound.fails = 0 => source # Sim

PracticeInv == PracticeTyped /\ NoteIsTheClubs /\ (over => bound.fails > 0) /\ BackInTime

\* A bound that is used up a little more, and nothing else.
LEMMA SpendCounts ==
  ASSUME PracticeTyped, NEW b \in {"upsets", "fails", "starts"}, NEW max, Spend(b, max)
  PROVE  /\ bound' \in Bounds
         /\ bound'.fails = IF b = "fails" THEN bound.fails + 1 ELSE bound.fails
  BY DEF PracticeTyped, Bounds, Spend

LEMMA PracticeBegins == ClubsOwn /\ RehearsalInit => PracticeInv
<1> SUFFICES ASSUME ClubsOwn, RehearsalInit PROVE PracticeInv
  OBVIOUS
<1>1. PracticeTyped
  <2>1. bound = [upsets |-> 0, fails |-> 0, starts |-> 0] /\ alive = TRUE /\ over = FALSE
    BY DEF RehearsalInit
  <2>2. at = "off"
    BY DEF RehearsalInit
  <2> QED
    BY <2>1, <2>2 DEF PracticeTyped, Bounds
<1>2. NoteIsTheClubs /\ source # Sim /\ over = FALSE
  BY DEF RehearsalInit, NoteIsTheClubs, ClubsOwn
<1> QED
  BY <1>1, <1>2 DEF PracticeInv, BackInTime

\* A failed write leaves the settings, and is counted.
LEMMA AFailKeeps ==
  ASSUME ClubsOwn, PracticeInv, UNCHANGED state, Spend("fails", MaxFails), alive' \in BOOLEAN,
         at' \in {"off", "marked", "pointed", "playing", "restored", "cleaned"}
  PROVE  PracticeInv'
<1>1. PracticeTyped' /\ bound'.fails = bound.fails + 1 /\ bound.fails \in Nat
  <2>1. bound' \in Bounds /\ bound'.fails = bound.fails + 1
    BY SpendCounts DEF PracticeInv
  <2>2. bound.fails \in Nat /\ over' \in BOOLEAN
    BY DEF PracticeInv, PracticeTyped, Bounds, state
  <2> QED
    BY <2>1, <2>2 DEF PracticeTyped
<1>2. NoteIsTheClubs'
  BY DEF PracticeInv, NoteIsTheClubs, state
<1>3. bound'.fails > 0 /\ bound'.fails # 0
  BY <1>1
<1> QED
  BY <1>1, <1>2, <1>3 DEF PracticeInv, BackInTime

\* What touches neither the settings nor the failed writes keeps the invariant while it stays
\* where the feed may be the simulator's, or was not.
LEMMA AStepKeeps ==
  ASSUME ClubsOwn, PracticeInv, UNCHANGED state, alive' \in BOOLEAN,
         at' \in {"off", "marked", "pointed", "playing", "restored", "cleaned"},
         bound' \in Bounds, bound'.fails = bound.fails,
         alive' /\ at' \notin {"pointed", "playing"} => alive /\ at \notin {"pointed", "playing"}
  PROVE  PracticeInv'
  BY DEF PracticeInv, PracticeTyped, NoteIsTheClubs, BackInTime, state

\* The feed as it was, or as it has been set.
LEMMA PutBackKeeps ==
  ASSUME ClubsOwn, PracticeInv, PutBack, UNCHANGED bound, alive' \in BOOLEAN,
         at' \in {"off", "marked", "pointed", "playing", "restored", "cleaned"}
  PROVE  PracticeInv'
<1>1. CASE note = Nothing
  <2>1. UNCHANGED <<source, note, over>>
    BY <1>1 DEF PutBack, state
  <2>2. over \/ source # Sim
    BY <1>1 DEF PracticeInv, NoteIsTheClubs, ClubsOwn
  <2> QED
    BY <2>1, <2>2 DEF PracticeInv, PracticeTyped, NoteIsTheClubs, BackInTime
<1>2. CASE note # Nothing
  <2>1. source' = note /\ note' = Nothing /\ over' = over
    BY <1>2 DEF PutBack
  <2>2. over \/ source' # Sim
    BY <1>2, <2>1 DEF PracticeInv, NoteIsTheClubs, ClubsOwn
  <2>3. PracticeTyped' /\ NoteIsTheClubs'
    BY <1>2, <2>1 DEF PracticeInv, PracticeTyped, NoteIsTheClubs, ClubsOwn
  <2>4. (over' => bound'.fails > 0) /\ (over => bound'.fails # 0)
    BY <2>1 DEF PracticeInv, PracticeTyped
  <2> QED
    BY <2>2, <2>3, <2>4 DEF PracticeInv, BackInTime
<1> QED
  BY <1>1, <1>2

LEMMA PracticeKeeps == ClubsOwn /\ PracticeInv /\ [RehearsalNext]_rehearsal => PracticeInv'
<1> SUFFICES ASSUME ClubsOwn, PracticeInv, [RehearsalNext]_rehearsal PROVE PracticeInv'
  OBVIOUS
<1> USE DEF PracticeInv, PracticeTyped, Bounds
<1>1. CASE StartRehearsal
  BY <1>1, SpendCounts, AStepKeeps DEF StartRehearsal, Own
<1>2. CASE Point
  <2>1. CASE UNCHANGED state /\ Spend("fails", MaxFails)
    BY <1>2, <2>1, AFailKeeps DEF Point, Own
  <2>2. CASE source' = Sim /\ note' = source /\ over' = (over \/ source = Sim) /\ UNCHANGED bound
    <3>1. alive' /\ at' = "pointed" /\ alive /\ at = "marked"
      BY <1>2 DEF Point, Own
    <3>2. over' => bound'.fails > 0
      BY <2>2, <3>1 DEF BackInTime
    <3>3. NoteIsTheClubs'
      BY <2>2 DEF NoteIsTheClubs
    <3> QED
      BY <2>2, <3>1, <3>2, <3>3 DEF BackInTime
  <2> QED
    BY <1>2, <2>1, <2>2 DEF Point
<1>3. CASE Play \/ Ball
  BY <1>3, AStepKeeps DEF Play, Ball, Own
<1>4. CASE Finish
  BY <1>4, AFailKeeps, PutBackKeeps DEF Finish, Own
<1>5. CASE Clean \/ Forget
  BY <1>5, AStepKeeps DEF Clean, Forget, Own
<1>6. CASE AskFeed \/ ReadFeed \/ FollowMatchID \/ LogBallData
  BY <1>6, AStepKeeps DEF AskFeed, ReadFeed, FollowMatchID, LogBallData, Polling
<1>7. ASSUME NEW f \in Folders, SetFeed(f) PROVE PracticeInv'
  BY <1>7, SpendCounts DEF SetFeed, ClubsOwn, NoteIsTheClubs, BackInTime
<1>8. ASSUME NEW b \in BOOLEAN, GoOnAir(b) \/ ScoreByHand(b) PROVE PracticeInv'
  BY <1>8, AStepKeeps DEF GoOnAir, ScoreByHand
<1>9. CASE Die
  BY <1>9, SpendCounts, AStepKeeps DEF Die
<1>10. CASE Start
  BY <1>10, AFailKeeps, PutBackKeeps DEF Start
<1>11. CASE UNCHANGED rehearsal
  BY <1>11, AStepKeeps DEF rehearsal
<1> QED
  BY <1>1, <1>2, <1>3, <1>4, <1>5, <1>6, <1>7, <1>8, <1>9, <1>10, <1>11 DEF RehearsalNext

(* A server that dies in a practice finds at its next start what the feed was, unless a write  *)
(* that puts it back failed and another practice began.                                       *)
THEOREM FeedCanReturn == ASSUME ClubsOwn PROVE RehearsalSpec => []SourceCanReturn
<1>1. RehearsalInit => PracticeInv
  BY PracticeBegins
<1>2. PracticeInv /\ [RehearsalNext]_rehearsal => PracticeInv'
  BY PracticeKeeps
<1>3. PracticeInv => SourceCanReturn
  BY DEF PracticeInv, NoteIsTheClubs, SourceCanReturn
<1> QED
  BY <1>1, <1>2, <1>3, PTL DEF RehearsalSpec

-----------------------------------------------------------------------------
(* The routes, as the table of module Requests has them.                      *)

\* What a route asks of its caller, by what it changes; and what the link's viewers may see.
InOrder(r) ==
    /\ r.needs \in {"login", "here", "login or here", "login and here", "nothing"}
    /\ r.needs = "nothing" => r.method = "GET" /\ r.changes \subseteq Anybodys
    /\ r.needs \in {"here", "login or here"} => r.changes \subseteq Overlays
    /\ r.method = "GET" /\ r.path \in ViewAllowed => r.changes \subseteq Anybodys

LEMMA AGetInOrder ==
  ASSUME NEW path, NEW needs \in {"login", "nothing"}, NEW changes,
         changes \subseteq Anybodys \/ (needs = "login" /\ path \notin ViewAllowed)
  PROVE  InOrder(Get(path, needs, changes))
  BY DEF InOrder, Get

LEMMA APostInOrder ==
  ASSUME NEW path, NEW changes
  PROVE  InOrder(Post(path, changes)) /\ (changes \subseteq Overlays => InOrder(Overlay(path, changes)))
  BY DEF InOrder, Post, Overlay

LEMMA GetsInOrder ==
  ASSUME NEW paths, NEW changes
  PROVE  /\ changes \subseteq Anybodys =>
              \A r \in Anyone(paths, changes) \cup Login(paths, changes) : InOrder(r)
         /\ paths \cap ViewAllowed = {} => \A r \in Login(paths, changes) : InOrder(r)
  BY AGetInOrder DEF Anyone, Login

LEMMA RoutesInOrder == \A r \in Routes : InOrder(r)
<1>1. \A r \in PagesAndState \cup WeatherAndWords \cup PicturesAndPages : InOrder(r)
  BY GetsInOrder DEF PagesAndState, WeatherAndWords, PicturesAndPages, Anybodys
<1>2. \A r \in ScorerAndReports \cup SeasonAndMatch \cup HealthAndYouTube : InOrder(r)
  BY GetsInOrder DEF ScorerAndReports, SeasonAndMatch, HealthAndYouTube, Anybodys, ViewAllowed
<1>3. \A r \in RemoteAndTalk : InOrder(r)
  <2>1. InOrder(Get("/talk/out", "here", {})) /\ InOrder(Get("/talk/out/ws", "here", {"talk"}))
    BY DEF InOrder, Get, ViewAllowed, Overlays
  <2> QED
    BY <2>1, GetsInOrder DEF RemoteAndTalk, Anybodys, ViewAllowed
<1>4. \A r \in Uploads \cup PanelPosts : InOrder(r)
  <2>1. InOrder([Post("/settings/open_folder", {"files"}) EXCEPT !.needs = "login and here"])
    BY DEF InOrder, Post
  <2> QED
    BY <2>1, APostInOrder, ZenonT(40) DEF Uploads, PanelPosts
<1>5. \A r \in StateAndReplay \cup CamerasAndBreaks : InOrder(r)
  BY APostInOrder DEF StateAndReplay, CamerasAndBreaks, Overlays
<1>6. \A r \in YouTubeAndClips \cup WordsAndStream : InOrder(r)
  BY APostInOrder DEF YouTubeAndClips, WordsAndStream, Overlays
<1> QED
  BY <1>1, <1>2, <1>3, <1>4, <1>5, <1>6 DEF Routes

-----------------------------------------------------------------------------
(* The logins (auth.go).                                                      *)
(*                                                                         *)
(* LoginsHold is not inductive: a login is told from one that everybody was       *)
(* logged out of by the epoch alone, so no number is ever an epoch twice           *)
(* (LoginsTyped), the epoch of a login is the server's just when it was given       *)
(* today since the last logout (GivenNow), and a restart finds in the file the       *)
(* epoch the server had (FileAgrees), unless a write of the file was lost.           *)

LoginRecords == [epoch : Nat, old : BOOLEAN, day : Nat, round : Nat]

LoginsTyped ==
    /\ byHand \in BOOLEAN /\ serves \in BOOLEAN /\ unsure \in BOOLEAN /\ (serves => day # Off)
    /\ next \in Nat /\ round \in Nat /\ day \in 0 .. next - 1 /\ epoch \in 0 .. next - 1
    /\ disk = NoLogin \/ disk \in [day : 0 .. next - 1, epoch : 0 .. next - 1]
    /\ saving \subseteq 0 .. next - 1
    /\ login \in [Holders -> {NoLogin} \cup LoginRecords]

Earlier(l) == l.day < next /\ l.epoch < next /\ (l.day = day => l.round <= round)
NoneAhead == \A h \in Holders : login[h] # NoLogin => Earlier(login[h])

Now(l) == l.epoch = epoch <=> l.day = day /\ l.round = round
GivenNow == ~unsure /\ day # Off => \A h \in Holders : login[h] # NoLogin => Now(login[h])

OnFile == IF disk # NoLogin /\ disk.day = day THEN disk.epoch ELSE day
FileAgrees ==
    ~unsure /\ ~byHand /\ day # Off =>
        saving \subseteq {epoch} /\ (saving = {} => epoch = OnFile) /\ (~serves => saving = {})

AuthIsSound ==
    /\ conf \in [pwd : BOOLEAN, key : BOOLEAN, wide : BOOLEAN]
    /\ auth \in [pwd : BOOLEAN, key : BOOLEAN, wide : BOOLEAN]
    /\ auth.wide => auth.pwd /\ auth.key

LoginsInv == LoginsTyped /\ NoneAhead /\ GivenNow /\ FileAgrees /\ AuthIsSound

LEMMA LoginsBegin == RequestsInit => LoginsInv
<1> SUFFICES ASSUME RequestsInit PROVE LoginsInv
  OBVIOUS
<1>1. LoginsTyped
  <2>1. login \in [Holders -> {NoLogin} \cup LoginRecords]
    BY DEF RequestsInit
  <2>2. next = 1 /\ round = 0 /\ day = 0 /\ epoch = 0 /\ disk = NoLogin /\ saving = {}
    BY DEF RequestsInit, Off
  <2>3. byHand \in BOOLEAN /\ serves = FALSE /\ unsure = FALSE
    BY DEF RequestsInit
  <2>4. next \in Nat /\ round \in Nat /\ day \in 0 .. next - 1 /\ epoch \in 0 .. next - 1
    BY <2>2
  <2>5. saving \subseteq 0 .. next - 1
    BY <2>2
  <2> QED
    BY <2>1, <2>2, <2>3, <2>4, <2>5 DEF LoginsTyped
<1>2. NoneAhead /\ GivenNow /\ FileAgrees
  BY DEF RequestsInit, NoneAhead, GivenNow, FileAgrees
<1>3. AuthIsSound
  BY DEF RequestsInit, AuthIsSound
<1> QED
  BY <1>1, <1>2, <1>3 DEF LoginsInv

\* Whose request changes what, of a state of the invariant.
LEMMA TakenAsGiven == LoginsInv /\ serves /\ ~unsure => TakenIfItStands
<1> SUFFICES ASSUME LoginsInv, serves, ~unsure, NEW h \in Holders, login[h] # NoLogin, auth.key
             PROVE  VerifySessionToken(login[h]) <=> Stands(login[h])
  BY DEF TakenIfItStands
<1>1. Now(login[h])
  BY DEF LoginsInv, LoginsTyped, GivenNow
<1> QED
  BY <1>1 DEF Now, VerifySessionToken, Stands

LEMMA OnlyOperators == LoginsInv /\ serves /\ ~unsure => OperatorsOnly
<1> SUFFICES ASSUME LoginsInv, serves, ~unsure, NEW c \in Callers, ~Stands(Bearer(c)),
                    auth.pwd \/ c \in {"phone", "board"},
                    NEW r \in Operators, Allowed(c, r), Reaches(c, r)
             PROVE  TrustedLoopback(c) /\ r.changes \subseteq Overlays
  BY DEF OperatorsOnly
<1>1. r \in Routes /\ InOrder(r) /\ ~(r.method = "GET" /\ r.changes \subseteq Anybodys)
  BY RoutesInOrder DEF Operators
<1>2. ~VerifySessionToken(Bearer(c))
  <2>1. Bearer(c) = NoLogin \/ \E h \in Holders : Bearer(c) = login[h]
    BY DEF Bearer, Holders, Callers
  <2> QED
    BY <2>1, TakenAsGiven DEF TakenIfItStands, VerifySessionToken
<1>3. auth.pwd
  <2>1. CASE c = "phone"
    BY <2>1 DEF Reaches, LoginsInv, AuthIsSound
  <2>2. CASE c = "board"
    BY <1>1, <2>2 DEF Reaches, InOrder
  <2> QED
    BY <2>1, <2>2
<1>4. ~CheckToken(c)
  BY <1>2, <1>3 DEF CheckToken
<1> QED
  BY <1>1, <1>4 DEF Allowed, InOrder

-----------------------------------------------------------------------------
\* Nothing of the logins, their epoch and its file changes.
LEMMA QuietKeepsLogins ==
  ASSUME LoginsInv, AuthIsSound',
         UNCHANGED <<byHand, serves, day, epoch, disk, saving, login, round, unsure, next>>
  PROVE  LoginsInv'
<1>1. LoginsTyped'
  BY DEF LoginsInv, LoginsTyped
<1>2. NoneAhead'
  BY DEF LoginsInv, NoneAhead, Earlier
<1>3. GivenNow' /\ FileAgrees'
  BY DEF LoginsInv, GivenNow, Now, FileAgrees, OnFile
<1> QED
  BY <1>1, <1>2, <1>3 DEF LoginsInv

\* One value of a function changes.
LEMMA OneChanged ==
  ASSUME NEW D, NEW S, NEW f \in [D -> S], NEW d, NEW v \in S
  PROVE  [f EXCEPT ![d] = v] \in [D -> S]
  OBVIOUS

LEMMA MatchDayKeepsLogins ==
  ASSUME LoginsInv, NEW written \in BOOLEAN, MatchDay(written)
  PROVE  LoginsInv'
<1>1. next \in Nat /\ next # 0 /\ next' = next + 1 /\ day' = next /\ round' = 0 /\ unsure' = FALSE
  BY DEF MatchDay, LoginsInv, LoginsTyped
<1>2. serves' = TRUE /\ saving' = {} /\ disk' = disk /\ byHand' = byHand
  BY DEF MatchDay, Booted
<1>3. epoch' = next
  BY <1>1 DEF MatchDay, LoadSessionEpoch, LoginsInv, LoginsTyped
<1>4. AuthIsSound'
  BY DEF MatchDay, Booted, LoadAuth, EnsureControlToken, LoginsInv, AuthIsSound
<1>5. PICK l \in {NoLogin, [epoch |-> next, old |-> FALSE, day |-> next, round |-> 0]} :
        login' = [login EXCEPT !["window"] = l]
  BY <1>1, <1>3 DEF MatchDay
<1>6. LoginsTyped'
  <2>1. login' \in [Holders -> {NoLogin} \cup LoginRecords]
    <3>1. l \in {NoLogin} \cup LoginRecords
      <4>1. [epoch |-> next, old |-> FALSE, day |-> next, round |-> 0] \in LoginRecords
        BY <1>1 DEF LoginRecords
      <4>2. l = NoLogin \/ l = [epoch |-> next, old |-> FALSE, day |-> next, round |-> 0]
        OBVIOUS
      <4> QED
        BY <4>1, <4>2
    <3>2. login \in [Holders -> {NoLogin} \cup LoginRecords]
      BY DEF LoginsInv, LoginsTyped
    <3> QED
      BY <1>5, <3>1, <3>2, OneChanged
  <2>2. disk' = NoLogin \/ disk' \in [day : 0 .. next' - 1, epoch : 0 .. next' - 1]
    BY <1>1, <1>2 DEF LoginsInv, LoginsTyped
  <2>3. /\ next' \in Nat /\ round' \in Nat /\ day' \in 0 .. next' - 1 /\ epoch' \in 0 .. next' - 1
        /\ day' # Off /\ saving' \subseteq 0 .. next' - 1
    BY <1>1, <1>2, <1>3 DEF Off
  <2>4. byHand' \in BOOLEAN /\ serves' \in BOOLEAN /\ unsure' \in BOOLEAN
    BY <1>1, <1>2 DEF LoginsInv, LoginsTyped
  <2> QED
    BY <2>1, <2>2, <2>3, <2>4 DEF LoginsTyped
<1>7. ASSUME NEW h \in Holders, login'[h] # NoLogin PROVE Earlier(login[h])'  /\ Now(login[h])'
  <2>1. CASE login'[h] = login[h]
    <3>1. login[h] \in LoginRecords /\ Earlier(login[h])
      BY <1>7, <2>1 DEF LoginsInv, LoginsTyped, NoneAhead
    <3> QED
      BY <1>1, <1>3, <2>1, <3>1 DEF Earlier, Now, LoginRecords
  <2>2. CASE login'[h] = [epoch |-> next, old |-> FALSE, day |-> next, round |-> 0]
    BY <1>1, <1>3, <2>2 DEF Earlier, Now
  <2> QED
    BY <1>5, <1>7, <2>1, <2>2 DEF LoginsInv, LoginsTyped
<1>8. FileAgrees'
  BY <1>1, <1>2, <1>3 DEF FileAgrees, OnFile, LoginsInv, LoginsTyped
<1> QED
  BY <1>4, <1>6, <1>7, <1>8 DEF LoginsInv, NoneAhead, GivenNow

LEMMA RestartKeepsLogins ==
  ASSUME LoginsInv, NEW written \in BOOLEAN, StartAgain(written)
  PROVE  LoginsInv'
<1>1. UNCHANGED <<byHand, day, disk, login, round, unsure, next>> /\ ~byHand /\ ~serves /\ day # Off
  BY DEF StartAgain
<1>2. serves' = TRUE /\ saving' = {} /\ epoch' = OnFile
  BY <1>1 DEF StartAgain, Booted, LoadSessionEpoch, OnFile
<1>3. ~unsure => epoch' = epoch
  BY <1>1, <1>2 DEF LoginsInv, FileAgrees
<1>4. AuthIsSound'
  BY DEF StartAgain, Booted, LoadAuth, EnsureControlToken, LoginsInv, AuthIsSound
<1>5. LoginsTyped'
  BY <1>1, <1>2 DEF LoginsInv, LoginsTyped, OnFile
<1>6. NoneAhead'
  BY <1>1 DEF LoginsInv, NoneAhead, Earlier
<1>7. GivenNow' /\ FileAgrees'
  BY <1>1, <1>2, <1>3 DEF LoginsInv, GivenNow, Now, FileAgrees, OnFile
<1> QED
  BY <1>4, <1>5, <1>6, <1>7 DEF LoginsInv

LEMMA CrashKeepsLogins == ASSUME LoginsInv, Collapse \/ Stop PROVE LoginsInv'
<1>1. /\ UNCHANGED <<byHand, day, epoch, saving, settings, login, round, next>> /\ serves' = FALSE
      /\ (saving = {} /\ UNCHANGED <<disk, unsure>>) \/ unsure' = TRUE
  BY DEF Collapse, Stop
<1>2. disk' = NoLogin \/ disk' \in [day : 0 .. next - 1, epoch : 0 .. next - 1]
  BY DEF Collapse, Stop, LoginsInv, LoginsTyped
<1>3. LoginsTyped'
  BY <1>1, <1>2 DEF LoginsInv, LoginsTyped
<1>4. NoneAhead'
  BY <1>1 DEF LoginsInv, NoneAhead, Earlier
<1>5. GivenNow' /\ FileAgrees'
  BY <1>1 DEF LoginsInv, GivenNow, Now, FileAgrees, OnFile
<1>6. AuthIsSound'
  BY <1>1 DEF settings, LoginsInv, AuthIsSound
<1> QED
  BY <1>3, <1>4, <1>5, <1>6 DEF LoginsInv

LEMMA LogInKeepsLogins ==
  ASSUME LoginsInv, NEW h \in Holders, LogIn(h) \/ TwelveHours(h)
  PROVE  LoginsInv'
<1>1. UNCHANGED <<byHand, serves, day, epoch, disk, saving, settings, round, unsure, next>>
  BY DEF LogIn, TwelveHours, Serving
<1>2. PICK l : /\ login' = [login EXCEPT ![h] = l]
               /\ l \in LoginRecords /\ Earlier(l) /\ (~unsure /\ day # Off => Now(l))
  <2>1. CASE LogIn(h)
    <3>1. login' = [login EXCEPT ![h] = [epoch |-> epoch, old |-> FALSE, day |-> day, round |-> round]]
      BY <2>1 DEF LogIn
    <3> DEFINE l == [epoch |-> epoch, old |-> FALSE, day |-> day, round |-> round]
    <3>2. l \in LoginRecords /\ Earlier(l) /\ Now(l)
      BY DEF LoginsInv, LoginsTyped, LoginRecords, Earlier, Now
    <3> QED
      BY <3>1, <3>2
  <2>2. CASE TwelveHours(h)
    <3>1. login' = [login EXCEPT ![h] = [login[h] EXCEPT !.old = TRUE]] /\ login[h] # NoLogin
      BY <2>2 DEF TwelveHours
    <3>2. login[h] \in LoginRecords /\ Earlier(login[h]) /\ (~unsure /\ day # Off => Now(login[h]))
      BY <3>1 DEF LoginsInv, LoginsTyped, NoneAhead, GivenNow
    <3> DEFINE l == [login[h] EXCEPT !.old = TRUE]
    <3>3. l \in LoginRecords /\ l.epoch = login[h].epoch /\ l.day = login[h].day /\ l.round = login[h].round
      BY <3>2 DEF LoginRecords
    <3>4. Earlier(l) /\ (~unsure /\ day # Off => Now(l))
      BY <3>2, <3>3 DEF Earlier, Now
    <3> QED
      BY <3>1, <3>3, <3>4
  <2> QED
    BY <2>1, <2>2
<1>3. LoginsTyped'
  BY <1>1, <1>2 DEF LoginsInv, LoginsTyped
<1>4. NoneAhead'
  BY <1>1, <1>2 DEF LoginsInv, LoginsTyped, NoneAhead, Earlier
<1>5. GivenNow' /\ FileAgrees'
  BY <1>1, <1>2 DEF LoginsInv, LoginsTyped, GivenNow, Now, FileAgrees, OnFile
<1>6. AuthIsSound'
  BY <1>1 DEF settings, LoginsInv, AuthIsSound
<1> QED
  BY <1>3, <1>4, <1>5, <1>6 DEF LoginsInv

LEMMA LogoutAllKeepsLogins ==
  ASSUME LoginsInv, NEW c \in Callers, LogoutAll(c)
  PROVE  LoginsInv'
<1>1. /\ UNCHANGED <<byHand, serves, day, disk, settings, login>> /\ serves
      /\ epoch' = next /\ next' = next + 1 /\ round' = round + 1
      /\ saving' = IF byHand THEN saving ELSE saving \cup {next}
  BY DEF LogoutAll, Serving
<1>2. unsure' \in BOOLEAN /\ (~unsure' => ~unsure /\ saving = {})
  BY DEF LogoutAll, LoginsInv, LoginsTyped
<1>3. LoginsTyped'
  BY <1>1, <1>2 DEF LoginsInv, LoginsTyped
<1>4. ASSUME NEW h \in Holders, login[h] # NoLogin PROVE Earlier(login[h])' /\ Now(login[h])'
  <2>1. login[h] \in LoginRecords /\ Earlier(login[h]) /\ next \in Nat /\ round \in Nat
    BY <1>4 DEF LoginsInv, LoginsTyped, NoneAhead
  <2> QED
    BY <1>1, <2>1 DEF Earlier, Now, LoginRecords
<1>5. NoneAhead' /\ GivenNow'
  BY <1>1, <1>4 DEF NoneAhead, GivenNow
<1>6. FileAgrees'
  BY <1>1, <1>2 DEF LoginsInv, LoginsTyped, FileAgrees
<1>7. AuthIsSound'
  BY <1>1 DEF settings, LoginsInv, AuthIsSound
<1> QED
  BY <1>3, <1>5, <1>6, <1>7 DEF LoginsInv

LEMMA SaveEpochKeepsLogins ==
  ASSUME LoginsInv, NEW e \in saving, SaveEpoch(e)
  PROVE  LoginsInv'
<1>1. UNCHANGED <<byHand, serves, day, epoch, settings, login, round,
    next>> /\ serves /\ saving' = saving \ {e}
  BY DEF SaveEpoch, Serving
<1>2. \/ disk' = [day |-> day, epoch |-> e] /\ UNCHANGED unsure
      \/ unsure' = TRUE /\ disk' \in {disk, NoLogin}
  BY DEF SaveEpoch
<1>3. LoginsTyped'
  <2>1. disk' = NoLogin \/ disk' \in [day : 0 .. next - 1, epoch : 0 .. next - 1]
    BY <1>2 DEF LoginsInv, LoginsTyped
  <2>2. unsure' \in BOOLEAN /\ saving' \subseteq 0 .. next - 1
    BY <1>1, <1>2 DEF LoginsInv, LoginsTyped
  <2> QED
    BY <1>1, <2>1, <2>2 DEF LoginsInv, LoginsTyped
<1>4. NoneAhead'
  BY <1>1 DEF LoginsInv, NoneAhead, Earlier
<1>5. GivenNow'
  BY <1>1, <1>2 DEF LoginsInv, GivenNow, Now
<1>6. FileAgrees'
  <2>1. CASE unsure' = TRUE
    BY <2>1 DEF FileAgrees
  <2>2. CASE disk' = [day |-> day, epoch |-> e] /\ UNCHANGED unsure
    <3>1. disk'.day = day' /\ disk'.epoch = e /\ (day # Off => disk' # NoLogin)
      BY <1>1, <2>2 DEF NoLogin, Off
    <3>2. ~unsure /\ ~byHand /\ day # Off => e = epoch
      BY DEF LoginsInv, FileAgrees
    <3> QED
      BY <1>1, <2>2, <3>1, <3>2 DEF LoginsInv, FileAgrees, OnFile
  <2> QED
    BY <1>2, <2>1, <2>2
<1>7. AuthIsSound'
  BY <1>1 DEF settings, LoginsInv, AuthIsSound
<1> QED
  BY <1>3, <1>4, <1>5, <1>6, <1>7 DEF LoginsInv

LEMMA LoginsKeep == LoginsInv /\ [RequestsNext]_requests => LoginsInv'
<1> SUFFICES ASSUME LoginsInv, [RequestsNext]_requests PROVE LoginsInv'
  OBVIOUS
<1>1. CASE Starts
  BY <1>1, MatchDayKeepsLogins, RestartKeepsLogins DEF Starts
<1>2. CASE Collapse \/ Stop
  BY <1>2, CrashKeepsLogins
<1>3. CASE Logins
  <2>1. ASSUME NEW h \in Holders, WrongPassword(h) PROVE LoginsInv'
    BY <2>1, QuietKeepsLogins DEF WrongPassword, Serving, settings, LoginsInv, AuthIsSound
  <2> QED
    BY <1>3, <2>1, LogInKeepsLogins DEF Logins
<1>4. CASE Asks
  <2>1. ASSUME NEW c \in Callers, NEW p \in BOOLEAN, NEW w \in BOOLEAN, SettingsSave(c, p, w)
        PROVE  LoginsInv'
    <3>1. AuthIsSound'
      <4>1. conf' = [pwd |-> p, key |-> TRUE, wide |-> w /\ p]
        BY <2>1 DEF SettingsSave
      <4>2. auth' = [auth EXCEPT !.key = TRUE, !.pwd = p \/ (auth.pwd /\ auth.wide)]
        BY <2>1 DEF SettingsSave
      <4> QED
        BY <4>1, <4>2 DEF LoginsInv, AuthIsSound
    <3> QED
      BY <2>1, <3>1, QuietKeepsLogins DEF SettingsSave, Serving
  <2> QED
    BY <1>4, <2>1, LogoutAllKeepsLogins DEF Asks
<1>5. ASSUME NEW a \in {"here", "away"}, TenMinutes(a) PROVE LoginsInv'
  BY <1>5, QuietKeepsLogins DEF TenMinutes, Serving, settings, LoginsInv, AuthIsSound
<1>6. ASSUME NEW e \in saving, SaveEpoch(e) PROVE LoginsInv'
  BY <1>6, SaveEpochKeepsLogins
<1>7. CASE UNCHANGED requests
  BY <1>7, QuietKeepsLogins DEF requests, settings, LoginsInv, AuthIsSound
<1> QED
  BY <1>1, <1>2, <1>3, <1>4, <1>5, <1>6, <1>7 DEF RequestsNext

(* A login the server takes is one that stands, and a change beyond what is anybody's is an      *)
(* operator's: through any number of days, crashes, restarts, saved settings and logouts, but     *)
(* for a day on which a write of the epoch's file was lost or two of them met.                    *)
THEOREM LoginsAlwaysHold == RequestsSpec => []LoginsHold
<1>1. LoginsInv => LoginsHold
  BY TakenAsGiven, OnlyOperators DEF LoginsHold
<1> QED
  BY <1>1, LoginsBegin, LoginsKeep, PTL DEF RequestsSpec

-----------------------------------------------------------------------------
(* The scorer's file (scorerfile.go, pcs.go, agent.go).                         *)
(*                                                                         *)
(* CaughtUp is not inductive: an answer is the newest ball because what is       *)
(* remembered under the file's time is what the file has had since that time       *)
(* (RememberedIsRead), because a poll that began after the last write was given      *)
(* that write's time and read that write, or was told that the time it gave, which     *)
(* is still remembered unless it was overtaken, is that write's (PollIsOfItsTime), and *)
(* because the folder that is read is NV Play's unless it was guessed at (Chosen).     *)

Frame == Nat \cup {Torn}
PollRecords == [at : {"no", "stat", "read", "parse", "told"}, since : Nat, mt : Nat, got : Frame, tries : Nat,
                from : Nat, overtaken : BOOLEAN]

FileTyped ==
    /\ club \in [way : Ways, known : BOOLEAN, pcs : BOOLEAN]
    /\ aged \in BOOLEAN /\ guessed \in BOOLEAN
    /\ clock \in Nat /\ nv \in [frame : Frame, mt : Nat] /\ nv.mt = clock

Chosen ==
    /\ found \in {Nowhere, "pcs", "nv"} /\ folder \in {Nowhere, "pcs", "nv"}
    /\ "pcs" \in {found, folder} => guessed

RememberedIsRead ==
    /\ cache \in [mt : Nat, frame : Frame] /\ cache.mt <= clock
    /\ cache.mt = clock /\ clock # 0 => cache.frame = nv.frame

OfItsTime(q) ==
    /\ q.from <= clock /\ (q.at # "no" => folder # Nowhere)
    /\ q.at \in {"read", "parse"} => q.from <= q.mt /\ q.mt <= clock
    /\ q.at = "parse" /\ q.mt = clock => q.got = nv.frame
    /\ q.at = "told" /\ q.from = clock /\ clock # 0 => q.since = clock \/ (aged /\ ~club.known)

StillRemembered(q) == Agent /\ q.at # "no" /\ ~q.overtaken => q.since <= cache.mt
ToldByAgent(q) == q.at = "told" => Agent

PollIsOfItsTime ==
    /\ poll \in [Pollers -> PollRecords]
    /\ \A p \in Pollers : OfItsTime(poll[p]) /\ StillRemembered(poll[p]) /\ ToldByAgent(poll[p])

AnswerIsOfItsTime ==
    /\ shown.from \in Nat /\ shown.from <= clock
    /\ shown.from = clock /\ Whole /\ clock # 0 =>
           shown.frame = nv.frame \/ (aged /\ ~club.known) \/ shown.overtaken

Reads == RememberedIsRead /\ PollIsOfItsTime /\ AnswerIsOfItsTime
FileInv == FileTyped /\ Chosen /\ (club.way # "bridge" /\ ~guessed => Reads)

LEMMA FileBegins == FileInit => FileInv
<1> SUFFICES ASSUME FileInit PROVE FileInv
  OBVIOUS
<1>1. FileTyped
  BY DEF FileInit, FileTyped, Frame, NoFrame
<1>2. Chosen
  BY DEF FileInit, Chosen, Nowhere
<1>3. RememberedIsRead
  BY DEF FileInit, RememberedIsRead, Frame, NoFrame
<1>4. PollIsOfItsTime
  BY DEF FileInit, PollIsOfItsTime, OfItsTime, StillRemembered, ToldByAgent, PollRecords, NoPoll, Frame,
         NoFrame
<1>5. AnswerIsOfItsTime
  BY DEF FileInit, AnswerIsOfItsTime
<1> QED
  BY <1>1, <1>2, <1>3, <1>4, <1>5 DEF FileInv, Reads

\* A write makes what was remembered, asked for and answered that of an earlier time.
LEMMA AWriteKeeps ==
  ASSUME FileInv, NEW f \in Frame, Writes(f)
  PROVE  FileInv'
<1>1. /\ nv' = [frame |-> f, mt |-> clock + 1] /\ clock' = clock + 1 /\ aged' = FALSE /\ clock \in Nat
      /\ UNCHANGED <<club, found, folder, guessed, poll, cache, shown>>
  BY DEF Writes, FileInv, FileTyped
<1>2. FileTyped'
  <2>1. nv' \in [frame : Frame, mt : Nat] /\ nv'.mt = clock' /\ clock' \in Nat
    BY <1>1
  <2>2. club' \in [way : Ways, known : BOOLEAN, pcs : BOOLEAN] /\ aged' \in BOOLEAN /\ guessed' \in BOOLEAN
    BY <1>1 DEF FileInv, FileTyped
  <2> QED
    BY <2>1, <2>2 DEF FileTyped
<1>3. Chosen'
  BY <1>1 DEF FileInv, Chosen
<1>4. ASSUME Reads PROVE Reads'
  <2>1. RememberedIsRead'
    BY <1>1, <1>4 DEF Reads, RememberedIsRead
  <2>2. PollIsOfItsTime'
    <3>1. ASSUME NEW p \in Pollers
          PROVE  OfItsTime(poll[p])' /\ StillRemembered(poll[p])' /\ ToldByAgent(poll[p])'
      BY <1>1, <1>4 DEF Reads, PollIsOfItsTime, PollRecords, OfItsTime, StillRemembered, ToldByAgent, Agent
    <3> QED
      BY <1>1, <1>4, <3>1 DEF Reads, PollIsOfItsTime
  <2>3. AnswerIsOfItsTime'
    BY <1>1, <1>4 DEF Reads, AnswerIsOfItsTime
  <2> QED
    BY <2>1, <2>2, <2>3 DEF Reads
<1> QED
  BY <1>1, <1>2, <1>3, <1>4 DEF FileInv

\* The folder is found, or chosen again later: NV Play's, or a guess.
LEMMA AFolderKeeps == ASSUME FileInv, FindFolder \/ ReaderRestart PROVE FileInv'
<1>1. UNCHANGED <<club, nv, aged, shown, clock>> /\ guessed' \in BOOLEAN /\ (guessed => guessed')
  BY DEF FindFolder, ReaderRestart, FileInv, FileTyped
<1>2. FileTyped'
  BY <1>1 DEF FileInv, FileTyped
<1>3. Chosen'
  <2>1. CASE FindFolder
    <3>1. CASE club.way # "agent"
      BY <2>1, <3>1 DEF FindFolder, FileInv, FileTyped, Chosen
    <3>2. CASE club.way = "agent" /\ found # Nowhere
      BY <2>1, <3>2 DEF FindFolder, FileInv, FileTyped, Chosen
    <3>3. CASE club.way = "agent" /\ found = Nowhere
      <4>1. PICK f \in Autodetect : folder' = f /\ found' = f
        BY <2>1, <3>3 DEF FindFolder
      <4>2. CASE IsLive("nv")
        BY <4>1, <4>2 DEF Autodetect, Chosen
      <4>3. CASE ~IsLive("nv")
        <5>1. guessed' = TRUE /\ f \in {"pcs", "nv"}
          BY <2>1, <3>3, <4>1, <4>3 DEF FindFolder, Autodetect
        <5> QED
          BY <4>1, <5>1 DEF Chosen
      <4> QED
        BY <4>2, <4>3
    <3> QED
      BY <3>1, <3>2, <3>3
  <2>2. CASE ReaderRestart
    <3>1. folder' = Nowhere /\ found' = found /\ guessed' = guessed /\ Nowhere # "pcs"
      BY <2>2 DEF ReaderRestart, Nowhere
    <3> QED
      BY <3>1 DEF FileInv, Chosen
  <2> QED
    BY <2>1, <2>2
<1>4. ASSUME Reads PROVE Reads'
  <2>1. \/ UNCHANGED <<poll, cache>> /\ folder = Nowhere
        \/ poll' = [p \in Pollers |-> NoPoll] /\ cache' = [mt |-> 0, frame |-> NoFrame]
    BY DEF FindFolder, ReaderRestart
  <2>2. clock \in Nat /\ NoFrame \in Frame
    BY DEF FileInv, FileTyped, Frame, NoFrame
  <2>3. RememberedIsRead'
    BY <1>1, <1>4, <2>1, <2>2 DEF Reads, RememberedIsRead
  <2>4. PollIsOfItsTime'
    <3>1. CASE UNCHANGED <<poll, cache>> /\ folder = Nowhere
      BY <1>1, <1>4, <3>1 DEF Reads, PollIsOfItsTime, OfItsTime, StillRemembered, ToldByAgent, Agent
    <3>2. CASE poll' = [p \in Pollers |-> NoPoll]
      BY <1>1, <2>2, <3>2
          DEF PollIsOfItsTime, PollRecords, NoPoll, OfItsTime, StillRemembered, ToldByAgent
    <3> QED
      BY <2>1, <3>1, <3>2
  <2>5. AnswerIsOfItsTime'
    BY <1>1, <1>4 DEF Reads, AnswerIsOfItsTime, Whole
  <2> QED
    BY <2>3, <2>4, <2>5 DEF Reads
<1> QED
  BY <1>1, <1>2, <1>3, <1>4 DEF FileInv

\* A poll is answered with the newest ball, if it began after the last write; what is remembered
\* by then does not go back, but for the polls it overtakes.
LEMMA AnAnswerKeeps ==
  ASSUME FileInv, PollIsOfItsTime, UNCHANGED <<club, nv, aged, folder, clock>>, NEW p \in Pollers, NEW f,
         NEW from \in Nat, from <= clock, Answer(p, f, from), cache.mt \in Nat, cache'.mt \in Nat,
         from = clock /\ Whole /\ clock # 0 => f = nv.frame \/ (aged /\ ~club.known) \/ poll[p].overtaken
  PROVE  PollIsOfItsTime' /\ AnswerIsOfItsTime'
<1>1. clock \in Nat /\ NoFrame \in Frame
  BY DEF FileInv, FileTyped, Frame, NoFrame
<1>2. /\ shown' = [frame |-> f, from |-> from, overtaken |-> poll[p].overtaken]
      /\ poll' = [q \in Pollers |-> IF q = p THEN NoPoll ELSE
                   [poll[q] EXCEPT !.overtaken = @ \/ (poll[q].at # "no" /\ cache'.mt < cache.mt)]]
  BY DEF Answer
<1>3. ASSUME NEW q \in Pollers
      PROVE  /\ poll'[q] \in PollRecords
             /\ OfItsTime(poll[q])' /\ StillRemembered(poll[q])' /\ ToldByAgent(poll[q])'
  <2>1. CASE q = p
    <3>1. poll'[q] = NoPoll
      BY <1>2, <2>1
    <3> QED
      BY <1>1, <3>1 DEF PollRecords, NoPoll, OfItsTime, StillRemembered, ToldByAgent
  <2>2. CASE q # p
    <3>1. poll[q] \in PollRecords /\ OfItsTime(poll[q]) /\ StillRemembered(poll[q]) /\ ToldByAgent(poll[q])
      BY DEF PollIsOfItsTime
    <3>2. poll'[q] = [poll[q] EXCEPT !.overtaken = @ \/ (poll[q].at # "no" /\ cache'.mt < cache.mt)]
      BY <1>2, <2>2
    <3>3. poll'[q] \in PollRecords
      BY <3>1, <3>2 DEF PollRecords
    <3>4. /\ poll'[q].at = poll[q].at /\ poll'[q].since = poll[q].since /\ poll'[q].mt = poll[q].mt
          /\ poll'[q].got = poll[q].got /\ poll'[q].from = poll[q].from /\ poll[q].since \in Nat
          /\ ~poll'[q].overtaken => ~poll[q].overtaken /\ (poll[q].at = "no" \/ ~(cache'.mt < cache.mt))
      BY <3>1, <3>2 DEF PollRecords
    <3>5. OfItsTime(poll[q])' /\ ToldByAgent(poll[q])'
      BY <3>1, <3>4 DEF OfItsTime, ToldByAgent, Agent
    <3>6. StillRemembered(poll[q])'
      BY <3>1, <3>4 DEF StillRemembered, Agent
    <3> QED
      BY <3>3, <3>5, <3>6
  <2> QED
    BY <2>1, <2>2
<1>4. PollIsOfItsTime'
  BY <1>2, <1>3 DEF PollIsOfItsTime
<1>5. AnswerIsOfItsTime'
  BY <1>1, <1>2 DEF AnswerIsOfItsTime, Whole
<1> QED
  BY <1>4, <1>5

\* A poll that goes on, among the others.
LEMMA ACallKeeps ==
  ASSUME FileInv, Reads, UNCHANGED <<club, nv, aged, folder, clock, cache, shown>>, NEW p \in Pollers,
         NEW r \in PollRecords, poll' = [poll EXCEPT ![p] = r],
         OfItsTime(r), StillRemembered(r), ToldByAgent(r)
  PROVE  Reads'
<1>1. RememberedIsRead' /\ AnswerIsOfItsTime'
  BY DEF Reads, RememberedIsRead, AnswerIsOfItsTime, Whole
<1>2. poll' \in [Pollers -> PollRecords]
  BY DEF Reads, PollIsOfItsTime
<1>3. ASSUME NEW q \in Pollers
      PROVE  OfItsTime(poll[q])' /\ StillRemembered(poll[q])' /\ ToldByAgent(poll[q])'
  <2>1. poll'[q] = (IF q = p THEN r ELSE poll[q])
    BY DEF Reads, PollIsOfItsTime
  <2> QED
    BY <2>1 DEF Reads, PollIsOfItsTime, OfItsTime, StillRemembered, ToldByAgent, Agent
<1> QED
  BY <1>1, <1>2, <1>3 DEF Reads, PollIsOfItsTime

\* The polls go on; what they read is NV Play's file, if the folder was not guessed at.
LEMMA APollKeeps == ASSUME FileInv, Feed PROVE FileInv'
<1> PICK p \in Pollers : Begin(p) \/ Stat(p) \/ Read(p) \/ Parse(p)
  BY DEF Feed
<1>1. UNCHANGED <<club, nv, aged, found, folder, guessed, clock>>
  BY DEF Begin, Stat, Read, Parse, Polls
<1>2. FileTyped' /\ Chosen'
  BY <1>1 DEF FileInv, FileTyped, Chosen
<1> SUFFICES ASSUME club.way # "bridge", ~guessed, Reads PROVE Reads'
  BY <1>1, <1>2 DEF FileInv
<1>3. clock \in Nat /\ nv.mt = clock /\ nv.frame \in Frame /\ NoFrame \in Frame
  BY DEF FileInv, FileTyped, Frame, NoFrame
<1>4. folder # Nowhere => File = nv /\ There = (nv.mt # 0 /\ (club.known \/ ~aged))
  BY DEF FileInv, Chosen, File, There, Find, Nowhere
<1>0. /\ poll \in [Pollers -> PollRecords] /\ poll[p] \in PollRecords
      /\ OfItsTime(poll[p]) /\ StillRemembered(poll[p]) /\ ToldByAgent(poll[p])
      /\ cache.mt \in Nat /\ cache.mt <= clock /\ cache.frame \in Frame
      /\ cache.mt = clock /\ clock # 0 => cache.frame = nv.frame
  BY DEF Reads, PollIsOfItsTime, RememberedIsRead
<1>5. CASE Begin(p)
  <2> DEFINE t == IF Agent THEN cache.mt ELSE 0
  <2>0. t \in Nat /\ t <= clock /\ (Agent => t = cache.mt)
    BY <1>0, <1>3
  <2> HIDE DEF t
  <2> DEFINE r == [NoPoll EXCEPT !.at = "stat", !.since = t, !.from = clock]
  <2>1. poll' = [poll EXCEPT ![p] = r] /\ folder # Nowhere /\ UNCHANGED <<cache, shown>>
    BY <1>5 DEF Begin, t
  <2>2. r.at = "stat" /\ r.since = t /\ r.from = clock /\ ~r.overtaken
    BY DEF NoPoll
  <2>3. r \in PollRecords
    BY <1>3, <2>0 DEF PollRecords, NoPoll
  <2> HIDE DEF r
  <2>4. OfItsTime(r) /\ StillRemembered(r) /\ ToldByAgent(r)
    BY <1>0, <1>3, <2>0, <2>1, <2>2 DEF OfItsTime, StillRemembered, ToldByAgent
  <2> QED
    BY <1>1, <2>1, <2>3, <2>4, ACallKeeps
<1>6. CASE Stat(p)
  <2>1. poll[p].at = "stat" /\ poll[p].from <= clock /\ folder # Nowhere /\ cache' = cache
    BY <1>0, <1>6 DEF Stat, OfItsTime
  <2>2. CASE There /\ File.mt # Remembered(p)
    <3> DEFINE r == [poll[p] EXCEPT !.at = "read", !.mt = clock]
    <3>1. poll' = [poll EXCEPT ![p] = r] /\ shown' = shown
      BY <1>0, <1>3, <1>4, <1>6, <2>1, <2>2 DEF Stat
    <3>2. r \in PollRecords
      BY <1>0, <1>3 DEF PollRecords
    <3>3. OfItsTime(r) /\ StillRemembered(r) /\ ToldByAgent(r)
      BY <1>0, <1>3, <2>1 DEF PollRecords, OfItsTime, StillRemembered, ToldByAgent
    <3> HIDE DEF r
    <3> QED
      BY <1>1, <2>1, <3>1, <3>2, <3>3, ACallKeeps
  <2>3. CASE ~(There /\ File.mt # Remembered(p)) /\ Agent
    <3> DEFINE r == [poll[p] EXCEPT !.at = "told"]
    <3>1. poll' = [poll EXCEPT ![p] = r] /\ shown' = shown
      BY <1>0, <1>6, <2>3 DEF Stat
    <3>2. r \in PollRecords
      BY <1>0 DEF PollRecords
    <3>3. clock # 0 => poll[p].since = clock \/ (aged /\ ~club.known)
      BY <1>3, <1>4, <2>1, <2>3 DEF Remembered, FileInv, FileTyped
    <3>4. OfItsTime(r) /\ StillRemembered(r) /\ ToldByAgent(r)
      BY <1>0, <2>1, <2>3, <3>3 DEF PollRecords, OfItsTime, StillRemembered, ToldByAgent
    <3> HIDE DEF r
    <3> QED
      BY <1>1, <2>1, <3>1, <3>2, <3>4, ACallKeeps
  <2>4. CASE ~(There /\ File.mt # Remembered(p)) /\ ~Agent
    <3> DEFINE f == IF There THEN cache.frame ELSE NoFrame
    <3>1. Answer(p, f, poll[p].from)
      BY <1>6, <2>4 DEF Stat
    <3>2. clock # 0 => f = nv.frame \/ (aged /\ ~club.known)
      BY <1>0, <1>3, <1>4, <2>1, <2>4 DEF Remembered, FileInv, FileTyped
    <3>3. RememberedIsRead'
      BY <1>1, <2>1 DEF Reads, RememberedIsRead
    <3>4. poll[p].from \in Nat
      BY <1>0 DEF PollRecords
    <3> HIDE DEF f
    <3> QED
      BY <1>0, <1>1, <2>1, <3>1, <3>2, <3>3, <3>4, AnAnswerKeeps DEF Reads
  <2> QED
    BY <2>2, <2>3, <2>4
<1>7. CASE Read(p)
  <2>1. /\ poll[p].at = "read" /\ poll[p].from <= poll[p].mt /\ poll[p].mt <= clock
        /\ folder # Nowhere /\ File = nv /\ poll[p].from <= clock /\ UNCHANGED <<cache, shown>>
    BY <1>0, <1>4, <1>7 DEF Read, OfItsTime
  <2>2. CASE poll' = [poll EXCEPT ![p].tries = @ + 1]
    <3> DEFINE r == [poll[p] EXCEPT !.tries = @ + 1]
    <3>1. poll' = [poll EXCEPT ![p] = r]
      BY <1>0, <2>2
    <3>2. r \in PollRecords /\ OfItsTime(r) /\ StillRemembered(r) /\ ToldByAgent(r)
      BY <1>0, <2>1 DEF PollRecords, OfItsTime, StillRemembered, ToldByAgent
    <3> HIDE DEF r
    <3> QED
      BY <1>1, <2>1, <3>1, <3>2, ACallKeeps
  <2>3. CASE poll' = [poll EXCEPT ![p].at = "parse", ![p].got = nv.frame]
    <3> DEFINE r == [poll[p] EXCEPT !.at = "parse", !.got = nv.frame]
    <3>1. poll' = [poll EXCEPT ![p] = r]
      BY <1>0, <2>3
    <3>2. r \in PollRecords /\ OfItsTime(r) /\ StillRemembered(r) /\ ToldByAgent(r)
      BY <1>0, <1>3, <2>1 DEF PollRecords, OfItsTime, StillRemembered, ToldByAgent
    <3> HIDE DEF r
    <3> QED
      BY <1>1, <2>1, <3>1, <3>2, ACallKeeps
  <2> QED
    BY <1>7, <2>1, <2>2, <2>3 DEF Read
<1>8. CASE Parse(p)
  <2>1. /\ poll[p].at \in {"parse", "told"} /\ poll[p].from <= clock /\ poll[p].from \in Nat
        /\ poll[p].mt \in Nat /\ poll[p].since \in Nat
    BY <1>0, <1>8 DEF Parse, OfItsTime, PollRecords
  <2>2. CASE Parsed(p) /\ Answer(p, cache'.frame, poll[p].from)
    <3>1. CASE poll[p].at = "told" \/ poll[p].got = Torn
      <4>1. cache' = cache
        BY <2>2, <3>1 DEF Parsed
      <4>2. RememberedIsRead'
        BY <1>1, <4>1 DEF Reads, RememberedIsRead
      <4>3. ASSUME poll[p].from = clock, Whole, clock # 0
            PROVE  cache.frame = nv.frame \/ (aged /\ ~club.known) \/ poll[p].overtaken
        <5>1. CASE poll[p].at = "told"
          <6>1. poll[p].since = clock \/ (aged /\ ~club.known)
            BY <1>0, <4>3, <5>1 DEF OfItsTime
          <6>2. ~poll[p].overtaken => poll[p].since <= cache.mt
            BY <1>0, <5>1 DEF StillRemembered, ToldByAgent
          <6> QED
            BY <1>0, <1>3, <2>1, <4>3, <6>1, <6>2
        <5>2. CASE poll[p].at = "parse" /\ poll[p].got = Torn
          BY <1>0, <1>3, <2>1, <4>3, <5>2 DEF OfItsTime, Whole
        <5> QED
          BY <2>1, <3>1, <5>1, <5>2
      <4> QED
        BY <1>0, <1>1, <2>1, <2>2, <4>1, <4>2, <4>3, AnAnswerKeeps DEF Reads
    <3>2. CASE poll[p].at = "parse" /\ poll[p].got # Torn
      <4>1. cache' = [mt |-> poll[p].mt, frame |-> poll[p].got]
        BY <2>2, <3>2 DEF Parsed
      <4>2. /\ poll[p].from <= poll[p].mt /\ poll[p].mt <= clock /\ poll[p].got \in Frame
            /\ poll[p].mt = clock => poll[p].got = nv.frame
        BY <1>0, <3>2 DEF OfItsTime, PollRecords
      <4>3. RememberedIsRead'
        BY <1>1, <2>1, <4>1, <4>2 DEF RememberedIsRead
      <4>4. poll[p].from = clock => cache'.frame = nv.frame
        BY <1>3, <2>1, <4>1, <4>2
      <4>5. cache'.mt \in Nat
        BY <2>1, <4>1
      <4> QED
        BY <1>0, <1>1, <2>1, <2>2, <4>3, <4>4, <4>5, AnAnswerKeeps DEF Reads
    <3> QED
      BY <2>1, <3>1, <3>2
  <2>3. CASE UNCHANGED cache /\ Answer(p, cache.frame, 0)
    <3>1. RememberedIsRead'
      BY <1>1, <2>3 DEF Reads, RememberedIsRead
    <3>2. 0 = clock /\ clock # 0 => FALSE
      OBVIOUS
    <3> QED
      BY <1>0, <1>1, <1>3, <2>3, <3>1, <3>2, AnAnswerKeeps DEF Reads
  <2> QED
    BY <1>8, <2>2, <2>3 DEF Parse
<1> QED
  BY <1>5, <1>6, <1>7, <1>8

LEMMA FileKeeps == FileInv /\ [FileNext]_scorerFile => FileInv'
<1> SUFFICES ASSUME FileInv, [FileNext]_scorerFile PROVE FileInv'
  OBVIOUS
<1>1. CASE Empties \/ Fills
  <2>1. Torn \in Frame /\ Balls + 1 \in Frame
    BY DEF FileInv, FileTyped, Frame, Balls
  <2> QED
    BY <1>1, <2>1, AWriteKeeps DEF Empties, Fills
<1>2. CASE GoesQuiet
  <2>1. aged' = TRUE /\ UNCHANGED <<club, nv, found, folder, guessed, poll, cache, shown, clock>>
    BY <1>2 DEF GoesQuiet
  <2>2. FileTyped' /\ Chosen'
    BY <2>1 DEF FileInv, FileTyped, Chosen
  <2>3. ASSUME Reads PROVE Reads'
    <3>1. ASSUME NEW p \in Pollers
          PROVE  OfItsTime(poll[p])' /\ StillRemembered(poll[p])' /\ ToldByAgent(poll[p])'
      BY <2>1, <2>3 DEF Reads, PollIsOfItsTime, OfItsTime, StillRemembered, ToldByAgent, Agent
    <3>2. PollIsOfItsTime'
      BY <2>1, <2>3, <3>1 DEF Reads, PollIsOfItsTime
    <3>3. RememberedIsRead' /\ AnswerIsOfItsTime'
      BY <2>1, <2>3 DEF Reads, RememberedIsRead, AnswerIsOfItsTime, Whole
    <3> QED
      BY <3>2, <3>3 DEF Reads
  <2> QED
    BY <2>1, <2>2, <2>3 DEF FileInv
<1>3. CASE FindFolder \/ ReaderRestart
  BY <1>3, AFolderKeeps
<1>4. CASE Feed
  BY <1>4, APollKeeps
<1>5. CASE Bridge
  <2>1. club.way = "bridge" /\ UNCHANGED <<club, nv, aged, found, folder, guessed, clock>>
    BY <1>5 DEF Bridge, BridgeReads, BridgeStats, Mirror, KeepTime, Bridges
  <2> QED
    BY <2>1 DEF FileInv, FileTyped, Chosen
<1>6. CASE UNCHANGED scorerFile
  <2>1. FileTyped' /\ Chosen'
    BY <1>6 DEF scorerFile, FileInv, FileTyped, Chosen
  <2>2. ASSUME Reads PROVE Reads'
    <3>1. ASSUME NEW p \in Pollers
          PROVE  OfItsTime(poll[p])' /\ StillRemembered(poll[p])' /\ ToldByAgent(poll[p])'
      BY <1>6, <2>2
          DEF scorerFile, Reads, PollIsOfItsTime, OfItsTime, StillRemembered, ToldByAgent, Agent
    <3>2. PollIsOfItsTime'
      BY <1>6, <2>2, <3>1 DEF scorerFile, Reads, PollIsOfItsTime
    <3>3. RememberedIsRead' /\ AnswerIsOfItsTime'
      BY <1>6, <2>2 DEF scorerFile, Reads, RememberedIsRead, AnswerIsOfItsTime, Whole
    <3> QED
      BY <3>2, <3>3 DEF Reads
  <2> QED
    BY <1>6, <2>1, <2>2 DEF scorerFile, FileInv
<1> QED
  BY <1>1, <1>2, <1>3, <1>4, <1>5, <1>6 DEF FileNext

(* What a poll begun after the scorer's last write answers is that ball, for any number of     *)
(* balls, polls at once, pauses and restarts, over the folder or the agent, unless it was       *)
(* overtaken by the late answer to an older call to the agent.                               *)
THEOREM AlwaysCaughtUp == FileSpec => []CaughtUp
<1>1. FileInv => CaughtUp
  BY DEF FileInv, Reads, AnswerIsOfItsTime, CaughtUp
<1> QED
  BY <1>1, FileBegins, FileKeeps, PTL DEF FileSpec

-----------------------------------------------------------------------------
(* The break (breakshow.go, overlay.html).                                      *)
(*                                                                         *)
(* Both sides remember the break, and only the overlay can find its end.  While    *)
(* the server's is on, the overlay has it, or a command that gives it is there to   *)
(* be fetched, or word of its end is on its way; and no "break_end" is left with     *)
(* that command, or one fetch would end the break the server has just begun.       *)

\* A page is not loaded afresh in a break, no POST of it is lost, and nobody starts a break
\* within three seconds of ending one.  The server may restart at any time.
PageStays == BreakFaults \cap {"reload", "lost", "hasty"} = {}

OnItsWay(p) == \E i \in DOMAIN posts : posts[i] = p

BothKnow ==
    breakOn => /\ "break_end" \notin command
               /\ breakShown # None \/ "break" \in command \/ OnItsWay("end")

BreakInv == posts \in Seq({"start", "end"}) /\ BothKnow

LEMMA BreakBegun == BreakInit => BreakInv
  BY DEF BreakInit, BreakInv, BothKnow

\* A start, from the panel or the overlay, leaves the overlay a command that gives it the break.
LEMMA AStartIsKnown == ASSUME PageStays, StartBreak PROVE BothKnow'
  BY DEF PageStays, StartBreak, BreakFault, BothKnow

\* An end leaves nothing that play must end.
LEMMA AnEndIsKnown == ASSUME EndBreak PROVE BothKnow'
  BY DEF EndBreak, BothKnow

\* A POST sent after others is on its way with them.
LEMMA SentAfter ==
  ASSUME posts \in Seq({"start", "end"}), NEW p \in {"start", "end"}, posts' = Append(posts, p)
  PROVE  /\ posts' \in Seq({"start", "end"})
         /\ OnItsWay(p)'
         /\ OnItsWay("end") => OnItsWay("end")'
<1>1. posts' \in Seq({"start", "end"}) /\ Len(posts') = Len(posts) + 1 /\ posts'[Len(posts) + 1] = p
  OBVIOUS
<1>2. OnItsWay(p)'
  <2>1. Len(posts) + 1 \in DOMAIN posts'
    BY <1>1
  <2> QED
    BY <1>1, <2>1 DEF OnItsWay
<1>3. ASSUME OnItsWay("end") PROVE OnItsWay("end")'
  <2>1. PICK i \in DOMAIN posts : posts[i] = "end"
    BY <1>3 DEF OnItsWay
  <2>2. i \in DOMAIN posts' /\ posts'[i] = posts[i]
    BY <2>1, <1>1
  <2> QED
    BY <2>1, <2>2 DEF OnItsWay
<1> QED
  BY <1>1, <1>2, <1>3

LEMMA ArriveKeeps == ASSUME PageStays, BreakInv, Arrive PROVE BreakInv'
<1>1. posts' \in Seq({"start", "end"})
  BY DEF BreakInv, Arrive
<1>2. BothKnow'
  <2>1. CASE StartBreak
    BY <2>1, AStartIsKnown
  <2>2. CASE EndBreak
    BY <2>2, AnEndIsKnown
  <2> QED
    BY <2>1, <2>2 DEF Arrive, BreakFault, PageStays
<1> QED
  BY <1>1, <1>2 DEF BreakInv

\* What the overlay finds in a frame: when it ends its break it sends word.
LEMMA PollKeepsBreak == ASSUME BreakInv, Poll PROVE BreakInv'
<1>1. UNCHANGED <<breakOn, command>>
  BY DEF Poll
<1>2. CASE EndTold
  <2>1. posts' \in Seq({"start", "end"}) /\ OnItsWay("end")'
    BY <1>2, SentAfter DEF EndTold, BreakInv
  <2> QED
    BY <1>1, <2>1 DEF BreakInv, BothKnow
<1>3. CASE UNCHANGED posts /\ (breakShown' = breakShown \/ breakShown = None)
  BY <1>1, <1>3 DEF BreakInv, BothKnow, OnItsWay
<1> QED
  BY <1>2, <1>3 DEF Poll

\* The commands of a break that is on give it to the overlay.
LEMMA FetchKeeps == ASSUME BreakInv, FetchCommands PROVE BreakInv'
<1>1. UNCHANGED <<breakOn, posts>>
  BY DEF FetchCommands
<1>2. ASSUME breakOn PROVE command' = {} /\ breakShown' # None
  <2>1. "break_end" \notin command
    BY <1>2 DEF BreakInv, BothKnow
  <2>2. BreakBegins(FALSE) /\ command' = {}
    BY <2>1 DEF FetchCommands
  <2>3. [innings |-> 1, balls |-> 0] # None
    BY DEF None
  <2> QED
    BY <2>2, <2>3 DEF BreakBegins
<1> QED
  BY <1>1, <1>2 DEF BreakInv, BothKnow

LEMMA BreakKeeps == PageStays /\ BreakInv /\ [BreakNext]_breaks => BreakInv'
<1> SUFFICES ASSUME PageStays, BreakInv, [BreakNext]_breaks PROVE BreakInv'
  OBVIOUS
<1>1. CASE BallBowled \/ Undo \/ Turn \/ UNCHANGED breaks
  <2>1. UNCHANGED <<breakOn, command, breakShown, posts>>
    BY <1>1 DEF BallBowled, Undo, Turn, Scores, breaks, overlay
  <2> QED
    BY <2>1 DEF BreakInv, BothKnow, OnItsWay
<1>2. CASE PressStart \/ PressEnd
  <2>1. UNCHANGED posts /\ (StartBreak \/ EndBreak)
    BY <1>2 DEF PressStart, PressEnd
  <2> QED
    BY <2>1, AStartIsKnown, AnEndIsKnown DEF BreakInv
<1>3. CASE Arrive
  BY <1>3, ArriveKeeps
<1>4. CASE Restart
  BY <1>4 DEF Restart, BreakInv, BothKnow
<1>5. CASE Poll
  BY <1>5, PollKeepsBreak
<1>6. CASE TimerFires
  <2>1. posts' \in Seq({"start", "end"}) /\ (OnItsWay("end") => OnItsWay("end")')
    BY <1>6, SentAfter DEF TimerFires, BreakInv
  <2> QED
    BY <1>6, <2>1 DEF TimerFires, BreakInv, BothKnow
<1>7. CASE FetchCommands
  BY <1>7, FetchKeeps
<1>8. CASE Reload
  BY <1>8 DEF Reload, BreakFault, PageStays
<1> QED
  BY <1>1, <1>2, <1>3, <1>4, <1>5, <1>6, <1>7, <1>8 DEF BreakNext

(* Play ends a break, however it began and however often the server restarts: when a ball has  *)
(* been bowled since, the overlay has the break to end, or is about to be given it, or has sent *)
(* word of its end.  It is a page loaded afresh (run break_over_play) that breaks this.       *)
THEOREM PlayEndsIt == ASSUME PageStays PROVE BreakSpec => []EndsWithPlay
<1>1. BreakInv => EndsWithPlay
  BY DEF BreakInv, BothKnow, OnItsWay, EndsWithPlay
<1>2. BreakInv /\ [BreakNext]_breaks => BreakInv'
  BY BreakKeeps
<1> QED
  BY <1>1, <1>2, BreakBegun, PTL DEF BreakSpec

-----------------------------------------------------------------------------
(* Getting OBS ready (prep.go, setup.go, finish.go).                           *)
(*                                                                         *)
(* ReadyInTheEnd is not inductive: that OBS is closed while its files are edited,  *)
(* that what runs has in memory what its files say, which password is where, and    *)
(* that the marker is there for as long as the check is off, are what it rests on.   *)
(* All of it holds only while nobody opens OBS, and no second job begins, in the      *)
(* middle of an edit (raced).                                                 *)

Steps == {"no", "look", "ws", "sync", "profile", "mark", "pause", "clear", "launch", "wait", "copy",
          "setup", "buffer", "restart", "done", "failed"}
Passwords == {"none", "theirs", "ours"}
Settings == [profile : BOOLEAN, check : {"unset", "true", "false"}, ws : BOOLEAN, pw : Passwords,
             rb : BOOLEAN, scenes : BOOLEAN]

Running == [proc : {"off", "asks", "on"}, by : {"nobody", "us", "people"}, mem : Settings,
            built : BOOLEAN, buffer : BOOLEAN, live : BOOLEAN, dialled : BOOLEAN]
Jobs == [at : Steps, by : {"nobody", "launcher", "panel"}, ready : BOOLEAN, again : BOOLEAN,
         hampered : BOOLEAN]
PutsBack == {Resting} \cup [at : {"write", "remove"}, was : {"true"}]

ReadyTyped ==
    /\ obsNow \in Running /\ obsFiles \in Settings /\ sentinel \in BOOLEAN
    /\ paused \in {"none", "unset", "true"} /\ choice \in {"unset", "true", "false"}
    /\ confPw \in Passwords /\ serverPw \in Passwords
    /\ readying \in Jobs /\ putBack \in PutsBack /\ raced \in BOOLEAN

\* While its files are edited OBS is closed, and one of the two edits them.
ClosedWhileEdited ==
    /\ \/ readying.at \in {"ws", "sync", "profile", "mark", "pause", "clear", "launch"}
       \/ readying.at = "look" /\ readying.again
       \/ putBack # Resting
       => obsNow.proc = "off"
    /\ readying.at # "no" => putBack = Resting

\* What the code opens has no run to ask about.
AsksNothing ==
    /\ obsNow.by = "us" => obsNow.proc # "asks"
    /\ readying.at = "launch" => ~sentinel
    /\ obsNow.buffer \/ obsNow.live \/ obsNow.dialled => obsNow.proc # "off"

\* An OBS that runs has in memory what its files say.
InMemory ==
    obsNow.proc # "off" =>
        /\ obsNow.mem.ws = obsFiles.ws /\ obsNow.mem.pw = obsFiles.pw
        /\ obsNow.mem.profile /\ obsFiles.profile
        /\ paused = "none" => obsNow.mem.check = obsFiles.check

\* The one password, in OBS's file, in config.ini and in the server.
OnePassword ==
    /\ obsFiles.ws => obsFiles.pw # "none"
    /\ readying.at = "sync" => obsFiles.ws
    /\ confPw # "none" => obsFiles.ws /\ obsFiles.pw = confPw
    /\ ~managed => serverPw = confPw /\ readying.at \in {"no", "setup", "buffer", "restart", "done", "failed"}
    /\ serverPw # "none" => serverPw = confPw
    /\ readying.at \in {"setup", "buffer", "restart"} => serverPw = confPw
    /\ readying.at \in {"buffer", "restart"} \/ readying.again => serverPw = confPw /\ confPw # "none"

\* An OBS opened once more has a buffer to start.
OnceMore ==
    /\ readying.at \in {"buffer", "restart"} \/ readying.again => obsFiles.profile
    /\ readying.again /\ readying.at \in {"mark", "pause", "clear", "launch"} => obsFiles.rb
    /\ readying.again /\ obsNow.proc # "off" => obsNow.built

\* The marker is there from before the check is turned off until it is put back.
MarkedWhileOff ==
    /\ readying.at = "pause" \/ putBack.at # "no" => paused # "none"
    /\ putBack.at = "remove" => obsFiles.check = "true"

Unraced == /\ ClosedWhileEdited /\ AsksNothing /\ InMemory /\ OnePassword /\ OnceMore /\ MarkedWhileOff
           /\ ChoiceIsKept

ReadyInv == ReadyTyped /\ (~raced => Unraced)

LEMMA BeginningsTyped == New \in Settings /\ NotOpen \in Running /\ NoJob \in Jobs /\ Resting \in PutsBack
<1>1. New \in Settings
  BY DEF New, Settings, Passwords
<1> QED
  BY <1>1 DEF NotOpen, Running, NoJob, Jobs, Steps, PutsBack

LEMMA ReadyInitInv == ReadyInit => ReadyInv
<1> SUFFICES ASSUME ReadyInit PROVE ReadyInv
  OBVIOUS
<1>1. ReadyTyped
  <2>1. obsFiles \in Settings
    BY BeginningsTyped DEF ReadyInit, InUse, Settings, Passwords
  <2>2. choice \in {"unset", "true", "false"}
    BY <2>1 DEF ReadyInit, Settings
  <2>3. confPw \in Passwords /\ serverPw \in Passwords
    BY <2>1 DEF ReadyInit, Settings, Passwords
  <2> QED
    BY <2>1, <2>2, <2>3, BeginningsTyped DEF ReadyInit, ReadyTyped
<1>2. obsFiles.ws => obsFiles.pw # "none"
  <2>1. CASE obsFiles = New
    BY <2>1 DEF New
  <2>2. CASE obsFiles \in InUse
    BY <2>2 DEF InUse
  <2> QED
    BY <2>1, <2>2 DEF ReadyInit
<1>3. confPw # "none" => obsFiles.ws /\ obsFiles.pw = confPw
  BY DEF ReadyInit
<1>4. Unraced
  BY <1>2, <1>3 DEF ReadyInit, NotOpen, NoJob, Resting, Unraced, ClosedWhileEdited, AsksNothing, InMemory,
      OnePassword,
              OnceMore, MarkedWhileOff, ChoiceIsKept, ComesBack
<1> QED
  BY <1>1, <1>4 DEF ReadyInv

LEMMA StepTyped ==
  ASSUME readying \in Jobs, NEW step \in Steps, StepsTo(step) PROVE readying' \in Jobs
  BY DEF StepsTo, Jobs

LEMMA PreparedTyped ==
  ASSUME readying \in Jobs, NEW ok \in BOOLEAN, Prepared(ok) PROVE readying' \in Jobs
<1>1. PICK step \in {"setup", "copy"} : readying' = [readying EXCEPT !.at = step, !.ready = ok]
  BY DEF Prepared
<1>2. step \in Steps
  BY DEF Steps
<1> QED
  BY <1>1, <1>2 DEF Jobs

LEMMA FieldsTyped == ASSUME ReadyTyped
                     PROVE  /\ obsNow.mem \in Settings /\ obsFiles.profile \in BOOLEAN /\ obsFiles.rb \in BOOLEAN
                            /\ obsFiles.check \in {"unset", "true", "false"} /\ obsFiles.pw \in Passwords
                            /\ obsFiles.scenes \in BOOLEAN /\ Answering \in BOOLEAN /\ obsNow.built \in BOOLEAN
  BY DEF ReadyTyped, Running, Settings, Answering

LEMMA OpenTyped ==
  ASSUME ReadyTyped, NEW who \in {"us", "people"}, NEW starts \in BOOLEAN, OpenOBS(who, starts)
  PROVE  obsNow' \in Running /\ obsFiles' \in Settings /\ sentinel' \in BOOLEAN
<1>1. [obsFiles EXCEPT !.profile = TRUE] \in Settings
  BY DEF ReadyTyped, Settings
<1>2. PICK p \in {"asks", "on"}, bt \in BOOLEAN, bf \in BOOLEAN :
        obsNow' = [proc |-> p, by |-> who, mem |-> [obsFiles EXCEPT !.profile = TRUE],
                   built |-> bt, buffer |-> bf, live |-> FALSE, dialled |-> FALSE]
  BY FieldsTyped DEF OpenOBS
<1>3. obsNow' \in Running
  BY <1>1, <1>2 DEF Running
<1> QED
  BY <1>1, <1>3 DEF OpenOBS

LEMMA CloseTyped == ASSUME ReadyTyped, CloseOBS
                    PROVE  obsNow' \in Running /\ obsFiles' \in Settings /\ sentinel' \in BOOLEAN
  BY FieldsTyped, BeginningsTyped DEF CloseOBS

LEMMA ReadyNextTyped == ReadyTyped /\ [ReadyNext]_obsReady => ReadyTyped'
<1> SUFFICES ASSUME ReadyTyped, [ReadyNext]_obsReady PROVE ReadyTyped'
  OBVIOUS
<1>1. CASE BeginJob
  BY <1>1, StepTyped, PreparedTyped, FieldsTyped, BeginningsTyped, OpenTyped, CloseTyped
      DEF BeginJob, NoJob, Jobs, Steps, ReadyTyped, passwords
<1>2. CASE FindOpen
  BY <1>2, StepTyped, PreparedTyped, FieldsTyped, BeginningsTyped, OpenTyped, CloseTyped
      DEF FindOpen, Steps, ReadyTyped, passwords
<1>3. CASE CarryOn
  BY <1>3, StepTyped, PreparedTyped, FieldsTyped, BeginningsTyped, OpenTyped, CloseTyped
      DEF CarryOn, Steps, ReadyTyped, passwords
<1>4. CASE FindClosed
  BY <1>4, StepTyped, PreparedTyped, FieldsTyped, BeginningsTyped, OpenTyped, CloseTyped
      DEF FindClosed, Steps, ReadyTyped, passwords
<1>5. CASE EnsureWebsocket
  <2>1. obsFiles' \in Settings
    BY <1>5 DEF EnsureWebsocket, ReadyTyped, Settings, Passwords
  <2> QED
    BY <1>5, <2>1, StepTyped DEF EnsureWebsocket, Steps, ReadyTyped, passwords
<1>6. CASE SyncConfigPassword
  BY <1>6, StepTyped, PreparedTyped, FieldsTyped, BeginningsTyped, OpenTyped, CloseTyped
      DEF SyncConfigPassword, Steps, ReadyTyped, passwords
<1>7. CASE EnsureReplayBuffer
  BY <1>7, StepTyped, PreparedTyped, FieldsTyped, BeginningsTyped, OpenTyped, CloseTyped
      DEF EnsureReplayBuffer, Settings, Steps, ReadyTyped, passwords
<1>8. CASE PauseMark
  BY <1>8, StepTyped, PreparedTyped, FieldsTyped, BeginningsTyped, OpenTyped, CloseTyped
      DEF PauseMark, Steps, ReadyTyped, passwords
<1>9. CASE PauseUpdateCheck
  BY <1>9, StepTyped, PreparedTyped, FieldsTyped, BeginningsTyped, OpenTyped, CloseTyped
      DEF PauseUpdateCheck, Settings, Steps, ReadyTyped, passwords
<1>10. CASE ClearCrashSentinel
  BY <1>10, StepTyped, PreparedTyped, FieldsTyped, BeginningsTyped, OpenTyped, CloseTyped
      DEF ClearCrashSentinel, Steps, ReadyTyped, passwords
<1>11. CASE LaunchOBS
  <2>1. obsNow' \in Running /\ obsFiles' \in Settings /\ sentinel' \in BOOLEAN
    <3>1. LaunchArgs \in BOOLEAN
      BY FieldsTyped DEF LaunchArgs
    <3> QED
      BY <1>11, <3>1, OpenTyped DEF LaunchOBS, ReadyTyped, passwords
  <2>2. readying' \in Jobs
    BY <1>11, StepTyped, PreparedTyped DEF LaunchOBS, Steps, ReadyTyped, passwords
  <2> QED
    BY <1>11, <2>1, <2>2 DEF LaunchOBS, ReadyTyped, passwords
<1>12. CASE Wait
  BY <1>12, StepTyped, PreparedTyped, FieldsTyped, BeginningsTyped, OpenTyped, CloseTyped
      DEF Wait, Steps, ReadyTyped, passwords
<1>13. CASE CopyPassword
  BY <1>13, StepTyped, PreparedTyped, FieldsTyped, BeginningsTyped, OpenTyped, CloseTyped
      DEF CopyPassword, Steps, ReadyTyped, passwords
<1>14. CASE SetupScenes
  <2>1. [obsNow.mem EXCEPT !.scenes = TRUE] \in Settings
    BY FieldsTyped DEF Settings
  <2>2. obsNow' \in Running
    BY <1>14, <2>1 DEF SetupScenes, ReadyTyped, Running
  <2>3. readying' \in Jobs
    BY <1>14, StepTyped DEF SetupScenes, Steps, ReadyTyped, passwords
  <2> QED
    BY <1>14, <2>2, <2>3 DEF SetupScenes, ReadyTyped, passwords
<1>15. CASE SetupBuffer
  <2>1. /\ UNCHANGED <<obsFiles, sentinel, paused, confPw, serverPw, putBack, choice, raced>>
        /\ StartsBuffer \/ NoBuffer
    BY <1>15 DEF SetupBuffer, passwords
  <2>2. CASE StartsBuffer
    <3>1. [obsNow.mem EXCEPT !.rb = TRUE] \in Settings
      BY FieldsTyped DEF Settings
    <3>2. obsNow' \in Running
      BY <2>2, <3>1, FieldsTyped DEF StartsBuffer, ReadyTyped, Running
    <3>3. readying' \in Jobs
      BY <2>2, StepTyped DEF StartsBuffer, Steps, ReadyTyped
    <3> QED
      BY <2>1, <3>2, <3>3 DEF ReadyTyped
  <2>3. CASE NoBuffer
    <3>1. PICK enabled \in BOOLEAN :
            /\ obsNow' = [obsNow EXCEPT !.mem.rb = @ \/ (obsNow.dialled /\ enabled)]
            /\ readying' = [readying EXCEPT !.at = IF enabled /\ ~readying.again THEN "restart" ELSE "done",
                                           !.hampered = TRUE]
      BY <2>3 DEF NoBuffer
    <3>2. [obsNow.mem EXCEPT !.rb = @ \/ (obsNow.dialled /\ enabled)] \in Settings
      BY FieldsTyped DEF Settings
    <3>3. obsNow' \in Running
      BY <3>1, <3>2 DEF ReadyTyped, Running
    <3>4. readying' \in Jobs
      BY <3>1 DEF ReadyTyped, Jobs, Steps
    <3> QED
      BY <2>1, <3>3, <3>4 DEF ReadyTyped
  <2> QED
    BY <2>1, <2>2, <2>3
<1>16. CASE RestartOBS
  <2>1. readying' \in Jobs
    BY <1>16, StepTyped DEF RestartOBS, NoJob, Jobs, Steps, ReadyTyped
  <2>2. obsNow' \in Running /\ obsFiles' \in Settings /\ sentinel' \in BOOLEAN
    BY <1>16, CloseTyped DEF RestartOBS, ReadyTyped
  <2> QED
    BY <1>16, <2>1, <2>2 DEF RestartOBS, ReadyTyped, passwords
<1>17. CASE EndJob
  BY <1>17, StepTyped, PreparedTyped, FieldsTyped, BeginningsTyped, OpenTyped, CloseTyped
      DEF EndJob, Steps, ReadyTyped, passwords
<1>18. CASE ResumeReads
  BY <1>18, StepTyped, PreparedTyped, FieldsTyped, BeginningsTyped, OpenTyped, CloseTyped
      DEF ResumeReads, PutsBack, Steps, ReadyTyped, passwords
<1>19. CASE ResumeWrites
  <2>1. putBack.was = "true" /\ putBack' \in PutsBack
    BY <1>19 DEF ResumeWrites, ReadyTyped, PutsBack, Resting
  <2>2. obsFiles' \in Settings
    BY <1>19, <2>1 DEF ResumeWrites, ReadyTyped, Settings
  <2> QED
    BY <1>19, <2>1, <2>2 DEF ResumeWrites, ReadyTyped, passwords
<1>20. CASE ResumeEnds
  BY <1>20, StepTyped, PreparedTyped, FieldsTyped, BeginningsTyped, OpenTyped, CloseTyped
      DEF ResumeEnds, PutsBack, Steps, ReadyTyped, passwords
<1>21. CASE OpenByHand
  BY <1>21, StepTyped, PreparedTyped, FieldsTyped, BeginningsTyped, OpenTyped, CloseTyped
      DEF OpenByHand, Steps, ReadyTyped, passwords
<1>22. CASE CloseByHand
  BY <1>22, StepTyped, PreparedTyped, FieldsTyped, BeginningsTyped, OpenTyped, CloseTyped
      DEF CloseByHand, Steps, ReadyTyped, passwords
<1>23. CASE AnswerQuestion
  BY <1>23, StepTyped, PreparedTyped, FieldsTyped, BeginningsTyped, OpenTyped, CloseTyped
      DEF AnswerQuestion, Running, Steps, ReadyTyped, passwords
<1>24. CASE ChangeCheck
  BY <1>24, StepTyped, PreparedTyped, FieldsTyped, BeginningsTyped, OpenTyped, CloseTyped
      DEF ChangeCheck, Running, Settings, Steps, ReadyTyped, passwords
<1>25. CASE StartStream
  BY <1>25, StepTyped, PreparedTyped, FieldsTyped, BeginningsTyped, OpenTyped, CloseTyped
      DEF StartStream, Running, Steps, ReadyTyped, passwords
<1>26. CASE OBSCrash
  BY <1>26, StepTyped, PreparedTyped, FieldsTyped, BeginningsTyped, OpenTyped, CloseTyped
      DEF OBSCrash, Steps, ReadyTyped, passwords
<1>27. CASE PowerCut
  BY <1>27, StepTyped, PreparedTyped, FieldsTyped, BeginningsTyped, OpenTyped, CloseTyped
      DEF PowerCut, Steps, ReadyTyped, passwords
<1>28. CASE UNCHANGED obsReady
  BY <1>28 DEF obsReady, ReadyTyped, passwords, readyBounds
<1> QED
  BY <1>1, <1>2, <1>3, <1>4, <1>5, <1>6, <1>7, <1>8, <1>9, <1>10, <1>11, <1>12, <1>13, <1>14, <1>15,
      <1>16, <1>17, <1>18, <1>19, <1>20, <1>21, <1>22, <1>23, <1>24, <1>25, <1>26, <1>27, <1>28
          DEF ReadyNext, GetPrepared, Setup, Resume, World
LEMMA Opened ==
  ASSUME ReadyTyped, NEW who, NEW starts \in BOOLEAN, OpenOBS(who, starts)
  PROVE  /\ obsNow'.proc \in {"asks", "on"} /\ obsNow'.by = who /\ ~obsNow'.live
         /\ who = "us" /\ ~sentinel /\ (starts => obsFiles.scenes) => obsNow'.proc = "on"
         /\ obsNow'.built = (obsFiles.profile /\ obsFiles.rb) /\ obsNow'.mem = obsFiles' /\ obsFiles'.profile
         /\ \A f \in {"check", "ws", "pw", "rb", "scenes"} : obsFiles'[f] = obsFiles[f]
  BY SMTT(30) DEF OpenOBS, ReadyTyped, Settings

LEMMA ReadyNextUnraced == ASSUME ReadyTyped, ~raced, ~raced', Unraced, ReadyNext PROVE Unraced'
<1> USE DEF StepsTo, Prepared, Resting, ReadyTyped, Running, Jobs, Steps, PutsBack, Settings, Passwords,
    Unraced, ClosedWhileEdited, AsksNothing, InMemory, OnePassword, OnceMore, MarkedWhileOff,
        ChoiceIsKept, ComesBack, passwords
<1>0. managed' = managed
  BY DEF ReadyNext
<1> USE <1>0
<1>1. CASE BeginJob
  <2>1. putBack = Resting /\ readying'.at = (IF managed THEN "look" ELSE "setup") /\ ~readying'.again
    BY <1>1 DEF BeginJob, NoJob
  <2>2. UNCHANGED <<obsNow, obsFiles, sentinel, paused, confPw, serverPw, putBack, choice>>
    BY <1>1 DEF BeginJob
  <2>3. ClosedWhileEdited' /\ AsksNothing' /\ InMemory'
    BY <2>1, <2>2
  <2>4. OnePassword' /\ OnceMore' /\ MarkedWhileOff' /\ ChoiceIsKept'
    BY <2>1, <2>2
  <2> QED
    BY <2>3, <2>4
<1>2. CASE FindOpen
  BY <1>2 DEF FindOpen, Answering
<1>3. CASE CarryOn
  BY <1>3 DEF CarryOn
<1>4. CASE FindClosed
  BY <1>4 DEF FindClosed
<1>5. CASE EnsureWebsocket
  BY <1>5, ZenonT(40) DEF EnsureWebsocket
<1>6. CASE SyncConfigPassword
  BY <1>6 DEF SyncConfigPassword
<1>7. CASE EnsureReplayBuffer
  BY <1>7 DEF EnsureReplayBuffer
<1>8. CASE PauseMark
  BY <1>8 DEF PauseMark
<1>9. CASE PauseUpdateCheck
  BY <1>9 DEF PauseUpdateCheck
<1>10. CASE ClearCrashSentinel
  BY <1>10 DEF ClearCrashSentinel
<1>11. CASE LaunchOBS
  <2>1. /\ readying.at = "launch" /\ UNCHANGED <<paused, confPw, serverPw, putBack, choice>>
        /\ obsNow.proc = "off" /\ ~sentinel /\ putBack = Resting
    BY <1>11 DEF LaunchOBS
  <2>2. CASE UNCHANGED <<obsNow, obsFiles, sentinel>>
    <3>1. /\ readying' = [readying EXCEPT !.at = readying'.at, !.ready = readying'.ready]
          /\ readying'.at \in {"wait", "copy", "setup"} /\ (readying'.at = "setup" => readying.again)
      BY <1>11, ZenonT(40) DEF LaunchOBS
    <3> QED
      BY <2>1, <2>2, <3>1, ZenonT(40)
  <2>3. CASE OpenOBS("us", LaunchArgs) /\ readying' = [readying EXCEPT !.at = "wait"]
    <3>1. LaunchArgs \in BOOLEAN /\ (LaunchArgs => obsFiles.scenes)
      BY DEF LaunchArgs
    <3>2. /\ obsNow'.proc = "on" /\ obsNow'.by = "us"
          /\ obsNow'.built = (obsFiles.profile /\ obsFiles.rb) /\ obsNow'.mem = obsFiles' /\ obsFiles'.profile
          /\ \A f \in {"check", "ws", "pw", "rb", "scenes"} : obsFiles'[f] = obsFiles[f]
      BY <2>1, <2>3, <3>1, Opened
    <3>3. obsFiles'.check = obsFiles.check /\ obsFiles'.ws = obsFiles.ws /\ obsFiles'.pw = obsFiles.pw
      BY <3>2
    <3>4. readying'.at = "wait" /\ readying'.again = readying.again
      BY <2>3
    <3>5. ClosedWhileEdited' /\ AsksNothing' /\ InMemory' /\ OnceMore'
      BY <2>1, <3>2, <3>3, <3>4
    <3>6. OnePassword' /\ MarkedWhileOff' /\ ChoiceIsKept'
      BY <2>1, <3>2, <3>3, <3>4
    <3> QED
      BY <3>5, <3>6
  <2> QED
    BY <1>11, <2>1, <2>2, <2>3 DEF LaunchOBS
<1>12. CASE Wait
  <2>1. /\ readying.at = "wait" /\ readying'.again = readying.again
        /\ readying'.at = IF readying.again THEN "setup" ELSE "copy"
    BY <1>12 DEF Wait
  <2>2. UNCHANGED <<obsNow, obsFiles, sentinel, paused, confPw, serverPw, putBack, choice>>
    BY <1>12 DEF Wait
  <2>3. ClosedWhileEdited' /\ AsksNothing' /\ InMemory'
    BY <2>1, <2>2
  <2>4. OnePassword' /\ OnceMore' /\ MarkedWhileOff' /\ ChoiceIsKept'
    BY <2>1, <2>2
  <2> QED
    BY <2>3, <2>4
<1>13. CASE CopyPassword
  BY <1>13 DEF CopyPassword
<1>14. CASE SetupScenes
  <2>1. /\ readying.at = "setup" /\ UNCHANGED <<obsFiles, sentinel, paused, confPw, serverPw, putBack, choice>>
        /\ \A f \in {"proc", "by", "live", "built", "buffer"} : obsNow'[f] = obsNow[f]
        /\ \A f \in {"profile", "check", "ws", "pw"} : obsNow'.mem[f] = obsNow.mem[f]
        /\ obsNow'.dialled => obsNow.dialled \/ Connected
    <3>1. CASE ~Connected
      BY <1>14, <3>1 DEF SetupScenes
    <3>2. CASE Connected
      <4>1. obsNow' \in {[obsNow EXCEPT !.mem.scenes = TRUE, !.dialled = TRUE], [obsNow EXCEPT !.dialled = TRUE]}
        BY <1>14, <3>2 DEF SetupScenes
      <4>2. /\ \A f \in {"proc", "by", "live", "built", "buffer"} : obsNow'[f] = obsNow[f]
            /\ \A f \in {"profile", "check", "ws", "pw"} : obsNow'.mem[f] = obsNow.mem[f]
        <5>1. CASE obsNow' = [obsNow EXCEPT !.mem.scenes = TRUE, !.dialled = TRUE]
          BY <5>1
        <5>2. CASE obsNow' = [obsNow EXCEPT !.dialled = TRUE]
          BY <5>2
        <5> QED
          BY <4>1, <5>1, <5>2
      <4> QED
        BY <1>14, <3>2, <4>2 DEF SetupScenes
    <3> QED
      BY <3>1, <3>2
  <2>2. /\ readying' = [readying EXCEPT !.at = readying'.at] /\ readying'.at \in {"buffer", "failed"}
        /\ readying'.at # "failed" => Connected
    BY <1>14 DEF SetupScenes
  <2>3. /\ obsNow'.proc = obsNow.proc /\ obsNow'.by = obsNow.by /\ obsNow'.live = obsNow.live
        /\ obsNow'.built = obsNow.built /\ obsNow'.buffer = obsNow.buffer
        /\ obsNow'.mem.profile = obsNow.mem.profile /\ obsNow'.mem.check = obsNow.mem.check
        /\ obsNow'.mem.ws = obsNow.mem.ws /\ obsNow'.mem.pw = obsNow.mem.pw
        /\ obsNow'.dialled => obsNow.dialled \/ obsNow.proc = "on"
    BY <2>1 DEF Connected, Answering
  <2>4. readying'.again = readying.again
        /\ (readying'.at = "buffer" => confPw = obsNow.mem.pw /\ obsNow.mem.ws /\ obsNow.proc # "off")
    BY <2>2 DEF Connected, Answering
  <2>5. ClosedWhileEdited' /\ AsksNothing' /\ MarkedWhileOff'
    BY <2>1, <2>2, <2>3, <2>4
  <2>6. InMemory' /\ ChoiceIsKept'
    BY <2>1, <2>3
  <2>7. OnePassword' /\ OnceMore'
    BY <2>1, <2>2, <2>3, <2>4
  <2> QED
    BY <2>5, <2>6, <2>7
<1>15. CASE SetupBuffer
  <2>1. /\ readying.at = "buffer" /\ UNCHANGED <<obsFiles, sentinel, paused, confPw, serverPw, putBack, choice>>
        /\ (obsNow.dialled /\ StartsBuffer) \/ NoBuffer
    BY <1>15 DEF SetupBuffer
  <2>2. /\ \A f \in {"proc", "by", "live", "built", "dialled"} : obsNow'[f] = obsNow[f]
        /\ \A f \in {"profile", "check", "ws", "pw"} : obsNow'.mem[f] = obsNow.mem[f]
        /\ obsNow'.buffer => obsNow.buffer \/ obsNow.dialled
    <3>1. CASE obsNow.dialled /\ StartsBuffer
      <4>1. obsNow' = [obsNow EXCEPT !.mem.rb = TRUE, !.buffer = @ \/ obsNow.built]
        BY <3>1 DEF StartsBuffer
      <4> QED
        BY <3>1, <4>1
    <3>2. CASE NoBuffer
      <4>1. PICK on \in BOOLEAN : obsNow' = [obsNow EXCEPT !.mem.rb = on]
        BY <3>2 DEF NoBuffer
      <4> QED
        BY <4>1
    <3> QED
      BY <2>1, <3>1, <3>2
  <2>3. /\ readying'.again = readying.again /\ readying'.at \in {"done", "restart"}
    BY <2>1 DEF StartsBuffer, NoBuffer
  <2>4. obsNow'.proc = obsNow.proc /\ obsNow'.by = obsNow.by /\ obsNow'.live = obsNow.live
        /\ obsNow'.built = obsNow.built /\ obsNow'.dialled = obsNow.dialled
        /\ obsNow'.mem.profile = obsNow.mem.profile /\ obsNow'.mem.check = obsNow.mem.check
        /\ obsNow'.mem.ws = obsNow.mem.ws /\ obsNow'.mem.pw = obsNow.mem.pw
    BY <2>2
  <2>5. ClosedWhileEdited' /\ AsksNothing' /\ MarkedWhileOff'
    BY <2>1, <2>2, <2>3, <2>4
  <2>6. InMemory' /\ ChoiceIsKept'
    BY <2>1, <2>4
  <2>7. OnePassword' /\ OnceMore'
    BY <2>1, <2>3, <2>4
  <2> QED
    BY <2>5, <2>6, <2>7
<1>16. CASE RestartOBS
  <2>1. /\ readying.at = "restart" /\ UNCHANGED <<paused, confPw, serverPw, putBack, choice>>
    BY <1>16 DEF RestartOBS
  <2>2. CASE UNCHANGED <<obsNow, obsFiles, sentinel>> /\ readying'.at = "done" /\ readying'.again = readying.again
    BY <2>1, <2>2
  <2>3. CASE /\ readying' = [NoJob EXCEPT !.at = "look", !.by = "panel", !.again = TRUE]
             /\ managed /\ obsNow.proc = "off" /\ UNCHANGED <<obsNow, obsFiles, sentinel>>
    BY <2>1, <2>3 DEF NoJob
  <2>4. CASE /\ readying' = [NoJob EXCEPT !.at = "look", !.by = "panel", !.again = TRUE]
             /\ managed /\ obsNow.proc # "off" /\ CloseOBS
    <3>1. obsNow' = NotOpen /\ obsFiles' = obsNow.mem /\ ~sentinel'
      BY <2>4 DEF CloseOBS
    <3> QED
      BY <2>1, <2>4, <3>1 DEF NotOpen, New, NoJob
  <2> QED
    BY <1>16, <2>1, <2>2, <2>3, <2>4 DEF RestartOBS
<1>17. CASE EndJob
  BY <1>17 DEF EndJob, NoJob
<1>18. CASE ResumeReads
  BY <1>18 DEF ResumeReads
<1>19. CASE ResumeWrites
  BY <1>19 DEF ResumeWrites
<1>20. CASE ResumeEnds
  BY <1>20 DEF ResumeEnds
<1>21. CASE OpenByHand
  <2>1. /\ UNCHANGED <<paused, confPw, serverPw, readying, putBack, choice>> /\ ~Editing
        /\ obsNow.proc = "off" /\ OpenOBS("people", FALSE)
    BY <1>21 DEF OpenByHand
  <2>2. /\ obsNow'.proc # "off" /\ obsNow'.by = "people" /\ obsNow'.mem = obsFiles' /\ obsFiles'.profile
        /\ \A f \in {"check", "ws", "pw", "rb", "scenes"} : obsFiles'[f] = obsFiles[f]
    BY <2>1, Opened
  <2>3. obsFiles'.check = obsFiles.check /\ obsFiles'.ws = obsFiles.ws /\ obsFiles'.pw = obsFiles.pw
    BY <2>2
  <2>4. ClosedWhileEdited' /\ AsksNothing' /\ InMemory' /\ OnceMore'
    BY <2>1, <2>2, <2>3 DEF Editing
  <2>5. OnePassword' /\ MarkedWhileOff' /\ ChoiceIsKept'
    BY <2>1, <2>2, <2>3 DEF Editing
  <2> QED
    BY <2>4, <2>5
<1>22. CASE CloseByHand
  BY <1>22 DEF CloseByHand, CloseOBS, NotOpen, New
<1>23. CASE AnswerQuestion
  BY <1>23 DEF AnswerQuestion
<1>24. CASE ChangeCheck
  BY <1>24 DEF ChangeCheck
<1>25. CASE StartStream
  BY <1>25 DEF StartStream
<1>26. CASE OBSCrash
  BY <1>26 DEF OBSCrash, NotOpen, New
<1>27. CASE PowerCut
  BY <1>27 DEF PowerCut, NotOpen, New, NoJob
<1> QED
  BY <1>1, <1>2, <1>3, <1>4, <1>5, <1>6, <1>7, <1>8, <1>9, <1>10, <1>11, <1>12, <1>13, <1>14, <1>15,
      <1>16, <1>17, <1>18, <1>19, <1>20, <1>21, <1>22, <1>23, <1>24, <1>25, <1>26, <1>27
          DEF ReadyNext, GetPrepared, Setup, Resume, World

LEMMA RacedStays == raced \in BOOLEAN /\ [ReadyNext]_obsReady => (raced => raced')
BY DEF ReadyNext, GetPrepared, Setup, Resume, World, obsReady, BeginJob, FindOpen, CarryOn, FindClosed,
       StartsBuffer, NoBuffer, EnsureWebsocket, SyncConfigPassword, EnsureReplayBuffer, PauseMark, PauseUpdateCheck,
           ClearCrashSentinel,
       LaunchOBS, Wait, CopyPassword, SetupScenes, SetupBuffer, RestartOBS, EndJob, ResumeReads,
           ResumeWrites,
       ResumeEnds, OpenByHand, CloseByHand, AnswerQuestion, ChangeCheck, StartStream, OBSCrash, PowerCut

LEMMA ReadyNextInv == ReadyInv /\ [ReadyNext]_obsReady => ReadyInv'
<1> SUFFICES ASSUME ReadyInv, [ReadyNext]_obsReady PROVE ReadyInv'
  OBVIOUS
<1>1. ReadyTyped' /\ (raced => raced')
  BY ReadyNextTyped, RacedStays DEF ReadyInv, ReadyTyped
<1>2. ASSUME ~raced' PROVE Unraced'
  <2>1. ~raced /\ Unraced
    BY <1>1, <1>2 DEF ReadyInv
  <2>2. CASE ReadyNext
    BY <1>2, <2>1, <2>2, ReadyNextUnraced DEF ReadyInv
  <2>3. CASE UNCHANGED obsReady
    BY <2>1, <2>3 DEF obsReady, passwords, Unraced, ClosedWhileEdited, AsksNothing, InMemory,
        OnePassword, OnceMore,
                      MarkedWhileOff, ChoiceIsKept, ComesBack
  <2> QED
    BY <2>2, <2>3
<1> QED
  BY <1>1, <1>2 DEF ReadyInv

\* Only two steps end a job well.
LEMMA NotYetDone == ASSUME ReadyTyped, ReadyNext, readying.at # "done", readying'.at = "done"
                    PROVE  SetupBuffer \/ RestartOBS
<1> USE DEF ReadyTyped, Jobs
<1>1. CASE UNCHANGED readying
  BY <1>1
<1>2. ASSUME NEW ok, Prepared(ok) PROVE FALSE
  BY <1>2 DEF Prepared
<1>3. ASSUME NEW step, StepsTo(step), step # "done" PROVE FALSE
  BY <1>3 DEF StepsTo
<1>4. CASE readying' = NoJob \/ \E who : readying' = [NoJob EXCEPT !.at = "look", !.by = who]
  <2>1. NoJob.at = "no" /\ \A who : [NoJob EXCEPT !.at = "look", !.by = who].at = "look"
    BY DEF NoJob
  <2> QED
    BY <1>4, <2>1
<1> HIDE DEF ReadyTyped, Jobs
<1>5. CASE BeginJob \/ FindOpen \/ CarryOn \/ FindClosed \/ EnsureWebsocket \/ SyncConfigPassword
  BY <1>2, <1>3, <1>4, <1>5 DEF BeginJob, FindOpen, CarryOn, FindClosed, EnsureWebsocket, SyncConfigPassword
<1>6. CASE EnsureReplayBuffer \/ PauseMark \/ PauseUpdateCheck \/ ClearCrashSentinel \/ LaunchOBS \/ Wait
  BY <1>2, <1>3, <1>6
      DEF EnsureReplayBuffer, PauseMark, PauseUpdateCheck, ClearCrashSentinel, LaunchOBS, Wait
<1>7. CASE CopyPassword \/ SetupScenes \/ EndJob
  BY <1>3, <1>4, <1>7 DEF CopyPassword, SetupScenes, EndJob
<1>8. CASE Resume
  BY <1>1, <1>8 DEF Resume, ResumeReads, ResumeWrites, ResumeEnds
<1>9. CASE World
  BY <1>1, <1>4, <1>9 DEF World, OpenByHand, CloseByHand, AnswerQuestion, ChangeCheck, StartStream,
      OBSCrash, PowerCut
<1> QED
  BY <1>5, <1>6, <1>7, <1>8, <1>9 DEF ReadyNext, GetPrepared, Setup

LEMMA StepEndsReady == ReadyInv /\ ReadyInv' /\ [ReadyNext]_obsReady => EndsReady /\ ChoiceIsKept'
<1> SUFFICES ASSUME ReadyInv, ReadyInv', [ReadyNext]_obsReady PROVE EndsReady /\ ChoiceIsKept'
  OBVIOUS
<1>1. ChoiceIsKept'
  BY DEF ReadyInv, Unraced, ChoiceIsKept
<1>2. ASSUME ~raced PROVE obsNow'.by = "us" => obsNow'.proc # "asks"
  <2>1. CASE ~raced'
    BY <2>1 DEF ReadyInv, Unraced, AsksNothing
  <2>2. CASE raced'
    <3>1. BeginJob \/ OpenByHand
      BY <1>2, <2>2
          DEF ReadyNext, GetPrepared, Setup, Resume, World, obsReady, FindOpen, CarryOn, FindClosed,
       EnsureWebsocket, SyncConfigPassword, EnsureReplayBuffer, PauseMark, PauseUpdateCheck,
           ClearCrashSentinel,
       LaunchOBS, Wait, CopyPassword, SetupScenes, SetupBuffer, RestartOBS, EndJob, ResumeReads,
           ResumeWrites,
       ResumeEnds, CloseByHand, AnswerQuestion, ChangeCheck, StartStream, OBSCrash, PowerCut
    <3>2. CASE BeginJob
      BY <1>2, <3>2 DEF BeginJob, ReadyInv, Unraced, AsksNothing
    <3>3. CASE OpenByHand
      <4>1. OpenOBS("people", FALSE) /\ FALSE \in BOOLEAN /\ ReadyTyped
        BY <3>3 DEF OpenByHand, ReadyInv
      <4>2. obsNow'.by = "people"
        BY <4>1, Opened
      <4> QED
        BY <4>2
    <3> QED
      BY <3>1, <3>2, <3>3
  <2> QED
    BY <2>1, <2>2 DEF ReadyInv, ReadyTyped
<1>3. ASSUME ~raced, readying.at # "done", readying'.at = "done", ~readying'.hampered
      PROVE  (managed => obsNow'.buffer \/ obsNow'.live) /\ serverPw' = obsFiles'.pw
  <2>0. Unraced /\ ReadyTyped /\ ReadyNext
    BY <1>3 DEF ReadyInv, obsReady
  <2>1. CASE SetupBuffer
    <3>1. ~NoBuffer
      BY <1>3, <2>0 DEF NoBuffer, ReadyTyped, Jobs
    <3>2. /\ obsNow.dialled /\ StartsBuffer /\ UNCHANGED <<obsFiles, serverPw>> /\ readying.at = "buffer"
      BY <2>1, <3>1 DEF SetupBuffer, passwords
    <3>3. obsNow.buffer \/ obsNow.built \/ readying.again
      BY <1>3, <2>0, <3>2 DEF StartsBuffer, StepsTo, ReadyTyped, Jobs
    <3>4. obsNow'.buffer = (obsNow.buffer \/ obsNow.built)
      BY <2>0, <3>2 DEF StartsBuffer, ReadyTyped, Running, Settings
    <3>5. readying.again => obsNow.built
      BY <2>0, <3>2 DEF Unraced, OnceMore, AsksNothing
    <3>6. serverPw = confPw /\ confPw = obsFiles.pw
      BY <2>0, <3>2 DEF Unraced, OnePassword
    <3> QED
      BY <3>2, <3>3, <3>4, <3>5, <3>6
  <2>2. CASE RestartOBS
    <3>1. /\ ~managed \/ obsNow.live \/ obsNow.buffer
          /\ UNCHANGED <<obsNow, obsFiles, serverPw>> /\ readying.at = "restart"
      BY <1>3, <2>0, <2>2 DEF RestartOBS, StepsTo, NoJob, ReadyTyped, Jobs, passwords
    <3>2. serverPw = confPw /\ obsFiles.pw = confPw
      BY <2>0, <3>1 DEF Unraced, OnePassword
    <3> QED
      BY <3>1, <3>2
  <2> QED
    BY <1>3, <2>0, <2>1, <2>2, NotYetDone
<1> QED
  BY <1>1, <1>2, <1>3 DEF EndsReady

(* Getting OBS ready (prep.go, setup.go), for any presses, crashes, power cuts and       *)
(* refusals: what the code opens asks nothing, a job that ends well leaves the server with  *)
(* the password and, on an OBS that is managed, a buffer that runs, unless OBS went, refused  *)
(* it or would not close; and the club's choice about OBS's update check comes back.  All of   *)
(* it unless OBS is opened, or a job begun, in the middle of an edit.                      *)
THEOREM ReadyAlwaysInTheEnd == ReadySpec => ReadyInTheEnd
<1>1. ReadyInit => ReadyInv
  BY ReadyInitInv
<1>2. ReadyInv /\ [ReadyNext]_obsReady => ReadyInv'
  BY ReadyNextInv
<1>3. ReadyInv /\ ReadyInv' /\ [ReadyNext]_obsReady => [EndsReady /\ ChoiceIsKept']_obsReady
  BY StepEndsReady
<1> QED
  BY <1>1, <1>2, <1>3, PTL DEF ReadySpec, ReadyInTheEnd
==============================================================================
