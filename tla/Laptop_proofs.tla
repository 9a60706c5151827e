---------------------------- MODULE Laptop_proofs ----------------------------
(***************************************************************************)
(* What the threads of one process may not do to one another, for any number  *)
(* of them: Asker's questions, Lookups' builds, the match state of Store with   *)
(* its crashes, MatchDay's stops, Pairing's requests and WidgetFeed's polls.     *)
(* They share nothing, and are proved one after the other.                     *)
(***************************************************************************)
EXTENDS Asker, ClubScreen, Lookups, MatchDay, Pairing, Store, WidgetFeed, TLAPS

-----------------------------------------------------------------------------
(* Asker: until the window goes, an answer that is in the channel was accepted *)
(* for the question that is out, which is up no more; and one that is up has    *)
(* no answer yet.                                                            *)

AskerTyped == /\ nextID \in 0..MaxQuestions /\ current \in 0..MaxQuestions
              /\ gone \in BOOLEAN /\ slot \in {"yes", "no", "none"}
              /\ accepted \in [Ids -> {"yes", "no", "none"}]
              /\ got \in [Ids -> {"yes", "no", "none", Default}]

OneAnswer ==
    ~gone => /\ \A i \in Ids : i > nextID => got[i] = "none"
             /\ current # 0 => current = nextID /\ slot = "none" /\ got[nextID] = "none"
             /\ slot # "none" => nextID \in Ids /\ slot = accepted[nextID]

AskerInv == AskerTyped /\ OneAnswer /\ AnswersAreKept

LEMMA AskerInitInv == AskerInit => AskerInv
<1> SUFFICES ASSUME AskerInit PROVE AskerInv
  OBVIOUS
<1>1. /\ nextID = 0 /\ current = 0 /\ slot = "none" /\ gone = FALSE
      /\ accepted = [i \in Ids |-> "none"] /\ got = [i \in Ids |-> "none"]
  BY DEF AskerInit
<1>2. AskerTyped
  <2>1. 0 \in 0..MaxQuestions
    BY AskerAssumption
  <2>2. accepted \in [Ids -> {"yes", "no", "none"}] /\ got \in [Ids -> {"yes", "no", "none", Default}]
    BY <1>1
  <2> QED
    BY <1>1, <2>1, <2>2 DEF AskerTyped
<1> QED
  BY <1>1, <1>2 DEF AskerInv, OneAnswer, AnswersAreKept

LEMMA AskerNextInv == AskerInv /\ [AskerNext]_asker => AskerInv'
<1> SUFFICES ASSUME AskerInv, [AskerNext]_asker PROVE AskerInv'
  OBVIOUS
<1> USE AskerAssumption DEF AskerInv, AskerTyped, Ids, Default
<1>1. ASSUME NEW p \in Asking, Queue(p) \/ NobodyThere(p) PROVE AskerInv'
  BY <1>1 DEF Queue, NobodyThere, OneAnswer, AnswersAreKept
<1>2. ASSUME NEW p \in Asking, PutUp(p) PROVE AskerInv'
  BY <1>2 DEF PutUp, OneAnswer, AnswersAreKept
<1>3. ASSUME NEW p \in Asking, Wakes(p) PROVE AskerInv'
  <2>1. CASE gone
    BY <1>3, <2>1 DEF Wakes, OneAnswer, AnswersAreKept
  <2>2. CASE ~gone
    <3>1. /\ slot # "none" /\ got' = [got EXCEPT ![nextID] = slot] /\ slot' = "none"
          /\ UNCHANGED <<nextID, current, gone, accepted>>
      BY <1>3, <2>2 DEF Wakes
    <3> QED
      BY <2>2, <3>1 DEF OneAnswer, AnswersAreKept
  <2> QED
    BY <2>1, <2>2
<1>4. ASSUME NEW p \in Asking, TakeDown(p) PROVE AskerInv'
  BY <1>4 DEF TakeDown, OneAnswer, AnswersAreKept
<1>5. ASSUME NEW g \in Pages, NEW a \in {"yes", "no"}, Answer(g, a) PROVE AskerInv'
  BY <1>5 DEF Answer, Showing, AfterAnswer, OneAnswer, AnswersAreKept
<1>6. CASE WindowCloses \/ (\E g \in Pages : Look(g)) \/ UNCHANGED asker
  BY <1>6 DEF WindowCloses, Look, asker, OneAnswer, AnswersAreKept
<1> QED
  BY <1>1, <1>2, <1>3, <1>4, <1>5, <1>6 DEF AskerNext

(* Until the window is closed, a question returns the one answer that somebody was told was taken *)
(* for it, however late each page sees which question is up.                                     *)
THEOREM AnswersAlwaysKept == AskerSpec => []AnswersAreKept
<1>1. AskerInv => AnswersAreKept
  BY DEF AskerInv
<1> QED
  BY AskerInitInv, AskerNextInv, <1>1, PTL DEF AskerSpec

-----------------------------------------------------------------------------
(* Lookups: each end of a build takes its flag down, and what is on the disk   *)
(* has none.                                                                 *)

BuildOf == [of : {"none", "season", "disk", "h2h", "career"}, day : Nat,
          away : Clubs \cup {"none"}, some : BOOLEAN]
Result == [day : Nat, away : Clubs \cup {"none"}, some : BOOLEAN, building : BOOLEAN]

LookupsTyped == /\ day \in Nat /\ away \in Clubs
                /\ season \in Result /\ disk \in Result /\ h2h \in Result /\ career \in Result
                /\ job \in [Jobs -> BuildOf]

LookupsInv == LookupsTyped /\ ~disk.building /\ NobodyWaitsInVain

\* A build that begins has a place of its own.
LEMMA BeginAdds ==
  ASSUME LookupsTyped, NEW of \in {"season", "h2h", "career"}, Begin(of)
  PROVE  /\ job' \in [Jobs -> BuildOf] /\ (\E j \in Jobs : job'[j].of = of)
         /\ \A j \in Jobs : job[j].of # "none" => job'[j] = job[j]
<1>1. PICK j \in FreeJobs :
        job' = [job EXCEPT ![j] = [of |-> of, day |-> day, away |-> away, some |-> FALSE]]
  BY DEF Begin
<1>2. j \in Jobs /\ job[j].of = "none"
  BY <1>1 DEF FreeJobs, NoJob
<1> QED
  BY <1>1, <1>2 DEF LookupsTyped, BuildOf

LEMMA JobEndsRemoves ==
  ASSUME LookupsTyped, NEW j \in Jobs, JobEnds(j)
  PROVE  /\ job' \in [Jobs -> BuildOf]
         /\ \A k \in Jobs \ {j} : job'[k] = job[k]
  BY DEF LookupsTyped, BuildOf, JobEnds, NoJob

LEMMA BuiltIsTyped ==
  ASSUME LookupsTyped, NEW j \in Jobs
  PROVE  /\ Built(j) \in Result /\ ~Built(j).building
         /\ [Built(j) EXCEPT !.some = TRUE] \in Result
         /\ ~[Built(j) EXCEPT !.some = TRUE].building
  BY DEF LookupsTyped, BuildOf, Result, Built

LEMMA LookupsInitInv == LookupsInit => LookupsInv
<1> SUFFICES ASSUME LookupsInit PROVE LookupsInv
  OBVIOUS
<1>1. Never \in Result /\ ~Never.building
  BY DEF Never, Result
<1>2. NoJob \in BuildOf
  BY DEF NoJob, BuildOf
<1> QED
  BY <1>1, <1>2 DEF LookupsInit, LookupsInv, LookupsTyped, NobodyWaitsInVain

\* Beginnings.
LEMMA AsksKeep ==
  ASSUME LookupsInv, NEW force \in BOOLEAN, AskSeason(force) \/ AskH2H(force) \/ AskCareer
  PROVE  LookupsInv'
<1> USE DEF LookupsInv
<1>1. CASE AskSeason(force)
  <2>1. UNCHANGED <<day, away, h2h, career, disk>>
    BY <1>1 DEF AskSeason
  <2>2. CASE season' = disk /\ UNCHANGED job
    BY <2>1, <2>2 DEF LookupsTyped, NobodyWaitsInVain, AtWork
  <2>3. CASE season' = [season EXCEPT !.building = TRUE] /\ Begin("season")
    <3>1. season' \in Result
      BY <2>3 DEF LookupsTyped, Result
    <3> QED
      BY <2>1, <2>3, <3>1, BeginAdds DEF LookupsTyped, NobodyWaitsInVain, AtWork
  <2> QED
    BY <1>1, <2>2, <2>3 DEF AskSeason
<1>2. CASE AskH2H(force)
  <2> DEFINE known == IF force THEN [Never EXCEPT !.building = h2h.building] ELSE h2h
  <2>1. UNCHANGED <<day, away, season, career, disk>>
    BY <1>2 DEF AskH2H
  <2>2. known \in Result /\ known.building = h2h.building
    BY DEF LookupsTyped, Result, Never
  <2>3. \/ known.building /\ h2h' = known /\ UNCHANGED job
        \/ h2h' = [known EXCEPT !.building = TRUE] /\ Begin("h2h")
    BY <1>2 DEF AskH2H
  <2> HIDE DEF known
  <2>4. CASE known.building /\ h2h' = known /\ UNCHANGED job
    BY <2>1, <2>2, <2>4 DEF LookupsTyped, NobodyWaitsInVain, AtWork
  <2>5. CASE h2h' = [known EXCEPT !.building = TRUE] /\ Begin("h2h")
    <3>1. h2h' \in Result
      BY <2>2, <2>5 DEF Result
    <3> QED
      BY <2>1, <2>5, <3>1, BeginAdds DEF LookupsTyped, NobodyWaitsInVain, AtWork
  <2> QED
    BY <2>3, <2>4, <2>5
<1>3. CASE AskCareer
  <2>1. /\ UNCHANGED <<day, away, season, h2h, disk>> /\ Begin("career")
        /\ career' = [career EXCEPT !.building = TRUE]
    BY <1>3 DEF AskCareer
  <2>2. career' \in Result
    BY <2>1 DEF LookupsTyped, Result
  <2> QED
    BY <2>1, <2>2, BeginAdds DEF LookupsTyped, NobodyWaitsInVain, AtWork
<1> QED
  BY <1>1, <1>2, <1>3

\* Ends.
LEMMA EndsKeep ==
  ASSUME LookupsInv, NEW j \in Jobs,
         \/ SeasonBuilt(j) \/ SeasonSaved(j) \/ SeasonCrashes(j) \/ H2HBuilt(j) \/ CareerBuilt(j)
  PROVE  LookupsInv'
<1> USE DEF LookupsInv
<1>1. CASE SeasonBuilt(j)
  <2>1. /\ job[j].of = "season" /\ UNCHANGED <<day, away, h2h, career, disk>>
        /\ season' \in Result /\ ~season'.building
        /\ job' = [job EXCEPT ![j] = [@ EXCEPT !.of = "disk", !.some = season'.some]]
    BY <1>1, BuiltIsTyped DEF SeasonBuilt
  <2>2. /\ job' \in [Jobs -> BuildOf] /\ \A k \in Jobs \ {j} : job'[k] = job[k]
    BY <2>1, ZenonT(40) DEF LookupsTyped, BuildOf, Result
  <2> QED
    BY <2>1, <2>2 DEF LookupsTyped, NobodyWaitsInVain, AtWork
<1>2. CASE SeasonSaved(j)
  <2>1. /\ job[j].of = "disk" /\ disk' = Built(j) /\ JobEnds(j)
        /\ UNCHANGED <<day, away, season, h2h, career>>
    BY <1>2 DEF SeasonSaved, memory
  <2> QED
    BY <2>1, JobEndsRemoves, BuiltIsTyped DEF LookupsTyped, NobodyWaitsInVain, AtWork
<1>3. CASE SeasonCrashes(j)
  <2>1. /\ job[j].of = "season" /\ season' = [season EXCEPT !.building = FALSE] /\ JobEnds(j)
        /\ UNCHANGED <<day, away, h2h, career, disk>>
    BY <1>3 DEF SeasonCrashes, AfterCrash
  <2>2. season' \in Result /\ ~season'.building
    BY <2>1 DEF LookupsTyped, Result
  <2> QED
    BY <2>1, <2>2, JobEndsRemoves DEF LookupsTyped, NobodyWaitsInVain, AtWork
<1>4. CASE H2HBuilt(j)
  <2>1. /\ job[j].of = "h2h" /\ h2h' = Built(j) /\ JobEnds(j)
        /\ UNCHANGED <<day, away, season, career, disk>>
    BY <1>4 DEF H2HBuilt
  <2> QED
    BY <2>1, JobEndsRemoves, BuiltIsTyped DEF LookupsTyped, NobodyWaitsInVain, AtWork
<1>5. CASE CareerBuilt(j)
  <2>1. /\ job[j].of = "career" /\ career' = Built(j) /\ JobEnds(j)
        /\ UNCHANGED <<day, away, season, h2h, disk>>
    BY <1>5 DEF CareerBuilt
  <2> QED
    BY <2>1, JobEndsRemoves, BuiltIsTyped DEF LookupsTyped, NobodyWaitsInVain, AtWork
<1> QED
  BY <1>1, <1>2, <1>3, <1>4, <1>5

LEMMA LookupsNextInv == LookupsInv /\ [LookupsNext]_lookups => LookupsInv'
<1> SUFFICES ASSUME LookupsInv, [LookupsNext]_lookups PROVE LookupsInv'
  OBVIOUS
<1>1. CASE ResetStuck
  <2>1. /\ season' = [season EXCEPT !.building = FALSE]
        /\ UNCHANGED <<day, away, h2h, career, disk, job>>
    BY <1>1 DEF ResetStuck
  <2>2. season' \in Result /\ ~season'.building
    BY <2>1 DEF LookupsInv, LookupsTyped, Result
  <2> QED
    BY <2>1, <2>2 DEF LookupsInv, LookupsTyped, NobodyWaitsInVain, AtWork
<1>2. CASE Edit \/ NextDay \/ UNCHANGED lookups
  <2>1. UNCHANGED <<season, h2h, career, disk, job>> /\ day' \in Nat /\ away' \in Clubs
    BY <1>2 DEF Edit, NextDay, lookups, memory, LookupsInv, LookupsTyped
  <2> QED
    BY <2>1 DEF LookupsInv, LookupsTyped, NobodyWaitsInVain, AtWork
<1>3. CASE ServerRestart
  <2>1. /\ season' = Never /\ h2h' = Never /\ career' = Never
        /\ job' = [j \in Jobs |-> NoJob] /\ UNCHANGED <<day, away, disk>>
    BY <1>3 DEF ServerRestart
  <2>2. Never \in Result /\ ~Never.building /\ NoJob \in BuildOf
    BY DEF Never, NoJob, Result, BuildOf
  <2> QED
    BY <2>1, <2>2 DEF LookupsInv, LookupsTyped, NobodyWaitsInVain
<1> QED
  BY <1>1, <1>2, <1>3, AsksKeep, EndsKeep DEF LookupsNext

(* Whoever is told that a build is under way waits for one that is: no crash of a build, restart, *)
(* reset by the watchdog or change of opposition leaves a flag with nobody to take it down.       *)
THEOREM NobodyEverWaitsInVain == LookupsSpec => []NobodyWaitsInVain
<1>1. LookupsInv => NobodyWaitsInVain
  BY DEF LookupsInv
<1> QED
  BY LookupsInitInv, LookupsNextInv, <1>1, PTL DEF LookupsSpec

-----------------------------------------------------------------------------
(* Store: a writer with the lock has the newest state in hand from the moment  *)
(* it has loaded it, because the cache, where it is as new as the file, is the  *)
(* file.  The file's age in stamps tells old copies from new ones.             *)

Contents == Values \cup {"default", Config}
States == [Fields -> Contents]
Stages == {"idle", "stat", "look", "read", "loaded", "renamed"}

StoreTyped ==
    /\ up \in BOOLEAN /\ stamp \in Nat /\ stamp >= 1
    /\ stateFile \in States
    /\ cache \in [stamp : Nat, state : States]
    /\ at \in [Threads -> Stages] /\ seen \in [Threads -> Nat] /\ mine \in [Threads -> States]
    /\ edit \in [Writers -> [field : Fields \cup {"none"}, value : Values \cup {"none"}]]
    /\ lastEdit \in [Fields -> Contents \cup {"none"}]

\* No copy with the file's stamp differs from the file.
CacheIsRight ==
    /\ cache.stamp <= stamp
    /\ cache.stamp = stamp => cache.state = stateFile

CopiesAreRight ==
    \A t \in Threads :
        /\ at[t] \in {"look", "read"} => seen[t] <= stamp
        /\ at[t] = "read" /\ seen[t] = stamp => mine[t] = stateFile

\* Whoever writes has the lock, and what it has in hand is the file.
WritersAreRight ==
    \A t \in Writers :
        at[t] # "idle" => /\ lock = t /\ edit[t].field \in Fields /\ edit[t].value \in Values
                          /\ at[t] \in {"look", "read"} => seen[t] = stamp
                          /\ at[t] \in {"loaded", "renamed"} => mine[t] = stateFile

AllIdle == ~up => (\A t \in Threads : at[t] = "idle") /\ cache.stamp = 0

StoreInv == /\ StoreTyped /\ CacheIsRight /\ CopiesAreRight /\ WritersAreRight /\ AllIdle
            /\ EditsAreKept

LEMMA NothingIsTyped ==
    /\ Nothing \in States /\ NoCache \in [stamp : Nat, state : States] /\ NoCache.stamp = 0
    /\ NoEdit \in [field : Fields \cup {"none"}, value : Values \cup {"none"}]
  BY DEF Nothing, NoCache, NoEdit, States, Contents

LEMMA StoreInitInv == StoreInit => StoreInv
<1> SUFFICES ASSUME StoreInit PROVE StoreInv
  OBVIOUS
<1>1. StoreTyped
  <2>1. /\ up = FALSE /\ stateFile = Nothing /\ stamp = 1 /\ cache = NoCache
        /\ at = [t \in Threads |-> "idle"] /\ seen = [t \in Threads |-> 0]
        /\ mine = [t \in Threads |-> Nothing] /\ edit = [t \in Writers |-> NoEdit]
        /\ lastEdit = [f \in Fields |-> "none"]
    BY DEF StoreInit
  <2>2. /\ at \in [Threads -> Stages] /\ seen \in [Threads -> Nat]
        /\ lastEdit \in [Fields -> Contents \cup {"none"}]
    BY <2>1 DEF Stages
  <2>3. /\ mine \in [Threads -> States]
        /\ edit \in [Writers -> [field : Fields \cup {"none"}, value : Values \cup {"none"}]]
    BY <2>1, NothingIsTyped
  <2>4. up \in BOOLEAN
    BY <2>1
  <2>5. stamp \in Nat /\ stamp >= 1
    <3>1. stamp = 1
      BY <2>1
    <3> QED
      BY <3>1
  <2>6. stateFile \in States
    BY <2>1, NothingIsTyped
  <2>7. cache \in [stamp : Nat, state : States]
    BY <2>1, NothingIsTyped
  <2> QED
    BY <2>2, <2>3, <2>4, <2>5, <2>6, <2>7 DEF StoreTyped
<1>2. CacheIsRight /\ CopiesAreRight /\ WritersAreRight /\ AllIdle
  BY NothingIsTyped DEF StoreInit, CacheIsRight, CopiesAreRight, WritersAreRight, AllIdle, Threads
<1>3. EditsAreKept
  BY DEF StoreInit, EditsAreKept
<1> QED
  BY <1>1, <1>2, <1>3 DEF StoreInv

\* The server is down, or starts or ends: nobody has anything in hand.
LEMMA OutageKeeps == ASSUME StoreInv, NewDay \/ Start \/ Stop \/ Crash PROVE StoreInv'
<1> USE DEF StoreInv
<1>1. CASE NewDay
  <2>1. /\ ~up /\ stamp' = stamp + 1
        /\ stateFile' = [f \in Fields |-> IF f \in Mapped THEN Config ELSE stateFile[f]]
        /\ lastEdit' = [f \in Fields |-> IF f \in Mapped THEN "none" ELSE lastEdit[f]]
        /\ UNCHANGED <<up, cache, lock, at, seen, mine, edit>>
    BY <1>1 DEF NewDay, thread
  <2>2. (\A t \in Threads : at[t] = "idle") /\ cache.stamp = 0
    BY <2>1 DEF AllIdle
  <2>3. stateFile' \in States /\ lastEdit' \in [Fields -> Contents \cup {"none"}]
    BY <2>1 DEF StoreTyped, States, Contents
  <2>4. StoreTyped'
    BY <2>1, <2>3 DEF StoreTyped
  <2>5. CacheIsRight' /\ CopiesAreRight' /\ WritersAreRight' /\ AllIdle'
    BY <2>1, <2>2 DEF CacheIsRight, CopiesAreRight, WritersAreRight, AllIdle, StoreTyped, Threads
  <2>6. EditsAreKept'
    BY <2>1 DEF EditsAreKept
  <2> QED
    BY <2>4, <2>5, <2>6
<1>2. CASE Start
  <2>1. /\ ~up /\ up' /\ up' \in BOOLEAN /\ stateFile' = Seeded /\ stamp' \in {stamp, stamp + 1}
        /\ cache' = [stamp |-> stamp', state |-> Seeded]
        /\ UNCHANGED <<lock, at, seen, mine, edit, lastEdit>>
    BY <1>2 DEF Start, thread
  <2>2. \A t \in Threads : at[t] = "idle"
    BY <2>1 DEF AllIdle
  <2>3. Seeded \in States
    BY DEF Seeded, StoreTyped, States, Contents
  <2>4. stamp' \in Nat /\ stamp' >= 1
    BY <2>1 DEF StoreTyped
  <2>5. StoreTyped'
    BY <2>1, <2>3, <2>4 DEF StoreTyped
  <2>6. CacheIsRight' /\ CopiesAreRight' /\ WritersAreRight' /\ AllIdle'
    BY <2>1, <2>2, <2>4 DEF CacheIsRight, CopiesAreRight, WritersAreRight, AllIdle, Threads
  <2>7. EditsAreKept'
    BY <2>1 DEF EditsAreKept, Seeded, Blank
  <2> QED
    BY <2>5, <2>6, <2>7
<1>3. CASE Stop \/ Crash
  <2>1. /\ ~up' /\ up' \in BOOLEAN /\ cache' = NoCache
        /\ at' = [t \in Threads |-> "idle"] /\ seen' = [t \in Threads |-> 0]
        /\ mine' = [t \in Threads |-> Nothing] /\ edit' = [t \in Writers |-> NoEdit]
        /\ UNCHANGED <<stateFile, stamp, lastEdit>>
    BY <1>3 DEF Stop, Crash, Ends, Idle
  <2>2. StoreTyped'
    BY <2>1, NothingIsTyped DEF StoreTyped, Stages
  <2>3. CacheIsRight' /\ CopiesAreRight' /\ WritersAreRight' /\ AllIdle'
    BY <2>1, NothingIsTyped
       DEF CacheIsRight, CopiesAreRight, WritersAreRight, AllIdle, StoreTyped, Threads
  <2>4. EditsAreKept'
    BY <2>1 DEF EditsAreKept
  <2> QED
    BY <2>2, <2>3, <2>4
<1> QED
  BY <1>1, <1>2, <1>3

LEMMA MovesMoves ==
  ASSUME StoreTyped, NEW t \in Threads, NEW old \in Stages, NEW to \in Stages, Moves(t, old, to)
  PROVE  /\ up /\ at[t] = old /\ at' \in [Threads -> Stages] /\ at'[t] = to
         /\ \A q \in Threads \ {t} : at'[q] = at[q]
  BY DEF StoreTyped, Moves

\* A load, of a reader or of a writer that has the lock.
LEMMA LoadKeeps ==
  ASSUME StoreInv, NEW t \in Threads, Stat(t) \/ UseCache(t) \/ Read(t) \/ KeepRead(t)
  PROVE  StoreInv'
<1> USE DEF StoreInv
<1>1. CASE Stat(t)
  <2>1. /\ Moves(t, "stat", "look") /\ seen' = [seen EXCEPT ![t] = stamp]
        /\ UNCHANGED <<up, stateFile, stamp, cache, lock, mine, edit, lastEdit>>
    BY <1>1 DEF Stat
  <2>2. /\ up /\ at[t] = "stat" /\ at' \in [Threads -> Stages] /\ at'[t] = "look"
        /\ \A q \in Threads \ {t} : at'[q] = at[q]
    BY <2>1, MovesMoves DEF Stages
  <2>3. StoreTyped'
    BY <2>1, <2>2 DEF StoreTyped
  <2>4. CacheIsRight' /\ AllIdle' /\ EditsAreKept'
    BY <2>1, <2>2 DEF CacheIsRight, AllIdle, EditsAreKept
  <2>5. CopiesAreRight' /\ WritersAreRight'
    BY <2>1, <2>2 DEF CopiesAreRight, WritersAreRight, StoreTyped, Threads
  <2> QED
    BY <2>3, <2>4, <2>5
<1>2. CASE UseCache(t)
  <2>1. /\ Moves(t, "look", "loaded") /\ cache.stamp = seen[t]
        /\ mine' = [mine EXCEPT ![t] = cache.state]
        /\ UNCHANGED <<up, stateFile, stamp, cache, lock, seen, edit, lastEdit>>
    BY <1>2 DEF UseCache, Cached
  <2>2. /\ up /\ at[t] = "look" /\ at' \in [Threads -> Stages] /\ at'[t] = "loaded"
        /\ \A q \in Threads \ {t} : at'[q] = at[q]
    BY <2>1, MovesMoves DEF Stages
  <2>3. StoreTyped'
    BY <2>1, <2>2 DEF StoreTyped
  <2>4. CacheIsRight' /\ AllIdle' /\ EditsAreKept'
    BY <2>1, <2>2 DEF CacheIsRight, AllIdle, EditsAreKept
  <2>5. CopiesAreRight' /\ WritersAreRight'
    BY <2>1, <2>2 DEF CopiesAreRight, WritersAreRight, CacheIsRight, StoreTyped, Threads
  <2> QED
    BY <2>3, <2>4, <2>5
<1>3. CASE Read(t)
  <2>1. /\ Moves(t, "look", "read") /\ mine' = [mine EXCEPT ![t] = stateFile]
        /\ UNCHANGED <<up, stateFile, stamp, cache, lock, seen, edit, lastEdit>>
    BY <1>3 DEF Read
  <2>2. /\ up /\ at[t] = "look" /\ at' \in [Threads -> Stages] /\ at'[t] = "read"
        /\ \A q \in Threads \ {t} : at'[q] = at[q]
    BY <2>1, MovesMoves DEF Stages
  <2>3. StoreTyped'
    BY <2>1, <2>2 DEF StoreTyped
  <2>4. CacheIsRight' /\ AllIdle' /\ EditsAreKept'
    BY <2>1, <2>2 DEF CacheIsRight, AllIdle, EditsAreKept
  <2>5. CopiesAreRight' /\ WritersAreRight'
    BY <2>1, <2>2 DEF CopiesAreRight, WritersAreRight, StoreTyped, Threads
  <2> QED
    BY <2>3, <2>4, <2>5
<1>4. CASE KeepRead(t)
  <2>1. /\ Moves(t, "read", "loaded") /\ cache' = [stamp |-> seen[t], state |-> mine[t]]
        /\ UNCHANGED <<up, stateFile, stamp, lock, seen, mine, edit, lastEdit>>
    BY <1>4 DEF KeepRead
  <2>2. /\ up /\ at[t] = "read" /\ at' \in [Threads -> Stages] /\ at'[t] = "loaded"
        /\ \A q \in Threads \ {t} : at'[q] = at[q]
    BY <2>1, MovesMoves DEF Stages
  <2>3. StoreTyped'
    BY <2>1, <2>2 DEF StoreTyped
  <2>4. CacheIsRight' /\ AllIdle' /\ EditsAreKept'
    BY <2>1, <2>2 DEF CacheIsRight, CopiesAreRight, AllIdle, EditsAreKept
  <2>5. CopiesAreRight' /\ WritersAreRight'
    BY <2>1, <2>2 DEF CopiesAreRight, WritersAreRight, StoreTyped, Threads
  <2> QED
    BY <2>3, <2>4, <2>5
<1> QED
  BY <1>1, <1>2, <1>3, <1>4

\* A reader comes and goes.
LEMMA ReaderKeeps ==
  ASSUME StoreInv, NEW t \in Readers, ReadBegins(t) \/ ReadEnds(t) PROVE StoreInv'
<1> USE DEF StoreInv
<1>0. t \in Threads /\ t \notin Writers
  BY StoreAssumption DEF Threads
<1>1. /\ up /\ at' \in [Threads -> Stages] /\ at'[t] \in {"stat", "idle"}
      /\ \A q \in Threads \ {t} : at'[q] = at[q]
      /\ UNCHANGED <<up, stateFile, stamp, cache, lock, seen, edit, lastEdit>>
  BY <1>0, MovesMoves DEF ReadBegins, ReadEnds, Stages
<1>2. /\ mine' \in [Threads -> States] /\ \A q \in Threads \ {t} : mine'[q] = mine[q]
  BY NothingIsTyped DEF ReadBegins, ReadEnds, StoreTyped
<1>3. StoreTyped'
  BY <1>1, <1>2 DEF StoreTyped
<1>4. CacheIsRight' /\ AllIdle' /\ EditsAreKept'
  BY <1>1 DEF CacheIsRight, AllIdle, EditsAreKept
<1>5. CopiesAreRight' /\ WritersAreRight'
  BY <1>0, <1>1, <1>2 DEF CopiesAreRight, WritersAreRight, Threads
<1> QED
  BY <1>3, <1>4, <1>5

\* An update, from the lock to its release.
LEMMA WriterKeeps ==
  ASSUME StoreInv, NEW t \in Writers,
         \/ \E f \in Fields, v \in Values : UpdateBegins(t, f, v)
         \/ Rename(t) \/ KeepSaved(t) \/ SaveFails(t)
  PROVE  StoreInv'
<1> USE DEF StoreInv
<1>0. t \in Threads
  BY DEF Threads
<1>1. ASSUME NEW f \in Fields, NEW v \in Values, UpdateBegins(t, f, v) PROVE StoreInv'
  <2>1. /\ lock = "free" /\ Moves(t, "idle", "stat")
        /\ lock' = t /\ edit' = [edit EXCEPT ![t] = [field |-> f, value |-> v]]
        /\ UNCHANGED <<up, stateFile, stamp, cache, seen, mine, lastEdit>>
    BY <1>1 DEF UpdateBegins, Free
  <2>2. /\ up /\ at[t] = "idle" /\ at' \in [Threads -> Stages] /\ at'[t] = "stat"
        /\ \A q \in Threads \ {t} : at'[q] = at[q]
    BY <1>0, <2>1, MovesMoves DEF Stages
  <2>3. StoreTyped'
    BY <2>1, <2>2 DEF StoreTyped
  <2>4. CacheIsRight' /\ AllIdle' /\ EditsAreKept'
    BY <2>1, <2>2 DEF CacheIsRight, AllIdle, EditsAreKept
  <2>5. CopiesAreRight'
    BY <2>1, <2>2 DEF CopiesAreRight
  <2>6. \A q \in Writers : at[q] = "idle"
    BY <2>1, StoreAssumption DEF WritersAreRight
  <2>7. WritersAreRight'
    BY <2>1, <2>2, <2>6 DEF WritersAreRight, StoreTyped, Threads
  <2> QED
    BY <2>3, <2>4, <2>5, <2>7
<1>2. CASE Rename(t)
  <2> DEFINE next == [mine[t] EXCEPT ![edit[t].field] = edit[t].value]
  <2>1. /\ Moves(t, "loaded", "renamed")
        /\ stateFile' = next /\ stamp' = stamp + 1 /\ mine' = [mine EXCEPT ![t] = next]
        /\ lastEdit' = [lastEdit EXCEPT ![edit[t].field] = edit[t].value]
        /\ UNCHANGED <<up, cache, lock, seen, edit>>
    BY <1>2 DEF Rename
  <2>2. /\ up /\ at[t] = "loaded" /\ at' \in [Threads -> Stages] /\ at'[t] = "renamed"
        /\ \A q \in Threads \ {t} : at'[q] = at[q]
    BY <1>0, <2>1, MovesMoves DEF Stages
  <2>3. /\ lock = t /\ edit[t].field \in Fields /\ edit[t].value \in Values
        /\ mine[t] = stateFile
    BY <2>2 DEF WritersAreRight
  <2>4. next \in States /\ next = [stateFile EXCEPT ![edit[t].field] = edit[t].value]
    BY <2>3 DEF StoreTyped, States, Contents
  <2> HIDE DEF next
  <2>5. StoreTyped'
    <3>1. lastEdit' \in [Fields -> Contents \cup {"none"}]
      BY <2>1, <2>3 DEF StoreTyped, Contents
    <3>2. mine' \in [Threads -> States] /\ stamp' \in Nat /\ stamp' >= 1
      BY <1>0, <2>1, <2>4 DEF StoreTyped
    <3> QED
      BY <2>1, <2>2, <2>4, <3>1, <3>2 DEF StoreTyped
  <2>6. CacheIsRight' /\ AllIdle'
    BY <2>1, <2>2 DEF CacheIsRight, AllIdle, StoreTyped
  <2>7. CopiesAreRight'
    BY <2>1, <2>2 DEF CopiesAreRight, StoreTyped
  <2>8. WritersAreRight'
    <3>1. \A q \in Writers \ {t} : at'[q] = "idle"
      BY <2>2, <2>3 DEF WritersAreRight, Threads
    <3> QED
      BY <1>0, <2>1, <2>2, <2>3, <3>1 DEF WritersAreRight, StoreTyped
  <2>9. EditsAreKept'
    BY <2>1, <2>3, <2>4 DEF EditsAreKept, StoreTyped, States
  <2> QED
    BY <2>5, <2>6, <2>7, <2>8, <2>9
<1>3. CASE KeepSaved(t) \/ SaveFails(t)
  <2>1. /\ \/ Moves(t, "renamed", "idle") /\ cache' = [stamp |-> stamp, state |-> mine[t]]
           \/ Moves(t, "loaded", "idle") /\ cache' = cache
        /\ edit' = [edit EXCEPT ![t] = NoEdit]
        /\ UNCHANGED <<up, stateFile, stamp, seen, mine, lastEdit>>
    BY <1>3 DEF KeepSaved, SaveFails, Unlock
  <2>2. /\ up /\ at[t] \in {"renamed", "loaded"} /\ at' \in [Threads -> Stages] /\ at'[t] = "idle"
        /\ \A q \in Threads \ {t} : at'[q] = at[q]
    BY <1>0, <2>1, MovesMoves DEF Stages
  <2>3. lock = t /\ mine[t] = stateFile
    BY <2>2 DEF WritersAreRight
  <2>4. StoreTyped'
    BY <1>0, <2>1, <2>2, NothingIsTyped DEF StoreTyped
  <2>5. CacheIsRight' /\ AllIdle' /\ EditsAreKept'
    BY <2>1, <2>2, <2>3 DEF CacheIsRight, AllIdle, EditsAreKept, StoreTyped
  <2>6. CopiesAreRight'
    BY <2>1, <2>2 DEF CopiesAreRight
  <2>7. WritersAreRight'
    <3>1. \A q \in Writers : at'[q] = "idle"
      BY <2>2, <2>3 DEF WritersAreRight, Threads
    <3> QED
      BY <3>1 DEF WritersAreRight
  <2> QED
    BY <2>4, <2>5, <2>6, <2>7
<1> QED
  BY <1>1, <1>2, <1>3

LEMMA StoreNextInv == StoreInv /\ [StoreNext]_store => StoreInv'
<1> SUFFICES ASSUME StoreInv, [StoreNext]_store PROVE StoreInv'
  OBVIOUS
<1>1. CASE UNCHANGED store
  <2>1. UNCHANGED <<up, stateFile, stamp, cache, lock, at, seen, mine, edit, lastEdit>>
    BY <1>1 DEF store, thread
  <2> QED
    BY <2>1 DEF StoreInv, StoreTyped, CacheIsRight, CopiesAreRight, WritersAreRight, AllIdle,
                EditsAreKept
<1>2. CASE StoreNext
  BY <1>2, OutageKeeps, WriterKeeps, ReaderKeeps, LoadKeeps DEF StoreNext
<1> QED
  BY <1>1, <1>2

(* What somebody set and was saved is there until it is set again or a new day begins, however     *)
(* many threads load, cache and change the state at once, and wherever a write fails or the server *)
(* crashes.                                                                                      *)
THEOREM EditsAlwaysKept == StoreSpec => []EditsAreKept
<1>1. StoreInv => EditsAreKept
  BY DEF StoreInv
<1> QED
  BY StoreInitInv, StoreNextInv, <1>1, PTL DEF StoreSpec

-----------------------------------------------------------------------------
(* MatchDay: no part of it rests on another.                                   *)

LauncherStages == {"off", "preparing", "waiting", "up", "opened", "serving", "leaving"}

DayTyped == launcher \in LauncherStages /\ interrupt \in BOOLEAN /\ heard \in BOOLEAN

DayInv == DayTyped /\ StopsAreForToday

LEMMA StopIsKept == ASSUME DayInv, StopDay, launcher' = launcher PROVE DayInv'
<1> USE DEF DayInv, DayTyped, StopsAreForToday
<1>1. CASE Abandons
  BY <1>1 DEF StopDay
<1>2. CASE ~Abandons
  BY <1>2 DEF StopDay, On, Keeps
<1> QED
  BY <1>1, <1>2

LEMMA DayNextInv == DayInv /\ [DayNext]_matchDay => DayInv'
<1> SUFFICES ASSUME DayInv, [DayNext]_matchDay PROVE DayInv'
  OBVIOUS
<1> USE DEF DayInv, DayTyped, StopsAreForToday, LauncherStages
<1>1. CASE UNCHANGED matchDay
  BY <1>1 DEF matchDay, launch
<1>2. CASE Launcher
  <2>1. CASE Prepare \/ ServerAnswers \/ PanelReady \/ Listen \/ NoAnswerInTime
    <3>1. /\ launcher \in LauncherStages \ {"off", "leaving"} /\ launcher' \in LauncherStages
          /\ UNCHANGED <<interrupt, heard>>
      BY <2>1 DEF Prepare, ServerAnswers, PanelReady, Listen, NoAnswerInTime, Stage
    <3> QED
      BY <3>1
  <2>2. CASE Die \/ AnotherCopy \/ End
    <3>1. launcher' \in {"off", "leaving"} /\ UNCHANGED <<interrupt, heard>>
      BY <2>2 DEF Die, AnotherCopy, End, Stage
    <3> QED
      BY <3>1
  <2>3. CASE Hear
    BY <2>3 DEF Hear, Stage
  <2> QED
    BY <1>2, <2>1, <2>2, <2>3 DEF Launcher
<1>3. CASE StartMatchDay
  BY <1>3 DEF StartMatchDay
<1>4. ASSUME NEW s \in StopButtons, NEW app, NEW withOBS, PressStop(s, app, withOBS) PROVE DayInv'
  BY <1>4, StopIsKept DEF PressStop
<1>5. ASSUME NEW s \in StopButtons, SeeItOver(s) \/ GoneMeanwhile(s) \/ CloseUp(s) PROVE DayInv'
  <2>1. UNCHANGED <<launcher, interrupt, heard>>
    BY <1>5 DEF SeeItOver, GoneMeanwhile, CloseUp, launch
  <2> QED
    BY <2>1
<1>6. CASE CloseWindow \/ Finish
  BY <1>6, StopIsKept DEF CloseWindow, Finish
<1>7. ASSUME NEW inTime, Exit(inTime) PROVE DayInv'
  BY <1>7 DEF Exit
<1>8. CASE BeginSave \/ EnterRole \/ Ready \/ PowerOff \/ KeepItOn \/ SwitchesOff \/ UseOBS
  <2>1. UNCHANGED <<launcher, interrupt, heard>>
    BY <1>8 DEF BeginSave, EnterRole, Ready, PowerOff, KeepItOn, SwitchesOff, UseOBS, launch
  <2> QED
    BY <2>1
<1>9. CASE Window
  BY <1>3, <1>4, <1>5, <1>6, <1>7, <1>8, <1>9 DEF Window, PressStart
<1>10. CASE Screen
  BY <1>3, <1>4, <1>8, <1>10 DEF Screen, ScreenStart, ScreenStop
<1> QED
  BY <1>1, <1>2, <1>8, <1>9, <1>10 DEF DayNext

(* A stop pressed before the launcher listens is kept for it, and none is left over from another  *)
(* match day, however many windows, pages and screens press Stop and whatever comes in between.    *)
THEOREM StopsAlwaysForToday == DaySpec => []StopsAreForToday
<1>1. DayInit => DayInv
  BY DEF DayInit, DayInv, DayTyped, StopsAreForToday, LauncherStages
<1>2. DayInv => StopsAreForToday
  BY DEF DayInv
<1> QED
  BY <1>1, <1>2, DayNextInv, PTL DEF DaySpec

-----------------------------------------------------------------------------
(* Pairing: the loop only ends at the end of a sweep, with nothing to ask about.  *)

LoopStands == {"off", "rest", "poll", "again", "pair", "settle", "check"}

PairingTyped ==
    /\ loop \in [Screens -> LoopStands]
    /\ asks \in [Screens -> Nat] /\ snap \in [Screens -> Nat] /\ started \in [Screens -> Nat]
    /\ requests \in Nat

PairingInv == PairingTyped /\ AskedIsPolled

LEMMA LoopGoesOn ==
    ASSUME PairingInv, NEW s \in Screens, NEW there, NEW next \in LoopStands \ {"off"},
           Leaves(s, there, next), there # "off",
           asks' \in [Screens -> Nat], snap' \in [Screens -> Nat], requests' \in Nat,
           \A q \in Screens \ {s} : asks'[q] = asks[q],
           UNCHANGED started
    PROVE  PairingInv'
BY DEF PairingInv, PairingTyped, AskedIsPolled, Leaves

LEMMA PairingNextInv == PairingInv /\ [PairingNext]_pairing => PairingInv'
<1> SUFFICES ASSUME PairingInv, [PairingNext]_pairing PROVE PairingInv'
  OBVIOUS
<1> USE DEF PairingInv, PairingTyped
<1>1. CASE UNCHANGED pairing
  BY <1>1 DEF pairing, link, asking, AskedIsPolled
<1>2. ASSUME UNCHANGED asking, requests' \in Nat PROVE PairingInv'
  BY <1>2 DEF asking, AskedIsPolled
<1>3. ASSUME NEW i \in Requests, Prune(i) \/ \E a \in {"control", "view", "no"} : Say(i, a)
      PROVE  PairingInv'
  BY <1>2, <1>3 DEF Prune, Say
<1>4. CASE NewKey \/ TwoSeconds
  BY <1>2, <1>4 DEF NewKey, TwoSeconds
<1>5. ASSUME NEW s \in Screens, Forget(s) \/ \E k \in {key, ViewKey, NeverKey} : Type(s, k)
      PROVE  PairingInv'
  BY <1>2, <1>5 DEF Forget, Type, link
<1>6. ASSUME NEW s \in Screens, PressAsk(s) \/ Land(s) \/ Cancel(s) PROVE PairingInv'
  BY <1>6 DEF PressAsk, Land, Cancel, Takes, AskedIsPolled, LoopStands, link
<1>7. ASSUME NEW s \in Screens, AskLoop(s) PROVE PairingInv'
  <2>1. CASE Sweep(s) \/ NobodyAnswered(s)
    BY <1>7, <2>1, LoopGoesOn DEF Sweep, NobodyAnswered, LoopStands, link
  <2>2. CASE PollFails(s) \/ StillWaiting(s) \/ SaidNo(s) \/ Unknown(s)
    BY <2>2, LoopGoesOn DEF PollFails, StillWaiting, SaidNo, Unknown, Kept, LoopStands, link
  <2>3. CASE SaidYes(s)
    BY <2>3, LoopGoesOn DEF SaidYes, LoopStands
  <2>4. CASE AsksAgain(s)
    BY <2>4, LoopGoesOn DEF AsksAgain, Takes, LoopStands, link
  <2>5. CASE Settle(s)
    BY <2>5, LoopGoesOn DEF Settle, LoopStands, link
  <2>6. CASE Pair(s)
    BY <2>6, LoopGoesOn DEF Pair, LoopStands
  <2>7. CASE Check(s)
    BY <2>7 DEF Check, Leaves, Stops, AskedIsPolled, LoopStands, link
  <2> QED
    BY <1>7, <2>1, <2>2, <2>3, <2>4, <2>5, <2>6, <2>7 DEF AskLoop
<1> QED
  BY <1>1, <1>3, <1>4, <1>5, <1>6, <1>7 DEF PairingNext

(* A request a screen waits on is polled for, whatever the loop was doing for an older one when it *)
(* was made: for any number of screens and requests, and whatever packets are lost.                *)
THEOREM AskedAlwaysPolled == PairingSpec => []AskedIsPolled
<1>1. PairingInit => PairingInv
  BY DEF PairingInit, PairingInv, PairingTyped, AskedIsPolled, LoopStands
<1>2. PairingInv => AskedIsPolled
  BY DEF PairingInv
<1> QED
  BY <1>1, <1>2, PairingNextInv, PTL DEF PairingSpec

-----------------------------------------------------------------------------
(* WidgetFeed: from the moment the overlay's poll has bound the cache to the pin  *)
(* it read until it is answered, the cache is bound to that pin (Holds), because   *)
(* nobody else binds it; and a call that is out is of the kind the cache asks for,  *)
(* because nobody binds over a call (CallsFit).                                  *)

Known == Matches \cup {"none"}
Answers == Known \cup {Top}

Polls == [at : {"idle", "read", "bound", "asked"}, left : Nat, read : [pin : Known, rv : Known],
          waited : Nat, answer : Answers]
Works == [at : {"none", "queued", "vault", "widget"}, for : Pollers \cup {"nobody"}, left : Nat]

WidgetTyped ==
    /\ settings \in [pin : Known, rv : Known]
    /\ rvCache \in [pin : Known, rv : Known, state : Known, fresh : BOOLEAN]
    /\ widget \in [data : BOOLEAN, fresh : BOOLEAN]
    /\ page \in [Pollers -> Polls]
    /\ fetch \in [Fetches -> Works]

\* ResultsVault's number is that of the match pinned, and its answer kept is of that number.
Tied ==
    /\ settings.rv \in {settings.pin, "none"}
    /\ \A p \in Pollers : page[p].read.rv \in {page[p].read.pin, "none"}
    /\ rvCache.rv \in {rvCache.pin, "none"}
    /\ rvCache.fresh => rvCache.rv # "none" /\ rvCache.state = rvCache.rv

Holds ==
    page["overlay"].at \in {"bound", "asked"} =>
        /\ rvCache.pin = page["overlay"].read.pin
        /\ page["overlay"].read.rv # "none" => rvCache.rv # "none"

CallsFit == \A j \in Fetches : /\ fetch[j].at = "vault" => rvCache.rv # "none"
                               /\ fetch[j].at = "widget" => rvCache.rv = "none"

OneFetch ==
    /\ \A j \in Fetches : fetch[j].for = "overlay" => page["overlay"].at = "asked"
    /\ \A j, k \in Fetches : fetch[j].for = "overlay" /\ fetch[k].for = "overlay" => j = k

WidgetInv == WidgetTyped /\ Tied /\ Holds /\ CallsFit /\ OneFetch /\ PinIsHeld

\* What the overlay's poll may be told.
Right(a) ==
    page["overlay"].read.pin # "none"
        /\ (page["overlay"].read.pin \in InWidget \/ page["overlay"].read.rv # "none")
    => a \in {"none", page["overlay"].read.pin}

LEMMA NonePossible == "none" \in Known /\ "none" \in Answers
BY DEF Known, Answers

\* What a poll is after it was begun, answered or asked, or waited; and a fetch after it moved.
LEMMA Reading ==
  ASSUME NEW s \in [pin : Known, rv : Known], NEW next, next = [NoPoll EXCEPT !.at = "read", !.read = s]
  PROVE  next \in Polls /\ next.at = "read" /\ next.read = s /\ next.answer = "none"
<1>1. NoPoll \in [at : {"idle", "read", "bound", "asked"}, left : Nat, read : [pin : Known, rv : Known],
                  waited : Nat, answer : Answers] /\ NoPoll.answer = "none"
  BY NonePossible DEF NoPoll, NoPin
<1> QED
  BY <1>1 DEF Polls

AnswerTo(poll, n, a) == [poll EXCEPT !.at = "idle", !.left = n, !.answer = a]
WaitOf(poll, n, w) == [poll EXCEPT !.left = n, !.waited = w]
CallOf(work, which) == [work EXCEPT !.at = which, !.left = 2]

LEMMA Answering ==
  ASSUME NEW poll \in Polls, NEW a \in Answers, NEW n \in Nat
  PROVE  /\ AnswerTo(poll, n, a) \in Polls /\ AnswerTo(poll, n, a).at = "idle"
         /\ AnswerTo(poll, n, a).read = poll.read /\ AnswerTo(poll, n, a).answer = a
BY DEF Polls, AnswerTo

LEMMA Waiting ==
  ASSUME NEW poll \in Polls, NEW n \in Nat, NEW w \in Nat
  PROVE  /\ WaitOf(poll, n, w) \in Polls /\ WaitOf(poll, n, w).at = poll.at
         /\ WaitOf(poll, n, w).read = poll.read /\ WaitOf(poll, n, w).answer = poll.answer
BY DEF Polls, WaitOf

LEMMA AskingOne ==
  ASSUME NEW poll \in Polls, NEW next, next = [poll EXCEPT !.at = "asked", !.left = 1]
  PROVE  next \in Polls /\ next.at = "asked" /\ next.read = poll.read /\ next.answer = poll.answer
BY DEF Polls

LEMMA Fetching ==
  ASSUME NEW work \in Works, NEW which \in {"vault", "widget"}
  PROVE  /\ CallOf(work, which) \in Works /\ CallOf(work, which).at = which
         /\ CallOf(work, which).for = work.for
BY DEF Works, CallOf

LEMMA Forgetting ==
  ASSUME NEW work \in Works, NEW next, next = [work EXCEPT !.for = "nobody"]
  PROVE  next \in Works /\ next.at = work.at /\ next.for = "nobody"
BY DEF Works

LEMMA PollIs ==
  ASSUME NEW poll \in Polls
  PROVE  /\ poll.at \in {"idle", "read", "bound", "asked"} /\ poll.read \in [pin : Known, rv : Known]
         /\ poll.answer \in Answers
BY DEF Polls

LEMMA NoFetchIs == NoFetch \in Works /\ NoFetch.at = "none" /\ NoFetch.for = "nobody"
BY DEF NoFetch, Works

LEMMA WidgetInitInv == WidgetInit => WidgetInv
<1> SUFFICES ASSUME WidgetInit PROVE WidgetInv
  OBVIOUS
<1> DEFINE noPin == [pin |-> "none", rv |-> "none"]
<1>1. /\ settings = noPin /\ widget = [data |-> FALSE, fresh |-> FALSE]
      /\ rvCache = [pin |-> "none", rv |-> "none", state |-> "none", fresh |-> FALSE]
      /\ page = [p \in Pollers |-> NoPoll] /\ fetch = [j \in Fetches |-> NoFetch]
  BY DEF WidgetInit, Bound, NoPin
<1>2. NoPoll \in Polls /\ NoPoll.at = "idle" /\ NoPoll.read = noPin /\ NoPoll.answer = "none"
  BY NonePossible DEF NoPoll, NoPin, Polls
<1>3. WidgetTyped
  BY <1>1, <1>2, NoFetchIs, NonePossible DEF WidgetTyped
<1>4. Tied /\ Holds /\ PinIsHeld
  BY <1>1, <1>2, WidgetAssumption DEF Tied, Holds, PinIsHeld
<1>5. CallsFit /\ OneFetch
  BY <1>1, NoFetchIs DEF CallsFit, OneFetch
<1> QED
  BY <1>3, <1>4, <1>5 DEF WidgetInv

\* A fetch ends, and whoever still waits for it is answered.
LEMMA ReplyKeeps ==
  ASSUME WidgetInv, NEW j \in Fetches, NEW a \in Answers, Reply(j, a),
         fetch[j].for = "overlay" => Right(a),
         rvCache' \in [pin : Known, rv : Known, state : Known, fresh : BOOLEAN],
         rvCache'.pin = rvCache.pin, rvCache'.rv = rvCache.rv,
         rvCache'.fresh => rvCache.rv # "none" /\ rvCache'.state = rvCache.rv,
         widget' \in [data : BOOLEAN, fresh : BOOLEAN], settings' = settings
  PROVE  WidgetInv'
<1> USE WidgetAssumption DEF WidgetInv, WidgetTyped
<1>1. /\ fetch' \in [Fetches -> Works]
      /\ fetch'[j] = NoFetch /\ \A k \in Fetches \ {j} : fetch'[k] = fetch[k]
  BY NoFetchIs DEF Reply
<1>2. CASE fetch[j].for = "nobody"
  <2>1. page' = page
    BY <1>2 DEF Reply
  <2>2. WidgetTyped' /\ Tied' /\ Holds' /\ PinIsHeld'
    BY <1>1, <2>1 DEF Tied, Holds, PinIsHeld
  <2>3. CallsFit' /\ OneFetch'
    BY <1>1, <2>1, NoFetchIs DEF CallsFit, OneFetch
  <2> QED
    BY <2>2, <2>3
<1>3. CASE fetch[j].for # "nobody"
  <2> DEFINE p == fetch[j].for
  <2>1. p \in Pollers /\ page' = [page EXCEPT ![p] = [@ EXCEPT !.at = "idle", !.left = Rest, !.answer = a]]
    BY <1>3 DEF Reply, Answered, Works
  <2>2. /\ page' \in [Pollers -> Polls]
        /\ page'[p].at = "idle" /\ page'[p].read = page[p].read /\ page'[p].answer = a
        /\ \A q \in Pollers \ {p} : page'[q] = page[q]
    <3>1. page[p] \in Polls /\ page' = [page EXCEPT ![p] = AnswerTo(page[p], Rest, a)]
      BY <2>1 DEF AnswerTo
    <3> QED
      BY <2>1, <3>1, Answering
  <2>3. WidgetTyped'
    BY <1>1, <2>2
  <2>4. Tied' /\ CallsFit'
    BY <1>1, <2>1, <2>2, NoFetchIs DEF Tied, CallsFit
  <2>5. Holds' /\ PinIsHeld'
    BY <2>1, <2>2 DEF Holds, PinIsHeld, Right
  <2>6. OneFetch'
    <3>1. \A k \in Fetches : fetch'[k].for = "overlay" => k # j /\ fetch[k].for = "overlay"
      BY <1>1, NoFetchIs
    <3>2. fetch[j].for = "overlay" => \A k \in Fetches \ {j} : fetch[k].for # "overlay"
      BY DEF OneFetch
    <3> QED
      BY <2>1, <2>2, <3>1, <3>2 DEF OneFetch
  <2> QED
    BY <2>3, <2>4, <2>5, <2>6
<1> QED
  BY <1>2, <1>3

LEMMA WidgetNextInv == WidgetInv /\ [WidgetNext]_widgetFeed => WidgetInv'
<1> SUFFICES ASSUME WidgetInv, [WidgetNext]_widgetFeed PROVE WidgetInv'
  OBVIOUS
<1> USE WidgetAssumption DEF WidgetInv, WidgetTyped
<1>1. CASE UNCHANGED widgetFeed
  BY <1>1 DEF widgetFeed, Tied, Holds, CallsFit, OneFetch, PinIsHeld
<1>2. ASSUME NEW m \in Known, NEW r \in {m, "none"}, Pin([pin |-> m, rv |-> r]) PROVE WidgetInv'
  BY <1>2 DEF Pin, Known, Tied, Holds, CallsFit, OneFetch, PinIsHeld
<1>3. ASSUME NEW p \in Pollers, Poll(p) PROVE WidgetInv'
  <2> DEFINE next == [NoPoll EXCEPT !.at = "read", !.read = settings]
  <2>1. page[p].at = "idle" /\ page' = [page EXCEPT ![p] = next]
        /\ UNCHANGED <<settings, rvCache, widget, fetch>>
    BY <1>3 DEF Poll, Goes
  <2>2. next \in Polls /\ next.at = "read" /\ next.read = settings /\ next.answer = "none"
    BY Reading
  <2> HIDE DEF next
  <2>3. WidgetTyped'
    BY <2>1, <2>2
  <2> QED
    BY <2>1, <2>2, <2>3 DEF Tied, Holds, CallsFit, OneFetch, PinIsHeld
<1>4. ASSUME NEW p \in Pollers, Bind(p) PROVE WidgetInv'
  <2> DEFINE s == page["overlay"].read
  <2>1. /\ p = "overlay" /\ page["overlay"].at = "read"
        /\ page' = [page EXCEPT !["overlay"] = [page["overlay"] EXCEPT !.at = "bound"]]
        /\ rvCache' = IF s.pin # rvCache.pin THEN Bound(s)
                      ELSE IF rvCache.rv = "none" THEN [rvCache EXCEPT !.rv = s.rv] ELSE rvCache
        /\ \A j \in Fetches : fetch[j].at \in {"none", "queued"}
        /\ UNCHANGED <<settings, widget, fetch>>
    BY <1>4 DEF Bind, Binds, Goes, LockFree
  <2>2. /\ page' \in [Pollers -> Polls]
        /\ \A q \in Pollers : page'[q].read = page[q].read /\ page'[q].answer = page[q].answer
    BY <2>1 DEF Polls
  <2>3. /\ rvCache' \in [pin : Known, rv : Known, state : Known, fresh : BOOLEAN]
        /\ rvCache'.pin = s.pin /\ rvCache'.rv \in {s.pin, "none"}
        /\ s.rv # "none" => rvCache'.rv # "none"
        /\ rvCache'.fresh => rvCache'.rv # "none" /\ rvCache'.state = rvCache'.rv
    <3>1. s \in [pin : Known, rv : Known] /\ s.rv \in {s.pin, "none"}
      BY <2>1, PollIs DEF Tied
    <3>2. CASE s.pin # rvCache.pin
      <4>1. rvCache' = [pin |-> s.pin, rv |-> s.rv, state |-> "none", fresh |-> FALSE]
        BY <2>1, <3>2 DEF Bound
      <4> QED
        BY <3>1, <4>1, NonePossible
    <3>3. CASE s.pin = rvCache.pin /\ rvCache.rv = "none"
      <4>1. rvCache' = [rvCache EXCEPT !.rv = s.rv]
        BY <2>1, <3>3
      <4>2. ~rvCache.fresh
        BY <3>3 DEF Tied
      <4>3. /\ rvCache' \in [pin : Known, rv : Known, state : Known, fresh : BOOLEAN]
            /\ rvCache'.pin = rvCache.pin /\ rvCache'.rv = s.rv /\ rvCache'.fresh = rvCache.fresh
        BY <3>1, <4>1
      <4> QED
        BY <3>1, <3>3, <4>2, <4>3
    <3>4. CASE s.pin = rvCache.pin /\ rvCache.rv # "none"
      <4>1. rvCache' = rvCache
        BY <2>1, <3>4
      <4> QED
        BY <3>4, <4>1 DEF Tied
    <3> QED
      BY <3>2, <3>3, <3>4
  <2>4. Tied' /\ Holds' /\ PinIsHeld'
    BY <2>1, <2>2, <2>3 DEF Tied, Holds, PinIsHeld
  <2>5. CallsFit' /\ OneFetch'
    BY <2>1 DEF CallsFit, OneFetch
  <2> QED
    BY <2>1, <2>2, <2>3, <2>4, <2>5
<1>5. ASSUME NEW p \in Pollers, Ask(p) PROVE WidgetInv'
  <2>1. PICK j \in Fetches :
            /\ fetch[j] = NoFetch
            /\ fetch' = [fetch EXCEPT ![j] = [at |-> "queued", for |-> p, left |-> 0]]
    BY <1>5 DEF Ask
  <2>2. /\ p = "overlay" => page[p].at = "bound"
        /\ page' = [page EXCEPT ![p] = [page[p] EXCEPT !.at = "asked", !.left = 1]]
        /\ UNCHANGED <<settings, rvCache, widget>>
    BY <1>5 DEF Ask, Goes, Binds
  <2>3. page[p].at # "asked"
    BY <1>5 DEF Ask, Goes
  <2>4. /\ page' \in [Pollers -> Polls] /\ page'[p].at = "asked"
        /\ \A q \in Pollers : page'[q].read = page[q].read /\ page'[q].answer = page[q].answer
        /\ \A q \in Pollers \ {p} : page'[q].at = page[q].at
    <3> DEFINE next == [page[p] EXCEPT !.at = "asked", !.left = 1]
    <3>1. /\ next \in Polls /\ next.at = "asked" /\ next.read = page[p].read
          /\ next.answer = page[p].answer
      BY AskingOne
    <3>2. page' = [page EXCEPT ![p] = next]
      BY <2>2
    <3> HIDE DEF next
    <3> QED
      BY <3>1, <3>2
  <2>5. Tied' /\ Holds' /\ PinIsHeld'
    BY <2>2, <2>4 DEF Tied, Holds, PinIsHeld
  <2>6. /\ fetch' \in [Fetches -> Works] /\ fetch'[j].at = "queued" /\ fetch'[j].for = p
        /\ \A k \in Fetches \ {j} : fetch'[k] = fetch[k]
    BY <2>1 DEF Works
  <2>7. WidgetTyped'
    BY <2>2, <2>4, <2>6
  <2>8. CallsFit'
    BY <2>2, <2>6 DEF CallsFit
  <2>9. OneFetch'
    BY <2>2, <2>3, <2>4, <2>6 DEF OneFetch
  <2> QED
    BY <2>5, <2>7, <2>8, <2>9
<1>6. ASSUME NEW p \in Pollers, GiveUp(p) PROVE WidgetInv'
  <2>1. /\ page' = [page EXCEPT ![p] = [@ EXCEPT !.at = "idle", !.left = Rest, !.answer = "none"]]
        /\ fetch' = [j \in Fetches |-> IF fetch[j].for = p THEN [fetch[j] EXCEPT !.for = "nobody"]
                                       ELSE fetch[j]]
        /\ UNCHANGED <<settings, rvCache, widget>>
    BY <1>6 DEF GiveUp, Answered
  <2>2. /\ page' \in [Pollers -> Polls] /\ page'[p].at = "idle" /\ page'[p].answer = "none"
        /\ page'[p].read = page[p].read /\ \A q \in Pollers \ {p} : page'[q] = page[q]
    <3>1. page[p] \in Polls /\ page' = [page EXCEPT ![p] = AnswerTo(page[p], Rest, "none")]
      BY <2>1 DEF AnswerTo
    <3> QED
      BY <3>1, Answering, NonePossible
  <2>3. /\ fetch' \in [Fetches -> Works]
        /\ \A j \in Fetches : /\ fetch'[j].at = fetch[j].at
                              /\ fetch'[j].for = IF fetch[j].for = p THEN "nobody" ELSE fetch[j].for
    BY <2>1, Forgetting
  <2>4. WidgetTyped' /\ Tied' /\ Holds' /\ PinIsHeld'
    BY <2>1, <2>2, <2>3 DEF Tied, Holds, PinIsHeld
  <2>5. CallsFit' /\ OneFetch'
    BY <2>1, <2>2, <2>3 DEF CallsFit, OneFetch
  <2> QED
    BY <2>4, <2>5
<1>7. ASSUME NEW j \in Fetches, NEW which \in {"vault", "widget"}, Calls(j, which),
             which = "vault" <=> rvCache.rv # "none", UNCHANGED <<settings, rvCache, widget>>
      PROVE  WidgetInv'
  <2>1. /\ fetch' = [fetch EXCEPT ![j] = [@ EXCEPT !.at = which, !.left = 2]] /\ page' = page
    BY <1>7 DEF Calls
  <2>2. /\ fetch' \in [Fetches -> Works] /\ fetch'[j].at = which /\ fetch'[j].for = fetch[j].for
        /\ \A k \in Fetches \ {j} : fetch'[k] = fetch[k]
    <3>1. fetch[j] \in Works /\ fetch' = [fetch EXCEPT ![j] = CallOf(fetch[j], which)]
      BY <2>1 DEF CallOf
    <3> QED
      BY <1>7, <3>1, Fetching
  <2>3. WidgetTyped' /\ Tied' /\ Holds' /\ PinIsHeld'
    BY <1>7, <2>1, <2>2 DEF Tied, Holds, PinIsHeld
  <2>4. CallsFit' /\ OneFetch'
    BY <1>7, <2>1, <2>2 DEF CallsFit, OneFetch
  <2> QED
    BY <2>3, <2>4
<1>8. FromWidget \in Answers
  BY DEF FromWidget, Answers
<1>9. ASSUME NEW j \in Fetches, fetch[j].for = "overlay", rvCache.rv = "none" PROVE Right(FromWidget)
  BY <1>9 DEF OneFetch, Holds, Right, FromWidget
<1>10. ASSUME NEW j \in Fetches, fetch[j].for = "overlay", rvCache.rv # "none" PROVE Right(rvCache.rv)
  BY <1>10 DEF OneFetch, Holds, Right, Tied
<1>11. Right("none") /\ rvCache.rv \in Answers /\ "none" \in Answers
  BY DEF Right, Answers, Known
<1>12. ASSUME NEW j \in Fetches, Enter(j) PROVE WidgetInv'
  BY <1>7, <1>8, <1>9, <1>10, <1>11, <1>12, ReplyKeeps DEF Enter, Tied
<1>13. ASSUME NEW j \in Fetches, VaultAnswers(j) PROVE WidgetInv'
  <2>1. /\ rvCache.rv # "none" /\ rvCache' = [rvCache EXCEPT !.state = rvCache.rv, !.fresh = TRUE]
        /\ Reply(j, rvCache.rv) /\ UNCHANGED <<settings, widget>>
    BY <1>13 DEF VaultAnswers, CallsFit
  <2>2. /\ rvCache' \in [pin : Known, rv : Known, state : Known, fresh : BOOLEAN]
        /\ rvCache'.pin = rvCache.pin /\ rvCache'.rv = rvCache.rv /\ rvCache'.state = rvCache.rv
    BY <2>1
  <2> QED
    BY <1>10, <1>11, <2>1, <2>2, ReplyKeeps
<1>14. ASSUME NEW j \in Fetches, VaultFails(j) PROVE WidgetInv'
  BY <1>11, <1>14, ReplyKeeps DEF VaultFails, Tied
<1>15. ASSUME NEW j \in Fetches, WidgetAnswers(j) \/ WidgetFails(j) PROVE WidgetInv'
  <2>1. PICK a \in {FromWidget, "none"} : Reply(j, a)
    BY <1>15 DEF WidgetAnswers, WidgetFails
  <2>2. /\ rvCache.rv = "none" /\ widget' \in [data : BOOLEAN, fresh : BOOLEAN]
        /\ UNCHANGED <<settings, rvCache>>
    <3>1. fetch[j].at = "widget" /\ UNCHANGED <<settings, rvCache>>
      BY <1>15 DEF WidgetAnswers, WidgetFails
    <3>2. widget' = widget \/ widget' = [data |-> TRUE, fresh |-> TRUE]
      BY <1>15 DEF WidgetAnswers, WidgetFails
    <3>3. widget' \in [data : BOOLEAN, fresh : BOOLEAN]
      <4>1. CASE widget' = widget
        BY <4>1
      <4>2. CASE widget' = [data |-> TRUE, fresh |-> TRUE]
        BY <4>2
      <4> QED
        BY <3>2, <4>1, <4>2
    <3>4. rvCache.rv = "none"
      BY <3>1 DEF CallsFit
    <3> QED
      BY <3>1, <3>3, <3>4
  <2> QED
    BY <1>8, <1>9, <1>11, <2>1, <2>2, ReplyKeeps DEF Tied
<1>16. CASE Tick
  <2>1. /\ page' = [p \in Pollers |-> [page[p] EXCEPT !.left = Less(@),
                        !.waited = IF page[p].at = "idle" THEN 0 ELSE More(@)]]
        /\ fetch' = [j \in Fetches |-> [fetch[j] EXCEPT !.left = Less(@)]]
        /\ settings' = settings
    BY <1>16 DEF Tick
  <2>2. \A n \in Nat : Less(n) \in Nat /\ More(n) \in Nat
    BY SMTT(30) DEF Less, More
  <2>3. /\ page' \in [Pollers -> Polls]
        /\ \A p \in Pollers : /\ page'[p].at = page[p].at /\ page'[p].read = page[p].read
                              /\ page'[p].answer = page[p].answer
    <3>1. ASSUME NEW p \in Pollers
          PROVE  /\ page'[p] \in Polls /\ page'[p].at = page[p].at /\ page'[p].read = page[p].read
                 /\ page'[p].answer = page[p].answer
      <4> DEFINE n == Less(page[p].left)
                 w == IF page[p].at = "idle" THEN 0 ELSE More(page[p].waited)
      <4>1. page[p] \in Polls
        OBVIOUS
      <4>2. n \in Nat /\ w \in Nat
        BY <2>2, <4>1 DEF Polls
      <4>3. page'[p] = WaitOf(page[p], n, w)
        BY <2>1 DEF WaitOf
      <4> HIDE DEF n, w
      <4> QED
        BY <4>1, <4>2, <4>3, Waiting
    <3> QED
      BY <2>1, <3>1
  <2>4. /\ fetch' \in [Fetches -> Works]
        /\ \A j \in Fetches : fetch'[j].at = fetch[j].at /\ fetch'[j].for = fetch[j].for
    BY <2>1, <2>2, ZenonT(40) DEF Works
  <2>5. PICK old \in BOOLEAN : rvCache' = [rvCache EXCEPT !.fresh = @ /\ ~old]
    BY <1>16 DEF Tick
  <2>6. /\ rvCache' \in [pin : Known, rv : Known, state : Known, fresh : BOOLEAN]
        /\ rvCache'.pin = rvCache.pin /\ rvCache'.rv = rvCache.rv
        /\ rvCache'.state = rvCache.state /\ (rvCache'.fresh => rvCache.fresh)
    BY <2>5
  <2>7. widget' \in [data : BOOLEAN, fresh : BOOLEAN]
    BY <1>16 DEF Tick
  <2>8. WidgetTyped' /\ Holds' /\ PinIsHeld'
    BY <2>1, <2>3, <2>4, <2>6, <2>7, ZenonT(40) DEF Holds, PinIsHeld
  <2>9. Tied'
    BY <2>1, <2>3, <2>6 DEF Tied
  <2>10. CallsFit' /\ OneFetch'
    BY <2>3, <2>4, <2>6 DEF CallsFit, OneFetch
  <2> QED
    BY <2>8, <2>9, <2>10
<1> QED
  BY <1>1, <1>2, <1>3, <1>4, <1>5, <1>6, <1>12, <1>13, <1>14, <1>15, <1>16 DEF WidgetNext, Known

(* The overlay's poll is answered with the score of the match it read as pinned, or with none, if   *)
(* there is a way to that match's: whatever the panel's polls, new pins, hung calls and old caches   *)
(* come between, for any number of pages, matches and goroutines.                                  *)
THEOREM PinAlwaysHeld == WidgetSpec => []PinIsHeld
<1>1. WidgetInv => PinIsHeld
  BY DEF WidgetInv
<1> QED
  BY WidgetInitInv, WidgetNextInv, <1>1, PTL DEF WidgetSpec

-----------------------------------------------------------------------------
(* ClubScreen: what is left of an unlock and the time nobody touched the screen  *)
(* are one unlock together; one more tick, when the page's question whether the   *)
(* match is by hand was answered yes, and it is not asked again before somebody    *)
(* starts another match day.                                                  *)

ScreenTyped == /\ till \in 0..UnlockFor /\ untouched \in Nat
               /\ tab \in {"score", "get", "talk", "health", "other"}
               /\ role \in {"none", "control", "view"} /\ kept.role \in {"none", "control", "view"}

AsksAnyMore == role = "control" /\ laptop = "running" /\ ~(qrKnown /\ found = "running")

RunsOut ==
    pin # NoPIN /\ till > 0 /\ ~polled =>
        untouched + till <= UnlockFor + 1 /\ (AsksAnyMore => untouched = 0)

OnlyWatches == role = "view" => ~obeyed

ScreenInv == ScreenTyped /\ RunsOut /\ OnlyWatches

\* What the page puts by the clock, on any tab, renews nothing.
LEMMA ClockRenewsNothing ==
  ASSUME NEW t \in {"score", "get", "talk", "health", "other"}
  PROVE  RenewNothing(AskedAlways \cup AskedByTheClock[t])
<1>1. AskedByTheClock[t] \subseteq PublicReads \cup WatchedReads
  BY DEF AskedByTheClock, PublicReads, WatchedReads
<1>2. AskedAlways \subseteq PublicReads \cup WatchedReads
  BY DEF AskedAlways, PublicReads, WatchedReads
<1> QED
  BY <1>1, <1>2 DEF RenewNothing

LEMMA ScreenInitInv == ASSUME ScreenTimed PROVE ScreenInit => ScreenInv
BY DEF ScreenTimed, ScreenInit, ScreenInv, ScreenTyped, RunsOut, OnlyWatches

\* Somebody is at the screen: the time starts again.
LEMMA PersonMinded ==
  ASSUME ScreenTimed, ScreenInv, Person, ScreenTyped', OnlyWatches' PROVE ScreenInv'
<1> USE DEF ScreenTimed
<1>1. untouched' = 0 /\ polled' = FALSE /\ untouched' \in Nat
  BY DEF Person
<1>2. till' \in 0..UnlockFor
  BY DEF ScreenTyped
<1>3. untouched' + till' <= UnlockFor + 1
  <2>1. \A t \in 0..UnlockFor : 0 + t <= UnlockFor + 1
    OBVIOUS
  <2> QED
    BY <1>1, <1>2, <2>1, Zenon
<1>4. RunsOut'
  BY <1>1, <1>3, Zenon DEF RunsOut
<1> QED
  BY <1>4 DEF ScreenInv

LEMMA RoundMinded == ASSUME ScreenTimed, ScreenInv, Round PROVE ScreenInv'
<1> USE DEF ScreenTimed
<1> DEFINE unlocked == pin = NoPIN \/ till > 1
           starts == Starts /\ unlocked /\ role = "control"
           puts == AsksByHand /\ unlocked /\ role = "control"
           reads == AskedAlways \cup AskedByTheClock[TabDrawn(unlocked)]
                      \cup (IF puts THEN {"/remote/info"} ELSE {})
           renews == starts \/ (unlocked /\ PollFound(laptop) = "running" /\ ~RenewNothing(reads))
<1>1. /\ found' = PollFound(laptop) /\ tab' = TabDrawn(unlocked)
      /\ qrKnown' = (found' = "running" /\ (IF AsksByHand THEN puts /\ byHand ELSE qrKnown))
      /\ laptop' = (IF starts THEN "running" ELSE laptop)
      /\ obeyed' = (obeyed \/ starts)
      /\ till' = (IF renews /\ pin # NoPIN THEN UnlockFor ELSE OneLess(till))
      /\ untouched' = (IF starts THEN 0 ELSE IF untouched = 2 * UnlockFor THEN untouched ELSE untouched + 1)
      /\ polled' = (polled \/ (puts /\ ~byHand))
      /\ UNCHANGED <<pin, kept, role>>
  BY DEF Round
<1>2. tab' \in {"score", "get", "talk", "health", "other"}
  BY <1>1 DEF TabDrawn, ScreenInv, ScreenTyped
<1>3. renews => starts \/ puts
  BY <1>1, <1>2, ClockRenewsNothing
<1>4. OneLess(till) \in 0..UnlockFor /\ (till > 0 => OneLess(till) = till - 1) /\ (till = 0 => OneLess(till) = 0)
  BY DEF OneLess, ScreenInv, ScreenTyped
<1>5. puts <=> AsksAnyMore /\ unlocked
  BY DEF AsksByHand, AsksAnyMore, PollFound
<1>6. starts => role = "control"
  OBVIOUS
<1>7. AsksAnyMore' => starts \/ (laptop = "running" /\ role = "control" /\ ~qrKnown')
  BY <1>1 DEF AsksAnyMore, PollFound
<1>8. AsksAnyMore' /\ ~starts /\ ~puts => AsksAnyMore
  BY <1>1 DEF AsksAnyMore, PollFound, AsksByHand
<1>9. puts /\ byHand => qrKnown'
  BY <1>1, <1>5 DEF AsksAnyMore, PollFound, AsksByHand
<1> HIDE DEF reads, renews, puts, starts
<1>10. ScreenTyped'
  BY <1>1, <1>2, <1>4 DEF ScreenInv, ScreenTyped
<1>11. OnlyWatches'
  BY <1>1, <1>6 DEF ScreenInv, OnlyWatches
<1>12. ASSUME pin # NoPIN, till' > 0, ~polled'
       PROVE  untouched' + till' <= UnlockFor + 1 /\ (AsksAnyMore' => untouched' = 0)
  <2>1. ~polled /\ (puts => byHand) /\ till \in 0..UnlockFor /\ untouched \in Nat
        /\ till' \in 0..UnlockFor
    BY <1>1, <1>10, <1>12 DEF ScreenInv, ScreenTyped
  <2>2. CASE starts
    BY <1>1, <2>1, <2>2
  <2>3. CASE ~starts /\ puts
    <3>1. AsksAnyMore /\ till > 1
      BY <1>5, <1>12, <2>3
    <3>2. untouched = 0
      BY <1>12, <2>1, <3>1 DEF ScreenInv, RunsOut
    <3>3. untouched' = 0 \/ untouched' = 1
      BY <1>1, <2>3, <3>2
    <3>4. ~AsksAnyMore'
      BY <1>7, <1>9, <2>1, <2>3
    <3> QED
      BY <2>1, <3>3, <3>4
  <2>4. CASE ~starts /\ ~puts
    <3>1. till' = OneLess(till)
      BY <1>1, <1>3, <2>4
    <3>2. till > 1 /\ till' = till - 1
      BY <1>4, <1>12, <2>1, <3>1
    <3>3. untouched + till <= UnlockFor + 1 /\ ~AsksAnyMore
      BY <1>5, <1>12, <2>1, <2>4, <3>2 DEF ScreenInv, RunsOut
    <3>4. untouched' = untouched \/ untouched' = untouched + 1
      BY <1>1, <2>4
    <3>5. ~AsksAnyMore'
      BY <1>8, <2>4, <3>3
    <3> QED
      BY <2>1, <3>2, <3>3, <3>4, <3>5
  <2> QED
    BY <2>2, <2>3, <2>4
<1>13. RunsOut'
  BY <1>1, <1>12 DEF RunsOut
<1> QED
  BY <1>10, <1>11, <1>13 DEF ScreenInv

LEMMA ScreenNextInv == ASSUME ScreenTimed PROVE ScreenInv /\ [ScreenNext]_clubScreen => ScreenInv'
<1> SUFFICES ASSUME ScreenInv, [ScreenNext]_clubScreen PROVE ScreenInv'
  OBVIOUS
<1> USE DEF ScreenTimed
<1>0. ScreenTyped /\ OnlyWatches
  BY DEF ScreenInv
<1>1. ASSUME NEW p \in PINs, TypePIN(p) PROVE ScreenInv'
  <2>1. Person
    BY <1>1 DEF TypePIN
  <2>2. ScreenTyped'
    BY <1>1, <1>0 DEF TypePIN, ScreenTyped, Person, Touch, Touched, Saved, locking, kiosk
  <2>3. OnlyWatches'
    BY <1>1, <1>0 DEF TypePIN, ScreenTyped, OnlyWatches, locking, kiosk
  <2> QED
    BY <2>1, <2>2, <2>3, PersonMinded
<1>2. ASSUME NEW p \in PINs \cup {NoPIN}, SetPIN(p) PROVE ScreenInv'
  <2>1. Person
    BY <1>2 DEF SetPIN
  <2>2. ScreenTyped'
    BY <1>2, <1>0 DEF SetPIN, ScreenTyped, Person, Touch, Touched, Saved, locking, kiosk
  <2>3. OnlyWatches'
    BY <1>2, <1>0 DEF SetPIN, ScreenTyped, OnlyWatches, locking, kiosk
  <2> QED
    BY <2>1, <2>2, <2>3, PersonMinded
<1>3. ASSUME NEW r \in {"control", "view"}, PairWith(r) PROVE ScreenInv'
  <2>1. Person
    BY <1>3 DEF PairWith
  <2>2. ScreenTyped'
    BY <1>3, <1>0 DEF PairWith, ScreenTyped, Person, Touch, Touched, Saved, locking, kiosk
  <2>3. OnlyWatches'
    BY <1>3, <1>0 DEF PairWith, ScreenTyped, OnlyWatches, locking, kiosk
  <2> QED
    BY <2>1, <2>2, <2>3, PersonMinded
<1>4. ASSUME NEW t \in {"score", "get", "talk", "health", "other"}, OpenTab(t) PROVE ScreenInv'
  <2>1. Person
    BY <1>4 DEF OpenTab
  <2>2. ScreenTyped'
    BY <1>4, <1>0 DEF OpenTab, ScreenTyped, Person, Touch, Touched, Saved, locking, kiosk
  <2>3. OnlyWatches'
    BY <1>4, <1>0 DEF OpenTab, ScreenTyped, OnlyWatches, locking, kiosk
  <2> QED
    BY <2>1, <2>2, <2>3, PersonMinded
<1>5. CASE Lock
  <2>1. Person
    BY <1>5 DEF Lock
  <2>2. ScreenTyped'
    BY <1>5, <1>0 DEF Lock, ScreenTyped, Person, Touch, Touched, Saved, locking, kiosk
  <2>3. OnlyWatches'
    BY <1>5, <1>0 DEF Lock, ScreenTyped, OnlyWatches, locking, kiosk
  <2> QED
    BY <2>1, <2>2, <2>3, PersonMinded
<1>6. CASE Command
  <2>1. Person
    BY <1>6 DEF Command
  <2>2. ScreenTyped'
    BY <1>6, <1>0 DEF Command, ScreenTyped, Person, Touch, Touched, Saved, locking, kiosk
  <2>3. OnlyWatches'
    BY <1>6, <1>0 DEF Command, ScreenTyped, OnlyWatches, locking, kiosk
  <2> QED
    BY <2>1, <2>2, <2>3, PersonMinded
<1>7. CASE Wake
  <2>1. Person
    BY <1>7 DEF Wake
  <2>2. ScreenTyped'
    BY <1>7, <1>0 DEF Wake, ScreenTyped, Person, Touch, Touched, Saved, locking, kiosk
  <2>3. OnlyWatches'
    BY <1>7, <1>0 DEF Wake, ScreenTyped, OnlyWatches, locking, kiosk
  <2> QED
    BY <2>1, <2>2, <2>3, PersonMinded
<1>8. CASE StopWaiting
  <2>1. Person
    BY <1>8 DEF StopWaiting
  <2>2. ScreenTyped'
    BY <1>8, <1>0 DEF StopWaiting, ScreenTyped, Person, Touch, Touched, Saved, locking, kiosk
  <2>3. OnlyWatches'
    BY <1>8, <1>0 DEF StopWaiting, ScreenTyped, OnlyWatches, locking, kiosk
  <2> QED
    BY <2>1, <2>2, <2>3, PersonMinded
<1>9. CASE ForgetLaptop
  <2>1. Person
    BY <1>9 DEF ForgetLaptop
  <2>2. ScreenTyped'
    BY <1>9, <1>0 DEF ForgetLaptop, ScreenTyped, Person, Touch, Touched, Saved, locking, kiosk
  <2>3. OnlyWatches'
    BY <1>9, <1>0 DEF ForgetLaptop, ScreenTyped, OnlyWatches, locking, kiosk
  <2> QED
    BY <2>1, <2>2, <2>3, PersonMinded
<1>10. CASE Round
  BY <1>10, RoundMinded
<1>11. CASE LaptopTurns
  <2>1. ScreenTyped' /\ OnlyWatches' /\ UNCHANGED <<pin, till, polled, role, qrKnown, found>>
        /\ (untouched' = untouched \/ untouched' = 0) /\ till \in 0..UnlockFor
    BY <1>0, <1>11 DEF LaptopTurns, ScreenTyped, OnlyWatches, locking, kiosk
  <2>2. AsksAnyMore' => AsksAnyMore \/ untouched' = 0
    BY <1>11, <2>1 DEF LaptopTurns, AsksAnyMore
  <2>3. RunsOut'
    BY <2>1, <2>2 DEF ScreenInv, RunsOut
  <2> QED
    BY <2>1, <2>3 DEF ScreenInv
<1>12. CASE Restart
  <2>1. ScreenTyped' /\ till' = 0
    BY <1>0, <1>12 DEF Restart, ScreenTyped
  <2>2. OnlyWatches'
    BY <1>0, <1>12, Zenon DEF Restart, OnlyWatches
  <2> QED
    BY <2>1, <2>2 DEF ScreenInv, RunsOut
<1>13. CASE UNCHANGED clubScreen
  BY <1>13 DEF clubScreen, locking, kiosk, match, ScreenInv, ScreenTyped, OnlyWatches, RunsOut, AsksAnyMore
<1> QED
  BY <1>1, <1>2, <1>3, <1>4, <1>5, <1>6, <1>7, <1>8, <1>9, <1>10, <1>11, <1>12, <1>13 DEF ScreenNext

(* A screen left alone locks itself, on whichever tab and whatever it starts by itself, but for a    *)
(* match day whose question is asked in vain; and one that only watches has had the laptop do       *)
(* nothing: for an unlock of any length, any PINs and any comings and goings of the laptop.         *)
THEOREM ScreenAlwaysMinded == ASSUME ScreenTimed PROVE ScreenSpec => []ScreenIsMinded
<1>1. ScreenInv => ScreenIsMinded
  <2> SUFFICES ASSUME ScreenInv PROVE ScreenIsMinded
    OBVIOUS
  <2>1. till > 0 /\ untouched + till <= UnlockFor + 1 => untouched <= UnlockFor
    BY DEF ScreenTimed, ScreenInv, ScreenTyped
  <2> QED
    BY <2>1, Zenon DEF ScreenInv, RunsOut, OnlyWatches, ScreenIsMinded, LocksItself
<1>2. ScreenInit => ScreenInv
  BY ScreenInitInv
<1>3. ScreenInv /\ [ScreenNext]_clubScreen => ScreenInv'
  BY ScreenNextInv
<1> QED
  BY <1>1, <1>2, <1>3, PTL DEF ScreenSpec
==============================================================================
