------------------------------ MODULE Lookups --------------------------------
(***************************************************************************)
(* What is looked up on PlayCricket once a day, in the background: the        *)
(* season's figures of the two clubs (season.go, reset by watchdog.go when    *)
(* stuck), the head to head (h2h.go) and the club's record (career.go).  Each *)
(* has a flag that says a build is under way, and answers its callers at once. *)
(*                                                                         *)
(* What is built is known by the day, and the opposition, it was built for.    *)
(***************************************************************************)
EXTENDS Naturals

CONSTANTS
    Clubs,       \* the opposition: fetched, or chosen in the panel
    MaxDay,      \* bound on the days
    MaxJobs,     \* bound on the builds at work
    MaxEdits,    \* bound on the changes of the opposition
    MaxMishaps    \* bound on crashes of a build, failed requests and restarts

VARIABLES
    day, away,
    season,      \* seasonStats: [day, away, some, building]: some, of players found
    disk,        \* SeasonStatsCache
    h2h,         \* h2hResult with h2hKey, and h2hBuilding
    career,      \* careerData and careerBuilding
    job,         \* the builds
    edits, mishaps

memory == <<season, h2h, career>>
lookups == <<day, away, memory, disk, job, edits, mishaps>>

Never == [day |-> 0, away |-> "none", some |-> FALSE, building |-> FALSE]
NoJob == [of |-> "none", day |-> 0, away |-> "none", some |-> FALSE]
Jobs == 1..MaxJobs

LookupsInit ==
    /\ day = 1 /\ away \in Clubs
    /\ season = Never /\ disk = Never /\ h2h = Never /\ career = Never
    /\ job = [j \in Jobs |-> NoJob] /\ edits = 0 /\ mishaps = 0

Trouble == mishaps < MaxMishaps /\ mishaps' = mishaps + 1

\* The goroutine of a build, with the settings it has read.
FreeJobs == {j \in Jobs : job[j] = NoJob}
Begin(of) == \E j \in FreeJobs :
    /\ \A k \in FreeJobs : j <= k
    /\ job' = [job EXCEPT ![j] = [of |-> of, day |-> day, away |-> away, some |-> FALSE]]

JobEnds(j) == job' = [job EXCEPT ![j] = NoJob]
Built(j) == [day |-> job[j].day, away |-> job[j].away, some |-> job[j].some, building |-> FALSE]

-----------------------------------------------------------------------------
(* The season's figures: BuildSeasonStats.                                    *)

OfToday(built) == built.day = day /\ built.away = away

\* In memory; with another build under way, whatever is there; from the disk; or built.
AskSeason(force) ==
    /\ ~(~force /\ OfToday(season)) /\ ~season.building
    /\ IF ~force /\ OfToday(disk) /\ disk.some
       THEN season' = disk /\ UNCHANGED job
       ELSE season' = [season EXCEPT !.building = TRUE] /\ Begin("season")
    /\ UNCHANGED <<day, away, h2h, career, disk, edits, mishaps>>

\* A request that fails leaves a build with less in it, or nothing.
SeasonBuilt(j) ==
    /\ job[j].of = "season"
    /\ \/ UNCHANGED mishaps /\ season' = [Built(j) EXCEPT !.some = TRUE]
       \/ Trouble /\ season' = Built(j)
    /\ job' = [job EXCEPT ![j] = [@ EXCEPT !.of = "disk", !.some = season'.some]]
    /\ UNCHANGED <<day, away, h2h, career, disk, edits>>

\* The cache is written when the lock has been given up.
SeasonSaved(j) ==
    /\ job[j].of = "disk" /\ disk' = Built(j) /\ JobEnds(j)
    /\ UNCHANGED <<day, away, memory, edits, mishaps>>

\* Mutant: the build's own recover leaves the flag.
AfterCrashStill(s) == s

AfterCrash(s) == [s EXCEPT !.building = FALSE]

SeasonCrashes(j) ==
    /\ job[j].of = "season" /\ Trouble /\ season' = AfterCrash(season) /\ JobEnds(j)
    /\ UNCHANGED <<day, away, h2h, career, disk, edits>>

\* watchdogTick, of a build five minutes old: it goes on all the same.
ResetStuck ==
    /\ season.building /\ season' = [season EXCEPT !.building = FALSE]
    /\ UNCHANGED <<day, away, h2h, career, disk, job, edits, mishaps>>

-----------------------------------------------------------------------------
(* The head to head and the record.  A crash of either ends in a result too.  *)

\* A forced one forgets the answer there is.
AskH2H(force) ==
    LET known == IF force THEN [Never EXCEPT !.building = h2h.building] ELSE h2h
    IN /\ ~OfToday(known)
       /\ IF known.building THEN h2h' = known /\ UNCHANGED job
          ELSE h2h' = [known EXCEPT !.building = TRUE] /\ Begin("h2h")
       /\ UNCHANGED <<day, away, season, career, disk, edits, mishaps>>

H2HBuilt(j) ==
    /\ job[j].of = "h2h" /\ h2h' = Built(j) /\ JobEnds(j)
    /\ UNCHANGED <<day, away, season, career, disk, edits, mishaps>>

AskCareer ==
    /\ career.day # day /\ ~career.building
    /\ career' = [career EXCEPT !.building = TRUE] /\ Begin("career")
    /\ UNCHANGED <<day, away, season, h2h, disk, edits, mishaps>>

CareerBuilt(j) ==
    /\ job[j].of = "career" /\ career' = Built(j) /\ JobEnds(j)
    /\ UNCHANGED <<day, away, season, h2h, disk, edits, mishaps>>

-----------------------------------------------------------------------------

Edit ==
    /\ edits < MaxEdits /\ edits' = edits + 1 /\ away' \in Clubs \ {away}
    /\ UNCHANGED <<day, memory, disk, job, mishaps>>

NextDay ==
    /\ day < MaxDay /\ day' = day + 1
    /\ UNCHANGED <<away, memory, disk, job, edits, mishaps>>

ServerRestart ==
    /\ Trouble /\ season' = Never /\ h2h' = Never /\ career' = Never
    /\ job' = [j \in Jobs |-> NoJob]
    /\ UNCHANGED <<day, away, disk, edits>>

LookupsNext ==
    \/ \E force \in BOOLEAN : AskSeason(force) \/ AskH2H(force)
    \/ AskCareer \/ ResetStuck \/ Edit \/ NextDay \/ ServerRestart
    \/ \E j \in Jobs : \/ SeasonBuilt(j) \/ SeasonSaved(j) \/ SeasonCrashes(j)
                       \/ H2HBuilt(j) \/ CareerBuilt(j)

LookupsSpec == LookupsInit /\ [][LookupsNext]_lookups

-----------------------------------------------------------------------------
AtWork(of) == \E j \in Jobs : job[j].of = of

\* "an unexpected failure here once left "building" stuck forever" (season.go:457-459): who
\* is told that a build is under way waits for one that is.
NobodyWaitsInVain ==
    /\ season.building => AtWork("season")
    /\ h2h.building => AtWork("h2h")
    /\ career.building => AtWork("career")
=============================================================================
