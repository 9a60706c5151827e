------------------------------- MODULE MCLaptop ------------------------------
(* Parts around a match that share no state, each checked for itself in one run: *)
(* the scorer's book, the match state's file, what is looked up once a day, a      *)
(* clubhouse screen that pairs, the score without the scorer, what the server does *)
(* for the sponsors and for the result, its pre-match check, the scorer's own       *)
(* figures, what is added up from PlayCricket, and the clubhouse screen's lock.     *)
(* A behaviour is one of one part, chosen at the start.  The first five have their *)
(* own variables; every other part has the rest to itself: they are named in its   *)
(* INSTANCE, and what it does not need stays 0.                                    *)
EXTENDS ScoringSession, Store, Lookups, Pairing, WidgetFeed

Ball(k, r) == [kind |-> k, runs |-> r, credited |-> FALSE, nonStriker |-> FALSE]
Bowled == [kind |-> "W", runs |-> 0, credited |-> TRUE, nonStriker |-> FALSE]
RunOut == [kind |-> "W", runs |-> 0, credited |-> FALSE, nonStriker |-> TRUE]

\* A single, either wicket and a no-ball hit for four: enough for a whole match of two innings
\* and for what makes or breaks a maiden.
MatchBalls == {Ball("bat", 1), Bowled, RunOut, Ball("noball", 4)}

OneBowler == <<"b1">>

VARIABLES part, v1, v2, v3, v4, v5, v6, v7, v8, v9, v10, v11, v12, v13, v14, v15, v16,
          v17

\* An innings of two balls, and two wickets for ten.
Result == INSTANCE ResultCard WITH
    Quota <- 2, AllOut <- 2, MaxScore <- 2, MaxFaults <- 1, MaxUploads <- 1,
    match <- v1, first <- v2, quota <- v3, target <- v4, setup <- v5, latch <- v6,
    live <- v7, memo <- v8, pc <- v9, seen <- v10, blind <- v11, lost <- v12,
    uploads <- v13, faults <- v14

\* A tick is as long as a strap's panel; a count of viewers is old after one.
Straps == INSTANCE Airtime WITH
    Sponsors <- {"a", "b"}, SponsorShowMaxSec <- 2, Panel <- 1, Lag <- 1, ViewerFresh <- 1,
    MaxStreams <- 1, MaxTicks <- 4, MaxFaults <- 1,
    name <- v1, strap <- v2, stream <- v3, mon <- v4, open <- v5, rec <- v6, viewers <- v7,
    shown <- v8, ticks <- v9, faults <- v10, phantoms <- v11, page <- v12, crossed <- v13

Version(core, pre) == [core |-> core, pre |-> pre]

\* Two betas of 3.0.0, and 3.0.0.
Released == <<Version(<<3, 0, 0>>, <<1>>), Version(<<3, 0>>, <<2>>),
              Version(<<3, 0, 0>>, <<>>)>>

Before == INSTANCE Checks WITH
    Tests <- {4000, 8000}, Ladder <- <<100, 70, 35>>, Releases <- Released,
    subject <- v1, facts <- v2, run <- v3, last <- v4

(* The scorer's figures: three batters, two overs of two balls.                 *)

FrameBall(i, runs, bat, bowl, out) ==
    [at |-> i, runs |-> runs, bat |-> bat, bowl |-> bowl, out |-> out, legal |-> TRUE]

\* A single, a bye, a wicket of the bowler's and a run out at the other end.
InTheMiddle == {FrameBall(2, 1, 1, 1, "no"), FrameBall(1, 1, 0, 0, "no"),
                FrameBall(1, 0, 0, 0, "bowler"), FrameBall(2, 0, 0, 0, "run out")}

Figures == INSTANCE LiveFigures WITH
    BallsInOver <- 2, OversInInnings <- 2, Order <- 3, Bowling <- {"x", "y", "z"},
    Scored <- InTheMiddle, Fifty <- 2, TopN <- 2, MaxSlips <- 1,
    book <- v1, undone <- v2, innings <- v3, batting <- v4, bowling <- v5, fow <- v6,
    livePrev <- v7, prevState <- v8, matchLog <- v9, told <- v10, seen <- v11, whole <- v12,
    undos <- v13, slips <- v14

(* The records: Peter Smith, who has a second account, and Amy Shaw.             *)

Peter == <<"P", "eter", "S">>
PSmith == <<"P", "", "S">>
Amy == <<"A", "my", "S">>

OurPlayers == {[shown |-> PSmith, accounts |-> {Peter, PSmith}, roster |-> <<>>],
               [shown |-> <<"A", "", "S">>, accounts |-> {Amy}, roster |-> Amy]}

Line(n, how, runs) == [name |-> n, how |-> how, runs |-> runs]
Spell(n, wkts) == [name |-> n, wkts |-> wkts, runs |-> 1]
Scorecard(bat, bowl, result, winner) ==
    [innings |-> <<[team |-> "us", bat |-> bat, bowl |-> <<>>],
                   [team |-> "them", bat |-> <<>>, bowl |-> bowl]>>,
     result |-> result, applied |-> "us", winner |-> winner]

\* A match lost, one won, a tie and a draw, under either account.
Played == <<Scorecard(<<Line(PSmith, "not out", 1), Line(Amy, "out", 0)>>,
                      <<Spell(PSmith, 1), Spell(Amy, 2)>>, "L", "them"),
            Scorecard(<<Line(Peter, "dnb", 0)>>, <<>>, "W", "us"),
            Scorecard(<<Line(Peter, "out", 1)>>, <<>>, "T", "none"),
            Scorecard(<<Line(Peter, "out", 0)>>, <<>>, "D", "none")>>

Opponents == <<"x", "x", "y", "x", "x", "x">>
WonByUs == {[result |-> "L", applied |-> "them", winner |-> "us"]}

\* The second day begins a new season; every run is a milestone of some kind.
AddedUp == INSTANCE Records WITH
    People <- OurPlayers, Earlier <- Played, LastDay <- 6, DaysInSeason <- 6,
    Fixture <- Opponents, Results <- WonByUs, FreshDays <- 2, GapSeasons <- 2,
    MaxUnlisted <- 1, Meetings <- 3, H2HSeasons <- 2, RunStep <- 2, WicketStep <- 2,
    Fifty <- 1, FiveFor <- 1, Leaders <- 1, MaxBalls <- 2, MaxWkts <- 1, MaxTroubles <- 1,
    day <- v1, today <- v2, cards <- v3, kept <- v4, career <- v5, moments <- v6,
    spoiled <- v7, troubles <- v8

\* An unlock lasts two ticks, two wrong PINs pause for one.
Locking == INSTANCE ClubScreen WITH
    PINs <- {"p", "q"}, UnlockFor <- 2, MaxWrong <- 2, Pause <- 1, StartFor <- 2, MaxTurns <- 3,
    pin <- v1, role <- v2, kept <- v3, till <- v4, wrong <- v5, paused <- v6, found <- v7,
    waking <- v8, tab <- v9, startIn <- v10, qrKnown <- v11, laptop <- v12, byHand <- v13,
    obeyed <- v14, untouched <- v15, polled <- v16, turns <- v17

ASSUME Figures!FiguresAssumption /\ AddedUp!PeopleAssumption /\ Locking!ScreenTimed

\* What is left of the variables after the first so many.
rest14 == <<v15, v16, v17>>
rest13 == <<v14, rest14>>
rest8 == <<v9, v10, v11, v12, v13, rest13>>
rest4 == <<v5, v6, v7, v8, rest8>>
rest == <<v1, v2, v3, v4, rest4>>

own == <<store, lookups, pairing, widgetFeed>>
laptop == <<part, vars, own, rest>>

After14 == v15 = 0 /\ v16 = 0 /\ v17 = 0
After13 == v14 = 0 /\ After14
After8 == v9 = 0 /\ v10 = 0 /\ v11 = 0 /\ v12 = 0 /\ v13 = 0 /\ After13
After4 == v5 = 0 /\ v6 = 0 /\ v7 = 0 /\ v8 = 0 /\ After8
After0 == v1 = 0 /\ v2 = 0 /\ v3 = 0 /\ v4 = 0 /\ After4

LaptopInit ==
    /\ Init /\ StoreInit /\ LookupsInit /\ PairingInit /\ WidgetInit
    /\ \/ part \in {"book", "store", "lookups", "pairing", "widget"} /\ After0
       \/ part = "result" /\ Result!Init /\ After14
       \/ part = "airtime" /\ Straps!Init /\ After13
       \/ part = "checks" /\ Before!Init /\ After4
       \/ part = "figures" /\ Figures!FiguresInit /\ After14
       \/ part = "records" /\ AddedUp!RecordsInit /\ After8
       \/ part = "screen" /\ Locking!ScreenInit
    \* A part that stays begins in one way.
    /\ (part # "lookups" => away = "a")
    \* The sponsors are alike.
    /\ (part = "airtime" => v1 = "a")

Other ==
    \/ part = "result" /\ Result!Next /\ UNCHANGED rest14
    \/ part = "airtime" /\ Straps!Next /\ UNCHANGED rest13
    \/ part = "checks" /\ Before!Next /\ UNCHANGED rest4
    \/ part = "figures" /\ Figures!FiguresNext /\ UNCHANGED rest14
    \/ part = "records" /\ AddedUp!RecordsNext /\ UNCHANGED rest8
    \/ part = "screen" /\ Locking!ScreenNext

LaptopNext ==
    /\ UNCHANGED part
    /\ \/ part = "book" /\ Next /\ UNCHANGED <<own, rest>>
       \/ part = "store" /\ StoreNext /\ UNCHANGED <<vars, lookups, pairing, widgetFeed, rest>>
       \/ part = "lookups" /\ LookupsNext /\ UNCHANGED <<vars, store, pairing, widgetFeed, rest>>
       \/ part = "pairing" /\ PairingNext /\ UNCHANGED <<vars, store, lookups, widgetFeed, rest>>
       \/ part = "widget" /\ WidgetNext /\ UNCHANGED <<vars, store, lookups, pairing, rest>>
       \/ Other /\ UNCHANGED <<vars, own>>

LaptopSpec == LaptopInit /\ [][LaptopNext]_laptop

-----------------------------------------------------------------------------
(* The parts' properties, each of the states that are its part's.              *)

\* A card claims the match's result, or none.
ResultIsRight == part = "result" => Result!ResultIsRight

\* A sponsor is told of the time its strap was on screen, and of no more than Airtime allows.
AirtimeIsHonest == part = "airtime" => Straps!AirtimeIsHonest

\* What is reported of a match day is so: the pre-match check's answer is red for what is wrong
\* now, and for nothing else; the match report and the cards have the scorer's own figures; a
\* milestone, the season's leaders and the past meetings are what the scorecards say; what a
\* clubhouse screen shows and commands is for whoever unlocked it; and the overlay and the
\* scorer's page show the scorer's book.
ReportsAreRight ==
    /\ part = "book" /\ sess # None => PageIsTheBook
    /\ part = "checks" => Before!BadgeIsRight
    /\ part = "figures" => Figures!FiguresStand
    /\ part = "records" => AddedUp!RecordsAreRight
    /\ part = "screen" => Locking!ScreenIsMinded
==============================================================================
