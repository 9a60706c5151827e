------------------------------- MODULE Records -------------------------------
(***************************************************************************)
(* What is added up from PlayCricket's scorecards: the season's batting and    *)
(* bowling (season.go), every player's record for the club and the milestones   *)
(* a match adds to it (career.go), and the past meetings (h2h.go).              *)
(*                                                                         *)
(* A scorecard is entered on its day and may be corrected for some days more   *)
(* (external).  The head to head and the record share one cache of scorecards  *)
(* on disk.  A name is <<initial, rest, surname>>: a scorebar prints one in      *)
(* short, and a person may have more than one account on PlayCricket.           *)
(***************************************************************************)
EXTENDS Integers, FiniteSetsExt, SequencesExt

CONSTANTS
    People,       \* the club's: [shown: on the scorebar, accounts: on the cards, roster: a name, or none]
    Earlier,      \* the scorecards of the days before the first: day -> card
    LastDay,
    DaysInSeason,
    Fixture,      \* day -> the opposition
    Results,      \* how a match may end: [result, applied, winner]
    FreshDays,    \* how long a scorecard may still be corrected: 7
    GapSeasons,   \* empty seasons that are the start of the records: 2
    MaxUnlisted,  \* lists that fail, of a season each, that a build puts up with: 3
    Meetings,     \* meetings read for the head to head: 5
    H2HSeasons,   \* and how far back: 6
    RunStep, WicketStep, Fifty, FiveFor,   \* 500, 50, 50 and 5
    Leaders,      \* named of a season: 3
    MaxBalls, MaxWkts,   \* bounds on a day: on the balls that bring a batter in or a run, on the wickets
    MaxTroubles   \* bound on corrections and failed requests

VARIABLES
    day,
    today,     \* [bats, as, runs, wkts]: whether we bat, under which account, the figures so far
    cards,     \* PlayCricket: day -> card
    kept,      \* .h2h_cache
    career,    \* careerData: [day, lookup, since], and whole: nothing is missing from it
    moments,   \* the club moments: [day, who, what, mark]
    spoiled,   \* history: a milestone was told of a record not all there, or of a namesake's, or
               \* the card under it was corrected afterwards
    troubles

records == <<day, today, cards, kept, career, moments, spoiled, troubles>>

NoMatch == [innings |-> <<>>, result |-> "none", applied |-> "none", winner |-> "none"]
NoCareer == [day |-> 0, lookup |-> {}, since |-> 0, whole |-> FALSE]
NoName == <<>>
NotIn == -1   \* has not batted

Days == 1..LastDay
DaysBefore == [d \in 1..(day - 1) |-> d]
Year(d) == d \div DaysInSeason

InitSur(n) == <<n[1], "", n[3]>>
Surname(n) == <<"", "", n[3]>>

\* One person's accounts agree on the initial and the surname; the scorebar's name is one of theirs.
PeopleAssumption ==
    \A p \in People : \A a \in p.accounts :
        InitSur(a) = InitSur(p.shown) /\ (p.roster # NoName => p.roster \in p.accounts)

-----------------------------------------------------------------------------
Summed(s) == FoldLeft(LAMBDA n, m : n + m, 0, s)
Total(lines, F(_)) == Summed([i \in DOMAIN lines |-> F(lines[i])])
Flat(S(_), s) == FlattenSeq([i \in DOMAIN s |-> S(s[i])])
Of(lines, n) == SelectSeq(lines, LAMBDA l : l.name = n)
First(n, s) == SubSeq(s, 1, IF Len(s) < n THEN Len(s) ELSE n)

FirstSeen(lines) ==
    FoldLeft(LAMBDA seen, l : IF Contains(seen, l.name) THEN seen ELSE Append(seen, l.name), <<>>, lines)

\* The whole name is tried, the initial with the surname, then the surname (careerRecord,
\* lookupSeasonStats).
Found(lookup, n) ==
    LET keys == <<n, InitSur(n), Surname(n)>>
        Tier(i) == {e.rec : e \in {x \in lookup : x.key = keys[i]}}
        found == {i \in 1..3 : Tier(i) # {}}
    IN IF found = {} THEN {} ELSE Tier(Min(found))

\* resolvePlayer: the roster's name for the shirt number, or the scorebar's.
Resolved(p) == IF p.roster # NoName THEN p.roster ELSE p.shown

-----------------------------------------------------------------------------
(* The season.                                                               *)

\* A side's innings, without those who did not bat.
Batted(card, side) ==
    Flat(LAMBDA i : IF i.team = side THEN SelectSeq(i.bat, LAMBDA l : l.how # "dnb") ELSE <<>>,
         card.innings)

\* A side's bowlers are on the other innings of the match.
Bowled(card, side) == Flat(LAMBDA i : IF i.team = side THEN <<>> ELSE i.bowl, card.innings)

Batting(lines, n) ==
    LET mine == Of(lines, n)
        best == Max({mine[i].runs : i \in DOMAIN mine})
    IN [name |-> n, inn |-> Len(mine), runs |-> Total(mine, LAMBDA l : l.runs),
        outs |-> Len(SelectSeq(mine, LAMBDA l : l.how = "out")),
        hs |-> [runs |-> best, notOut |-> \E i \in DOMAIN mine :
                                             mine[i].runs = best /\ mine[i].how = "not out"]]

\* Of several on one key, the one with the most innings: a person's main account.
MainAccount(lines, names) ==
    names[CHOOSE i \in DOMAIN names :
            \A j \in DOMAIN names :
                LET a == Len(Of(lines, names[i]))
                    b == Len(Of(lines, names[j]))
                IN a > b \/ (a = b /\ i <= j)]

\* A surname is a key when one player has it, and nobody is listed under it already.
SeasonLookup(lines) ==
    LET names == FirstSeen(lines)
        direct == UNION {{n, InitSur(n)} : n \in Range(names)}
        Sharing(k) == SelectSeq(names, LAMBDA n : k \in {n, InitSur(n)})
        single == {n \in Range(names) : \A m \in Range(names) \ {n} : m[3] # n[3]}
    IN {[key |-> k, rec |-> Batting(lines, MainAccount(lines, Sharing(k)))] : k \in direct}
       \cup {[key |-> Surname(n), rec |-> Batting(lines, n)] :
                n \in {m \in single : Surname(m) \notin direct}}

Bowling(lines, n) ==
    [name |-> n, wkts |-> Total(Of(lines, n), LAMBDA l : l.wkts),
     runs |-> Total(Of(lines, n), LAMBDA l : l.runs)]

TopScorers(lines) ==
    First(Leaders, SetToSortSeq({e.rec : e \in {x \in SeasonLookup(lines) : x.rec.runs > 0}},
                                LAMBDA a, b : a.runs > b.runs))   \* of as many, by name

TopBowlers(lines) ==
    First(Leaders, SetToSortSeq({b \in {Bowling(lines, n) : n \in Range(FirstSeen(lines))} : b.wkts > 0},
                                LAMBDA a, b : a.wkts > b.wkts \/ (a.wkts = b.wkts /\ a.runs < b.runs)))

\* The completed matches' cards of this season, as PlayCricket has them (BuildSeasonStats).
SeasonCards == [i \in 1..(day - 1) |-> IF Year(i) = Year(day) THEN cards[i] ELSE NoMatch]
SeasonBatting(side) == Flat(LAMBDA c : Batted(c, side), SeasonCards)
SeasonBowling(side) ==
    Flat(LAMBDA c : IF Len(c.innings) < 2 THEN <<>> ELSE Bowled(c, side), SeasonCards)

\* What the overlay shows under a batter's name.
PlayerStats(lookup, p) == Found(lookup, Resolved(p))

-----------------------------------------------------------------------------
(* Today's match, and the cards of it and of the days before (external).        *)

Players == SetToSeq(People)

TodayCard ==
    [innings |-> <<
        [team |-> "us", bowl |-> <<>>,
         bat |-> [i \in DOMAIN Players |->
                    [name |-> today.as[Players[i]], how |-> IF today.runs[Players[i]] = NotIn THEN "dnb" ELSE "out",
                     runs |-> today.runs[Players[i]]]]],
        [team |-> "them", bat |-> <<>>,
         bowl |-> [i \in DOMAIN Players |->
                    [name |-> today.as[Players[i]], wkts |-> today.wkts[Players[i]], runs |-> 0]]]>>,
     result |-> "none", applied |-> "none", winner |-> "none"]

\* Today's card is on PlayCricket as well, as it stands.
Published(d) == IF d = day THEN TodayCard ELSE cards[d]

\* One of the day's two innings is followed.
Opening(bats, as) == [bats |-> bats, as |-> as, runs |-> [p \in People |-> NotIn], wkts |-> [p \in People |-> 0]]
Accounts == {as \in [People -> UNION {p.accounts : p \in People}] : \A p \in People : as[p] \in p.accounts}

Troubled(n) == troubles + n <= MaxTroubles /\ troubles' = troubles + n

Added(f) == FoldFunction(LAMBDA n, m : n + m, 0, f)

Bat(p) ==
    /\ today.bats /\ Added(today.runs) + Cardinality(People) < MaxBalls
    /\ today' = [today EXCEPT !.runs[p] = @ + 1]
    /\ UNCHANGED <<day, cards, kept, career, moments, spoiled, troubles>>

Bowl(p) ==
    /\ ~today.bats /\ Added(today.wkts) < MaxWkts /\ today' = [today EXCEPT !.wkts[p] = @ + 1]
    /\ UNCHANGED <<day, cards, kept, career, moments, spoiled, troubles>>

NextDay ==
    /\ day < LastDay /\ day' = day + 1
    /\ \E r \in Results : cards' = [cards EXCEPT ![day] = r @@ [innings |-> TodayCard.innings]]
    /\ \E bats \in BOOLEAN, as \in Accounts : today' = Opening(bats, as)
    /\ UNCHANGED <<kept, career, moments, spoiled, troubles>>

Fresh(d) == d > day - FreshDays

\* A batter's runs are entered right.
Correct(d) ==
    /\ d < day /\ Fresh(d) /\ Troubled(1)
    /\ \E i \in DOMAIN cards[d].innings : \E j \in DOMAIN cards[d].innings[i].bat :
        \E r \in {cards[d].innings[i].bat[j].runs - 1, cards[d].innings[i].bat[j].runs + 1} \cap Nat :
            /\ cards[d].innings[i].bat[j].how # "dnb"
            /\ cards' = [cards EXCEPT ![d].innings[i].bat[j].runs = r]
    /\ spoiled' = (spoiled \/ \E m \in moments : m.day >= d)
    /\ career' = [career EXCEPT !.whole = FALSE]
    /\ UNCHANGED <<day, today, kept, moments>>

-----------------------------------------------------------------------------
(* The cache, and the record for the club (h2hCached, buildCareer).            *)

\* From disk when it may be kept and is there; else PlayCricket's, and kept.
Cached(d, keep) == IF keep /\ kept[d] # NoMatch THEN kept[d] ELSE Published(d)
Keep(ds) == kept' = [d \in Days |-> IF d \in ds /\ kept[d] = NoMatch THEN Published(d) ELSE kept[d]]

\* Mutant: today's match is part of the record it is measured against.
PastMatchesAndToday(s, unlisted) == {d \in Days : d <= day /\ Year(d) = s /\ s \notin unlisted}

\* The matches of a season whose list was got.
PastMatches(s, unlisted) == {d \in Days : d < day /\ Year(d) = s /\ s \notin unlisted}

ReadCard(d) == Cached(d, ~Fresh(d))
SomebodyPlayed(card) == Batted(card, "us") # <<>> \/ Bowled(card, "us") # <<>>

\* The seasons from this one back, until so many in a row are empty.  A list that fails is neither.
SeasonsRead(unlisted, lost) ==
    LET Empty(s) == \A d \in PastMatches(s, unlisted) : d \in lost \/ ~SomebodyPlayed(ReadCard(d))
        EmptyFrom(s) == {t \in s..Year(day) : t \notin unlisted /\ \A u \in s..t : Empty(u)}
        Starts(s) == s < Year(day) /\ s \notin unlisted /\ Cardinality(EmptyFrom(s)) >= GapSeasons
    IN {s \in 0..Year(day) : \A t \in s + 1..Year(day) : ~Starts(t)}

Record(batting, bowling, n) ==
    LET AtLeast(r) == Len(SelectSeq(Of(batting, n), LAMBDA l : l.runs >= r))
    IN [name |-> n, runs |-> Total(Of(batting, n), LAMBDA l : l.runs),
        fifties |-> AtLeast(Fifty) - AtLeast(2 * Fifty), hundreds |-> AtLeast(2 * Fifty),
        wkts |-> Total(Of(bowling, n), LAMBDA l : l.wkts),
        fivefors |-> Len(SelectSeq(Of(bowling, n), LAMBDA l : l.wkts >= FiveFor))]

\* Mutant: two records of one initial and surname are two people.
NobodyLeftOut(names) == names

\* A record whose initial and surname another shares is left out: it may be the same person's.
Unambiguous(names) == {n \in names : \A m \in names \ {n} : InitSur(m) # InitSur(n)}

CareerLookup(batting, bowling) ==
    LET names == {l.name : l \in Range(batting) \cup Range(bowling)}
        keys(n) == {n, InitSur(n)} \cup (IF \A m \in names \ {n} : m[3] # n[3] THEN {Surname(n)} ELSE {})
    IN UNION {{[key |-> k, rec |-> Record(batting, bowling, n)] : k \in keys(n)} : n \in Unambiguous(names)}

BuildCareer ==
    \E unlisted \in SUBSET (0..Year(day)), lost \in SUBSET (1..day - 1) :
        LET read == {d \in UNION {PastMatches(s, unlisted) : s \in SeasonsRead(unlisted, lost)} : d \notin lost}
            Lines(Side(_, _)) ==
                Flat(LAMBDA d : IF d \in read THEN Side(ReadCard(d), "us") ELSE <<>>, [d \in Days |-> d])
        IN /\ Cardinality(unlisted) <= MaxUnlisted
           /\ Troubled(Cardinality(unlisted) + Cardinality(lost))
           /\ career' = [day |-> day, lookup |-> CareerLookup(Lines(Batted), Lines(Bowled)),
                         since |-> Min({Year(d) : d \in read} \cup {Year(day)}),
                         whole |-> \A d \in 1..day - 1 :
                            SomebodyPlayed(cards[d]) => d \in read /\ ReadCard(d) = cards[d]]
           /\ Keep({d \in read : ~Fresh(d)})

\* With more lists missing, as in an outage, there is no record today.
NoRecord ==
    /\ Troubled(1) /\ career' = [NoCareer EXCEPT !.day = day] /\ UNCHANGED kept

ClubCareer ==
    /\ career.day # day /\ (BuildCareer \/ NoRecord)
    /\ UNCHANGED <<day, today, cards, moments, spoiled>>

-----------------------------------------------------------------------------
(* Milestones: LogClubMilestones.                                             *)

\* The round numbers get rarer.
Mark(n, step, often) == n > 0 /\ ((n <= often * step /\ n % step = 0) \/ n % (2 * step) = 0)
RunMark(n) == Mark(n, RunStep, 6)
WicketMark(n) == Mark(n, WicketStep, 4)

\* Of the marks passed in a match, the highest is told.
Crossed(marks) == IF marks = {} THEN {} ELSE {Max(marks)}

Milestone(rec, what, marks) == {[who |-> rec.name, what |-> what, mark |-> m] : m \in marks}

BattingMilestones(rec, runs) ==
    Milestone(rec, "runs", Crossed({n \in rec.runs + 1..rec.runs + runs : RunMark(n)}))
    \cup Milestone(rec, "hundred", IF runs >= 2 * Fifty THEN {rec.hundreds + 1} ELSE {})
    \cup Milestone(rec, "fifty",
                   IF runs >= Fifty /\ runs < 2 * Fifty /\ rec.hundreds + rec.fifties = 0 THEN {1} ELSE {})

BowlingMilestones(rec, wkts) ==
    Milestone(rec, "wickets", Crossed({n \in rec.wkts + 1..rec.wkts + wkts : WicketMark(n)}))
    \cup Milestone(rec, "five-for", IF wkts >= FiveFor THEN {rec.fivefors + 1} ELSE {})

\* A frame shows a batter's runs while we bat, a bowler's wickets while we field: each in it is
\* looked at by itself.  A milestone is told once a match.
LogClubMilestones(p) ==
    /\ career.day = day /\ (today.bats => today.runs[p] # NotIn)
    /\ \E rec \in Found(career.lookup, Resolved(p)) :
        LET hits == IF today.bats THEN BattingMilestones(rec, today.runs[p])
                                  ELSE BowlingMilestones(rec, today.wkts[p])
            told == {[day |-> day] @@ h : h \in hits} \ moments
        IN /\ told # {} /\ moments' = moments \cup told
           /\ spoiled' = (spoiled \/ ~career.whole \/ rec.name \notin p.accounts)
    /\ UNCHANGED <<day, today, cards, kept, career, troubles>>

-----------------------------------------------------------------------------
(* The head to head (buildH2H, h2hGame).                                       *)

\* Who a result is applied to is one of the fixture's teams.
Outcome(card) ==
    CASE card.result = "W" -> IF card.applied = "us" THEN "W" ELSE "L"
      [] card.result = "L" -> IF card.applied = "us" THEN "L" ELSE "W"
      [] card.result \in {"D", "T"} -> card.result
      [] OTHER -> "N"

\* The latest meetings of the two teams, the latest first.
MeetingDays ==
    First(Meetings, SelectSeq(Reverse(DaysBefore),
                              LAMBDA d : /\ cards[d] # NoMatch /\ Fixture[d] = Fixture[day]
                                         /\ Year(d) > Year(day) - H2HSeasons))

Best(lines, Above(_, _)) ==
    {lines[i] : i \in {j \in DOMAIN lines : \A k \in DOMAIN lines :
                        Above(lines[j], lines[k]) \/ (~Above(lines[k], lines[j]) /\ j <= k)}}

Story(card) ==
    [outcome |-> Outcome(card),
     topBat |-> [s \in {"us", "them"} |-> Best(Batted(card, s), LAMBDA a, b : a.runs > b.runs)],
     bestBowl |-> [s \in {"us", "them"} |->
        Best(Bowled(card, s), LAMBDA a, b : a.wkts > b.wkts \/ (a.wkts = b.wkts /\ a.runs < b.runs))]]

Games(days) ==
    SelectSeq([i \in DOMAIN days |-> Cached(days[i], TRUE)],
              LAMBDA c : c.innings # <<>> \/ Outcome(c) # "N")

Counted(games, o) == Len(SelectSeq(games, LAMBDA c : Outcome(c) = o))

\* A meeting's card is kept for good, however fresh.
HeadToHead ==
    /\ Keep(Range(MeetingDays)) /\ kept' # kept
    /\ UNCHANGED <<day, today, cards, career, moments, spoiled, troubles>>

-----------------------------------------------------------------------------
RecordsInit ==
    /\ day = Cardinality(DOMAIN Earlier) + 1
    /\ cards = [d \in Days |-> IF d \in DOMAIN Earlier THEN Earlier[d] ELSE NoMatch]
    /\ kept = [d \in Days |-> NoMatch] /\ career = NoCareer
    /\ \E bats \in BOOLEAN, as \in Accounts : today = Opening(bats, as)
    /\ moments = {} /\ spoiled = FALSE /\ troubles = 0

RecordsNext ==
    \/ \E p \in People : Bat(p) \/ Bowl(p) \/ LogClubMilestones(p)
    \/ \E d \in Days : Correct(d)
    \/ NextDay \/ ClubCareer \/ HeadToHead

RecordsSpec == RecordsInit /\ [][RecordsNext]_records

-----------------------------------------------------------------------------
\* What a person has made for the club up to a day, under whichever account.
Made(p, d) ==
    LET c == [i \in 1..d |-> Published(i)]
        mine(lines) == SelectSeq(lines, LAMBDA l : l.name \in p.accounts)
    IN [runs |-> Total(mine(Flat(LAMBDA x : Batted(x, "us"), c)), LAMBDA l : l.runs),
        wickets |-> Total(mine(Flat(LAMBDA x : Bowled(x, "us"), c)), LAMBDA l : l.wkts)]

\* A milestone of a record that was all there is the person's, was passed in that match, and is
\* told in no other: whatever accounts the person has, and who else has the name.
MilestonesAreTrue ==
    ~spoiled => \A m \in moments :
        /\ m.what \in {"runs", "wickets"} => \E p \in People :
            m.who \in p.accounts /\ Made(p, m.day - 1)[m.what] < m.mark /\ m.mark <= Made(p, m.day)[m.what]
        /\ \A n \in moments : n # m /\ n.who = m.who /\ n.what = m.what => n.mark # m.mark

\* The season's figures shown for a player are of somebody of that surname: of the very account the
\* roster names in full, else of the one of that initial and surname with the most innings; and
\* nobody with more runs, or more wickets, is missing from the leaders but for a second account that
\* shares a leader's initial and surname.
SeasonIsRight ==
    LET lines == SeasonBatting("us")
        names == Range(FirstSeen(lines))
        lookup == SeasonLookup(lines)
        scorers == TopScorers(lines)
        bowling == SeasonBowling("us")
        bowlers == TopBowlers(bowling)
        Before(i, s, n) == \E k \in 1..(i - 1) : s[k].name = n
    IN /\ \A p \in People :
            /\ p.roster \in names => PlayerStats(lookup, p) # {}
            /\ \A rec \in PlayerStats(lookup, p) :
                /\ rec.name[3] = p.shown[3]
                /\ IF p.roster \in names /\ p.roster # InitSur(p.roster) THEN rec.name = p.roster
                   ELSE \A n \in names : InitSur(n) = InitSur(p.shown) => Len(Of(lines, n)) <= rec.inn
       /\ \A n \in names : \A i \in DOMAIN scorers : Batting(lines, n).runs > scorers[i].runs =>
            Before(i, scorers, n) \/ \E m \in names \ {n} : InitSur(m) = InitSur(n)
       /\ \A n \in Range(FirstSeen(bowling)) : \A i \in DOMAIN bowlers :
            Bowling(bowling, n).wkts > bowlers[i].wkts => Before(i, bowlers, n)

\* The head to head counts a meeting for who won it, unless the card was kept before it was right.
HeadToHeadIsRight ==
    LET days == MeetingDays
        games == Games(days)
        WonBy(side) == Cardinality({i \in DOMAIN days : cards[days[i]].winner = side})
    IN (\A i \in DOMAIN days : Cached(days[i], TRUE) = cards[days[i]]) =>
        /\ Counted(games, "W") = WonBy("us") /\ Counted(games, "L") = WonBy("them")
        /\ \A i \in DOMAIN games : \A side \in {"us", "them"} : \A l \in Range(Batted(games[i], side)) :
            \E top \in Story(games[i]).topBat[side] : top.runs >= l.runs

RecordsAreRight == MilestonesAreTrue /\ SeasonIsRight /\ HeadToHeadIsRight
==============================================================================
