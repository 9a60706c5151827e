----------------------------- MODULE LiveFigures ------------------------------
(***************************************************************************)
(* What the server keeps of the scorer's own figures (matchfacts.go): at each  *)
(* poll the innings' row, a row for each batter at the crease and for the      *)
(* bowler, and, told from the poll before, who has fallen and what the bowler  *)
(* who has just been rotated off still had to come.  The match report, the     *)
(* result card and the match page are written from these rows; what a restart   *)
(* forgets, the match log and the wickets told to the overlay (commentary.go,    *)
(* resultsvault.go), only fills their gaps.                                   *)
(*                                                                         *)
(* The innings is as the scorer has it (external): its frame shows the batters *)
(* at the crease and one bowler, and the frame that completes an over already  *)
(* shows the next.  Polls are missed, writes of the rows fail, the server      *)
(* restarts, and the scorer takes a ball back.  Batters are their places in    *)
(* the order.                                                                *)
(***************************************************************************)
EXTENDS Integers, Sequences, FiniteSets, SequencesExt

CONSTANTS
    BallsInOver,   \* 6; fewer when checking
    OversInInnings,
    Order,         \* the batters of a side
    Bowling,       \* the bowlers
    Scored,        \* the deliveries: [at: batter 1 or 2 of the frame, runs, bat, bowl, out, legal]
    Fifty,         \* the runs of a milestone: 50
    TopN,          \* the top scorers named: 3
    MaxSlips       \* bound on frames not polled, restarts, failed writes and balls taken back

NoOne == "nobody"

\* What is assumed of the constants; TLC evaluates it with the instance (MCLaptop).
FiguresAssumption ==
    /\ {BallsInOver, OversInInnings, Order, Fifty} \subseteq Nat \ {0} /\ Order > 2
    /\ \A d \in Scored : d.out # "no" => d.legal /\ d.runs = 0

VARIABLES
    book,      \* the innings on the scorer's screen
    undone,    \* what it was a ball ago
    innings,   \* live_innings
    batting,   \* live_batting: [runs, balls, out]
    bowling,   \* live_bowling: [balls, runs, wkts]
    fow,       \* live_fow: by wicket, [batter, score]
    livePrev,  \* what the previous poll looked like
    prevState, \* what the wickets for the overlay are told from
    matchLog,  \* of the match log, the innings and its wickets
    told,      \* history: the wickets told to the overlay
    seen,      \* the frame of the latest ball is in the rows
    whole,     \* and every ball's frame before it, from the innings' second ball
    undos,     \* balls taken back
    slips

rows == <<innings, batting, bowling, fow>>
memory == <<livePrev, prevState, matchLog>>
figures == <<book, undone, rows, memory, told, seen, whole, undos, slips>>

Batters == 1..Order
NoRow == [runs |-> -1]
NotYet == [balls |-> -1]
EmptyLog == [innings |-> NotYet, fallen |-> <<>>]
Fresh == [runs |-> 0, balls |-> 0]

\* last: what the bowler's last ball brought that is not against the bowler, if it ended an over.
FreshBowler == [balls |-> 0, runs |-> 0, wkts |-> 0, last |-> [runs |-> 0, wkts |-> 0]]

-----------------------------------------------------------------------------
(* The innings.                                                              *)

Opening ==
    [balls |-> 0, score |-> 0, pair |-> <<1, 2>>, fell |-> <<>>,
     bat |-> [b \in Batters |-> Fresh], bowl |-> [w \in Bowling |-> FreshBowler],
     bowler |-> CHOOSE w \in Bowling : TRUE, before |-> NoOne]

Wickets == Len(book.fell)
InningsOver == Len(book.pair) < 2 \/ book.balls = OversInInnings * BallsInOver

\* Who comes in for the batter that is out, if anybody is left.
Pair(out) ==
    LET next == Wickets + 3
    IN IF next <= Order THEN [i \in 1..2 |-> IF book.pair[i] = out THEN next ELSE book.pair[i]]
       ELSE SelectSeq(book.pair, LAMBDA b : b # out)

\* A delivery to one of the pair.
Delivered(d, b) ==
    LET over == d.legal /\ (book.balls + 1) % BallsInOver = 0
        credited == IF d.out = "bowler" THEN 1 ELSE 0
        last == [runs |-> d.runs - d.bowl, wkts |-> IF d.out = "run out" THEN 1 ELSE 0]
    IN [book EXCEPT
        !.balls = IF d.legal THEN @ + 1 ELSE @,
        !.score = @ + d.runs,
        !.pair = IF d.out = "no" THEN @ ELSE Pair(b),
        !.fell = IF d.out = "no" THEN @ ELSE Append(@, [batter |-> b, score |-> book.score]),
        !.bat[b] = [runs |-> @.runs + d.bat, balls |-> IF d.legal THEN @.balls + 1 ELSE @.balls],
        !.bowl[book.bowler] =
            [balls |-> IF d.legal THEN @.balls + 1 ELSE @.balls, runs |-> @.runs + d.bowl,
             wkts |-> @.wkts + credited, last |-> IF over THEN last ELSE FreshBowler.last],
        !.before = IF over THEN book.bowler ELSE @]

Slip == slips < MaxSlips /\ slips' = slips + 1

\* The frame that completes an over shows the next bowler, or nobody until one is chosen.
Ball ==
    \E d \in Scored :
        LET after == Delivered(d, book.pair[d.at])
        IN /\ ~InningsOver /\ book.bowler # NoOne
           /\ \E w \in IF after.balls % BallsInOver = 0 /\ d.legal
                       THEN (Bowling \cup {NoOne}) \ {book.bowler} ELSE {book.bowler} :
                book' = [after EXCEPT !.bowler = w]
           /\ undone' = book /\ seen' = FALSE
           /\ whole' = (whole /\ seen /\ (d.out = "no" \/ innings # NotYet))
           /\ IF seen THEN UNCHANGED slips ELSE Slip
           /\ UNCHANGED <<rows, memory, told, undos>>

\* Between overs, another bowler is chosen.
ChooseBowler ==
    /\ book.balls % BallsInOver = 0 /\ book.balls > 0 /\ ~InningsOver
    /\ book.bowl[book.before].balls % BallsInOver = 0
    /\ \E w \in Bowling \ {book.before, book.bowler} : book' = [book EXCEPT !.bowler = w]
    /\ UNCHANGED <<undone, rows, memory, told, seen, whole, undos, slips>>

TakeBack ==
    /\ Slip /\ undone # book /\ book' = undone /\ seen' = FALSE /\ whole' = FALSE
    /\ undos' = undos + 1
    /\ UNCHANGED <<undone, rows, memory, told>>

-----------------------------------------------------------------------------
(* A poll (LogLiveFigures).                                                   *)

Nobody == [set |-> FALSE]

Now == [balls |-> book.balls, score |-> book.score, wkts |-> Wickets]

\* A frame before the first ball is no innings yet.
HasInnings(rec) == rec # NotYet /\ (rec.score # 0 \/ rec.wkts # 0 \/ rec.balls # 0)
Blank == ~HasInnings(Now)

\* Whoever left the pair is out, in the order of the pair.
Gone == IF livePrev.set THEN SelectSeq(livePrev.pair, LAMBDA b : \A i \in DOMAIN book.pair : book.pair[i] # b)
        ELSE <<>>

\* The wickets since the poll before; none without one.
NewWickets == IF livePrev.set THEN (livePrev.wkts + 1)..Wickets ELSE {}

Who(w) == IF w - livePrev.wkts <= Len(Gone) THEN Gone[w - livePrev.wkts] ELSE 0

Fallen == {Who(w) : w \in NewWickets} \ {0}

LogBatting ==
    batting' = [b \in Batters |->
        IF b \in Range(book.pair) THEN [runs |-> book.bat[b].runs, balls |-> book.bat[b].balls, out |-> FALSE]
        ELSE IF b \in Fallen THEN [batting[b] EXCEPT !.out = TRUE]
        ELSE batting[b]]

LogFallOfWickets ==
    fow' = [w \in 1..(Order - 1) |->
        IF w \in NewWickets THEN [batter |-> Who(w), score |-> book.score] ELSE fow[w]]

\* Mutant: the over is finished whenever the bowler changes at an over's end.
RotatedOffAnyway ==
    /\ livePrev.set /\ livePrev.bowler \notin {NoOne, book.bowler}
    /\ book.balls % BallsInOver = 0

\* The bowler of the poll before has been rotated off with the over's last ball.
RotatedOff ==
    /\ livePrev.set /\ livePrev.bowler \notin {NoOne, book.bowler}
    /\ book.balls % BallsInOver = 0 /\ book.balls > livePrev.balls

NotNegative(n) == IF n < 0 THEN 0 ELSE n

\* Finish the over from what the score and the wickets have moved.
Finished(row) ==
    [balls |-> (livePrev.bowlerBalls \div BallsInOver + 1) * BallsInOver,
     runs |-> row.runs + NotNegative(book.score - livePrev.score),
     wkts |-> row.wkts + NotNegative(Wickets - livePrev.wkts)]

Shown(w) == [balls |-> book.bowl[w].balls, runs |-> book.bowl[w].runs, wkts |-> book.bowl[w].wkts]

LogBowling ==
    bowling' = [w \in Bowling |->
        IF w = book.bowler THEN Shown(w)
        ELSE IF RotatedOff /\ w = livePrev.bowler /\ bowling[w] # NotYet THEN Finished(bowling[w])
        ELSE bowling[w]]

Remembered ==
    [set |-> TRUE, pair |-> book.pair, wkts |-> Wickets, score |-> book.score, balls |-> book.balls,
     bowler |-> book.bowler,
     bowlerBalls |-> IF book.bowler = NoOne THEN 0 ELSE book.bowl[book.bowler].balls]

LogLiveFigures ==
    IF Blank THEN UNCHANGED <<rows, livePrev>>
    ELSE /\ innings' = Now
         /\ LogBatting /\ LogFallOfWickets /\ LogBowling
         /\ livePrev' = Remembered

\* The first frame is the base line; from then on a fall of wickets is told at once, in one.
Events == IF prevState # NotYet /\ Wickets > prevState.wkts THEN <<Wickets>> ELSE <<>>

BufferPCSEvents == prevState' = Now /\ told' = told \o Events

MatchLogSnapshot == matchLog' = [innings |-> Now, fallen |-> matchLog.fallen \o Events]

Poll ==
    /\ BufferPCSEvents /\ MatchLogSnapshot /\ LogLiveFigures /\ seen' = TRUE
    /\ UNCHANGED <<book, undone, whole, undos, slips>>

\* The write fails as a whole: the poll before is still what the next is told from.
PollFails ==
    /\ Slip /\ ~Blank /\ ~seen
    /\ BufferPCSEvents /\ MatchLogSnapshot
    /\ UNCHANGED <<book, undone, rows, livePrev, seen, whole, undos>>

\* The rows stay, what the poll before looked like is forgotten.
Restart ==
    /\ Slip /\ prevState # NotYet
    /\ livePrev' = Nobody /\ prevState' = NotYet /\ matchLog' = EmptyLog
    /\ seen' = FALSE /\ whole' = (whole /\ seen)
    /\ UNCHANGED <<book, undone, rows, told, undos>>

-----------------------------------------------------------------------------
(* The facts for the report and the cards (MatchFactsFromDB).                 *)

NamedBatters == {b \in Batters : batting[b] # NoRow}

\* By runs; of as many, the earlier in the order.
Above(b, c) == batting[b].runs > batting[c].runs \/ (batting[b].runs = batting[c].runs /\ b < c)

TopScorers ==
    LET sorted == SetToSortSeq(NamedBatters, Above)
    IN SelectSeq(SubSeq(sorted, 1, IF Len(sorted) < TopN THEN Len(sorted) ELSE TopN),
                 LAMBDA b : batting[b].runs > 0)

Milestones == [b \in {c \in NamedBatters : batting[c].runs >= Fifty} |-> (batting[b].runs \div Fifty) * Fifty]

FallOfWickets == {w \in DOMAIN fow : fow[w] # NoRow}

\* The rows first; the log only for an innings they do not have.
MergedMatchFacts == IF HasInnings(innings) THEN innings ELSE matchLog.innings

\* buildMatchSummary: the wickets of whichever names more.  Without an innings there is no report.
WicketsReported ==
    IF Cardinality(FallOfWickets) < Len(matchLog.fallen) THEN Len(matchLog.fallen)
    ELSE Cardinality(FallOfWickets)
HasData == HasInnings(MergedMatchFacts)

-----------------------------------------------------------------------------
FiguresInit ==
    /\ book = Opening /\ undone = Opening
    /\ innings = NotYet /\ batting = [b \in Batters |-> NoRow] /\ bowling = [w \in Bowling |-> NotYet]
    /\ fow = [w \in 1..(Order - 1) |-> NoRow] /\ livePrev = Nobody
    /\ prevState = NotYet /\ matchLog = EmptyLog /\ told = <<>>
    /\ seen = TRUE /\ whole = TRUE /\ undos = 0 /\ slips = 0

FiguresNext == Ball \/ ChooseBowler \/ TakeBack \/ Poll \/ PollFails \/ Restart

FiguresSpec == FiguresInit /\ [][FiguresNext]_figures

-----------------------------------------------------------------------------
IsOut(b) == \E i \in DOMAIN book.fell : book.fell[i].batter = b

\* A batter is in the rows from the frame after the first ball on, with the runs made; who has
\* fallen is out, and lacks only the ball that did it.
BattersStand ==
    \A b \in 1..(Wickets + 2) \cap Batters :
        /\ batting[b].runs = book.bat[b].runs /\ batting[b].out = IsOut(b)
        /\ book.bat[b].balls - batting[b].balls = IF IsOut(b) THEN 1 ELSE 0

\* A bowler has all the balls; and the runs and wickets, but for what the last ball of the latest
\* over brought that is not against the bowler: byes, or a run out.  Who was only to bowl has none.
BowlersStand ==
    \A w \in Bowling :
        /\ bowling[w] # NotYet => bowling[w].balls = book.bowl[w].balls
        /\ book.bowl[w].balls > 0 =>
            /\ bowling[w] # NotYet
            /\ <<bowling[w].runs - book.bowl[w].runs, bowling[w].wkts - book.bowl[w].wkts>>
                \in {<<0, 0>>, <<book.bowl[w].last.runs, book.bowl[w].last.wkts>>}

WicketsStand == \A w \in FallOfWickets : w <= Wickets /\ fow[w] = book.fell[w]

\* Each wicket is told once, and in order.
ToldInOrder ==
    \A i \in DOMAIN told : told[i] <= Wickets /\ (i > 1 => told[i - 1] < told[i])

\* Polled ball by ball, from the second ball, the rows are the scorer's and every wicket is told;
\* whatever was missed, failed or restarted, nobody is put out who is in, or credited with runs not
\* made, and no wicket is told or reported twice, as long as the scorer takes nothing back; what
\* has been seen can be reported; and the best are named, the best first.
FiguresStand ==
    /\ whole /\ seen /\ innings # NotYet =>
        /\ BattersStand /\ BowlersStand /\ WicketsStand
        /\ WicketsReported = Wickets /\ told = [i \in 1..Wickets |-> i]
    /\ HasInnings(prevState) => HasData
    /\ undos = 0 =>
        /\ ToldInOrder /\ WicketsReported <= Wickets /\ MergedMatchFacts.balls <= book.balls
        /\ \A b \in NamedBatters : batting[b].runs <= book.bat[b].runs /\ (batting[b].out => IsOut(b))
        /\ \A w \in FallOfWickets : w <= Wickets /\ fow[w].score >= book.fell[w].score
    /\ \A i \in DOMAIN TopScorers : \A b \in NamedBatters :
        batting[b].runs > batting[TopScorers[i]].runs => \E j \in 1..(i - 1) : TopScorers[j] = b
    /\ \A b \in DOMAIN Milestones : Milestones[b] <= batting[b].runs /\ batting[b].runs < Milestones[b] + Fifty
==============================================================================
