--------------------------- MODULE ScoringSession ----------------------------
(***************************************************************************)
(* Manual scoring: the event-sourced session (internal/scoring/session.go)  *)
(* and the handlers under manualMu that drive it (server/manual.go and       *)
(* server/handler_post.go).  Every press is an event; the book is rebuilt    *)
(* from the log on an undo, on an edit and after a restart.                  *)
(*                                                                         *)
(* sess is the one live session in memory, file is manual_scoring.json, and  *)
(* a save may fail: the code logs it and scores on.  A crash between the     *)
(* change in memory and the rename is a failed save followed by Restart.     *)
(*                                                                         *)
(* The book of one innings (internal/scoring/engine.go) is a pure,           *)
(* deterministic engine that takes one delivery at a time: an innings is a   *)
(* record, and every method that changes it in the code is an operator from  *)
(* innings to innings here.  Names, shirt numbers, ticker tokens and how-out  *)
(* texts are left out: a batter is his place in the printed order, a bowler   *)
(* is a member of Bowlers, and a dismissal is "credited to the bowler" or not.*)
(***************************************************************************)
EXTENDS Integers, FiniteSets, SequencesExt

CONSTANTS
    XI,            \* players in a side (11)
    AllOut,        \* wickets that end an innings (10)
    BallsPerOver,  \* legal balls in an over (6)
    MaxOvers,      \* overs in an innings
    Attack,        \* the default bowlers, in order (the last five of the XI)
    Extra,         \* bowlers only SetBowler can bring on
    SpellOvers     \* overs from one end before the default attack rotates (4)

Batters == 1..XI
Bowlers == {Attack[i] : i \in DOMAIN Attack} \cup Extra

ASSUME BookAssumption ==
    /\ XI \in Nat /\ XI >= 2 /\ AllOut \in 1..XI-1
    /\ BallsPerOver \in Nat \ {0} /\ MaxOvers \in Nat \ {0} /\ SpellOvers \in Nat \ {0}
    /\ Attack \in Seq(Bowlers) /\ Attack # <<>> /\ IsFiniteSet(Extra)

NoTarget == 0        \* nil: a first innings; a real target is at least 1
NoBowler == "nobody" \* no entry in BowlerSchedule

-----------------------------------------------------------------------------
(* One delivery.  "bat" stands for the kinds dot, 1, 2, 3, 4 and 6 (runs     *)
(* off the bat), "bye" for bye and legbye.  credited and nonStriker are read *)
(* for a wicket only.                                                        *)

Kinds == {"bat", "W", "wide", "noball", "bye"}
Delivery == [kind : Kinds, runs : 0..6, credited : BOOLEAN, nonStriker : BOOLEAN]

ValidDelivery(d) == /\ d.kind \in Kinds /\ d.runs \in 0..6
                    /\ d.kind = "bat" => d.runs # 5

Legal(d)    == d.kind \notin {"wide", "noball"}
ByeRuns(d)  == IF d.runs = 0 THEN 1 ELSE d.runs
TeamRuns(d) == CASE d.kind = "bat" -> d.runs
                 [] d.kind = "bye" -> ByeRuns(d)
                 [] d.kind = "W"   -> 0
                 [] OTHER          -> 1 + d.runs
OffBat(d)   == IF d.kind \in {"bat", "noball"} THEN d.runs ELSE 0
Conceded(d) == IF d.kind = "bye" THEN 0 ELSE TeamRuns(d)

\* Runs the batters actually crossed for: a boundary is not run.
Ran(d) == CASE d.kind = "W"    -> 0
            [] d.kind = "wide" -> d.runs
            [] d.kind = "bye"  -> IF ByeRuns(d) = 4 THEN 0 ELSE ByeRuns(d)
            [] OTHER           -> IF d.runs \in {4, 6} THEN 0 ELSE d.runs

-----------------------------------------------------------------------------
NewInnings(target) ==
    [total |-> 0, wkts |-> 0, legal |-> 0, extras |-> 0, target |-> target,
     order |-> [i \in Batters |-> i], nextBat |-> 2, striker |-> 1, nonStriker |-> 2,
     bat |-> [b \in Batters |-> [runs |-> 0, balls |-> 0, out |-> FALSE]],
     bowl |-> [w \in Bowlers |-> [legal |-> 0, runs |-> 0, wkts |-> 0,
                                  maidens |-> 0, conceded |-> 0]],
     schedule |-> [o \in 0..MaxOvers |-> NoBowler],
     overBowlers |-> {}, overRuns |-> 0, overBalls |-> 0, history |-> <<>>,
     pruns |-> 0, pballs |-> 0, forced |-> FALSE]

CurrentOverNo(e) == e.legal \div BallsPerOver

Complete(e) == \/ e.forced
               \/ e.wkts >= AllOut
               \/ e.legal >= MaxOvers * BallsPerOver
               \/ e.target # NoTarget /\ e.total >= e.target

BowlerForOver(e, o) ==
    LET end   == o % 2
        ends  == [j \in 1..((Len(Attack) + 1 - end) \div 2) |-> Attack[2 * j - 1 + end]]
        cycle == IF ends = <<>> THEN Attack ELSE ends
    IN  IF e.schedule[o] # NoBowler THEN e.schedule[o]
        ELSE cycle[(((o \div 2) \div SpellOvers) % Len(cycle)) + 1]

SetBowler(e, w) == [e EXCEPT !.schedule[CurrentOverNo(e)] = w]
SwapStrike(e)   == [e EXCEPT !.striker = e.nonStriker, !.nonStriker = e.striker]
End(e)          == [e EXCEPT !.forced = TRUE]

-----------------------------------------------------------------------------
(* ChooseNextBatter: swap the batter who has just come in, and has not faced, *)
(* for another who is still to bat.  Places in the order are 1-based here.    *)

Arrived(e) == {b \in {e.striker, e.nonStriker} :
                  /\ ~e.bat[b].out /\ e.bat[b].balls = 0 /\ e.bat[b].runs = 0
                  /\ e.order[e.nextBat] = b}
YetToBat(e) == {e.order[i] : i \in e.nextBat + 1..XI}

CanChoose(e, b) == Arrived(e) # {} /\ b \in YetToBat(e)

ChooseNextBatter(e, b) ==
    LET a == CHOOSE x \in Arrived(e) : TRUE
    IN  [e EXCEPT !.order = [i \in Batters |-> CASE e.order[i] = a -> b
                                                 [] e.order[i] = b -> a
                                                 [] OTHER -> e.order[i]],
                  !.striker = IF @ = a THEN b ELSE @,
                  !.nonStriker = IF e.striker # a THEN b ELSE @]

-----------------------------------------------------------------------------
(* ApplyOutcome, in the order of the code: the ball is charged, a wicket     *)
(* brings the next batter in, the batters cross, and a finished over rolls   *)
(* everything over.                                                          *)

ToBatter(b, d) == [b EXCEPT !.runs = @ + OffBat(d), !.balls = @ + (IF d.kind = "wide" THEN 0 ELSE 1)]
ToBowler(w, d) == [w EXCEPT !.legal = @ + (IF Legal(d) THEN 1 ELSE 0),
                            !.runs = @ + Conceded(d), !.conceded = @ + Conceded(d)]

\* Mutant: the bat's runs off a no-ball also go to extras.
ChargeNoBallTwice(e, d, w) ==
    [e EXCEPT !.overBowlers = @ \cup {w},
              !.total = @ + TeamRuns(d),
              !.extras = @ + (IF d.kind = "bat" THEN 0 ELSE TeamRuns(d)),
              !.overRuns = @ + TeamRuns(d), !.overBalls = @ + 1,
              !.legal = @ + (IF Legal(d) THEN 1 ELSE 0),
              !.bat[e.striker] = ToBatter(@, d), !.bowl[w] = ToBowler(@, d)]

Charge(e, d, w) ==
    [e EXCEPT !.overBowlers = @ \cup {w},
              !.total = @ + TeamRuns(d), !.extras = @ + TeamRuns(d) - OffBat(d),
              !.overRuns = @ + TeamRuns(d), !.overBalls = @ + 1,
              !.pruns = @ + TeamRuns(d),
              !.pballs = @ + (IF Legal(d) THEN 1 ELSE 0),
              !.legal = @ + (IF Legal(d) THEN 1 ELSE 0),
              !.bat[e.striker] = ToBatter(@, d), !.bowl[w] = ToBowler(@, d)]

Dismiss(e, d, w) ==
    LET out == IF d.nonStriker THEN e.nonStriker ELSE e.striker
        more == e.nextBat < XI
        new == IF more THEN e.order[e.nextBat + 1] ELSE out
    IN  IF d.kind # "W" THEN e
        ELSE [e EXCEPT !.bat[out].out = TRUE, !.wkts = @ + 1,
                       !.bowl[w].wkts = @ + (IF d.credited THEN 1 ELSE 0),
                       !.pruns = 0, !.pballs = 0,
                       !.nextBat = IF more THEN @ + 1 ELSE @,
                       !.striker = IF d.nonStriker THEN @ ELSE new,
                       !.nonStriker = IF d.nonStriker THEN new ELSE @]

Cross(e, d) == IF Ran(d) % 2 = 1 THEN SwapStrike(e) ELSE e

\* Mutant: only the bowler who finishes the over is reset.
EndOverResetsFinisher(e, d, w) ==
    IF ~Legal(d) \/ e.legal % BallsPerOver # 0 THEN e
    ELSE SwapStrike([e EXCEPT
            !.bowl[w].maidens = IF /\ e.bowl[w].conceded = 0
                                   /\ Cardinality(e.overBowlers) = 1
                                THEN @ + 1 ELSE @,
            !.bowl[w].conceded = 0,
            !.overBowlers = {}, !.history = Append(@, e.overRuns),
            !.overRuns = 0, !.overBalls = 0])

EndOver(e, d, w) ==
    IF ~Legal(d) \/ e.legal % BallsPerOver # 0 THEN e
    ELSE SwapStrike([e EXCEPT
            !.bowl = [x \in Bowlers |->
                        [e.bowl[x] EXCEPT
                            !.maidens = IF /\ x = w /\ e.bowl[w].conceded = 0
                                           /\ Cardinality(e.overBowlers) = 1
                                        THEN @ + 1 ELSE @,
                            !.conceded = IF x \in e.overBowlers THEN 0 ELSE @]],
            !.overBowlers = {}, !.history = Append(@, e.overRuns),
            !.overRuns = 0, !.overBalls = 0])

ApplyOutcome(e, d) ==
    LET w == BowlerForOver(e, CurrentOverNo(e))
    IN  EndOver(Cross(Dismiss(Charge(e, d, w), d, w), d), d, w)

-----------------------------------------------------------------------------
(* The session.                                                              *)

CONSTANTS
    Balls,     \* the deliveries a scorer may press
    Pickable,  \* the batters offered to ChooseNextBatter
    Offered,   \* the bowlers offered to SetBowler
    MaxEvents, \* bound on the length of the log
    MaxLost    \* bound on the writes of the file that fail in a behaviour

ASSUME SessionAssumption == Balls \subseteq Delivery /\ Offered \subseteq Bowlers /\ MaxEvents \in Nat

VARIABLES
    sess,      \* None, or [events, book]: book is the sequence of innings
    attempted, \* manualLoadAttempt: the saved file has been looked at
    file,      \* None, or the event log the file holds
    edited,    \* history: some log has been edited
    lost       \* writes of the file that failed

vars == <<sess, attempted, file, edited, lost>>

None == [events |-> <<>>, book |-> <<>>]   \* no session: a book has an innings
NoFile == <<[event |-> "no file"]>>

Events ==      [event : {"ball"}, ball : Balls]
          \cup [event : {"bowler"}, name : Offered]
          \cup [event : {"batter"}, name : Pickable]
          \cup [event : {"swap_strike", "end_innings", "start_innings"}]

-----------------------------------------------------------------------------
(* One event on a book: when applyEvent accepts it, and what it does.        *)

NewBook == <<NewInnings(NoTarget)>>
Current(book) == book[Len(book)]
MatchOver(book) == Len(book) = 2 /\ Complete(Current(book))

StartInnings(book) == Append(book, NewInnings(book[1].total + 1))

Accepts(book, ev) ==
    LET inn == Current(book) IN
    CASE ev.event = "ball"          -> ~Complete(inn) /\ ValidDelivery(ev.ball)
      [] ev.event = "batter"        -> CanChoose(inn, ev.name)
      [] ev.event = "start_innings" -> Len(book) = 1 /\ Complete(inn)
      [] OTHER                      -> TRUE

Effect(book, ev) ==
    LET inn == Current(book)
        On(e) == [book EXCEPT ![Len(book)] = e]
    IN CASE ev.event = "ball"          -> On(ApplyOutcome(inn, ev.ball))
         [] ev.event = "bowler"        -> On(SetBowler(inn, ev.name))
         [] ev.event = "batter"        -> On(ChooseNextBatter(inn, ev.name))
         [] ev.event = "swap_strike"   -> On(SwapStrike(inn))
         [] ev.event = "end_innings"   -> On(End(inn))
         [] ev.event = "start_innings" -> StartInnings(book)

(* The lenient form used in a replay: auxiliary events an edit has made      *)
(* impossible are skipped, and an innings the edit un-completed is declared  *)
(* closed.  A ball is never skipped: the replay stops there with an error.   *)

Auxiliary == {"batter", "bowler", "swap_strike"}

ReplayOne(r, ev) ==
    LET closing == /\ ev.event = "start_innings" /\ Len(r.book) = 1
                   /\ ~Complete(Current(r.book))
        book == IF closing THEN <<End(r.book[1])>> ELSE r.book
    IN  CASE ~r.ok                  -> r
          [] r.ok /\ Accepts(book, ev)  -> [r EXCEPT !.book = Effect(book, ev)]
          [] r.ok /\ ~Accepts(book, ev) -> IF ev.event \in Auxiliary THEN r ELSE [r EXCEPT !.ok = FALSE]

Rebuild(log) ==
    LET after[n \in 0..Len(log)] == IF n = 0 THEN [book |-> NewBook, ok |-> TRUE]
                                    ELSE ReplayOne(after[n - 1], log[n])
    IN  after[Len(log)]

(* manualSessionLocked: the session, restored from the file the first time    *)
(* anybody asks after a start of the server.                                  *)

SessionNow ==
    LET read == Rebuild(file)
    IN  IF sess # None \/ attempted \/ file = NoFile \/ ~read.ok THEN sess
        ELSE [events |-> file, book |-> read.book]

Writes(log) == \/ file' = log /\ UNCHANGED lost
               \/ lost < MaxLost /\ lost' = lost + 1 /\ UNCHANGED file
Save(s) == Writes(s.events)

-----------------------------------------------------------------------------
Init == sess = None /\ attempted = FALSE /\ file = NoFile /\ edited = FALSE /\ lost = 0

\* POST /scoring/setup.
Setup(force) ==
    \E s \in {SessionNow} :
    /\ s = None \/ s.events = <<>> \/ MatchOver(s.book) \/ force
    /\ sess' = [events |-> <<>>, book |-> NewBook]
    /\ attempted' = (attempted \/ sess = None)
    /\ Save(sess')
    /\ UNCHANGED edited

\* Any page that reads the session (/scoring/state, /live) restores it.
Look ==
    /\ sess' = SessionNow
    /\ attempted' = TRUE
    /\ sess = None /\ ~attempted
    /\ UNCHANGED <<file, edited, lost>>

\* Session.Apply: a rejected event leaves everything as it was.
Apply(ev) ==
    \E s \in {SessionNow} :
    /\ s # None /\ Len(s.events) < MaxEvents
    /\ Accepts(s.book, ev)
    /\ sess' = [events |-> Append(s.events, ev), book |-> Effect(s.book, ev)]
    /\ attempted' = (attempted \/ sess = None)
    /\ Save(sess')
    /\ UNCHANGED edited

Undo ==
    \E s \in {SessionNow} :
    /\ s # None /\ s.events # <<>>
    /\ sess' = [events |-> Front(s.events), book |-> Rebuild(Front(s.events)).book]
    /\ attempted' = (attempted \/ sess = None)
    /\ Save(sess')
    /\ UNCHANGED edited

Editable(s, i) == i \in DOMAIN s.events /\ s.events[i].event = "ball"

\* Mutants: a refused edit leaves the half-built book; no edit is refused.
EditBallNoRestore(i, ball) ==
    LET s == SessionNow
        log == [s.events EXCEPT ![i] = [event |-> "ball", ball |-> ball]]
        r == Rebuild(log)
    IN /\ s # None /\ Editable(s, i)
       /\ attempted' = (attempted \/ sess = None)
       /\ sess' = [events |-> IF r.ok THEN log ELSE s.events, book |-> r.book]
       /\ file' = sess'.events /\ edited' = (edited \/ r.ok) /\ UNCHANGED lost
EditBallUnchecked(i, ball) ==
    LET s == SessionNow
        log == [s.events EXCEPT ![i] = [event |-> "ball", ball |-> ball]]
    IN /\ s # None /\ Editable(s, i)
       /\ attempted' = (attempted \/ sess = None)
       /\ sess' = [events |-> log, book |-> Rebuild(log).book]
       /\ file' = log /\ edited' = TRUE /\ UNCHANGED lost

EditBall(i, ball) ==
    \E s \in {SessionNow} :
    /\ s # None /\ Editable(s, i) /\ s.events[i].ball # ball
    /\ attempted' = (attempted \/ sess = None)
    /\ LET log == [s.events EXCEPT ![i] = [event |-> "ball", ball |-> ball]]
       IN \E r \in {Rebuild(log)} :
          \/ /\ r.ok
             /\ sess' = [events |-> log, book |-> r.book]
             /\ Save(sess')
             /\ edited' = TRUE
          \/ /\ ~r.ok   \* put the old ball back and replay again
             /\ sess' = [events |-> s.events, book |-> Rebuild(s.events).book]
             /\ UNCHANGED <<file, edited, lost>>

\* POST /scoring/reset: the removal's error is ignored.
Reset ==
    /\ sess' = None /\ attempted' = TRUE
    /\ Writes(NoFile)
    /\ sess # None \/ file # NoFile
    /\ UNCHANGED edited

\* The server dies and is started again.
Restart ==
    /\ sess' = None /\ attempted' = FALSE
    /\ sess # None \/ attempted
    /\ UNCHANGED <<file, edited, lost>>

Next == \/ \E force \in BOOLEAN : Setup(force)
        \/ Look
        \/ \E ev \in Events : Apply(ev)
        \/ Undo
        \/ \E i \in 1..MaxEvents, ball \in Balls : EditBall(i, ball)
        \/ Reset
        \/ Restart

Spec == Init /\ [][Next]_vars

-----------------------------------------------------------------------------
(* What is shown of the book: the frame that NV Play's template would give of *)
(* it, as the overlay reads it, and the page it is scored on.                  *)

\* Mutant: the latest to come in is not on the card yet.
BattingCardLate(e) == [i \in 1..e.nextBat - 1 |-> [name |-> e.order[i]] @@ e.bat[e.order[i]]]

\* Whoever has been in, in the order of the innings, and the bowlers with figures.
BattingCard(e) == [i \in 1..e.nextBat |-> [name |-> e.order[i]] @@ e.bat[e.order[i]]]
BowlingCard(e) ==
    {[name |-> w] @@ e.bowl[w] : w \in {x \in Bowlers : e.bowl[x].legal # 0 \/ e.bowl[x].runs # 0}}

Required(e) == IF e.target > e.total THEN e.target - e.total ELSE 0

Frame(e) ==
    [runs |-> e.total, wickets |-> e.wkts, balls |-> e.legal, tokens |-> e.overBalls,
     batters |-> <<e.striker, e.nonStriker>>, bowler |-> BowlerForOver(e, CurrentOverNo(e)),
     target |-> e.target, required |-> Required(e), batted |-> BattingCard(e), bowled |-> BowlingCard(e)]

\* Which innings it is, the frame's own number is not asked: a chase has runs to get, and what
\* earlier frames left stands until an innings begins.
ParsePCSJSON(f, latch) ==
    LET fresh == f.balls < BallsPerOver /\ f.runs = 0 /\ f.wickets = 0
    IN [innings |-> IF f.required > 0 \/ (latch = 2 /\ ~fresh) THEN 2 ELSE 1] @@ f

AwaitingNewOver(e) ==
    /\ e.legal > 0 /\ e.legal % BallsPerOver = 0 /\ e.overBalls = 0
    /\ ~Complete(e) /\ e.schedule[CurrentOverNo(e)] = NoBowler

\* The batter who came in by himself is offered for another; not so the openers.
ManualUIState(e) ==
    [newBatter |-> IF e.nextBat > 2 THEN Arrived(e) ELSE {},
     yetToBat |-> {b \in YetToBat(e) : ~e.bat[b].out},
     awaitingBowler |-> AwaitingNewOver(e)]

-----------------------------------------------------------------------------
(* Properties *)

\* Whatever was saved last restores: no sequence of presses, edits and undos
\* leaves a file a restarted server calls unreadable.
SavedMatchRestores == file # NoFile => Rebuild(file).ok

\* The book on screen is the replay of its log, and the saved one restores, after presses, undos, accepted
\* and refused edits, failed saves and restarts alike: this is what makes an
\* undo leave the book as if the button had never been pressed.  While nothing was
\* edited the lenient replay skips and forces nothing: "On a never-edited log the
\* two are identical" (Session.Undo's comment).
Strict(log) == \A n \in DOMAIN log : Accepts(Rebuild(SubSeq(log, 1, n - 1)).book, log[n])

BookIsReplay ==
    /\ sess # None => /\ Rebuild(sess.events) = [book |-> sess.book, ok |-> TRUE]
                      /\ ~edited => Strict(sess.events)
    /\ SavedMatchRestores

Sum(f) == FoldFunction(LAMBDA x, y : x + y, 0, f)

\* Double entry: the batters and extras, the overs, and the bowlers account for
\* the same runs, balls and wickets.
InningsBalances(e) ==
    /\ e.total = Sum([b \in Batters |-> e.bat[b].runs]) + e.extras
    /\ e.total = Sum(e.history) + e.overRuns
    /\ e.legal = Sum([w \in Bowlers |-> e.bowl[w].legal])
    /\ e.total >= Sum([w \in Bowlers |-> e.bowl[w].runs])
    /\ e.wkts = Cardinality({b \in Batters : e.bat[b].out})
    /\ e.wkts >= Sum([w \in Bowlers |-> e.bowl[w].wkts])
    /\ Len(e.history) = CurrentOverNo(e)

\* Two different batters are in; neither is out while the innings lives; all who
\* batted are at the top of the order, whichever batters were chosen to come in.
PairAtCrease(e) ==
    LET batted == {e.order[i] : i \in 1..e.nextBat}
    IN /\ e.striker # e.nonStriker /\ {e.striker, e.nonStriker} \subseteq batted
       /\ Cardinality({e.order[i] : i \in Batters}) = XI
       /\ ~Complete(e) => ~e.bat[e.striker].out /\ ~e.bat[e.nonStriker].out
       /\ \A b \in Batters \ batted : ~e.bat[b].out /\ e.bat[b].balls = 0
       /\ e.wkts < AllOut => e.nextBat = 2 + e.wkts

\* The figures of an innings agree with one another, and with who is in and who is out.
BooksBalance ==
    \A k \in DOMAIN sess.book : InningsBalances(sess.book[k]) /\ PairAtCrease(sess.book[k])

\* A maiden is a whole over from one bowler with nothing conceded (byes are not
\* his): counted here from the deliveries one by one, across mid-over changes.
BooksPlayed == [n \in 0..Len(sess.events) |-> Rebuild(SubSeq(sess.events, 1, n)).book]
BallsOf(books, k) == {n \in DOMAIN sess.events : /\ sess.events[n].event = "ball"
                                                 /\ Len(books[n - 1]) = k}
MaidensAreEarned ==
    LET books == BooksPlayed
        Over(n) == CurrentOverNo(Current(books[n - 1]))
        By(n) == BowlerForOver(Current(books[n - 1]), Over(n))
        Earned(k, w, o) == \A n \in BallsOf(books, k) : Over(n) = o =>
                               By(n) = w /\ Conceded(sess.events[n].ball) = 0
    IN  \A k \in DOMAIN sess.book, w \in Bowlers :
            sess.book[k].bowl[w].maidens =
                Cardinality({o \in 0..CurrentOverNo(sess.book[k]) - 1 : Earned(k, w, o)})

\* The chase is against the first innings as the book has it now, edits of the
\* first innings included, and it ends the moment the target is reached.
ChaseIsHonest ==
    Len(sess.book) = 2 =>
        LET books == BooksPlayed IN
        /\ Complete(sess.book[1])
        /\ sess.book[2].target = sess.book[1].total + 1
        /\ \A n \in BallsOf(books, 2) : books[n - 1][2].total <= sess.book[1].total

\* What is put on the screen from the book: maidens that are earned, a chase that is the match's.
FiguresAreHonest == MaidensAreEarned /\ ChaseIsHonest

\* What is shown is the book, after presses, undos and edits: the innings, from any frame of
\* it or before it (no frame of the second innings having been read in the first, and none
\* forgotten once its runs are got); a card from which nobody is missing who has batted or bowled;
\* and what the page offers is what the book takes, the new batter after every wicket and the
\* next bowler after every over.
PageIsTheBook ==
    LET e == Current(sess.book)
        f == Frame(e)
        page == ManualUIState(e)
        latest == IF sess.events = <<>> THEN [event |-> "none"] ELSE Last(sess.events)
    IN /\ \A latch \in 1..Len(sess.book) :
            latch = Len(sess.book) \/ f.required > 0 => ParsePCSJSON(f, latch).innings = Len(sess.book)
       /\ \A b \in Batters \ {f.batted[i].name : i \in DOMAIN f.batted} :
            e.bat[b] = NewInnings(NoTarget).bat[b] /\ b \notin {e.striker, e.nonStriker}
       /\ \A w \in Bowlers \ {c.name : c \in f.bowled} : e.bowl[w] = NewInnings(NoTarget).bowl[w]
       /\ page.newBatter # {} => \A b \in page.yetToBat : CanChoose(e, b)
       /\ latest.event = "ball" /\ latest.ball.kind = "W" /\ e.nextBat = 2 + e.wkts =>
            page.newBatter = {e.order[e.nextBat]}
       /\ page.awaitingBowler => \A w \in Bowlers : BowlerForOver(SetBowler(e, w), CurrentOverNo(e)) = w
       /\ latest.event = "ball" /\ ~Complete(e) /\ f.tokens = 0 =>
            page.awaitingBowler \/ e.schedule[CurrentOverNo(e)] # NoBowler
==============================================================================
