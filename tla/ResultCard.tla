------------------------------ MODULE ResultCard -----------------------------
(***************************************************************************)
(* What a result card, a thumbnail and a match page say of the match: the     *)
(* scorer's frames are numbered (pcs.go), kept in the database and in memory  *)
(* (matchfacts.go, commentary.go), and read back with PlayCricket's record    *)
(* when a card is made (cards.go).  Nothing of a card is kept, so it is an    *)
(* operator here: the card that would be made now.                           *)
(*                                                                         *)
(* The team of an innings is named by its number.  Frames nobody polled,      *)
(* writes that fail and restarts come between the match and its card.         *)
(***************************************************************************)
EXTENDS Naturals

CONSTANTS
    Quota,        \* the balls of an innings, when nothing cuts it
    AllOut,       \* the wickets that end one: ten in the code
    MaxScore,     \* bound on an innings' runs
    MaxFaults,    \* bound on restarts, failed writes and breaks nobody polled in
    MaxUploads    \* bound on the uploads to PlayCricket

VARIABLES
    match,        \* [inn, score, wkts, balls], as scored
    first,        \* the first innings, once it is over
    quota,        \* the balls of the innings
    target,       \* the second innings' runs to win; 0 in the first
    setup,        \* [tells: the feed tells the balls left, panel, listed: the balls of an innings]
    latch,        \* inningsLatch
    live,         \* live_innings
    memo,         \* matchLog.Innings
    pc,           \* PlayCricket's record: [first, second, result]
    seen,         \* the match's last frame has been logged
    blind,        \* no frame of the second innings was polled that tells it from the first
    lost,         \* something of the match never reached its rows
    uploads, faults

play == <<match, first, quota, target>>
vars == <<play, setup, latch, live, memo, pc, seen, blind, lost, uploads, faults>>

None == [team |-> 0, score |-> 0, wkts |-> 0, balls |-> 0, limit |-> 0]
NoRecord == [first |-> None, second |-> None, result |-> "none"]
Start(inn) == [inn |-> inn, score |-> 0, wkts |-> 0, balls |-> 0]

Row(m) == [team |-> m.inn, score |-> m.score, wkts |-> m.wkts, balls |-> m.balls, limit |-> 0]

Init ==
    /\ match = Start(1) /\ first = None /\ quota = Quota /\ target = 0
    /\ setup \in [tells : BOOLEAN, panel : {Quota, 2 * Quota}, listed : {0, Quota}]
    /\ latch = 1 /\ live = [i \in 1..2 |-> None] /\ memo = [i \in 1..2 |-> None]
    /\ pc = NoRecord /\ seen = TRUE /\ blind = FALSE /\ lost = FALSE
    /\ uploads = 0 /\ faults = 0

Trouble == faults < MaxFaults /\ faults' = faults + 1

-----------------------------------------------------------------------------
(* The match.                                                                *)

BowledOut == match.wkts = AllOut \/ match.balls = quota
Won == match.inn = 2 /\ match.score >= target
Over == match.inn = 2 /\ (Won \/ BowledOut)

Result ==
    IF Won THEN "second" ELSE IF match.score + 1 = target THEN "tie" ELSE "first"

Ball ==
    /\ ~BowledOut /\ ~Won
    /\ \E r \in 0..2, out \in 0..1 :
        /\ match.score + r <= MaxScore
        /\ match' = [match EXCEPT !.score = @ + r, !.wkts = @ + out, !.balls = @ + 1]
    /\ seen' = FALSE
    /\ UNCHANGED <<first, quota, target, setup, latch, live, memo, pc, blind, lost, uploads, faults>>

\* An innings of fewer balls (rain) gives the other side as many.  The last frame of the first
\* innings stands for the whole break.
NextInnings ==
    /\ match.inn = 1 /\ match.balls > 0
    /\ match' = Start(2) /\ first' = Row(match) /\ target' = match.score + 1
    /\ quota' = IF match.wkts = AllOut THEN Quota ELSE match.balls
    /\ IF seen THEN UNCHANGED <<lost, faults>> ELSE Trouble /\ lost' = TRUE
    /\ seen' = FALSE /\ blind' = TRUE
    /\ UNCHANGED <<setup, latch, live, memo, pc, uploads>>

\* Rain in the second innings: fewer balls, and another target.
Revise ==
    /\ match.inn = 2 /\ ~Over /\ target = first.score + 1 /\ Trouble
    /\ quota' \in (match.balls + 1)..(quota - 1)
    /\ target' \in (match.score + 1)..(target - 1)
    /\ seen' = FALSE
    /\ UNCHANGED <<match, first, setup, latch, live, memo, pc, blind, lost, uploads>>

-----------------------------------------------------------------------------
(* A poll: the frame, the number it is given, and where it is kept.           *)

Required == IF match.inn = 2 /\ ~Won THEN target - match.score ELSE 0
Remaining == IF match.inn = 2 /\ setup.tells THEN quota - match.balls ELSE 0
Fresh == match.score = 0 /\ match.wkts = 0 /\ match.balls < 6

\* Mutant: the number is not held through the winning runs.
NumberUnheld == IF Required > 0 THEN 2 ELSE 1

\* ParsePCSJSON: the second innings while runs are required, and from then on.
Number == IF Required > 0 \/ (latch = 2 /\ ~Fresh) THEN 2 ELSE 1

HasInnings(row) == row.score > 0 \/ row.wkts > 0 \/ row.balls > 0

\* live_innings: the limit is kept where the frame does not tell one.
LogLiveFigures(inn) ==
    LET limit == IF Remaining > 0 THEN match.balls + Remaining ELSE live[inn].limit
    IN live' = IF HasInnings(Row(match))
               THEN [live EXCEPT ![inn] = [Row(match) EXCEPT !.limit = limit]]
               ELSE live

Poll ==
    /\ latch' = Number
    /\ memo' = [memo EXCEPT ![Number] = Row(match)]
    /\ \/ LogLiveFigures(Number) /\ seen' = TRUE /\ UNCHANGED faults
       \/ Trouble /\ UNCHANGED <<live, seen>>
    /\ blind' = (blind /\ Required = 0)
    /\ lost' = (lost \/ (blind /\ Required = 0))
    /\ UNCHANGED <<play, setup, pc, uploads>>

\* What is only in memory goes: the latch and the log.
Restart ==
    /\ Trouble /\ latch' = 1 /\ memo' = [i \in 1..2 |-> None]
    /\ blind' = (match.inn = 2)
    /\ UNCHANGED <<play, setup, live, pc, seen, lost, uploads>>

\* The scorer's program sends what it has, and the result once there is one.
Upload ==
    /\ uploads < MaxUploads /\ uploads' = uploads + 1
    /\ pc' = IF match.inn = 1 THEN [NoRecord EXCEPT !.first = Row(match)]
             ELSE [first |-> first, second |-> Row(match), result |-> "none"]
    /\ UNCHANGED <<play, setup, latch, live, memo, seen, blind, lost, faults>>

Publish ==
    /\ Over /\ pc' = [first |-> first, second |-> Row(match), result |-> Result]
    /\ UNCHANGED <<play, setup, latch, live, memo, seen, blind, lost, uploads, faults>>

-----------------------------------------------------------------------------
(* The card.                                                                 *)

ChaseFinished(a, b, limit) ==
    LET bound == IF limit > 0 THEN limit
                 ELSE IF a.wkts < AllOut THEN a.balls ELSE setup.panel
    IN b.score > a.score \/ b.wkts >= AllOut \/ b.balls >= bound

\* marginFromScores, of sides that are two teams: else no winner is claimed.
Side(a, b) == IF a.score = b.score THEN "tie"
              ELSE IF a.team = b.team THEN "no claim"
              ELSE IF b.score > a.score THEN "second" ELSE "first"

Claim(a, b, limit) == IF ChaseFinished(a, b, limit) THEN Side(a, b) ELSE "live"

\* BuildMatchFactsFromPC.
FromPlayCricket ==
    IF pc.result # "none" THEN pc.result
    ELSE IF pc.second = None THEN "live" ELSE Claim(pc.first, pc.second, setup.listed)

\* mergedMatchFacts: memory only fills an innings the database has not.
Merged(inn) == IF live[inn] # None THEN live[inn]
               ELSE IF HasInnings(memo[inn]) THEN memo[inn] ELSE None

FromFigures ==
    IF Merged(1) = None \/ Merged(2) = None THEN "live"
    ELSE Claim(Merged(1), Merged(2), Merged(2).limit)

\* GenerateSocialGraphicFacts.
Card == IF FromPlayCricket # "live" THEN FromPlayCricket ELSE FromFigures

-----------------------------------------------------------------------------
Next == Ball \/ NextInnings \/ Revise \/ Poll \/ Restart \/ Upload \/ Publish

Spec == Init /\ [][Next]_vars

\* "A wrong score on a public result card is worse than none" (ARCHITECTURE.md:40).  The
\* published result is shown; the club's own figures claim only the match's result, however few
\* frames of the chase were polled and whatever fails or restarts, and claim it once its last
\* frame is in: unless a break nobody polled in, or a restart after the winning runs, kept
\* something of the match from its rows, or the target is not the first innings'.
ResultIsRight ==
    /\ pc.result # "none" => Card = pc.result
    /\ ~lost /\ target \in {0, first.score + 1} =>
        /\ Card \in {"live", "no claim"} \/ (Over /\ Card = Result)
        /\ Over /\ seen /\ (setup.panel = Quota \/ first.wkts < AllOut) => Card = Result

\* "They're what the report and result card read after a restart" (matchfacts.go:132): the row
\* of an innings is of that innings.  Refuted: the latch is not kept, and after the winning runs
\* nothing in a frame tells the second innings from the first.
ReadAfterARestart == \A i \in 1..2 : live[i] # None => live[i].team = i
==============================================================================
