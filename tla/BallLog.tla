------------------------------- MODULE BallLog -------------------------------
(***************************************************************************)
(* Our own ball-by-ball record of the match: one poll of /live by the        *)
(* overlay (handler.go, live) reads the scorer's frame (pcs.go), lets the    *)
(* logged data follow a changed match id (matchfacts.go, FollowMatchID),     *)
(* rewrites the over in progress (db.go, LogBallData) and notes the running  *)
(* figures (LogLiveFigures, of which only the row's key is kept here; the    *)
(* figures are in module LiveFigures).                                       *)
(*                                                                         *)
(* The steps of a poll are separate actions, because each reads the match    *)
(* id, which the operator may change at any time, anew; and each has its     *)
(* own transaction, which may fail.  The server may also be restarted: what  *)
(* it remembers is lost and the database is kept.                            *)
(*                                                                         *)
(* The scorer's feed comes first, as the server sees it (external: NV Play   *)
(* Cricket Scorer writes the scoreboard file; pcs.go and db.go say what it   *)
(* does with the ticker, the bowler and runs_required).  One variable, feed, *)
(* is the match on the scorer's screen; Frame is what the file shows of it.  *)
(* The write that completes an over has already rotated the bowler, and its  *)
(* ticker may be empty, still show the over WITHOUT its final ball (the      *)
(* usual case), or show all of it.                                          *)
(***************************************************************************)
EXTENDS Integers, SequencesExt

CONSTANTS
    BPO,       \* legal balls in an over (six; fewer when checking)
    Overs,     \* overs in an innings
    Kinds,     \* the deliveries: [runs, wicket, legal]
    MaxWkts,   \* wickets that end an innings
    MaxInOver, \* bound on the deliveries of one over
    Tickers    \* what an over's last write may show: "none", "stale", "full"

VARIABLE feed  \* [inn, over, cur, ticker, first, score, wkts]

ASSUME FeedAssumption ==
    /\ {BPO, Overs, MaxWkts, MaxInOver} \subseteq Nat \ {0}
    /\ Kinds \subseteq [runs : Nat, wicket : BOOLEAN, legal : BOOLEAN]
    /\ Tickers \subseteq {"none", "stale", "full"}

Added(f) == FoldFunction(LAMBDA m, n : m + n, 0, f)
RunsOf(balls) == Added([i \in DOMAIN balls |-> balls[i].runs])
WicketsOf(balls) == FoldLeft(LAMBDA n, b : IF b.wicket THEN n + 1 ELSE n, 0, balls)
LegalOf(balls) == Cardinality({i \in DOMAIN balls : balls[i].legal})

Bowler(over) == over % 2   \* two bowlers, an over each

Won(m) == m.inn = 2 /\ m.score > m.first
Closed(m) == m.over = Overs \/ m.wkts >= MaxWkts \/ Won(m)

Frame == [required |-> feed.inn = 2 /\ ~Won(feed),
          over |-> feed.over, legal |-> LegalOf(feed.cur),
          score |-> feed.score, wkts |-> feed.wkts,
          ticker |-> feed.ticker, bowler |-> Bowler(feed.over)]

FeedInit ==
    feed = [inn |-> 1, over |-> 0, cur |-> <<>>, ticker |-> <<>>,
            first |-> 0, score |-> 0, wkts |-> 0]

\* A ball is scored.
Bowl(b) ==
    LET balls == Append(feed.cur, b)
        done == LegalOf(balls) = BPO
    IN /\ ~Closed(feed) /\ Len(balls) + BPO - LegalOf(balls) <= MaxInOver
       /\ \E t \in Tickers :
            feed' = [feed EXCEPT
                !.over = IF done THEN @ + 1 ELSE @,
                !.cur = IF done THEN <<>> ELSE balls,
                !.ticker = CASE done /\ t = "none"  -> <<>>
                             [] done /\ t = "stale" -> feed.cur
                             [] OTHER               -> balls,
                !.score = @ + b.runs,
                !.wkts = IF b.wicket THEN @ + 1 ELSE @]

\* The scorer corrects a ball of the over in progress, or takes one of several out.
Correct(balls) ==
    /\ feed.cur # <<>> /\ balls # <<>> /\ LegalOf(balls) < BPO
    /\ WicketsOf(balls) = WicketsOf(feed.cur) /\ ~Closed(feed)
    /\ feed' = [feed EXCEPT !.cur = balls, !.ticker = balls,
                            !.score = @ - RunsOf(feed.cur) + RunsOf(balls)]

NextInnings ==
    /\ feed.inn = 1 /\ Closed(feed)
    /\ feed' = [inn |-> 2, over |-> 0, cur |-> <<>>, ticker |-> <<>>,
                first |-> feed.score, score |-> 0, wkts |-> 0]

-----------------------------------------------------------------------------
(* The record.                                                              *)

CONSTANTS
    MatchIds,      \* the ids the match may be known by
    MaxMissed,     \* bound on the balls between two logged polls
    Troubles,      \* which of "id", "fault", "restart", "correct" may happen
    MaxTroubles    \* bound on how many of them do

VARIABLES
    id,       \* CurrentMatchID(): the id the settings give
    latch,    \* inningsLatch
    loggedMid,
    prev,     \* ballLog: the last write seen
    done,     \* ballLog: the last over that rolled on
    poll,     \* the poll in hand: [at, frame, inn, unseen]
    rows,     \* the table balls: [mid, inn, over] -> its balls, in order
    noted,    \* the keys <<mid, inn>> of the table live_innings
    unseen,   \* balls not logged yet
    spent,    \* the troubles so far
    blind,    \* history: a frame was met that the logger could not place, or the
              \* recovery of an over failed when its tail had been logged
    torn      \* history: an id change that FollowMatchID could not carry over

memory == <<latch, loggedMid, prev, done>>
tables == <<rows, noted>>
vars == <<feed, id, memory, poll, tables, unseen, spent, blind, torn>>

NoMid == "no id"
NoOver == Overs + 1   \* hasOver = false

ASSUME LogAssumption == NoMid \notin MatchIds /\ MaxMissed \in 1 .. BPO - 1

Keys == [mid : MatchIds, inn : 1 .. 2, over : 0 .. Overs]
Key(m, i, o) == [mid |-> m, inn |-> i, over |-> o]

NoPrev == [mid |-> NoMid, inn |-> 0, over |-> NoOver, score |-> 0, wkts |-> 0,
           count |-> 0, bowler |-> 0, sig |-> <<>>]
NoDone == [mid |-> NoMid, inn |-> 0, over |-> NoOver, sig |-> <<>>]
Idle == [at |-> "idle"]

Row(b, bowler) == [runs |-> b.runs, wicket |-> b.wicket, legal |-> b.legal, bowler |-> bowler]

Trouble(what) == what \in Troubles /\ spent < MaxTroubles /\ spent' = spent + 1

-----------------------------------------------------------------------------
Init ==
    /\ FeedInit
    /\ id \in MatchIds /\ latch = 1 /\ loggedMid = NoMid
    /\ prev = NoPrev /\ done = NoDone /\ poll = Idle
    /\ rows = [k \in Keys |-> <<>>] /\ noted = {}
    /\ unseen = 0 /\ spent = 0
    /\ blind = FALSE /\ torn = FALSE

(* The scorer.  A correction is polled before the next ball; so are the end    *)
(* of an innings, before the next one is opened, and its opening.              *)

Score(b) ==
    /\ unseen < MaxMissed /\ Bowl(b) /\ unseen' = unseen + 1
    /\ UNCHANGED <<id, memory, poll, tables, spent, blind, torn>>

Edited == {[feed.cur EXCEPT ![i] = b] : i \in DOMAIN feed.cur, b \in Kinds}
          \cup {Front(feed.cur)}

CorrectBall ==
    /\ unseen = 0 /\ poll = Idle /\ feed.cur # <<>>
    /\ \E balls \in Edited : Correct(balls)
    /\ Trouble("correct") /\ unseen' = MaxMissed
    /\ UNCHANGED <<id, memory, poll, tables, blind, torn>>

ScoreNextInnings ==
    /\ unseen = 0 /\ poll = Idle /\ NextInnings /\ unseen' = MaxMissed
    /\ UNCHANGED <<id, memory, poll, tables, spent, blind, torn>>

\* The operator fetches today's match, or corrects a team's name.
SetId(m) ==
    /\ m # id /\ id' = m /\ Trouble("id")
    /\ torn' = (torn \/ poll # Idle)
    /\ UNCHANGED <<feed, memory, poll, tables, unseen, blind>>

-----------------------------------------------------------------------------
(* ReadPCSFile and ParsePCSJSON: the frame, and which innings it is of.        *)

Fresh(f) == f.over = 0 /\ f.score = 0 /\ f.wkts = 0

InningsOf(f) == IF f.required \/ (latch = 2 /\ ~Fresh(f)) THEN 2 ELSE 1

Read ==
    /\ poll = Idle
    /\ latch' = InningsOf(Frame)
    /\ poll' = [at |-> "follow", frame |-> Frame, inn |-> InningsOf(Frame), unseen |-> unseen]
    /\ UNCHANGED <<feed, id, loggedMid, prev, done, tables, unseen, spent, blind, torn>>

-----------------------------------------------------------------------------
(* FollowMatchID.  What is under the old id moves to the new one, unless the   *)
(* new one holds something already.                                           *)

Holds(m) == (\E k \in Keys : k.mid = m /\ rows[k] # <<>>) \/ (\E n \in noted : n[1] = m)

Moved(old) ==
    /\ rows' = [k \in Keys |-> CASE k.mid = id  -> rows[[k EXCEPT !.mid = old]]
                                 [] k.mid = old -> <<>>
                                 [] OTHER       -> rows[k]]
    /\ noted' = {IF n[1] = old THEN <<id, n[2]>> ELSE n : n \in noted}

MovedMemory(old) == prev' = IF prev.mid = old THEN [prev EXCEPT !.mid = id] ELSE prev

\* A ticker that shows an over other than the one in progress.
Lingering(f) == f.legal = 0 /\ LegalOf(f.ticker) > 0

Followed ==
    /\ poll.at = "follow"
    /\ loggedMid' = id /\ poll' = [poll EXCEPT !.at = "log"]
    /\ UNCHANGED <<feed, id, latch, done, unseen>>

\* Mutant: an id change is carried over only once an over is complete.
UnderwayAfterAnOver(f) == f.over > 0

Underway(f) == f.over * BPO + f.legal > 0

SameId ==
    /\ poll.at = "follow" /\ loggedMid \in {NoMid, id}
    /\ torn' = (torn \/ (loggedMid = NoMid /\ \E m \in MatchIds \ {id} : Holds(m)))
    /\ Followed /\ UNCHANGED <<prev, tables, spent, blind>>

StayBehind ==
    /\ poll.at = "follow" /\ loggedMid \notin {NoMid, id}
    /\ ~Underway(poll.frame) \/ Holds(id)
    /\ torn' = (torn \/ (Holds(loggedMid) /\ (poll.frame.over * BPO + poll.frame.legal = 0)))
    /\ Followed /\ UNCHANGED <<prev, tables, spent, blind>>

\* done keeps the old id, so a ticker still showing its over is not recognised.
MoveMatch ==
    /\ poll.at = "follow" /\ loggedMid \notin {NoMid, id}
    /\ Underway(poll.frame) /\ ~Holds(id)
    /\ Moved(loggedMid) /\ MovedMemory(loggedMid)
    /\ blind' = (blind \/ Lingering(poll.frame))
    /\ Followed /\ UNCHANGED <<spent, torn>>

\* The transaction fails; loggedMid has been updated, so it is not tried again
\* (and there is one such failure at most to a change of the id).
MoveFails ==
    /\ poll.at = "follow" /\ loggedMid \notin {NoMid, id} /\ Underway(poll.frame)
    /\ "fault" \in Troubles /\ torn' = TRUE
    /\ Followed /\ UNCHANGED <<prev, tables, spent, blind>>

-----------------------------------------------------------------------------
(* LogBallData.  Rolled: the over being logged is over.  Stale: the ticker     *)
(* still shows it; what it shows beyond the logged balls is LateTail.            *)

Rolled(f, inn) == prev.mid = id /\ prev.inn = inn /\ prev.over # NoOver /\ f.over > prev.over

Ref(f, inn) ==
    CASE Rolled(f, inn) -> prev.sig
      [] ~Rolled(f, inn) /\ done.mid = id /\ done.inn = inn /\ done.over + 1 = f.over -> done.sig
      [] OTHER -> <<>>

Stale(f, inn) ==
    /\ f.ticker # <<>> /\ Ref(f, inn) # <<>> /\ f.legal = 0
    /\ IsPrefix(Ref(f, inn), f.ticker)

LateTail(f, inn) == IF Rolled(f, inn) /\ Stale(f, inn)
                THEN SubSeq(f.ticker, Len(prev.sig) + 1, Len(f.ticker)) ELSE <<>>
Seen(f, inn) == IF Stale(f, inn) THEN <<>> ELSE f.ticker

\* INSERT OR REPLACE, one ball at position n of its over.
Put(balls, n, r) == [i \in DOMAIN balls \cup {n} |-> IF i = n THEN r ELSE balls[i]]

AfterTail(f, inn) ==
    LET t == LateTail(f, inn)
    IN  [prev EXCEPT !.count = @ + Len(t), !.score = @ + RunsOf(t), !.wkts = @ + WicketsOf(t)]

RowsAfterTail(f, inn) ==
    LET t == LateTail(f, inn)
        last == prev.count + Len(t)
        On(balls) == [i \in DOMAIN balls \cup prev.count + 1 .. last |->
                        IF i \in prev.count + 1 .. last THEN Row(t[i - prev.count], prev.bowler)
                        ELSE balls[i]]
    IN  IF t = <<>> THEN rows ELSE [rows EXCEPT ![Key(id, inn, prev.over)] = On(@)]

\* The runs and wickets no ticker has shown: the final delivery.
MissRuns(f, inn) == f.score - AfterTail(f, inn).score - RunsOf(Seen(f, inn))
MissWkts(f, inn) == f.wkts - AfterTail(f, inn).wkts - WicketsOf(Seen(f, inn))

Missing(f, inn) ==
    /\ Rolled(f, inn) /\ MissRuns(f, inn) >= 0
    /\ \/ MissRuns(f, inn) > 0 \/ MissWkts(f, inn) > 0
       \/ AfterTail(f, inn).count > 0 /\ LateTail(f, inn) = <<>>

\* Mutant: credited to the bowler the frame names.
RecoveredByCurrent(f, inn) ==
    [runs |-> MissRuns(f, inn), wicket |-> MissWkts(f, inn) > 0, legal |-> TRUE, bowler |-> f.bowler]

Recovered(f, inn) ==
    [runs |-> MissRuns(f, inn), wicket |-> MissWkts(f, inn) > 0, legal |-> TRUE,
     bowler |-> prev.bowler]

RowsAfterRecovery(f, inn) ==
    IF ~Missing(f, inn) THEN RowsAfterTail(f, inn)
    ELSE [RowsAfterTail(f, inn) EXCEPT ![Key(id, inn, prev.over)] =
              Put(@, AfterTail(f, inn).count + 1, Recovered(f, inn))]

PrevAfterRecovery(f, inn) ==
    IF ~Rolled(f, inn) THEN prev
    ELSE [prev EXCEPT !.over = NoOver, !.count = 0, !.score = f.score, !.wkts = f.wkts]

DoneAfterRecovery(f, inn) ==
    IF ~Rolled(f, inn) THEN done
    ELSE [mid |-> id, inn |-> inn, over |-> prev.over, sig |-> prev.sig]

Logging == poll.at = "log" /\ UNCHANGED <<feed, id, latch, loggedMid, noted, torn>>

Logged == /\ poll' = [poll EXCEPT !.at = "figures"]
          /\ unseen' = unseen - poll.unseen
          /\ UNCHANGED <<spent, blind>>

Refused == /\ poll' = [poll EXCEPT !.at = "figures"]
           /\ Trouble("fault")
           /\ UNCHANGED unseen

\* Nothing of a new over is shown: the baseline for the next one is remembered.
LogOverBreak ==
    LET f == poll.frame  inn == poll.inn IN
    /\ Logging /\ Seen(f, inn) = <<>>
    /\ rows' = RowsAfterRecovery(f, inn)
    /\ done' = DoneAfterRecovery(f, inn)
    /\ prev' = [PrevAfterRecovery(f, inn) EXCEPT !.mid = id, !.inn = inn, !.score = f.score,
                    !.wkts = f.wkts, !.bowler = f.bowler]
    /\ Logged

\* The over in progress is deleted and written again.
LogOver ==
    LET f == poll.frame  inn == poll.inn IN
    /\ Logging /\ Seen(f, inn) # <<>>
    /\ rows' = [RowsAfterRecovery(f, inn) EXCEPT ![Key(id, inn, f.over)] =
                    [i \in DOMAIN f.ticker |-> Row(f.ticker[i], f.bowler)]]
    /\ done' = DoneAfterRecovery(f, inn)
    /\ prev' = [mid |-> id, inn |-> inn, over |-> f.over, score |-> f.score, wkts |-> f.wkts,
                count |-> Len(f.ticker), bowler |-> f.bowler, sig |-> f.ticker]
    /\ Logged

TailFails ==
    /\ Logging /\ LateTail(poll.frame, poll.inn) # <<>>
    /\ Refused /\ UNCHANGED <<rows, prev, done, blind>>

\* A tail that was logged is in prev.count and prev.score, not in prev.sig: the next
\* poll takes it for a tail again, and logs it twice (blind).
RecoveryFails ==
    LET f == poll.frame  inn == poll.inn IN
    /\ Logging /\ Missing(f, inn)
    /\ rows' = RowsAfterTail(f, inn)
    /\ prev' = AfterTail(f, inn)
    /\ blind' = (blind \/ LateTail(f, inn) # <<>>)
    /\ Refused /\ UNCHANGED done

RewriteFails ==
    LET f == poll.frame  inn == poll.inn IN
    /\ Logging /\ Seen(f, inn) # <<>>
    /\ rows' = RowsAfterRecovery(f, inn)
    /\ prev' = PrevAfterRecovery(f, inn)
    /\ done' = DoneAfterRecovery(f, inn)
    /\ Refused /\ UNCHANGED blind

-----------------------------------------------------------------------------
\* LogLiveFigures, and the end of the poll.
NoteFigures ==
    LET f == poll.frame IN
    /\ poll.at = "figures" /\ poll' = Idle
    /\ noted' = IF Fresh(f) /\ f.legal = 0 THEN noted ELSE noted \cup {<<id, poll.inn>>}
    /\ UNCHANGED <<feed, id, memory, rows, unseen, spent, blind, torn>>

FiguresFail ==
    /\ poll.at = "figures" /\ poll' = Idle /\ Trouble("fault")
    /\ UNCHANGED <<feed, id, memory, tables, unseen, blind, torn>>

(* The supervisor starts a new server.  It cannot place a frame whose over is  *)
(* not the one in progress, nor tell the second innings once the target is     *)
(* passed.  Its first poll comes before the next ball.                         *)

Placeable == unseen = 0 /\ ~Lingering(Frame) /\ ~Won(feed)

Restart ==
    /\ Trouble("restart")
    /\ latch' = 1 /\ loggedMid' = NoMid /\ prev' = NoPrev /\ done' = NoDone /\ poll' = Idle
    /\ blind' = (blind \/ ~Placeable) /\ unseen' = MaxMissed
    /\ UNCHANGED <<feed, id, tables, torn>>

Next ==
    \/ \E b \in Kinds : Score(b)
    \/ CorrectBall \/ ScoreNextInnings
    \/ \E m \in MatchIds : SetId(m)
    \/ Read
    \/ SameId \/ StayBehind \/ MoveMatch \/ MoveFails
    \/ LogOverBreak \/ LogOver \/ TailFails \/ RecoveryFails \/ RewriteFails
    \/ NoteFigures \/ FiguresFail
    \/ Restart

Spec == Init /\ [][Next]_vars

-----------------------------------------------------------------------------
LoggedRuns(m, i) == Added([o \in 0 .. Overs |-> RunsOf(rows[Key(m, i, o)])])
AllUnder(m) == \A k \in Keys : rows[k] # <<>> => k.mid = m

(* "Totals stay exact even when the per-ball split is unknowable": when every  *)
(* ball has been logged, there is an id under which the balls of each innings   *)
(* add up to its score.                                                       *)
BallsAddUp ==
    unseen = 0 /\ ~blind /\ ~torn =>
        \E m \in MatchIds :
            /\ AllUnder(m) /\ LoggedRuns(m, feed.inn) = feed.score
            /\ feed.inn = 2 => LoggedRuns(m, 1) = feed.first

(* Every ball logged under an over is credited to the bowler who bowled it,    *)
(* the recovered final ball included, although by then the feed names another. *)
BowlersOwn ==
    ~blind /\ ~torn => \A k \in Keys : \A i \in DOMAIN rows[k] : rows[k][i].bowler = Bowler(k.over)

(* The record of a match, whatever polls were missed: its runs and its bowlers. *)
RecordIsRight == BallsAddUp /\ BowlersOwn

(* FollowMatchID: an id change the code was able to see never leaves part of   *)
(* the match under the old id.                                                *)
MatchTogether ==
    ~torn => \A j, k \in Keys : rows[j] # <<>> /\ rows[k] # <<>> => j.mid = k.mid

(* "otherwise ... the stale balls are logged again under the NEXT over against *)
(* the next bowler" (db.go:348): nothing is logged under an over that has not  *)
(* begun.                                                                     *)
NotLoggedAgain ==
    ~torn => \A k \in Keys : rows[k] # <<>> /\ k.inn = feed.inn =>
                k.over < feed.over \/ feed.cur # <<>>
==============================================================================
