----------------------------- MODULE Match_proofs ----------------------------
EXTENDS BallLog, OnAir, DataLemmas, FiniteSetTheorems, SequenceTheorems, TLAPS

(***************************************************************************)
(* A match is logged under one id (matchfacts.go, FollowMatchID), whatever     *)
(* polls are missed, whichever transaction fails, and whenever the server is    *)
(* restarted, for overs, innings and matches of any length.                    *)
(*                                                                         *)
(* MatchTogether looks at the balls alone, and is not inductive: what is there  *)
(* of the match, its figures too, is under the id the logger knows (UnderIt),    *)
(* or under one id when the logger is new (UnderOne); and between following the   *)
(* id and the end of the poll the logger's id is the operator's (Following).     *)
(***************************************************************************)

Polls(f, i, u) == {[at |-> a, frame |-> f, inn |-> i, unseen |-> u] : a \in {"follow", "log", "figures"}}

\* A poll reads the id again at each of its steps; its frame stays.
PollTyped == poll = Idle \/ \E f, i, u : poll \in Polls(f, i, u) /\ f.over \in Nat /\ f.legal \in Nat

FeedTyped == /\ feed = [inn |-> feed.inn, over |-> feed.over, cur |-> feed.cur, ticker |-> feed.ticker,
                        first |-> feed.first, score |-> feed.score, wkts |-> feed.wkts]
             /\ feed.over \in Nat /\ feed.cur \in Seq(Kinds)

LogTyped == /\ id \in MatchIds /\ loggedMid \in MatchIds \cup {NoMid}
            /\ rows = [k \in Keys |-> rows[k]]
            /\ PollTyped /\ FeedTyped

UnderIt == loggedMid # NoMid => \A m \in MatchIds : Holds(m) => m = loggedMid
UnderOne == \A m, n \in MatchIds : Holds(m) /\ Holds(n) => m = n
Following == poll.at \in {"log", "figures"} => loggedMid = id

Together == ~torn => UnderIt /\ UnderOne /\ Following

LogInv == LogTyped /\ Together

-----------------------------------------------------------------------------
LEMMA LegalIsNat == ASSUME NEW balls \in Seq(Kinds) PROVE LegalOf(balls) \in Nat
<1>1. IsFiniteSet(1 .. Len(balls))
  BY FS_Interval
<1>2. {i \in DOMAIN balls : balls[i].legal} \subseteq 1 .. Len(balls)
  OBVIOUS
<1> QED
  BY <1>1, <1>2, FS_Subset, FS_CardinalityType DEF LegalOf

\* An over is logged again and again, under the id that is the operator's then.
LEMMA TailUnderId ==
  ASSUME LogTyped, NEW f, NEW inn
  PROVE  /\ RowsAfterTail(f, inn) = [k \in Keys |-> RowsAfterTail(f, inn)[k]]
         /\ \A k \in Keys : k.mid # id => RowsAfterTail(f, inn)[k] = rows[k]
<1> DEFINE key == Key(id, inn, prev.over)
<1>1. PICK on : RowsAfterTail(f, inn) = rows \/ RowsAfterTail(f, inn) = [rows EXCEPT ![key] = on]
  BY DEF RowsAfterTail
<1>2. key.mid = id
  BY DEF Key
<1> HIDE DEF key
<1> QED
  BY <1>1, <1>2 DEF LogTyped

LEMMA OnlyUnderId ==
  ASSUME LogTyped, NEW f, NEW inn
  PROVE  /\ RowsAfterRecovery(f, inn) = [k \in Keys |-> RowsAfterRecovery(f, inn)[k]]
         /\ \A k \in Keys : k.mid # id => RowsAfterRecovery(f, inn)[k] = rows[k]
<1> DEFINE key == Key(id, inn, prev.over)
<1>1. PICK put : \/ RowsAfterRecovery(f, inn) = RowsAfterTail(f, inn)
                 \/ RowsAfterRecovery(f, inn) = [RowsAfterTail(f, inn) EXCEPT ![key] = put]
  BY DEF RowsAfterRecovery
<1>2. key.mid = id
  BY DEF Key
<1> HIDE DEF key
<1> QED
  BY <1>1, <1>2, TailUnderId

-----------------------------------------------------------------------------
LEMMA InitLogInv == Init => LogInv
<1> SUFFICES ASSUME Init PROVE LogInv
  OBVIOUS
<1>1. FeedTyped
  BY DEF Init, FeedInit, FeedTyped
<1>2. LogTyped
  BY <1>1 DEF Init, LogTyped, PollTyped
<1>3. \A m \in MatchIds : ~Holds(m)
  BY DEF Init, Holds
<1>4. Following
  BY DEF Init, Following, Idle
<1> QED
  BY <1>2, <1>3, <1>4 DEF LogInv, Together, UnderIt, UnderOne

-----------------------------------------------------------------------------
(* The scorer's feed: the balls of the over in progress are deliveries, and     *)
(* the overs are counted, which is all that the record's id depends on.          *)

LEMMA BowlTyped == ASSUME FeedTyped, NEW b \in Kinds, Bowl(b) PROVE FeedTyped'
<1> DEFINE balls == Append(feed.cur, b)
<1>1. balls \in Seq(Kinds) /\ <<>> \in Seq(Kinds)
  BY DEF FeedTyped
<1>2. PICK over, cur, ticker, score, wkts :
         /\ over \in Nat /\ cur \in Seq(Kinds)
         /\ feed' = [feed EXCEPT !.over = over, !.cur = cur, !.ticker = ticker,
                                 !.score = score, !.wkts = wkts]
  <2>1. feed.over \in Nat /\ feed.over + 1 \in Nat
    BY DEF FeedTyped
  <2>2. PICK t \in Tickers : feed' = [feed EXCEPT
                !.over = IF LegalOf(balls) = BPO THEN feed.over + 1 ELSE feed.over,
                !.cur = IF LegalOf(balls) = BPO THEN <<>> ELSE balls,
                !.ticker = CASE LegalOf(balls) = BPO /\ t = "none"  -> <<>>
                             [] LegalOf(balls) = BPO /\ t = "stale" -> feed.cur
                             [] OTHER                               -> balls,
                !.score = feed.score + b.runs,
                !.wkts = IF b.wicket THEN feed.wkts + 1 ELSE feed.wkts]
    BY DEF Bowl
  <2> QED
    BY <1>1, <2>1, <2>2
<1>3. feed' = [inn |-> feed.inn, over |-> over, cur |-> cur, ticker |-> ticker,
               first |-> feed.first, score |-> score, wkts |-> wkts]
  BY <1>2 DEF FeedTyped
<1> QED
  BY <1>2, <1>3 DEF FeedTyped

LEMMA CorrectTyped == ASSUME FeedTyped, NEW balls \in Seq(Kinds), Correct(balls) PROVE FeedTyped'
<1>1. PICK score : feed' = [feed EXCEPT !.cur = balls, !.ticker = balls, !.score = score]
  BY DEF Correct
<1>2. feed' = [inn |-> feed.inn, over |-> feed.over, cur |-> balls, ticker |-> balls,
               first |-> feed.first, score |-> score, wkts |-> feed.wkts]
  BY <1>1 DEF FeedTyped
<1> QED
  BY <1>2 DEF FeedTyped

LEMMA EditedAreBalls == ASSUME FeedTyped, feed.cur # <<>> PROVE Edited \subseteq Seq(Kinds)
<1>1. feed.cur \in Seq(Kinds)
  BY DEF FeedTyped
<1>2. \A i \in DOMAIN feed.cur, b \in Kinds : [feed.cur EXCEPT ![i] = b] \in Seq(Kinds)
  BY <1>1
<1>3. Front(feed.cur) \in Seq(Kinds)
  BY <1>1 DEF Front
<1> QED
  BY <1>2, <1>3 DEF Edited
-----------------------------------------------------------------------------
(* The kinds of step.  One that leaves the record, the logger's id and the        *)
(* operator's alone; a write of the poll in hand; and following the id.            *)

LEMMA QuietKeeps ==
  ASSUME Together, UNCHANGED <<tables, loggedMid>>, torn => torn',
         poll'.at \in {"log", "figures"} => poll.at \in {"log", "figures"} /\ UNCHANGED id
  PROVE  Together'
BY DEF Together, tables, UnderIt, UnderOne, Following, Holds

\* What is written between following the id and the end of the poll is under the id.
LEMMA WriteKeeps ==
  ASSUME LogTyped, Together, poll.at \in {"log", "figures"}, UNCHANGED <<id, loggedMid, torn>>,
         \A k \in Keys : k.mid # id => rows'[k] = rows[k],
         \A n \in noted' : n \in noted \/ n[1] = id
  PROVE  Together'
<1> SUFFICES ASSUME ~torn PROVE UnderIt' /\ UnderOne' /\ Following'
  BY DEF Together
<1>1. UnderIt /\ Following /\ loggedMid = id /\ loggedMid # NoMid
  BY LogAssumption DEF Together, Following, LogTyped
<1>2. ASSUME NEW m \in MatchIds, Holds(m)' PROVE m = id
  <2>1. CASE \E k \in Keys : k.mid = m /\ rows'[k] # <<>>
    BY <1>1, <2>1 DEF Holds, UnderIt
  <2>2. CASE \E n \in noted' : n[1] = m
    BY <1>1, <2>2 DEF Holds, UnderIt
  <2> QED
    BY <1>2, <2>1, <2>2 DEF Holds
<1> QED
  BY <1>1, <1>2 DEF UnderIt, UnderOne, Following

\* Following the id: it is enough that nothing is left under another.
LEMMA FollowKeeps ==
  ASSUME Followed, torn' \/ \A m \in MatchIds : Holds(m)' => m = id
  PROVE  Together'
BY DEF Followed, Together, UnderIt, UnderOne, Following

LEMMA FollowTyped == ASSUME LogTyped, Followed PROVE PollTyped' /\ FeedTyped' /\ id' \in MatchIds /\ loggedMid' \in MatchIds
<1>1. PICK f, i, u : poll \in Polls(f, i, u) /\ f.over \in Nat /\ f.legal \in Nat
  BY DEF Followed, LogTyped, PollTyped, Idle
<1>2. poll' \in Polls(f, i, u)
  BY <1>1 DEF Followed, Polls
<1> QED
  BY <1>1, <1>2 DEF Followed, LogTyped, PollTyped, FeedTyped

LEMMA LogStepTyped ==
  ASSUME LogTyped, poll.at = "log", poll' = [poll EXCEPT !.at = "figures"] PROVE PollTyped'
<1>1. PICK f, i, u : poll \in Polls(f, i, u) /\ f.over \in Nat /\ f.legal \in Nat
  BY DEF LogTyped, PollTyped, Idle
<1>2. poll' \in Polls(f, i, u)
  BY <1>1 DEF Polls
<1> QED
  BY <1>1, <1>2 DEF PollTyped

LEMMA MoveTogether ==
  ASSUME LogTyped, Together, ~torn, loggedMid \notin {NoMid, id}, ~Holds(id), Moved(loggedMid)
  PROVE  \A m \in MatchIds : Holds(m)' => m = id
<1>1. UnderIt /\ loggedMid \in MatchIds
  BY DEF Together, LogTyped
<1>2. ASSUME NEW m \in MatchIds, NEW k \in Keys, k.mid = m, rows'[k] # <<>> PROVE m = id
  <2>1. CASE m = loggedMid
    BY <1>2, <2>1 DEF Moved
  <2>2. CASE m \notin {loggedMid, id}
    BY <1>1, <1>2, <2>2 DEF Moved, Holds, UnderIt
  <2> QED
    BY <2>1, <2>2
<1>3. ASSUME NEW m \in MatchIds, NEW n \in noted', n[1] = m PROVE m = id
  <2>1. PICK o \in noted : n = IF o[1] = loggedMid THEN <<id, o[2]>> ELSE o
    BY DEF Moved
  <2>2. CASE o[1] = loggedMid
    BY <1>3, <2>1, <2>2
  <2>3. CASE o[1] # loggedMid
    BY <1>1, <1>3, <2>1, <2>3 DEF Holds, UnderIt
  <2> QED
    BY <2>2, <2>3
<1> QED
  BY <1>2, <1>3 DEF Holds

\* A match that is not under way has no balls.
LEMMA NotUnderway == ASSUME LogTyped, poll.at = "follow", ~Underway(poll.frame)
                     PROVE poll.frame.over * BPO + poll.frame.legal = 0
<1>1. PICK f, i, u : poll \in Polls(f, i, u) /\ f.over \in Nat /\ f.legal \in Nat
  BY DEF LogTyped, PollTyped, Idle
<1>2. poll.frame = f
  BY <1>1 DEF Polls
<1>3. BPO \in Nat
  BY FeedAssumption
<1>4. f.over * BPO \in Nat
  BY <1>1, <1>3
<1> QED
  BY <1>1, <1>2, <1>4 DEF Underway
(* A step of the log writes rows of the operator's id, and the poll goes on.      *)
LEMMA WriteStep ==
  ASSUME LogTyped, Together, poll.at = "log", poll' = [poll EXCEPT !.at = "figures"],
         UNCHANGED <<feed, id, loggedMid, noted, torn>>,
         rows' = [k \in Keys |-> rows'[k]],
         \A k \in Keys : k.mid # id => rows'[k] = rows[k]
  PROVE  LogTyped' /\ Together'
<1>1. PollTyped'
  BY LogStepTyped
<1>2. LogTyped'
  BY <1>1 DEF LogTyped, FeedTyped
<1> QED
  BY <1>2, WriteKeeps

-----------------------------------------------------------------------------
(* One step per action.                                                       *)

LEMMA NextLogInv == LogInv /\ [Next]_vars => LogInv'
<1> SUFFICES ASSUME LogInv, [Next]_vars PROVE LogInv'
  OBVIOUS
<1> USE DEF LogInv
<1>0. LogTyped /\ Together
  OBVIOUS
<1>1. CASE UNCHANGED vars
  <2>1. LogTyped'
    BY <1>1 DEF vars, tables, memory, LogTyped, PollTyped, FeedTyped
  <2>2. Together'
    BY <1>1, QuietKeeps DEF vars, tables, memory
  <2> QED
    BY <2>1, <2>2
<1>2. ASSUME NEW b \in Kinds, Score(b) PROVE LogInv'
  <2>1. FeedTyped'
    BY <1>2, BowlTyped DEF Score, LogTyped
  <2>2. LogTyped'
    BY <1>2, <2>1 DEF Score, LogTyped, PollTyped, tables, memory
  <2> QED
    BY <1>2, <2>2, QuietKeeps DEF Score, tables, memory
<1>3. CASE CorrectBall
  <2>1. FeedTyped'
    BY <1>3, CorrectTyped, EditedAreBalls DEF CorrectBall, LogTyped
  <2>2. LogTyped'
    BY <1>3, <2>1 DEF CorrectBall, LogTyped, PollTyped, tables, memory
  <2> QED
    BY <1>3, <2>2, QuietKeeps DEF CorrectBall, tables, memory
<1>4. CASE ScoreNextInnings
  <2>1. FeedTyped'
    BY <1>4 DEF ScoreNextInnings, NextInnings, FeedTyped
  <2>2. LogTyped'
    BY <1>4, <2>1 DEF ScoreNextInnings, LogTyped, PollTyped, tables, memory
  <2> QED
    BY <1>4, <2>2, QuietKeeps DEF ScoreNextInnings, tables, memory
<1>5. ASSUME NEW m \in MatchIds, SetId(m) PROVE LogInv'
  <2>1. LogTyped'
    BY <1>5 DEF SetId, LogTyped, PollTyped, FeedTyped, tables, memory
  <2>2. CASE poll = Idle
    <3>1. ~(poll'.at \in {"log", "figures"})
      BY <1>5, <2>2 DEF SetId, Idle
    <3> QED
      BY <1>5, <2>1, <3>1, QuietKeeps DEF SetId, tables, memory
  <2>3. CASE poll # Idle
    BY <1>5, <2>1, <2>3 DEF SetId, Together
  <2> QED
    BY <2>2, <2>3
<1>6. CASE Read
  <2>1. Frame.over \in Nat /\ Frame.legal \in Nat
    BY LegalIsNat DEF LogTyped, FeedTyped, Frame
  <2>2. poll' \in Polls(Frame, InningsOf(Frame), unseen)
    BY <1>6 DEF Read, Polls
  <2>3. PollTyped'
    BY <2>1, <2>2 DEF PollTyped
  <2>4. LogTyped'
    BY <1>6, <2>3 DEF Read, LogTyped, FeedTyped, tables
  <2> QED
    BY <1>6, <2>4, QuietKeeps DEF Read, tables
<1>7. CASE SameId
  <2>1. LogTyped'
    BY <1>7, FollowTyped DEF SameId, Followed, LogTyped, tables
  <2>2. torn' \/ \A m \in MatchIds : Holds(m) => m = id
    <3>1. CASE loggedMid = NoMid
      BY <1>7, <3>1 DEF SameId
    <3>2. CASE loggedMid = id
      BY <1>7, <3>2, LogAssumption DEF SameId, Together, UnderIt, LogTyped
    <3> QED
      BY <1>7, <3>1, <3>2 DEF SameId
  <2>3. torn' \/ \A m \in MatchIds : Holds(m)' => m = id
    BY <1>7, <2>2 DEF SameId, Holds, tables
  <2> QED
    BY <1>7, <2>1, <2>3, FollowKeeps DEF SameId
<1>8. CASE StayBehind
  <2>1. LogTyped'
    BY <1>8, FollowTyped DEF StayBehind, Followed, LogTyped, tables
  <2>2. torn' \/ \A m \in MatchIds : Holds(m) => m = id
    <3>1. CASE Holds(id)
      BY <1>8, <3>1 DEF StayBehind, Together, UnderIt, LogTyped
    <3>2. CASE ~Underway(poll.frame)
      <4>1. torn' \/ ~Holds(loggedMid)
        BY <1>8, <3>2, NotUnderway DEF StayBehind
      <4> QED
        BY <1>8, <4>1 DEF StayBehind, Together, UnderIt
    <3> QED
      BY <1>8, <3>1, <3>2 DEF StayBehind
  <2>3. torn' \/ \A m \in MatchIds : Holds(m)' => m = id
    BY <1>8, <2>2 DEF StayBehind, Holds, tables
  <2> QED
    BY <1>8, <2>1, <2>3, FollowKeeps DEF StayBehind
<1>9. CASE MoveMatch
  <2>1. LogTyped'
    BY <1>9, FollowTyped DEF MoveMatch, Moved, LogTyped
  <2>2. torn' \/ \A m \in MatchIds : Holds(m)' => m = id
    BY <1>9, MoveTogether DEF MoveMatch
  <2> QED
    BY <1>9, <2>1, <2>2, FollowKeeps DEF MoveMatch
<1>10. CASE MoveFails
  <2>1. LogTyped'
    BY <1>10, FollowTyped DEF MoveFails, LogTyped, tables
  <2> QED
    BY <1>10, <2>1 DEF MoveFails, Together
<1>11. CASE LogOverBreak
  <2> DEFINE after == RowsAfterRecovery(poll.frame, poll.inn)
  <2>1. poll.at = "log" /\ poll' = [poll EXCEPT !.at = "figures"]
    BY <1>11 DEF LogOverBreak, Logging, Logged
  <2>2. rows' = after /\ after = [k \in Keys |-> after[k]] /\ \A k \in Keys : k.mid # id => after[k] = rows[k]
    BY <1>0, <1>11, OnlyUnderId DEF LogOverBreak
  <2> HIDE DEF after
  <2> QED
    BY <1>0, <1>11, <2>1, <2>2, WriteStep DEF LogOverBreak, Logging
<1>12. CASE LogOver
  <2> DEFINE after == RowsAfterRecovery(poll.frame, poll.inn)
             key == Key(id, poll.inn, poll.frame.over)
  <2>1. poll.at = "log" /\ poll' = [poll EXCEPT !.at = "figures"] /\ key.mid = id
    BY <1>12 DEF LogOver, Logging, Logged, Key
  <2>2. PICK over : rows' = [after EXCEPT ![key] = over]
    BY <1>12 DEF LogOver
  <2>3. after = [k \in Keys |-> after[k]] /\ \A k \in Keys : k.mid # id => after[k] = rows[k]
    BY <1>0, OnlyUnderId
  <2> HIDE DEF after, key
  <2>4. rows' = [k \in Keys |-> rows'[k]] /\ \A k \in Keys : k.mid # id => rows'[k] = rows[k]
    BY <2>1, <2>2, <2>3
  <2> QED
    BY <1>0, <1>12, <2>1, <2>4, WriteStep DEF LogOver, Logging
<1>13. CASE TailFails
  <2>1. poll.at = "log" /\ poll' = [poll EXCEPT !.at = "figures"]
    BY <1>13 DEF TailFails, Logging, Refused
  <2>2. rows' = [k \in Keys |-> rows'[k]] /\ \A k \in Keys : k.mid # id => rows'[k] = rows[k]
    BY <1>0, <1>13 DEF TailFails, LogTyped
  <2> QED
    BY <1>0, <1>13, <2>1, <2>2, WriteStep DEF TailFails, Logging
<1>14. CASE RecoveryFails
  <2> DEFINE after == RowsAfterTail(poll.frame, poll.inn)
  <2>1. poll.at = "log" /\ poll' = [poll EXCEPT !.at = "figures"]
    BY <1>14 DEF RecoveryFails, Logging, Refused
  <2>2. rows' = after /\ after = [k \in Keys |-> after[k]] /\ \A k \in Keys : k.mid # id => after[k] = rows[k]
    BY <1>0, <1>14, TailUnderId DEF RecoveryFails
  <2> HIDE DEF after
  <2> QED
    BY <1>0, <1>14, <2>1, <2>2, WriteStep DEF RecoveryFails, Logging
<1>15. CASE RewriteFails
  <2> DEFINE after == RowsAfterRecovery(poll.frame, poll.inn)
  <2>1. poll.at = "log" /\ poll' = [poll EXCEPT !.at = "figures"]
    BY <1>15 DEF RewriteFails, Logging, Refused
  <2>2. rows' = after /\ after = [k \in Keys |-> after[k]] /\ \A k \in Keys : k.mid # id => after[k] = rows[k]
    BY <1>0, <1>15, OnlyUnderId DEF RewriteFails
  <2> HIDE DEF after
  <2> QED
    BY <1>0, <1>15, <2>1, <2>2, WriteStep DEF RewriteFails, Logging
<1>16. CASE NoteFigures
  <2>1. LogTyped'
    BY <1>16 DEF NoteFigures, LogTyped, PollTyped, FeedTyped, memory
  <2>2. \A n \in noted' : n \in noted \/ n[1] = id
    BY <1>16 DEF NoteFigures
  <2> QED
    BY <1>16, <2>1, <2>2, WriteKeeps DEF NoteFigures, memory
<1>17. CASE FiguresFail
  <2>1. LogTyped'
    BY <1>17 DEF FiguresFail, LogTyped, PollTyped, FeedTyped, memory, tables
  <2> QED
    BY <1>17, <2>1, QuietKeeps DEF FiguresFail, memory, tables, Idle
<1>18. CASE Restart
  <2>1. LogTyped'
    BY <1>18 DEF Restart, LogTyped, PollTyped, FeedTyped, tables
  <2>2. Together'
    BY <1>18 DEF Restart, Together, UnderIt, UnderOne, Following, Holds, tables, Idle
  <2> QED
    BY <2>1, <2>2
<1> QED
  BY <1>1, <1>2, <1>3, <1>4, <1>5, <1>6, <1>7, <1>8, <1>9, <1>10, <1>11, <1>12, <1>13,
     <1>14, <1>15, <1>16, <1>17, <1>18 DEF Next

(* FollowMatchID (matchfacts.go): an id change that the code is able to see never  *)
(* leaves part of the match's balls under the old id, whatever polls are missed,    *)
(* whichever transaction of the log fails, and whenever the server restarts.        *)
THEOREM MatchAlwaysTogether == Spec => []MatchTogether
<1>1. LogInv => MatchTogether
  <2> SUFFICES ASSUME LogTyped, Together, ~torn, NEW j \in Keys, NEW k \in Keys,
                      rows[j] # <<>>, rows[k] # <<>>
               PROVE  j.mid = k.mid
    BY DEF LogInv, MatchTogether
  <2>1. j.mid \in MatchIds /\ k.mid \in MatchIds
    BY DEF Keys
  <2> QED
    BY <2>1 DEF Together, UnderOne, Holds
<1> QED
  BY InitLogInv, NextLogInv, <1>1, PTL DEF Spec

-----------------------------------------------------------------------------
(***************************************************************************)
(* What is logged adds up to the score (db.go, LogBallData).  The invariant is  *)
(* Exact: the scorer's frame fits the log with the balls that are unseen (Fits): *)
(*                                                                         *)
(*   Baseline    nothing of an over has been written: the runs logged are the    *)
(*               score remembered, and every ball since is in the ticker;         *)
(*   OverInHand  the last over written is in the log as it was in the ticker; the *)
(*               frame shows it with some balls more, or the over after it.        *)
(*                                                                         *)
(* While a poll is in hand, its own frame fits the log, and the scorer's is no     *)
(* more than so many balls Within that one.                                  *)
(***************************************************************************)

(* The runs of some balls, and how many of them are legal.                     *)

Tallied(n, balls) == /\ n \in Nat /\ DOMAIN balls = 1 .. n
                     /\ \A i \in 1 .. n : balls[i].runs \in Int

LEMMA AddedIsTotal == \A f : Added(f) = Total(f)
  BY DEF Added, Total

LEMMA RunsAreInt == ASSUME NEW n, NEW balls, Tallied(n, balls) PROVE RunsOf(balls) \in Int
<1> DEFINE runs == [i \in 1 .. n |-> balls[i].runs]
<1>1. RunsOf(balls) = Total(runs) /\ runs \in [1 .. n -> Int]
  BY AddedIsTotal DEF RunsOf, Tallied
<1>2. IsFiniteSet(1 .. n)
  BY FS_Interval DEF Tallied
<1> HIDE DEF runs
<1> QED
  BY <1>1, <1>2, TotalIsInt

LEMMA SameRuns ==
  ASSUME NEW balls, NEW others, DOMAIN balls = DOMAIN others,
         \A i \in DOMAIN balls : balls[i].runs = others[i].runs
  PROVE  RunsOf(balls) = RunsOf(others)
<1>1. [i \in DOMAIN balls |-> balls[i].runs] = [i \in DOMAIN others |-> others[i].runs]
  OBVIOUS
<1> QED
  BY <1>1 DEF RunsOf

\* A ball more.
LEMMA RunsOfMore ==
  ASSUME NEW n, NEW balls, NEW more, Tallied(n, balls), Tallied(n + 1, more),
         \A i \in 1 .. n : balls[i].runs = more[i].runs
  PROVE  RunsOf(more) = RunsOf(balls) + more[n + 1].runs
<1> DEFINE s == [i \in 1 .. n |-> balls[i].runs]
           t == [i \in 1 .. n + 1 |-> more[i].runs]
<1>1. RunsOf(balls) = Total(s) /\ RunsOf(more) = Total(t)
  BY AddedIsTotal DEF RunsOf, Tallied
<1>2. n \in Nat /\ s \in [1 .. n -> Int] /\ t \in [1 .. (n + 1) -> Int] /\ t[n + 1] = more[n + 1].runs
  BY DEF Tallied
<1>3. \A i \in 1 .. n : s[i] = t[i]
  BY DEF Tallied
<1> HIDE DEF s, t
<1> QED
  BY <1>1, <1>2, <1>3, TotalOfLonger, Zenon

LEMMA NoRuns == RunsOf(<<>>) = 0
<1>1. [i \in DOMAIN <<>> |-> <<>>[i].runs] \in [{} -> Int]
  OBVIOUS
<1> QED
  BY <1>1, TotalOfNone, AddedIsTotal DEF RunsOf

LEMMA KindsAre == ASSUME NEW b \in Kinds PROVE b.runs \in Nat /\ b.legal \in BOOLEAN /\ b.wicket \in BOOLEAN
  BY FeedAssumption

LEMMA SeqsTally == ASSUME NEW balls \in Seq(Kinds) PROVE Tallied(Len(balls), balls) /\ RunsOf(balls) \in Int
<1>1. Tallied(Len(balls), balls)
  BY KindsAre DEF Tallied
<1> QED
  BY <1>1, RunsAreInt

LEMMA RunsAreNat == ASSUME NEW balls \in Seq(Kinds) PROVE RunsOf(balls) \in Nat
<1> DEFINE runs == [i \in 1 .. Len(balls) |-> balls[i].runs]
<1>1. /\ RunsOf(balls) = Total(runs) /\ runs \in [1 .. Len(balls) -> Int]
      /\ \A i \in 1 .. Len(balls) : runs[i] \in Nat
  BY AddedIsTotal, KindsAre DEF RunsOf
<1>2. IsFiniteSet(1 .. Len(balls))
  BY FS_Interval
<1> HIDE DEF runs
<1> QED
  BY <1>1, <1>2, TotalIsNat

LEMMA RunsOfAppend ==
  ASSUME NEW balls \in Seq(Kinds), NEW b \in Kinds
  PROVE  /\ Append(balls, b) \in Seq(Kinds) /\ RunsOf(Append(balls, b)) = RunsOf(balls) + b.runs
         /\ RunsOf(Append(balls, b)) >= RunsOf(balls) /\ Len(Append(balls, b)) = Len(balls) + 1
<1> DEFINE more == Append(balls, b)
<1>1. /\ more \in Seq(Kinds) /\ Len(more) = Len(balls) + 1 /\ more[Len(balls) + 1] = b
      /\ \A i \in 1 .. Len(balls) : more[i] = balls[i]
  BY AppendProperties
<1> HIDE DEF more
<1>2. Tallied(Len(balls), balls) /\ Tallied(Len(balls) + 1, more)
  BY <1>1, SeqsTally
<1>3. RunsOf(more) = RunsOf(balls) + b.runs
  BY <1>1, <1>2, RunsOfMore
<1>4. b.runs \in Nat /\ RunsOf(balls) \in Int
  BY KindsAre, SeqsTally
<1> QED
  BY <1>1, <1>3, <1>4 DEF more

Legals(balls) == {i \in DOMAIN balls : balls[i].legal}

LEMMA LegalsAre ==
  ASSUME NEW balls \in Seq(Kinds)
  PROVE  /\ IsFiniteSet(Legals(balls)) /\ LegalOf(balls) = Cardinality(Legals(balls))
         /\ LegalOf(balls) \in Nat /\ LegalOf(balls) <= Len(balls)
         /\ (LegalOf(balls) >= 1 <=> \E i \in 1 .. Len(balls) : balls[i].legal)
<1>1. DOMAIN balls = 1 .. Len(balls) /\ Len(balls) \in Nat /\ Legals(balls) \subseteq 1 .. Len(balls)
  BY DEF Legals
<1>2. IsFiniteSet(1 .. Len(balls)) /\ Cardinality(1 .. Len(balls)) = Len(balls)
  <2>1. ASSUME NEW n \in Nat PROVE IsFiniteSet(1 .. n) /\ Cardinality(1 .. n) = n
    BY FS_Interval
  <2> QED
    BY <1>1, <2>1
<1>3. /\ IsFiniteSet(Legals(balls)) /\ Cardinality(Legals(balls)) \in Nat
      /\ Cardinality(Legals(balls)) <= Len(balls)
  BY <1>1, <1>2, FS_Subset, FS_CardinalityType
<1>4. Cardinality(Legals(balls)) >= 1 <=> Legals(balls) # {}
  BY <1>3, FS_EmptySet
<1>5. LegalOf(balls) = Cardinality(Legals(balls))
  BY DEF LegalOf, Legals
<1> QED
  BY <1>1, <1>3, <1>4, <1>5 DEF Legals

LEMMA LegalOfAppend ==
  ASSUME NEW balls \in Seq(Kinds), NEW b \in Kinds
  PROVE  LegalOf(Append(balls, b)) = IF b.legal THEN LegalOf(balls) + 1 ELSE LegalOf(balls)
<1> DEFINE more == Append(balls, b)
           n == Len(balls)
<1>1. /\ more \in Seq(Kinds) /\ DOMAIN more = 1 .. n + 1 /\ more[n + 1] = b
      /\ \A i \in 1 .. n : more[i] = balls[i]
  BY AppendProperties
<1>2. n \in Nat /\ DOMAIN balls = 1 .. n /\ n + 1 \notin Legals(balls)
  BY DEF Legals
<1>3. Legals(more) = IF b.legal THEN Legals(balls) \cup {n + 1} ELSE Legals(balls)
  <2> HIDE DEF more
  <2>1. \A i : i \in Legals(more) <=> i \in 1 .. n + 1 /\ more[i].legal
    BY <1>1 DEF Legals
  <2>2. \A i : i \in Legals(balls) <=> i \in 1 .. n /\ balls[i].legal
    BY <1>2 DEF Legals
  <2>3. \A i : i \in 1 .. n + 1 <=> i \in 1 .. n \/ i = n + 1
    BY <1>2
  <2>4. CASE b.legal
    <3>1. \A i : i \in Legals(more) <=> i \in Legals(balls) \/ i = n + 1
      BY <1>1, <2>1, <2>2, <2>3, <2>4
    <3> QED
      BY <2>4, <3>1
  <2>5. CASE ~b.legal
    <3>1. \A i : i \in Legals(more) <=> i \in Legals(balls)
      BY <1>1, <2>1, <2>2, <2>3, <2>5
    <3> QED
      BY <2>5, <3>1
  <2> QED
    BY <2>4, <2>5
<1> HIDE DEF more
<1>4. IsFiniteSet(Legals(balls)) /\ LegalOf(balls) = Cardinality(Legals(balls))
      /\ LegalOf(more) = Cardinality(Legals(more))
  BY <1>1, LegalsAre
<1>5. Cardinality(Legals(balls) \cup {n + 1}) = Cardinality(Legals(balls)) + 1
  BY <1>2, <1>4, FS_AddElement
<1> QED
  BY <1>3, <1>4, <1>5 DEF more

LEMMA NoLegals == LegalOf(<<>>) = 0
<1>1. PICK none \in Seq(Kinds) : none = <<>> /\ Len(none) = 0
  <2>1. <<>> \in Seq(Kinds) /\ Len(<<>>) = 0
    OBVIOUS
  <2> QED
    BY <2>1, Zenon
<1>2. LegalOf(none) \in Nat /\ LegalOf(none) <= 0
  BY <1>1, LegalsAre
<1>3. LegalOf(none) = 0
  BY <1>2
<1> QED
  BY <1>1, <1>3

LEMMA PrefixIs ==
  ASSUME NEW s \in Seq(Kinds), NEW t \in Seq(Kinds)
  PROVE  IsPrefix(s, t) <=> Len(s) <= Len(t) /\ \A i \in 1 .. Len(s) : s[i] = t[i]
<1>1. ASSUME Len(s) <= Len(t), SubSeq(s, 1, Len(s)) = SubSeq(t, 1, Len(s))
      PROVE  \A i \in 1 .. Len(s) : s[i] = t[i]
  <2>1. \A i \in 1 .. Len(s) : SubSeq(s, 1, Len(s))[i] = s[i] /\ SubSeq(t, 1, Len(s))[i] = t[i]
    BY <1>1
  <2> QED
    BY <1>1, <2>1
<1>2. ASSUME Len(s) <= Len(t), \A i \in 1 .. Len(s) : s[i] = t[i]
      PROVE  SubSeq(s, 1, Len(s)) = SubSeq(t, 1, Len(s))
  BY <1>2
<1> QED
  BY <1>1, <1>2 DEF IsPrefix

LEMMA PrefixOfMore ==
  ASSUME NEW s \in Seq(Kinds), NEW t \in Seq(Kinds), NEW b \in Kinds, IsPrefix(s, t)
  PROVE  IsPrefix(s, Append(t, b))
<1>1. PICK more \in Seq(Kinds) : /\ more = Append(t, b) /\ Len(more) = Len(t) + 1
                                  /\ \A i \in 1 .. Len(t) : more[i] = t[i]
  <2>1. Append(t, b) \in Seq(Kinds) /\ Len(Append(t, b)) = Len(t) + 1
    BY AppendProperties
  <2>2. \A i \in 1 .. Len(t) : Append(t, b)[i] = t[i]
    BY AppendProperties
  <2> QED
    BY <2>1, <2>2, Zenon
<1>2. Len(s) <= Len(t) /\ Len(s) \in Nat /\ Len(t) \in Nat /\ \A i \in 1 .. Len(s) : s[i] = t[i]
  BY PrefixIs
<1>3. IsPrefix(s, more)
  <2>1. Len(s) <= Len(more) /\ \A i \in 1 .. Len(s) : s[i] = more[i]
    BY <1>1, <1>2
  <2> QED
    BY <2>1, PrefixIs
<1> QED
  BY <1>1, <1>3

\* A legal ball stays one.
LEMMA LegalInMore ==
  ASSUME NEW s \in Seq(Kinds), NEW t \in Seq(Kinds), IsPrefix(s, t), LegalOf(s) >= 1
  PROVE  LegalOf(t) >= 1
<1>1. Len(s) <= Len(t) /\ Len(s) \in Nat /\ Len(t) \in Nat /\ \A i \in 1 .. Len(s) : s[i] = t[i]
  BY PrefixIs
<1>2. PICK i \in 1 .. Len(s) : s[i].legal
  BY LegalsAre
<1>3. i \in 1 .. Len(t) /\ t[i].legal
  BY <1>1, <1>2
<1> QED
  BY <1>3, LegalsAre

-----------------------------------------------------------------------------
(***************************************************************************)
(* Frames.  What a frame says of the over in progress; and how far a frame is   *)
(* on from some balls of an over and the score with them: so many deliveries at  *)
(* most, which do not complete a second over.                                   *)
(***************************************************************************)

InHand(f) == IF Lingering(f) THEN <<>> ELSE f.ticker
AtStart(f) == f.score - RunsOf(InHand(f))

IsFrame(f) ==
    /\ f.over \in 0 .. Overs /\ f.score \in Nat /\ f.ticker \in Seq(Kinds)
    /\ f.bowler = Bowler(f.over) /\ f.legal = LegalOf(InHand(f)) /\ f.legal < BPO

Further(s, g, d) ==
    /\ IsPrefix(s, InHand(g)) /\ RunsOf(s) <= RunsOf(InHand(g))
    /\ Len(InHand(g)) - Len(s) <= d /\ LegalOf(InHand(g)) - LegalOf(s) <= d

\* When as many polls as may be were missed, nothing more is bowled before the next.
SameOver(over, s, score, g, d) ==
    /\ g.over = over /\ (s # <<>> => InHand(g) # <<>>)
    /\ AtStart(g) = score - RunsOf(s)
    /\ d = MaxMissed \/ Further(s, g, d)

\* The runs of the over s is of, once it is complete.
OverRuns(s, score, g) == AtStart(g) - score + RunsOf(s)

NextOver(over, s, score, g, d) ==
    /\ g.over = over + 1 /\ BPO - LegalOf(s) + Len(InHand(g)) <= d
    /\ RunsOf(s) <= OverRuns(s, score, g)
    /\ Lingering(g) => IsPrefix(s, g.ticker) /\ RunsOf(g.ticker) <= OverRuns(s, score, g)

Reached(over, s, score, g, d) == SameOver(over, s, score, g, d) \/ NextOver(over, s, score, g, d)

\* One frame is a ball on from another.
Bowled(f, g, b) ==
    LET balls == Append(InHand(f), b)
    IN  /\ g.score = f.score + b.runs
        /\ \/ g.over = f.over /\ InHand(g) = balls /\ ~Lingering(g)
           \/ /\ g.over = f.over + 1 /\ InHand(g) = <<>> /\ LegalOf(balls) = BPO
              /\ Lingering(g) => g.ticker \in {InHand(f), balls}

LEMMA ConstantsAre == /\ BPO \in Nat /\ Overs \in Nat /\ MaxMissed \in Nat /\ MaxMissed >= 1 /\ MaxMissed < BPO
                      /\ BPO >= 2 /\ Overs >= 1
<1>1. BPO \in Nat \ {0} /\ Overs \in Nat \ {0}
  BY FeedAssumption
<1>2. MaxMissed \in 1 .. BPO - 1
  BY LogAssumption
<1> QED
  BY <1>1, <1>2

LEMMA FramesAre ==
  ASSUME NEW f, IsFrame(f)
  PROVE  /\ InHand(f) \in Seq(Kinds) /\ RunsOf(InHand(f)) \in Int /\ AtStart(f) \in Int
         /\ RunsOf(f.ticker) \in Int /\ LegalOf(InHand(f)) \in Nat /\ LegalOf(InHand(f)) < BPO
         /\ LegalOf(InHand(f)) <= Len(InHand(f)) /\ Len(InHand(f)) \in Nat
         /\ f.over \in Nat /\ f.over <= Overs /\ f.score \in Nat /\ f.ticker \in Seq(Kinds)
<1>1. InHand(f) \in Seq(Kinds)
  <2>1. <<>> \in Seq(Kinds) /\ f.ticker \in Seq(Kinds)
    BY DEF IsFrame
  <2> QED
    BY <2>1 DEF InHand
<1>2. RunsOf(InHand(f)) \in Int /\ RunsOf(f.ticker) \in Int
  BY <1>1, SeqsTally DEF IsFrame
<1>3. LegalOf(InHand(f)) \in Nat /\ LegalOf(InHand(f)) <= Len(InHand(f)) /\ Len(InHand(f)) \in Nat
  BY <1>1, LegalsAre
<1>4. f.over \in Nat /\ f.over <= Overs
  BY ConstantsAre DEF IsFrame
<1> QED
  BY <1>1, <1>2, <1>3, <1>4 DEF IsFrame, AtStart

LEMMA BallsAre ==
  ASSUME NEW s \in Seq(Kinds)
  PROVE  RunsOf(s) \in Int /\ LegalOf(s) \in Nat /\ Len(s) \in Nat /\ LegalOf(s) <= Len(s)
  BY SeqsTally, LegalsAre

LEMMA ReachedBowled ==
  ASSUME NEW f, NEW g, NEW b \in Kinds, IsFrame(f), IsFrame(g), Bowled(f, g, b),
         NEW over, NEW s \in Seq(Kinds), LegalOf(s) < BPO, NEW score \in Int,
         NEW d \in Nat, d < MaxMissed, Reached(over, s, score, f, d)
  PROVE  Reached(over, s, score, g, d + 1)
<1> DEFINE now == InHand(f)
           balls == Append(now, b)
<1>1. /\ now \in Seq(Kinds) /\ RunsOf(now) \in Int /\ LegalOf(now) \in Nat /\ LegalOf(now) <= Len(now)
      /\ Len(now) \in Nat /\ AtStart(f) \in Int /\ AtStart(f) = f.score - RunsOf(now)
      /\ f.score \in Nat /\ f.over \in Nat /\ LegalOf(now) < BPO
  BY FramesAre DEF AtStart
<1>2. RunsOf(s) \in Int /\ LegalOf(s) \in Nat /\ Len(s) \in Nat
  BY BallsAre
<1>3. /\ balls \in Seq(Kinds) /\ RunsOf(balls) = RunsOf(now) + b.runs /\ RunsOf(balls) >= RunsOf(now)
      /\ Len(balls) = Len(now) + 1 /\ b.runs \in Nat /\ balls # <<>>
  <2>1. balls \in Seq(Kinds) /\ RunsOf(balls) = RunsOf(now) + b.runs /\ RunsOf(balls) >= RunsOf(now)
        /\ Len(balls) = Len(now) + 1
    BY <1>1, RunsOfAppend
  <2>2. Len(balls) # 0
    BY <1>1, <2>1
  <2> HIDE DEF balls
  <2> QED
    BY <2>1, <2>2, KindsAre
<1>4. LegalOf(balls) \in Nat /\ LegalOf(balls) <= LegalOf(now) + 1
  <2>1. b.legal \in BOOLEAN
    BY KindsAre
  <2> QED
    BY <1>1, <2>1, LegalOfAppend
<1>5. /\ g.score = f.score + b.runs
      /\ \/ g.over = f.over /\ InHand(g) = balls /\ ~Lingering(g)
         \/ /\ g.over = f.over + 1 /\ InHand(g) = <<>> /\ LegalOf(balls) = BPO
            /\ Lingering(g) => g.ticker \in {now, balls}
  BY DEF Bowled
<1>6. RunsOf(<<>>) = 0 /\ Len(<<>>) = 0
  BY NoRuns
<1>7. BPO \in Nat /\ MaxMissed \in Nat /\ MaxMissed < BPO
  BY ConstantsAre
<1>8. IsPrefix(s, now) => IsPrefix(s, balls)
  BY <1>1, PrefixOfMore
<1>9. AtStart(g) = g.score - RunsOf(InHand(g))
  BY DEF AtStart
<1> HIDE DEF balls, now
<1>10. CASE SameOver(over, s, score, f, d)
  <2>1. /\ f.over = over /\ AtStart(f) = score - RunsOf(s) /\ IsPrefix(s, now) /\ RunsOf(s) <= RunsOf(now)
        /\ Len(now) - Len(s) <= d /\ LegalOf(now) - LegalOf(s) <= d
    BY <1>10, <1>7 DEF SameOver, Further, now
  <2>2. CASE g.over = f.over /\ InHand(g) = balls /\ ~Lingering(g)
    <3>1. AtStart(g) = AtStart(f)
      BY <1>1, <1>3, <1>5, <1>9, <2>2
    <3>2. Further(s, g, d + 1)
      <4>1. Len(balls) - Len(s) <= d + 1
        BY <1>1, <1>2, <1>3, <2>1
      <4>2. LegalOf(balls) - LegalOf(s) <= d + 1
        BY <1>1, <1>2, <1>4, <2>1
      <4>3. RunsOf(s) <= RunsOf(balls)
        BY <1>1, <1>2, <1>3, <2>1
      <4> QED
        BY <1>8, <2>1, <2>2, <4>1, <4>2, <4>3 DEF Further
    <3> QED
      BY <1>3, <2>1, <2>2, <3>1, <3>2 DEF Reached, SameOver
  <2>3. CASE g.over = f.over + 1 /\ InHand(g) = <<>> /\ LegalOf(balls) = BPO
             /\ (Lingering(g) => g.ticker \in {now, balls})
    <3>1. AtStart(g) = f.score + b.runs
      BY <1>1, <1>3, <1>5, <1>6, <1>9, <2>3
    <3>2. OverRuns(s, score, g) = RunsOf(balls)
      <4>1. OverRuns(s, score, g) = (f.score + b.runs) - score + RunsOf(s)
        BY <3>1 DEF OverRuns
      <4>2. f.score - RunsOf(now) = score - RunsOf(s)
        BY <1>1, <2>1
      <4>3. f.score \in Int /\ b.runs \in Int /\ RunsOf(now) \in Int /\ RunsOf(s) \in Int /\ score \in Int
        BY <1>1, <1>2, <1>3
      <4>4. RunsOf(balls) = RunsOf(now) + b.runs
        BY <1>3
      <4>5. ASSUME NEW x \in Int, NEW y \in Int, NEW u \in Int, NEW v \in Int, NEW w \in Int, x - u = w - v
            PROVE  x + y - w + v = u + y
        BY <4>5
      <4> QED
        BY <4>1, <4>2, <4>3, <4>4, <4>5
    <3>3. BPO - LegalOf(s) + Len(InHand(g)) <= d + 1
      BY <1>1, <1>2, <1>4, <1>6, <1>7, <2>1, <2>3
    <3>4. RunsOf(s) <= RunsOf(balls)
      BY <1>1, <1>2, <1>3, <2>1
    <3>5. Lingering(g) => IsPrefix(s, g.ticker) /\ RunsOf(g.ticker) <= RunsOf(balls)
      BY <1>1, <1>3, <1>8, <2>1, <2>3, SMTT(30)
    <3> QED
      BY <2>1, <2>3, <3>2, <3>3, <3>4, <3>5 DEF Reached, NextOver
  <2> QED
    BY <1>5, <2>2, <2>3
<1>11. CASE NextOver(over, s, score, f, d)
  <2>1. f.over = over + 1 /\ BPO - LegalOf(s) + Len(now) <= d /\ RunsOf(s) <= OverRuns(s, score, f)
    BY <1>11 DEF NextOver, now
  <2>2. LegalOf(balls) # BPO
    BY <1>1, <1>2, <1>4, <1>7, <2>1
  <2>3. g.over = f.over /\ InHand(g) = balls /\ ~Lingering(g)
    BY <1>5, <2>2
  <2>4. AtStart(g) = AtStart(f)
    BY <1>1, <1>3, <1>5, <1>9, <2>3
  <2>5. BPO - LegalOf(s) + Len(InHand(g)) <= d + 1
    BY <1>1, <1>2, <1>3, <1>7, <2>1, <2>3, SMTT(30)
  <2> QED
    BY <2>1, <2>3, <2>4, <2>5 DEF Reached, NextOver, OverRuns
<1> QED
  BY <1>10, <1>11 DEF Reached

\* A frame has reached itself.
LEMMA ReachedItself ==
  ASSUME NEW f, IsFrame(f) PROVE Reached(f.over, InHand(f), f.score, f, 0)
<1>1. InHand(f) \in Seq(Kinds) /\ RunsOf(InHand(f)) \in Int /\ LegalOf(InHand(f)) \in Nat /\ Len(InHand(f)) \in Nat
  BY FramesAre
<1>2. IsPrefix(InHand(f), InHand(f))
  BY <1>1, PrefixIs
<1> QED
  BY <1>1, <1>2 DEF Reached, SameOver, Further, AtStart

-----------------------------------------------------------------------------
(* The scorer's feed: its frame shows the over in progress, and no other, but for  *)
(* a ticker that lingers.                                                       *)

FeedIs == /\ IsFrame(Frame) /\ InHand(Frame) = feed.cur /\ AtStart(Frame) \in Nat
          /\ feed.inn \in 1 .. 2 /\ feed.first \in Nat

FrameFields == /\ Frame.over = feed.over /\ Frame.legal = LegalOf(feed.cur) /\ Frame.score = feed.score
               /\ Frame.wkts = feed.wkts /\ Frame.ticker = feed.ticker /\ Frame.bowler = Bowler(feed.over)
               /\ Frame.required = (feed.inn = 2 /\ ~Won(feed))

LEMMA FrameHas == FrameFields
  BY DEF FrameFields, Frame

FeedParts ==
    /\ feed.over \in 0 .. Overs /\ feed.score \in Nat /\ feed.score - RunsOf(feed.cur) \in Nat
    /\ feed.ticker \in Seq(Kinds)
    /\ LegalOf(feed.cur) < BPO /\ feed.inn \in 1 .. 2 /\ feed.first \in Nat
    /\ feed.cur = feed.ticker \/ (feed.cur = <<>> /\ LegalOf(feed.ticker) > 0)

LEMMA FrameFrom == FeedParts => FeedIs
<1> SUFFICES ASSUME FeedParts PROVE FeedIs
  OBVIOUS
<1> USE DEF FeedParts
<1> DEFINE f == Frame
<1>1. /\ f.over = feed.over /\ f.legal = LegalOf(feed.cur) /\ f.score = feed.score /\ f.ticker = feed.ticker
      /\ f.bowler = Bowler(feed.over)
  BY FrameHas DEF FrameFields
<1>2. InHand(f) = feed.cur
  <2>1. CASE feed.cur = feed.ticker
    <3>1. LegalOf(feed.ticker) \in Nat
      BY BallsAre
    <3>2. ~Lingering(f)
      BY <1>1, <2>1, <3>1 DEF Lingering
    <3> QED
      BY <1>1, <2>1, <3>2 DEF InHand
  <2>2. CASE feed.cur = <<>> /\ LegalOf(feed.ticker) > 0
    <3>1. Lingering(f)
      BY <1>1, <2>2, NoLegals DEF Lingering
    <3> QED
      BY <2>2, <3>1 DEF InHand
  <2> QED
    BY <2>1, <2>2
<1> HIDE DEF f
<1>3. IsFrame(f)
  BY <1>1, <1>2 DEF IsFrame
<1>4. AtStart(f) \in Nat
  BY <1>1, <1>2 DEF AtStart
<1> QED
  BY <1>2, <1>3, <1>4 DEF FeedIs, f

LEMMA InitFeedIs == FeedInit => FeedIs
<1> SUFFICES ASSUME FeedInit PROVE FeedIs
  OBVIOUS
<1>1. feed.over = 0 /\ feed.score = 0 /\ feed.ticker = <<>> /\ feed.cur = <<>> /\ feed.inn = 1 /\ feed.first = 0
  BY DEF FeedInit
<1>2. 0 \in 0 .. Overs /\ LegalOf(<<>>) < BPO /\ <<>> \in Seq(Kinds)
  BY ConstantsAre, NoLegals
<1> QED
  BY <1>1, <1>2, NoRuns, FrameFrom DEF FeedParts

\* The fields of a frame again, of the one that is.
LEMMA FeedNow ==
  ASSUME FeedTyped, FeedIs
  PROVE  /\ feed.over \in 0 .. Overs /\ feed.score \in Nat /\ feed.ticker \in Seq(Kinds) /\ feed.cur \in Seq(Kinds)
         /\ LegalOf(feed.cur) \in Nat /\ LegalOf(feed.cur) < BPO /\ RunsOf(feed.cur) \in Int
         /\ InHand(Frame) = feed.cur /\ feed.score - RunsOf(feed.cur) \in Nat
<1>1. IsFrame(Frame) /\ InHand(Frame) = feed.cur /\ AtStart(Frame) \in Nat /\ FrameFields
  BY FrameHas DEF FeedIs
<1>2. feed.cur \in Seq(Kinds)
  BY DEF FeedTyped
<1> QED
  BY <1>1, <1>2, BallsAre DEF IsFrame, FrameFields, AtStart

LEMMA BowlFrame ==
  ASSUME FeedTyped, FeedIs, NEW b \in Kinds, Bowl(b)
  PROVE  /\ FeedIs' /\ Bowled(Frame, Frame', b) /\ ~Won(feed)
         /\ feed'.inn = feed.inn /\ feed'.first = feed.first
<1> DEFINE balls == Append(feed.cur, b)
<1>1. /\ feed.over \in 0 .. Overs /\ feed.score \in Nat /\ feed.cur \in Seq(Kinds)
      /\ LegalOf(feed.cur) \in Nat /\ LegalOf(feed.cur) < BPO /\ InHand(Frame) = feed.cur
      /\ RunsOf(feed.cur) \in Int /\ feed.score - RunsOf(feed.cur) \in Nat
  BY FeedNow
<1>2. ~Closed(feed) /\ feed.over # Overs /\ ~Won(feed)
  BY DEF Bowl, Closed
<1>3. /\ balls \in Seq(Kinds) /\ b.runs \in Nat
      /\ LegalOf(balls) \in Nat /\ LegalOf(balls) <= LegalOf(feed.cur) + 1
      /\ RunsOf(balls) = RunsOf(feed.cur) + b.runs
  <2>1. b.legal \in BOOLEAN /\ b.runs \in Nat
    BY KindsAre
  <2>2. LegalOf(balls) = IF b.legal THEN LegalOf(feed.cur) + 1 ELSE LegalOf(feed.cur)
    BY <1>1, LegalOfAppend
  <2>3. balls \in Seq(Kinds) /\ RunsOf(balls) = RunsOf(feed.cur) + b.runs
    BY <1>1, RunsOfAppend
  <2> QED
    BY <1>1, <2>1, <2>2, <2>3
<1>4. BPO \in Nat /\ BPO >= 2 /\ Overs \in Nat
  BY ConstantsAre
<1>5. PICK t \in Tickers : feed' = [feed EXCEPT
                !.over = IF LegalOf(balls) = BPO THEN feed.over + 1 ELSE feed.over,
                !.cur = IF LegalOf(balls) = BPO THEN <<>> ELSE balls,
                !.ticker = CASE LegalOf(balls) = BPO /\ t = "none"  -> <<>>
                             [] LegalOf(balls) = BPO /\ t = "stale" -> feed.cur
                             [] OTHER                               -> balls,
                !.score = feed.score + b.runs,
                !.wkts = IF b.wicket THEN feed.wkts + 1 ELSE feed.wkts]
  BY DEF Bowl
<1> HIDE DEF balls
<1>6. /\ feed'.inn = feed.inn /\ feed'.first = feed.first /\ feed'.score = feed.score + b.runs
      /\ feed'.over = IF LegalOf(balls) = BPO THEN feed.over + 1 ELSE feed.over
      /\ feed'.cur = IF LegalOf(balls) = BPO THEN <<>> ELSE balls
      /\ feed'.ticker = CASE LegalOf(balls) = BPO /\ t = "none"  -> <<>>
                          [] LegalOf(balls) = BPO /\ t = "stale" -> feed.cur
                          [] OTHER                               -> balls
  BY <1>5 DEF FeedTyped
<1>7. feed'.score \in Nat /\ feed'.inn \in 1 .. 2 /\ feed'.first \in Nat
  BY <1>1, <1>3, <1>6, SMTT(30) DEF FeedIs
<1>8. FrameFields'
  BY FrameHas, PTL
<1>9. CASE LegalOf(balls) # BPO
  <2>1. feed'.over = feed.over /\ feed'.cur = balls /\ feed'.ticker = balls
    BY <1>6, <1>9
  <2>2. LegalOf(balls) < BPO
    BY <1>1, <1>3, <1>4, <1>9
  <2>3. FeedIs'
    <3>1. feed'.over \in 0 .. Overs /\ feed'.ticker \in Seq(Kinds) /\ LegalOf(feed'.cur) < BPO
      BY <1>1, <1>3, <2>1, <2>2
    <3>2. feed'.score - RunsOf(feed'.cur) \in Nat
      BY <1>1, <1>3, <1>6, <2>1, SMTT(30)
    <3>3. FeedParts'
      BY <1>7, <2>1, <3>1, <3>2 DEF FeedParts
    <3> QED
      BY <3>3, FrameFrom, PTL
  <2>4. ~Lingering(Frame')
    BY <1>3, <1>8, <2>1 DEF Lingering, FrameFields
  <2>5. InHand(Frame') = balls
    BY <1>8, <2>1, <2>4 DEF InHand, FrameFields
  <2>6. Frame'.over = Frame.over /\ Frame'.score = Frame.score + b.runs
    BY <1>6, <1>8, <2>1, FrameHas DEF FrameFields
  <2>7. Bowled(Frame, Frame', b)
    BY <1>1, <2>4, <2>5, <2>6 DEF Bowled, balls
  <2> QED
    BY <1>2, <1>6, <2>3, <2>7
<1>10. CASE LegalOf(balls) = BPO
  <2>1. feed'.over = feed.over + 1 /\ feed'.cur = <<>> /\ feed'.ticker \in {<<>>, feed.cur, balls}
    BY <1>6, <1>10
  <2>2. feed'.ticker = <<>> \/ LegalOf(feed'.ticker) > 0
    BY <1>1, <1>3, <1>4, <1>10, <2>1
  <2>3. FeedIs'
    <3>1. feed'.over \in 0 .. Overs
      BY <1>1, <1>2, <1>4, <2>1
    <3>2. feed'.ticker \in Seq(Kinds)
      <4>1. <<>> \in Seq(Kinds)
        OBVIOUS
      <4> QED
        BY <1>1, <1>3, <2>1, <4>1
    <3>3. LegalOf(feed'.cur) < BPO
      BY <1>4, <2>1, NoLegals
    <3>4. feed'.cur = feed'.ticker \/ (feed'.cur = <<>> /\ LegalOf(feed'.ticker) > 0)
      BY <2>1, <2>2
    <3>5. feed'.score - RunsOf(feed'.cur) \in Nat
      BY <1>7, <2>1, NoRuns
    <3>6. FeedParts'
      BY <1>7, <3>1, <3>2, <3>3, <3>4, <3>5 DEF FeedParts
    <3> QED
      BY <3>6, FrameFrom, PTL
  <2>4. InHand(Frame') = <<>>
    BY <2>1, <2>3 DEF FeedIs
  <2>5. Lingering(Frame') => Frame'.ticker \in {feed.cur, balls}
    <3>1. Frame'.ticker = feed'.ticker
      BY <1>8 DEF FrameFields
    <3>2. feed'.ticker = <<>> => ~Lingering(Frame')
      BY <3>1, NoLegals DEF Lingering
    <3> QED
      BY <2>1, <3>1, <3>2
  <2>6. Frame'.over = Frame.over + 1 /\ Frame'.score = Frame.score + b.runs
    BY <1>6, <1>8, <2>1, FrameHas DEF FrameFields
  <2>7. Bowled(Frame, Frame', b)
    BY <1>1, <1>10, <2>4, <2>5, <2>6 DEF Bowled, balls
  <2> QED
    BY <1>2, <1>6, <2>3, <2>7
<1> QED
  BY <1>9, <1>10

LEMMA CorrectFrame ==
  ASSUME FeedTyped, FeedIs, NEW balls \in Seq(Kinds), Correct(balls)
  PROVE  /\ FeedIs' /\ feed'.inn = feed.inn /\ feed'.first = feed.first /\ ~Won(feed)
         /\ Frame'.over = Frame.over /\ InHand(Frame') # <<>> /\ AtStart(Frame') = AtStart(Frame)
         /\ ~Lingering(Frame') /\ InHand(Frame) # <<>>
<1>1. /\ feed.over \in 0 .. Overs /\ feed.score \in Nat /\ InHand(Frame) = feed.cur
      /\ RunsOf(feed.cur) \in Int /\ feed.score - RunsOf(feed.cur) \in Nat
  BY FeedNow
<1>2. /\ feed.cur # <<>> /\ balls # <<>> /\ LegalOf(balls) < BPO /\ ~Won(feed)
      /\ feed' = [feed EXCEPT !.cur = balls, !.ticker = balls,
                              !.score = feed.score - RunsOf(feed.cur) + RunsOf(balls)]
  BY DEF Correct, Closed
<1>3. /\ feed'.inn = feed.inn /\ feed'.first = feed.first /\ feed'.over = feed.over
      /\ feed'.cur = balls /\ feed'.ticker = balls
      /\ feed'.score = feed.score - RunsOf(feed.cur) + RunsOf(balls)
  BY <1>2 DEF FeedTyped
<1>4. RunsOf(balls) \in Nat
  BY RunsAreNat
<1>5. feed'.score \in Nat /\ feed'.score - RunsOf(feed'.cur) = feed.score - RunsOf(feed.cur)
  BY <1>1, <1>3, <1>4
<1>6. FeedIs'
  <2>1. feed'.inn \in 1 .. 2 /\ feed'.first \in Nat
    BY <1>3 DEF FeedIs
  <2>2. FeedParts'
    BY <1>1, <1>2, <1>3, <1>5, <2>1 DEF FeedParts
  <2> QED
    BY <2>2, FrameFrom, PTL
<1>7. FrameFields' /\ FrameFields
  BY FrameHas, PTL
<1>8. InHand(Frame') = balls
  BY <1>3, <1>6 DEF FeedIs
<1>9. ~Lingering(Frame')
  BY <1>2, <1>8 DEF InHand
<1>10. AtStart(Frame') = AtStart(Frame)
  BY <1>1, <1>3, <1>5, <1>7, <1>8 DEF AtStart, FrameFields
<1> QED
  BY <1>1, <1>2, <1>3, <1>6, <1>7, <1>8, <1>9, <1>10 DEF FrameFields

LEMMA OpenFrame ==
  ASSUME FeedTyped, FeedIs, NextInnings
  PROVE  /\ FeedIs' /\ feed.inn = 1 /\ feed'.inn = 2 /\ feed'.first = feed.score /\ ~Won(feed)'
         /\ Frame'.over = 0 /\ InHand(Frame') = <<>> /\ AtStart(Frame') = 0 /\ ~Lingering(Frame')
<1>1. /\ feed.inn = 1 /\ feed' = [inn |-> 2, over |-> 0, cur |-> <<>>, ticker |-> <<>>,
                                first |-> feed.score, score |-> 0, wkts |-> 0]
  BY DEF NextInnings
<1>2. /\ feed'.inn = 2 /\ feed'.first = feed.score /\ feed'.over = 0 /\ feed'.cur = <<>> /\ feed'.ticker = <<>>
      /\ feed'.score = 0
  BY <1>1
<1>3. feed.score \in Nat
  BY FeedNow
<1>4. <<>> \in Seq(Kinds) /\ 0 \in 0 .. Overs /\ LegalOf(<<>>) < BPO
  BY ConstantsAre, NoLegals
<1>5. FeedParts'
  BY <1>2, <1>3, <1>4, NoRuns DEF FeedParts
<1>6. FeedIs' /\ FrameFields'
  BY <1>5, FrameFrom, FrameHas, PTL
<1>7. ~Lingering(Frame')
  BY <1>2, <1>6, NoLegals DEF Lingering, FrameFields
<1>8. InHand(Frame') = <<>>
  BY <1>2, <1>6 DEF FeedIs
<1>9. AtStart(Frame') = 0
  BY <1>2, <1>6, <1>8, NoRuns DEF AtStart, FrameFields
<1>10. ~Won(feed)'
  BY <1>2, <1>3 DEF Won
<1> QED
  BY <1>1, <1>2, <1>6, <1>7, <1>8, <1>9, <1>10 DEF FrameFields

-----------------------------------------------------------------------------
(* The runs logged for an innings, of any rows r.                              *)

OverSums(r, m, i) == [o \in 0 .. Overs |-> RunsOf(r[Key(m, i, o)])]
RunsIn(r, m, i) == Added(OverSums(r, m, i))

Summed(r) == \A k \in Keys : RunsOf(r[k]) \in Int

LEMMA KeysAre ==
  /\ \A m \in MatchIds, i \in 1 .. 2, o \in 0 .. Overs :
        Key(m, i, o) \in Keys /\ Key(m, i, o).mid = m /\ Key(m, i, o).inn = i /\ Key(m, i, o).over = o
  /\ \A k \in Keys : /\ k.mid \in MatchIds /\ k.inn \in 1 .. 2 /\ k.over \in 0 .. Overs
                     /\ k = Key(k.mid, k.inn, k.over)
BY DEF Keys, Key

LEMMA OversAre == IsFiniteSet(0 .. Overs)
<1>1. 0 \in Int /\ Overs \in Int
  BY ConstantsAre
<1> QED
  BY <1>1, FS_Interval

LEMMA RunsInIs ==
  ASSUME NEW r, Summed(r), NEW m \in MatchIds, NEW i \in 1 .. 2
  PROVE  /\ OverSums(r, m, i) \in [0 .. Overs -> Int]
         /\ RunsIn(r, m, i) = Total(OverSums(r, m, i)) /\ RunsIn(r, m, i) \in Int
<1> DEFINE f == OverSums(r, m, i)
<1>1. f \in [0 .. Overs -> Int]
  BY KeysAre DEF Summed, OverSums
<1>2. RunsIn(r, m, i) = Total(f)
  BY AddedIsTotal DEF RunsIn
<1>3. Total(f) \in Int
  <2> HIDE DEF f
  <2> QED
    BY <1>1, OversAre, TotalIsInt
<1> QED
  BY <1>1, <1>2, <1>3

LEMMA SameOvers ==
  ASSUME NEW r, NEW e, NEW m, NEW n, NEW i, \A o \in 0 .. Overs : e[Key(n, i, o)] = r[Key(m, i, o)]
  PROVE  RunsIn(e, n, i) = RunsIn(r, m, i)
<1>1. OverSums(e, n, i) = OverSums(r, m, i)
  BY DEF OverSums
<1> QED
  BY <1>1 DEF RunsIn

LEMMA NoneLogged ==
  ASSUME NEW r, NEW m \in MatchIds, NEW i \in 1 .. 2, \A o \in 0 .. Overs : r[Key(m, i, o)] = <<>>
  PROVE  RunsIn(r, m, i) = 0
<1>1. OverSums(r, m, i) = [o \in 0 .. Overs |-> 0]
  BY NoRuns DEF OverSums
<1>2. RunsIn(r, m, i) = Total([o \in 0 .. Overs |-> 0])
  BY <1>1, AddedIsTotal DEF RunsIn
<1> QED
  BY <1>2, OversAre, TotalOfNothings

\* One over is written.
LEMMA OneOver ==
  ASSUME NEW r, NEW e, Summed(r), Summed(e), NEW m \in MatchIds, NEW i \in 1 .. 2, NEW o \in 0 .. Overs,
         \A k \in Keys : k # Key(m, i, o) => e[k] = r[k]
  PROVE  RunsIn(e, m, i) = RunsIn(r, m, i) + RunsOf(e[Key(m, i, o)]) - RunsOf(r[Key(m, i, o)])
<1> DEFINE f == OverSums(r, m, i)
           g == OverSums(e, m, i)
<1>1. /\ f \in [0 .. Overs -> Int] /\ g \in [0 .. Overs -> Int]
      /\ RunsIn(r, m, i) = Total(f) /\ RunsIn(e, m, i) = Total(g)
  BY RunsInIs
<1>2. ASSUME NEW p \in 0 .. Overs \ {o} PROVE g[p] = f[p]
  <2>1. Key(m, i, p) \in Keys /\ Key(m, i, p) # Key(m, i, o)
    BY KeysAre
  <2> QED
    BY <2>1 DEF OverSums
<1>3. f[o] = RunsOf(r[Key(m, i, o)]) /\ g[o] = RunsOf(e[Key(m, i, o)])
  BY DEF OverSums
<1> HIDE DEF f, g
<1>4. Total(g) = Total(f) + g[o] - f[o]
  BY <1>1, <1>2, OversAre, TotalChanges
<1> QED
  BY <1>1, <1>3, <1>4

LEMMA OtherInnings ==
  ASSUME NEW r, NEW e, NEW m \in MatchIds, NEW i \in 1 .. 2, NEW j \in 1 .. 2, i # j,
         \A k \in Keys : k.inn # j => e[k] = r[k]
  PROVE  RunsIn(e, m, i) = RunsIn(r, m, i)
<1>1. \A o \in 0 .. Overs : e[Key(m, i, o)] = r[Key(m, i, o)]
  BY KeysAre
<1> QED
  BY <1>1, SameOvers

(* What is in the tail, and what is in the over then.                          *)
LEMMA TailRuns ==
  ASSUME NEW s \in Seq(Kinds), NEW t \in Seq(Kinds), IsPrefix(s, t)
  PROVE  /\ SubSeq(t, Len(s) + 1, Len(t)) \in Seq(Kinds)
         /\ Len(SubSeq(t, Len(s) + 1, Len(t))) = Len(t) - Len(s)
         /\ \A i \in 1 .. Len(t) - Len(s) : SubSeq(t, Len(s) + 1, Len(t))[i] = t[Len(s) + i]
         /\ RunsOf(SubSeq(t, Len(s) + 1, Len(t))) = RunsOf(t) - RunsOf(s)
<1> DEFINE a == Len(s)
           n == Len(t) - Len(s)
           tail == SubSeq(t, Len(s) + 1, Len(t))
           u == [i \in 1 .. a + n |-> t[i].runs]
<1>1. Len(s) <= Len(t) /\ Len(s) \in Nat /\ Len(t) \in Nat /\ \A i \in 1 .. Len(s) : s[i] = t[i]
  BY PrefixIs
<1>2. a \in Nat /\ n \in Nat /\ a + n = Len(t)
  BY <1>1
<1>3. tail \in Seq(Kinds) /\ Len(tail) = n /\ \A i \in 1 .. n : tail[i] = t[a + i]
  <2>1. \A i \in a + 1 .. Len(t) : t[i] \in Kinds
    BY <1>1
  <2>2. tail \in Seq(Kinds)
    BY <1>1, <2>1
  <2>3. Len(tail) = n
    BY <1>1
  <2>4. \A i \in 1 .. n : tail[i] = t[a + i]
    BY <1>1
  <2> QED
    BY <2>2, <2>3, <2>4
<1>4. u \in [1 .. a + n -> Int]
  <2>1. \A i \in 1 .. a + n : t[i].runs \in Int
    BY <1>2, SeqsTally DEF Tallied
  <2> QED
    BY <2>1
<1>5. RunsOf(t) = Total([i \in 1 .. a + n |-> u[i]])
  <2>1. [i \in DOMAIN t |-> t[i].runs] = [i \in 1 .. a + n |-> u[i]]
    BY <1>2
  <2> QED
    BY <2>1, AddedIsTotal DEF RunsOf
<1>6. RunsOf(s) = Total([i \in 1 .. a |-> u[i]])
  <2>1. [i \in DOMAIN s |-> s[i].runs] = [i \in 1 .. a |-> u[i]]
    <3>1. \A i \in 1 .. a : u[i] = s[i].runs
      BY <1>1, <1>2
    <3> HIDE DEF u
    <3> QED
      BY <3>1
  <2> QED
    BY <2>1, AddedIsTotal DEF RunsOf
<1>7. RunsOf(tail) = Total([i \in 1 .. n |-> u[a + i]])
  <2>1. [i \in DOMAIN tail |-> tail[i].runs] = [i \in 1 .. n |-> u[a + i]]
    <3>1. DOMAIN tail = 1 .. n /\ \A i \in 1 .. n : tail[i].runs = u[a + i]
      BY <1>2, <1>3
    <3> HIDE DEF u, tail
    <3> QED
      BY <3>1
  <2> QED
    BY <2>1, AddedIsTotal DEF RunsOf
<1> HIDE DEF a, n, u
<1>8. RunsOf(t) = RunsOf(s) + RunsOf(tail)
  BY <1>2, <1>4, <1>5, <1>6, <1>7, TotalOfParts
<1>9. RunsOf(s) \in Int /\ RunsOf(tail) \in Int
  BY <1>3, SeqsTally
<1> HIDE DEF tail
<1>10. RunsOf(tail) = RunsOf(t) - RunsOf(s)
  BY <1>8, <1>9
<1> QED
  BY <1>3, <1>10 DEF tail, a, n

-----------------------------------------------------------------------------
(***************************************************************************)
(* The record and a frame that was bowled since.  Either the over of the frame  *)
(* is not logged yet, or it is written again, and the runs logged but for it     *)
(* are those the over began with (Baseline); or the logger knows the over it     *)
(* wrote last, the frame is of it or of the next, and the runs logged are the     *)
(* score of that write (OverInHand).                                              *)
(***************************************************************************)

Log == [rows |-> rows, prev |-> prev, done |-> done, mid |-> loggedMid, inn |-> feed.inn]

NoneAfter(r, i, f) ==
    \A k \in Keys : r[k] # <<>> /\ k.inn = i =>
        k.over < f.over \/ (k.over = f.over /\ InHand(f) # <<>>)

\* Its ticker lingers, and shows the over that rolled on last.
Recognised(B, f) ==
    /\ B.mid # NoMid /\ B.done.mid = B.mid /\ B.done.inn = B.inn
    /\ B.done.over \in 0 .. Overs /\ B.done.over + 1 = f.over
    /\ B.done.sig # <<>> /\ IsPrefix(B.done.sig, f.ticker)
    /\ B.rows[Key(B.mid, B.inn, B.done.over)] # <<>>

Baseline(B, m, f, u) ==
    /\ NoneAfter(B.rows, B.inn, f)
    /\ B.prev.over = NoOver \/ (f.over = 0 /\ B.prev.over \in Nat)
    /\ RunsIn(B.rows, m, B.inn) - RunsOf(B.rows[Key(m, B.inn, f.over)]) = AtStart(f)
    /\ u = MaxMissed \/ Len(InHand(f)) <= u
    /\ Lingering(f) => Recognised(B, f)

Written(sig, over) == [i \in DOMAIN sig |-> Row(sig[i], Bowler(over))]

Wrote(B, m) ==
    /\ m # NoMid /\ B.mid = m /\ B.prev.mid = m /\ B.prev.inn = B.inn /\ B.prev.over \in 0 .. Overs
    /\ B.prev.sig \in Seq(Kinds) /\ B.prev.sig # <<>> /\ LegalOf(B.prev.sig) < BPO
    /\ B.prev.count = Len(B.prev.sig) /\ B.prev.bowler = Bowler(B.prev.over)
    /\ B.prev.score \in Nat
    /\ B.rows[Key(m, B.inn, B.prev.over)] = Written(B.prev.sig, B.prev.over)
    /\ RunsIn(B.rows, m, B.inn) = B.prev.score
    /\ \A k \in Keys : B.rows[k] # <<>> /\ k.inn = B.inn => k.over <= B.prev.over

OverInHand(B, m, f, u) == Wrote(B, m) /\ Reached(B.prev.over, B.prev.sig, B.prev.score, f, u)

Fits(B, m, f, u) == Baseline(B, m, f, u) \/ OverInHand(B, m, f, u)

\* From a poll's frame to the scorer's of now.
Within(f, g, d) ==
    /\ Reached(f.over, InHand(f), f.score, g, d)
    /\ g.over = f.over /\ Lingering(g) => g.ticker = f.ticker

-----------------------------------------------------------------------------
LEMMA ReachedOver ==
  ASSUME NEW over \in Nat, NEW s, s # <<>>, NEW score, NEW g, NEW d, Reached(over, s, score, g, d)
  PROVE  over < g.over \/ (over = g.over /\ InHand(g) # <<>>)
BY DEF Reached, SameOver, NextOver

LEMMA NothingAfter ==
  ASSUME NEW B, NEW m, NEW f, IsFrame(f), NEW u, Fits(B, m, f, u)
  PROVE  NoneAfter(B.rows, B.inn, f)
<1>1. CASE Baseline(B, m, f, u)
  BY <1>1 DEF Baseline
<1>2. CASE OverInHand(B, m, f, u)
  <2>1. /\ B.prev.over \in Nat /\ B.prev.sig # <<>>
        /\ \A k \in Keys : B.rows[k] # <<>> /\ k.inn = B.inn => k.over <= B.prev.over
        /\ Reached(B.prev.over, B.prev.sig, B.prev.score, f, u)
    BY <1>2, ConstantsAre DEF OverInHand, Wrote
  <2>2. B.prev.over < f.over \/ (B.prev.over = f.over /\ InHand(f) # <<>>)
    BY <2>1, ReachedOver
  <2>3. \A k \in Keys : k.over \in Nat
    BY KeysAre, ConstantsAre
  <2>4. f.over \in Nat
    BY FramesAre
  <2> QED
    BY <2>1, <2>2, <2>3, <2>4 DEF NoneAfter
<1> QED
  BY <1>1, <1>2 DEF Fits

\* A ball is bowled.
LEMMA BaselineBowled ==
  ASSUME NEW f, NEW g, NEW b \in Kinds, IsFrame(f), IsFrame(g), Bowled(f, g, b),
         NEW u \in Nat, u < MaxMissed, NEW B, NEW m, Baseline(B, m, f, u)
  PROVE  Baseline(B, m, g, u + 1)
<1> DEFINE balls == Append(InHand(f), b)
<1>1. /\ InHand(f) \in Seq(Kinds) /\ RunsOf(InHand(f)) \in Int /\ LegalOf(InHand(f)) \in Nat
      /\ LegalOf(InHand(f)) <= Len(InHand(f)) /\ Len(InHand(f)) \in Nat /\ f.over \in Nat /\ f.score \in Nat
  BY FramesAre
<1>2. MaxMissed \in Nat /\ BPO \in Nat /\ MaxMissed < BPO
  BY ConstantsAre
<1>3. /\ balls \in Seq(Kinds) /\ RunsOf(balls) = RunsOf(InHand(f)) + b.runs /\ Len(balls) = Len(InHand(f)) + 1
      /\ b.runs \in Nat /\ LegalOf(balls) \in Nat /\ LegalOf(balls) <= Len(balls)
  <2>1. balls \in Seq(Kinds) /\ RunsOf(balls) = RunsOf(InHand(f)) + b.runs /\ Len(balls) = Len(InHand(f)) + 1
    BY <1>1, RunsOfAppend
  <2>2. LegalOf(balls) \in Nat /\ LegalOf(balls) <= Len(balls)
    BY <2>1, BallsAre
  <2> HIDE DEF balls
  <2> QED
    BY <2>1, <2>2, KindsAre
<1>4. Len(InHand(f)) <= u
  BY <1>2 DEF Baseline
<1>5. LegalOf(balls) # BPO
  BY <1>1, <1>2, <1>3, <1>4
<1>6. g.over = f.over /\ InHand(g) = balls /\ ~Lingering(g) /\ g.score = f.score + b.runs
  BY <1>5 DEF Bowled
<1> HIDE DEF balls
<1>7. AtStart(g) = AtStart(f)
  BY <1>1, <1>3, <1>6 DEF AtStart
<1>8. InHand(g) # <<>>
  <2>1. Len(<<>>) = 0
    OBVIOUS
  <2> QED
    BY <1>1, <1>3, <1>6, <2>1
<1>9. NoneAfter(B.rows, B.inn, g)
  <2>1. NoneAfter(B.rows, B.inn, f)
    BY DEF Baseline
  <2> QED
    BY <1>6, <1>8, <2>1 DEF NoneAfter
<1>10. Len(InHand(g)) <= u + 1
  BY <1>1, <1>3, <1>4, <1>6
<1> QED
  BY <1>6, <1>7, <1>9, <1>10 DEF Baseline

LEMMA FitsBowled ==
  ASSUME NEW f, NEW g, NEW b \in Kinds, IsFrame(f), IsFrame(g), Bowled(f, g, b),
         NEW u \in Nat, u < MaxMissed, NEW B, NEW m, Fits(B, m, f, u)
  PROVE  Fits(B, m, g, u + 1)
<1>1. CASE Baseline(B, m, f, u)
  BY <1>1, BaselineBowled DEF Fits
<1>2. CASE OverInHand(B, m, f, u)
  <2>1. /\ B.prev.sig \in Seq(Kinds) /\ LegalOf(B.prev.sig) < BPO /\ B.prev.score \in Int
        /\ Reached(B.prev.over, B.prev.sig, B.prev.score, f, u)
    BY <1>2 DEF OverInHand, Wrote
  <2>2. Reached(B.prev.over, B.prev.sig, B.prev.score, g, u + 1)
    BY <2>1, ReachedBowled
  <2> QED
    BY <1>2, <2>2 DEF OverInHand, Fits
<1> QED
  BY <1>1, <1>2 DEF Fits

LEMMA WithinBowled ==
  ASSUME NEW p, NEW f, NEW g, NEW b \in Kinds, IsFrame(p), IsFrame(f), IsFrame(g), Bowled(f, g, b),
         NEW d \in Nat, d < MaxMissed, Within(p, f, d)
  PROVE  Within(p, g, d + 1)
<1>1. Reached(p.over, InHand(p), p.score, f, d)
  BY DEF Within
<1>2. InHand(p) \in Seq(Kinds) /\ LegalOf(InHand(p)) < BPO /\ p.score \in Int /\ p.over \in Nat
  BY FramesAre, SMTT(30)
<1>3. Reached(p.over, InHand(p), p.score, g, d + 1)
  BY <1>1, <1>2, ReachedBowled
<1>4. f.over = p.over \/ f.over = p.over + 1
  BY <1>1 DEF Reached, SameOver, NextOver
<1>5. Lingering(g) => g.over = f.over + 1
  BY DEF Bowled
<1> QED
  BY <1>2, <1>3, <1>4, <1>5 DEF Within

\* Nothing is missed: every ball there is has been logged.
LEMMA AllLogged ==
  ASSUME NEW B, Summed(B.rows), NEW m \in MatchIds, B.inn \in 1 .. 2, NEW f, IsFrame(f), Fits(B, m, f, 0)
  PROVE  /\ RunsIn(B.rows, m, B.inn) = f.score
         /\ RunsIn(B.rows, m, B.inn) - RunsOf(B.rows[Key(m, B.inn, f.over)]) = AtStart(f)
<1>1. MaxMissed \in Nat /\ MaxMissed # 0 /\ BPO \in Nat
  BY ConstantsAre
<1>2. /\ InHand(f) \in Seq(Kinds) /\ RunsOf(InHand(f)) \in Int /\ Len(InHand(f)) \in Nat
      /\ f.score \in Nat /\ f.over \in 0 .. Overs /\ AtStart(f) = f.score - RunsOf(InHand(f))
  BY FramesAre DEF IsFrame, AtStart
<1>3. Key(m, B.inn, f.over) \in Keys
  BY <1>2, KeysAre
<1>4. CASE Baseline(B, m, f, 0)
  <2>1. InHand(f) = <<>>
    <3>1. Len(InHand(f)) = 0
      BY <1>1, <1>2, <1>4 DEF Baseline
    <3> QED
      BY <1>2, <3>1
  <2>2. B.rows[Key(m, B.inn, f.over)] = <<>>
    <3>1. Key(m, B.inn, f.over).over = f.over /\ Key(m, B.inn, f.over).inn = B.inn
      BY <1>2, KeysAre
    <3>2. ~(f.over < f.over)
      BY <1>2, ConstantsAre
    <3> QED
      BY <1>3, <1>4, <2>1, <3>1, <3>2 DEF Baseline, NoneAfter
  <2>3. RunsIn(B.rows, m, B.inn) \in Int
    BY RunsInIs
  <2>4. RunsIn(B.rows, m, B.inn) - RunsOf(B.rows[Key(m, B.inn, f.over)]) = AtStart(f)
    BY <1>4 DEF Baseline
  <2> QED
    BY <1>2, <2>1, <2>2, <2>3, <2>4, NoRuns
<1>5. CASE OverInHand(B, m, f, 0)
  <2> DEFINE s == B.prev.sig
  <2>1. /\ s \in Seq(Kinds) /\ LegalOf(s) < BPO /\ B.prev.over \in 0 .. Overs /\ B.prev.score \in Nat
        /\ B.rows[Key(m, B.inn, B.prev.over)] = Written(s, B.prev.over)
        /\ RunsIn(B.rows, m, B.inn) = B.prev.score
        /\ Reached(B.prev.over, s, B.prev.score, f, 0)
    BY <1>5 DEF OverInHand, Wrote
  <2> HIDE DEF s
  <2>2. LegalOf(s) \in Nat /\ Len(s) \in Nat /\ RunsOf(s) \in Int
    BY <2>1, BallsAre
  <2>3. SameOver(B.prev.over, s, B.prev.score, f, 0)
    BY <1>1, <1>2, <2>1, <2>2 DEF Reached, NextOver
  <2>4. f.over = B.prev.over /\ AtStart(f) = B.prev.score - RunsOf(s) /\ Further(s, f, 0)
    BY <1>1, <2>3 DEF SameOver
  <2>5. RunsOf(s) = RunsOf(InHand(f))
    <3>1. Len(s) <= Len(InHand(f)) /\ \A i \in 1 .. Len(s) : s[i] = InHand(f)[i]
      BY <1>2, <2>1, <2>4, PrefixIs DEF Further
    <3>2. Len(s) = Len(InHand(f))
      BY <1>2, <2>2, <2>4, <3>1 DEF Further
    <3>3. DOMAIN s = 1 .. Len(s) /\ DOMAIN InHand(f) = 1 .. Len(s)
      BY <1>2, <2>1, <3>2
    <3> QED
      BY <3>1, <3>3, SameRuns
  <2>6. RunsOf(Written(s, B.prev.over)) = RunsOf(s)
    <3>1. /\ DOMAIN Written(s, B.prev.over) = DOMAIN s
          /\ \A i \in DOMAIN s : Written(s, B.prev.over)[i].runs = s[i].runs
      BY DEF Written, Row
    <3> QED
      BY <3>1, SameRuns
  <2> QED
    BY <1>2, <2>1, <2>2, <2>4, <2>5, <2>6
<1> QED
  BY <1>4, <1>5 DEF Fits

-----------------------------------------------------------------------------
PrevTyped == prev = [mid |-> prev.mid, inn |-> prev.inn, over |-> prev.over, score |-> prev.score,
                     wkts |-> prev.wkts, count |-> prev.count, bowler |-> prev.bowler, sig |-> prev.sig]

RowsTyped == rows = [k \in Keys |-> rows[k]] /\ Summed(rows)

Credited(r) == \A k \in Keys : \A j \in DOMAIN r[k] : r[k][j].bowler = Bowler(k.over)

DoneLegal == done.sig = <<>> \/ (done.sig \in Seq(Kinds) /\ LegalOf(done.sig) >= 1)

LogHas == /\ Log.rows = rows /\ Log.prev = prev /\ Log.done = done /\ Log.mid = loggedMid
          /\ Log.inn = feed.inn

LEMMA LogIs == LogHas
  BY DEF LogHas, Log

(* A frame that is about to be logged, under the operator's id.                 *)
Ready(f, i, u) ==
    /\ IsFrame(f) /\ i = feed.inn /\ i \in 1 .. 2 /\ u \in 0 .. MaxMissed
    /\ id \in MatchIds /\ id # NoMid /\ loggedMid = id
    /\ PrevTyped /\ RowsTyped /\ DoneLegal /\ Credited(rows)
    /\ Fits(Log, id, f, u)

(* Either it is of the over after the one written last, or of an over that is    *)
(* written again, or of one that is not known.                                 *)
OverRolled(f, u) == Wrote(Log, id) /\ NextOver(prev.over, prev.sig, prev.score, f, u)
Again(f, u) == Wrote(Log, id) /\ SameOver(prev.over, prev.sig, prev.score, f, u)

LEMMA WroteLast ==
  ASSUME NEW f, NEW i, NEW u, Ready(f, i, u), Wrote(Log, id)
  PROVE  /\ prev.mid = id /\ prev.inn = i /\ prev.over \in 0 .. Overs /\ prev.over \in Nat /\ prev.over # NoOver
         /\ prev.sig \in Seq(Kinds) /\ prev.sig # <<>> /\ LegalOf(prev.sig) < BPO
         /\ RunsOf(prev.sig) \in Int /\ LegalOf(prev.sig) \in Nat /\ Len(prev.sig) \in Nat /\ Len(prev.sig) # 0
         /\ prev.count = Len(prev.sig) /\ prev.bowler = Bowler(prev.over) /\ prev.score \in Nat
         /\ rows[Key(id, i, prev.over)] = Written(prev.sig, prev.over)
         /\ RunsIn(rows, id, i) = prev.score
         /\ \A k \in Keys : rows[k] # <<>> /\ k.inn = i => k.over <= prev.over
<1>1. LogHas /\ i = feed.inn
  BY LogIs DEF Ready
<1>2. prev.over \in 0 .. Overs /\ prev.sig \in Seq(Kinds) /\ prev.sig # <<>>
  BY <1>1 DEF Wrote, LogHas
<1>3. prev.over \in Nat /\ prev.over # NoOver
  BY <1>2, ConstantsAre DEF NoOver
<1>4. RunsOf(prev.sig) \in Int /\ LegalOf(prev.sig) \in Nat /\ Len(prev.sig) \in Nat /\ Len(prev.sig) # 0
  BY <1>2, BallsAre
<1> QED
  BY <1>1, <1>2, <1>3, <1>4 DEF Wrote, LogHas

LEMMA ThreeCases ==
  ASSUME NEW f, NEW i, NEW u, Ready(f, i, u)
  PROVE  Baseline(Log, id, f, u) \/ Again(f, u) \/ OverRolled(f, u)
BY LogIs DEF Ready, Fits, OverInHand, Reached, OverRolled, Again, LogHas

LEMMA WhenNext ==
  ASSUME NEW f, NEW i, NEW u, Ready(f, i, u), OverRolled(f, u)
  PROVE  Rolled(f, i) /\ f.over = prev.over + 1 /\ LegalOf(prev.sig) > Len(InHand(f)) /\ LegalOf(prev.sig) >= 1
<1>1. /\ prev.mid = id /\ prev.inn = i /\ prev.over \in Nat /\ prev.over # NoOver /\ LegalOf(prev.sig) \in Nat
  BY WroteLast DEF OverRolled
<1>2. f.over = prev.over + 1 /\ BPO - LegalOf(prev.sig) + Len(InHand(f)) <= u
  BY DEF OverRolled, NextOver
<1>3. u \in Nat /\ u < BPO /\ BPO \in Nat /\ Len(InHand(f)) \in Nat
  BY ConstantsAre, FramesAre DEF Ready
<1> QED
  BY <1>1, <1>2, <1>3 DEF Rolled

LEMMA WhenAgain ==
  ASSUME NEW f, NEW i, NEW u, Ready(f, i, u), Again(f, u)
  PROVE  ~Rolled(f, i) /\ f.over = prev.over /\ InHand(f) # <<>> /\ ~Lingering(f)
<1>1. prev.sig # <<>> /\ f.over = prev.over /\ InHand(f) # <<>>
  BY WroteLast DEF Again, SameOver
<1>2. f.over \in Nat
  BY FramesAre DEF Ready
<1> QED
  BY <1>1, <1>2 DEF Rolled, InHand

LEMMA WhenBaseline ==
  ASSUME NEW f, NEW i, NEW u, Ready(f, i, u), Baseline(Log, id, f, u)
  PROVE  ~Rolled(f, i) /\ (Lingering(f) => Recognised(Log, f))
<1>1. prev.over = NoOver \/ (f.over = 0 /\ prev.over \in Nat)
  BY LogIs DEF Baseline, LogHas
<1> QED
  BY <1>1 DEF Rolled, Baseline

\* What the code calls stale is what lingers, and nothing else is.
LEMMA StaleIs ==
  ASSUME NEW f, NEW i, NEW u, Ready(f, i, u)
  PROVE  (Stale(f, i) <=> Lingering(f)) /\ Seen(f, i) = InHand(f)
<1>1. /\ f.ticker \in Seq(Kinds) /\ f.legal = LegalOf(InHand(f)) /\ LegalOf(f.ticker) \in Nat
      /\ (f.ticker = <<>> => LegalOf(f.ticker) = 0)
  BY FramesAre, BallsAre, NoLegals DEF Ready, IsFrame
<1>2. ~Lingering(f) => f.legal = LegalOf(f.ticker)
  BY <1>1 DEF InHand
<1>3. ASSUME NEW s \in Seq(Kinds), LegalOf(s) >= 1, Ref(f, i) \in {<<>>, s}, Stale(f, i)
      PROVE  Lingering(f)
  <2>1. f.ticker # <<>> /\ f.legal = 0 /\ IsPrefix(s, f.ticker)
    BY <1>3 DEF Stale
  <2>2. LegalOf(f.ticker) >= 1
    BY <1>1, <1>3, <2>1, LegalInMore
  <2> QED
    BY <1>1, <2>1, <2>2 DEF Lingering
<1>4. ~Rolled(f, i) => (Stale(f, i) => Lingering(f))
  <2> SUFFICES ASSUME ~Rolled(f, i), Stale(f, i) PROVE Lingering(f)
    OBVIOUS
  <2>1. Ref(f, i) \in {<<>>, done.sig} /\ Ref(f, i) # <<>>
    BY DEF Ref, Stale
  <2>2. done.sig \in Seq(Kinds) /\ LegalOf(done.sig) >= 1
    BY <2>1 DEF Ready, DoneLegal
  <2> QED
    BY <1>3, <2>1, <2>2
<1>5. CASE OverRolled(f, u)
  <2>1. Rolled(f, i) /\ LegalOf(prev.sig) >= 1 /\ prev.sig \in Seq(Kinds) /\ prev.sig # <<>>
    BY <1>5, WhenNext, WroteLast DEF OverRolled
  <2>2. Ref(f, i) = prev.sig
    BY <2>1 DEF Ref
  <2>3. Lingering(f) => Stale(f, i)
    <3>1. Lingering(f) => IsPrefix(prev.sig, f.ticker)
      BY <1>5 DEF OverRolled, NextOver
    <3> QED
      BY <1>1, <2>1, <2>2, <3>1 DEF Stale, Lingering
  <2> QED
    BY <1>3, <2>1, <2>2, <2>3 DEF Seen, InHand
<1>6. CASE Again(f, u)
  BY <1>4, <1>6, WhenAgain DEF Seen, InHand
<1>7. CASE Baseline(Log, id, f, u)
  <2>1. ~Rolled(f, i) /\ (Lingering(f) => Recognised(Log, f))
    BY <1>7, WhenBaseline
  <2>2. Lingering(f) => Stale(f, i)
    <3> SUFFICES ASSUME Lingering(f) PROVE Stale(f, i)
      OBVIOUS
    <3>1. Recognised(Log, f) /\ LogHas /\ loggedMid = id /\ i = feed.inn
      BY <2>1, LogIs DEF Ready
    <3>2. done.mid = id /\ done.inn = i /\ done.over + 1 = f.over /\ done.sig # <<>> /\ IsPrefix(done.sig, f.ticker)
      BY <3>1 DEF Recognised, LogHas
    <3>3. Ref(f, i) = done.sig
      BY <2>1, <3>2 DEF Ref
    <3> QED
      BY <1>1, <3>2, <3>3 DEF Stale, Lingering
  <2> QED
    BY <1>4, <2>1, <2>2 DEF Seen, InHand
<1> QED
  BY <1>5, <1>6, <1>7, ThreeCases

-----------------------------------------------------------------------------
LEMMA WrittenIs ==
  ASSUME NEW s \in Seq(Kinds), NEW over
  PROVE  /\ DOMAIN Written(s, over) = 1 .. Len(s) /\ Tallied(Len(s), Written(s, over))
         /\ RunsOf(Written(s, over)) = RunsOf(s)
         /\ \A j \in 1 .. Len(s) : Written(s, over)[j] = Row(s[j], Bowler(over))
<1>1. DOMAIN Written(s, over) = 1 .. Len(s) /\ \A j \in 1 .. Len(s) : Written(s, over)[j] = Row(s[j], Bowler(over))
  BY DEF Written
<1>2. DOMAIN s = 1 .. Len(s) /\ \A j \in 1 .. Len(s) : Written(s, over)[j].runs = s[j].runs
  BY <1>1 DEF Row
<1>3. RunsOf(Written(s, over)) = RunsOf(s)
  BY <1>1, <1>2, SameRuns
<1>4. Tallied(Len(s), Written(s, over))
  BY <1>1, <1>2, SeqsTally DEF Tallied
<1> QED
  BY <1>1, <1>3, <1>4

LEMMA NotRolled ==
  ASSUME NEW f, NEW i, ~Rolled(f, i)
  PROVE  /\ LateTail(f, i) = <<>> /\ ~Missing(f, i) /\ RowsAfterTail(f, i) = rows
         /\ RowsAfterRecovery(f, i) = rows /\ PrevAfterRecovery(f, i) = prev /\ DoneAfterRecovery(f, i) = done
<1>1. LateTail(f, i) = <<>> /\ ~Missing(f, i) /\ PrevAfterRecovery(f, i) = prev /\ DoneAfterRecovery(f, i) = done
  BY DEF LateTail, Missing, PrevAfterRecovery, DoneAfterRecovery
<1>2. RowsAfterTail(f, i) = rows
  BY <1>1 DEF RowsAfterTail
<1> QED
  BY <1>1, <1>2 DEF RowsAfterRecovery

(* The over that rolled on: what has been shown of it, the tail included.         *)
Revealed(f) == IF Lingering(f) THEN f.ticker ELSE prev.sig

LEMMA RevealedIs ==
  ASSUME NEW f, NEW i, NEW u, Ready(f, i, u), OverRolled(f, u)
  PROVE  /\ Revealed(f) \in Seq(Kinds) /\ RunsOf(Revealed(f)) \in Int /\ Len(Revealed(f)) \in Nat
         /\ Len(prev.sig) <= Len(Revealed(f)) /\ \A j \in 1 .. Len(prev.sig) : Revealed(f)[j] = prev.sig[j]
         /\ RunsOf(Revealed(f)) <= OverRuns(prev.sig, prev.score, f)
         /\ LateTail(f, i) \in Seq(Kinds) /\ Len(LateTail(f, i)) = Len(Revealed(f)) - Len(prev.sig)
         /\ \A j \in 1 .. Len(LateTail(f, i)) : LateTail(f, i)[j] = Revealed(f)[Len(prev.sig) + j]
         /\ RunsOf(LateTail(f, i)) = RunsOf(Revealed(f)) - RunsOf(prev.sig)
<1>1. Rolled(f, i) /\ prev.sig \in Seq(Kinds) /\ Len(prev.sig) \in Nat /\ RunsOf(prev.sig) \in Int
  BY WhenNext, WroteLast DEF OverRolled
<1>2. /\ RunsOf(prev.sig) <= OverRuns(prev.sig, prev.score, f)
      /\ Lingering(f) => /\ IsPrefix(prev.sig, f.ticker)
                         /\ RunsOf(f.ticker) <= OverRuns(prev.sig, prev.score, f)
  BY DEF OverRolled, NextOver
<1>3. Stale(f, i) <=> Lingering(f)
  BY StaleIs
<1>4. CASE Lingering(f)
  <2>1. LateTail(f, i) = SubSeq(f.ticker, Len(prev.sig) + 1, Len(f.ticker)) /\ Revealed(f) = f.ticker
    BY <1>1, <1>3, <1>4 DEF LateTail, Revealed
  <2>2. f.ticker \in Seq(Kinds) /\ IsPrefix(prev.sig, f.ticker) /\ RunsOf(f.ticker) \in Int /\ Len(f.ticker) \in Nat
    BY <1>2, <1>4, FramesAre, BallsAre DEF Ready
  <2> DEFINE t == SubSeq(f.ticker, Len(prev.sig) + 1, Len(f.ticker))
  <2>3. /\ t \in Seq(Kinds) /\ Len(t) = Len(f.ticker) - Len(prev.sig)
        /\ \A j \in 1 .. Len(f.ticker) - Len(prev.sig) : t[j] = f.ticker[Len(prev.sig) + j]
        /\ RunsOf(t) = RunsOf(f.ticker) - RunsOf(prev.sig)
    BY <1>1, <2>2, TailRuns
  <2>4. Len(prev.sig) <= Len(f.ticker) /\ \A j \in 1 .. Len(prev.sig) : f.ticker[j] = prev.sig[j]
    BY <1>1, <2>2, PrefixIs
  <2> HIDE DEF t
  <2>5. LateTail(f, i) = t
    BY <2>1 DEF t
  <2> QED
    BY <1>2, <1>4, <2>1, <2>2, <2>3, <2>4, <2>5
<1>5. CASE ~Lingering(f)
  <2>1. LateTail(f, i) = <<>> /\ Revealed(f) = prev.sig
    BY <1>1, <1>3, <1>5 DEF LateTail, Revealed
  <2>2. <<>> \in Seq(Kinds) /\ Len(<<>>) = 0 /\ RunsOf(<<>>) = 0
    BY NoRuns
  <2> QED
    BY <1>1, <1>2, <2>1, <2>2
<1> QED
  BY <1>4, <1>5

\* INSERT OR REPLACE of the tail: then all of it is in the over.
LEMMA TailWritten ==
  ASSUME NEW f, NEW i, NEW u, Ready(f, i, u), OverRolled(f, u)
  PROVE  /\ RowsAfterTail(f, i)[Key(id, i, prev.over)] = Written(Revealed(f), prev.over)
         /\ RowsAfterTail(f, i) = [k \in Keys |-> RowsAfterTail(f, i)[k]]
         /\ \A k \in Keys : k # Key(id, i, prev.over) => RowsAfterTail(f, i)[k] = rows[k]
         /\ AfterTail(f, i).count = Len(Revealed(f))
         /\ AfterTail(f, i).score = prev.score + RunsOf(Revealed(f)) - RunsOf(prev.sig)
<1> DEFINE s == prev.sig
           x == Revealed(f)
           t == LateTail(f, i)
           key == Key(id, i, prev.over)
           last == prev.count + Len(t)
           over == [j \in DOMAIN rows[key] \cup prev.count + 1 .. last |->
                      IF j \in prev.count + 1 .. last THEN Row(t[j - prev.count], prev.bowler)
                      ELSE rows[key][j]]
<1>1. /\ s \in Seq(Kinds) /\ Len(s) \in Nat /\ RunsOf(s) \in Int /\ prev.count = Len(s)
      /\ prev.bowler = Bowler(prev.over) /\ prev.score \in Nat
      /\ rows[key] = Written(s, prev.over) /\ prev.over \in 0 .. Overs
  BY WroteLast DEF OverRolled
<1>2. /\ x \in Seq(Kinds) /\ RunsOf(x) \in Int /\ Len(x) \in Nat
      /\ Len(s) <= Len(x) /\ \A j \in 1 .. Len(s) : x[j] = s[j]
      /\ t \in Seq(Kinds) /\ Len(t) = Len(x) - Len(s)
      /\ \A j \in 1 .. Len(t) : t[j] = x[Len(s) + j]
      /\ RunsOf(t) = RunsOf(x) - RunsOf(s)
  BY RevealedIs
<1>3. key \in Keys /\ rows = [k \in Keys |-> rows[k]] /\ PrevTyped
  BY <1>1, KeysAre DEF Ready, RowsTyped
<1>4. RowsAfterTail(f, i) = IF t = <<>> THEN rows ELSE [rows EXCEPT ![key] = over]
  BY DEF RowsAfterTail
<1>5. AfterTail(f, i).count = prev.count + Len(t) /\ AfterTail(f, i).score = prev.score + RunsOf(t)
  BY <1>3 DEF AfterTail, PrevTyped
<1> HIDE DEF key
<1>6. over = Written(x, prev.over)
  <2>1. /\ DOMAIN Written(s, prev.over) = 1 .. Len(s) /\ DOMAIN Written(x, prev.over) = 1 .. Len(x)
        /\ \A j \in 1 .. Len(s) : Written(s, prev.over)[j] = Row(s[j], Bowler(prev.over))
        /\ \A j \in 1 .. Len(x) : Written(x, prev.over)[j] = Row(x[j], Bowler(prev.over))
    BY <1>1, <1>2, WrittenIs
  <2>2. DOMAIN over = 1 .. Len(x)
    BY <1>1, <1>2, <2>1, SMTT(30)
  <2>3. ASSUME NEW j \in 1 .. Len(x) PROVE over[j] = Row(x[j], Bowler(prev.over))
    <3>1. CASE j \in 1 .. Len(s)
      <4>1. j \in DOMAIN rows[key] /\ ~(j \in prev.count + 1 .. last)
        BY <1>1, <1>2, <2>1, <3>1
      <4>2. over[j] = rows[key][j]
        BY <4>1
      <4> HIDE DEF over
      <4> QED
        BY <1>1, <1>2, <2>1, <3>1, <4>2
    <3>2. CASE j \notin 1 .. Len(s)
      <4>1. j \in prev.count + 1 .. last /\ j - prev.count \in 1 .. Len(t) /\ Len(s) + (j - prev.count) = j
        BY <1>1, <1>2, <3>2
      <4>2. over[j] = Row(t[j - prev.count], prev.bowler)
        BY <4>1
      <4>3. t[j - prev.count] = x[j]
        BY <1>2, <4>1
      <4> HIDE DEF over
      <4> QED
        BY <1>1, <4>2, <4>3
    <3> QED
      BY <3>1, <3>2
  <2>4. over = [j \in 1 .. Len(x) |-> over[j]] /\ Written(x, prev.over) = [j \in 1 .. Len(x) |-> Written(x, prev.over)[j]]
    <3>1. over = [j \in DOMAIN over |-> over[j]]
      OBVIOUS
    <3>2. Written(x, prev.over) = [j \in DOMAIN Written(x, prev.over) |-> Written(x, prev.over)[j]]
      BY DEF Written
    <3> HIDE DEF over
    <3> QED
      BY <2>1, <2>2, <3>1, <3>2
  <2> HIDE DEF over
  <2> QED
    BY <2>1, <2>3, <2>4
<1>7. t = <<>> => Written(s, prev.over) = Written(x, prev.over)
  <2> SUFFICES ASSUME t = <<>> PROVE Written(s, prev.over) = Written(x, prev.over)
    OBVIOUS
  <2>1. Len(x) = Len(s)
    BY <1>1, <1>2
  <2> HIDE DEF s, x, t
  <2>2. DOMAIN x = DOMAIN s /\ \A j \in DOMAIN s : x[j] = s[j]
    BY <1>1, <1>2, <2>1
  <2> QED
    BY <2>2 DEF Written
<1> HIDE DEF over, t, s, x
<1>8. RowsAfterTail(f, i)[key] = Written(x, prev.over)
  BY <1>1, <1>3, <1>4, <1>6, <1>7
<1>9. /\ RowsAfterTail(f, i) = [k \in Keys |-> RowsAfterTail(f, i)[k]]
      /\ \A k \in Keys : k # key => RowsAfterTail(f, i)[k] = rows[k]
  BY <1>3, <1>4
<1>10. AfterTail(f, i).count = Len(x) /\ AfterTail(f, i).score = prev.score + RunsOf(x) - RunsOf(s)
  BY <1>1, <1>2, <1>5
<1> QED
  BY <1>8, <1>9, <1>10 DEF key, s, x

LEMMA MissIs ==
  ASSUME NEW f, NEW i, NEW u, Ready(f, i, u), OverRolled(f, u)
  PROVE  /\ MissRuns(f, i) \in Nat /\ (~Missing(f, i) => MissRuns(f, i) = 0)
         /\ MissRuns(f, i) = OverRuns(prev.sig, prev.score, f) - RunsOf(Revealed(f))
<1>1. /\ RunsOf(prev.sig) \in Int /\ prev.score \in Nat /\ Rolled(f, i)
      /\ AtStart(f) \in Int /\ AtStart(f) = f.score - RunsOf(InHand(f)) /\ f.score \in Nat /\ RunsOf(InHand(f)) \in Int
  BY WroteLast, WhenNext, FramesAre DEF OverRolled, AtStart, Ready
<1>2. RunsOf(Revealed(f)) \in Int /\ RunsOf(Revealed(f)) <= OverRuns(prev.sig, prev.score, f)
  BY RevealedIs
<1>3. OverRuns(prev.sig, prev.score, f) = AtStart(f) - prev.score + RunsOf(prev.sig)
  BY DEF OverRuns
<1>4. AfterTail(f, i).score = prev.score + RunsOf(Revealed(f)) - RunsOf(prev.sig) /\ Seen(f, i) = InHand(f)
  BY TailWritten, StaleIs
<1>5. MissRuns(f, i) = f.score - (prev.score + RunsOf(Revealed(f)) - RunsOf(prev.sig)) - RunsOf(InHand(f))
  BY <1>4 DEF MissRuns
<1>6. MissRuns(f, i) = OverRuns(prev.sig, prev.score, f) - RunsOf(Revealed(f))
  BY <1>1, <1>2, <1>3, <1>5
<1>7. MissRuns(f, i) \in Nat
  BY <1>1, <1>2, <1>3, <1>6
<1>8. ~Missing(f, i) => MissRuns(f, i) = 0
  BY <1>1, <1>7 DEF Missing
<1> QED
  BY <1>6, <1>7, <1>8

(* With the ball no ticker has shown, the over has the runs that were scored in it. *)
LEMMA OverRecovered ==
  ASSUME NEW f, NEW i, NEW u, Ready(f, i, u), OverRolled(f, u)
  PROVE  LET r == RowsAfterRecovery(f, i)
             key == Key(id, i, prev.over)
         IN  /\ RunsOf(r[key]) = OverRuns(prev.sig, prev.score, f) /\ RunsOf(r[key]) \in Int /\ r[key] # <<>>
             /\ \A j \in DOMAIN r[key] : r[key][j].bowler = Bowler(prev.over)
             /\ r = [k \in Keys |-> r[k]] /\ \A k \in Keys : k # key => r[k] = rows[k]
<1> DEFINE r == RowsAfterRecovery(f, i)
           key == Key(id, i, prev.over)
           x == Revealed(f)
           w == Written(x, prev.over)
           tail == RowsAfterTail(f, i)
<1>1. /\ prev.bowler = Bowler(prev.over) /\ prev.over \in 0 .. Overs /\ key \in Keys
      /\ Len(prev.sig) \in Nat /\ Len(prev.sig) # 0
  BY WroteLast, KeysAre DEF OverRolled, Ready
<1>2. x \in Seq(Kinds) /\ RunsOf(x) \in Int /\ Len(x) \in Nat /\ Len(prev.sig) <= Len(x)
  BY RevealedIs
<1>3. /\ tail[key] = w /\ tail = [k \in Keys |-> tail[k]]
      /\ \A k \in Keys : k # key => tail[k] = rows[k]
      /\ AfterTail(f, i).count = Len(x)
  BY TailWritten
<1>4. /\ DOMAIN w = 1 .. Len(x) /\ Tallied(Len(x), w) /\ RunsOf(w) = RunsOf(x)
      /\ \A j \in 1 .. Len(x) : w[j] = Row(x[j], Bowler(prev.over))
  BY <1>2, WrittenIs
<1>5. /\ MissRuns(f, i) \in Nat /\ (~Missing(f, i) => MissRuns(f, i) = 0)
      /\ MissRuns(f, i) = OverRuns(prev.sig, prev.score, f) - RunsOf(x)
      /\ OverRuns(prev.sig, prev.score, f) \in Int
  <2>1. OverRuns(prev.sig, prev.score, f) \in Int
    BY WroteLast, FramesAre DEF OverRuns, Ready, OverRolled
  <2> QED
    BY <2>1, MissIs
<1>6. r = IF ~Missing(f, i) THEN tail ELSE [tail EXCEPT ![key] = Put(tail[key], Len(x) + 1, Recovered(f, i))]
  BY <1>3 DEF RowsAfterRecovery
<1>7. 1 \in DOMAIN w
  BY <1>1, <1>2, <1>4
<1> HIDE DEF x, w, tail, key, r
<1>8. CASE ~Missing(f, i)
  <2>1. r[key] = w /\ r = tail
    BY <1>3, <1>6, <1>8
  <2>2. \A j \in DOMAIN w : w[j].bowler = Bowler(prev.over)
    BY <1>4 DEF Row
  <2>3. RunsOf(w) = OverRuns(prev.sig, prev.score, f)
    BY <1>2, <1>4, <1>5, <1>8
  <2>4. w # <<>>
    BY <1>7
  <2> QED
    BY <1>3, <1>5, <2>1, <2>2, <2>3, <2>4 DEF r, key
<1>9. CASE Missing(f, i)
  <2> DEFINE more == Put(w, Len(x) + 1, Recovered(f, i))
  <2>1. r[key] = more /\ r = [k \in Keys |-> r[k]] /\ \A k \in Keys : k # key => r[k] = rows[k]
    BY <1>1, <1>3, <1>6, <1>9
  <2>2. DOMAIN more = 1 .. Len(x) + 1
    BY <1>2, <1>4 DEF Put
  <2>3. more[Len(x) + 1] = Recovered(f, i) /\ \A j \in 1 .. Len(x) : more[j] = w[j]
    BY <1>2, <1>4 DEF Put
  <2>4. Recovered(f, i).runs = MissRuns(f, i) /\ Recovered(f, i).bowler = prev.bowler
    BY DEF Recovered
  <2> HIDE DEF more
  <2>5. Tallied(Len(x) + 1, more)
    <3>1. ASSUME NEW j \in 1 .. Len(x) + 1 PROVE more[j].runs \in Int
      <4>1. CASE j = Len(x) + 1
        BY <1>5, <2>3, <2>4, <4>1
      <4>2. CASE j # Len(x) + 1
        <5>1. j \in 1 .. Len(x)
          BY <1>2, <4>2
        <5> QED
          BY <1>4, <2>3, <5>1 DEF Tallied
      <4> QED
        BY <4>1, <4>2
    <3> QED
      BY <1>2, <2>2, <3>1 DEF Tallied
  <2>6. RunsOf(more) = RunsOf(w) + more[Len(x) + 1].runs
    BY <1>4, <2>3, <2>5, RunsOfMore
  <2>7. RunsOf(more) = OverRuns(prev.sig, prev.score, f)
    BY <1>2, <1>4, <1>5, <2>3, <2>4, <2>6
  <2>8. ASSUME NEW j \in DOMAIN more PROVE more[j].bowler = Bowler(prev.over)
    <3>1. CASE j = Len(x) + 1
      BY <1>1, <2>3, <2>4, <3>1
    <3>2. CASE j # Len(x) + 1
      <4>1. j \in 1 .. Len(x)
        BY <1>2, <2>2, <3>2
      <4> QED
        BY <1>4, <2>3, <4>1 DEF Row
    <3> QED
      BY <3>1, <3>2
  <2>9. more # <<>>
    <3>1. 1 \in DOMAIN more
      BY <1>2, <2>2
    <3> QED
      BY <3>1
  <2> QED
    BY <1>5, <2>1, <2>7, <2>8, <2>9 DEF r, key
<1> QED
  BY <1>8, <1>9

-----------------------------------------------------------------------------
(* What is to be true of the rows when a new over is written, or none is: but for   *)
(* the over of the frame, they add up to the score that over began with.           *)

Settles(r, f, i) ==
    /\ r = [k \in Keys |-> r[k]] /\ Summed(r) /\ NoneAfter(r, i, f)
    /\ RunsIn(r, id, i) - RunsOf(r[Key(id, i, f.over)]) = AtStart(f)
    /\ \A k \in Keys : k.mid # id \/ k.inn # i => r[k] = rows[k]
    /\ Credited(r)

LEMMA NextSettles ==
  ASSUME NEW f, NEW i, NEW u, Ready(f, i, u), OverRolled(f, u)
  PROVE  Settles(RowsAfterRecovery(f, i), f, i)
<1> DEFINE r == RowsAfterRecovery(f, i)
           key == Key(id, i, prev.over)
<1>1. /\ prev.over \in 0 .. Overs /\ prev.over \in Nat /\ prev.sig \in Seq(Kinds) /\ RunsOf(prev.sig) \in Int
      /\ prev.score \in Nat /\ rows[key] = Written(prev.sig, prev.over) /\ RunsIn(rows, id, i) = prev.score
      /\ \A k \in Keys : rows[k] # <<>> /\ k.inn = i => k.over <= prev.over
  BY WroteLast DEF OverRolled
<1>2. /\ id \in MatchIds /\ i \in 1 .. 2 /\ Summed(rows) /\ Credited(rows) /\ f.over \in 0 .. Overs /\ f.over \in Nat
      /\ f.over = prev.over + 1 /\ AtStart(f) \in Int
  BY FramesAre, WhenNext DEF Ready, RowsTyped, IsFrame
<1>3. /\ key \in Keys /\ key.mid = id /\ key.inn = i /\ key.over = prev.over
      /\ Key(id, i, f.over) \in Keys /\ Key(id, i, f.over).inn = i /\ Key(id, i, f.over).over = f.over
  BY <1>1, <1>2, KeysAre
<1>4. /\ RunsOf(r[key]) = OverRuns(prev.sig, prev.score, f) /\ RunsOf(r[key]) \in Int
      /\ \A j \in DOMAIN r[key] : r[key][j].bowler = Bowler(prev.over)
      /\ r = [k \in Keys |-> r[k]] /\ \A k \in Keys : k # key => r[k] = rows[k]
  BY OverRecovered
<1>5. RunsOf(rows[key]) = RunsOf(prev.sig)
  BY <1>1, WrittenIs
<1> HIDE DEF r, key
<1>6. Summed(r)
  BY <1>2, <1>4 DEF Summed
<1>7. RunsIn(r, id, i) = RunsIn(rows, id, i) + RunsOf(r[key]) - RunsOf(rows[key])
  BY <1>1, <1>2, <1>4, <1>6, OneOver DEF key
<1>8. RunsIn(r, id, i) = AtStart(f)
  BY <1>1, <1>2, <1>4, <1>5, <1>7 DEF OverRuns
<1>9. NoneAfter(r, i, f)
  <2>1. \A k \in Keys : k.over \in Nat
    BY KeysAre, ConstantsAre
  <2>2. ASSUME NEW k \in Keys, r[k] # <<>>, k.inn = i PROVE k.over < f.over
    <3>1. k.over <= prev.over
      BY <1>1, <1>3, <1>4, <2>2
    <3> QED
      BY <1>1, <1>2, <2>1, <3>1
  <2> QED
    BY <2>2 DEF NoneAfter
<1>10. r[Key(id, i, f.over)] = <<>>
  <2>1. ~(f.over < f.over) /\ ~(f.over <= prev.over) /\ Key(id, i, f.over) # key
    BY <1>1, <1>2, <1>3
  <2> QED
    BY <1>1, <1>3, <1>4, <2>1
<1>11. RunsIn(r, id, i) - RunsOf(r[Key(id, i, f.over)]) = AtStart(f)
  BY <1>2, <1>8, <1>10, NoRuns
<1>12. Credited(r)
  BY <1>2, <1>3, <1>4 DEF Credited
<1> QED
  BY <1>3, <1>4, <1>6, <1>9, <1>11, <1>12 DEF Settles, r

LEMMA Settled ==
  ASSUME NEW f, NEW i, NEW u, Ready(f, i, u)
  PROVE  Settles(RowsAfterRecovery(f, i), f, i)
<1>1. CASE OverRolled(f, u)
  BY <1>1, NextSettles
<1>2. /\ LogHas /\ i = feed.inn /\ i \in 1 .. 2 /\ id \in MatchIds /\ Fits(Log, id, f, u) /\ IsFrame(f)
      /\ rows = [k \in Keys |-> rows[k]] /\ Summed(rows) /\ Credited(rows)
  BY LogIs DEF Ready, RowsTyped
<1>3. NoneAfter(rows, i, f)
  BY <1>2, NothingAfter DEF LogHas
<1>4. CASE Again(f, u)
  <2>1. RowsAfterRecovery(f, i) = rows
    BY <1>4, WhenAgain, NotRolled
  <2>2. /\ prev.sig \in Seq(Kinds) /\ rows[Key(id, i, prev.over)] = Written(prev.sig, prev.over)
        /\ RunsIn(rows, id, i) = prev.score
    BY <1>4, WroteLast DEF Again
  <2>3. f.over = prev.over /\ AtStart(f) = prev.score - RunsOf(prev.sig)
    BY <1>4 DEF Again, SameOver
  <2>4. RunsOf(Written(prev.sig, prev.over)) = RunsOf(prev.sig)
    BY <2>2, WrittenIs
  <2> QED
    BY <1>2, <1>3, <2>1, <2>2, <2>3, <2>4 DEF Settles
<1>5. CASE Baseline(Log, id, f, u)
  <2>1. RowsAfterRecovery(f, i) = rows
    BY <1>5, WhenBaseline, NotRolled
  <2>2. RunsIn(rows, id, i) - RunsOf(rows[Key(id, i, f.over)]) = AtStart(f)
    BY <1>2, <1>5 DEF Baseline, LogHas
  <2> QED
    BY <1>2, <1>3, <2>1, <2>2 DEF Settles
<1> QED
  BY <1>1, <1>4, <1>5, ThreeCases

-----------------------------------------------------------------------------
RowsKept(r, i) ==
    /\ r = [k \in Keys |-> r[k]] /\ Summed(r) /\ Credited(r)
    /\ \A k \in Keys : k.mid # id \/ k.inn # i => r[k] = rows[k]

LEMMA OverLogged ==
  ASSUME NEW f, NEW i, NEW u, Ready(f, i, u), InHand(f) # <<>>, NEW g, NEW d, Within(f, g, d), NEW B,
         B.rows = [RowsAfterRecovery(f, i) EXCEPT ![Key(id, i, f.over)] =
                     [j \in DOMAIN f.ticker |-> Row(f.ticker[j], f.bowler)]],
         B.prev = [mid |-> id, inn |-> i, over |-> f.over, score |-> f.score, wkts |-> f.wkts,
                   count |-> Len(f.ticker), bowler |-> f.bowler, sig |-> f.ticker],
         B.mid = id, B.inn = i
  PROVE  OverInHand(B, id, g, d) /\ RowsKept(B.rows, i)
<1> DEFINE r == RowsAfterRecovery(f, i)
           key == Key(id, i, f.over)
           w == Written(f.ticker, f.over)
<1>1. /\ r = [k \in Keys |-> r[k]] /\ Summed(r) /\ NoneAfter(r, i, f) /\ Credited(r)
      /\ RunsIn(r, id, i) - RunsOf(r[key]) = AtStart(f)
      /\ \A k \in Keys : k.mid # id \/ k.inn # i => r[k] = rows[k]
  BY Settled DEF Settles
<1>2. /\ f.ticker \in Seq(Kinds) /\ RunsOf(f.ticker) \in Int /\ LegalOf(f.ticker) < BPO /\ f.ticker # <<>>
      /\ InHand(f) = f.ticker /\ f.score \in Nat /\ f.over \in 0 .. Overs /\ f.over \in Nat /\ AtStart(f) \in Int
      /\ AtStart(f) = f.score - RunsOf(f.ticker) /\ f.bowler = Bowler(f.over)
  BY FramesAre DEF Ready, IsFrame, InHand, AtStart
<1>3. /\ id \in MatchIds /\ i \in 1 .. 2 /\ id # NoMid /\ key \in Keys
      /\ key.mid = id /\ key.inn = i /\ key.over = f.over
  BY <1>2, KeysAre DEF Ready
<1>4. w = [j \in DOMAIN f.ticker |-> Row(f.ticker[j], f.bowler)]
  BY <1>2 DEF Written
<1>5. RunsOf(w) = RunsOf(f.ticker) /\ \A j \in DOMAIN w : w[j].bowler = Bowler(f.over)
  <2>1. /\ DOMAIN w = 1 .. Len(f.ticker) /\ RunsOf(w) = RunsOf(f.ticker)
        /\ \A j \in 1 .. Len(f.ticker) : w[j] = Row(f.ticker[j], Bowler(f.over))
    BY <1>2, WrittenIs
  <2> HIDE DEF w
  <2>2. ASSUME NEW j \in DOMAIN w PROVE w[j].bowler = Bowler(f.over)
    <3>1. w[j] = Row(f.ticker[j], Bowler(f.over))
      BY <2>1
    <3> QED
      BY <3>1 DEF Row
  <2> QED
    BY <2>1, <2>2
<1> HIDE DEF r, key, w
<1>6. B.rows = [r EXCEPT ![key] = w]
  BY <1>4 DEF r, key
<1>7. /\ B.rows[key] = w /\ B.rows = [k \in Keys |-> B.rows[k]]
      /\ \A k \in Keys : k # key => B.rows[k] = r[k]
  BY <1>1, <1>3, <1>6
<1>8. Summed(B.rows)
  BY <1>1, <1>2, <1>5, <1>7 DEF Summed
<1>9. RunsIn(B.rows, id, i) = f.score
  <2>1. RunsIn(B.rows, id, i) = RunsIn(r, id, i) + RunsOf(w) - RunsOf(r[key])
    BY <1>1, <1>2, <1>3, <1>7, <1>8, OneOver, SMTT(30) DEF key
  <2>2. RunsIn(r, id, i) \in Int /\ RunsOf(r[key]) \in Int
    BY <1>1, <1>3, RunsInIs DEF Summed
  <2> DEFINE a == RunsIn(r, id, i)
             b == RunsOf(r[key])
             c == RunsOf(f.ticker)
  <2>3. a \in Int /\ b \in Int /\ c \in Int /\ a - b = f.score - c /\ f.score \in Int
    BY <1>1, <1>2, <2>2
  <2>4. RunsIn(B.rows, id, i) = a + c - b
    BY <1>5, <2>1
  <2> HIDE DEF a, b, c
  <2> QED
    BY <2>3, <2>4
<1>10. \A k \in Keys : B.rows[k] # <<>> /\ k.inn = i => k.over <= f.over
  <2>1. \A k \in Keys : k.over \in Nat
    BY KeysAre, ConstantsAre
  <2> QED
    BY <1>1, <1>2, <1>3, <1>7, <2>1, SMTT(30) DEF NoneAfter
<1>11. RowsKept(B.rows, i)
  BY <1>1, <1>3, <1>5, <1>7, <1>8, SMTT(30) DEF RowsKept, Credited
<1>12. Wrote(B, id)
  BY <1>2, <1>3, <1>7, <1>9, <1>10 DEF Wrote, w, key
<1>13. Reached(B.prev.over, B.prev.sig, B.prev.score, g, d)
  BY <1>2 DEF Within
<1> QED
  BY <1>11, <1>12, <1>13 DEF OverInHand

\* Of a frame with no ball of its over, the one of now is at most so many balls on.
LEMMA FromBreak ==
  ASSUME NEW f, NEW g, IsFrame(f), IsFrame(g), NEW d \in 0 .. MaxMissed, InHand(f) = <<>>, Within(f, g, d)
  PROVE  /\ g.over = f.over /\ AtStart(g) = AtStart(f) /\ (d = MaxMissed \/ Len(InHand(g)) <= d)
         /\ (Lingering(g) => g.ticker = f.ticker /\ Lingering(f))
<1>1. /\ BPO \in Nat /\ MaxMissed < BPO /\ MaxMissed \in Nat /\ d \in Nat /\ d < BPO
      /\ LegalOf(<<>>) = 0 /\ RunsOf(<<>>) = 0 /\ Len(<<>>) = 0
      /\ f.score \in Nat /\ Len(InHand(g)) \in Nat /\ f.legal = 0
  BY ConstantsAre, FramesAre, NoLegals, NoRuns DEF IsFrame
<1>2. SameOver(f.over, <<>>, f.score, g, d)
  BY <1>1 DEF Within, Reached, NextOver
<1>3. g.over = f.over /\ AtStart(g) = f.score - 0 /\ (d = MaxMissed \/ Further(<<>>, g, d))
  BY <1>1, <1>2 DEF SameOver
<1>4. AtStart(f) = f.score - 0
  BY <1>1 DEF AtStart
<1>5. d = MaxMissed \/ Len(InHand(g)) <= d
  BY <1>1, <1>3 DEF Further
<1>6. Lingering(g) => g.ticker = f.ticker /\ Lingering(f)
  BY <1>1, <1>3 DEF Within, Lingering
<1> QED
  BY <1>3, <1>4, <1>5, <1>6

LEMMA BreakLogged ==
  ASSUME NEW f, NEW i, NEW u, Ready(f, i, u), InHand(f) = <<>>,
         NEW g, IsFrame(g), NEW d \in 0 .. MaxMissed, Within(f, g, d), NEW B,
         B.rows = RowsAfterRecovery(f, i), B.prev.over = PrevAfterRecovery(f, i).over,
         B.done = DoneAfterRecovery(f, i), B.mid = id, B.inn = i
  PROVE  Baseline(B, id, g, d) /\ RowsKept(B.rows, i)
<1>1. Settles(B.rows, f, i)
  BY Settled
<1>2. /\ g.over = f.over /\ AtStart(g) = AtStart(f) /\ (d = MaxMissed \/ Len(InHand(g)) <= d)
      /\ (Lingering(g) => g.ticker = f.ticker /\ Lingering(f))
  BY FromBreak DEF Ready
<1>3. RowsKept(B.rows, i)
  BY <1>1 DEF Settles, RowsKept
<1>4. NoneAfter(B.rows, i, g)
  BY <1>1, <1>2 DEF Settles, NoneAfter
<1>5. RunsIn(B.rows, id, i) - RunsOf(B.rows[Key(id, i, g.over)]) = AtStart(g)
  BY <1>1, <1>2 DEF Settles
<1>6. /\ B.prev.over = NoOver \/ (f.over = 0 /\ B.prev.over \in Nat)
      /\ (Lingering(f) => Recognised(B, f))
  <2>1. CASE OverRolled(f, u)
    <3>1. /\ Rolled(f, i) /\ f.over = prev.over + 1 /\ prev.over \in 0 .. Overs /\ prev.sig # <<>> /\ PrevTyped
          /\ id # NoMid
      BY <2>1, WhenNext, WroteLast DEF OverRolled, Ready
    <3>2. B.prev.over = NoOver /\ B.done = [mid |-> id, inn |-> i, over |-> prev.over, sig |-> prev.sig]
      BY <3>1 DEF PrevAfterRecovery, DoneAfterRecovery, PrevTyped
    <3>3. Lingering(f) => IsPrefix(prev.sig, f.ticker)
      BY <2>1 DEF OverRolled, NextOver
    <3>4. B.rows[Key(id, i, prev.over)] # <<>>
      BY <2>1, OverRecovered
    <3> QED
      BY <3>1, <3>2, <3>3, <3>4 DEF Recognised
  <2>2. CASE Again(f, u)
    BY <2>2, WhenAgain
  <2>3. CASE Baseline(Log, id, f, u)
    <3>1. /\ B.rows = rows /\ B.prev.over = prev.over /\ B.done = done
      BY <2>3, WhenBaseline, NotRolled
    <3>2. LogHas /\ loggedMid = id /\ i = feed.inn
      BY LogIs DEF Ready
    <3>3. prev.over = NoOver \/ (f.over = 0 /\ prev.over \in Nat)
      BY <2>3, <3>2 DEF Baseline, LogHas
    <3>4. Lingering(f) => Recognised(B, f)
      BY <2>3, <3>1, <3>2 DEF Baseline, LogHas, Recognised
    <3> QED
      BY <3>1, <3>3, <3>4
  <2> QED
    BY <2>1, <2>2, <2>3, ThreeCases
<1>7. B.prev.over = NoOver \/ (g.over = 0 /\ B.prev.over \in Nat)
  BY <1>2, <1>6
<1>8. Lingering(g) => Recognised(B, g)
  BY <1>2, <1>6 DEF Recognised
<1> QED
  BY <1>2, <1>3, <1>4, <1>5, <1>7, <1>8 DEF Baseline

LEMMA DoneIsLegal ==
  ASSUME NEW f, NEW i, NEW u, Ready(f, i, u)
  PROVE  LET now == DoneAfterRecovery(f, i)
         IN  now.sig = <<>> \/ (now.sig \in Seq(Kinds) /\ LegalOf(now.sig) >= 1)
<1>1. CASE OverRolled(f, u)
  <2>1. Rolled(f, i) /\ prev.sig \in Seq(Kinds) /\ LegalOf(prev.sig) >= 1
    BY <1>1, WhenNext, WroteLast DEF OverRolled
  <2> QED
    BY <2>1 DEF DoneAfterRecovery
<1>2. CASE ~OverRolled(f, u)
  <2>1. DoneAfterRecovery(f, i) = done
    BY <1>2, ThreeCases, WhenAgain, WhenBaseline, NotRolled
  <2> QED
    BY <2>1 DEF Ready, DoneLegal
<1> QED
  BY <1>1, <1>2

\* The new over could not be written: nothing of it is, and the old one is complete.
LEMMA OverRefused ==
  ASSUME NEW f, NEW i, NEW u, Ready(f, i, u), InHand(f) # <<>>, OverRolled(f, u),
         NEW g, IsFrame(g), NEW d \in Nat, u + d <= MaxMissed, Within(f, g, d), NEW B,
         B.rows = RowsAfterRecovery(f, i), B.prev.over = NoOver, B.mid = id, B.inn = i
  PROVE  Baseline(B, id, g, u + d) /\ RowsKept(B.rows, i)
<1>1. Settles(B.rows, f, i)
  BY Settled
<1>2. RowsKept(B.rows, i)
  BY <1>1 DEF Settles, RowsKept
<1>3. /\ InHand(f) \in Seq(Kinds) /\ RunsOf(InHand(f)) \in Int /\ LegalOf(InHand(f)) \in Nat
      /\ LegalOf(InHand(f)) <= Len(InHand(f)) /\ Len(InHand(f)) \in Nat /\ f.over \in Nat /\ f.score \in Nat
      /\ AtStart(f) = f.score - RunsOf(InHand(f)) /\ Len(InHand(g)) \in Nat
      /\ LegalOf(prev.sig) \in Nat /\ LegalOf(prev.sig) < BPO /\ u \in Nat
  <2>1. IsFrame(f) /\ u \in Nat
    BY ConstantsAre DEF Ready
  <2>2. /\ InHand(f) \in Seq(Kinds) /\ RunsOf(InHand(f)) \in Int /\ LegalOf(InHand(f)) \in Nat
        /\ LegalOf(InHand(f)) <= Len(InHand(f)) /\ Len(InHand(f)) \in Nat /\ f.over \in Nat /\ f.score \in Nat
    BY <2>1, FramesAre
  <2>3. Len(InHand(g)) \in Nat
    BY FramesAre
  <2>4. LegalOf(prev.sig) \in Nat /\ LegalOf(prev.sig) < BPO
    BY WroteLast DEF OverRolled
  <2> QED
    BY <2>1, <2>2, <2>3, <2>4 DEF AtStart
<1>4. BPO \in Nat /\ MaxMissed \in Nat /\ MaxMissed < BPO
  BY ConstantsAre
<1>5. BPO - LegalOf(prev.sig) + Len(InHand(f)) <= u
  BY DEF OverRolled, NextOver
<1>6. ~NextOver(f.over, InHand(f), f.score, g, d)
  BY <1>3, <1>4, <1>5 DEF NextOver
<1>7. SameOver(f.over, InHand(f), f.score, g, d)
  BY <1>6 DEF Within, Reached
<1>8. g.over = f.over /\ InHand(g) # <<>> /\ AtStart(g) = AtStart(f)
  BY <1>3, <1>7 DEF SameOver
<1>9. u + d = MaxMissed \/ Len(InHand(g)) <= u + d
  <2>1. CASE d = MaxMissed
    BY <1>3, <1>4, <2>1
  <2>2. CASE Further(InHand(f), g, d)
    BY <1>3, <1>4, <1>5, <2>2 DEF Further
  <2> QED
    BY <1>7, <2>1, <2>2 DEF SameOver
<1>10. NoneAfter(B.rows, i, g)
  BY <1>1, <1>8 DEF Settles, NoneAfter
<1>11. RunsIn(B.rows, id, i) - RunsOf(B.rows[Key(id, i, g.over)]) = AtStart(g)
  BY <1>1, <1>8 DEF Settles
<1>12. ~Lingering(g)
  BY <1>8 DEF InHand
<1> QED
  BY <1>2, <1>8, <1>9, <1>10, <1>11, <1>12 DEF Baseline

-----------------------------------------------------------------------------
(***************************************************************************)
(* The record, while nothing went wrong that it cannot know of.  The innings of  *)
(* a frame is told right; the rows fit the scorer's frame of now, and those of a  *)
(* poll in hand fit the poll's frame, from which the scorer's is not far on.      *)
(***************************************************************************)

InningsKnown ==
    /\ latch \in 1 .. 2 /\ unseen \in 0 .. MaxMissed
    /\ latch = 2 => feed.inn = 2
    /\ feed.inn = 2 => latch = 2 \/ (unseen = MaxMissed /\ poll = Idle /\ ~Won(feed))

PollFits(m) ==
    poll.at \in {"follow", "log"} =>
        /\ poll.inn = feed.inn /\ poll.unseen \in 0 .. unseen /\ IsFrame(poll.frame)
        /\ Fits(Log, m, poll.frame, poll.unseen)
        /\ Within(poll.frame, Frame, unseen - poll.unseen)

RightUnder(m) ==
    /\ loggedMid # NoMid => m = loggedMid
    /\ \A k \in Keys : rows[k] # <<>> => k.mid = m /\ k.inn <= feed.inn
    /\ feed.inn = 2 => RunsIn(rows, m, 1) = feed.first
    /\ Fits(Log, m, Frame, unseen)
    /\ PollFits(m)

Exact == /\ RowsTyped /\ Credited(rows) /\ DoneLegal /\ InningsKnown
         /\ \E m \in MatchIds : RightUnder(m)

RecordInv == LogInv /\ FeedIs /\ PrevTyped /\ (~blind /\ ~torn => Exact)

-----------------------------------------------------------------------------
LEMMA SameFeed == ASSUME UNCHANGED feed PROVE (FeedIs => FeedIs') /\ Frame' = Frame
<1>1. Frame' = Frame
  BY DEF Frame, Won
<1> QED
  BY <1>1 DEF FeedIs

LEMMA SameLog == ASSUME UNCHANGED <<feed, rows, prev, done, loggedMid>> PROVE Log' = Log
  BY DEF Log

LEMMA InitRecordInv == Init => RecordInv
<1> SUFFICES ASSUME Init PROVE RecordInv
  OBVIOUS
<1>1. LogInv /\ FeedIs /\ id \in MatchIds
  BY InitLogInv, InitFeedIs DEF Init
<1>2. /\ prev = NoPrev /\ done = NoDone /\ rows = [k \in Keys |-> <<>>] /\ latch = 1 /\ loggedMid = NoMid
      /\ unseen = 0 /\ poll = Idle /\ feed.inn = 1 /\ feed.cur = <<>> /\ feed.ticker = <<>>
      /\ feed.over = 0 /\ feed.score = 0
  BY DEF Init, FeedInit
<1>3. PrevTyped
  BY <1>2 DEF PrevTyped, NoPrev
<1>4. RowsTyped /\ Credited(rows) /\ DoneLegal
  BY <1>2, NoRuns DEF RowsTyped, Summed, Credited, DoneLegal, NoDone
<1>5. InningsKnown
  BY <1>2, ConstantsAre DEF InningsKnown
<1>6. /\ Frame.over = 0 /\ AtStart(Frame) = 0 /\ InHand(Frame) = <<>> /\ ~Lingering(Frame)
  <2>1. FrameFields /\ InHand(Frame) = <<>>
    BY <1>1, <1>2, FrameHas DEF FeedIs
  <2>2. ~Lingering(Frame)
    BY <1>2, <2>1, NoLegals DEF FrameFields, Lingering
  <2> QED
    BY <1>2, <2>1, <2>2, NoRuns DEF FrameFields, AtStart
<1>7. Baseline(Log, id, Frame, 0)
  <2>1. \A m \in MatchIds : RunsIn(rows, m, 1) = 0
    BY <1>2, NoneLogged, KeysAre
  <2>2. Key(id, 1, 0) \in Keys
    BY <1>1, KeysAre, ConstantsAre
  <2>3. LogHas /\ Len(<<>>) = 0
    BY LogIs
  <2> QED
    BY <1>1, <1>2, <1>6, <2>1, <2>2, <2>3, NoRuns DEF Baseline, LogHas, NoneAfter, NoPrev
<1>8. RightUnder(id)
  BY <1>2, <1>7 DEF RightUnder, PollFits, Fits, Idle
<1> QED
  BY <1>1, <1>3, <1>4, <1>5, <1>8 DEF RecordInv, Exact

-----------------------------------------------------------------------------
LEMMA QuietExact ==
  ASSUME Exact, UNCHANGED <<feed, rows, prev, done, latch, loggedMid, unseen>>,
         poll' = poll \/ poll'.at \notin {"follow", "log"}, poll = Idle => poll' = Idle
  PROVE  Exact'
<1>1. Log' = Log /\ Frame' = Frame
  BY SameFeed, SameLog
<1>2. RowsTyped' /\ Credited(rows)' /\ DoneLegal' /\ InningsKnown'
  BY DEF Exact, RowsTyped, DoneLegal, InningsKnown, Won
<1>3. PICK m \in MatchIds : RightUnder(m)
  BY DEF Exact
<1>4. RightUnder(m)'
  BY <1>1, <1>3 DEF RightUnder, PollFits
<1> QED
  BY <1>2, <1>4 DEF Exact

LEMMA ScoreExact ==
  ASSUME FeedTyped, FeedIs, Exact, NEW b \in Kinds, Score(b) PROVE Exact'
<1>1. /\ UNCHANGED <<rows, prev, done, latch, loggedMid, poll>> /\ unseen' = unseen + 1 /\ unseen < MaxMissed
      /\ Bowl(b)
  BY DEF Score, memory, tables
<1>2. /\ FeedIs' /\ Bowled(Frame, Frame', b) /\ ~Won(feed) /\ feed'.inn = feed.inn /\ feed'.first = feed.first
      /\ IsFrame(Frame) /\ IsFrame(Frame')
  BY <1>1, BowlFrame DEF FeedIs
<1>3. unseen \in Nat /\ MaxMissed \in Nat /\ unseen + 1 \in 0 .. MaxMissed
  BY <1>1, ConstantsAre DEF Exact, InningsKnown
<1>4. RowsTyped' /\ Credited(rows)' /\ DoneLegal'
  BY <1>1 DEF Exact, RowsTyped, DoneLegal
<1>5. InningsKnown'
  BY <1>1, <1>2, <1>3 DEF Exact, InningsKnown
<1>6. Log' = Log
  BY <1>1, <1>2 DEF Log
<1>7. PICK m \in MatchIds : RightUnder(m)
  BY DEF Exact
<1>8. Fits(Log, m, Frame', unseen + 1)
  BY <1>1, <1>2, <1>3, <1>7, FitsBowled DEF RightUnder
<1>9. PollFits(m)'
  <2> SUFFICES ASSUME poll.at \in {"follow", "log"}
               PROVE  /\ poll.inn = feed'.inn /\ poll.unseen \in 0 .. unseen + 1 /\ IsFrame(poll.frame)
                      /\ Fits(Log, m, poll.frame, poll.unseen)
                      /\ Within(poll.frame, Frame', (unseen + 1) - poll.unseen)
    BY <1>1, <1>6 DEF PollFits
  <2>1. /\ poll.inn = feed.inn /\ poll.unseen \in 0 .. unseen /\ IsFrame(poll.frame)
        /\ Fits(Log, m, poll.frame, poll.unseen)
        /\ Within(poll.frame, Frame, unseen - poll.unseen)
    BY <1>7 DEF RightUnder, PollFits
  <2>2. /\ unseen - poll.unseen \in Nat /\ unseen - poll.unseen < MaxMissed
        /\ (unseen + 1) - poll.unseen = (unseen - poll.unseen) + 1 /\ poll.unseen \in 0 .. unseen + 1
    BY <1>1, <1>3, <2>1
  <2>3. Within(poll.frame, Frame', (unseen - poll.unseen) + 1)
    BY <1>2, <2>1, <2>2, WithinBowled
  <2> QED
    BY <1>2, <2>1, <2>2, <2>3
<1>10. RightUnder(m)'
  BY <1>1, <1>2, <1>6, <1>7, <1>8, <1>9 DEF RightUnder
<1> QED
  BY <1>4, <1>5, <1>10 DEF Exact

LEMMA CorrectExact ==
  ASSUME FeedTyped, FeedIs, Exact, CorrectBall PROVE Exact'
<1>1. /\ UNCHANGED <<rows, prev, done, latch, loggedMid, poll>> /\ unseen' = MaxMissed /\ unseen = 0
      /\ poll = Idle
  BY DEF CorrectBall, memory, tables
<1>2. PICK balls \in Seq(Kinds) : Correct(balls)
  BY EditedAreBalls DEF CorrectBall
<1>3. /\ FeedIs' /\ feed'.inn = feed.inn /\ feed'.first = feed.first /\ ~Won(feed)
      /\ Frame'.over = Frame.over /\ InHand(Frame') # <<>> /\ AtStart(Frame') = AtStart(Frame)
      /\ ~Lingering(Frame') /\ InHand(Frame) # <<>> /\ IsFrame(Frame)
  BY <1>2, CorrectFrame DEF FeedIs
<1>4. RowsTyped' /\ Credited(rows)' /\ DoneLegal'
  BY <1>1 DEF Exact, RowsTyped, DoneLegal
<1>5. MaxMissed \in Nat /\ MaxMissed # 0 /\ BPO \in Nat /\ Len(InHand(Frame)) \in Nat
  BY <1>3, ConstantsAre, FramesAre
<1>6. InningsKnown'
  BY <1>1, <1>3, <1>5 DEF Exact, InningsKnown
<1>7. Log' = Log
  BY <1>1, <1>3 DEF Log
<1>8. PICK m \in MatchIds : RightUnder(m)
  BY DEF Exact
<1>9. Fits(Log, m, Frame', MaxMissed)
  <2>1. CASE Baseline(Log, m, Frame, 0)
    BY <1>3, <2>1 DEF Baseline, NoneAfter, Fits
  <2>2. CASE OverInHand(Log, m, Frame, 0)
    <3>1. LegalOf(Log.prev.sig) \in Nat /\ LegalOf(Log.prev.sig) < BPO
      BY <2>2, BallsAre DEF OverInHand, Wrote
    <3>2. ~NextOver(Log.prev.over, Log.prev.sig, Log.prev.score, Frame, 0)
      BY <1>5, <3>1 DEF NextOver
    <3>3. SameOver(Log.prev.over, Log.prev.sig, Log.prev.score, Frame, 0)
      BY <2>2, <3>2 DEF OverInHand, Reached
    <3>4. Reached(Log.prev.over, Log.prev.sig, Log.prev.score, Frame', MaxMissed)
      BY <1>3, <3>3 DEF Reached, SameOver
    <3> QED
      BY <2>2, <3>4 DEF OverInHand, Fits
  <2> QED
    BY <1>1, <1>8, <2>1, <2>2 DEF RightUnder, Fits
<1>10. RightUnder(m)'
  BY <1>1, <1>3, <1>7, <1>8, <1>9 DEF RightUnder, PollFits, Idle
<1> QED
  BY <1>4, <1>6, <1>10 DEF Exact

LEMMA OpenExact ==
  ASSUME LogTyped, FeedIs, Exact, ScoreNextInnings PROVE Exact'
<1>1. /\ UNCHANGED <<rows, prev, done, latch, loggedMid, poll>> /\ unseen' = MaxMissed /\ unseen = 0
      /\ poll = Idle /\ NextInnings
  BY DEF ScoreNextInnings, memory, tables
<1>2. /\ FeedIs' /\ feed.inn = 1 /\ feed'.inn = 2 /\ feed'.first = feed.score /\ ~Won(feed)'
      /\ Frame'.over = 0 /\ InHand(Frame') = <<>> /\ AtStart(Frame') = 0 /\ ~Lingering(Frame')
      /\ IsFrame(Frame) /\ Frame.score = feed.score
  BY <1>1, OpenFrame, FrameHas DEF FeedIs, LogTyped, FrameFields
<1>3. RowsTyped' /\ Credited(rows)' /\ DoneLegal'
  BY <1>1 DEF Exact, RowsTyped, DoneLegal
<1>4. MaxMissed \in Nat
  BY ConstantsAre
<1>5. InningsKnown'
  BY <1>1, <1>2, <1>4 DEF Exact, InningsKnown
<1>6. PICK m \in MatchIds : RightUnder(m)
  BY DEF Exact
<1>7. /\ LogHas /\ LogHas' /\ Summed(rows) /\ Fits(Log, m, Frame, 0)
      /\ \A k \in Keys : rows[k] # <<>> => k.mid = m /\ k.inn <= 1
  <2>1. LogHas /\ LogHas'
    BY LogIs, PTL
  <2>2. Summed(rows)
    BY DEF Exact, RowsTyped
  <2>3. Fits(Log, m, Frame, 0) /\ \A k \in Keys : rows[k] # <<>> => k.mid = m /\ k.inn <= 1
    BY <1>1, <1>2, <1>6 DEF RightUnder
  <2> QED
    BY <2>1, <2>2, <2>3
<1>8. RunsIn(rows, m, 1) = feed.score
  BY <1>2, <1>7, AllLogged DEF LogHas
<1>9. /\ \A k \in Keys : k.inn = 2 => rows[k] = <<>>
      /\ Key(m, 2, 0) \in Keys /\ Key(m, 2, 0).inn = 2
  BY <1>7, KeysAre, ConstantsAre
<1>10. RunsIn(rows, m, 2) = 0 /\ RunsOf(rows[Key(m, 2, 0)]) = 0
  <2>1. \A o \in 0 .. Overs : rows[Key(m, 2, o)] = <<>>
    BY <1>9, KeysAre
  <2> QED
    BY <1>9, <2>1, NoneLogged, NoRuns
<1>11. prev.over = NoOver \/ prev.over \in Nat
  BY <1>7, ConstantsAre DEF Fits, Baseline, OverInHand, Wrote, LogHas
<1>12. Baseline(Log', m, Frame', MaxMissed)
  BY <1>1, <1>2, <1>7, <1>9, <1>10, <1>11 DEF Baseline, LogHas, NoneAfter
<1>13. \A k \in Keys : rows[k] # <<>> => k.mid = m /\ k.inn <= 2
  BY <1>7, KeysAre
<1>14. RightUnder(m)'
  BY <1>1, <1>2, <1>6, <1>8, <1>12, <1>13 DEF RightUnder, PollFits, Idle, Fits
<1> QED
  BY <1>3, <1>5, <1>14 DEF Exact

LEMMA ReadExact ==
  ASSUME FeedTyped, FeedIs, Exact, Read PROVE Exact'
<1>1. /\ UNCHANGED <<feed, rows, prev, done, loggedMid, unseen>> /\ latch' = InningsOf(Frame) /\ poll = Idle
      /\ poll' = [at |-> "follow", frame |-> Frame, inn |-> InningsOf(Frame), unseen |-> unseen]
  BY DEF Read, tables
<1>2. Log' = Log /\ Frame' = Frame /\ IsFrame(Frame) /\ feed.inn \in 1 .. 2 /\ feed.first \in Nat
      /\ feed.score \in Nat /\ FrameFields
  BY <1>1, SameFeed, SameLog, FrameHas, FeedNow DEF FeedIs
<1>3. InningsOf(Frame) = feed.inn
  <2>1. Won(feed) => ~Fresh(Frame) /\ feed.inn = 2
    BY <1>2 DEF Won, Fresh, FrameFields
  <2>2. Frame.required <=> feed.inn = 2 /\ ~Won(feed)
    BY <1>2, Zenon DEF FrameFields
  <2>3. /\ latch = 2 => feed.inn = 2
        /\ feed.inn = 2 => latch = 2 \/ ~Won(feed)
    BY DEF Exact, InningsKnown
  <2>4. CASE feed.inn = 2
    <3>1. Frame.required \/ (latch = 2 /\ ~Fresh(Frame))
      BY <2>1, <2>2, <2>3, <2>4, Zenon
    <3> QED
      BY <2>4, <3>1, Zenon DEF InningsOf
  <2>5. CASE feed.inn = 1
    <3>1. ~(Frame.required \/ (latch = 2 /\ ~Fresh(Frame)))
      BY <2>2, <2>3, <2>5
    <3> QED
      BY <2>5, <3>1, Zenon DEF InningsOf
  <2> QED
    BY <1>2, <2>4, <2>5
<1>4. RowsTyped' /\ Credited(rows)' /\ DoneLegal' /\ InningsKnown'
  BY <1>1, <1>2, <1>3 DEF Exact, RowsTyped, DoneLegal, InningsKnown
<1>5. PICK m \in MatchIds : RightUnder(m)
  BY DEF Exact
<1>6. unseen \in Nat
  BY ConstantsAre DEF Exact, InningsKnown
<1>7. Within(Frame, Frame, 0)
  BY <1>2, ReachedItself DEF Within
<1>8. PollFits(m)'
  <2>1. poll'.inn = feed.inn /\ poll'.unseen = unseen /\ poll'.frame = Frame /\ unseen - unseen = 0
        /\ unseen \in 0 .. unseen
    BY <1>1, <1>3, <1>6
  <2> QED
    BY <1>1, <1>2, <1>5, <1>7, <2>1 DEF PollFits, RightUnder
<1>9. RightUnder(m)'
  BY <1>1, <1>2, <1>5, <1>8 DEF RightUnder
<1> QED
  BY <1>4, <1>9 DEF Exact

-----------------------------------------------------------------------------
(* FollowMatchID: the record under another id.                                  *)

LEMMA WrittenIsNot == ASSUME NEW s \in Seq(Kinds), s # <<>>, NEW over PROVE Written(s, over) # <<>>
<1>1. Len(s) \in Nat /\ Len(s) # 0
  OBVIOUS
<1>2. 1 \in DOMAIN Written(s, over)
  BY <1>1, WrittenIs
<1> QED
  BY <1>2

LEMMA FitsRenamed ==
  ASSUME NEW B, NEW C, B.rows = C.rows, B.prev = C.prev, B.done = C.done, B.inn = C.inn, B.inn \in 1 .. 2,
         B.mid \in MatchIds \cup {NoMid}, NEW m \in MatchIds, NEW n \in MatchIds, NEW f, IsFrame(f), NEW u,
         Fits(B, m, f, u),
         (m = n /\ B.mid \in {C.mid, NoMid}) \/ \A k \in Keys : B.rows[k] = <<>>
  PROVE  Fits(C, n, f, u)
<1>1. f.over \in 0 .. Overs
  BY DEF IsFrame
<1>2. CASE m = n /\ B.mid = C.mid
  BY <1>2 DEF Fits, Baseline, OverInHand, Wrote, Recognised
<1>3. CASE m = n /\ B.mid = NoMid
  <2>1. Baseline(B, m, f, u) /\ ~Lingering(f)
    BY <1>3 DEF Fits, OverInHand, Wrote, Baseline, Recognised
  <2> QED
    BY <1>3, <2>1 DEF Fits, Baseline
<1>4. CASE \A k \in Keys : B.rows[k] = <<>>
  <2>1. ~OverInHand(B, m, f, u)
    <3> SUFFICES ASSUME OverInHand(B, m, f, u) PROVE FALSE
      OBVIOUS
    <3>1. /\ B.prev.over \in 0 .. Overs /\ B.prev.sig \in Seq(Kinds) /\ B.prev.sig # <<>>
          /\ B.rows[Key(m, B.inn, B.prev.over)] = Written(B.prev.sig, B.prev.over)
      BY DEF OverInHand, Wrote
    <3>2. Key(m, B.inn, B.prev.over) \in Keys
      BY <3>1, KeysAre
    <3> QED
      BY <1>4, <3>1, <3>2, WrittenIsNot
  <2>2. Baseline(B, m, f, u)
    BY <2>1 DEF Fits
  <2>3. ~Lingering(f)
    <3> SUFFICES ASSUME Recognised(B, f) PROVE FALSE
      BY <2>2 DEF Baseline
    <3>1. B.mid \in MatchIds /\ B.done.over \in 0 .. Overs /\ B.rows[Key(B.mid, B.inn, B.done.over)] # <<>>
      BY DEF Recognised
    <3> QED
      BY <1>4, <3>1, KeysAre
  <2>4. /\ RunsIn(B.rows, n, B.inn) = RunsIn(B.rows, m, B.inn)
        /\ B.rows[Key(n, B.inn, f.over)] = B.rows[Key(m, B.inn, f.over)]
    <3>1. \A o \in 0 .. Overs : B.rows[Key(m, B.inn, o)] = <<>> /\ B.rows[Key(n, B.inn, o)] = <<>>
      BY <1>4, KeysAre
    <3> QED
      BY <1>1, <3>1, SameOvers
  <2> QED
    BY <2>2, <2>3, <2>4 DEF Fits, Baseline
<1> QED
  BY <1>2, <1>3, <1>4

LEMMA FollowExact ==
  ASSUME LogTyped, FeedIs, Exact, Followed, UNCHANGED <<rows, prev>>, NEW m \in MatchIds, RightUnder(m),
         (m = id /\ loggedMid \in {id, NoMid}) \/ \A k \in Keys : rows[k] = <<>>
  PROVE  Exact'
<1>1. /\ UNCHANGED <<feed, rows, prev, done, latch, unseen, id>> /\ loggedMid' = id /\ poll.at = "follow"
      /\ poll' = [poll EXCEPT !.at = "log"]
  BY DEF Followed
<1>2. PICK f, i, u : poll = [at |-> "follow", frame |-> f, inn |-> i, unseen |-> u]
  BY <1>1 DEF LogTyped, PollTyped, Polls, Idle
<1>3. poll' = [at |-> "log", frame |-> f, inn |-> i, unseen |-> u]
  BY <1>1, <1>2
<1>4. Frame' = Frame /\ IsFrame(Frame) /\ feed.inn \in 1 .. 2 /\ id \in MatchIds /\ loggedMid \in MatchIds \cup {NoMid}
  BY <1>1, SameFeed DEF FeedIs, LogTyped
<1>5. LogHas /\ LogHas'
  BY LogIs, PTL
<1>6. ASSUME NEW g, IsFrame(g), NEW d, Fits(Log, m, g, d) PROVE Fits(Log', id, g, d)
  <2>1. /\ Log.rows = Log'.rows /\ Log.prev = Log'.prev /\ Log.done = Log'.done /\ Log.inn = Log'.inn
        /\ Log.inn \in 1 .. 2 /\ Log.mid \in MatchIds \cup {NoMid} /\ Log'.mid = id /\ Log.mid = loggedMid
        /\ Log.rows = rows
    BY <1>1, <1>4, <1>5 DEF LogHas
  <2> QED
    BY <1>4, <1>6, <2>1, FitsRenamed
<1>7. RowsTyped' /\ Credited(rows)' /\ DoneLegal'
  BY <1>1 DEF Exact, RowsTyped, DoneLegal
<1>8. InningsKnown'
  BY <1>1, <1>2 DEF Exact, InningsKnown, Won, Idle
<1>9. /\ poll.inn = feed.inn /\ poll.unseen \in 0 .. unseen /\ IsFrame(poll.frame)
      /\ Fits(Log, m, poll.frame, poll.unseen) /\ Fits(Log, m, Frame, unseen)
      /\ Within(poll.frame, Frame, unseen - poll.unseen)
      /\ \A k \in Keys : rows[k] # <<>> => k.mid = m /\ k.inn <= feed.inn
      /\ feed.inn = 2 => RunsIn(rows, m, 1) = feed.first
  BY <1>1 DEF RightUnder, PollFits
<1>10. PollFits(id)'
  <2>1. poll'.inn = poll.inn /\ poll'.unseen = poll.unseen /\ poll'.frame = poll.frame
    BY <1>2, <1>3
  <2>2. Fits(Log', id, poll.frame, poll.unseen)
    BY <1>6, <1>9
  <2> QED
    BY <1>1, <1>4, <1>9, <2>1, <2>2 DEF PollFits
<1>11. feed.inn = 2 => RunsIn(rows, id, 1) = feed.first
  <2>1. ASSUME \A k \in Keys : rows[k] = <<>> PROVE RunsIn(rows, id, 1) = RunsIn(rows, m, 1)
    <3>1. \A o \in 0 .. Overs : rows[Key(id, 1, o)] = <<>> /\ rows[Key(m, 1, o)] = <<>>
      BY <1>4, <2>1, KeysAre
    <3> QED
      BY <3>1, SameOvers
  <2> QED
    BY <1>9, <2>1
<1>12. RightUnder(id)'
  <2>1. Fits(Log', id, Frame, unseen)
    BY <1>4, <1>6, <1>9
  <2>2. \A k \in Keys : rows[k] # <<>> => k.mid = id /\ k.inn <= feed.inn
    BY <1>9
  <2> QED
    BY <1>1, <1>4, <1>10, <1>11, <2>1, <2>2 DEF RightUnder
<1> QED
  BY <1>1, <1>4, <1>7, <1>8, <1>12 DEF Exact

LEMMA SameIdExact == ASSUME LogTyped, FeedIs, Exact, SameId, ~torn' PROVE Exact'
<1>1. /\ Followed /\ UNCHANGED <<prev, rows>> /\ loggedMid \in {NoMid, id}
      /\ loggedMid = NoMid => \A m \in MatchIds \ {id} : ~Holds(m)
  BY DEF SameId, tables
<1>2. PICK m \in MatchIds : RightUnder(m)
  BY DEF Exact
<1>3. CASE loggedMid = id
  <2>1. m = id
    BY <1>2, <1>3, LogAssumption DEF RightUnder, LogTyped
  <2> QED
    BY <1>1, <1>2, <1>3, <2>1, FollowExact
<1>4. CASE loggedMid = NoMid
  <2>1. m # id => \A k \in Keys : rows[k] = <<>>
    <3> SUFFICES ASSUME m # id, NEW k \in Keys, rows[k] # <<>> PROVE FALSE
      OBVIOUS
    <3>1. k.mid = m
      BY <1>2 DEF RightUnder
    <3> QED
      BY <1>1, <1>4, <3>1 DEF Holds
  <2> QED
    BY <1>1, <1>2, <1>4, <2>1, FollowExact
<1> QED
  BY <1>1, <1>3, <1>4

LEMMA StayExact == ASSUME LogTyped, FeedIs, Together, ~torn, Exact, StayBehind, ~torn' PROVE Exact'
<1>1. /\ Followed /\ UNCHANGED <<prev, rows>> /\ loggedMid \notin {NoMid, id} /\ poll.at = "follow"
      /\ ~Underway(poll.frame) \/ Holds(id)
      /\ ~(Holds(loggedMid) /\ (poll.frame.over * BPO + poll.frame.legal = 0))
  BY DEF StayBehind, tables
<1>2. PICK m \in MatchIds : RightUnder(m)
  BY DEF Exact
<1>3. m = loggedMid
  BY <1>1, <1>2 DEF RightUnder
<1>4. ~Holds(id)
  BY <1>1 DEF Together, UnderIt, LogTyped
<1>5. ~Holds(loggedMid)
  BY <1>1, <1>4, NotUnderway
<1>6. \A k \in Keys : rows[k] = <<>>
  BY <1>2, <1>3, <1>5 DEF RightUnder, Holds
<1> QED
  BY <1>1, <1>2, <1>6, FollowExact

-----------------------------------------------------------------------------
LEMMA NotLingeringNow ==
  ASSUME NEW p, IsFrame(p), ~Lingering(p), NEW g, IsFrame(g), NEW v \in Nat, NEW d \in Nat, v + d <= MaxMissed,
         NEW B, NEW m, Fits(B, m, p, v), Within(p, g, d), Baseline(B, m, g, v + d)
  PROVE  ~Lingering(g)
<1> SUFFICES ASSUME Lingering(g) PROVE FALSE
  OBVIOUS
<1>1. /\ InHand(g) = <<>> /\ Len(<<>>) = 0 /\ LegalOf(<<>>) = 0 /\ LegalOf(g.ticker) > 0
      /\ p.legal = LegalOf(InHand(p)) /\ LegalOf(InHand(p)) \in Nat /\ LegalOf(InHand(p)) < BPO
      /\ LegalOf(InHand(p)) <= Len(InHand(p)) /\ Len(InHand(p)) \in Nat /\ p.over \in Nat
      /\ BPO \in Nat /\ MaxMissed \in Nat /\ MaxMissed < BPO
  BY ConstantsAre, FramesAre, NoLegals DEF IsFrame, InHand, Lingering
<1>2. CASE SameOver(p.over, InHand(p), p.score, g, d)
  <2>1. g.over = p.over /\ InHand(p) = <<>> /\ g.ticker = p.ticker
    BY <1>1, <1>2 DEF SameOver, Within
  <2> QED
    BY <1>1, <2>1 DEF Lingering
<1>3. CASE NextOver(p.over, InHand(p), p.score, g, d)
  <2>1. g.over = p.over + 1 /\ BPO - LegalOf(InHand(p)) <= d
    BY <1>1, <1>3 DEF NextOver
  <2>2. CASE Baseline(B, m, p, v)
    BY <1>1, <2>1, <2>2 DEF Baseline
  <2>3. CASE OverInHand(B, m, p, v)
    <3>1. B.prev.over \in 0 .. Overs
      BY <2>3 DEF OverInHand, Wrote
    <3>2. B.prev.over # NoOver
      BY <3>1, ConstantsAre DEF NoOver
    <3> QED
      BY <1>1, <2>1, <3>2 DEF Baseline
  <2> QED
    BY <2>2, <2>3 DEF Fits
<1> QED
  BY <1>2, <1>3 DEF Within, Reached

\* The rows of m are those of n now.
FromTo(r, e, m, n) ==
    \A k \in Keys : e[k] = IF k.mid = n THEN r[Key(m, k.inn, k.over)] ELSE <<>>

LEMMA FitsMoved ==
  ASSUME NEW B, NEW C, NEW m \in MatchIds, NEW n \in MatchIds, FromTo(B.rows, C.rows, m, n), n # NoMid,
         B.inn = C.inn, B.inn \in 1 .. 2, B.mid = m, C.mid = n,
         C.prev.over = B.prev.over, C.prev.inn = B.prev.inn, C.prev.sig = B.prev.sig,
         C.prev.count = B.prev.count, C.prev.bowler = B.prev.bowler, C.prev.score = B.prev.score,
         B.prev.mid = m => C.prev.mid = n,
         NEW f, IsFrame(f), NEW u, OverInHand(B, m, f, u) \/ (Baseline(B, m, f, u) /\ ~Lingering(f))
  PROVE  Fits(C, n, f, u)
<1>1. f.over \in 0 .. Overs
  BY DEF IsFrame
<1>2. \A o \in 0 .. Overs, i \in 1 .. 2 : C.rows[Key(n, i, o)] = B.rows[Key(m, i, o)]
  BY KeysAre DEF FromTo
<1>3. RunsIn(C.rows, n, B.inn) = RunsIn(B.rows, m, B.inn)
  BY <1>2, SameOvers
<1>4. \A k \in Keys : C.rows[k] # <<>> => /\ Key(m, k.inn, k.over) \in Keys
                                          /\ Key(m, k.inn, k.over).inn = k.inn
                                          /\ Key(m, k.inn, k.over).over = k.over
                                          /\ B.rows[Key(m, k.inn, k.over)] # <<>>
  BY KeysAre DEF FromTo
<1>5. CASE OverInHand(B, m, f, u)
  <2>1. Wrote(B, m) /\ Reached(B.prev.over, B.prev.sig, B.prev.score, f, u)
    BY <1>5 DEF OverInHand
  <2>2. Wrote(C, n)
    <3>1. B.prev.over \in 0 .. Overs
      BY <2>1 DEF Wrote
    <3>2. \A k \in Keys : C.rows[k] # <<>> /\ k.inn = C.inn => k.over <= C.prev.over
      BY <1>4, <2>1 DEF Wrote
    <3>3. C.rows[Key(n, C.inn, C.prev.over)] = Written(C.prev.sig, C.prev.over)
      BY <1>2, <2>1, <3>1 DEF Wrote
    <3> QED
      BY <1>3, <2>1, <3>2, <3>3 DEF Wrote
  <2> QED
    BY <2>1, <2>2 DEF OverInHand, Fits
<1>6. CASE Baseline(B, m, f, u) /\ ~Lingering(f)
  <2>1. NoneAfter(C.rows, C.inn, f)
    BY <1>4, <1>6 DEF Baseline, NoneAfter
  <2>2. C.rows[Key(n, C.inn, f.over)] = B.rows[Key(m, B.inn, f.over)]
    BY <1>1, <1>2
  <2> QED
    BY <1>3, <1>6, <2>1, <2>2 DEF Baseline, Fits
<1> QED
  BY <1>5, <1>6

LEMMA MoveExact == ASSUME LogTyped, FeedIs, PrevTyped, Exact, MoveMatch, ~blind' PROVE Exact'
<1>1. /\ UNCHANGED <<feed, done, latch, unseen, id>> /\ loggedMid' = id /\ poll.at = "follow"
      /\ poll' = [poll EXCEPT !.at = "log"] /\ loggedMid \notin {NoMid, id} /\ ~Holds(id)
      /\ Moved(loggedMid) /\ MovedMemory(loggedMid) /\ ~Lingering(poll.frame)
  BY DEF MoveMatch, Followed
<1>2. PICK f, i, u : poll = [at |-> "follow", frame |-> f, inn |-> i, unseen |-> u]
  BY <1>1 DEF LogTyped, PollTyped, Polls, Idle
<1>3. poll' = [at |-> "log", frame |-> f, inn |-> i, unseen |-> u]
  BY <1>1, <1>2
<1>4. /\ Frame' = Frame /\ IsFrame(Frame) /\ feed.inn \in 1 .. 2 /\ id \in MatchIds /\ id # NoMid
      /\ loggedMid \in MatchIds /\ LogHas /\ LogHas'
  <2>1. LogHas /\ LogHas'
    BY LogIs, PTL
  <2> QED
    BY <1>1, <2>1, SameFeed, LogAssumption DEF FeedIs, LogTyped
<1> DEFINE m == loggedMid
<1>5. RightUnder(m)
  BY <1>1 DEF Exact, RightUnder
<1>6. /\ poll.inn = feed.inn /\ poll.unseen \in 0 .. unseen /\ IsFrame(poll.frame)
      /\ Fits(Log, m, poll.frame, poll.unseen) /\ Fits(Log, m, Frame, unseen)
      /\ Within(poll.frame, Frame, unseen - poll.unseen)
      /\ \A k \in Keys : rows[k] # <<>> => k.mid = m /\ k.inn <= feed.inn
      /\ feed.inn = 2 => RunsIn(rows, m, 1) = feed.first
  BY <1>1, <1>5 DEF RightUnder, PollFits
<1>7. /\ rows' = [k \in Keys |-> rows'[k]]
      /\ \A k \in Keys : rows'[k] = IF k.mid = id THEN rows[Key(m, k.inn, k.over)] ELSE <<>>
  <2>1. rows' = [k \in Keys |-> CASE k.mid = id  -> rows[[k EXCEPT !.mid = m]]
                                  [] k.mid = m   -> <<>>
                                  [] OTHER       -> rows[k]]
    BY <1>1 DEF Moved
  <2>2. \A k \in Keys : [k EXCEPT !.mid = m] = Key(m, k.inn, k.over)
    BY DEF Keys, Key
  <2> QED
    BY <1>1, <1>4, <1>6, <2>1, <2>2
<1> HIDE DEF m
<1>8. FromTo(rows, rows', m, id)
  BY <1>7 DEF FromTo
<1>9. prev' = IF prev.mid = m THEN [prev EXCEPT !.mid = id] ELSE prev
  BY <1>1 DEF MovedMemory, m
<1>10. /\ prev'.over = prev.over /\ prev'.inn = prev.inn /\ prev'.sig = prev.sig /\ prev'.count = prev.count
       /\ prev'.bowler = prev.bowler /\ prev'.score = prev.score /\ (prev.mid = m => prev'.mid = id)
  BY <1>9 DEF PrevTyped
<1>11. ASSUME NEW g, IsFrame(g), NEW d, OverInHand(Log, m, g, d) \/ (Baseline(Log, m, g, d) /\ ~Lingering(g))
       PROVE  Fits(Log', id, g, d)
  <2>1. /\ Log.rows = rows /\ Log'.rows = rows' /\ Log.prev = prev /\ Log'.prev = prev' /\ Log.mid = m
        /\ Log'.mid = id /\ Log.inn = Log'.inn /\ Log.inn \in 1 .. 2 /\ m \in MatchIds
    BY <1>1, <1>4 DEF LogHas, m
  <2> QED
    BY <1>4, <1>8, <1>10, <1>11, <2>1, FitsMoved
<1>12. Fits(Log', id, poll.frame, poll.unseen)
  BY <1>1, <1>6, <1>11 DEF Fits
<1>13. Fits(Log', id, Frame, unseen)
  <2>1. CASE OverInHand(Log, m, Frame, unseen)
    BY <1>4, <1>11, <2>1
  <2>2. CASE Baseline(Log, m, Frame, unseen)
    <3>1. /\ unseen - poll.unseen \in Nat /\ poll.unseen \in Nat
          /\ poll.unseen + (unseen - poll.unseen) = unseen /\ unseen <= MaxMissed
      BY <1>6, ConstantsAre DEF Exact, InningsKnown
    <3>2. Baseline(Log, m, Frame, poll.unseen + (unseen - poll.unseen))
      BY <2>2, <3>1
    <3>3. poll.unseen + (unseen - poll.unseen) <= MaxMissed
      BY <3>1
    <3>4. ~Lingering(Frame)
      <4> DEFINE v == poll.unseen
                 d == unseen - poll.unseen
      <4>1. v \in Nat /\ d \in Nat /\ v + d <= MaxMissed /\ Baseline(Log, m, Frame, v + d)
            /\ Fits(Log, m, poll.frame, v) /\ Within(poll.frame, Frame, d)
        BY <1>6, <3>1, <3>2, <3>3
      <4> HIDE DEF v, d
      <4> QED
        BY <1>1, <1>4, <1>6, <4>1, NotLingeringNow
    <3> QED
      BY <1>4, <1>11, <2>2, <3>4
  <2> QED
    BY <1>6, <2>1, <2>2 DEF Fits
<1>14. RowsTyped' /\ Credited(rows)' /\ DoneLegal'
  <2>1. \A k \in Keys : Key(m, k.inn, k.over) \in Keys /\ Key(m, k.inn, k.over).over = k.over
    BY <1>4, KeysAre DEF m
  <2>2. Summed(rows) /\ Credited(rows)
    BY DEF Exact, RowsTyped
  <2>3. Summed(rows')
    BY <1>7, <2>1, <2>2, NoRuns DEF Summed
  <2>4. Credited(rows')
    BY <1>7, <2>1, <2>2 DEF Credited
  <2> QED
    BY <1>1, <1>7, <2>3, <2>4 DEF Exact, RowsTyped, DoneLegal
<1>15. InningsKnown'
  BY <1>1, <1>2 DEF Exact, InningsKnown, Won, Idle
<1>16. PollFits(id)'
  <2>1. poll'.inn = poll.inn /\ poll'.unseen = poll.unseen /\ poll'.frame = poll.frame
    BY <1>2, <1>3
  <2> QED
    BY <1>1, <1>4, <1>6, <1>12, <2>1 DEF PollFits
<1>17. feed.inn = 2 => RunsIn(rows', id, 1) = feed.first
  <2>1. \A o \in 0 .. Overs : rows'[Key(id, 1, o)] = rows[Key(m, 1, o)]
    BY <1>4, <1>7, KeysAre
  <2> QED
    BY <1>6, <2>1, SameOvers
<1>18. \A k \in Keys : rows'[k] # <<>> => k.mid = id /\ k.inn <= feed.inn
  <2>1. \A k \in Keys : Key(m, k.inn, k.over) \in Keys /\ Key(m, k.inn, k.over).inn = k.inn
    BY <1>4, KeysAre DEF m
  <2> QED
    BY <1>6, <1>7, <2>1
<1>19. RightUnder(id)'
  BY <1>1, <1>4, <1>13, <1>16, <1>17, <1>18 DEF RightUnder
<1> QED
  BY <1>1, <1>4, <1>14, <1>15, <1>19 DEF Exact

-----------------------------------------------------------------------------
LEMMA LogReady ==
  ASSUME LogTyped, Together, ~torn, FeedIs, PrevTyped, Exact, poll.at = "log"
  PROVE  /\ Ready(poll.frame, poll.inn, poll.unseen) /\ RightUnder(id) /\ IsFrame(Frame) /\ poll # Idle
         /\ poll.unseen \in Nat /\ unseen \in Nat /\ unseen <= MaxMissed /\ unseen - poll.unseen \in 0 .. MaxMissed
         /\ unseen - poll.unseen \in Nat /\ poll.unseen + (unseen - poll.unseen) = unseen
         /\ Within(poll.frame, Frame, unseen - poll.unseen) /\ Fits(Log, id, Frame, unseen)
<1>1. PICK m \in MatchIds : RightUnder(m)
  BY DEF Exact
<1>2. loggedMid = id /\ id \in MatchIds /\ id # NoMid /\ poll # Idle
  BY LogAssumption DEF Together, Following, LogTyped, Idle
<1>3. m = id
  BY <1>1, <1>2 DEF RightUnder
<1>4. /\ poll.inn = feed.inn /\ poll.unseen \in 0 .. unseen /\ IsFrame(poll.frame)
      /\ Fits(Log, id, poll.frame, poll.unseen)
      /\ Within(poll.frame, Frame, unseen - poll.unseen) /\ Fits(Log, id, Frame, unseen)
  BY <1>1, <1>3 DEF RightUnder, PollFits
<1>5. unseen \in 0 .. MaxMissed /\ MaxMissed \in Nat
  BY ConstantsAre DEF Exact, InningsKnown
<1>6. /\ poll.unseen \in Nat /\ unseen \in Nat /\ unseen <= MaxMissed /\ unseen - poll.unseen \in 0 .. MaxMissed
      /\ unseen - poll.unseen \in Nat /\ poll.unseen + (unseen - poll.unseen) = unseen
      /\ poll.unseen \in 0 .. MaxMissed
  BY <1>4, <1>5
<1> QED
  BY <1>1, <1>2, <1>3, <1>4, <1>6 DEF Ready, Exact, FeedIs

LEMMA LogExact ==
  ASSUME LogTyped, FeedIs, Exact, RightUnder(id), poll.at = "log", UNCHANGED <<feed, id, latch, loggedMid>>,
         poll' = [poll EXCEPT !.at = "figures"], unseen' \in 0 .. MaxMissed,
         RowsKept(rows', poll.inn), DoneLegal', Fits(Log', id, Frame, unseen')
  PROVE  Exact'
<1>1. Frame' = Frame /\ feed.inn \in 1 .. 2 /\ id \in MatchIds
  BY SameFeed DEF FeedIs, LogTyped
<1>2. /\ poll.inn = feed.inn /\ poll # Idle
      /\ \A k \in Keys : rows[k] # <<>> => k.mid = id /\ k.inn <= feed.inn
      /\ feed.inn = 2 => RunsIn(rows, id, 1) = feed.first
  BY DEF RightUnder, PollFits, Idle
<1>3. poll'.at = "figures"
  BY DEF LogTyped, PollTyped, Polls, Idle
<1>4. InningsKnown'
  BY <1>2 DEF Exact, InningsKnown, Won
<1>5. RowsTyped' /\ Credited(rows)'
  BY DEF RowsKept, RowsTyped
<1>6. \A k \in Keys : rows'[k] # <<>> => k.mid = id /\ k.inn <= feed.inn
  BY <1>1, <1>2 DEF RowsKept
<1>7. feed.inn = 2 => RunsIn(rows', id, 1) = feed.first
  BY <1>1, <1>2, OtherInnings DEF RowsKept
<1>8. RightUnder(id)'
  BY <1>1, <1>3, <1>6, <1>7 DEF RightUnder, PollFits
<1> QED
  BY <1>1, <1>4, <1>5, <1>8 DEF Exact

LEMMA PrevAfter == ASSUME PrevTyped, NEW f, NEW i
  PROVE  LET p == PrevAfterRecovery(f, i)
         IN  p = [mid |-> p.mid, inn |-> p.inn, over |-> p.over, score |-> p.score,
                  wkts |-> p.wkts, count |-> p.count, bowler |-> p.bowler, sig |-> p.sig]
<1>1. PrevAfterRecovery(f, i) = IF ~Rolled(f, i) THEN prev
         ELSE [prev EXCEPT !.over = NoOver, !.count = 0, !.score = f.score, !.wkts = f.wkts]
  BY DEF PrevAfterRecovery
<1>2. CASE ~Rolled(f, i)
  BY <1>1, <1>2 DEF PrevTyped
<1>3. CASE Rolled(f, i)
  <2>1. PrevAfterRecovery(f, i) = [mid |-> prev.mid, inn |-> prev.inn, over |-> NoOver, score |-> f.score,
                  wkts |-> f.wkts, count |-> 0, bowler |-> prev.bowler, sig |-> prev.sig]
    BY <1>1, <1>3 DEF PrevTyped
  <2> QED
    BY <2>1
<1> QED
  BY <1>2, <1>3

LEMMA BreakExact ==
  ASSUME LogTyped, Together, ~torn, FeedIs, PrevTyped, Exact, LogOverBreak PROVE Exact'
<1> DEFINE f == poll.frame
           i == poll.inn
           d == unseen - poll.unseen
           p == PrevAfterRecovery(f, i)
<1>1. /\ poll.at = "log" /\ UNCHANGED <<feed, id, latch, loggedMid>> /\ poll' = [poll EXCEPT !.at = "figures"]
      /\ unseen' = d /\ Seen(f, i) = <<>> /\ rows' = RowsAfterRecovery(f, i) /\ done' = DoneAfterRecovery(f, i)
      /\ prev' = [p EXCEPT !.mid = id, !.inn = i, !.score = f.score, !.wkts = f.wkts, !.bowler = f.bowler]
  BY DEF LogOverBreak, Logging, Logged
<1>2. /\ Ready(f, i, poll.unseen) /\ RightUnder(id) /\ IsFrame(Frame) /\ d \in 0 .. MaxMissed
      /\ Within(f, Frame, d)
  BY <1>1, LogReady
<1> HIDE DEF f, i, d, p
<1>3. InHand(f) = <<>>
  BY <1>1, <1>2, StaleIs
<1>4. prev'.over = p.over
  <2>1. p = [mid |-> p.mid, inn |-> p.inn, over |-> p.over, score |-> p.score,
             wkts |-> p.wkts, count |-> p.count, bowler |-> p.bowler, sig |-> p.sig]
    BY PrevAfter DEF p
  <2> QED
    BY <1>1, <2>1
<1>5. LogHas' /\ loggedMid = id /\ i = feed.inn
  BY <1>2, LogIs, PTL DEF Ready
<1>6. Baseline(Log', id, Frame, d) /\ RowsKept(Log'.rows, i)
  <2>1. Log'.rows = rows' /\ Log'.prev.over = PrevAfterRecovery(f, i).over /\ Log'.done = done' /\ Log'.mid = id
        /\ Log'.inn = i
    BY <1>1, <1>4, <1>5 DEF LogHas, p
  <2> QED
    BY <1>1, <1>2, <1>3, <2>1, BreakLogged
<1>7. DoneLegal'
  BY <1>1, <1>2, DoneIsLegal DEF DoneLegal
<1> QED
  BY <1>1, <1>2, <1>5, <1>6, <1>7, LogExact DEF Fits, LogHas, i

LEMMA OverExact ==
  ASSUME LogTyped, Together, ~torn, FeedIs, PrevTyped, Exact, LogOver PROVE Exact'
<1> DEFINE f == poll.frame
           i == poll.inn
           d == unseen - poll.unseen
<1>1. /\ poll.at = "log" /\ UNCHANGED <<feed, id, latch, loggedMid>> /\ poll' = [poll EXCEPT !.at = "figures"]
      /\ unseen' = d /\ Seen(f, i) # <<>> /\ done' = DoneAfterRecovery(f, i)
      /\ rows' = [RowsAfterRecovery(f, i) EXCEPT ![Key(id, i, f.over)] =
                    [j \in DOMAIN f.ticker |-> Row(f.ticker[j], f.bowler)]]
      /\ prev' = [mid |-> id, inn |-> i, over |-> f.over, score |-> f.score, wkts |-> f.wkts,
                  count |-> Len(f.ticker), bowler |-> f.bowler, sig |-> f.ticker]
  BY DEF LogOver, Logging, Logged
<1>2. /\ Ready(f, i, poll.unseen) /\ RightUnder(id) /\ d \in 0 .. MaxMissed /\ Within(f, Frame, d)
  BY <1>1, LogReady
<1> HIDE DEF f, i, d
<1>3. InHand(f) # <<>>
  BY <1>1, <1>2, StaleIs
<1>4. LogHas' /\ loggedMid = id /\ i = feed.inn
  BY <1>2, LogIs, PTL DEF Ready
<1>5. OverInHand(Log', id, Frame, d) /\ RowsKept(Log'.rows, i)
  <2>1. /\ Log'.rows = [RowsAfterRecovery(f, i) EXCEPT ![Key(id, i, f.over)] =
                           [j \in DOMAIN f.ticker |-> Row(f.ticker[j], f.bowler)]]
        /\ Log'.prev = [mid |-> id, inn |-> i, over |-> f.over, score |-> f.score, wkts |-> f.wkts,
                        count |-> Len(f.ticker), bowler |-> f.bowler, sig |-> f.ticker]
        /\ Log'.mid = id /\ Log'.inn = i
    BY <1>1, <1>4 DEF LogHas
  <2> QED
    BY <1>2, <1>3, <2>1, OverLogged
<1>6. DoneLegal'
  BY <1>1, <1>2, DoneIsLegal DEF DoneLegal
<1> QED
  BY <1>1, <1>2, <1>4, <1>5, <1>6, LogExact DEF Fits, LogHas, i

\* What the logger remembers of the last write is the same, but for its wickets.
LEMMA FitsSame ==
  ASSUME NEW B, NEW C, B.rows = C.rows, B.done = C.done, B.inn = C.inn, B.mid = C.mid,
         C.prev.over = B.prev.over, C.prev.inn = B.prev.inn, C.prev.sig = B.prev.sig, C.prev.mid = B.prev.mid,
         C.prev.count = B.prev.count, C.prev.bowler = B.prev.bowler, C.prev.score = B.prev.score,
         NEW m, NEW f, NEW u, Fits(B, m, f, u)
  PROVE  Fits(C, m, f, u)
<1>1. Baseline(B, m, f, u) => Baseline(C, m, f, u)
  BY DEF Baseline, Recognised
<1>2. OverInHand(B, m, f, u) => OverInHand(C, m, f, u)
  BY DEF OverInHand, Wrote
<1> QED
  BY <1>1, <1>2 DEF Fits

LEMMA RolledIsNext ==
  ASSUME NEW f, NEW i, NEW u, Ready(f, i, u), Rolled(f, i) PROVE OverRolled(f, u)
BY ThreeCases, WhenAgain, WhenBaseline

LEMMA RecoveryFailsExact ==
  ASSUME LogTyped, Together, ~torn, FeedIs, PrevTyped, Exact, RecoveryFails, ~blind' PROVE Exact'
<1> DEFINE f == poll.frame
           i == poll.inn
<1>1. /\ poll.at = "log" /\ UNCHANGED <<feed, id, latch, loggedMid, unseen, done>>
      /\ poll' = [poll EXCEPT !.at = "figures"]
      /\ LateTail(f, i) = <<>> /\ rows' = RowsAfterTail(f, i) /\ prev' = AfterTail(f, i) /\ Missing(f, i)
  BY DEF RecoveryFails, Logging, Refused
<1>2. /\ Ready(f, i, poll.unseen) /\ RightUnder(id) /\ unseen \in 0 .. MaxMissed /\ Fits(Log, id, Frame, unseen)
  BY <1>1, LogReady DEF Exact, InningsKnown
<1> HIDE DEF f, i
<1>3. Rolled(f, i) /\ OverRolled(f, poll.unseen)
  BY <1>1, <1>2, RolledIsNext DEF Missing
<1>4. rows' = rows
  BY <1>1 DEF RowsAfterTail
<1>5. prev.count \in Nat /\ prev.score \in Nat
  BY <1>2, <1>3, WroteLast DEF OverRolled
<1>6. /\ prev'.over = prev.over /\ prev'.inn = prev.inn /\ prev'.sig = prev.sig /\ prev'.mid = prev.mid
      /\ prev'.bowler = prev.bowler /\ prev'.count = prev.count /\ prev'.score = prev.score
  <2>1. prev' = [prev EXCEPT !.count = prev.count + Len(<<>>), !.score = prev.score + RunsOf(<<>>),
                             !.wkts = prev.wkts + WicketsOf(<<>>)]
    BY <1>1 DEF AfterTail
  <2>2. prev.count + Len(<<>>) = prev.count /\ prev.score + RunsOf(<<>>) = prev.score
    BY <1>5, NoRuns
  <2> QED
    BY <2>1, <2>2 DEF PrevTyped
<1>7. LogHas /\ LogHas'
  BY LogIs, PTL
<1>8. Fits(Log', id, Frame, unseen)
  <2>1. /\ Log.rows = Log'.rows /\ Log.done = Log'.done /\ Log.inn = Log'.inn /\ Log.mid = Log'.mid
        /\ Log.prev = prev /\ Log'.prev = prev'
    BY <1>1, <1>4, <1>7 DEF LogHas
  <2> QED
    BY <1>2, <1>6, <2>1, FitsSame
<1>9. RowsKept(rows', i)
  BY <1>4 DEF RowsKept, Exact, RowsTyped
<1>10. DoneLegal'
  BY <1>1 DEF Exact, DoneLegal
<1> QED
  BY <1>1, <1>2, <1>8, <1>9, <1>10, LogExact DEF i

LEMMA RewriteFailsExact ==
  ASSUME LogTyped, Together, ~torn, FeedIs, PrevTyped, Exact, RewriteFails PROVE Exact'
<1> DEFINE f == poll.frame
           i == poll.inn
           d == unseen - poll.unseen
<1>1. /\ poll.at = "log" /\ UNCHANGED <<feed, id, latch, loggedMid, unseen>>
      /\ poll' = [poll EXCEPT !.at = "figures"] /\ Seen(f, i) # <<>>
      /\ rows' = RowsAfterRecovery(f, i) /\ prev' = PrevAfterRecovery(f, i) /\ done' = DoneAfterRecovery(f, i)
  BY DEF RewriteFails, Logging, Refused
<1>2. /\ Ready(f, i, poll.unseen) /\ RightUnder(id) /\ IsFrame(Frame) /\ unseen \in 0 .. MaxMissed
      /\ d \in Nat /\ poll.unseen + d = unseen /\ unseen <= MaxMissed
      /\ Within(f, Frame, d) /\ Fits(Log, id, Frame, unseen)
  BY <1>1, LogReady DEF Exact, InningsKnown
<1> HIDE DEF f, i, d
<1>3. InHand(f) # <<>>
  BY <1>1, <1>2, StaleIs
<1>4. LogHas' /\ loggedMid = id /\ i = feed.inn
  BY <1>2, LogIs, PTL DEF Ready
<1>5. DoneLegal'
  BY <1>1, <1>2, DoneIsLegal DEF DoneLegal
<1>6. CASE OverRolled(f, poll.unseen)
  <2>1. Rolled(f, i)
    BY <1>2, <1>6, WhenNext
  <2>2. prev'.over = NoOver
    BY <1>1, <2>1 DEF PrevAfterRecovery, PrevTyped
  <2>3. Log'.rows = RowsAfterRecovery(f, i) /\ Log'.prev.over = NoOver /\ Log'.mid = id /\ Log'.inn = i
    BY <1>1, <1>4, <2>2 DEF LogHas
  <2>4. Baseline(Log', id, Frame, poll.unseen + d) /\ RowsKept(Log'.rows, i)
    BY <1>2, <1>3, <1>6, <2>3, OverRefused
  <2> QED
    BY <1>1, <1>2, <1>4, <1>5, <2>4, LogExact DEF Fits, LogHas, i
<1>7. CASE ~OverRolled(f, poll.unseen)
  <2>1. ~Rolled(f, i)
    BY <1>2, <1>7, RolledIsNext
  <2>2. rows' = rows /\ prev' = prev /\ done' = done
    BY <1>1, <2>1, NotRolled
  <2>3. Log' = Log
    BY <1>1, <2>2, SameLog
  <2>4. RowsKept(rows', i)
    BY <2>2 DEF RowsKept, Exact, RowsTyped
  <2> QED
    BY <1>1, <1>2, <1>5, <2>3, <2>4, LogExact DEF i
<1> QED
  BY <1>6, <1>7

-----------------------------------------------------------------------------
LEMMA RestartExact ==
  ASSUME FeedIs, Exact, Restart, ~blind' PROVE Exact'
<1>1. /\ UNCHANGED <<feed, rows>> /\ latch' = 1 /\ loggedMid' = NoMid /\ prev' = NoPrev /\ done' = NoDone
      /\ poll' = Idle /\ unseen = 0 /\ unseen' = MaxMissed /\ ~Lingering(Frame) /\ ~Won(feed)
  BY DEF Restart, Placeable, tables
<1>2. Frame' = Frame /\ IsFrame(Frame) /\ feed.inn \in 1 .. 2 /\ Won(feed)' = Won(feed) /\ MaxMissed \in Nat
  BY <1>1, SameFeed, ConstantsAre DEF FeedIs, Won
<1>3. LogHas /\ LogHas'
  BY LogIs, PTL
<1>4. PICK m \in MatchIds : RightUnder(m)
  BY DEF Exact
<1>5. Fits(Log, m, Frame, 0) /\ Summed(rows)
  BY <1>1, <1>4 DEF RightUnder, Exact, RowsTyped
<1>6. NoneAfter(rows, feed.inn, Frame)
  BY <1>2, <1>3, <1>5, NothingAfter DEF LogHas
<1>7. RunsIn(rows, m, feed.inn) - RunsOf(rows[Key(m, feed.inn, Frame.over)]) = AtStart(Frame)
  BY <1>2, <1>3, <1>5, AllLogged DEF LogHas
<1>8. Baseline(Log', m, Frame, MaxMissed)
  BY <1>1, <1>3, <1>6, <1>7 DEF Baseline, LogHas, NoPrev
<1>9. RightUnder(m)'
  BY <1>1, <1>2, <1>4, <1>8 DEF RightUnder, PollFits, Idle, Fits
<1>10. RowsTyped' /\ Credited(rows)' /\ DoneLegal' /\ InningsKnown'
  BY <1>1, <1>2 DEF Exact, RowsTyped, DoneLegal, NoDone, InningsKnown
<1> QED
  BY <1>9, <1>10 DEF Exact

LEMMA PrevStays == ASSUME PrevTyped, Next PROVE PrevTyped'
<1>1. CASE UNCHANGED prev
  BY <1>1 DEF PrevTyped
<1>2. CASE MoveMatch
  <2>1. prev' = IF prev.mid = loggedMid THEN [prev EXCEPT !.mid = id] ELSE prev
    BY <1>2 DEF MoveMatch, MovedMemory
  <2> QED
    BY <2>1 DEF PrevTyped
<1>3. CASE LogOverBreak
  <2> DEFINE p == PrevAfterRecovery(poll.frame, poll.inn)
             f == poll.frame
  <2>1. p = [mid |-> p.mid, inn |-> p.inn, over |-> p.over, score |-> p.score,
             wkts |-> p.wkts, count |-> p.count, bowler |-> p.bowler, sig |-> p.sig]
    BY PrevAfter
  <2>2. prev' = [p EXCEPT !.mid = id, !.inn = poll.inn, !.score = f.score, !.wkts = f.wkts, !.bowler = f.bowler]
    BY <1>3 DEF LogOverBreak
  <2> HIDE DEF p, f
  <2> QED
    BY <2>1, <2>2 DEF PrevTyped
<1>4. CASE LogOver
  BY <1>4 DEF LogOver, PrevTyped
<1>5. CASE RecoveryFails
  <2>1. PICK c, s, w : prev' = [prev EXCEPT !.count = c, !.score = s, !.wkts = w]
    BY <1>5 DEF RecoveryFails, AfterTail
  <2> QED
    BY <2>1 DEF PrevTyped
<1>6. CASE RewriteFails
  <2>1. prev' = PrevAfterRecovery(poll.frame, poll.inn)
    BY <1>6 DEF RewriteFails
  <2> QED
    BY <2>1, PrevAfter DEF PrevTyped
<1>7. CASE Restart
  BY <1>7 DEF Restart, PrevTyped, NoPrev
<1> QED
  BY <1>1, <1>2, <1>3, <1>4, <1>5, <1>6, <1>7
  DEF Next, Score, CorrectBall, ScoreNextInnings, SetId, Read, SameId, StayBehind, MoveFails, TailFails,
      NoteFigures, FiguresFail, memory

LEMMA FeedStays == ASSUME FeedTyped, FeedIs, Next PROVE FeedIs'
<1>1. ASSUME NEW b \in Kinds, Score(b) PROVE FeedIs'
  BY <1>1, BowlFrame DEF Score
<1>2. CASE CorrectBall
  <2>1. PICK balls \in Seq(Kinds) : Correct(balls)
    BY <1>2, EditedAreBalls DEF CorrectBall
  <2> QED
    BY <2>1, CorrectFrame
<1>3. CASE ScoreNextInnings
  BY <1>3, OpenFrame DEF ScoreNextInnings
<1>4. CASE UNCHANGED feed
  BY <1>4, SameFeed
<1> QED
  BY <1>1, <1>2, <1>3, <1>4
  DEF Next, SetId, Read, SameId, StayBehind, MoveMatch, MoveFails, Followed, LogOverBreak, LogOver, TailFails,
      RecoveryFails, RewriteFails, Logging, NoteFigures, FiguresFail, Restart

LEMMA HistoryStays == ASSUME [Next]_vars, ~blind', ~torn', blind \in BOOLEAN, torn \in BOOLEAN PROVE ~blind /\ ~torn
BY DEF Next, vars, Score, CorrectBall, ScoreNextInnings, SetId, Read, SameId, StayBehind, MoveMatch, MoveFails,
       Followed, LogOverBreak, LogOver, Logged, TailFails, RecoveryFails, RewriteFails, Logging, NoteFigures,
       FiguresFail, Restart

-----------------------------------------------------------------------------
(* One step per action.                                                       *)

LEMMA NextExact ==
  ASSUME LogInv, FeedIs, PrevTyped, Exact, ~torn, ~torn', ~blind', [Next]_vars PROVE Exact'
<1>0. LogTyped /\ Together /\ FeedTyped
  BY DEF LogInv, LogTyped
<1>1. CASE UNCHANGED vars
  BY <1>1, QuietExact DEF vars, memory, tables
<1>2. ASSUME NEW b \in Kinds, Score(b) PROVE Exact'
  BY <1>0, <1>2, ScoreExact
<1>3. CASE CorrectBall
  BY <1>0, <1>3, CorrectExact
<1>4. CASE ScoreNextInnings
  BY <1>0, <1>4, OpenExact
<1>5. ASSUME NEW m \in MatchIds, SetId(m) PROVE Exact'
  BY <1>5, QuietExact DEF SetId, memory, tables
<1>6. CASE Read
  BY <1>0, <1>6, ReadExact
<1>7. CASE SameId
  BY <1>0, <1>7, SameIdExact
<1>8. CASE StayBehind
  BY <1>0, <1>8, StayExact
<1>9. CASE MoveMatch
  BY <1>0, <1>9, MoveExact
<1>10. CASE MoveFails
  BY <1>10 DEF MoveFails
<1>11. CASE LogOverBreak
  BY <1>0, <1>11, BreakExact
<1>12. CASE LogOver
  BY <1>0, <1>12, OverExact
<1>13. CASE TailFails
  <2>1. poll.at = "log" /\ poll' = [poll EXCEPT !.at = "figures"]
    BY <1>13 DEF TailFails, Logging, Refused
  <2>2. poll # Idle /\ poll'.at = "figures"
    BY <1>0, <2>1 DEF LogTyped, PollTyped, Polls, Idle
  <2> QED
    BY <1>13, <2>2, QuietExact DEF TailFails, Logging, Refused
<1>14. CASE RecoveryFails
  BY <1>0, <1>14, RecoveryFailsExact
<1>15. CASE RewriteFails
  BY <1>0, <1>15, RewriteFailsExact
<1>16. CASE NoteFigures
  BY <1>16, QuietExact DEF NoteFigures, memory, Idle
<1>17. CASE FiguresFail
  BY <1>17, QuietExact DEF FiguresFail, memory, tables, Idle
<1>18. CASE Restart
  BY <1>18, RestartExact
<1> QED
  BY <1>1, <1>2, <1>3, <1>4, <1>5, <1>6, <1>7, <1>8, <1>9, <1>10, <1>11, <1>12, <1>13,
     <1>14, <1>15, <1>16, <1>17, <1>18 DEF Next

HistoryTyped == blind \in BOOLEAN /\ torn \in BOOLEAN

LEMMA HistoryIs == HistoryTyped /\ [Next]_vars => HistoryTyped'
BY DEF HistoryTyped, Next, vars, Score, CorrectBall, ScoreNextInnings, SetId, Read, SameId, StayBehind, MoveMatch, MoveFails,
       Followed, LogOverBreak, LogOver, Logged, TailFails, RecoveryFails, RewriteFails, Logging, NoteFigures,
       FiguresFail, Restart

LEMMA NextRecordInv == RecordInv /\ HistoryTyped /\ [Next]_vars => RecordInv' /\ HistoryTyped'
<1> SUFFICES ASSUME RecordInv, HistoryTyped, [Next]_vars PROVE RecordInv' /\ HistoryTyped'
  OBVIOUS
<1>1. LogInv' /\ HistoryTyped'
  BY NextLogInv, HistoryIs DEF RecordInv
<1>2. FeedIs' /\ PrevTyped'
  <2>1. CASE Next
    BY <2>1, FeedStays, PrevStays DEF RecordInv, LogInv, LogTyped
  <2>2. CASE UNCHANGED vars
    <3>1. UNCHANGED feed /\ UNCHANGED prev
      BY <2>2 DEF vars, memory
    <3> QED
      BY <3>1, SameFeed DEF RecordInv, PrevTyped
  <2> QED
    BY <2>1, <2>2
<1>3. ~blind' /\ ~torn' => Exact'
  BY HistoryStays, NextExact DEF RecordInv, HistoryTyped
<1> QED
  BY <1>1, <1>2, <1>3 DEF RecordInv

LEMMA ExactIsRight == RecordInv => RecordIsRight
<1> SUFFICES ASSUME RecordInv, ~blind, ~torn
             PROVE  /\ Credited(rows)
                    /\ unseen = 0 => \E m \in MatchIds :
                          /\ AllUnder(m) /\ LoggedRuns(m, feed.inn) = feed.score
                          /\ feed.inn = 2 => LoggedRuns(m, 1) = feed.first
  BY DEF RecordIsRight, BallsAddUp, BowlersOwn, Credited
<1>1. Exact /\ FeedIs
  BY DEF RecordInv
<1>2. PICK m \in MatchIds : RightUnder(m)
  BY <1>1 DEF Exact
<1>3. Credited(rows) /\ Summed(rows) /\ LogHas /\ IsFrame(Frame) /\ feed.inn \in 1 .. 2 /\ Frame.score = feed.score
  BY <1>1, LogIs, FrameHas DEF Exact, RowsTyped, FeedIs, FrameFields
<1>4. \A i : LoggedRuns(m, i) = RunsIn(rows, m, i)
  BY DEF LoggedRuns, RunsIn, OverSums
<1>5. AllUnder(m)
  BY <1>2 DEF RightUnder, AllUnder
<1>6. unseen = 0 => RunsIn(rows, m, feed.inn) = feed.score
  <2> SUFFICES ASSUME unseen = 0 PROVE RunsIn(rows, m, feed.inn) = feed.score
    OBVIOUS
  <2>1. Fits(Log, m, Frame, 0)
    BY <1>2 DEF RightUnder
  <2> QED
    BY <1>3, <2>1, AllLogged DEF LogHas
<1>7. feed.inn = 2 => RunsIn(rows, m, 1) = feed.first
  BY <1>2 DEF RightUnder
<1> QED
  BY <1>3, <1>4, <1>5, <1>6, <1>7

(* The record of a match (db.go, LogBallData): for overs, innings and matches of   *)
(* any length, with any polls missed that may be, any one write of a poll refused,   *)
(* the id changed and the server restarted at any time: the balls logged add up to   *)
(* the score when every ball has been seen, and each is credited to its bowler.      *)
THEOREM RecordAlwaysRight == Spec => []RecordIsRight
<1>1. Init => RecordInv /\ HistoryTyped
  BY InitRecordInv DEF Init, HistoryTyped
<1> QED
  BY <1>1, NextRecordInv, ExactIsRight, PTL DEF Spec

-----------------------------------------------------------------------------
(***************************************************************************)
(* OnAir implements Picture, for any number of replays, any lengths and any    *)
(* number of failures and restarts.  The three looks that matter are:          *)
(*                                                                         *)
(*   the replay's end   asks who is newest: that settles it by itself;          *)
(*   the replay watch   trusts playReplayUntil, which only ever grows: each      *)
(*                      replay has less to go than what is left of it (Promised); *)
(*   the break's reel   trusts replayBusyUntil, which the newest promise        *)
(*                      replaces: it covers the replays only where they are all  *)
(*                      as long (Even), and only while the reel has patience.    *)
(***************************************************************************)

Places == {"none", "saving", "ready", "on", "side", "back", "over"}
Goroutine == [at : Places, left : Nat, side : BOOLEAN]

TypeOK ==
    /\ scene \in Scenes /\ sideOn \in BOOLEAN
    /\ rp \in [Replays -> Goroutine]
    /\ latest \in Replays \cup {"none"}
    /\ busy \in Nat /\ meant \in Nat
    /\ reel \in [at : {"off", "lead", "waiting", "clear", "playing", "between"}, left : Nat]

Live(r) == rp[r].at \in {"saving", "ready", "on", "side", "back"}

\* The ticks that a side-on clip adds, and the most a replay has still to go.
More(r) == IF rp[r].side THEN D ELSE 0
Rest(r) == IF At(r, "saving") THEN rp[r].left + D + More(r)
           ELSE IF At(r, "ready") THEN D + More(r)
           ELSE IF At(r, "on") THEN rp[r].left + More(r)
           ELSE IF At(r, "side") THEN rp[r].left ELSE 0

\* A replay at work has less to go than what is left of playReplayUntil.
Promised == \A r \in Replays : Live(r) => Rest(r) < meant

\* One on its way back has an attempt left.
Trying == \A r \in Replays : At(r, "back") => rp[r].left >= 1

IInv == TypeOK /\ Promised /\ Trying

-----------------------------------------------------------------------------
LEMMA RestIsNat == ASSUME Timed, TypeOK, NEW r \in Replays
                   PROVE  Rest(r) \in Nat /\ More(r) \in Nat
  BY DEF Timed, TypeOK, Goroutine, Rest, More, At

LEMMA GoMoves ==
  ASSUME TypeOK, NEW r \in Replays, NEW where \in Places, NEW ticks \in Nat, Go(r, where, ticks)
  PROVE  /\ rp' \in [Replays -> Goroutine]
         /\ rp'[r].at = where /\ rp'[r].left = ticks /\ rp'[r].side = rp[r].side
         /\ \A q \in Replays \ {r} : rp'[q] = rp[q]
  BY DEF TypeOK, Goroutine, Go

LEMMA LeaveMoves ==
  ASSUME TypeOK, NEW r \in Replays, Leave(r)
  PROVE  /\ rp' \in [Replays -> Goroutine]
         /\ rp'[r].at = "over"
         /\ \A q \in Replays \ {r} : rp'[q] = rp[q]
  BY DEF TypeOK, Goroutine, Leave, Done, Places

\* One that stays where it is, goes on, or is over.
Onward(r) == Live(r)' => Live(r) /\ Rest(r)' <= Rest(r) /\ rp'[r].side = rp[r].side

\* A step that leaves the replays to go on, and what they have promised the break show.
Quiet == (\A r \in Replays : Onward(r)) /\ UNCHANGED <<sideOn, busy>>

LEMMA OnwardKeeps ==
  ASSUME Timed, IInv, TypeOK', \A r \in Replays : Onward(r), meant' >= meant
  PROVE  Promised'
<1> SUFFICES ASSUME NEW r \in Replays, Live(r)'
             PROVE  Rest(r)' < meant'
  BY DEF Promised
<1>1. Live(r) /\ Rest(r)' <= Rest(r)
  BY DEF Onward
<1>2. Rest(r) < meant
  BY <1>1 DEF IInv, Promised
<1>3. Rest(r) \in Nat /\ Rest(r)' \in Nat /\ meant \in Nat /\ meant' \in Nat
  <2>1. Rest(r) \in Nat
    BY RestIsNat DEF IInv
  <2>2. Rest(r)' \in Nat
    BY DEF Timed, TypeOK, Goroutine, Rest, More, At
  <2> QED
    BY <2>1, <2>2 DEF IInv, TypeOK
<1> QED
  BY <1>1, <1>2, <1>3

LEMMA StillOnward ==
  ASSUME Timed, TypeOK, NEW r \in Replays, rp'[r] = rp[r]
  PROVE  Onward(r)
<1>1. Rest(r)' = Rest(r) /\ (Live(r)' <=> Live(r))
  BY DEF Rest, More, At, Live
<1> QED
  BY <1>1, RestIsNat DEF Onward

LEMMA SameReplays ==
  ASSUME Timed, IInv, TypeOK', rp' = rp, meant' >= meant, UNCHANGED <<sideOn, busy>>
  PROVE  IInv' /\ Quiet
<1>1. \A r \in Replays : Onward(r)
  BY StillOnward DEF IInv
<1>2. Trying'
  BY DEF IInv, Trying, At
<1> QED
  BY <1>1, <1>2, OnwardKeeps DEF IInv, Quiet

-----------------------------------------------------------------------------
(* Each step keeps the invariant.                                             *)

LEMMA CutKeeps ==
  ASSUME TypeOK, NEW who, NEW to \in Scenes, NEW ok, Cut(who, to, ok)
  PROVE  scene' \in Scenes
  BY DEF TypeOK, Cut

LEMMA ReplayKeeps ==
  ASSUME Timed, IInv, NEW r \in Replays, Replay(r)
  PROVE  IInv' /\ Quiet
<1> USE DEF IInv
<1>0. UNCHANGED <<sideOn, busy, meant, reel>>
  BY DEF Replay, NoClip, ClipFound, TakePicture, SideClip, LeaveOrReturn, ReturnToMain, Thread,
         clocks, show
<1> SUFFICES /\ scene' \in Scenes /\ rp' \in [Replays -> Goroutine]
             /\ latest' \in Replays \cup {"none"}
             /\ Onward(r) /\ (At(r, "back")' => rp'[r].left >= 1)
             /\ \A q \in Replays \ {r} : rp'[q] = rp[q]
  <2>1. TypeOK'
    BY <1>0 DEF TypeOK
  <2>2. \A q \in Replays : Onward(q)
    BY StillOnward
  <2>3. Trying'
    BY DEF Trying, At
  <2> QED
    BY <1>0, <2>1, <2>2, <2>3, OnwardKeeps DEF TypeOK, Quiet
<1>1. CASE NoClip(r)
  <2>1. Leave(r) /\ UNCHANGED <<scene, latest>>
    BY <1>1 DEF NoClip
  <2> QED
    BY <2>1, LeaveMoves DEF Onward, Live, TypeOK, At
<1>2. CASE ClipFound(r)
  <2>1. At(r, "saving") /\ Go(r, "ready", 0) /\ latest' = r /\ UNCHANGED scene
    BY <1>2 DEF ClipFound
  <2>2. /\ rp' \in [Replays -> Goroutine] /\ rp'[r].at = "ready" /\ rp'[r].side = rp[r].side
        /\ \A q \in Replays \ {r} : rp'[q] = rp[q]
    BY <2>1, GoMoves DEF Places
  <2>3. Onward(r)
    BY <2>1, <2>2 DEF Onward, Live, Rest, More, At, Timed, TypeOK, Goroutine
  <2> QED
    BY <2>1, <2>2, <2>3 DEF TypeOK, At
<1>3. CASE TakePicture(r)
  <2>1. At(r, "ready") /\ Go(r, "on", D) /\ UNCHANGED latest /\ \E ok \in BOOLEAN : Cut(r, "replay", ok)
    BY <1>3 DEF TakePicture
  <2>2. /\ rp' \in [Replays -> Goroutine] /\ rp'[r].at = "on" /\ rp'[r].side = rp[r].side
        /\ rp'[r].left = D /\ \A q \in Replays \ {r} : rp'[q] = rp[q]
    BY <2>1, GoMoves DEF Places, Timed
  <2>3. Onward(r)
    BY <2>1, <2>2 DEF Onward, Live, Rest, More, At, Timed, TypeOK, Goroutine
  <2> QED
    BY <2>1, <2>2, <2>3, CutKeeps DEF TypeOK, Scenes, At
<1>4. CASE SideClip(r)
  <2>1. /\ At(r, "on") /\ rp[r].left = 0 /\ rp[r].side /\ UNCHANGED <<scene, latest>>
        /\ \E length \in {0, D} : Go(r, "side", length)
    BY <1>4 DEF SideClip
  <2>2. PICK length \in {0, D} : Go(r, "side", length)
    BY <2>1
  <2>3. /\ rp' \in [Replays -> Goroutine] /\ rp'[r].at = "side" /\ rp'[r].left = length
        /\ rp'[r].side = rp[r].side
        /\ \A q \in Replays \ {r} : rp'[q] = rp[q]
    BY <2>2, GoMoves DEF Places, Timed
  <2>4. Onward(r)
    <3>1. Rest(r)' = length /\ Live(r)
      BY <2>1, <2>3 DEF Rest, Live, At
    <3>2. More(r) = D
      BY <2>1 DEF More
    <3>3. Rest(r) = D
      BY <2>1, <3>2 DEF Rest, Timed, At
    <3> QED
      BY <2>3, <3>1, <3>3 DEF Onward, Timed
  <2> QED
    BY <2>1, <2>3, <2>4 DEF TypeOK, At
<1>5. CASE LeaveOrReturn(r)
  <2>1. Played(r) /\ UNCHANGED <<scene, latest>> /\ (Leave(r) \/ Go(r, "back", Attempts))
    BY <1>5 DEF LeaveOrReturn
  <2>2. CASE Leave(r)
    BY <2>1, <2>2, LeaveMoves DEF Onward, Live, TypeOK, At
  <2>3. CASE Go(r, "back", Attempts)
    <3>1. /\ rp' \in [Replays -> Goroutine] /\ rp'[r].at = "back" /\ rp'[r].left = Attempts
          /\ rp'[r].side = rp[r].side
          /\ \A q \in Replays \ {r} : rp'[q] = rp[q]
      BY <2>3, GoMoves DEF Places, Timed
    <3>2. Rest(r)' = 0 /\ Live(r)
      BY <2>1, <3>1 DEF Rest, Live, Played, At
    <3>3. Onward(r)
      BY <3>1, <3>2, RestIsNat DEF Onward
    <3> QED
      BY <2>1, <3>1, <3>3 DEF TypeOK, At, Timed
  <2> QED
    BY <2>1, <2>2, <2>3
<1>6. CASE ReturnToMain(r)
  <2>1. At(r, "back") /\ UNCHANGED latest
    BY <1>6 DEF ReturnToMain
  <2>2. PICK ok \in BOOLEAN : /\ Cut(r, "main", ok)
                              /\ IF ok \/ rp[r].left = 1 THEN Leave(r) ELSE Go(r, "back", rp[r].left - 1)
    BY <1>6 DEF ReturnToMain
  <2>3. CASE Leave(r)
    BY <2>1, <2>2, <2>3, LeaveMoves, CutKeeps DEF Onward, Live, TypeOK, Scenes, At
  <2>4. CASE Go(r, "back", rp[r].left - 1) /\ rp[r].left # 1
    <3>1. rp[r].left - 1 \in Nat /\ ((rp[r].left = 1) \/ rp[r].left - 1 >= 1)
      BY <2>1 DEF Trying, TypeOK, Goroutine
    <3>2. /\ rp' \in [Replays -> Goroutine] /\ rp'[r].at = "back" /\ rp'[r].left = rp[r].left - 1
          /\ rp'[r].side = rp[r].side
          /\ \A q \in Replays \ {r} : rp'[q] = rp[q]
      BY <2>4, <3>1, GoMoves DEF Places
    <3>3. Onward(r)
      BY <2>1, <3>2, RestIsNat DEF Onward, Rest, Live, At
    <3> QED
      BY <2>1, <2>2, <2>4, <3>1, <3>2, <3>3, CutKeeps DEF TypeOK, Scenes, At
  <2> QED
    BY <2>2, <2>3, <2>4
<1> QED
  BY <1>1, <1>2, <1>3, <1>4, <1>5, <1>6 DEF Replay

(* A promise covers the saving, the clip and camera 2's, and only ever grows.  *)
LEMMA TriggerKeeps ==
  ASSUME Timed, IInv, NEW r \in Replays, Trigger(r)
  PROVE  IInv'
<1> USE DEF IInv
<1>1. PICK reason \in Reasons :
        LET side == sideOn /\ reason = "Wicket" IN
        /\ rp' = [rp EXCEPT ![r] = [at |-> "saving", left |-> Save, side |-> side]]
        /\ meant' = Larger(meant, Promise(side)) /\ busy' = Promise(side)
  BY DEF Trigger
<1> DEFINE side == sideOn /\ reason = "Wicket"
<1>2. UNCHANGED <<scene, sideOn, latest, reel>>
  BY DEF Trigger, show
<1>3. side \in BOOLEAN
  BY DEF TypeOK
<1>4. Promise(side) \in Nat /\ Promise(side) = (IF side THEN 2 * D ELSE D) + Slack
  BY DEF Promise, Timed
<1>5. meant' = Larger(meant, Promise(side)) /\ busy' = Promise(side)
  BY <1>1
<1>6. meant' \in Nat /\ meant' >= meant /\ meant' >= Promise(side)
  BY <1>4, <1>5 DEF Larger, TypeOK
<1>7. rp' = [rp EXCEPT ![r] = [at |-> "saving", left |-> Save, side |-> side]]
  BY <1>1
<1> HIDE DEF side
<1>8. rp'[r] = [at |-> "saving", left |-> Save, side |-> side]
  BY <1>7 DEF TypeOK
<1>9. \A q \in Replays \ {r} : rp'[q] = rp[q]
  BY <1>7 DEF TypeOK
<1>10. [at |-> "saving", left |-> Save, side |-> side] \in Goroutine
  BY <1>3 DEF Goroutine, Places, Timed
<1>11. rp' \in [Replays -> Goroutine]
  BY <1>7, <1>10 DEF TypeOK
<1>12. TypeOK'
  BY <1>2, <1>4, <1>5, <1>6, <1>11 DEF TypeOK
<1>13. rp'[r].at = "saving" /\ rp'[r].left = Save /\ rp'[r].side = side
  BY <1>8
<1>14. More(r)' = IF side THEN D ELSE 0
  BY <1>13 DEF More
<1>15. Rest(r)' = Save + D + More(r)'
  BY <1>13 DEF Rest, At
<1>16. Rest(r)' < meant'
  BY <1>4, <1>6, <1>14, <1>15 DEF Timed
<1>17. \A q \in Replays \ {r} : Rest(q)' = Rest(q) /\ (Live(q)' <=> Live(q))
  BY <1>9 DEF Rest, More, Live, At
<1>18. \A q \in Replays : Rest(q) \in Nat
  BY RestIsNat
<1>19. \A q \in Replays \ {r} : Live(q)' => Rest(q)' < meant'
  BY <1>6, <1>17, <1>18 DEF Promised, TypeOK
<1>20. Promised'
  BY <1>16, <1>19 DEF Promised
<1>21. Trying'
  BY <1>9, <1>13 DEF Trying, At
<1> QED
  BY <1>12, <1>20, <1>21

(* Nobody sleeps with nothing left to sleep for: a tick shortens what a replay has to go as     *)
(* it shortens the promise.                                                                   *)
LEMMA TickKeeps ==
  ASSUME Timed, IInv, Tick
  PROVE  IInv'
<1> USE DEF IInv
<1>1. /\ NothingDue
      /\ rp' = [r \in Replays |-> [rp[r] EXCEPT !.left = Less(@)]]
      /\ reel' = [reel EXCEPT !.left = Less(@)]
      /\ busy' = Less(busy) /\ meant' = Less(meant)
      /\ UNCHANGED <<scene, sideOn, latest>>
  BY DEF Tick
<1>2. \A n \in Nat : Less(n) \in Nat /\ (n > 0 => Less(n) = n - 1) /\ (n = 0 => Less(n) = 0)
  BY DEF Less
<1>3. \A r \in Replays : /\ rp'[r] \in Goroutine /\ rp'[r].at = rp[r].at
                         /\ rp'[r].left = Less(rp[r].left) /\ rp'[r].side = rp[r].side
  BY <1>1, <1>2 DEF TypeOK, Goroutine
<1>4. rp' \in [Replays -> Goroutine]
  BY <1>1, <1>3
<1>5. reel' \in [at : {"off", "lead", "waiting", "clear", "playing", "between"}, left : Nat]
  BY <1>1, <1>2 DEF TypeOK
<1>6. TypeOK'
  BY <1>1, <1>2, <1>4, <1>5 DEF TypeOK
<1>7. ASSUME NEW r \in Replays, Live(r)' PROVE Rest(r)' < meant'
  <2>1. rp[r].at \in {"saving", "on", "side"} /\ rp[r].left > 0
    BY <1>1, <1>3, <1>7 DEF NothingDue, Sleeping, Live
  <2>2. Live(r) /\ Rest(r) < meant
    BY <2>1 DEF Live, Promised
  <2>3. rp[r].left \in Nat /\ rp'[r].left = rp[r].left - 1
    BY <1>2, <1>3, <2>1 DEF TypeOK, Goroutine
  <2>4. More(r) \in Nat /\ Rest(r) \in Nat /\ More(r)' = More(r)
    BY <1>3, RestIsNat DEF More
  <2>5. Rest(r)' = Rest(r) - 1
    BY <1>3, <2>1, <2>3, <2>4 DEF Rest, At, Timed
  <2>6. meant' = meant - 1 /\ meant \in Nat
    BY <1>1, <1>2, <2>2, <2>4 DEF TypeOK
  <2> QED
    BY <2>2, <2>4, <2>5, <2>6
<1>8. Trying'
  BY <1>1, <1>3 DEF Trying, At, NothingDue, Sleeping
<1> QED
  BY <1>6, <1>7, <1>8 DEF Promised

LEMMA CameraKeeps ==
  ASSUME Timed, IInv, HoldCut \/ CutByHand \/ PlayRestarts \/ AskScene \/ CutBack
  PROVE  IInv' /\ Quiet
<1> USE DEF IInv
<1>1. UNCHANGED <<sideOn, rp, latest, busy, meant, reel>>
  BY DEF HoldCut, CutByHand, PlayRestarts, AskScene, CutBack, Camera, thread, clocks, show
<1>2. scene' \in Scenes
  BY CutKeeps DEF HoldCut, CutByHand, PlayRestarts, AskScene, CutBack, TypeOK, Scenes
<1>3. TypeOK'
  BY <1>1, <1>2 DEF TypeOK
<1> QED
  BY <1>1, <1>3, SameReplays DEF TypeOK

LEMMA ShowKeeps ==
  ASSUME Timed, IInv, StartBreak \/ EndBreak \/ ReelStep
  PROVE  IInv' /\ Quiet
<1> USE DEF IInv
<1>1. UNCHANGED <<sideOn, rp, latest, busy>>
  BY DEF StartBreak, EndBreak, ReelStep, ReelWaits, NoClips, ReelGoesOn, ShowClip, ClipEnds,
         InReel, thread, clocks
<1>2. scene' \in Scenes
  BY CutKeeps DEF StartBreak, EndBreak, ReelStep, ReelWaits, NoClips, ReelGoesOn, ShowClip, ClipEnds,
                  TypeOK, Scenes
<1>3. meant' \in Nat /\ meant' >= meant
  BY DEF StartBreak, EndBreak, ReelStep, ReelWaits, NoClips, ReelGoesOn, ShowClip, ClipEnds,
         clocks, Larger, Timed, TypeOK
<1>4. reel' \in [at : {"off", "lead", "waiting", "clear", "playing", "between"}, left : Nat]
  BY DEF StartBreak, EndBreak, ReelStep, ReelWaits, NoClips, ReelGoesOn, ShowClip, ClipEnds,
         Reel, Silent, Timed, TypeOK
<1>5. TypeOK'
  BY <1>1, <1>2, <1>3, <1>4 DEF TypeOK
<1> QED
  BY <1>1, <1>3, <1>5, SameReplays

LEMMA WatchKeeps ==
  ASSUME Timed, IInv, LookAtOBS \/ WatchCuts
  PROVE  IInv' /\ Quiet
<1> USE DEF IInv
<1>1. UNCHANGED <<sideOn, rp, latest, busy, meant, reel>>
  BY DEF LookAtOBS, WatchCuts, Watching, thread, clocks, show
<1>2. scene' \in Scenes
  BY CutKeeps DEF LookAtOBS, WatchCuts, TypeOK, Scenes
<1>3. TypeOK'
  BY <1>1, <1>2 DEF TypeOK
<1> QED
  BY <1>1, <1>3, SameReplays DEF TypeOK

LEMMA RestartKeeps ==
  ASSUME Timed, IInv, ServerRestarts
  PROVE  IInv'
<1> USE DEF IInv
<1>1. /\ rp' = [r \in Replays |-> IF At(r, "none") THEN rp[r] ELSE Done]
      /\ latest' = "none" /\ busy' = 0 /\ meant' = 0 /\ reel' = Silent
      /\ UNCHANGED <<scene, sideOn>>
  BY DEF ServerRestarts
<1>2. Done \in Goroutine
  BY DEF Done, Goroutine, Places
<1>3. rp' \in [Replays -> Goroutine]
  BY <1>1, <1>2 DEF TypeOK
<1>4. \A r \in Replays : rp'[r].at \in {"none", "over"}
  BY <1>1 DEF At, Done
<1>5. TypeOK'
  BY <1>1, <1>3 DEF TypeOK, Silent
<1>6. Promised' /\ Trying'
  BY <1>4 DEF Promised, Trying, Live, At
<1> QED
  BY <1>5, <1>6

LEMMA InitIInv == ASSUME Timed, AirInit PROVE IInv
<1>1. TypeOK
  BY DEF AirInit, TypeOK, Goroutine, Places, Scenes, Silent
<1>2. \A r \in Replays : rp[r].at = "none"
  BY DEF AirInit
<1> QED
  BY <1>1, <1>2 DEF IInv, Promised, Trying, Live, At

LEMMA NextKeeps == ASSUME Timed, IInv, [AirNext]_air PROVE IInv'
<1>1. CASE UNCHANGED air
  <2>1. UNCHANGED <<scene, sideOn, rp, latest, busy, meant, reel>>
    BY <1>1 DEF air, thread, clocks, show
  <2>2. TypeOK'
    BY <2>1 DEF IInv, TypeOK
  <2> QED
    BY <2>1, <2>2, SameReplays DEF IInv, TypeOK
<1> QED
  BY <1>1, ReplayKeeps, TriggerKeeps, TickKeeps, CameraKeeps, ShowKeeps, WatchKeeps, RestartKeeps
     DEF AirNext, Program, People

(* The inductive invariant of the replays' goroutines and what they have promised              *)
(* (noteReplay), whatever the kinds of replay.                                                *)
THEOREM Invariant == ASSUME Timed PROVE AirSpec => []IInv
<1>1. AirInit => IInv
  BY InitIInv
<1>2. IInv /\ [AirNext]_air => IInv'
  BY NextKeeps
<1> QED
  BY <1>1, <1>2, PTL DEF AirSpec

-----------------------------------------------------------------------------
(* What the break show has been promised (replayBusyUntil).  The newest promise replaces the   *)
(* one before, so it covers every replay only where they are all as long.                     *)

\* All replays have, or have not, camera 2's clip as well.
Alike == \A r \in Replays : Live(r) => (rp[r].side <=> sideOn /\ "Wicket" \in Reasons)
\* None has more to go than it began with.
Measured == \A r \in Replays : Live(r) => Rest(r) <= Save + D + More(r)
\* Each has less to go than what is left of replayBusyUntil.
Covered == \A r \in Replays : Live(r) => Rest(r) < busy

Even == Alike /\ Measured /\ Covered

LEMMA QuietEven ==
  ASSUME Timed, IInv, IInv', Even, Quiet
  PROVE  Even'
<1> USE DEF Even, IInv
<1> SUFFICES ASSUME NEW r \in Replays, Live(r)'
             PROVE  /\ rp'[r].side <=> sideOn' /\ "Wicket" \in Reasons
                    /\ Rest(r)' <= Save + D + More(r)' /\ Rest(r)' < busy'
  BY DEF Alike, Measured, Covered
<1>1. Live(r) /\ Rest(r)' <= Rest(r) /\ rp'[r].side = rp[r].side /\ UNCHANGED <<sideOn, busy>>
  BY DEF Quiet, Onward
<1>2. rp[r].side <=> sideOn /\ "Wicket" \in Reasons
  BY <1>1 DEF Alike
<1>3. More(r)' = More(r) /\ More(r) \in Nat /\ Rest(r) \in Nat
  BY <1>1, RestIsNat DEF More
<1>4. Rest(r)' \in Nat
  <2>1. TypeOK'
    OBVIOUS
  <2> QED
    BY <2>1 DEF Timed, TypeOK, Goroutine, Rest, More, At
<1>5. Rest(r) <= Save + D + More(r) /\ Rest(r) < busy
  BY <1>1 DEF Measured, Covered
<1>6. Rest(r)' <= Save + D + More(r)' /\ Rest(r)' < busy'
  BY <1>1, <1>3, <1>4, <1>5 DEF Timed, TypeOK
<1> QED
  BY <1>1, <1>2, <1>6

LEMMA TriggerEven ==
  ASSUME Timed, OneLength, IInv, Even, NEW r \in Replays, Trigger(r)
  PROVE  Even'
<1> USE DEF IInv, Even
<1>1. PICK reason \in Reasons :
        LET side == sideOn /\ reason = "Wicket" IN
        /\ rp' = [rp EXCEPT ![r] = [at |-> "saving", left |-> Save, side |-> side]]
        /\ busy' = Promise(side)
  BY DEF Trigger
<1> DEFINE side == sideOn /\ reason = "Wicket"
<1>2. UNCHANGED sideOn /\ (side <=> sideOn /\ "Wicket" \in Reasons)
  BY DEF Trigger, OneLength
<1>3. rp' = [rp EXCEPT ![r] = [at |-> "saving", left |-> Save, side |-> side]]
      /\ busy' = Promise(side) /\ side \in BOOLEAN
  BY <1>1 DEF TypeOK
<1> HIDE DEF side
<1>4. rp'[r].at = "saving" /\ rp'[r].left = Save /\ rp'[r].side = side
  BY <1>3 DEF TypeOK
<1>5. \A q \in Replays \ {r} : rp'[q] = rp[q]
  BY <1>3 DEF TypeOK
<1>6. busy' = (IF side THEN 2 * D ELSE D) + Slack
  BY <1>3 DEF Promise
<1>7. Alike'
  BY <1>2, <1>4, <1>5 DEF Alike, Live
<1>8. \A q \in Replays \ {r} : Rest(q)' = Rest(q) /\ More(q)' = More(q) /\ (Live(q)' <=> Live(q))
  BY <1>5 DEF Rest, More, Live, At
<1>9. \A q \in Replays : Rest(q) \in Nat /\ More(q) \in Nat
  BY RestIsNat
<1>10. More(r)' = (IF side THEN D ELSE 0) /\ Rest(r)' = Save + D + More(r)'
  BY <1>4 DEF More, Rest, At
<1>11. Measured'
  <2>1. Rest(r)' <= Save + D + More(r)'
    BY <1>10 DEF Timed
  <2> QED
    BY <1>8, <2>1 DEF Measured
<1>12. ASSUME NEW q \in Replays, Live(q)' PROVE Rest(q)' < busy'
  <2>1. CASE q = r
    BY <1>6, <1>10, <2>1 DEF Timed
  <2>2. CASE q # r
    <3>1. Rest(q)' = Rest(q) /\ Live(q)
      BY <1>8, <1>12, <2>2
    <3>2. More(q) = IF side THEN D ELSE 0
      BY <1>2, <3>1 DEF Alike, More
    <3>3. Rest(q) <= Save + D + More(q)
      BY <3>1 DEF Measured
    <3> QED
      BY <1>6, <1>9, <3>1, <3>2, <3>3 DEF Timed
  <2> QED
    BY <2>1, <2>2
<1> QED
  BY <1>7, <1>11, <1>12 DEF Covered

LEMMA TickEven ==
  ASSUME Timed, IInv, Even, Tick
  PROVE  Even'
<1> USE DEF IInv, Even
<1>1. /\ NothingDue
      /\ rp' = [r \in Replays |-> [rp[r] EXCEPT !.left = Less(@)]]
      /\ busy' = Less(busy) /\ UNCHANGED sideOn
  BY DEF Tick
<1>2. \A r \in Replays : /\ rp'[r].at = rp[r].at
                         /\ rp'[r].left = Less(rp[r].left) /\ rp'[r].side = rp[r].side
  BY <1>1 DEF TypeOK, Goroutine
<1>3. ASSUME NEW r \in Replays, Live(r)'
      PROVE  /\ rp'[r].side <=> sideOn' /\ "Wicket" \in Reasons
             /\ Rest(r)' <= Save + D + More(r)' /\ Rest(r)' < busy'
  <2>1. rp[r].at \in {"saving", "on", "side"} /\ rp[r].left > 0
    BY <1>1, <1>2, <1>3 DEF NothingDue, Sleeping, Live
  <2>2. Live(r)
    BY <2>1 DEF Live
  <2>3. rp[r].left \in Nat /\ rp'[r].left = rp[r].left - 1
    BY <1>2, <2>1 DEF TypeOK, Goroutine, Less
  <2>4. More(r) \in Nat /\ Rest(r) \in Nat /\ More(r)' = More(r)
    BY <1>2, RestIsNat DEF More
  <2>5. Rest(r)' = Rest(r) - 1
    BY <1>2, <2>1, <2>3, <2>4 DEF Rest, At, Timed
  <2>6. Rest(r) <= Save + D + More(r) /\ Rest(r) < busy
    BY <2>2 DEF Measured, Covered
  <2>7. busy' = busy - 1 /\ busy \in Nat
    BY <1>1, <2>4, <2>6 DEF TypeOK, Less
  <2>8. rp'[r].side <=> sideOn' /\ "Wicket" \in Reasons
    BY <1>1, <1>2, <2>2 DEF Alike
  <2>9. Rest(r)' <= Save + D + More(r)' /\ Rest(r)' < busy'
    BY <2>4, <2>5, <2>6, <2>7 DEF Timed
  <2> QED
    BY <2>8, <2>9
<1> QED
  BY <1>3 DEF Alike, Measured, Covered

LEMMA NextEven ==
  ASSUME Timed, OneLength, IInv, Even, [AirNext]_air
  PROVE  Even'
<1>0. IInv'
  BY NextKeeps
<1>1. CASE UNCHANGED air
  <2>1. Quiet
    BY <1>1, StillOnward DEF air, thread, clocks, Quiet, IInv
  <2> QED
    BY <1>0, <2>1, QuietEven
<1>2. CASE ServerRestarts
  <2>1. \A r \in Replays : ~Live(r)'
    BY <1>2 DEF ServerRestarts, Live, At, Done
  <2> QED
    BY <2>1 DEF Even, Alike, Measured, Covered
<1> QED
  BY <1>0, <1>1, <1>2, QuietEven, TriggerEven, TickEven, ReplayKeeps, CameraKeeps, ShowKeeps,
     WatchKeeps DEF AirNext, Program, People

LEMMA NothingOn ==
  ASSUME Timed, IInv, Even, busy = 0
  PROVE  Claim = "none"
<1>1. \A r \in Replays : ~Live(r)
  BY RestIsNat DEF IInv, Even, Covered, TypeOK
<1> QED
  BY <1>1 DEF Claim, Live, IInv, TypeOK

(* The replay watch, and the quality ladder, which ask only whether a promise is still on: they *)
(* find no replay that is at work, however long each is.                                      *)
LEMMA NothingMeant ==
  ASSUME Timed, IInv, meant = 0
  PROVE  Claim = "none"
<1>1. \A r \in Replays : ~Live(r)
  BY RestIsNat DEF IInv, Promised, TypeOK
<1> QED
  BY <1>1 DEF Claim, Live, IInv, TypeOK

(* The replay watch strikes (replaywatch.go), and the quality ladder steps, only when no        *)
(* promise is left: then no replay is at work on the Replay scene, whatever replays were asked  *)
(* for, failed or were cut off by a restart.                                                  *)
THEOREM NoPromiseNoReplay == ASSUME Timed PROVE AirSpec => [](meant = 0 => Claim = "none")
<1>1. IInv => (meant = 0 => Claim = "none")
  BY NothingMeant
<1> QED
  BY <1>1, Invariant, PTL

-----------------------------------------------------------------------------
(* Each step is one of Picture's.                                              *)

OnScreen(r) == rp[r].at \in {"on", "side", "back"}

LEMMA LookedIs ==
  ASSUME NamesApart
  PROVE  /\ \A r \in Replays : r \in Looked <=> At(r, "back")
         /\ "hold" \in Looked <=> back = "cutting"
         /\ "reel" \in Looked <=> reel.at \in {"clear", "playing"}
         /\ "watch" \in Looked <=> watch = "cutting"
         /\ Looked \subseteq Replays \cup {"hold", "reel", "watch"}
  BY DEF NamesApart, Looked

LEMMA SameLooks ==
  ASSUME NamesApart, UNCHANGED <<back, watch>>,
         reel'.at \in {"clear", "playing"} <=> reel.at \in {"clear", "playing"},
         \A r \in Replays : At(r, "back")' <=> At(r, "back")
  PROVE  Looked' = Looked
  BY DEF Looked

LEMMA SameClaim ==
  ASSUME IInv, UNCHANGED <<scene, cutBy, latest>>,
         latest \in Replays => (OnScreen(latest)' <=> OnScreen(latest))
  PROVE  Claim' = Claim
  BY DEF Claim, OnScreen, IInv, TypeOK

LEMMA NoClaim ==
  ASSUME NamesApart, scene # "replay" \/ cutBy \notin Replays
  PROVE  Claim = "none"
  BY DEF Claim

LEMMA ReplayRefines ==
  ASSUME Timed, NamesApart, IInv, NEW r \in Replays, Replay(r)
  PROVE  [P!Next]_(P!picture)
<1> USE DEF IInv
<1>0. UNCHANGED <<back, watch, reel>> /\ IInv' /\ r \notin {"none", "hold", "reel", "watch"}
  BY ReplayKeeps DEF Replay, NoClip, ClipFound, TakePicture, SideClip, LeaveOrReturn, ReturnToMain,
         Thread, camera, show, watching, NamesApart
<1>1. CASE NoClip(r)
  <2>1. At(r, "saving") /\ Leave(r) /\ UNCHANGED <<scene, cutBy, latest>>
    BY <1>1 DEF NoClip
  <2>2. rp'[r].at = "over" /\ \A q \in Replays \ {r} : rp'[q] = rp[q]
    BY <2>1, LeaveMoves
  <2>3. \A q \in Replays : At(q, "back")' <=> At(q, "back")
    BY <2>1, <2>2 DEF At
  <2>4. \A q \in Replays : OnScreen(q)' <=> OnScreen(q)
    BY <2>1, <2>2 DEF At, OnScreen
  <2>5. Looked' = Looked /\ Claim' = Claim
    BY <1>0, <2>1, <2>3, <2>4, SameLooks, SameClaim
  <2> QED
    BY <2>1, <2>5 DEF P!picture
<1>2. CASE ClipFound(r)
  <2>1. At(r, "saving") /\ Go(r, "ready", 0) /\ latest' = r /\ UNCHANGED <<scene, cutBy>>
    BY <1>2 DEF ClipFound
  <2>2. rp'[r].at = "ready" /\ \A q \in Replays \ {r} : rp'[q] = rp[q]
    BY <2>1, GoMoves DEF Places
  <2>3. \A q \in Replays : At(q, "back")' <=> At(q, "back")
    BY <2>1, <2>2 DEF At
  <2>4. Looked' = Looked /\ Claim' = "none"
    BY <1>0, <2>1, <2>2, <2>3, SameLooks DEF Claim
  <2>5. P!Forget
    BY <2>1, <2>4 DEF P!Forget
  <2> QED
    BY <2>5 DEF P!Next
<1>3. CASE TakePicture(r)
  <2>1. At(r, "ready") /\ Go(r, "on", D) /\ UNCHANGED latest
    BY <1>3 DEF TakePicture
  <2>2. PICK ok \in BOOLEAN : Cut(r, "replay", ok)
    BY <1>3 DEF TakePicture
  <2>3. rp'[r].at = "on" /\ \A q \in Replays \ {r} : rp'[q] = rp[q]
    BY <2>1, GoMoves DEF Places, Timed
  <2>4. \A q \in Replays : At(q, "back")' <=> At(q, "back")
    BY <2>1, <2>3 DEF At
  <2>5. Looked' = Looked
    BY <1>0, <2>4, SameLooks
  <2>6. (scene' = "replay" /\ cutBy' = r) \/ UNCHANGED <<scene, cutBy>>
    BY <2>2 DEF Cut
  <2>7. Claim' \in Replays \cup {Claim}
    <3>1. \A q \in Replays : OnScreen(q) => OnScreen(q)'
      BY <2>3 DEF OnScreen
    <3>2. Claim # "none" => Claim' = Claim
      BY <2>1, <2>6, <3>1 DEF Claim, OnScreen, TypeOK
    <3>3. Claim' \in Replays \cup {"none"}
      BY <1>0 DEF Claim, TypeOK
    <3> QED
      BY <3>2, <3>3
  <2>8. CASE scene' = "replay"
    <3>1. P!Take(r)
      BY <2>5, <2>6, <2>7, <2>8 DEF P!Take
    <3> QED
      BY <3>1 DEF P!Next
  <2>9. CASE scene' # "replay"
    <3>1. UNCHANGED <<scene, cutBy>>
      BY <2>6, <2>9
    <3>2. Claim' = "none" /\ Claim = "none"
      BY <2>9, <3>1 DEF Claim
    <3> QED
      BY <2>5, <3>1, <3>2 DEF P!picture
  <2> QED
    BY <2>8, <2>9
<1>4. CASE SideClip(r)
  <2>1. At(r, "on") /\ UNCHANGED <<scene, cutBy, latest>>
    BY <1>4 DEF SideClip
  <2>2. PICK length \in {0, D} : Go(r, "side", length)
    BY <1>4 DEF SideClip
  <2>3. rp'[r].at = "side" /\ \A q \in Replays \ {r} : rp'[q] = rp[q]
    BY <2>2, GoMoves DEF Places, Timed
  <2>4. \A q \in Replays : At(q, "back")' <=> At(q, "back")
    BY <2>1, <2>3 DEF At
  <2>5. \A q \in Replays : OnScreen(q)' <=> OnScreen(q)
    BY <2>1, <2>3 DEF At, OnScreen
  <2>6. Looked' = Looked /\ Claim' = Claim
    BY <1>0, <2>1, <2>4, <2>5, SameLooks, SameClaim
  <2> QED
    BY <2>1, <2>6 DEF P!picture
<1>5. CASE LeaveOrReturn(r)
  <2>1. rp[r].at \in {"on", "side"} /\ UNCHANGED <<scene, cutBy, latest>>
    BY <1>5 DEF LeaveOrReturn, Played, At
  <2>2. CASE latest = r
    <3>1. Go(r, "back", Attempts)
      BY <1>5, <2>2 DEF LeaveOrReturn
    <3>2. rp'[r].at = "back" /\ \A q \in Replays \ {r} : rp'[q] = rp[q]
      BY <3>1, GoMoves DEF Places, Timed
    <3>3. \A q \in Replays : OnScreen(q)' <=> OnScreen(q)
      BY <2>1, <3>2 DEF OnScreen
    <3>4. Claim' = Claim /\ Claim \in {"none", r}
      BY <2>1, <2>2, <3>3, SameClaim DEF Claim
    <3>5. Looked' = Looked \cup {r}
      BY <1>0, <2>1, <3>2 DEF Looked, At
    <3>6. P!Look(r)
      BY <2>1, <3>4, <3>5 DEF P!Look, P!Free
    <3> QED
      BY <3>6 DEF P!Next
  <2>3. CASE latest # r
    <3>1. Leave(r)
      BY <1>5, <2>3 DEF LeaveOrReturn
    <3>2. rp'[r].at = "over" /\ \A q \in Replays \ {r} : rp'[q] = rp[q]
      BY <3>1, LeaveMoves
    <3>3. \A q \in Replays : At(q, "back")' <=> At(q, "back")
      BY <2>1, <3>2 DEF At
    <3>4. latest \in Replays => (OnScreen(latest)' <=> OnScreen(latest))
      BY <2>1, <2>3, <3>2 DEF OnScreen
    <3>5. Looked' = Looked /\ Claim' = Claim
      BY <1>0, <2>1, <3>3, <3>4, SameLooks, SameClaim
    <3> QED
      BY <2>1, <3>5 DEF P!picture
  <2> QED
    BY <2>2, <2>3
<1>6. CASE ReturnToMain(r)
  <2>1. At(r, "back") /\ UNCHANGED latest
    BY <1>6 DEF ReturnToMain
  <2>2. PICK ok \in BOOLEAN : /\ Cut(r, "main", ok)
                              /\ IF ok \/ rp[r].left = 1 THEN Leave(r) ELSE Go(r, "back", rp[r].left - 1)
    BY <1>6 DEF ReturnToMain
  <2>3. /\ rp'[r].at \in {"over", "back"}
        /\ \A q \in Replays \ {r} : rp'[q] = rp[q]
    <3>1. CASE Leave(r)
      BY <3>1, LeaveMoves
    <3>2. CASE Go(r, "back", rp[r].left - 1) /\ rp[r].left # 1
      <4>1. rp[r].left - 1 \in Nat
        BY <2>1 DEF Trying, TypeOK, Goroutine
      <4> QED
        BY <3>2, <4>1, GoMoves DEF Places
    <3> QED
      BY <2>2, <3>1, <3>2
  <2>4. r \in Looked /\ Looked' \in {Looked, Looked \ {r}}
    BY <1>0, <2>1, <2>3 DEF Looked, At
  <2>5. CASE scene' = "main" /\ cutBy' = r
    <3>1. Claim' = "none"
      BY <2>5 DEF Claim
    <3>2. P!Move(r)
      BY <2>4, <2>5, <3>1 DEF P!Move, Scenes
    <3> QED
      BY <3>2 DEF P!Next
  <2>6. CASE UNCHANGED <<scene, cutBy>>
    <3>0. \A q \in Replays : OnScreen(q)' => OnScreen(q)
      BY <2>1, <2>3 DEF OnScreen, At
    <3>1. Claim' \in {Claim, "none"}
      BY <2>1, <2>6, <3>0 DEF Claim, OnScreen, TypeOK
    <3>2. P!Forget
      BY <2>4, <2>6, <3>1 DEF P!Forget
    <3> QED
      BY <3>2 DEF P!Next
  <2> QED
    BY <2>2, <2>5, <2>6 DEF Cut
<1> QED
  BY <1>1, <1>2, <1>3, <1>4, <1>5, <1>6 DEF Replay

LEMMA CameraRefines ==
  ASSUME NamesApart, IInv, HoldCut \/ CutByHand \/ PlayRestarts \/ AskScene \/ CutBack
  PROVE  [P!Next]_(P!picture)
<1>0. UNCHANGED <<rp, latest, reel, watch>>
  BY DEF HoldCut, CutByHand, PlayRestarts, AskScene, CutBack, Camera, thread, show, watching
<1>1. UNCHANGED back => Looked' = Looked
  BY <1>0 DEF Looked, At
<1>2. UNCHANGED <<scene, cutBy>> => Claim' = Claim
  BY <1>0 DEF Claim
<1>3. CASE HoldCut \/ CutByHand
  <2>1. UNCHANGED back /\ ((scene' \in Scenes /\ cutBy' = "people") \/ UNCHANGED <<scene, cutBy>>)
    BY <1>3 DEF HoldCut, CutByHand, Cut, Scenes
  <2>2. cutBy' = "people" => Claim' = "none"
    BY DEF NamesApart, Claim
  <2>3. P!Asked \/ UNCHANGED P!picture
    BY <1>1, <1>2, <2>1, <2>2 DEF P!Asked, P!picture
  <2> QED
    BY <2>3 DEF P!Next
<1>4. CASE PlayRestarts
  <2>1. back = "none" /\ back' = "asking" /\ UNCHANGED <<scene, cutBy>>
    BY <1>4 DEF PlayRestarts
  <2>2. Looked' = Looked
    BY <1>0, <2>1 DEF Looked, At
  <2> QED
    BY <1>2, <2>1, <2>2 DEF P!picture
<1>5. CASE AskScene
  <2>1. /\ back = "asking" /\ UNCHANGED <<scene, cutBy>>
        /\ back' = "none" \/ (back' = "cutting" /\ scene = "cam2")
    BY <1>5 DEF AskScene
  <2>2. CASE back' = "none"
    <3>1. Looked' = Looked
      BY <1>0, <2>1, <2>2 DEF Looked, At
    <3> QED
      BY <1>2, <2>1, <3>1 DEF P!picture
  <2>3. CASE back' = "cutting" /\ scene = "cam2"
    <3>1. Looked' = Looked \cup {"hold"}
      BY <1>0, <2>1, <2>3 DEF Looked, At
    <3>2. Claim = "none"
      BY <2>3, NoClaim
    <3>3. P!Look("hold")
      BY <1>2, <2>1, <3>1, <3>2 DEF P!Look, P!Free
    <3> QED
      BY <3>3 DEF P!Next
  <2> QED
    BY <2>1, <2>2, <2>3
<1>6. CASE CutBack
  <2>1. /\ back = "cutting" /\ back' = "none"
        /\ (scene' = "main" /\ cutBy' = "hold") \/ UNCHANGED <<scene, cutBy>>
    BY <1>6 DEF CutBack, Cut
  <2>2. "hold" \in Looked /\ Looked' = Looked \ {"hold"}
    BY <1>0, <2>1 DEF Looked, At, NamesApart
  <2>3. CASE scene' = "main" /\ cutBy' = "hold"
    <3>1. P!Move("hold")
      BY <2>2, <2>3 DEF P!Move, Scenes, Claim
    <3> QED
      BY <3>1 DEF P!Next
  <2>4. CASE UNCHANGED <<scene, cutBy>>
    <3>1. P!Forget
      BY <1>2, <2>2, <2>4 DEF P!Forget
    <3> QED
      BY <3>1 DEF P!Next
  <2> QED
    BY <2>1, <2>3, <2>4
<1> QED
  BY <1>3, <1>4, <1>5, <1>6

(* The one step that rests on the promise to the break show.                    *)
LEMMA ReelRefines ==
  ASSUME NamesApart, IInv, "impatient" \notin Faults, busy = 0 => Claim = "none",
         StartBreak \/ EndBreak \/ ReelStep
  PROVE  [P!Next]_(P!picture)
<1>0. UNCHANGED <<rp, latest, back, watch>>
  BY DEF StartBreak, EndBreak, ReelStep, ReelWaits, NoClips, ReelGoesOn, ShowClip, ClipEnds,
         InReel, thread, camera, watching
<1>1. UNCHANGED <<scene, cutBy>> => Claim' = Claim
  BY <1>0 DEF Claim
<1> DEFINE Shown == reel.at \in {"clear", "playing"}
<1>2. (Shown' <=> Shown) => Looked' = Looked
  BY <1>0 DEF Looked, At
<1>3. Shown => "reel" \in Looked
  BY DEF Looked
<1>4. Shown /\ ~Shown' => Looked' = Looked \ {"reel"}
  BY <1>0 DEF Looked, At, NamesApart
<1>5. ~Shown /\ Shown' => Looked' = Looked \cup {"reel"}
  BY <1>0 DEF Looked, At
<1>6. CASE StartBreak \/ EndBreak \/ ReelWaits \/ NoClips
  <2>1. UNCHANGED <<scene, cutBy>> /\ (Shown' <=> Shown)
    BY <1>6 DEF StartBreak, EndBreak, ReelWaits, NoClips, InReel, Reel, Silent
  <2> QED
    BY <1>1, <1>2, <2>1 DEF P!picture
<1>7. CASE ReelGoesOn
  <2>1. BreakClear /\ UNCHANGED <<scene, cutBy>> /\ ~Shown
    BY <1>7 DEF ReelGoesOn, Fault, InReel
  <2>2. Claim = "none"
    BY <2>1 DEF BreakClear
  <2>3. CASE Shown'
    <3>1. P!Look("reel")
      BY <1>1, <1>5, <2>1, <2>2, <2>3 DEF P!Look, P!Free
    <3> QED
      BY <3>1 DEF P!Next
  <2>4. CASE ~Shown'
    BY <1>1, <1>2, <2>1, <2>4 DEF P!picture
  <2> QED
    BY <2>3, <2>4
<1>8. CASE ShowClip \/ ClipEnds
  <2>1. Shown /\ ((scene' \in Scenes /\ cutBy' = "reel") \/ UNCHANGED <<scene, cutBy>>)
    BY <1>8 DEF ShowClip, ClipEnds, InReel, Cut, Scenes
  <2>2. Looked' \in {Looked, Looked \ {"reel"}}
    BY <1>2, <1>4, <2>1
  <2>3. CASE scene' \in Scenes /\ cutBy' = "reel"
    <3>1. Claim' = "none"
      BY <2>3 DEF NamesApart, Claim
    <3>2. P!Move("reel")
      BY <1>3, <2>1, <2>2, <2>3, <3>1 DEF P!Move
    <3> QED
      BY <3>2 DEF P!Next
  <2>4. CASE UNCHANGED <<scene, cutBy>>
    <3>1. P!Forget
      BY <1>1, <2>2, <2>4 DEF P!Forget
    <3> QED
      BY <3>1 DEF P!Next
  <2> QED
    BY <2>1, <2>3, <2>4
<1> QED
  BY <1>6, <1>7, <1>8 DEF ReelStep

LEMMA WatchRefines ==
  ASSUME Timed, NamesApart, IInv, LookAtOBS \/ WatchCuts
  PROVE  [P!Next]_(P!picture)
<1>0. UNCHANGED <<rp, latest, back, reel>>
  BY DEF LookAtOBS, WatchCuts, Watching, thread, camera, show
<1>1. UNCHANGED <<scene, cutBy>> => Claim' = Claim
  BY <1>0 DEF Claim
<1>2. CASE LookAtOBS
  <2>1. /\ watch = "due" /\ UNCHANGED <<scene, cutBy>>
        /\ watch' = "idle" \/ (watch' = "cutting" /\ meant = 0)
    BY <1>2 DEF LookAtOBS, LeftOnAir
  <2>2. CASE watch' = "idle"
    <3>1. Looked' = Looked
      BY <1>0, <2>1, <2>2 DEF Looked, At
    <3> QED
      BY <1>1, <2>1, <3>1 DEF P!picture
  <2>3. CASE watch' = "cutting" /\ meant = 0
    <3>1. Looked' = Looked \cup {"watch"}
      BY <1>0, <2>1, <2>3 DEF Looked, At
    <3>2. P!Look("watch")
      BY <1>1, <2>1, <2>3, <3>1, NothingMeant DEF P!Look, P!Free
    <3> QED
      BY <3>2 DEF P!Next
  <2> QED
    BY <2>1, <2>2, <2>3
<1>3. CASE WatchCuts
  <2>1. /\ watch = "cutting" /\ watch' = "idle"
        /\ (scene' = "main" /\ cutBy' = "watch") \/ UNCHANGED <<scene, cutBy>>
    BY <1>3 DEF WatchCuts, Cut
  <2>2. "watch" \in Looked /\ Looked' = Looked \ {"watch"}
    BY <1>0, <2>1 DEF Looked, At, NamesApart
  <2>3. CASE scene' = "main" /\ cutBy' = "watch"
    <3>1. P!Move("watch")
      BY <2>2, <2>3 DEF P!Move, Scenes, Claim
    <3> QED
      BY <3>1 DEF P!Next
  <2>4. CASE UNCHANGED <<scene, cutBy>>
    <3>1. P!Forget
      BY <1>1, <2>2, <2>4 DEF P!Forget
    <3> QED
      BY <3>1 DEF P!Next
  <2> QED
    BY <2>1, <2>3, <2>4
<1> QED
  BY <1>2, <1>3

LEMMA RestRefines ==
  ASSUME Timed, NamesApart, IInv, (\E r \in Replays : Trigger(r)) \/ Tick \/ ServerRestarts
  PROVE  [P!Next]_(P!picture)
<1> USE DEF IInv
<1>0. UNCHANGED <<scene, cutBy>>
  BY DEF Trigger, Tick, ServerRestarts
<1>1. CASE \E r \in Replays : Trigger(r)
  <2>1. PICK r \in Replays : Trigger(r)
    BY <1>1
  <2>2. UNCHANGED <<latest, back, reel, watch>> /\ rp[r].at = "none"
    BY <2>1 DEF Trigger, camera, show, watching, At
  <2>3. rp'[r].at = "saving" /\ \A q \in Replays \ {r} : rp'[q] = rp[q]
    BY <2>1 DEF Trigger, TypeOK
  <2>4. \A q \in Replays : (At(q, "back")' <=> At(q, "back")) /\ (OnScreen(q)' <=> OnScreen(q))
    BY <2>2, <2>3 DEF At, OnScreen
  <2>5. Looked' = Looked /\ Claim' = Claim
    BY <1>0, <2>2, <2>4, SameLooks, SameClaim
  <2> QED
    BY <1>0, <2>5 DEF P!picture
<1>2. CASE Tick
  <2>1. /\ rp' = [r \in Replays |-> [rp[r] EXCEPT !.left = Less(@)]]
        /\ UNCHANGED latest /\ reel' = [reel EXCEPT !.left = Less(@)]
        /\ NothingDue /\ back' \in {"asking", "none"} /\ watch' = "due"
    BY <1>2 DEF Tick
  <2>2. \A q \in Replays : rp'[q].at = rp[q].at
    BY <2>1 DEF TypeOK, Goroutine
  <2>3. \A q \in Replays : (At(q, "back")' <=> At(q, "back")) /\ (OnScreen(q)' <=> OnScreen(q))
    BY <2>2 DEF At, OnScreen
  <2>4. reel'.at = reel.at
    BY <2>1 DEF TypeOK
  <2>5. Looked' = Looked
    BY <2>1, <2>3, <2>4 DEF Looked, NothingDue
  <2>6. Claim' = Claim
    BY <1>0, <2>1, <2>3, SameClaim
  <2> QED
    BY <1>0, <2>5, <2>6 DEF P!picture
<1>3. CASE ServerRestarts
  <2>1. Looked' = {} /\ Claim' = "none"
    BY <1>3 DEF ServerRestarts, Looked, Claim, At, Done, Silent
  <2>2. P!Forget
    BY <1>0, <2>1 DEF P!Forget
  <2> QED
    BY <2>2 DEF P!Next
<1> QED
  BY <1>1, <1>2, <1>3

LEMMA StepRefines ==
  ASSUME Timed, NamesApart, IInv, "impatient" \notin Faults, busy = 0 => Claim = "none", [AirNext]_air
  PROVE  [P!Next]_(P!picture)
<1>1. CASE UNCHANGED air
  <2>1. UNCHANGED <<scene, cutBy, rp, latest, back, reel, watch>>
    BY <1>1 DEF air, thread, camera, show, watching
  <2>2. Looked' = Looked /\ Claim' = Claim
    BY <2>1 DEF Looked, Claim, At
  <2> QED
    BY <2>1, <2>2 DEF P!picture
<1> QED
  BY <1>1, ReplayRefines, CameraRefines, ReelRefines, WatchRefines, RestRefines
     DEF AirNext, Program, People

LEMMA InitRefines == ASSUME NamesApart, AirInit PROVE P!Init
<1>1. Looked = {} /\ Claim = "none"
  BY DEF AirInit, Looked, Claim, At, Silent
<1> QED
  BY <1>1 DEF AirInit, P!Init

(* A replay on air is left alone (OnlyAfterALook): the code's goroutines implement Picture,     *)
(* in which whoever cuts by itself has looked and has found no replay but its own.  It needs    *)
(* replays of one length (else a shorter promise replaces a longer one: camhold.go, line 72)    *)
(* and a reel that does not give up waiting (breakshow.go's 120 looks).                        *)
THEOREM LooksFirst ==
  ASSUME Timed, NamesApart, OneLength, "impatient" \notin Faults
  PROVE  AirSpec => OnlyAfterALook
<1> DEFINE Inv == IInv /\ Even
<1>1. AirInit => Inv
  <2> SUFFICES ASSUME AirInit PROVE Even
    BY InitIInv
  <2> QED
    BY DEF AirInit, Even, Alike, Measured, Covered, Live
<1>2. Inv /\ [AirNext]_air => Inv'
  BY NextKeeps, NextEven
<1>3. Inv /\ [AirNext]_air => [P!Next]_(P!picture)
  BY StepRefines, NothingOn
<1>4. AirInit => P!Init
  BY InitRefines
<1> HIDE DEF Inv
<1> QED
  BY <1>1, <1>2, <1>3, <1>4, PTL DEF AirSpec, OnlyAfterALook, P!Spec
==============================================================================
