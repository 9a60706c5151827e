------------------------------- MODULE Rehearsal -------------------------------
(***************************************************************************)
(* A practice match (rehearsal.go): the panel points the feed at a          *)
(* simulator's folder, the overlay's polls log it under an id of its own,    *)
(* and at its end the feed is put back and its rows go.  The operator edits  *)
(* the feed, scores by hand, or goes live while it runs; a save may fail;    *)
(* the server may die, and puts back at its start what it left.              *)
(*                                                                         *)
(* A frame is whose match it shows and whether a ball has been bowled; the   *)
(* rows of an id are whose balls they are.                                   *)
(***************************************************************************)
EXTENDS Naturals

CONSTANTS Folders,    \* the club's own values of the five keys a practice changes
          MaxUpsets,  \* bound: edits of the feed, and deaths of the server, in a practice or out of one
          MaxFails, MaxStarts   \* bounds

Nothing == "none"
Sim == "sim"          \* the simulator's folder; also whose balls its frames hold
Club == "club"        \* whose balls every other frame holds
Match == "match"      \* the id of the real match
Practice == "practice"

VARIABLES
    alive,            \* the server runs
    source, note,     \* match_state.json: where the feed is read; rehearsal_restore
    over,             \* history: a practice began over one that was not put back
    at,               \* the practice: "off", "marked", "pointed", "playing", "restored", "cleaned"
    first,            \* its scenario opens before the first ball ("full")
    onAir, manual,     \* the stream is live; a manual session is on
    polling,          \* the overlay's poll: [at, src, whose, bowled]
    logged,           \* loggedMid
    rows,             \* match.db: id -> whose balls
    bound             \* [upsets, fails, starts]

state == <<source, note, over>>
world == <<onAir, manual>>
rehearsal == <<alive, state, at, first, world, polling, logged, rows, bound>>

NotPolling == [at |-> "idle", src |-> Nothing, whose |-> Nothing, bowled |-> FALSE]
Spend(b, max) == bound[b] < max /\ bound' = [bound EXCEPT ![b] = @ + 1]

RehearsalInit ==
    /\ alive = TRUE /\ source \in Folders /\ note = Nothing /\ over = FALSE
    /\ at = "off" /\ first = FALSE
    /\ onAir = FALSE /\ manual = FALSE /\ polling = NotPolling /\ logged = Nothing
    /\ rows = [m \in {Match, Practice} |-> {}]
    /\ bound = [upsets |-> 0, fails |-> 0, starts |-> 0]

\* rehearsal.running, and the id CurrentMatchID gives while it is set.
PracticeOn == at \in {"marked", "pointed", "playing", "restored"}
CurrentMatchID == IF PracticeOn THEN Practice ELSE Match

-----------------------------------------------------------------------------
(* The practice's own goroutine and the request that starts it.               *)

Own == alive /\ UNCHANGED <<alive, world, polling>>

\* StartRehearsal refuses over a live stream or a manual session, and while another runs.
StartRehearsal ==
    /\ Own /\ at = "off" /\ ~onAir /\ ~manual /\ Spend("starts", MaxStarts)
    /\ at' = "marked" /\ first' \in BOOLEAN /\ UNCHANGED <<state, logged, rows>>

\* Mutant: the values to put back are saved by a write of their own, after.
PointThenSave ==
    /\ Own /\ at = "marked" /\ at' = "pointed" /\ UNCHANGED <<first, logged, rows>>
    /\ \/ source' = Sim /\ UNCHANGED <<note, over, bound>>
       \/ Spend("fails", MaxFails) /\ UNCHANGED state

\* UpdateState: the old values are saved in the same write that changes them.
Point ==
    /\ Own /\ at = "marked" /\ at' = "pointed" /\ UNCHANGED <<first, logged, rows>>
    /\ \/ source' = Sim /\ note' = source /\ over' = (over \/ source = Sim) /\ UNCHANGED bound
       \/ Spend("fails", MaxFails) /\ UNCHANGED state

\* resetFeedPipeline, and the first frame.
Play ==
    /\ Own /\ at = "pointed" /\ at' = "playing" /\ logged' = Nothing
    /\ UNCHANGED <<state, first, rows, bound>>

Ball ==
    /\ Own /\ at = "playing" /\ first /\ first' = FALSE
    /\ UNCHANGED <<state, at, logged, rows, bound>>

PutBack ==
    IF note = Nothing THEN UNCHANGED state
    ELSE source' = note /\ note' = Nothing /\ UNCHANGED over

\* The last frame, or StopRehearsal: restoreAfterRehearsal.
Finish ==
    /\ Own /\ at = "playing" /\ at' = "restored" /\ UNCHANGED <<first, logged, rows>>
    /\ \/ PutBack /\ UNCHANGED bound
       \/ Spend("fails", MaxFails) /\ UNCHANGED state

\* The id goes and its rows go, under dbLogMu: no poll is between its lock and its writes.
Clean ==
    /\ Own /\ at = "restored" /\ polling.at \notin {"follow", "log"} /\ at' = "cleaned"
    /\ rows' = [rows EXCEPT ![Practice] = {}] /\ UNCHANGED <<state, first, logged, bound>>

Forget == Own /\ at = "cleaned" /\ at' = "off" /\ logged' = Nothing /\ UNCHANGED <<state, first, rows, bound>>

-----------------------------------------------------------------------------
(* The overlay's poll (/live).                                                *)

Polling == alive /\ UNCHANGED <<alive, state, at, first, world, bound>>

\* The settings are read first.
AskFeed ==
    /\ Polling /\ polling.at = "idle" /\ UNCHANGED <<logged, rows>>
    /\ polling' = [NotPolling EXCEPT !.at = "asked", !.src = source]

\* A manual session outranks the file.
ReadFeed ==
    /\ Polling /\ polling.at = "asked" /\ UNCHANGED <<logged, rows>>
    /\ IF polling.src = Sim /\ ~manual
       THEN polling' = [polling EXCEPT !.at = "follow", !.whose = Sim, !.bowled = ~first]
       ELSE \E b \in BOOLEAN : polling' = [polling EXCEPT !.at = "follow", !.whose = Club, !.bowled = b]

\* FollowMatchID: rows that were logged in the last ten minutes move to an id that has none.
FollowMatchID ==
    /\ Polling /\ polling.at = "follow" /\ polling' = [polling EXCEPT !.at = "log"]
    /\ LET mid == CurrentMatchID
       IN  /\ logged' = mid
           /\ \/ UNCHANGED rows
              \/ /\ logged \notin {Nothing, mid} /\ polling.bowled /\ rows[mid] = {}
                 /\ rows' = [rows EXCEPT ![mid] = rows[logged], ![logged] = {}]

\* LogBallData and the figures: they ask for the id again.
LogBallData ==
    /\ Polling /\ polling.at = "log" /\ polling' = NotPolling /\ UNCHANGED logged
    /\ rows' = IF polling.bowled THEN [rows EXCEPT ![CurrentMatchID] = @ \cup {polling.whose}] ELSE rows

-----------------------------------------------------------------------------
(* The operator, and the machine.                                             *)

SetFeed(f) ==
    /\ alive /\ f # source /\ source' = f /\ Spend("upsets", MaxUpsets)
    /\ UNCHANGED <<alive, note, over, at, first, world, polling, logged, rows>>

GoOnAir(l) ==
    /\ alive /\ onAir' = l
    /\ UNCHANGED <<alive, state, at, first, manual, polling, logged, rows, bound>>

ScoreByHand(m) ==
    /\ alive /\ manual' = m
    /\ UNCHANGED <<alive, state, at, first, onAir, polling, logged, rows, bound>>

\* The process dies: match_state.json and match.db stay.
Die ==
    /\ alive /\ alive' = FALSE /\ Spend("upsets", MaxUpsets)
    /\ at' = "off" /\ first' = FALSE /\ polling' = NotPolling /\ logged' = Nothing
    /\ UNCHANGED <<state, world, rows>>

\* Start: RecoverInterruptedRehearsal.
Start ==
    /\ ~alive /\ alive' = TRUE /\ UNCHANGED <<at, first, world, polling, logged, rows>>
    /\ \/ PutBack /\ UNCHANGED bound
       \/ note # Nothing /\ Spend("fails", MaxFails) /\ UNCHANGED state

RehearsalNext ==
    \/ StartRehearsal \/ Point \/ Play \/ Ball \/ Finish \/ Clean \/ Forget
    \/ AskFeed \/ ReadFeed \/ FollowMatchID \/ LogBallData
    \/ \E f \in Folders : SetFeed(f)
    \/ \E b \in BOOLEAN : GoOnAir(b) \/ ScoreByHand(b)
    \/ Die \/ Start

RehearsalSpec == RehearsalInit /\ [][RehearsalNext]_rehearsal

-----------------------------------------------------------------------------
\* While the feed is the simulator's, what to put back is on the disk: whatever dies, a later
\* start finds it ("saved in state first, so a crash mid-practice is undone"), unless a write
\* that puts it back failed and another practice began.
SourceCanReturn ==
    /\ source = Sim => note \in Folders \/ over
    /\ over => bound.fails > 0

\* "It can never be merged into, or mistaken for, a real match" (rehearsal.go:11): the real
\* match's balls are not taken with a practice's, what was logged stays logged.
RealIsKept == [][(Club \in rows[Match]) => (Club \in rows'[Match])]_rehearsal
================================================================================
