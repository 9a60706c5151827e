----------------------------- MODULE Highlights -----------------------------
(***************************************************************************)
(* The highlights video (internal/server/ytafter.go): built from the match's *)
(* replays and uploaded to YouTube when the stream has been off for a minute *)
(* and a half, or at the panel's button, which may force it.                *)
(***************************************************************************)
EXTENDS Naturals

CONSTANTS
    Jobs,         \* goroutines of safeGo: a bound on those at work
    MaxEnds,      \* bound on the times the stream ends
    MaxPresses,   \* bound on the presses of the button
    MaxTroubles   \* bound on failures and restarts

VARIABLES
    streaming,    \* the monitor's flag
    finished,     \* the match has a result
    timers,       \* timers of streamEnded still to fire
    look,         \* afterStreamYouTube has found no record, and has yet to start
    running,      \* ytHighlightsStatus.running
    job,          \* each UploadHighlights: where it is, and whether it is forced
    recorded,     \* the match's row in yt_uploads
    videos,       \* highlights videos on YouTube
    ends, presses, troubles,
    excused       \* history: videos that were forced, or that the server cannot know of

stream == <<streaming, finished, timers, ends>>
highlights == <<stream, look, running, job, recorded, videos, presses, troubles, excused>>

Free == [at |-> "none", force |-> FALSE]

HighlightsInit ==
    /\ streaming = TRUE /\ finished = FALSE /\ timers = 0 /\ look = FALSE
    /\ running = FALSE /\ job = [j \in Jobs |-> Free]
    /\ recorded = FALSE /\ videos = 0
    /\ ends = 0 /\ presses = 0 /\ troubles = 0 /\ excused = 0

Trouble == troubles < MaxTroubles /\ troubles' = troubles + 1

-----------------------------------------------------------------------------
(* StartHighlightsUpload.                                                     *)

\* Mutant: the answer to the panel is all the flag is for.
IdleAlways == TRUE

Idle == ~running

Start(force) ==
    IF Idle
    THEN /\ running' = TRUE
         /\ \E j \in Jobs : /\ job[j] = Free
                            /\ job' = [job EXCEPT ![j] = [at |-> "asked", force |-> force]]
    ELSE UNCHANGED <<running, job>>

PressButton(force) ==
    /\ presses < MaxPresses /\ presses' = presses + 1 /\ Start(force)
    /\ UNCHANGED <<stream, look, recorded, videos, troubles, excused>>

-----------------------------------------------------------------------------
(* UploadHighlights.                                                          *)

JobGoes(j, from, to) == job[j].at = from /\ job' = [job EXCEPT ![j].at = to]

\* Every way out says so.
Leaves(j, from) == job[j].at = from /\ job' = [job EXCEPT ![j] = Free] /\ running' = FALSE

AlreadyThere(j) ==
    /\ recorded /\ ~job[j].force /\ Leaves(j, "asked")
    /\ UNCHANGED <<stream, look, recorded, videos, presses, troubles, excused>>

\* Too few replays, no login, or FFmpeg fails.
CannotBuild(j) ==
    /\ Trouble /\ Leaves(j, "asked")
    /\ UNCHANGED <<stream, look, recorded, videos, presses, excused>>

Build(j) ==
    /\ (~recorded \/ job[j].force) /\ JobGoes(j, "asked", "uploading") /\ running' = TRUE
    /\ UNCHANGED <<stream, look, recorded, videos, presses, troubles, excused>>

\* A record that cannot be read is taken for none: it goes on as a forced one does.
RecordUnread(j) ==
    /\ recorded /\ job[j] = [at |-> "asked", force |-> FALSE] /\ Trouble
    /\ job' = [job EXCEPT ![j] = [at |-> "uploading", force |-> TRUE]]
    /\ UNCHANGED <<stream, look, running, recorded, videos, presses, excused>>

Excuse(j) == IF job[j].force THEN 1 ELSE 0

UploadFails(j) ==
    /\ Trouble /\ Leaves(j, "uploading")
    /\ UNCHANGED <<stream, look, recorded, videos, presses, excused>>

\* YouTube has it all, and its answer is lost.
AnswerLost(j) ==
    /\ Trouble /\ Leaves(j, "uploading") /\ videos' = videos + 1 /\ excused' = excused + 1
    /\ UNCHANGED <<stream, look, recorded, presses>>

Upload(j) ==
    /\ JobGoes(j, "uploading", "taken") /\ videos' = videos + 1 /\ excused' = excused + Excuse(j)
    /\ UNCHANGED <<stream, look, running, recorded, presses, troubles>>

\* ytRecordUpload, whose failure nobody hears of.
Record(j) ==
    /\ JobGoes(j, "taken", "recorded")
    /\ \/ recorded' = TRUE /\ UNCHANGED <<troubles, excused>>
       \/ ~recorded /\ Trouble /\ excused' = excused + 1 - Excuse(j) /\ UNCHANGED recorded
    /\ UNCHANGED <<stream, look, running, videos, presses>>

\* The thumbnail, and the end.
Finish(j) ==
    /\ Leaves(j, "recorded")
    /\ UNCHANGED <<stream, look, recorded, videos, presses, troubles, excused>>

JobStep(j) ==
    \/ AlreadyThere(j) \/ CannotBuild(j) \/ Build(j) \/ RecordUnread(j)
    \/ UploadFails(j) \/ AnswerLost(j) \/ Upload(j) \/ Record(j) \/ Finish(j)

-----------------------------------------------------------------------------
(* The end of a stream, and of the match; a stream that only dropped ends too. *)

StreamEnds ==
    /\ streaming /\ ends < MaxEnds /\ ends' = ends + 1
    /\ streaming' = FALSE /\ timers' = timers + 1
    /\ UNCHANGED <<finished, look, running, job, recorded, videos, presses, troubles, excused>>

StreamsAgain ==
    /\ ~streaming /\ streaming' = TRUE
    /\ UNCHANGED <<finished, timers, ends, look, running, job, recorded, videos, presses,
                   troubles, excused>>

ResultKnown ==
    /\ ~finished /\ finished' = TRUE
    /\ UNCHANGED <<streaming, timers, ends, look, running, job, recorded, videos, presses,
                   troubles, excused>>

\* afterStreamYouTube, as far as its look at the record.
TimerFires ==
    /\ timers > 0 /\ timers' = timers - 1 /\ ~look
    /\ look' = (~streaming /\ finished /\ ~recorded)
    /\ UNCHANGED <<streaming, finished, ends, running, job, recorded, videos, presses,
                   troubles, excused>>

TimerStarts ==
    /\ look /\ look' = FALSE /\ Start(FALSE)
    /\ UNCHANGED <<stream, recorded, videos, presses, troubles, excused>>

\* An upload cut short may have been taken all the same.
Restart ==
    /\ Trouble /\ running' = FALSE /\ job' = [j \in Jobs |-> Free]
    /\ timers' = 0 /\ look' = FALSE
    /\ \/ /\ \E j \in Jobs : job[j].at = "uploading"
          /\ videos' = videos + 1 /\ excused' = excused + 1
       \/ /\ \E j \in Jobs : job[j].at = "taken" /\ ~job[j].force
          /\ excused' = excused + 1 /\ UNCHANGED videos
       \/ /\ \A j \in Jobs : job[j].at = "taken" => job[j].force
          /\ UNCHANGED <<videos, excused>>
    /\ UNCHANGED <<streaming, finished, ends, recorded, presses>>

HighlightsNext ==
    \/ \E force \in BOOLEAN : PressButton(force)
    \/ \E j \in Jobs : JobStep(j)
    \/ StreamEnds \/ StreamsAgain \/ ResultKnown \/ TimerFires \/ TimerStarts \/ Restart

HighlightsSpec == HighlightsInit /\ [][HighlightsNext]_highlights

-----------------------------------------------------------------------------
\* "Once per match unless forced" (ytafter.go:253-254): of the videos that were not forced, the
\* server knows of one at most.
OncePerMatch == videos <= 1 + excused
=============================================================================
