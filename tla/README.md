# CricketStream: verification project

TLA+ models, TLC runs and TLAPS proofs for
[Cricket-Live-Stream](../src/README.md): a Go program that puts live graphics on
a cricket club's stream, scores the match, records every ball, and looks after
OBS Studio unattended for an afternoon. Paths below are relative to `src/`, and
those without a directory to `src/internal/server/`.

What makes this program hard is not one algorithm. It is that a dozen goroutines
and four processes (the desktop app with its launcher, the server, OBS, the
scorer's laptop) act on the same few things (OBS's outputs, scene and files, the
match id, the match state, the scorer's log), that OBS crashes, freezes and
answers late, that the scorer's feed is polled and shows some deliveries only in
the running total, and that any part may be restarted in the middle of a match
without losing it.

Contents: [the system](#1-the-system), [modules](#2-modules),
[how state and actions correspond to the code](#3-how-the-models-correspond-to-the-code),
[runs](#4-runs), [disagreements](#5-where-the-code-and-its-documents-disagree),
[bounds](#6-bounds-and-abstractions), [fairness](#7-fairness), [proofs](#8-proofs),
[what is only model-checked](#9-what-is-only-model-checked),
[what is not modelled](#10-what-is-not-modelled), [plan](#11-plan).

## 1. The system

```
 scorer's laptop              streaming laptop                            clubhouse screen
 NV Play --file--> agent --+   desktop app (internal/app): window,   <--link-- (internal/
                   bridge -|   questions, Start, Stop, Update now              clubhouse)
 scoring page -----POST--+ |     | launcher: getting OBS ready, supervisor
                         v v     v
 phones --talk port--> server (internal/server): handlers, loops  <--WebSocket--> OBS
 operator's panel -->    match_state.json, match.db, logs              | browser source
                           ^----------- /live, /commands ------------ overlay.html
                           +--> YouTube, PlayCricket, ResultsVault
```

The components, what state each keeps, what is hard in it and what makes it
correct (`M` modelled, `p` partly; the components with no module are in
[section 10](#10-what-is-not-modelled)). `PROJECT.json` has a row for each with
its files.

| | component (code) | state | what is hard | it is correct when |
|---|---|---|---|---|
| M | scorer's book (`scoring/engine.go`, `session.go`, `manual.go`) | event log, the innings derived from it, `manual_scoring.json` | undo and edits replay the log leniently; saves fail; restarts restore lazily | the book is the replay of the log; each innings' accounts balance |
| M | OBS crash recovery (`obsguard.go`) | armed, last known stream state, unfinished reopen, times of reopens | the check unlocks between its looks; closes and crashes look alike; a reopen outlives a check | only crashes are undone, nobody is put on air uninvited, reopens are capped, a live stream comes back |
| M | quality ladder (`streamquality.go`) | the monitor's memory, the step under way, `stream_ladder` | a dozen OBS calls, each may fail with the stream down; two callers; a restart on a reduced rung | OBS encodes at the rung it is said to be on; the stream returns or somebody is told |
| p | ball-by-ball record (`db.go`, `matchfacts.go`, `pcs.go`) | innings latch, last frame, last over; the table of balls | the over's last frame is ambiguous; polls are missed; three transactions a poll, each reading the match id anew | every ball once, to its bowler, under one id |
| p | supervisor (`launcher/run.go`) | quick restarts, what was told, misses | two clocks, two counters; a look at OBS beside the loop | there is always a server; only a loop is called one; no cut from a live replay |
| p | scenes on air (`obsops.go`, `camhold.go`, `breakshow.go`, `replaywatch.go`) | OBS's scene; promises of how long replays last | five actors cut one scene, each by look-then-cut, no lock | whoever moves the picture by itself has looked, and found no replay but its own |
| M | break (`breakshow.go`, `overlay.html`) | the server's word, the page's word, commands between them | either may forget | the replays stop at the first ball |
| p | phone commentary (`talk.go`, `talk.html`) | switch, port, phones, session file; the voice's chunks; the source in OBS | phones go silent; a restart must resume the right one; saves fail; chunks out of order | one voice, the right one, heard once |
| p | scorer's feed (`agentclient.go`, `agent.go`, `bridge.go`, `scorerfile.go`, `pcs.go`) | agent's address, last frame and its age, folder, the file's time | addresses change, packets are lost, the file is read while it is written | the latest frame is shown, and held meanwhile |
| p | practice match (`rehearsal.go`) | the practice's id, what the feed was | shares the poll and the database with the real match | what the feed was can be put back; the real match is kept |
| p | desktop app (`app/*.go`) | window, phases, questions, the update's files | questions shown twice; Stop before there is a loop; two updates | answers reach their question; a stop is for this match day; a copy always runs |
| p | clubhouse screen (`clubhouse/*.go`) | key, requests, the screen's loop | pressed again while the loop ends | a request is polled for |
| p | match state (`state.go`) | `match_state.json`, its cache, two locks | every thread reads and writes the whole of it | no edit is lost |
| p | YouTube (`chapters.go`, `ytafter.go`) | moments, the video's record, the running flag | two writers, retries of what was done | the chapters are shown; one video a match |
| p | fallback score (`resultsvault.go`, `handler.go`) | a cache bound to the pinned match, its lock | calls hang under the lock; goroutines outlive their poll | the overlay shows the match pinned |
| p | season's look-ups (`season.go`, `h2h.go`, `career.go`) | flags, caches, the disk | builds crash, hang, and are reset | nobody waits for a build that is not at work |
| p | result cards (`cards.go`, `matchfacts.go`) | rows and memory of two innings | frames missed, the latch lost | a card claims the match's result or none |
| p | getting OBS ready (`obs/*.go`, `checklist.go`, `obsops.go`) | OBS's files, its scenes, its update check | OBS writes its files back when it closes; power cuts | the buffer runs; the club's choice is kept; graphics on top |
| p | routes and login (`handler*.go`, `auth.go`) | epoch, its file, logins | crash restarts, log-out of everyone, new days | a change is an operator's; a login stands as long as it should |
| p | sponsor airtime (`airtime.go`) | the open show, the file | lost hides, reloads, restarts; reports carry no name | no more time than was shown |
| p | pre-match check (`precheck.go`) | the run, the last result | runs overlap; facts change under it | red is what is wrong now |

How they meet:

- **OBS** is shared by the guard, the ladder, the scenes, commentary's source and
  the set-up. `OBS.tla` states what the code relies on of the process: it loads,
  answers, hangs, dies or is closed; a marker that only a clean exit deletes; a
  stream that stays active until its backlog has gone; an encoder that takes a new
  bitrate only when no output runs.
- The **guard** falls back on the **ladder's** monitor when OBS does not answer;
  `ObsGuard` has the monitor's reading as an action. A **replay** starts the buffer
  that a quality step has stopped; `StreamQuality` has its two halves. The
  **checklist's** Start OBS job closes and reopens OBS on purpose (`ObsGuard`,
  JobStart and JobEnd).
- The **overlay's poll** is all that writes the ball log; the **operator's
  settings**, and a **practice**, change the match id under it (`BallLog`,
  `Rehearsal`). **Break** and overlay talk by POST and by popped commands; the reel
  that a break starts is one of the actors of `OnAir`.
- The **supervisor** kills and restarts the server at any moment, so every module
  of a server part that keeps state in memory has a restart: memory goes, disk
  stays. The **window** knows match day by its stages only (`MatchDay`), and the
  **clubhouse screen** reaches the same buttons over the link.
- Every route's handler is reached through the table of `Requests`; what it then
  does is in the module of its component.

## 2. Modules

| modules | part |
|---|---|
| `ScoringSession` | one innings as a pure engine; the log, the book, the file and the handlers |
| `OBS`, `ObsGuard` | OBS and its operator (external); crash recovery |
| `StreamQuality` | the ladder's monitor and its step; EXTENDS OBS |
| `BallLog` | the scorer's feed (external); a poll, the database, the match id |
| `Supervisor` | the launcher's loop, its watcher, its look at OBS |
| `Picture`, `OnAir` | what those who cut OBS's scene promise one another (abstract); the goroutines that cut it |
| `BreakShow` | the break, as the server and as the overlay know it |
| `Talk`, `TalkVoice`, `TalkSource` | who is on air; the voice's chunks; the source in OBS |
| `FeedLink`, `ScorerFile` | the scorer's laptop over the network; the file from NV Play to the reader |
| `Rehearsal` | the practice match |
| `Asker`, `MatchDay`, `Update` | the window's questions; match day's start and stop; Update now |
| `Pairing`, `ClubScreen` | a clubhouse screen gets the key; its lock, its page and what it commands |
| `Store` | match_state.json |
| `Chapters`, `Highlights` | the video's chapters; the highlights video |
| `WidgetFeed`, `Lookups`, `ResultCard` | the fallback score; builds in the background; the card's result |
| `OBSReady`, `Stacking` | OBS's files and set-up; the order of a scene's sources |
| `Requests` | the routes and what they change; logins |
| `Airtime`, `Checks` | the sponsor's airtime; the pre-match check |
| `LiveFigures`, `Records` | the match report's own figures; what is added up from scorecards |
| `DataLemmas` | sums, and induction over a log, for the proofs |
| `MCParts`, `MCMatch`, `MCQuality`, `MCLive`, `MCLaptop` | instances for TLC, see section 4 |
| `*_proofs` | theorems, see section 8 |

Compositions. `OBS` is extended by what uses it. `OnAir` instantiates `Picture` under a refinement mapping (`P == INSTANCE
Picture WITH claim <- Claim, ...`): the scene and who cut last are OnAir's own,
`claim` is the replay on screen read off the goroutines' places, `looked` those
whose last look found no replay but their own. `P!Spec` is the property
`OnlyAfterALook`.

Parts that share no state need no product of their states. The `MC` modules are
therefore **sums**: a variable `part` is chosen in the initial state and never changes, the part chosen takes its steps, and the other
parts stay as they began, in one initial state only. What a behaviour of a sum
does is exactly what one of the parts does by itself. A part that theorems are
about is EXTENDed by its sum, so that the run and the theorem speak of one and the
same definition; that is why such modules name their formulas after themselves
(`DayInit`, `PairingNext`, `widgetFeed`). So
MCParts extends `ObsGuard`, `Talk`, `Requests`, `Rehearsal`, `ScorerFile`,
`BreakShow` and `OBSReady`, MCQuality `StreamQuality` and `Asker`. The others are INSTANCEd and share the
variables `v1 ..` (and in MCQuality `w1 ..`), named in each INSTANCE; what a part
does not need stays 0.

## 3. How the models correspond to the code

An action is one stretch of a handler or goroutine that nothing else can come
between: a call to OBS, to the network or to the disk ends it, and so does a lock
let go. Everything the code does in that stretch is in the action.

**ScoringSession.** `sess.events` is `Session.events`, `sess.book` its
innings, `file` is `manual_scoring.json`, `attempted` is `manualLoadAttempt`. Each
event kind is a case of `Accepts` (when `applyEvent` returns no error) and
`Effect`. `ReplayOne` is the lenient form that `rebuild` uses: auxiliary events
which an edit made impossible are skipped, an innings it un-completed is declared
closed, a ball is never skipped. Deliver, Undo, EditBall, Setup, Reset and Look are
the handlers, under `manualMu`, with the save each makes; a save may fail, and the
code then scores on.

**ObsGuard.** One call of `obsGuardTick` is a sequence of actions, `phase` says
where it stands. `armed`, `streaming`, `gaveUp`, `pending`, `tries`, `restarts`,
`hungFor` are the fields of `obsGuard`; `restarts` keeps ages, because the code
keeps times and forgets those outside the window. `Sample` is the question to OBS
with its fallback on the monitor.

**StreamQuality.** `shift.at` is the OBS call a step has come to, `tick.at` where
the monitor's goroutine is; reading (no lock), judging (`streamMonMu`) and stepping
(`qualityShift`, tried after the other was let go) are separate actions. `kbps`,
`enc`, `rb`, `stopping` are OBS's: the bitrate set, the bitrate its encoder was
built with, the replay buffer, a stop not completed. `mon` is `streamMon`, `saved`
is `stream_ladder`.

**BallLog.** `poll` is the request in hand: `follow`, `log`, `figures` are its
writers in order. `rows` is the table `balls`, a function from position to ball
per match id, innings and over, as the primary key has it, so that a gap or a
duplicate is representable. `prev` and `done` are the two halves of `ballLog`.
`Stale`, `LateTail`, `MissRuns`, `Recovered` are the decisions of `LogBallData`.
Each transaction has an action for its failure, which leaves what came before it.

**Supervisor.** `at` is the loop's place: waiting for the process or an event, in
the short back-off, resting a minute, stopped. `missed` is `watchHung`'s count,
`cutter` the goroutine that runs `LeaveReplay`.

**OnAir.** `rp[r]` is the goroutine of one replay (waiting for its clip, playing,
on the side-on clip, cutting back), `busy` is `replayBusyUntil`, `meant` is
`playReplayUntil`, both as time left; `hold` and `back` are camhold's timer and its
goroutine, `reel` is breakshow's, `watch` and `strikes` are replaywatch's. A look
and the cut that follows it are two actions.

**BreakShow.** `breakOn` is the server's break, `breakShown` and `timer` the
page's `_break`, `command` the queue that `/commands` pops, `posts` the calls on their way.

**Talk, TalkVoice, TalkSource.** In `Talk`, `phone[p]` is a record of `talk.phones`,
`srv` the phones' port, which is opened outside the lock, `file` is
`talk_session.json` with who it names and how old it is; a save or a removal of it may
fail, which the code does not notice (`unsaved`). `TalkVoice` has the page's
queue and numbering, the chunks in flight, and the server's `nextSeq` and held
chunks. `TalkSource` is one pass of `talkEnsureOBS`, request by request, with what
it read kept apart from what OBS has.

**FeedLink, ScorerFile.** `resolved` is the address the agent was last found at,
`call` the poll's goroutine, `cache` and `okAge` the last good frame and its age.
`ScorerFile` separates the file's time from what it holds, because the code reads
one and then the other; NV Play's write empties the file and fills it. `poll` has one
record for each page that polls: `pcsMu` is held over a read of the folder, so those
come one at a time, but `agentMu` is let go over a call to the agent, and there any
number are out at once.

**Rehearsal.** `at` is the place of the practice's goroutine, `poll` that of the
overlay's poll, `rows` says whose balls are under which id, `note` what the saved
state says to put back.

**Asker, MatchDay, Update.** `turn` is where each asker stands between `ask`'s two
locks, `slot` the channel of one answer. `MatchDay` has the window's `phase`,
the launcher's stages, the buffered stop channel (`interrupt`), every Stop button
as a goroutine (`stopper`), and the laptop's power. `Update` has each press as a
goroutine with its stage, and the files under their names (`exe`, `aside`, `download`),
under Windows's rules for open and running files.

**Pairing.** `asks` is the request a screen has in hand, `loop` where its asking
goroutine is, `snap` the copy of the request it polls for; `answer`, `from`, `key`,
`fails` are the laptop's.

**Store.** A load is stat, then cache or read, then keep; an update is a load
under `stateRMWMu`, a change, a rename, a new cache. `stamp` stands for the file's
time and size, which is what the cache compares.

**Chapters, Highlights.** The moments of one innings, as a poll notes them; a
writer's choice of video, read of its times, and write, each apart. `job[j]` is an
upload's goroutine from the look at the record to the record it writes; `running`
is the flag.

**WidgetFeed, Lookups, ResultCard.** `page[p]` is a poll between its read of the
pin, its binding of the cache, its question and its five seconds; `fetch[j]` the
goroutine that outlives it. `Lookups` has each build's flag, cache and disk.
`ResultCard` has the rows of `live_innings`, the memory beside them and the latch;
a card is an operator, since nothing of it is kept.

**OBSReady, Stacking.** OBS reads its files as it opens (`obsNow`) and writes
them back as it closes; `obsFiles` is what is in them, `readying` how far the start-up
job has come and whether OBS went, refused the buffer or would not close under it (`hampered`), `managed` the setting, `paused` the marker beside them. `items` is one scene's list, `setup` and `add` the two that reorder it by
indexes read earlier.

**Requests.** `Routes` is the table of handlers in the order they are
matched, with what each needs of the caller and what it changes. A login is the
epoch it was signed with; `epoch` is `sessionEpoch`, `file` is
`session_epoch.txt`, `saving` the writes that were begun and not finished.

**Airtime, Checks.** `strap` is what is on screen, `open` what the server believes
is, `rec` the file, `page` the sponsor as the overlay knows and shows it. `facts` are the few things a check reads, `run` the run under
way with the settings it began with.

History variables (`opened`, `stopSeen` in ObsGuard; `club`, `proven`, `unmade`, `told`, `mixed`,
`deserted`, `unwritten` in StreamQuality; `unsaved` in Talk; `overtaken` in ScorerFile; `blind`, `torn` in BallLog; `lastEdit` in Store; `accepted` in
Asker; `heard` in MatchDay; `turnedDown` in Pairing; `unsure` in Requests; `lost`
in ResultCard; `phantoms`, `crossed` in Airtime; and the like) are read by properties only.

## 4. Runs

Five runs pass, each a sum of parts (section 2); every property has a mutant: a
definition with a slip of the kind that code could have (a reset forgotten, a limit
off by one, the other bowler, a wait left out), next to the one it replaces, under
which TLC finds the property violated.

**`parts`** (`MCParts`), what must never happen, part by part:

| part | property | what it says |
|---|---|---|
| guard | `ReopensAreCapped` | no window of checks has more launches than the cap |
| guard | `NothingUninvited` | nobody is put on air who never went live |
| guard | `OnlyACrashIsUndone` | OBS is opened after a crash, or to finish a reopen, and else never |
| talk | `OneVoice` | one voice at most, and none, nobody waiting and no open port while the switch is off |
| talk | `ResumeIsExact` | a restart puts back exactly who was on air at the crash, if the last save landed; and never two phones, nor anybody after a long outage |
| voice, source | `HeardOnce` | a voice whose chunks arrive is not silent for long; its source is in a scene once |
| practice | `SourceCanReturn` | while the feed is the simulator's, what to put back is on the disk, unless a put-back failed and another practice began (section 5) |
| video | `ChaptersFit` | the chapters in the description are ones YouTube shows, with a timer and a panel writing at once; the last is long enough from the first writer on that knew the video's end, but for a press overtaken by the timer (section 5) |
| break | `EndsWithPlay` | the break is over at the first ball the overlay sees, over restarts of the server |
| ready | `ReadyInTheEnd` | a job that ends with "OBS is ready." leaves the password and a buffer that runs, unless OBS went, refused it or would not close under the job; the club's choice about updates is never lost |
| scene | `LayoutIsRight` | the graphics are above the cameras, and a club's own sources where it put them |
| asks | `LoginsHold` | a login is taken if and only if it stands; who has none changes only what is anybody's or the overlay's |
| file | `CaughtUp` | a poll begun after the scorer's last write shows that ball, however two pages' polls fall together, but for one overtaken by an older call's answer |

**`match`** (`MCMatch`), a match day and what it leaves behind: `RecordIsRight` (the
balls of an innings add up to its score, each credited to its bowler, whatever polls
were missed), `MatchTogether` (the match is under one id), `StopsAreForToday` (a stop
pressed is for this match day), `OnlyAfterALook` (OnAir implements Picture: two
overlapping replays, a held cut, the break's reel, the watch, people, one fault).

**`quality`** (`MCQuality`), four small clubs. In the step part every call of a step may
go unanswered, be refused, be done without an answer, or hang; OBS may crash, the server
die, and a replay start the buffer, between any two calls: `StepsEndWell` (OBS is not live on
another bitrate's encoder after a step, and a stream taken down is back or told of, but
for the two cases of section 5),
`RungIsKept` (the place on the ladder, from which a restarted server goes on, is the
one in memory, from the first save on that lands), `UpshiftIsEarned` (a step up follows a full wait of clean ticks, or a
step down that was decided and not made),
`ViewersGetItBack` (liveness: a stream taken down, or a picture taken, comes back; but for a step whose end was lost, section 5),
`AnswersAreKept` (a question asked in two places returns its own answer).

**`live`** (`MCLive`), what must happen in the end: `ServerIsReplaced`, `ReplayIsLeft`,
`StreamComesBack`, `LinkComesBack` (liveness); with `NoCutUnderAServer`,
`OnlyALoopIsTold`, `ACopyIsThere` (an update leaves a program under its name, or the old one beside it while
they are swapped, after a power cut in the middle of that, or when a second press wrote over the new one),
`OncePerMatch` (one highlights video).

**`laptop`** (`MCLaptop`), what goes on around the stream: `AskedIsPolled`,
`EditsAreKept`, `NobodyWaitsInVain`, `PinIsHeld`, `BookIsReplay` (the book is the
replay of its log), `BooksBalance` (batters, extras, overs and bowlers of an innings add up), `FiguresAreHonest` (maidens and target, recomputed
from the deliveries), `ResultIsRight`, `AirtimeIsHonest` (a sponsor is told of the time its strap was on screen,
and of no more but for what section 5 names), `ReportsAreRight` (the pre-match check is red
for what is wrong now; the report has the scorer's own figures; milestones, leaders and past
meetings are the scorecards'; a clubhouse screen is for whoever unlocked it; overlay and
scorer's page show the book).

Seven more runs expect a violation: section 5.

## 5. Where the code and its documents disagree

Each is a run whose property states what a comment or a document says; TLC's
counterexample is what the code does. (One defect more has no run of its own: the
refused recovery that section 6 tells of, which the proof of `RecordIsRight` met.)

1. **An id change at an over break logs the over twice** (`matchfacts.go:117`, run
   `ball_log_id`). `FollowMatchID` carries `ballLog.mid` to the new id but not
   `ballLog.doneMid`: the ticker that still shows the finished over is not
   recognised, and its balls are written again under the next over, against the next
   bowler. The comment at `db.go:351` names the very outcome. It mends itself at the
   next over's first ball, and stays for good at the end of an innings.
2. **The monitor's older flag overrides a stop that OBS reported** (`obsguard.go:212`,
   run `obsguard_stop`), against `ARCHITECTURE.md:579`: one unanswered question is
   enough, and the next crash puts the stream back on air.
3. **An overlay loaded afresh in a break never ends it** (`overlay.html:3931`, run
   `break_over_play`): the server's replays go on over the cricket, against
   `breakshow.go:5`.
4. **A score seconds old is not held** (`agentclient.go:272`, run `feed_held`): the
   first lost poll forgets the agent's address, and without one the last good score
   is not asked for, against `TWO_LAPTOP_SETUP.md:137`.
5. **A practice can take the real match's balls with it** (`rehearsal.go:190`, run
   `rehearsal_kept`): a real poll between the practice's start and its reset moves
   the match's rows to the practice's id, whose rows are deleted at its end.
6. **An update closes the app under a match day** (`app/update.go:252`, run
   `update_match`): the phase is looked at when the button is pressed, minutes before
   the restart.
7. **After a restart the chase is written over the first innings**
   (`pcs.go:274`, run `card_after_restart`): what tells the second innings after the
   winning runs is a latch in memory.

Other statements the models refute, without a run of their own. Those with a name
are definitions of the module:

- `MatchDay`: `GettingReadyEnds` (a server slower than 20 s is never announced: the
  window stays at getting ready, and its Stop closes the app) and `OnForMatchDay`
  (the minute before the laptop switches off is not cancelled by Start on its own
  page).
- `Pairing`: `RightKeyPairs` (after New key the paired screen's own polls lock its
  address out, and the right key is refused for two minutes). `link.go:61` says
  "Nothing that changes settings"; `/cameras/use` does.
- `WidgetFeed`: `AnsweredInFive` (the overlay's own binding of the cache waits for
  the lock before its five seconds begin).
- `Store`: `PanelEditsWin` (a setting put back to its default in the panel counts as
  never set, and config.ini's value returns at the next start).
- `StreamQuality`: `BaselineIsTheClubs` (between a panel step's StartStream and its
  record, a monitor tick takes the reduced bitrate for the club's). And a step up may
  come early: `clean_since` is "0 = not clean now" (`streamquality.go:88`), but a tick
  that decides a step down returns at line 749 before it is set to 0 at line 753; when
  that step is then not made, because another runs or OBS does not answer, the next
  clean tick goes on with the old spell. `UpshiftIsEarned` excepts it by name
  (`unmade`); without the exception TLC refutes it.
- `StreamQuality` again: a step ends badly in ways the code does not see, and
  `StepsEndWell` excepts them by name. A replay that looked at `shifting` before the step
  began may start the buffer in the middle of it (`obsops.go:133`), as an OBS that is opened
  then does: the old encoder keeps running under the new bitrate (`mixed`). A server that
  dies between StopStream and StartStream leaves the stream down and nobody told; and a
  StopStream that OBS carries out without its answer arriving, slowly, is reported as
  "nothing was interrupted" (`streamquality.go:557-566`), after which the stream goes down
  (`deserted`). A failed write of the match state is not noticed by the ladder either
  (`state.go:246`): a restarted server goes on from the rung saved before (`unwritten`,
  excepted by `RungIsKept` until a save lands).
- `Talk`: "failing to save only means a crash loses the session" (`talk.go:1249`), but
  the old file stays: after a failed save and a crash a phone that was sent off the air is
  put back on it; and "Only a crash leaves it behind: a clean stop goes through TalkOff,
  which deletes it" (`talk.go:1230`) is not so when the removal fails, for its error is
  ignored. `ResumeIsExact` excepts a file that the last save did not reach (`unsaved`).
- `Chapters`: a press at the panel that read the video while it was live may reach YouTube
  after the timer's write at its end, and puts back chapters made without the end; the last
  may then be too short until somebody presses once more (`Overtaken`, excepted by
  `ChaptersFit`).
- `OBSReady`: "OBS is ready." (`checklist.go:209`) is also said of an OBS with no buffer:
  Setup returns true whatever happened after it was dialled (`setup.go:377`), and goes on
  when OBS will not close for the second opening (`setup.go:442`). `ReadyInTheEnd` excepts
  those jobs by name (`hampered`), and a club that has taken OBS out of the program's hands.
- `Airtime`: a report says "show", not of whom. The strap's text is the sponsor the overlay
  polled before the last over's end (`overlay.html:2899`), the one credited is the match
  state's when the report arrives (`airtime.go:85`): a sponsor changed between is told of up
  to 12 seconds of the old one's strap. `AirtimeIsHonest` allows one cap for each such
  appearance (`crossed`).
- `Rehearsal`: a practice whose end could not put the feed back, followed by another,
  loses the club's feed: the second saves the simulator's folder over what was to be
  put back (`rehearsal.go:201`). `SourceCanReturn` excepts it by name (`over`).
- `OnAir`: `OverChangeSparesReplays` (the overlay's planned cut does take viewers
  off a replay); and with replays of two lengths the reel can cut one short, because
  a shorter promise replaces a longer one (`camhold.go:72`, whose comment says a clip
  does not start over it). `NothingUninvited`'s neighbour "a normal close is never
  undone" (`ARCHITECTURE.md:580`) fails for a close during an unfinished reopen;
  `OnlyACrashIsUndone` allows it by name.
- `ScorerFile`: the bridge reads the file before its time, so a ball written between
  the two is shown with the next; a folder guessed at before anything was written is
  remembered; a mirror keeps an older file of a known name. Of two polls of the agent at once
  (`/live` and `/live/view`), an older call's answer may arrive last and replace the newer
  frame that is remembered; a poll told "unchanged" meanwhile answers with the older ball
  (`agentclient.go:260-287`), which the next poll mends. `CaughtUp` excepts these by name
  (`overtaken` the last).
- `Requests`: two log-outs of everyone at once may leave the older epoch in the file
  (excepted by `unsure`); `GET /match/fixtures` asks PlayCricket without a login.
- `Airtime`: a count of viewers outlives its broadcast by three minutes.
  `Checks`: the scorer's laptop away, or OBS closed elsewhere, is red though
  `precheck.go:3` calls expected states amber; a step the ladder is on is called left
  over; an older run that ends later overwrites a newer result. `Stacking`: two at
  once may swap two cameras. `Update`: a power cut between the two renames leaves no
  program under its name; and of two presses, what one has checked and the other then writes
  over is placed, and started if Windows loads it (`update.go:247`), against `CHANGELOG.md:330`
  ("anything wrong leaves the old copy as it was"). `ACopyIsThere` allows both by name, with
  the old copy beside it. `Lookups`: a reset may
  leave two builds at work, which heals.

## 6. Bounds and abstractions

TLC's instances, and why the interesting cases fit in them:

- **Scoring.** One-ball overs, two overs, four players, two wickets, four kinds of delivery, four events: a
  match of two innings, its target, an edit of its first ball and an over shared by two
  bowlers (with a no-ball) fit, with one save that fails; an account is put out of balance
  by one delivery, and who is in depends on a wicket, a pick and a crossing, which is
  three. The theorems of the book have none of these bounds.
- **ObsGuard.** Two restarts in a window of four checks (the code: 3 in 30 minutes)
  let attempts slide out of the window; one freeze check, two passes: enough for "one
  more than allowed". Two crashes, three presses.
- **StreamQuality.** Two rungs (of 1000 kb/s) where every call of a step may fail; three
  where the server restarts and the club sets the bitrate too, so that up, down
  and restore differ; waits of one to four ticks, with the doubling and its cap both
  reached (`UpshiftIsEarned` compares with the wait as it is: how it doubles and is reset is
  not a property). The line's figures are *bad*, *fair* or *clean*, by the environment's
  choice: every sequence of judgements, not the arithmetic that yields them.
- **BallLog.** Overs of two balls, two overs, one wicket, three kinds of delivery (a
  run, a wicket, a wide), at most three deliveries an over, one ball missed between
  two logged polls (fewer than an over has, as the recovery assumes). One trouble, at
  any point. The two ids are symmetric.
- **OnAir.** Two replays, one reason, one tick for each wait, one fault: an older
  replay's end meets a newer one, and each of the other actors meets both.
- **Talk** two phones, one outage, one save that fails (`MaxLostSaves`), a session
  that is taken up for two ticks; **voice** eight chunks, one page more, two in
  flight; **source** two scenes, one camera, two faults, two edits.
- **Supervisor** the code's own caps. **FeedLink** two addresses, two faults, one
  frame after yesterday's. **ScorerFile** two
  balls (four writes), two pollers, one mishap: a call begun before the second ball can end
  after a poll that saw it. With the agent, last season's folder is there and the
  file has one of NV Play's own names; with the bridge it has one of the club's.
- **Rehearsal** two folders, one edit or one death (`MaxUpsets`), one write that fails,
  two starts: a
  put-back that fails and a second practice fit.
- **MatchDay** one Stop button, two match days, one save: a stop pressed on one day
  can be left for the next. **Asker** two askers, two pages, three questions.
- **Pairing** one screen, two requests, six presses, one lost packet: a request is
  replaced while its loop ends. **Store** two writers, one reader, two fields, one
  fault, four writes. **WidgetFeed** overlay and panel, two goroutines, two pins.
- **OBSReady** three presses and two faults over its job's steps. **Stacking** two
  cameras, one logo, one touch. **Requests** four epochs, one fault. **Update** two
  presses. **Highlights** two jobs, two ends, two presses, two troubles. **Lookups**
  two builds, two days. **Chapters** one wicket an innings, two videos, two writers.
  **ResultCard** innings of two balls, at most two runs. **Airtime** two
  sponsors, four ticks, one fault: a change of sponsor with the overlay's poll still to come,
  or a lost hide closed two panels later.
- **LiveFigures** three batters, three bowlers, two overs of two balls and one slip: an over
  ends under each bowler, one of them bowls again, and a wicket can fall with the last
  ball. **Records** six days, two people with three accounts, milestones at every second
  run and wicket, one correction or failed request: a career spans two seasons and a
  milestone can be passed under the other account. **ClubScreen** two PINs, an unlock of
  two ticks, two wrong PINs, three turns of the laptop or of the people at it: left alone
  on each tab, for longer than an unlock lasts.

A bound is in the guard of the action it bounds, under its own constant (`MaxFaults`,
`MaxPresses` and so on). The theorems of section 8 hold for every value of them.

Assumptions written into the modules, each of them a limit of what is claimed:

- A server restart loses memory at once and keeps the disk. Writes of one file are
  atomic (the code writes aside and renames), and may fail.
- BallLog: one overlay polls (`ARCHITECTURE.md` calls it the only client of `/live`);
  a correction is polled before the next ball and leaves a ball in the over; a
  restarted server is polled before the next ball. `blind` marks what the code by its
  nature cannot place (a restart at an over break or after the winning run, or the id
  change of section 5.1) and what follows the defect below, `torn` an id change it
  cannot see (in the middle of a poll, before the first ball, around a restart) or
  whose transaction failed; the properties say nothing after them.
  The proof of `RecordIsRight` met a defect of the code. When an over has rolled on and
  the ticker carries its tail (`len(tail) > 0`), the tail is written, `prev.count` and
  `prev.score` move past it (`db.go:399-400`), and a run that is still missing is
  recovered in a second transaction. If that one is refused (`db.go:416-423`, the
  database locked), `prev.sig` still lacks the tail: the next poll takes the same balls
  for a tail again and writes them a second time after the first. Where they are worth
  more than what is missing, the runs to recover come out negative, nothing is
  recovered, and the innings has runs too many for good. It takes
  two balls or more of an over missed, one of them in the ticker, so overs of three
  balls: with `BPO = 3`, `MaxMissed = 2` and `Troubles = {"fault"}`, TLC finds it in a
  few seconds if `RecoveryFails` leaves `blind` alone. The theorem says that it is the
  only refused transaction that does harm.
- StreamQuality: the operator leaves *Start Streaming* alone while a step runs; the
  goroutine that clears the saved ladder is not delayed by a whole step.
- OnAir: a tick comes only when nothing is due, so a look and its cut are closer
  together than any of the code's sleeps; replays are as long as one another where
  the break's reel is to keep off them.
- Requests: an epoch is a number no other has (128 random bits in the code).
  Pairing: a request's number stands for its id, secret and code.
- Supervisor: LeaveReplay's two calls time out within the minute before the next try;
  one server on the machine.

Deadlock is not looked for: every bounded instance comes to an end when its bounds
are used up.

## 7. Fairness

Only where a goroutine or a timer of the code is behind it, and only for the part
chosen.

- ObsGuard: weak fairness of the guard's own step (a loop with a ticker), of a
  loading OBS coming up, and of the end of the job, a sequence of calls each with a
  time limit. Nothing makes OBS answer, the operator act, or a crash happen. The
  instance for liveness leaves out the faults that wipe the guard's memory or leave a
  question unanswered, and claims nothing under them.
- StreamQuality: weak fairness of the step and of the monitor, goroutines of the
  server, and of a stop that OBS accepted; hanging (a flush that outlives the code's
  patience) is still a behaviour, in which the operator is told.
- Supervisor: weak fairness of the watcher and of each thing the loop waits for.
  Strong fairness of Launch: not every try to start a process fails; and of LookAtOBS
  and CutBack: not every look at OBS in an endless series goes unanswered.
- OnAir: weak fairness of the replay's goroutine, camhold's way back, the reel and
  the watch; strong fairness of Tick, for time is not stopped by goroutines that are
  now and then due.
- FeedLink: weak fairness of the overlay's poll (the page's own timer), of a
  broadcast's answer, of the mirror and of time. Packets may still be lost, a bounded
  number of times.

No other module has fairness, and no liveness is claimed of it.

## 8. Proofs

TLAPS proves the following for every value of the constants that the named
assumptions allow, and so without the bounds of section 6. Every theorem about a
state is shown by an inductive invariant `IInv` (or `...Inv`): the initial states
have it, every action keeps it, it implies the property. TLC checked each of those
invariants on the instance of its run before it was proved.

**`Recovery_proofs`**, for `ObsGuard` (from `GuardAssumption`: caps and windows are positive numbers).

| theorem | says | argument |
|---|---|---|
| `TypeCorrect` | the type invariant | cut into flags, names, counts and ages, each inductive by itself, because the arithmetic prover and the Boolean one are different ones |
| `PendingWatched` | `PendingIsWatched` | `WatchInv`: away from idle the guard is armed too, which makes it inductive, since `pending` is set in the middle of a check |
| `Uninvited` | `NothingUninvited` | `AirInv`: all hearsay of a live stream (guard's, monitor's, the check's, the reopen's) implies that the operator once went live |
| `CrashUndone` | `OnlyACrashIsUndone` | `MarkerInv`: a marker without a running OBS means its last exit was a crash |
| `ReopensCapped` | `ReopensAreCapped` | `TallyInv`: the launches are among the attempts counted; ageing never makes the count grow (`AgeingShrinks`, by a surjection) |

**`Match_proofs`**, for `OnAir`: OnAir implements Picture. The hypotheses are formulas of `OnAir`,
not assumptions of the module, because the code does not always meet them: `Timed`
(lengths and waits are numbers, in the proportions of the code), `NamesApart`,
`OneLength` (all replays are as long; see section 5 for what happens otherwise), and
that the reel's patience is not a fault that may happen. MCMatch's instance meets all
of them, and TLC evaluates them there.

| theorem | says | argument |
|---|---|---|
| `Invariant` | `[]IInv` | `Promised`: each replay's goroutine has less to go than what is left of `playReplayUntil`, which only ever grows; `Trying`: one that cuts back has a try left |
| `NoPromiseNoReplay` | with no promise left, no replay is on its way, on screen or on its way back | from `Promised` |
| `LooksFirst` | `OnlyAfterALook`, the refinement | the initial state maps to Picture's; each action maps to a step of Picture or a stutter, one lemma per actor. The reel trusts `replayBusyUntil`, which the newest promise *replaces*: `Even` (`Alike`, `Measured`, `Covered`) says that under `OneLength` it covers every replay all the same |

**`Recovery_proofs`**, for `Talk` and `TalkSource` (from `TalkAssumption`: "nobody" and "off" are no phones, times are
numbers). A save or removal may fail at any time. The invariant says what
`talk_session.json` is worth if the last one landed: while commentary is on
it has the key and who is on air and is no older than the last save (`Fresh`); while it
is off there is none (`OffAir`); in an outage it is what the crash left, as old as the
outage and one save's delay at most (`Bequest`). Landed or not, it is no younger
than the outage, so nobody comes back after a long one, and one phone at most ever does.

| theorem | says |
|---|---|
| `OneVoiceAlways` | `OneVoice`: nobody is let on air beside another (`AtMostOne`), and a file names one phone, whichever save it is from |
| `ResumesRight` | `ResumeIsExact`, an action property: the step of TalkResume, from the invariant before it, failed saves included |
| `OneSourceAlways` (TalkSource; hypothesis `Numbered`: scenes and cameras are numbers) | `OneSource`: what a pass has read may be out of date, but in one way only. A scene it saw without the source has none until the pass comes to it (`SeenEmptyIsEmpty`), for nobody else adds it; and with no input of the name there is none anywhere (`NothingWithoutInput`) |

**`Match_proofs`**, for `BallLog` (from `FeedAssumption`: the overs' constants are positive numbers
and deliveries are records; `LogAssumption`: "no id" is no match's, and the balls between two
logged polls are fewer than an over has, which is as far as the code's recovery reaches).

| theorem | says | argument |
|---|---|---|
| `MatchAlwaysTogether` | `MatchTogether` | the property looks at the balls alone and is not inductive: the figures must follow too. `UnderIt`: whatever is there of the match is under the id the logger knows; `UnderOne`: or under one id, when the logger is new; `Following`: between following the id and the end of the poll, the logger's id is the operator's. Every write of the log is under that id (`OnlyUnderId`), and what FollowMatchID leaves behind is nothing (`MoveTogether`), because it stays behind only where no ball was bowled (`NotUnderway`) or the id it would move to is already the match's |
| `RecordAlwaysRight` | `RecordIsRight` | `Exact`, an invariant of what the log *fits*. A frame fits the log with `u` balls unseen in one of two ways: at a break (`Baseline`: the runs logged are the score remembered, and every ball since is in the ticker) or in an over (`OverInHand`: the ticker is that over with at most `u` balls more, or of the next one with the rest of it missing). The scorer's frame fits it with `unseen` balls; while a poll is in hand its frame fits it too, and the scorer's is `Within` so many balls of that one. One lemma per step: a ball scored keeps the fit with one ball more (`FitsBowled`, `WithinBowled`); a poll that meets the over rolled on writes the tail, what is missing of the runs, and the new over, and the sum of the rows is the score again (`TailWritten`, `OverRecovered`, `OverLogged`); a transaction refused half way leaves a log that the next poll still fits (`OverRefused`, `RecoveryFailsExact`, `RewriteFailsExact`), with the one exception below; `MoveMatch` takes the sums to the new id (`FitsMoved`); a restart that can place the next frame is a `Baseline` |

**`Book_proofs`** (from `BookAssumption`: two players a side at least, an order to bowl in,
overs of a ball at least, spells of an over at least; `SessionAssumption`: the balls pressed
are deliveries). Nothing bounds the overs, the sides, the logs or what is edited in them.

| theorem | says | argument |
|---|---|---|
| `BooksAlwaysBalance` | `BooksBalance` | `Right`: the accounts are kept at every stage of a delivery (`Charge`, `Dismiss`, `Cross`, `EndOver` have a lemma each), with the over under way beside the history; and the pair at the crease are among those who have batted, who are the top of the order, whichever batter was swapped in |
| `BookIsAlwaysReplay` | `BookIsReplay` | `SessionInv`: the log in memory and the one in the file read to their ends, and while nothing was edited every event of them is one the book accepted. It is inductive because a log that reads does so up to each of its events (`AllOfItIsRead`): an undo takes the book back to one of them, and a press adds one step to the replay (`RebuildOfAppend`) |
| `FiguresAreAlwaysHonest` | `FiguresAreHonest` | `TellsAll`, by induction over the events of a log: those who bowled in the over under way are those the book has written down, each has a figure of 0 just if he conceded nothing in it, and the maidens are the overs before it that were earned (`ToldBall`); and a ball of the chase was bowled at fewer runs than the first innings has now |

Induction over a log, and sums, rest on **`DataLemmas`**. The library states induction
with an operator for the property, which cannot be instantiated; there the property is a
*set*, and that the naturals are well-founded, as a relation, does the rest
(`SetInduction`). From it: a recursive function on `0..n` exists (`PrefixExists`), and the
fold that adds a function's values, which takes them in the order of CHOOSE, changes with
one value as a sum should (`TotalChanges`, `TotalOfAppend`), and the sum of two stretches is the sum of their sums (`TotalOfParts`).
`BallLog`'s proof rests on the same lemmas.

**`Live_proofs`**: what the run `live` checks of the launcher's loop (from
`SupervisorAssumption`), of its update and of the highlights video (no assumption).

| theorem | says | argument |
|---|---|---|
| `SupervisorTyped` | the type invariant | `RoomForAMiss`: a running server has a miss left, so the counter stays in range |
| `NoCut` | `NoCutUnderAServer` | `LoopPhase`: a server runs only while the loop waits, the cutter only while it rests |
| `OnlyALoop` | `OnlyALoopIsTold` | `Counts`: all but one of the restarts counted are rounds that never settled |
| `ACopyAlways` (Update) | `ACopyIsThere` | while this copy runs it is under the program's name until one goroutine moves it aside, and until it is moved back no other may, because Windows does not let them replace what runs (`OneSwap`, `Beside`); what is under the name meanwhile, whole or written over, is told by where that goroutine is (`Named`), and the old copy goes only when what was started has the port |
| `OneVideo` (Highlights) | `OncePerMatch` | there is never a second upload at work (`OneJob`, by the flag: `BusyIsSaid`); one that is not forced found no record, and none can appear beside it (`NoneRecorded`); a video the server has no record of is excused or in the hands of the job about to record it (`Counted`) |

**`Server_proofs`**: five parts of the server that the run `parts` checks.

| theorem | says | argument |
|---|---|---|
| `FeedCanReturn` (Rehearsal; hypothesis `ClubsOwn`: a club's own folder is not the simulator's) | `SourceCanReturn` | the property is not inductive: a practice that begins while the feed is still the simulator's saves the simulator's folder as the club's own. `BackInTime`: without a failed write the feed is put back before another may begin and before a restarted server is up; `NoteIsTheClubs`: until that has gone wrong, what is saved is the club's |
| `LoginsAlwaysHold` (Requests) | `LoginsHold` | a login was given under an epoch that no later one repeats (`NoneAhead`), and on the day it was given (`GivenNow`); memory and file have one epoch, but while a write of it is on its way (`FileAgrees`); with `AuthIsSound` a login is taken as it was given, and the table of routes, tried in order, lets a caller with none reach only what is anybody's or the overlay's (`RoutesInOrder`) |
| `AlwaysCaughtUp` (ScorerFile) | `CaughtUp` | the file's time is read before what it holds, so what a reader remembers under a time is at least as new as that time (`RememberedIsRead`); a poll that is out is as new as its beginning (`PollIsOfItsTime`) and so is what the overlay shows of it (`AnswerIsOfItsTime`). With the agent any number of polls are out at once: one that an older answer did not overtake is told "unchanged" only of a frame as new as the time it gave. The bridge reads the other way round, and the property excepts it |
| `PlayEndsIt` (BreakShow; hypothesis `PageStays`: no reload of the page, no lost POST, no start within a poll of an end; restarts of the server at any time) | `EndsWithPlay` | `BothKnow`: while the server's break is on, the overlay has it, or the command that gives it is there to be fetched, or word of its end is on its way; and no `break_end` waits beside that command, or one fetch would end the break just begun. Without the hypothesis it is false: run `break_over_play` |
| `ReadyAlwaysInTheEnd` (OBSReady) | `ReadyInTheEnd`, an action property | what it rests on, unless OBS was opened or a job begun in the middle of an edit (`raced`): OBS is closed while its files are edited (`ClosedWhileEdited`), so an OBS that runs has in memory what they say (`InMemory`); there is one password, in OBS's file, in config.ini and in the server (`OnePassword`); an OBS opened once more has a profile with the buffer switched on (`OnceMore`), or the job was hampered; and the marker is there for as long as the check is off (`MarkedWhileOff`) |

**`Quality_proofs`** (from `QualityAssumption`: a ladder of numbers, bitrates that are
not 0, waits that are numbers, and a judgement that needs two samples at least: the
code has three).

| theorem | says | argument |
|---|---|---|
| `QualityTypes` | types; nothing is stepped from, and no rung saved, before the club's bitrate is known | one lemma per kind of move; a judgement's memory is built from four operators (`Rebased`, `Based`, `Sampled`, `Spell`), each with a lemma on what it changes, and `Judged` on what they come to |
| `UpshiftEarned` | `UpshiftIsEarned`, under every fault of the model | `SpellIsProven`: with samples enough, the code's spell is no longer than the clean ticks counted at this rung, unless a step down was decided in it and not made; with fewer there is no spell |
| `StepsDoEndWell` | `StepsEndWell`, under every fault of the model | `OutputsInv`: outputs run in an OBS that runs, and an encoder exists exactly while one does; `EncoderInv`: the step sets the bitrate with all of them stopped, unless another started one (`mixed`); `ToldInv`: away from the places where the step itself will see to the stream (`InHand`), a stop not completed, and a stream a step took down, are told, or `deserted` |
| `LadderSaved` (hypothesis `NoPresses`: the panel's buttons are left alone) | `LadderIsSaved`, the body of `RungIsKept`, under every fault, failed saves included | `SavedInv`: a step is the monitor's own, which waits for it, so nothing judges meanwhile; the saved place is the one in memory but between the record and the save, after a save that failed (`unwritten`), and while a clearing is due, when the place is the top |

The hypothesis is not idle: the panel's step is not awaited by the monitor, which may
judge in the middle of it (`BaselineIsTheClubs`). Nor are the exceptions of section 5:
without `mixed`, `deserted` or `unwritten` TLC refutes each property at once.

**`Laptop_proofs`**: parts of the laptop that share nothing, one after the other.

| theorem | says | argument |
|---|---|---|
| `AnswersAlwaysKept` (Asker) | `AnswersAreKept` | `OneAnswer`: an answer in the channel was accepted for the question that is out, which is no longer up; one that is up has no answer yet |
| `NobodyEverWaitsInVain` (Lookups) | `NobodyWaitsInVain` | each end of a build takes its own flag down, and what is on the disk has none |
| `EditsAlwaysKept` (Store, from `StoreAssumption`: a thread either writes or only reads) | `EditsAreKept` | no copy with the file's stamp differs from the file (`CacheIsRight`, `CopiesAreRight`), so a writer that holds the lock has the newest state in hand from its load to its rename (`WritersAreRight`) |
| `StopsAlwaysForToday` (MatchDay) | `StopsAreForToday` | inductive with the types of launcher, stop channel and what was heard: every action of window, screen and launcher is gone through |
| `AskedAlwaysPolled` (Pairing) | `AskedIsPolled` | the loop leaves only at the end of a sweep, with nothing in hand |
| `ScreenAlwaysMinded` (ClubScreen; hypothesis `ScreenTimed`: an unlock lasts a number of ticks) | `ScreenIsMinded`, a part of `ReportsAreRight` | `RunsOut`: a screen nobody has touched for so many ticks has that much less of its unlock left, whatever its page asked by itself meanwhile (but for the question whether the match is scored by hand, asked in vain, which the property excepts as `polled`); `OnlyWatches`: a screen paired to watch has never commanded anything |
| `PinAlwaysHeld` (WidgetFeed, from `WidgetAssumption`) | `PinIsHeld` | from the overlay's binding of the cache to its answer, the cache stays bound to the pin it read (`Holds`), nobody binds over a call that is out (`CallsFit`), and a page has one goroutine that is its own (`OneFetch`) |

The proofs rest on no assumption but those named, each of which is in the module that
declares the constants and evaluated by TLC on the run of that module.

## 9. What is only model-checked

- **Liveness** (`ServerIsReplaced`, `ReplayIsLeft`, `StreamComesBack`,
  `LinkComesBack`, `ViewersGetItBack`): the proofs here treat neither fairness nor
  ENABLED.
- **Not proved yet**: `LayoutIsRight` (SelectSeq),
  `ChaptersFit`, `ResultIsRight`, `AirtimeIsHonest`, the other parts of `ReportsAreRight`, `HeardOnce`'s first half; see the plan.

## 10. What is not modelled

Each component of `PROJECT.json` with status `not_modelled` says why. In short: pages
and pictures (rendering, no state between calls); calls of remote services whose
failure is an empty section on a page; statistics in floating point; what runs once
before a match and is looked at by a person. The overlay watch is one timer that
reloads the browser source. The scorecards of the Results Vault, line-ups and the page
built from them are read once and shown.

The components with status `partly` leave out, besides wording and formats: in the
ball log, batters, extras and running totals of a row, the ten-minute limit of
FollowMatchID, two overlays at once; in the supervisor, the report offered at Stop; in
scenes on air, the clips' files and the ranking of the break's clips; in talk, the
tunnel and the certificate; in the feed, the scoreboard template; in the practice, the
simulator's frames; in the app, the scorer's laptop's role; in getting OBS ready, the
encoder and video settings, edits of the same files with nothing that depends on them;
in requests, the limits' clocks and Cloudflare; in the clubhouse screen, the packets that wake
a laptop and the proxy of the panel; in the records, what is worded of them; in the cards, awarded and abandoned
matches and the stars.

## 11. Plan

Done: the modules above, in the order of what a match can least survive: a wrong book,
a dead stream, a lost record, a dead server; then the picture, the voice, the feed, and
what goes on around them. Theorems first for what several goroutines do to one another.

Left, for the proofs:

1. `ResultIsRight`, `AirtimeIsHonest` and the rest of `ReportsAreRight`, whose invariants are long case analyses;
2. the refused recovery of section 6 in a run of its own, with overs of three balls.

And for the models: two overlays polling at once; the live figures on the ball log's feed, with its
ids and its two innings; ObsGuard and StreamQuality on one OBS, a crash in the middle of a step being seen
by both; the overlay watch. The violation runs may give their place to new passing runs
once what they show has been mended in the code.
