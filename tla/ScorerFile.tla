------------------------------ MODULE ScorerFile -----------------------------
(***************************************************************************)
(* The scorer's file on its way to the overlay (scorerfile.go): NV Play        *)
(* rewrites it on every ball, in a folder that has to be found, and the server  *)
(* reads it there (pcs.go ReadPCSFile), or the scorer agent does (agent.go), or  *)
(* the bridge does and the server mirrors what it sends (bridge.go,            *)
(* agentclient.go).  What is read is remembered under the file's time, and not  *)
(* read again while that time stands.                                        *)
(*                                                                         *)
(* A frame is the number of a ball; a file's time is a count of the writes.     *)
(***************************************************************************)
EXTENDS Naturals

CONSTANTS
    Ways,        \* of {"folder", "agent", "bridge"}
    Pollers,     \* what polls: the overlay its score, the panel its preview (/live, /live/view)
    MaxBalls,    \* bound on the balls
    MaxMishaps   \* bound on what goes wrong: calls lost, pauses of ten minutes, restarts

NoFrame == 0
Torn == MaxBalls + 1     \* what a file caught in the middle of a write holds: it does not parse
Nowhere == "none"

VARIABLES
    club,        \* [way: how it comes, known: the file has one of NV Play's own names
                 \* (OutputFilenames), pcs: another folder holds a file of last season's]
    nv,          \* NV Play's folder: [frame, mt] of its file
    aged,        \* nothing has been written for ten minutes
    found,       \* scorer_agent.json
    folder,      \* the folder that is read
    guessed,     \* it was chosen while nothing was being written
    poll,        \* each poll: [at, since: the time it gives the agent, mt: the time it was given, got,
                 \* tries, from: when it began, overtaken: what was remembered has become an older
                 \* frame since (history)]
    cache,       \* [mt, frame]: pcsLastMtime and pcsLastState, or the agent's
    bridge,      \* a call of the bridge's: [at, got, mt, from]
    mirror,      \* [mt, frame]: the bridge's copy
    synced,      \* when the last of its calls to succeed began
    shown,       \* [frame, from, overtaken]: the last answer
    clock,       \* writes so far
    mishaps

scorerFile == <<club, nv, aged, found, folder, guessed, poll, cache, bridge, mirror, synced,
               shown, clock, mishaps>>

NoPoll == [at |-> "no", since |-> 0, mt |-> 0, got |-> NoFrame, tries |-> 0, from |-> 0,
           overtaken |-> FALSE]
NoCall == [at |-> "no", got |-> NoFrame, mt |-> 0, from |-> 0]
Mishap == mishaps < MaxMishaps /\ mishaps' = mishaps + 1

FileInit ==
    /\ club \in [way : Ways, known : BOOLEAN, pcs : BOOLEAN]
    /\ club.pcs => club.way = "agent"     \* the others' folder is typed
    /\ nv = [frame |-> NoFrame, mt |-> 0] /\ aged = FALSE
    /\ found = Nowhere /\ folder = Nowhere /\ guessed = FALSE
    /\ poll = [p \in Pollers |-> NoPoll] /\ cache = [mt |-> 0, frame |-> NoFrame]
    /\ bridge = NoCall /\ mirror = [mt |-> 0, frame |-> NoFrame] /\ synced = 0
    /\ shown = [frame |-> NoFrame, from |-> 0, overtaken |-> FALSE] /\ clock = 0 /\ mishaps = 0

-----------------------------------------------------------------------------
(* NV Play: a ball is two writes, the first of which empties the file.         *)

Whole == nv.frame # Torn
Balls == clock \div 2

Writes(frame) ==
    /\ nv' = [frame |-> frame, mt |-> clock + 1] /\ clock' = clock + 1 /\ aged' = FALSE
    /\ UNCHANGED <<club, found, folder, guessed, poll, cache, bridge, mirror, synced, shown, mishaps>>

Empties == Whole /\ Balls < MaxBalls /\ Writes(Torn)
Fills == ~Whole /\ Writes(Balls + 1)

GoesQuiet ==
    /\ Whole /\ nv.mt # 0 /\ ~aged /\ Mishap /\ aged' = TRUE
    /\ UNCHANGED <<club, nv, found, folder, guessed, poll, cache, bridge, mirror, synced, shown, clock>>

-----------------------------------------------------------------------------
(* Find, HasScoreboard, Autodetect and FindFolder.                             *)

\* A name of NV Play's own whatever its age, any other if it is younger than ten minutes.
Find(f) == \/ f = "nv" /\ nv.mt # 0 /\ (club.known \/ ~aged)
           \/ f = "pcs" /\ club.known

HasScoreboard(f) == IF f = "nv" THEN nv.mt # 0 ELSE club.pcs
IsLive(f) == f = "nv" /\ nv.mt # 0 /\ ~aged

\* A folder written to in the last ten minutes, or any that holds a scoreboard.
Autodetect ==
    IF IsLive("nv") THEN {"nv"} ELSE {f \in {"pcs", "nv"} : HasScoreboard(f)}

\* The agent's is the one remembered, or found as it starts and remembered; the others' is typed.
FindFolder ==
    /\ folder = Nowhere
    /\ \E f \in IF club.way # "agent" THEN {"nv"} ELSE IF found # Nowhere THEN {found} ELSE Autodetect :
        folder' = f /\ found' = f
    /\ guessed' = (guessed \/ (club.way = "agent" /\ found = Nowhere /\ ~IsLive("nv")))
    /\ UNCHANGED <<club, nv, aged, poll, cache, bridge, mirror, synced, shown, clock, mishaps>>

\* The folder is chosen again, from what is remembered, and what was read is forgotten.
ReaderRestart ==
    /\ folder # Nowhere /\ Mishap /\ folder' = Nowhere
    /\ poll' = [p \in Pollers |-> NoPoll] /\ cache' = [mt |-> 0, frame |-> NoFrame] /\ bridge' = NoCall
    /\ UNCHANGED <<club, nv, aged, found, guessed, mirror, synced, shown, clock>>

-----------------------------------------------------------------------------
(* The polls.  A folder's file is read by one of them at a time (pcsMu); the     *)
(* agent by any number, for agentMu is let go for the call.                      *)

Polls == UNCHANGED <<club, nv, aged, found, folder, guessed, bridge, mirror, synced, clock>>
Agent == club.way = "agent"

\* The file that is read: NV Play's, last season's, or the mirror's.
File == IF club.way = "bridge" THEN mirror
        ELSE IF folder = "pcs" THEN [mt |-> 0, frame |-> NoFrame] ELSE nv
There == IF club.way = "bridge" THEN mirror.mt # 0 ELSE Find(folder)

\* Whoever waits for the lock has not begun.
InTurn == Agent \/ \A q \in Pollers : poll[q].at = "no"

\* The time that is known: as the call to the agent began, or now.
Remembered(p) == IF Agent THEN poll[p].since ELSE cache.mt

\* An answer that remembers an older frame overtakes the polls that are still out.
Answer(p, frame, from) ==
    /\ shown' = [frame |-> frame, from |-> from, overtaken |-> poll[p].overtaken]
    /\ poll' = [q \in Pollers |-> IF q = p THEN NoPoll ELSE
                   [poll[q] EXCEPT !.overtaken = @ \/ (poll[q].at # "no" /\ cache'.mt < cache.mt)]]

Begin(p) ==
    /\ Polls /\ poll[p].at = "no" /\ InTurn /\ folder # Nowhere
    /\ poll' = [poll EXCEPT ![p] = [NoPoll EXCEPT !.at = "stat", !.since = IF Agent THEN cache.mt ELSE 0,
                                  !.from = IF club.way = "bridge" THEN synced ELSE clock]]
    /\ UNCHANGED <<cache, shown, mishaps>>

\* The time of the file, before what it holds; one that is known already is not read, and the
\* agent tells so, or that there is no file.
Stat(p) ==
    /\ Polls /\ poll[p].at = "stat" /\ UNCHANGED <<cache, mishaps>>
    /\ IF There /\ File.mt # Remembered(p)
       THEN poll' = [poll EXCEPT ![p].at = "read", ![p].mt = File.mt] /\ UNCHANGED shown
       ELSE IF Agent THEN poll' = [poll EXCEPT ![p].at = "told"] /\ UNCHANGED shown
       ELSE Answer(p, IF There THEN cache.frame ELSE NoFrame, poll[p].from)

\* The agent reads three times what is empty.
Read(p) ==
    /\ Polls /\ poll[p].at = "read" /\ UNCHANGED <<cache, shown, mishaps>>
    /\ IF Agent /\ File.frame = Torn /\ poll[p].tries < 2
       THEN poll' = [poll EXCEPT ![p].tries = @ + 1]
       ELSE poll' = [poll EXCEPT ![p].at = "parse", ![p].got = File.frame]

\* Mutant: it is remembered under the time the file has by then.
ParsedLate(p) ==
    IF poll[p].at = "told" \/ poll[p].got = Torn THEN UNCHANGED cache
    ELSE cache' = [mt |-> File.mt, frame |-> poll[p].got]

\* What parses is remembered under the time that came before it, newer or older than what was
\* remembered; otherwise the last frame stands.
Parsed(p) ==
    IF poll[p].at = "told" \/ poll[p].got = Torn THEN UNCHANGED cache
    ELSE cache' = [mt |-> poll[p].mt, frame |-> poll[p].got]

\* A call to the agent may be lost on its way back.
Parse(p) ==
    /\ Polls /\ poll[p].at \in {"parse", "told"}
    /\ \/ Parsed(p) /\ Answer(p, cache'.frame, poll[p].from) /\ UNCHANGED mishaps
       \/ Agent /\ Mishap /\ UNCHANGED cache /\ Answer(p, cache.frame, 0)

-----------------------------------------------------------------------------
(* The bridge: it reads the file, and its time; pcsBridgeTick keeps both.      *)

Bridges == club.way = "bridge" /\ UNCHANGED <<club, nv, aged, found, folder, guessed, poll, cache, shown, clock>>

BridgeReads ==
    /\ Bridges /\ bridge.at = "no" /\ folder # Nowhere /\ Find(folder)
    /\ bridge' = [at |-> "stat", got |-> nv.frame, mt |-> 0, from |-> clock]
    /\ UNCHANGED <<mirror, synced, mishaps>>

BridgeStats ==
    /\ Bridges /\ bridge.at = "stat" /\ bridge' = [bridge EXCEPT !.at = "answer", !.mt = nv.mt]
    /\ UNCHANGED <<mirror, synced, mishaps>>

\* Renamed into place, with this laptop's time (one no file has) until it is given the other's.
Mirror ==
    /\ Bridges /\ bridge.at = "answer" /\ UNCHANGED synced
    /\ \/ /\ bridge' = [bridge EXCEPT !.at = "time"] /\ UNCHANGED mishaps
          /\ mirror' = [mt |-> 2 * MaxBalls + 1 + clock, frame |-> bridge.got]
       \/ Mishap /\ bridge' = NoCall /\ UNCHANGED mirror

KeepTime ==
    /\ Bridges /\ bridge.at = "time" /\ bridge' = NoCall /\ synced' = bridge.from
    /\ mirror' = [mirror EXCEPT !.mt = bridge.mt] /\ UNCHANGED mishaps

-----------------------------------------------------------------------------
Feed == \E p \in Pollers : Begin(p) \/ Stat(p) \/ Read(p) \/ Parse(p)
Bridge == BridgeReads \/ BridgeStats \/ Mirror \/ KeepTime

FileNext == Empties \/ Fills \/ GoesQuiet \/ FindFolder \/ ReaderRestart \/ Feed \/ Bridge

FileSpec == FileInit /\ [][FileNext]_scorerFile

\* What a poll begun after the scorer's last write answers is that ball, however the polls fell
\* between the writes, the file's time, the calls and each other: except where the folder was guessed
\* at before anything was written, or a file of another name has aged, and except a poll overtaken
\* by the late answer to an older call to the agent, which is told "unchanged" and answers with that.
\* Not with the bridge, which takes the file's time after what it holds: a ball written between the
\* two is shown with the next.
CaughtUp ==
    shown.from = clock /\ Whole /\ clock # 0 /\ club.way # "bridge" =>
        shown.frame = nv.frame \/ guessed \/ (aged /\ ~club.known) \/ shown.overtaken
==============================================================================
