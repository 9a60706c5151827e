--------------------------------- MODULE OBS ---------------------------------
(***************************************************************************)
(* OBS Studio as the code in src/ meets it: a process that is opened, loads, *)
(* answers on its WebSocket, freezes, crashes or is closed; a crash marker   *)
(* (a run_ file in .sentinel) that only a clean exit deletes; and a stream that is    *)
(* live or not.  OBS itself is not part of the repository, so everything     *)
(* here is external; the operator's presses are the environment's.           *)
(***************************************************************************)
EXTENDS Integers, FiniteSets

CONSTANTS
    MaxCrashes,   \* bound on crashes and freezes in a behaviour
    MaxPresses    \* bound on what the operator does in a behaviour

VARIABLES
    proc,      \* "off", "loading" (port shut), "up", "frozen", "stuck"
    marker,    \* a crash marker is in .sentinel
    live,      \* the stream output is active
    lastExit,  \* how OBS last went away: "none", "clean", "crash"
    offBy,     \* history: what last took the stream off air
    everLive,  \* history: the operator has put the stream on air
    crashes, presses

obsVars == <<proc, marker, live, lastExit, offBy, everLive, crashes, presses>>

\* "frozen" is a hung window over an encoder that still sends; when "stuck"
\* nothing moves and OBS answers nobody.
Procs == {"off", "loading", "up", "frozen", "stuck"}
Running == proc # "off"
Hung == proc \in {"frozen", "stuck"}

OBSTypeOK ==
    /\ proc \in Procs /\ marker \in BOOLEAN /\ live \in BOOLEAN
    /\ lastExit \in {"none", "clean", "crash"}
    /\ offBy \in {"never", "operator", "crash", "shift"}
    /\ everLive \in BOOLEAN /\ crashes \in Nat /\ presses \in Nat

OBSInit ==
    /\ proc = "off" /\ live = FALSE
    \* OBS may have crashed on an earlier day.
    /\ \/ marker = FALSE /\ lastExit = "none"
       \/ marker = TRUE /\ lastExit = "crash"
    /\ offBy = "never" /\ everLive = FALSE
    /\ crashes = 0 /\ presses = 0

-----------------------------------------------------------------------------
(* What OBS does by itself. *)

Loaded ==
    /\ proc = "loading" /\ proc' = "up"
    /\ UNCHANGED <<marker, live, lastExit, offBy, everLive, crashes, presses>>

\* The process dies and leaves its marker; a live stream goes with it.
Dies == /\ proc' = "off" /\ live' = FALSE /\ lastExit' = "crash"
        /\ offBy' = IF live THEN "crash" ELSE offBy

Crash ==
    /\ Running /\ crashes < MaxCrashes
    /\ Dies
    /\ crashes' = crashes + 1
    /\ UNCHANGED <<marker, everLive, presses>>

Freeze ==
    /\ proc = "up" /\ crashes < MaxCrashes
    /\ proc' \in {"frozen", "stuck"}
    /\ crashes' = crashes + 1
    /\ UNCHANGED <<marker, live, lastExit, offBy, everLive, presses>>

Thaw ==
    /\ Hung /\ proc' = "up"
    /\ UNCHANGED <<marker, live, lastExit, offBy, everLive, crashes, presses>>

-----------------------------------------------------------------------------
(* What the operator does at the laptop or from the panel. *)

Press == presses < MaxPresses /\ presses' = presses + 1

Open ==
    /\ proc = "off" /\ Press
    /\ proc' = "loading" /\ marker' = TRUE
    /\ UNCHANGED <<live, lastExit, offBy, everLive, crashes>>

CleanExit == /\ proc' = "off" /\ marker' = FALSE /\ live' = FALSE
             /\ lastExit' = "clean"
             /\ offBy' = IF live THEN "operator" ELSE offBy

Close ==
    /\ proc = "up" /\ Press
    /\ CleanExit
    /\ UNCHANGED <<everLive, crashes>>

GoLive ==
    /\ proc = "up" /\ ~live /\ Press
    /\ live' = TRUE /\ everLive' = TRUE
    /\ UNCHANGED <<proc, marker, lastExit, offBy, crashes>>

StopLive ==
    /\ proc = "up" /\ live /\ Press
    /\ live' = FALSE /\ offBy' = "operator"
    /\ UNCHANGED <<proc, marker, lastExit, everLive, crashes>>
=============================================================================
