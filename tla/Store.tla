-------------------------------- MODULE Store --------------------------------
(***************************************************************************)
(* match_state.json (internal/server/state.go): every setting of the panel   *)
(* and every memory of a restart goes through it.  The server's threads read  *)
(* it through a cache and change it one at a time; the file is replaced by a       *)
(* rename, so a crash leaves the old one or the new one; the launcher writes  *)
(* a new day's over it, and the server's start seeds it from config.ini.      *)
(***************************************************************************)
EXTENDS Naturals

CONSTANTS
    Writers, Readers,   \* the server's threads that update and that only load
    PanelOnly, Mapped,       \* fields the panel owns; fields config.ini has as well
    Values,             \* what an edit may set a field to, "default" among them
    MaxStamp,           \* bound on the times the file is written
    MaxFaults,          \* bound on crashes and failed writes
    Faults              \* of {"write", "crash"}

ASSUME StoreAssumption ==
    /\ Writers \cap Readers = {} /\ "free" \notin Writers
    /\ MaxStamp \in Nat /\ MaxFaults \in Nat

Fields == PanelOnly \cup Mapped
Threads == Writers \cup Readers
Config == "config"      \* what config.ini says
Nothing == [f \in Fields |-> "default"]

VARIABLES
    up,          \* the server runs
    stateFile, stamp,   \* match_state.json and its time
    cache,       \* stateCache and stateCacheKey: [stamp, state]; stamp 0 for none
    lock,        \* stateRMWMu: its holder, or "free"
    at,          \* each thread: "idle", "stat", "read", "loaded", "renamed"
    seen,        \* the stamp it found
    mine,        \* the state it has in hand
    edit,        \* what a writer is to change: [field, value]
    faults,
    lastEdit     \* history: the last value saved for each field by an edit of this day

thread == <<at, seen, mine, edit>>
store == <<up, stateFile, stamp, cache, lock, thread, faults, lastEdit>>

NoEdit == [field |-> "none", value |-> "none"]
NoCache == [stamp |-> 0, state |-> Nothing]
Idle == /\ at' = [t \in Threads |-> "idle"] /\ seen' = [t \in Threads |-> 0]
        /\ mine' = [t \in Threads |-> Nothing] /\ edit' = [t \in Writers |-> NoEdit]

StoreInit ==
    /\ up = FALSE /\ stateFile = Nothing /\ stamp = 1 /\ cache = NoCache /\ lock = "free"
    /\ at = [t \in Threads |-> "idle"] /\ seen = [t \in Threads |-> 0]
    /\ mine = [t \in Threads |-> Nothing] /\ edit = [t \in Writers |-> NoEdit]
    /\ faults = 0 /\ lastEdit = [f \in Fields |-> "none"]

Fault(kind) == kind \in Faults /\ faults < MaxFaults /\ faults' = faults + 1

-----------------------------------------------------------------------------
(* The launcher's ReplaceState, and the server's start.                       *)

\* BuildState over LoadExistingState: the panel's own settings ride through.
NewDay ==
    /\ ~up /\ stamp < MaxStamp /\ stamp' = stamp + 1
    /\ stateFile' = [f \in Fields |-> IF f \in Mapped THEN Config ELSE stateFile[f]]
    /\ lastEdit' = [f \in Fields |-> IF f \in Mapped THEN "none" ELSE lastEdit[f]]
    /\ UNCHANGED <<up, cache, lock, thread, faults>>

Blank(v) == v = "default"

Seeded == [f \in Fields |-> IF f \in Mapped /\ Blank(stateFile[f]) THEN Config ELSE stateFile[f]]

\* SeedStateFromConfig, before any thread is started.
Start ==
    /\ ~up /\ up' = TRUE /\ stamp < MaxStamp
    /\ stateFile' = Seeded
    /\ stamp' = IF Seeded = stateFile THEN stamp ELSE stamp + 1
    /\ cache' = [stamp |-> stamp', state |-> Seeded]
    /\ UNCHANGED <<lock, thread, faults, lastEdit>>

Ends == up' = FALSE /\ cache' = NoCache /\ lock' = "free" /\ Idle

Stop ==
    /\ up /\ (\A t \in Writers : at[t] = "idle") /\ Ends
    /\ UNCHANGED <<stateFile, stamp, faults, lastEdit>>

Crash == up /\ Fault("crash") /\ Ends /\ UNCHANGED <<stateFile, stamp, lastEdit>>

-----------------------------------------------------------------------------
(* LoadState, of a reader and inside UpdateState.                             *)

Moves(t, from, to) == up /\ at[t] = from /\ at' = [at EXCEPT ![t] = to]

ReadBegins(t) ==
    /\ t \in Readers /\ Moves(t, "idle", "stat")
    /\ UNCHANGED <<up, stateFile, stamp, cache, lock, seen, mine, edit, faults, lastEdit>>

\* Mutant: an update does not wait for another one's.
FreeAlways == TRUE

Free == lock = "free"

UpdateBegins(t, f, v) ==
    /\ t \in Writers /\ Free /\ stamp < MaxStamp /\ Moves(t, "idle", "stat")
    /\ lock' = t /\ edit' = [edit EXCEPT ![t] = [field |-> f, value |-> v]]
    /\ UNCHANGED <<up, stateFile, stamp, cache, seen, mine, faults, lastEdit>>

Stat(t) ==
    /\ Moves(t, "stat", "look") /\ seen' = [seen EXCEPT ![t] = stamp]
    /\ UNCHANGED <<up, stateFile, stamp, cache, lock, mine, edit, faults, lastEdit>>

Cached(t) == cache.stamp = seen[t]

UseCache(t) ==
    /\ Moves(t, "look", "loaded") /\ Cached(t) /\ mine' = [mine EXCEPT ![t] = cache.state]
    /\ UNCHANGED <<up, stateFile, stamp, cache, lock, seen, edit, faults, lastEdit>>

Read(t) ==
    /\ Moves(t, "look", "read") /\ ~Cached(t) /\ mine' = [mine EXCEPT ![t] = stateFile]
    /\ UNCHANGED <<up, stateFile, stamp, cache, lock, seen, edit, faults, lastEdit>>

KeepRead(t) ==
    /\ Moves(t, "read", "loaded") /\ cache' = [stamp |-> seen[t], state |-> mine[t]]
    /\ UNCHANGED <<up, stateFile, stamp, lock, seen, mine, edit, faults, lastEdit>>

ReadEnds(t) ==
    /\ t \in Readers /\ Moves(t, "loaded", "idle") /\ mine' = [mine EXCEPT ![t] = Nothing]
    /\ UNCHANGED <<up, stateFile, stamp, cache, lock, seen, edit, faults, lastEdit>>

-----------------------------------------------------------------------------
(* SaveState.                                                                 *)

Unlock(t) == lock' = "free" /\ edit' = [edit EXCEPT ![t] = NoEdit]

Rename(t) ==
    LET e == edit[t]  next == [mine[t] EXCEPT ![e.field] = e.value] IN
    /\ t \in Writers /\ Moves(t, "loaded", "renamed")
    /\ stateFile' = next /\ stamp' = stamp + 1 /\ mine' = [mine EXCEPT ![t] = next]
    /\ lastEdit' = [lastEdit EXCEPT ![e.field] = e.value]
    /\ UNCHANGED <<up, cache, lock, seen, edit, faults>>

KeepSaved(t) ==
    /\ t \in Writers /\ Moves(t, "renamed", "idle")
    /\ cache' = [stamp |-> stamp, state |-> mine[t]] /\ Unlock(t)
    /\ UNCHANGED <<up, stateFile, stamp, seen, mine, faults, lastEdit>>

\* The disk is full, or Windows refuses every rename: UpdateState does not say so.
SaveFails(t) ==
    /\ t \in Writers /\ Moves(t, "loaded", "idle") /\ Fault("write") /\ Unlock(t)
    /\ UNCHANGED <<up, stateFile, stamp, cache, seen, mine, lastEdit>>

-----------------------------------------------------------------------------
StoreNext ==
    \/ NewDay \/ Start \/ Stop \/ Crash
    \/ \E t \in Writers : \/ Rename(t) \/ KeepSaved(t) \/ SaveFails(t)
                          \/ \E f \in Fields, v \in Values : UpdateBegins(t, f, v)
    \/ \E t \in Readers : ReadBegins(t) \/ ReadEnds(t)
    \/ \E t \in Threads : Stat(t) \/ UseCache(t) \/ Read(t) \/ KeepRead(t)

StoreSpec == StoreInit /\ [][StoreNext]_store

-----------------------------------------------------------------------------
\* What somebody set and was saved is there until somebody sets it again or a new day begins:
\* through updates of other fields by other threads, the cache, failed writes and crashes.
EditsAreKept ==
    \A f \in Fields : lastEdit[f] \notin {"none", "default"} => stateFile[f] = lastEdit[f]

\* "Panel edits win: once a field has changed from its default, config.ini no longer overwrites
\* it" (state.go:334).
PanelEditsWin == \A f \in Mapped : lastEdit[f] # "none" => stateFile[f] = lastEdit[f]
=============================================================================
