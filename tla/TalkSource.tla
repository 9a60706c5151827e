------------------------------ MODULE TalkSource ------------------------------
(***************************************************************************)
(* talkEnsureOBS (talk.go): the Commentary source is put into every match    *)
(* scene, and a filter on each camera, by a pass that runs again and again.  *)
(* Each request is a connection of its own, which may be refused, or lose    *)
(* its answer after OBS has done what it asked.                              *)
(***************************************************************************)
EXTENDS Naturals

CONSTANTS
    Scenes,      \* the match scenes OBS has, as numbers: the order they are gone through
    Cams,        \* the cameras OBS has, as numbers
    MaxReloads,  \* of the page, until it connects
    MaxEdits,    \* bound: changes the operator makes in OBS
    MaxFaults    \* bound: calls that go wrong

VARIABLES
    items, filters,   \* OBS: how often the source is in each scene, the filter on each camera
    input,            \* OBS: there is an input of the name
    connected,        \* its page is at /talk/out
    wanted,           \* commentary is switched on
    pass,             \* "idle", "list", "read", "create", "scenes", "cameras", "reload"
    sawInput, sawItem, sawFilter,   \* what the pass read: "yes", "no" or "unknown"
    todo,             \* scenes or cameras it has not come to
    reloads, ready,
    edits, wrongs

obs == <<items, filters, input>>
read == <<sawInput, sawItem, sawFilter>>
talkSource == <<obs, connected, wanted, pass, read, todo, reloads, ready, edits, wrongs>>

Numbered == Scenes \subseteq Nat /\ Cams \subseteq Nat

Unread(S) == [s \in S |-> "unknown"]
Truth(n) == IF n > 0 THEN "yes" ELSE "no"

SourceInit ==
    /\ items = [s \in Scenes |-> 0] /\ filters = [c \in Cams |-> 0] /\ input = FALSE
    /\ connected = FALSE /\ wanted = FALSE /\ pass = "idle"
    /\ sawInput = FALSE /\ sawItem = Unread(Scenes) /\ sawFilter = Unread(Cams)
    /\ todo = {} /\ reloads = 0 /\ ready = FALSE /\ edits = 0 /\ wrongs = 0

Wrong == wrongs < MaxFaults /\ wrongs' = wrongs + 1
Ends(isReady) == pass' = "idle" /\ todo' = {} /\ ready' = isReady

\* A pass under way is not stopped by the switch.
Switch ==
    /\ wanted' = ~wanted
    /\ IF wanted THEN UNCHANGED <<reloads, ready>> ELSE reloads' = 0 /\ ready' = FALSE
    /\ UNCHANGED <<obs, connected, pass, read, todo, edits, wrongs>>

\* talkTick: one pass at a time.
Due ==
    /\ wanted /\ pass = "idle" /\ pass' = "list"
    /\ UNCHANGED <<obs, connected, wanted, read, todo, reloads, ready, edits, wrongs>>

InPass(at) == pass = at /\ UNCHANGED <<connected, wanted, edits>>

ListScenes ==
    /\ InPass("list") /\ UNCHANGED <<obs, sawItem, sawFilter, reloads>>
    /\ \/ Wrong /\ Ends(FALSE) /\ UNCHANGED sawInput
       \/ pass' = "read" /\ sawInput' = input /\ UNCHANGED <<todo, ready, wrongs>>

\* The lists of items and filters, together; any of them may be refused.
ReadAll ==
    /\ InPass("read") /\ UNCHANGED <<obs, sawInput, reloads>>
    /\ \/ Wrong /\ Ends(FALSE) /\ UNCHANGED <<sawItem, sawFilter>>
       \/ /\ pass' = "create" /\ UNCHANGED <<todo, ready>>
          /\ \/ /\ sawItem' = [s \in Scenes |-> Truth(items[s])]
                /\ sawFilter' = [c \in Cams |-> Truth(filters[c])] /\ UNCHANGED wrongs
             \/ /\ \E s \in Scenes : sawItem' = [[t \in Scenes |-> Truth(items[t])] EXCEPT ![s] = "unknown"]
                /\ sawFilter' = [c \in Cams |-> Truth(filters[c])] /\ Wrong
             \/ /\ sawItem' = [s \in Scenes |-> Truth(items[s])]
                /\ \E c \in Cams : sawFilter' = [[d \in Cams |-> Truth(filters[d])] EXCEPT ![c] = "unknown"]
                /\ Wrong

First == CHOOSE s \in Scenes : \A t \in Scenes : s <= t

\* CreateInput makes the source and puts it into the first scene; a name OBS has already,
\* it refuses.
Create ==
    /\ InPass("create") /\ UNCHANGED <<filters, read, reloads>>
    /\ \/ /\ sawInput /\ pass' = "scenes" /\ todo' = Scenes
          /\ UNCHANGED <<items, input, ready, wrongs>>
       \/ /\ ~sawInput /\ ~input /\ input' = TRUE /\ items' = [items EXCEPT ![First] = @ + 1]
          /\ \/ pass' = "scenes" /\ todo' = Scenes \ {First} /\ UNCHANGED <<ready, wrongs>>
             \/ Wrong /\ Ends(FALSE)
       \/ ~sawInput /\ (input \/ Wrong) /\ Ends(FALSE) /\ UNCHANGED <<items, input>>
          /\ (input => UNCHANGED wrongs)

Next1 == CHOOSE s \in todo : \A t \in todo : s <= t
Onward(next, all) == IF todo = {Next1} THEN pass' = next /\ todo' = all
                     ELSE pass' = pass /\ todo' = todo \ {Next1}

\* Mutant: a list OBS refused reads like an empty one.
MissingOrUnknown(seen) == seen # "yes"

Missing(seen) == seen = "no"

AddToScene ==
    /\ InPass("scenes") /\ UNCHANGED <<filters, input, read, reloads, ready>>
    /\ IF todo = {} THEN pass' = "cameras" /\ todo' = Cams /\ UNCHANGED <<items, wrongs>>
       ELSE /\ Onward("cameras", Cams)
            /\ \/ ~Missing(sawItem[Next1]) /\ UNCHANGED <<items, wrongs>>
               \/ Missing(sawItem[Next1]) /\ input /\ items' = [items EXCEPT ![Next1] = @ + 1] /\ UNCHANGED wrongs
               \/ Missing(sawItem[Next1]) /\ ~input /\ UNCHANGED <<items, wrongs>>
               \/ Missing(sawItem[Next1]) /\ Wrong /\ UNCHANGED items

\* OBS refuses a second filter of one name.
AddFilter ==
    /\ InPass("cameras") /\ UNCHANGED <<items, input, read, reloads, ready>>
    /\ Onward("reload", {})
    /\ \/ ~Missing(sawFilter[Next1]) /\ UNCHANGED <<filters, wrongs>>
       \/ Missing(sawFilter[Next1]) /\ filters' = [filters EXCEPT ![Next1] = 1] /\ UNCHANGED wrongs
       \/ Missing(sawFilter[Next1]) /\ Wrong /\ UNCHANGED filters

\* A page that is not there is reloaded, a few times.  The pass ends.
Reload ==
    /\ InPass("reload") /\ UNCHANGED <<obs, read, wrongs>> /\ Ends(TRUE)
    /\ \/ ~connected /\ reloads < MaxReloads /\ reloads' = reloads + 1
       \/ UNCHANGED reloads    \* it is there, or it has not been waited for long enough

\* talkOutWS: the page comes and goes.
Page ==
    /\ connected' = ~connected /\ (~connected => input)
    /\ reloads' = IF ~connected THEN 0 ELSE reloads
    /\ UNCHANGED <<obs, wanted, pass, read, todo, ready, edits, wrongs>>

\* In OBS, the operator takes the source out of a scene, or a filter off, or deletes it all.
Edit ==
    /\ edits < MaxEdits /\ edits' = edits + 1
    /\ \/ \E s \in Scenes : items[s] > 0 /\ items' = [items EXCEPT ![s] = 0] /\ UNCHANGED <<filters, input>>
       \/ \E c \in Cams : filters[c] > 0 /\ filters' = [filters EXCEPT ![c] = 0] /\ UNCHANGED <<items, input>>
       \/ input /\ input' = FALSE /\ items' = [s \in Scenes |-> 0] /\ UNCHANGED filters
    /\ UNCHANGED <<connected, wanted, pass, read, todo, reloads, ready, wrongs>>

\* A server that dies in the middle of a pass; TalkResume finds commentary on.
ServerDies ==
    /\ wanted /\ Ends(FALSE) /\ reloads' = 0 /\ connected' = FALSE
    /\ UNCHANGED <<obs, wanted, read, edits, wrongs>>

SourceNext == Due \/ ListScenes \/ ReadAll \/ Create \/ AddToScene \/ AddFilter \/ Reload
        \/ Switch \/ Page \/ Edit \/ ServerDies

SourceSpec == SourceInit /\ [][SourceNext]_talkSource

-----------------------------------------------------------------------------
\* The source is never twice in a scene, whatever OBS refuses, whatever answer is lost and
\* however often the pass runs: it would stay in the club's collection for good.
OneSource == \A s \in Scenes : items[s] <= 1
===============================================================================
