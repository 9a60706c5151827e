------------------------------- MODULE Asker --------------------------------
(***************************************************************************)
(* The window's questions (internal/app/ask.go): whoever has one waits for   *)
(* its answer, one question at a time; the window's page and the clubhouse   *)
(* screen both show it and both may answer, each from what it saw last; and  *)
(* once the window has gone every question takes its default.                *)
(***************************************************************************)
EXTENDS Naturals

CONSTANTS
    Asking,        \* who may have a question: match day, a check that panicked
    Pages,         \* what shows it: the window's page, the clubhouse screen
    MaxQuestions   \* bound on nextID

ASSUME AskerAssumption == MaxQuestions \in Nat

VARIABLES
    turn,      \* "idle", "queued" for the lock one, "waiting", "leaving" with an answer, "back"
    nextID,
    current,   \* the id of the question showing, 0 for none
    slot,      \* its channel: the one answer it holds, or "none"
    gone,      \* the window has closed: closed, and the channel gone with it
    sees,      \* the id each page shows
    accepted,  \* history: the answers Answer said yes to, by question
    got        \* history: what each question returned

asker == <<turn, nextID, current, slot, gone, sees, accepted, got>>

Ids == 1..MaxQuestions
Default == "default"

AskerInit ==
    /\ turn = [p \in Asking |-> "idle"] /\ nextID = 0
    /\ current = 0 /\ slot = "none" /\ gone = FALSE
    /\ sees = [g \in Pages |-> 0]
    /\ accepted = [i \in Ids |-> "none"] /\ got = [i \in Ids |-> "none"]

Turns(p, from, to) == turn[p] = from /\ turn' = [turn EXCEPT ![p] = to]

-----------------------------------------------------------------------------
(* ask: the lock, the question put up, the answer, the question taken down.   *)

Queue(p) ==
    /\ Turns(p, "idle", "queued")
    /\ UNCHANGED <<nextID, current, slot, gone, sees, accepted, got>>

OneFree == \A p \in Asking : turn[p] \notin {"waiting", "leaving"}

PutUp(p) ==
    /\ OneFree /\ ~gone /\ nextID < MaxQuestions
    /\ Turns(p, "queued", "waiting")
    /\ nextID' = nextID + 1 /\ current' = nextID' /\ slot' = "none"
    /\ UNCHANGED <<gone, sees, accepted, got>>

\* The window has gone before it could be asked.
NobodyThere(p) ==
    /\ OneFree /\ gone /\ Turns(p, "queued", "idle")
    /\ UNCHANGED <<nextID, current, slot, gone, sees, accepted, got>>

\* With an answer in the channel and the window gone, select takes either.
Wakes(p) ==
    /\ Turns(p, "waiting", "leaving")
    /\ \/ slot # "none" /\ got' = [got EXCEPT ![nextID] = slot] /\ slot' = "none"
       \/ gone /\ got' = [got EXCEPT ![nextID] = Default] /\ UNCHANGED slot
    /\ UNCHANGED <<nextID, current, gone, sees, accepted>>

TakeDown(p) ==
    /\ Turns(p, "leaving", "idle") /\ current' = 0
    /\ UNCHANGED <<nextID, slot, gone, sees, accepted, got>>

-----------------------------------------------------------------------------
(* The pages.                                                                 *)

Look(g) ==
    /\ sees[g] # current /\ sees' = [sees EXCEPT ![g] = current]
    /\ UNCHANGED <<turn, nextID, current, slot, gone, accepted, got>>

Showing(id) == current # 0 /\ current = id

\* Mutant: the question stays up until ask wakes.
AfterAnswerStays == current

AfterAnswer == 0

Answer(g, a) ==
    /\ sees[g] # 0 /\ Showing(sees[g]) /\ slot = "none"
    /\ slot' = a /\ current' = AfterAnswer
    /\ accepted' = [accepted EXCEPT ![sees[g]] = a]
    /\ UNCHANGED <<turn, nextID, gone, sees, got>>

WindowCloses ==
    /\ ~gone /\ gone' = TRUE
    /\ UNCHANGED <<turn, nextID, current, slot, sees, accepted, got>>

AskerNext ==
    \/ \E p \in Asking : Queue(p) \/ PutUp(p) \/ NobodyThere(p) \/ Wakes(p) \/ TakeDown(p)
    \/ \E g \in Pages : Look(g) \/ \E a \in {"yes", "no"} : Answer(g, a)
    \/ WindowCloses

AskerSpec == AskerInit /\ [][AskerNext]_asker

-----------------------------------------------------------------------------
\* While the window is there, a question returns the one answer somebody was told was taken,
\* given to that question: not a late answer to the one before it, and not a second one.
AnswersAreKept ==
    ~gone => \A i \in Ids : got[i] # "none" => got[i] = accepted[i]
=============================================================================
