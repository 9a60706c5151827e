----------------------------- MODULE WidgetFeed -----------------------------
(***************************************************************************)
(* The score without the scorer's file (internal/server/resultsvault.go and  *)
(* the end of handler.go's live()): PlayCricket's widget, or ResultsVault    *)
(* for a pinned match whose number there is known.  The overlay's poll binds  *)
(* the cache to the pin; then, as the panel's poll does, it asks for the       *)
(* state in a goroutine and waits five seconds for it.  The cache's lock is    *)
(* held over the calls.                                                      *)
(*                                                                         *)
(* A tick is five seconds; a call that hangs is given up after ten.  The       *)
(* caches of 20 s and 25 s are old as soon as any tick has passed, or later.  *)
(***************************************************************************)
EXTENDS Naturals

CONSTANTS
    Pollers,     \* who polls: "overlay" (/live) and the panel's pages (/live/view)
    Matches,     \* what can be pinned
    InWidget,    \* the matches in the club's widget
    Top,         \* the first of them
    Rest,        \* ticks from an answer to the page's next poll, at least
    MaxFetches,  \* bound on the goroutines at work
    MaxPins      \* bound on the edits of the settings

ASSUME WidgetAssumption == "overlay" \in Pollers /\ Rest \in Nat

VARIABLES
    settings,    \* match_url and rv_match_id: [pin, rv]
    rvCache,     \* [pin, rv, state, fresh]
    widget,      \* widgetLastData and widgetLastPoll: [data, fresh]
    page,        \* each page's poll: where it is, what it read, how long it has waited
    fetch,       \* each goroutine: where it is, whose poll it is for, the ticks its call has left
    pins

widgetFeed == <<settings, rvCache, widget, page, fetch, pins>>

Fetches == 1..MaxFetches
TooLong == 3     \* waits are not told apart from here on
NoPin == [pin |-> "none", rv |-> "none"]
Bound(s) == [pin |-> s.pin, rv |-> s.rv, state |-> "none", fresh |-> FALSE]
NoPoll == [at |-> "idle", left |-> 0, read |-> NoPin, waited |-> 0, answer |-> "none"]
NoFetch == [at |-> "none", for |-> "nobody", left |-> 0]

WidgetInit ==
    /\ settings = NoPin /\ rvCache = Bound(NoPin)
    /\ widget = [data |-> FALSE, fresh |-> FALSE]
    /\ page = [p \in Pollers |-> NoPoll] /\ fetch = [j \in Fetches |-> NoFetch] /\ pins = 0

Pin(s) ==
    /\ pins < MaxPins /\ pins' = pins + 1 /\ settings' = s
    /\ UNCHANGED <<rvCache, widget, page, fetch>>

\* rvMu is held over a call, and by nobody for long otherwise.
LockFree == \A j \in Fetches : fetch[j].at \in {"none", "queued"}

-----------------------------------------------------------------------------
(* A poll: it reads the settings, binds, asks, and is answered.                *)

Goes(p, from, new) == page[p].at = from /\ page' = [page EXCEPT ![p] = new]

Poll(p) ==
    /\ page[p].left = 0
    /\ Goes(p, "idle", [NoPoll EXCEPT !.at = "read", !.read = settings])
    /\ UNCHANGED <<settings, rvCache, widget, fetch, pins>>

\* Mutant: the panel's poll binds the cache too.
BindsAlways(p) == TRUE

Binds(p) == p = "overlay"

\* A pin that is another's, or that has gone, begins a new cache.
Bind(p) ==
    /\ Binds(p) /\ LockFree /\ Goes(p, "read", [page[p] EXCEPT !.at = "bound"])
    /\ LET s == page[p].read
       IN rvCache' = IF s.pin # rvCache.pin THEN Bound(s)
                     ELSE IF rvCache.rv = "none" THEN [rvCache EXCEPT !.rv = s.rv]
                     ELSE rvCache
    /\ UNCHANGED <<settings, widget, fetch, pins>>

Ask(p) ==
    /\ Goes(p, IF Binds(p) THEN "bound" ELSE "read", [page[p] EXCEPT !.at = "asked", !.left = 1])
    /\ \E j \in Fetches :
          /\ fetch[j] = NoFetch
          /\ fetch' = [fetch EXCEPT ![j] = [at |-> "queued", for |-> p, left |-> 0]]
    /\ UNCHANGED <<settings, rvCache, widget, pins>>

Answered(p, a) == [page EXCEPT ![p] = [@ EXCEPT !.at = "idle", !.left = Rest, !.answer = a]]

\* Five seconds: the poll is answered without a state, its goroutine goes on.
GiveUp(p) ==
    /\ page[p].at = "asked" /\ page[p].left = 0 /\ page' = Answered(p, "none")
    /\ fetch' = [j \in Fetches |->
                    IF fetch[j].for = p THEN [fetch[j] EXCEPT !.for = "nobody"] ELSE fetch[j]]
    /\ UNCHANGED <<settings, rvCache, widget, pins>>

-----------------------------------------------------------------------------
(* GetLiveState: an answer from a cache, or a call and then an answer.         *)

Reply(j, a) ==
    /\ fetch' = [fetch EXCEPT ![j] = NoFetch]
    /\ page' = IF fetch[j].for = "nobody" THEN page ELSE Answered(fetch[j].for, a)

\* parseWidgetJSONScore: the pinned match if it is listed, the first one otherwise.
FromWidget == IF rvCache.pin \in InWidget THEN rvCache.pin ELSE Top

Calls(j, which) ==
    /\ fetch' = [fetch EXCEPT ![j] = [@ EXCEPT !.at = which, !.left = 2]]
    /\ UNCHANGED page

Enter(j) ==
    /\ LockFree /\ fetch[j].at = "queued"
    /\ \/ rvCache.rv # "none" /\ ~rvCache.fresh /\ Calls(j, "vault")
       \/ rvCache.rv # "none" /\ rvCache.fresh /\ Reply(j, rvCache.state)
       \/ rvCache.rv = "none" /\ ~widget.fresh /\ Calls(j, "widget")
       \/ rvCache.rv = "none" /\ widget.fresh /\ Reply(j, FromWidget)
    /\ UNCHANGED <<settings, rvCache, widget, pins>>

VaultAnswers(j) ==
    /\ fetch[j].at = "vault" /\ rvCache' = [rvCache EXCEPT !.state = rvCache.rv, !.fresh = TRUE]
    /\ Reply(j, rvCache.rv)
    /\ UNCHANGED <<settings, widget, pins>>

VaultFails(j) ==
    /\ fetch[j].at = "vault" /\ Reply(j, "none")
    /\ UNCHANGED <<settings, rvCache, widget, pins>>

WidgetAnswers(j) ==
    /\ fetch[j].at = "widget" /\ widget' = [data |-> TRUE, fresh |-> TRUE]
    /\ Reply(j, FromWidget)
    /\ UNCHANGED <<settings, rvCache, pins>>

\* What the widget said last is used again, and asked for again at the next poll.
WidgetFails(j) ==
    /\ fetch[j].at = "widget" /\ Reply(j, IF widget.data THEN FromWidget ELSE "none")
    /\ UNCHANGED <<settings, rvCache, widget, pins>>

-----------------------------------------------------------------------------
(* Time passes when whatever can be done at once is done.                      *)

Held == \E j \in Fetches : fetch[j].at \in {"vault", "widget"} /\ fetch[j].left > 0
Unsettled ==
    \/ \E p \in Pollers :
          \/ page[p].at = "bound"
          \/ page[p].at = "asked" /\ page[p].left = 0
          \/ page[p].at = "read" /\ ~(Binds(p) /\ Held)
    \/ \E j \in Fetches : fetch[j].at # "none" /\ ~Held

Less(n) == IF n = 0 THEN 0 ELSE n - 1
More(n) == IF n = TooLong THEN n ELSE n + 1

Tick ==
    /\ ~Unsettled
    /\ page' = [p \in Pollers |-> [page[p] EXCEPT !.left = Less(@),
                                                !.waited = IF page[p].at = "idle" THEN 0 ELSE More(@)]]
    /\ fetch' = [j \in Fetches |-> [fetch[j] EXCEPT !.left = Less(@)]]
    /\ \E old \in BOOLEAN : rvCache' = [rvCache EXCEPT !.fresh = @ /\ ~old]
    /\ \E old \in BOOLEAN : widget' = [widget EXCEPT !.fresh = @ /\ ~old]
    /\ UNCHANGED <<settings, pins>>

WidgetNext ==
    \/ \E m \in Matches \cup {"none"} : \E r \in {m, "none"} : Pin([pin |-> m, rv |-> r])
    \/ \E p \in Pollers : Poll(p) \/ Bind(p) \/ Ask(p) \/ GiveUp(p)
    \/ \E j \in Fetches :
          Enter(j) \/ VaultAnswers(j) \/ VaultFails(j) \/ WidgetAnswers(j) \/ WidgetFails(j)
    \/ Tick

WidgetSpec == WidgetInit /\ [][WidgetNext]_widgetFeed

-----------------------------------------------------------------------------
\* "a panel poll observing a cleared match_url must not drop the overlay's cached widget
\* state" (handler.go:1748-1749): what the overlay's poll is answered with is of the match it
\* read as pinned, if the widget lists it or ResultsVault has its number.
PinIsHeld ==
    LET poll == page["overlay"]
    IN (poll.read.pin # "none" /\ (poll.read.pin \in InWidget \/ poll.read.rv # "none"))
          => poll.answer \in {"none", poll.read.pin}

\* "Hard 5s limit: a DNS/connection hang must not block the overlay's poll"
\* (handler.go:1850): the overlay's poll is answered within a tick.
AnsweredInFive == page["overlay"].at # "idle" => page["overlay"].waited <= 1
=============================================================================
