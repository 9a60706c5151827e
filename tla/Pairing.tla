------------------------------- MODULE Pairing ------------------------------
(***************************************************************************)
(* How a clubhouse screen gets the streaming laptop's key: it asks, a person *)
(* at the laptop says yes, and it is handed the key once (ask.go, and the    *)
(* asking half of screen.go); or somebody types the key.  And how the link   *)
(* checks the key of everything else it is asked (keyOK in link.go).         *)
(*                                                                         *)
(* One laptop.  A request's number stands for its id, its secret and its     *)
(* code, each drawn anew for every request.  A tick is the 2 s of a poll.    *)
(***************************************************************************)
EXTENDS Naturals, FiniteSets

CONSTANTS
    Screens,
    MaxAsks,        \* maxAsks: requests at once
    MaxRequests,    \* bound on the requests of one evening
    MaxKeys,        \* bound on New key
    MaxFails, FailWindow, Lockout,   \* maxFailsPerIP, failWindow, ipLockout
    MaxPackets         \* bound on lost packets

VARIABLES
    key,       \* the laptop's control key, its epoch; the score-only key stays
    answer,    \* l.asks: each request's answer, "waiting", or "none" when it is not there
    from,      \* the screen that made it
    fails,     \* each address: [n, age, lock]: wrong keys, ticks since the first, ticks refused
    cfg,       \* each screen's clubhouse.ini: [role, key]
    asks,      \* s.asks: the request waited on, 0 for none
    loop,      \* askLoop: "off", "rest", "poll", "again", "pair", "settle" or "check"
    snap,      \* askOnce's copy, and what it keeps of it
    handed,    \* the key it was just given: [role, key]
    started,   \* startAsking's request, until it takes the lock
    requests, packets,
    typo,      \* history: a wrong key was typed on the screen
    turnedDown \* history: the right key was typed, no wrong one ever, and refused

link == <<key, answer, from, fails, requests>>
asking == <<asks, loop, snap, handed, started>>
history == <<typo, turnedDown>>
pairing == <<link, cfg, asking, packets, history>>

Requests == 1..MaxRequests
Unpaired == [role |-> "none", key |-> 0]
ViewKey == MaxKeys + 1
NeverKey == MaxKeys + 2
NoKey == [role |-> "none", key |-> 0]
NoFails == [n |-> 0, age |-> FailWindow + 1, lock |-> 0]

PairingInit ==
    /\ key = 0 /\ requests = 0 /\ packets = 0
    /\ answer = [i \in Requests |-> "none"] /\ from = [i \in Requests |-> "none"]
    /\ fails = [s \in Screens |-> NoFails]
    /\ cfg = [s \in Screens |-> Unpaired]
    /\ asks = [s \in Screens |-> 0] /\ loop = [s \in Screens |-> "off"]
    /\ snap = [s \in Screens |-> 0] /\ started = [s \in Screens |-> 0]
    /\ handed = [s \in Screens |-> NoKey]
    /\ typo = {} /\ turnedDown = {}

Lose == packets < MaxPackets /\ packets' = packets + 1

-----------------------------------------------------------------------------
(* The link: keyOK.                                                           *)

Locked(s) == fails[s].lock > 0
RoleOf(k) == IF k = key THEN "control" ELSE IF k = ViewKey THEN "view" ELSE "none"
Accepted(s, k) == ~Locked(s) /\ RoleOf(k) # "none"

Wrong(f) ==
    LET n == IF f.age > FailWindow THEN 1 ELSE f.n + 1
    IN  [n |-> n, age |-> IF f.age > FailWindow THEN 0 ELSE f.age,
         lock |-> IF n >= MaxFails THEN Lockout ELSE 0]

Knock(s, k) ==
    fails' = IF Locked(s) THEN fails
             ELSE [fails EXCEPT ![s] = IF RoleOf(k) # "none" THEN NoFails ELSE Wrong(@)]

-----------------------------------------------------------------------------
(* The link: ask, askPoll and the person at the laptop.                       *)

Listed == {i \in Requests : answer[i] # "none"}
Replaced(s) == {i \in Requests : from[i] = s /\ answer[i] = "waiting"}

Takes(s) ==
    /\ requests < MaxRequests
    /\ Cardinality(Listed \ Replaced(s)) < MaxAsks
    /\ requests' = requests + 1
    /\ answer' = [i \in Requests |-> IF i = requests' THEN "waiting"
                                ELSE IF i \in Replaced(s) THEN "none" ELSE answer[i]]
    /\ from' = [from EXCEPT ![requests'] = s]
    /\ UNCHANGED <<key, fails>>

Say(i, a) ==
    /\ answer[i] = "waiting"
    /\ answer' = [answer EXCEPT ![i] = a]
    /\ UNCHANGED <<key, from, fails, requests, cfg, asking, packets, history>>

\* Ten minutes unanswered, or a minute uncollected.
Prune(i) ==
    /\ answer[i] # "none" /\ answer' = [answer EXCEPT ![i] = "none"]
    /\ UNCHANGED <<key, from, fails, requests, cfg, asking, packets, history>>

\* The Clubhouse card's New key: the link is closed and opened again.
NewKey ==
    /\ key < MaxKeys /\ key' = key + 1
    /\ answer' = [i \in Requests |-> "none"] /\ fails' = [s \in Screens |-> NoFails]
    /\ UNCHANGED <<from, requests, cfg, asking, packets, history>>

-----------------------------------------------------------------------------
(* The screen: startAsking, stopAsking, askLoop and askOnce.                  *)

\* The page offers both ways to pair while the screen is not paired.
PressAsk(s) ==
    /\ cfg[s] = Unpaired /\ started[s] = 0 /\ Takes(s) /\ started' = [started EXCEPT ![s] = requests']
    /\ UNCHANGED <<cfg, asks, loop, snap, handed, packets, history>>

Land(s) ==
    /\ started[s] # 0 /\ started' = [started EXCEPT ![s] = 0]
    /\ asks' = [asks EXCEPT ![s] = started[s]]
    /\ loop' = [loop EXCEPT ![s] = IF @ = "off" THEN "rest" ELSE @]
    /\ UNCHANGED <<link, cfg, snap, handed, packets, history>>

Cancel(s) ==
    /\ asks[s] # 0 /\ asks' = [asks EXCEPT ![s] = 0]
    /\ UNCHANGED <<link, cfg, loop, snap, handed, started, packets, history>>

Leaves(s, there, next) == loop[s] = there /\ loop' = [loop EXCEPT ![s] = next]

Sweep(s) ==
    /\ Leaves(s, "rest", IF asks[s] = 0 THEN "check" ELSE "poll")
    /\ snap' = [snap EXCEPT ![s] = asks[s]]
    /\ UNCHANGED <<link, cfg, asks, handed, started, packets, history>>

NobodyAnswered(s) ==
    /\ asks[s] # 0 /\ Leaves(s, "rest", "check") /\ asks' = [asks EXCEPT ![s] = 0]
    /\ UNCHANGED <<link, cfg, snap, handed, started, packets, history>>

Kept(s, next, i) == Leaves(s, "poll", next) /\ snap' = [snap EXCEPT ![s] = i]

Polled(s, answers) == loop[s] = "poll" /\ answer[snap[s]] \in answers

Collected(i) == answer' = [answer EXCEPT ![i] = "none"]

PollFails(s) ==
    /\ Kept(s, "settle", snap[s]) /\ Lose
    \* The packet on its way, or the reply with the answer in it.
    /\ \/ UNCHANGED answer
       \/ Polled(s, {"control", "view", "no"}) /\ Collected(snap[s])
    /\ UNCHANGED <<key, from, fails, requests, cfg, asks, handed, started, history>>

StillWaiting(s) ==
    /\ Polled(s, {"waiting"}) /\ Kept(s, "settle", snap[s])
    /\ UNCHANGED <<link, cfg, asks, handed, started, packets, history>>

KeyFor(a) == IF a = "view" THEN ViewKey ELSE key

SaidYes(s) ==
    /\ Polled(s, {"control", "view"}) /\ Leaves(s, "poll", "pair")
    /\ Collected(snap[s]) /\ asks' = [asks EXCEPT ![s] = 0]
    /\ handed' = [handed EXCEPT ![s] = [role |-> answer[snap[s]], key |-> KeyFor(answer[snap[s]])]]
    /\ UNCHANGED <<key, from, fails, requests, cfg, snap, started, packets, history>>

SaidNo(s) ==
    /\ Polled(s, {"no"}) /\ Kept(s, "settle", 0) /\ Collected(snap[s])
    /\ UNCHANGED <<key, from, fails, requests, cfg, asks, handed, started, packets, history>>

Unknown(s) ==
    /\ Polled(s, {"none"}) /\ Kept(s, "again", 0)
    /\ UNCHANGED <<link, cfg, asks, handed, started, packets, history>>

\* askOne: a new request, or the laptop does not take it.
AsksAgain(s) ==
    /\ Leaves(s, "again", "settle")
    /\ \/ Takes(s) /\ snap' = [snap EXCEPT ![s] = requests'] /\ UNCHANGED packets
       \/ Lose /\ UNCHANGED <<link, snap>>
    /\ UNCHANGED <<cfg, asks, handed, started, history>>

Settle(s) ==
    /\ Leaves(s, "settle", IF asks[s] = 0 \/ snap[s] = 0 THEN "check" ELSE "rest")
    /\ asks' = [asks EXCEPT ![s] = IF @ = 0 THEN 0 ELSE snap[s]]
    /\ UNCHANGED <<link, cfg, snap, handed, started, packets, history>>

\* Mutant: the loop stops when its sweep is over, whatever was asked since.
StopsAtOnce(s) == TRUE

Stops(s) == asks[s] = 0

Check(s) ==
    /\ Leaves(s, "check", IF Stops(s) THEN "off" ELSE "rest")
    /\ UNCHANGED <<link, cfg, asks, snap, handed, started, packets, history>>

-----------------------------------------------------------------------------
(* The screen: pair, forget and pollOnce.                                     *)

\* pair: /clubhouse/pair with the key it was handed.
Pair(s) ==
    LET k == handed[s].key IN
    /\ Leaves(s, "pair", "check") /\ Knock(s, k)
    /\ handed' = [handed EXCEPT ![s] = NoKey]
    /\ IF Accepted(s, k)
       THEN cfg' = [cfg EXCEPT ![s] = [role |-> RoleOf(k), key |-> k]]
            /\ UNCHANGED asks
       ELSE asks' = [asks EXCEPT ![s] = 0] /\ UNCHANGED cfg
    /\ UNCHANGED <<key, answer, from, requests, snap, started, packets, history>>

Type(s, k) ==
    /\ cfg[s] = Unpaired /\ Knock(s, k)
    /\ cfg' = IF Accepted(s, k)
              THEN [cfg EXCEPT ![s] = [role |-> RoleOf(k), key |-> k]] ELSE cfg
    /\ typo' = IF RoleOf(k) = "none" THEN typo \cup {s} ELSE typo
    /\ turnedDown' = IF RoleOf(k) # "none" /\ ~Accepted(s, k) /\ s \notin typo
                     THEN turnedDown \cup {s} ELSE turnedDown
    /\ UNCHANGED <<key, answer, from, requests, asking, packets>>

Forget(s) ==
    /\ cfg[s] # Unpaired /\ cfg' = [cfg EXCEPT ![s] = Unpaired]
    /\ UNCHANGED <<link, asking, packets, history>>

\* Two seconds: every paired screen asks for the status.
TwoSeconds ==
    /\ fails' = [s \in Screens |->
          LET f == [fails[s] EXCEPT !.age = IF @ > FailWindow THEN @ ELSE @ + 1,
                                    !.lock = IF @ > 0 THEN @ - 1 ELSE 0]
          IN  IF cfg[s] = Unpaired \/ f.lock > 0 THEN f
              ELSE IF RoleOf(cfg[s].key) # "none" THEN NoFails ELSE Wrong(f)]
    /\ UNCHANGED <<key, answer, from, requests, cfg, asking, packets, history>>

-----------------------------------------------------------------------------
AskLoop(s) ==
    \/ Sweep(s) \/ NobodyAnswered(s) \/ PollFails(s) \/ StillWaiting(s) \/ SaidYes(s)
    \/ SaidNo(s) \/ Unknown(s) \/ AsksAgain(s) \/ Settle(s) \/ Check(s) \/ Pair(s)

PairingNext ==
    \/ \E i \in Requests : Prune(i) \/ \E a \in {"control", "view", "no"} : Say(i, a)
    \/ NewKey \/ TwoSeconds
    \/ \E s \in Screens :
          \/ PressAsk(s) \/ Land(s) \/ Cancel(s) \/ AskLoop(s) \/ Forget(s)
          \/ \E k \in {key, ViewKey, NeverKey} : Type(s, k)

PairingSpec == PairingInit /\ [][PairingNext]_pairing

-----------------------------------------------------------------------------
\* "One pressed just now is still asked": a request the screen waits on is polled for, whatever
\* the loop was doing for an older one when it was pressed.
AskedIsPolled == \A s \in Screens : asks[s] # 0 => loop[s] # "off"

\* "Someone pressed New key on the laptop.  On the screen: Pair again, and type the new key"
\* (CLUBHOUSE_SCREEN.md:306): the right key is taken if no wrong one was ever typed.
RightKeyPairs == turnedDown = {}
=============================================================================
