------------------------------- MODULE FeedLink -------------------------------
(***************************************************************************)
(* The scorer's feed when it comes from another laptop: the scorer agent     *)
(* found on the club's wifi (agentclient.go, agent.go), or the bridge, whose *)
(* file is mirrored every two seconds (pcs.go, bridge.go); and the question  *)
(* whether a frame is the last match's (leftoverFeed).                       *)
(*                                                                         *)
(* A frame is the number of a version of the scorer's file: 0 is yesterday's *)
(* last, and None no frame.  A tick is 15 s, the time between broadcasts.    *)
(***************************************************************************)
EXTENDS Naturals, FiniteSets

CONSTANTS
    Modes,       \* of {"agent", "bridge"}: pcs_source, or a bridge's URL
    Addresses,   \* the scorer's laptop may be given, in the order it is
    Pollers,     \* who asks: "overlay" (/live), "panel" (/live/view)
    Stale,       \* agentStaleAfter, 120 s
    MaxFrame,    \* bound: versions of the file today
    MaxFaults    \* bound: outages, lost packets, restarts

None == MaxFrame + 1
Yesterday == 0
NoMtime == MaxFrame + 1
Now == MaxFrame + 2       \* a time of this laptop's clock, never one of the scorer's

VARIABLES
    mode, typed, behind,  \* settings: agent_host is set; the scorer's clock is a day behind
    scorer,               \* the other laptop: [up, at, frame]
    resolved, lastSeen,   \* agentResolved; agent_last_seen, saved in the state
    wait,                 \* ticks until agentNextDiscover
    okAge,                \* ticks since agentLastOK
    cache,                \* the last frame read, and its file's time
    mirror, sync,         \* the bridge's copy, and the call that writes it
    call,                 \* the polls: [at, addr, since, got]
    leftover,             \* leftoverMtime, leftoverWritten
    shown,                \* what the overlay's last poll was answered
    faults

settings == <<mode, typed, behind>>
link == <<resolved, lastSeen, wait, okAge, cache>>
vars == <<settings, scorer, link, mirror, sync, call, leftover, shown, faults>>

Idle == [at |-> "idle", addr |-> 0, since |-> NoMtime, got |-> None]
Fault == faults < MaxFaults /\ faults' = faults + 1
Home == CHOOSE a \in Addresses : \A b \in Addresses : a <= b
Nowhere == 0

Init ==
    /\ mode \in Modes /\ behind \in BOOLEAN /\ typed \in BOOLEAN /\ (typed => mode = "agent")
    /\ scorer = [up |-> FALSE, at |-> Home, frame |-> Yesterday]
    /\ resolved = Nowhere /\ lastSeen = Nowhere /\ wait = 0 /\ okAge = Stale + 1
    /\ cache = [frame |-> None, mt |-> NoMtime]
    /\ mirror = [frame |-> None, mt |-> NoMtime] /\ sync = None
    /\ call = [p \in Pollers |-> Idle]
    /\ leftover = [mt |-> NoMtime, written |-> FALSE] /\ shown = None /\ faults = 0

-----------------------------------------------------------------------------
(* The scorer's laptop.                                                       *)

Scorer == UNCHANGED <<settings, link, mirror, sync, call, leftover, shown>>

Ball == Scorer /\ scorer.frame < MaxFrame /\ scorer' = [scorer EXCEPT !.frame = @ + 1] /\ UNCHANGED faults
StartAgent == Scorer /\ ~scorer.up /\ scorer' = [scorer EXCEPT !.up = TRUE] /\ UNCHANGED faults
StopAgent == Scorer /\ scorer.up /\ scorer' = [scorer EXCEPT !.up = FALSE] /\ Fault

\* The club's router gives it another address.
Moves == /\ Scorer /\ scorer.at + 1 \in Addresses /\ Fault
         /\ scorer' = [scorer EXCEPT !.at = @ + 1]

-----------------------------------------------------------------------------
(* A poll: ReadScoreSource, then leftoverFeed.                                *)

Caller(p) == p \in Pollers /\ UNCHANGED <<settings, scorer, mirror, sync>>
To(p, c) == call' = [call EXCEPT ![p] = c]

Ask(p) ==
    /\ Caller(p) /\ call[p].at = "idle"
    /\ To(p, [Idle EXCEPT !.at = IF mode = "agent" THEN "resolve" ELSE "read"])
    /\ UNCHANGED <<link, leftover, shown, faults>>

\* What was read, or None: only what was read is asked about.
Answer(p, frame) == To(p, [Idle EXCEPT !.at = IF frame = None THEN "answer" ELSE "judge", !.got = frame])

\* agentLastGood
LastGood == IF okAge > Stale THEN None ELSE cache.frame

\* resolveAgentAddress: typed, known, or looked for, once in 15 s.
Resolve(p) ==
    /\ Caller(p) /\ call[p].at = "resolve" /\ UNCHANGED <<lastSeen, okAge, cache, leftover, shown, faults>>
    /\ LET known == IF typed THEN Home ELSE resolved
       IN  \/ /\ known # Nowhere /\ resolved' = known
              /\ To(p, [call[p] EXCEPT !.at = "send", !.addr = known]) /\ UNCHANGED wait
           \/ known = Nowhere /\ wait > 0 /\ Answer(p, None) /\ UNCHANGED <<resolved, wait>>
           \/ known = Nowhere /\ wait = 0 /\ wait' = 1
              /\ To(p, [call[p] EXCEPT !.at = "seek"]) /\ UNCHANGED resolved

\* The address it was last seen at, then a broadcast; a packet may be lost.
Seek(p) ==
    /\ Caller(p) /\ call[p].at = "seek" /\ UNCHANGED <<wait, okAge, cache, leftover, shown>>
    /\ \/ /\ scorer.up /\ resolved' = scorer.at /\ lastSeen' = scorer.at
          /\ To(p, [call[p] EXCEPT !.at = "send", !.addr = scorer.at]) /\ UNCHANGED faults
       \/ /\ (IF scorer.up THEN Fault ELSE UNCHANGED faults) /\ UNCHANGED <<resolved, lastSeen>>
          /\ IF resolved = Nowhere THEN Answer(p, None)
             ELSE To(p, [call[p] EXCEPT !.at = "send", !.addr = resolved])

\* The request leaves with the time of the file it has, and is answered or not.
Send(p) ==
    /\ Caller(p) /\ call[p].at = "send" /\ UNCHANGED <<link, leftover, shown>>
    /\ LET reached == scorer.up /\ scorer.at = call[p].addr
       IN  \/ reached /\ UNCHANGED faults
              /\ To(p, [call[p] EXCEPT !.at = "got", !.since = cache.mt, !.got = scorer.frame])
           \/ (IF reached THEN Fault ELSE UNCHANGED faults) /\ To(p, [call[p] EXCEPT !.at = "lost"])

\* Mutant: the address that failed is kept.
LostKept(p) ==
    /\ Caller(p) /\ call[p].at = "lost" /\ Answer(p, LastGood)
    /\ UNCHANGED <<link, leftover, shown, faults>>

Lost(p) ==
    /\ Caller(p) /\ call[p].at = "lost" /\ Answer(p, LastGood)
    /\ resolved' = IF typed THEN resolved ELSE Nowhere
    /\ UNCHANGED <<lastSeen, wait, okAge, cache, leftover, shown, faults>>

\* serveScoreboard says "unchanged" of a file whose time the caller has.
Got(p) ==
    /\ Caller(p) /\ call[p].at = "got" /\ okAge' = 0
    /\ LET c == call[p]
       IN  IF c.got = c.since THEN Answer(p, cache.frame) /\ UNCHANGED cache
           ELSE Answer(p, c.got) /\ cache' = [frame |-> c.got, mt |-> c.got]
    /\ UNCHANGED <<resolved, lastSeen, wait, leftover, shown, faults>>

\* ReadPCSFile on the mirror.
ReadMirror(p) ==
    /\ Caller(p) /\ call[p].at = "read"
    /\ Answer(p, mirror.frame)
    /\ cache' = IF mirror.frame = None THEN cache ELSE mirror
    /\ UNCHANGED <<resolved, lastSeen, wait, okAge, leftover, shown, faults>>

\* leftoverFeed: the file's own time counts until it has changed while this server watched.
Old(mt) == mt = Yesterday \/ (behind /\ mt # Now)

Judge(p) ==
    /\ Caller(p) /\ call[p].at = "judge"
    /\ LET mt == IF mode = "agent" THEN cache.mt ELSE mirror.mt
           changed == mt # leftover.mt
           written == leftover.written \/ (changed /\ leftover.mt # NoMtime)
       IN  /\ leftover' = [mt |-> mt, written |-> written]
           /\ To(p, [Idle EXCEPT !.at = "answer", !.got = IF ~written /\ Old(mt) THEN None ELSE call[p].got])
    /\ UNCHANGED <<link, shown, faults>>

Answered(p) ==
    /\ Caller(p) /\ call[p].at = "answer" /\ To(p, Idle)
    /\ shown' = IF p = "overlay" THEN call[p].got ELSE shown
    /\ UNCHANGED <<link, leftover, faults>>

-----------------------------------------------------------------------------
(* The bridge: pcsBridgeTick.                                                 *)

Mirror == mode = "bridge" /\ UNCHANGED <<settings, scorer, link, call, leftover, shown>>

\* The file is renamed into place, and then given the scorer's time.
Fetch ==
    /\ Mirror /\ sync = None /\ scorer.up /\ sync' = scorer.frame
    /\ mirror' = [frame |-> scorer.frame, mt |-> Now] /\ UNCHANGED faults

KeepTime == Mirror /\ sync # None /\ sync' = None /\ mirror' = [mirror EXCEPT !.mt = sync] /\ UNCHANGED faults

-----------------------------------------------------------------------------
Restart ==
    /\ Fault /\ resolved' = Nowhere /\ wait' = 0 /\ okAge' = Stale + 1 /\ sync' = None
    /\ cache' = [frame |-> None, mt |-> NoMtime] /\ call' = [p \in Pollers |-> Idle]
    /\ leftover' = [mt |-> NoMtime, written |-> FALSE] /\ shown' = None
    /\ UNCHANGED <<settings, scorer, lastSeen, mirror>>

Tick ==
    /\ mode = "agent" /\ (wait > 0 \/ okAge <= Stale)
    /\ wait' = 0 /\ okAge' = IF okAge <= Stale THEN okAge + 1 ELSE okAge
    /\ UNCHANGED <<settings, scorer, resolved, lastSeen, cache, mirror, sync, call, leftover, shown, faults>>

Steps(p) == \/ Ask(p) \/ Resolve(p) \/ Seek(p) \/ Send(p) \/ Lost(p) \/ Got(p)
            \/ ReadMirror(p) \/ Judge(p) \/ Answered(p)

Next == \/ \E p \in Pollers : Steps(p)
        \/ Ball \/ StartAgent \/ StopAgent \/ Moves \/ Fetch \/ KeepTime \/ Restart \/ Tick

Spec == Init /\ [][Next]_vars

\* The polls go on, the mirror's loop goes on, and time goes by.
Fairness == /\ \A p \in Pollers : WF_vars(Steps(p))
            /\ WF_vars(Fetch) /\ WF_vars(KeepTime) /\ WF_vars(Tick)
FairSpec == Spec /\ Fairness

-----------------------------------------------------------------------------
\* Once the scorer's laptop is there to stay, the overlay shows its latest frame in the end,
\* whatever was lost before and whatever address it has: unless the operator typed another,
\* or nothing has been written today.
LinkComesBack ==
    <>[](scorer.up /\ scorer.frame # Yesterday /\ (typed => scorer.at = Home) /\ ~behind)
        => <>[](shown = scorer.frame)

\* "The overlay keeps showing the last score it received for two minutes"
\* (TWO_LAPTOP_SETUP.md:137): a poll is answered with it while it is that recent.
ScoreIsHeld ==
    [][Answered("overlay") /\ okAge <= Stale /\ leftover.written => shown' # None]_vars
===============================================================================
