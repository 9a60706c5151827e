------------------------------- MODULE TalkVoice -------------------------------
(***************************************************************************)
(* The voice of the phone on air: talk.html numbers its chunks and sends two *)
(* at a time, each given four seconds; takeChunk (talk.go) puts them back in *)
(* order.  A page that is reloaded counts from nought again; a server that   *)
(* is restarted has forgotten where it was.  A tick is one chunk, 0.15 s.    *)
(***************************************************************************)
EXTENDS Naturals, FiniteSets, FiniteSetsExt

CONSTANTS
    MostBehind, InFlight, GiveUp,   \* the page's: 8, 2 and 4 s
    MaxPending, Restart, OldNews,   \* the server's: 2, 16 and 1 s
    MaxChunks, MaxFresh, MaxNet     \* bounds: chunks recorded; reloads and restarts;
                                    \* requests under way, those given up included

VARIABLES
    made,      \* chunks recorded so far: their numbers, in the order they were spoken
    queue,     \* those the page has not sent
    seq,       \* the page's next number
    net,       \* requests the server has not had
    slots,     \* how many the page waits for
    fresh,     \* reloads and restarts so far
    nextSeq,   \* the server's, or 0 with started FALSE
    started,
    held,      \* what waits for one before it: [seq, n]
    heldFor,   \* ticks since it began to wait
    silent     \* history: chunks of this page that arrived since one was broadcast

page == <<made, queue, seq, slots>>
server == <<nextSeq, started, held, heldFor>>
vars == <<page, net, fresh, server, silent>>

Init ==
    /\ made = 0 /\ queue = {} /\ seq = 0 /\ net = {} /\ slots = 0 /\ fresh = 0
    /\ nextSeq = 0 /\ started = FALSE /\ held = {} /\ heldFor = 0
    /\ silent = 0

\* The requests grow older; the page gives up on those it has waited for too long, which
\* may arrive all the same.
Aged == {[c EXCEPT !.age = IF @ < GiveUp THEN @ + 1 ELSE @,
                   !.waited = @ /\ c.age + 1 < GiveUp] : c \in net}

\* onChunk, or a tick of silence (muted, no microphone).
Pass(spoken) ==
    /\ net' = Aged /\ slots' = Cardinality({c \in Aged : c.waited})
    /\ heldFor' = IF held # {} /\ heldFor <= OldNews THEN heldFor + 1 ELSE heldFor
    /\ IF spoken
       THEN LET q == queue \cup {made + 1}
            IN  made < MaxChunks /\ made' = made + 1
                /\ queue' = IF Cardinality(q) > MostBehind THEN q \ {Min(q)} ELSE q
       ELSE UNCHANGED <<made, queue>>
    /\ UNCHANGED <<seq, fresh, nextSeq, started, held, silent>>

\* pump: two in flight.
Send ==
    /\ queue # {} /\ slots < InFlight /\ Cardinality(net) < MaxNet
    /\ net' = net \cup {[seq |-> seq, n |-> Min(queue), age |-> 0, waited |-> TRUE, of |-> fresh]}
    /\ queue' = queue \ {Min(queue)} /\ seq' = seq + 1 /\ slots' = slots + 1
    /\ UNCHANGED <<made, fresh, server, silent>>

Lost(c) ==
    /\ c \in net /\ ~c.waited /\ net' = net \ {c}
    /\ UNCHANGED <<page, fresh, server, silent>>

Reload ==
    /\ fresh < MaxFresh /\ fresh' = fresh + 1
    /\ seq' = 0 /\ queue' = {} /\ slots' = 0 /\ net' = {[c EXCEPT !.waited = FALSE] : c \in net}
    /\ silent' = 0 /\ UNCHANGED <<made, server>>

\* TalkResume's phone: on air, and nothing heard from it yet.
ServerRestarts ==
    /\ fresh < MaxFresh /\ fresh' = fresh + 1
    /\ net' = {} /\ slots' = 0
    /\ nextSeq' = 0 /\ started' = FALSE /\ held' = {} /\ heldFor' = 0
    /\ silent' = 0 /\ UNCHANGED <<made, queue, seq>>

-----------------------------------------------------------------------------
(* takeChunk.                                                                 *)

Seqs(h) == {c.seq : c \in h}

\* The first number from s on that is not held.
Gap(h, s) == CHOOSE e \in s .. s + Cardinality(h) :
                e \notin Seqs(h) /\ \A k \in s .. e - 1 : k \in Seqs(h)
Below(h, s) == {c \in h : c.seq < s}

\* Where it has got to once everything in turn is out; a gap is skipped when more than
\* MaxPending wait behind it.
Onward(h, s) ==
    LET first == Gap(h, s)
        left == h \ Below(h, first)
    IN  IF Cardinality(left) <= MaxPending THEN first ELSE Gap(left, Min(Seqs(left)))

CountsAgain(s) == s + Restart < nextSeq

Stale == held # {} /\ heldFor > OldNews

Take(c) ==
    LET from == IF ~started \/ CountsAgain(c.seq) \/ (c.seq >= nextSeq /\ Stale) THEN c.seq ELSE nextSeq
        old == IF (started /\ CountsAgain(c.seq)) \/ (c.seq >= from /\ Stale) THEN {} ELSE held
        mine == IF c.of = fresh THEN silent + 1 ELSE silent
    IN  IF c.seq < from
        THEN silent' = mine /\ UNCHANGED <<nextSeq, started, held, heldFor>>
        ELSE LET all == {o \in old : o.seq # c.seq} \cup {[seq |-> c.seq, n |-> c.n]}
                 to == Onward(all, from)
                 out == Below(all, to)
             IN  /\ started' = TRUE /\ nextSeq' = to /\ held' = all \ out
                 /\ heldFor' = IF old = {} THEN 0 ELSE heldFor
                 /\ silent' = IF out = {} THEN mine ELSE 0

Arrive(c) ==
    /\ c \in net /\ net' = net \ {c} /\ Take(c)
    /\ slots' = IF c.waited THEN slots - 1 ELSE slots
    /\ UNCHANGED <<made, queue, seq, fresh>>

Next ==
    \/ \E spoken \in BOOLEAN : Pass(spoken)
    \/ Send \/ Reload \/ ServerRestarts
    \/ \E c \in net : Arrive(c) \/ Lost(c)

Spec == Init /\ [][Next]_vars

-----------------------------------------------------------------------------
\* A voice is never silent for long while its chunks arrive: a reloaded page, a gap, what
\* was left from before a pause or from the page before, and any order of arrival included.
HeardAgainSoon == silent <= Restart + MaxPending
===============================================================================
