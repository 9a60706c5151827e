------------------------------- MODULE Airtime -------------------------------
(***************************************************************************)
(* How long the sponsor's strap was on screen (airtime.go), which the club     *)
(* passes on to the sponsor.  The overlay reports each show and each hide and    *)
(* never hears an answer; the server times them on its own clock, asks YouTube     *)
(* for the viewers, and adds up in a file.  A report has no name in it: the       *)
(* server takes the match state's, the strap has the one the overlay last polled  *)
(* before an over's end.  A report may be lost, the overlay reloaded, the server   *)
(* restarted.                                                              *)
(*                                                                         *)
(* A tick is as long as the shortest panel; one day.                           *)
(***************************************************************************)
EXTENDS Naturals, FiniteSetsExt

CONSTANTS
    Sponsors,
    SponsorShowMaxSec,   \* 12 s, in ticks
    Panel,               \* the longest panel the strap rides on, no longer than that
    Lag,                 \* ticks between two looks at the stream
    ViewerFresh,         \* 180 s
    MaxStreams,
    MaxTicks,
    MaxFaults            \* bound on the reports lost, reloads, restarts, writes that fail

NoName == "none"
NotOpen == [sponsor |-> NoName, secs |-> 0, onAir |-> FALSE]
NoViewers == ViewerFresh + 1
NotOn == [name |-> "off", len |-> 0, live |-> FALSE]

VARIABLES
    name,       \* sponsor_name
    page,       \* the overlay's: [cfg: as it last polled it, text: what is written on the strap]
    strap,      \* the overlay's: [name, len, live: the stream was, or was thought to be, as it came]
    stream,     \* [live, id: how many there have been]
    mon,        \* streamMon["streaming"]: [live, age]
    open,       \* sponsorAirOpen: [sponsor, secs since, onAir]
    rec,        \* the file: [Sponsors -> [on, off, covered: seconds of it with a viewer count]]
    viewers,    \* the age of the last count of viewers
    shown,      \* [Sponsors -> [live, all]]: how long it really was on screen
    ticks, faults,
    phantoms,   \* appearances whose end nobody reported
    crossed     \* [Sponsors -> appearances credited to it under a strap with another name]

vars == <<name, page, strap, stream, mon, open, rec, viewers, shown, ticks, faults, phantoms,
          crossed>>

NoRec == [on |-> 0, off |-> 0, covered |-> 0]

Init ==
    /\ name \in Sponsors /\ page = [cfg |-> name, text |-> name] /\ strap = NotOn
    /\ stream = [live |-> FALSE, id |-> 0] /\ mon = [live |-> FALSE, age |-> 0]
    /\ open = NotOpen /\ rec = [s \in Sponsors |-> NoRec] /\ viewers = NoViewers
    /\ shown = [s \in Sponsors \cup {NoName} |-> [live |-> 0, all |-> 0]]
    /\ ticks = 0 /\ faults = 0 /\ phantoms = 0 /\ crossed = [s \in Sponsors |-> 0]

Fault == faults < MaxFaults /\ faults' = faults + 1

-----------------------------------------------------------------------------
\* Mutant: an appearance nobody closed is counted until the next.
SecsUncapped == open.secs

\* "A missed hide ... is only closed by the next show": never longer than the cap.
Secs == Min({open.secs, SponsorShowMaxSec})

LiveViewers == viewers <= ViewerFresh

\* Live at either end is on air; with the viewers where their count is fresh.
Closed ==
    LET onAir == open.onAir \/ mon.live
        seen == onAir /\ LiveViewers
    IN  [rec EXCEPT ![open.sponsor] =
            [on |-> @.on + (IF onAir THEN Secs ELSE 0),
             off |-> @.off + (IF onAir THEN 0 ELSE Secs),
             covered |-> @.covered + (IF seen THEN Secs ELSE 0)]]

\* SponsorAirtimeEvent: what is open is closed, by a show too, and forgotten if it cannot be
\* written; a show opens one for the sponsor of the match state.
Reported(event) ==
    /\ IF open = NotOpen THEN UNCHANGED <<rec, faults>>
       ELSE \/ rec' = Closed /\ UNCHANGED faults
            \/ Fault /\ UNCHANGED rec
    /\ open' = IF event = "show" /\ name # NoName
               THEN [sponsor |-> name, secs |-> 0, onAir |-> mon.live] ELSE NotOpen

Lost == Fault /\ UNCHANGED <<rec, open>>

OnAir == stream.live \/ mon.live

Crossed(s) == crossed' = [crossed EXCEPT ![s] = @ + 1]

\* The overlay shows no strap without a sponsor, as far as it knows, and reports it as it comes.
Show ==
    /\ strap = NotOn /\ page.cfg # NoName
    /\ strap' = [name |-> page.text, len |-> 0, live |-> OnAir]
    /\ \/ Reported("show") /\ IF name \in {NoName, page.text} THEN UNCHANGED crossed
                              ELSE Crossed(name)
       \/ Lost /\ UNCHANGED crossed
    /\ UNCHANGED <<name, page, stream, mon, viewers, shown, ticks, phantoms>>

\* The strap's name is written at an over's end, on a strap that is up too.
Over ==
    /\ page.cfg \notin {NoName, page.text} /\ page' = [page EXCEPT !.text = page.cfg]
    /\ strap' = IF strap = NotOn THEN NotOn ELSE [strap EXCEPT !.name = page.cfg]
    /\ IF strap # NotOn /\ open.sponsor \notin {NoName, page.cfg} THEN Crossed(open.sponsor)
       ELSE UNCHANGED crossed
    /\ UNCHANGED <<name, stream, mon, open, rec, viewers, shown, ticks, faults, phantoms>>

Poll ==
    /\ page.cfg # name /\ page' = [page EXCEPT !.cfg = name]
    /\ UNCHANGED <<name, strap, stream, mon, open, rec, viewers, shown, ticks, faults, phantoms,
                   crossed>>

Ends ==
    /\ strap # NotOn /\ strap.len > 0 /\ strap' = NotOn
    /\ shown' = [shown EXCEPT ![strap.name] =
                    [live |-> @.live + (IF strap.live \/ OnAir THEN strap.len ELSE 0),
                     all |-> @.all + strap.len]]
    /\ UNCHANGED <<name, stream, mon, viewers, ticks, crossed>>

Hide ==
    /\ Ends /\ UNCHANGED page
    /\ \/ Reported("hide") /\ UNCHANGED phantoms
       \/ Lost /\ phantoms' = phantoms + 1

Reload ==
    /\ Ends /\ Lost /\ phantoms' = phantoms + 1
    /\ page' = [cfg |-> NoName, text |-> NoName]

-----------------------------------------------------------------------------
Rename(n) ==
    /\ n # name /\ Fault /\ name' = n
    /\ UNCHANGED <<page, strap, stream, mon, open, rec, viewers, shown, ticks, phantoms, crossed>>

\* The file outlives the server; nothing else does.
Restart ==
    /\ Fault /\ open' = NotOpen /\ viewers' = NoViewers /\ mon' = [live |-> FALSE, age |-> 0]
    /\ UNCHANGED <<name, page, strap, stream, rec, shown, ticks, phantoms, crossed>>

GoLive ==
    /\ ~stream.live /\ stream.id < MaxStreams /\ stream' = [live |-> TRUE, id |-> stream.id + 1]
    /\ UNCHANGED <<name, page, strap, mon, open, rec, viewers, shown, ticks, faults, phantoms,
                   crossed>>

GoOff ==
    /\ stream.live /\ stream' = [stream EXCEPT !.live = FALSE]
    /\ UNCHANGED <<name, page, strap, mon, open, rec, viewers, shown, ticks, faults, phantoms,
                   crossed>>

Monitor ==
    /\ mon # [live |-> stream.live, age |-> 0] /\ mon' = [live |-> stream.live, age |-> 0]
    /\ UNCHANGED <<name, page, strap, stream, open, rec, viewers, shown, ticks, faults, phantoms,
                   crossed>>

\* viewerTick: an active broadcast's viewers; one that has ended, or none, gives no count, and
\* what was counted last stays until it is old.
ViewerTick ==
    /\ mon.live /\ stream.live /\ viewers # 0 /\ viewers' = 0
    /\ UNCHANGED <<name, page, strap, stream, mon, open, rec, shown, ticks, faults, phantoms,
                   crossed>>

Tick ==
    /\ ticks < MaxTicks /\ ticks' = ticks + 1 /\ mon.age < Lag
    /\ strap # NotOn => strap.len < Panel
    /\ strap' = IF strap = NotOn THEN NotOn ELSE [strap EXCEPT !.len = @ + 1]
    /\ open' = IF open = NotOpen THEN NotOpen ELSE [open EXCEPT !.secs = @ + 1]
    /\ mon' = [mon EXCEPT !.age = @ + 1]
    /\ viewers' = Min({viewers + 1, NoViewers})
    /\ UNCHANGED <<name, page, stream, rec, shown, faults, phantoms, crossed>>

Next ==
    \/ Show \/ Over \/ Poll \/ Hide \/ Reload \/ Restart \/ GoLive \/ GoOff \/ Monitor
    \/ ViewerTick \/ Tick
    \/ \E n \in Sponsors \cup {NoName} : Rename(n)

Spec == Init /\ [][Next]_vars

-----------------------------------------------------------------------------
(* Properties                                                                *)

\* A sponsor is told of no more than the seconds its strap was on screen in appearances that met
\* the stream (as the monitor saw it, or as it was: "Only time while the stream was LIVE is ever
\* presented as airtime"), but for the cap for each whose end nobody reported, and for each that
\* was credited to it while the strap still had another's name, the sponsor having been changed
\* since the overlay's last poll; of no viewers beyond those seconds; and if nothing went wrong,
\* of every second, live or not.
AirtimeIsHonest ==
    \A s \in Sponsors :
        /\ rec[s].on <= shown[s].live + SponsorShowMaxSec * (phantoms + crossed[s])
        /\ rec[s].covered <= rec[s].on
        /\ faults = 0 /\ strap = NotOn => rec[s].on + rec[s].off = shown[s].all
==============================================================================
