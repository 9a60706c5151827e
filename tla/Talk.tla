--------------------------------- MODULE Talk ---------------------------------
(***************************************************************************)
(* Commentary from a phone (talk.go): the switch, the phones' own port, who  *)
(* waits, who is on air, and talk_session.json, which a server restarted     *)
(* after a crash picks up.  Every handler works under one lock; opening the  *)
(* port and checking a caller's key are done outside it.                     *)
(*                                                                         *)
(* A tick is half a minute: talkTick, every two seconds, runs in each.       *)
(***************************************************************************)
EXTENDS Naturals, FiniteSets

CONSTANTS
    Phones,      \* names for the requests to join: a bound on their number
    MaxWaiting,  \* how many may wait at once
    WaitGone, LostFor, ForgetFor,   \* ticks a phone may be silent, in each state
    SaveEvery,   \* the session file is rewritten at least this often
    SessionFor,  \* and is picked up when no older than this
    MaxOns,      \* bound: how often commentary is switched on
    MaxLostSaves,  \* bound: writes and removals of the file that fail
    MaxDown      \* bound: crashes and stops

\* A caller's id is random; talkSaveEvery is 30 s, talkSessionFor 5 minutes (talk.go:80-87).
ASSUME TalkAssumption ==
    /\ "nobody" \notin Phones /\ "off" \notin Phones
    /\ {WaitGone, LostFor, ForgetFor, SessionFor, MaxDown, MaxLostSaves} \subseteq Nat
    /\ SaveEvery \in Nat \ {0}

VARIABLES
    up,          \* the server runs
    key,         \* 0 while off, or the number of the key in the QR code
    ons,         \* keys made so far
    phone,       \* the record of each phone, and the call that makes it
    saved,       \* ticks since the last save
    file,        \* talk_session.json
    unsaved,     \* history: the last save did not reach it
    lostSaves,   \* saves that did not
    opener,      \* the calls of talkListen: TalkOn's, TalkResume's and talkTick's
    srv, listenErr,
    taken,       \* another program holds the port
    looked,      \* talkTick has run in this tick
    downs, away, \* times the server went down, and ticks it has been
    before       \* history: who was on air when it went down, at a crash

door == <<opener, srv, listenErr, taken>>
saves == <<saved, file, unsaved, lostSaves>>
outage == <<up, downs, away, before>>
talk == <<key, ons, phone, saves, door, looked, outage>>

Openers == {"on", "again", "tick"}   \* two presses of the switch, and talkTick's retry
States == {"new", "let in", "waiting", "on_air", "refused", "ended", "gone"}
Absent == [at |-> "gone", seen |-> 0]
NoFile == [key |-> 0, age |-> 0, who |-> "nobody"]
Cap(n, top) == IF n < top THEN n + 1 ELSE n
on == key # 0

In(state) == {p \in Phones : phone[p].at = state}
Set(p, state) == [phone EXCEPT ![p] = [at |-> state, seen |-> 0]]

\* talk.phones is made anew: whoever had a place has none.
Nobody == [p \in Phones |-> IF phone[p].at \in {"new", "let in"} THEN phone[p] ELSE Absent]

OnAirIn(ph) == {p \in Phones : ph[p].at = "on_air"}
Who(ph) == IF OnAirIn(ph) = {} THEN "nobody" ELSE CHOOSE p \in OnAirIn(ph) : TRUE

\* talkSaveLocked: the file goes while commentary is off, and else says who is on air.  Nothing
\* asks whether it was removed, written or renamed: a file that another program holds stays as it was.
Save(k, ph) ==
    /\ saved' = 0
    /\ \/ /\ file' = IF k = 0 THEN NoFile ELSE [key |-> k, age |-> 0, who |-> Who(ph)]
          /\ unsaved' = FALSE /\ UNCHANGED lostSaves
       \/ /\ lostSaves < MaxLostSaves /\ lostSaves' = lostSaves + 1
          /\ unsaved' = TRUE /\ UNCHANGED file

NoSave == UNCHANGED saves

TalkInit ==
    /\ up = TRUE /\ key = 0 /\ ons = 0
    /\ phone = [p \in Phones |-> [at |-> "new", seen |-> 0]]
    /\ saved = 0 /\ file = NoFile /\ unsaved = FALSE /\ lostSaves = 0
    /\ opener = [o \in Openers |-> "none"]
    /\ srv = FALSE /\ listenErr = FALSE /\ taken = FALSE
    /\ looked = TRUE /\ downs = 0 /\ away = 0 /\ before = "nobody"

-----------------------------------------------------------------------------
(* The switch and the port.                                                   *)

TalkOn(o) ==
    /\ up /\ ~on /\ ons < MaxOns /\ o # "tick" /\ opener[o] = "none"
    /\ ons' = ons + 1 /\ key' = ons + 1 /\ phone' = Nobody /\ Save(key', phone')
    /\ listenErr' = FALSE /\ opener' = [opener EXCEPT ![o] = "opening"]
    /\ UNCHANGED <<srv, taken, looked, outage>>

TalkOff ==
    /\ up /\ on
    /\ key' = 0 /\ phone' = Nobody /\ Save(0, phone')
    /\ srv' = FALSE /\ listenErr' = FALSE
    /\ UNCHANGED <<ons, opener, taken, looked, outage>>

Opener(o) == up /\ UNCHANGED <<key, ons, phone, saves, taken, looked, outage>>

Bind(o) ==
    /\ Opener(o) /\ opener[o] = "opening"
    /\ LET free == ~taken /\ ~srv /\ \A q \in Openers : opener[q] # "bound"
       IN  opener' = [opener EXCEPT ![o] = IF free THEN "bound" ELSE "failed"]
    /\ UNCHANGED <<srv, listenErr>>

\* Switched off while this was opening, it closes again.
OpenPort(o) ==
    /\ Opener(o) /\ opener[o] = "bound"
    /\ opener' = [opener EXCEPT ![o] = "none"]
    /\ srv' = (srv \/ on) /\ listenErr' = (listenErr /\ ~on)

PortInUse(o) ==
    /\ Opener(o) /\ opener[o] = "failed"
    /\ opener' = [opener EXCEPT ![o] = "none"] /\ listenErr' = TRUE /\ UNCHANGED srv

\* Another copy, shutting down or starting.
OtherProgram ==
    /\ up /\ ~srv /\ (\A o \in Openers : opener[o] # "bound")
    /\ taken' = ~taken
    /\ UNCHANGED <<key, ons, phone, saves, opener, srv, listenErr, looked, outage>>

-----------------------------------------------------------------------------
(* The phones.                                                                *)

Request(p) == up /\ p \in Phones /\ UNCHANGED <<key, ons, door, looked, outage>>

\* talkJoin: the key first, then, under the lock, the switch and the number waiting.
HasKey(p) == Request(p) /\ on /\ phone[p].at = "new" /\ phone' = Set(p, "let in") /\ NoSave

Join(p) ==
    /\ Request(p) /\ phone[p].at = "let in" /\ NoSave
    /\ phone' = IF on /\ Cardinality(In("waiting")) < MaxWaiting
                THEN Set(p, "waiting") ELSE [phone EXCEPT ![p] = Absent]

Known(p) == phone[p].at \in States \ {"new", "let in", "gone"}

\* A poll, a chunk of audio or a step of the volume.
Touch(p) ==
    /\ Request(p) /\ Known(p)
    /\ phone' = [phone EXCEPT ![p].seen = 0]
    /\ \/ NoSave
       \/ phone[p].at = "on_air" /\ Save(key, phone')    \* the volume is in the file

LeavePage(p) ==
    /\ Request(p) /\ phone[p].at \in {"waiting", "on_air"}
    /\ phone' = Set(p, "ended") /\ Save(key, phone')

-----------------------------------------------------------------------------
(* The operator's buttons: TalkControl saves after each.                      *)

\* Mutant: the one on air is asked to hand over, and not made to.
ApproveBeside(p) ==
    /\ Request(p) /\ phone[p].at = "waiting"
    /\ phone' = Set(p, "on_air") /\ Save(key, phone')

\* Whoever is on air hands over.
Approve(p) ==
    /\ Request(p) /\ phone[p].at = "waiting"
    /\ phone' = [q \in Phones |-> IF q = p THEN [at |-> "on_air", seen |-> 0]
                                  ELSE IF phone[q].at = "on_air" THEN [at |-> "ended", seen |-> 0]
                                  ELSE phone[q]]
    /\ Save(key, phone')

\* Mutant: the file still says who was on air.
DismissUnsaved(p) ==
    /\ Request(p) /\ phone[p].at \in {"waiting", "on_air"}
    /\ \E state \in {"refused", "ended"} : phone' = Set(p, state)
    /\ NoSave

\* "refuse" and "end": either may be pressed for either.
Dismiss(p) ==
    /\ Request(p) /\ phone[p].at \in {"waiting", "on_air"}
    /\ \E state \in {"refused", "ended"} : phone' = Set(p, state)
    /\ Save(key, phone')

Adjust(p) == Request(p) /\ phone[p].at = "on_air" /\ Save(key, phone) /\ UNCHANGED phone

-----------------------------------------------------------------------------
(* talkTick, and a server that goes away.                                     *)

\* What talkTick makes of one phone.
Judged(r) ==
    IF (r.at = "waiting" /\ r.seen > WaitGone) \/ (r.at = "on_air" /\ r.seen > LostFor)
    THEN [at |-> "ended", seen |-> 0]
    ELSE IF r.at \in {"refused", "ended"} /\ r.seen > ForgetFor THEN Absent ELSE r

TalkTick ==
    /\ up /\ ~looked /\ looked' = TRUE
    /\ IF ~on THEN UNCHANGED <<phone, opener>> /\ NoSave
       ELSE /\ phone' = [p \in Phones |-> Judged(phone[p])]
            /\ IF OnAirIn(phone') # OnAirIn(phone) \/ saved >= SaveEvery
               THEN Save(key, phone') ELSE NoSave
            /\ opener' = [opener EXCEPT !["tick"] =
                            IF @ = "none" /\ ~srv /\ listenErr THEN "opening" ELSE @]
    /\ UNCHANGED <<key, ons, srv, listenErr, taken, outage>>

\* The memory goes: the calls on their way, the port, the phones.
GoDown ==
    /\ up /\ downs < MaxDown /\ up' = FALSE /\ downs' = downs + 1 /\ away' = 0
    /\ key' = 0 /\ srv' = FALSE /\ listenErr' = FALSE
    /\ opener' = [o \in Openers |-> "none"]
    /\ phone' = [p \in Phones |-> IF phone[p].at = "new" THEN phone[p] ELSE Absent]
    /\ looked' = TRUE /\ UNCHANGED <<ons, taken>>

ServerCrash == GoDown /\ before' = (IF on THEN Who(phone) ELSE "off") /\ NoSave

\* Stop and Ctrl+C end in TalkOff.
CleanStop == GoDown /\ before' = "off" /\ Save(0, phone)

\* The server starts again: TalkResume, to the talkTick it ends in, which saves.
TalkResume ==
    /\ ~up /\ up' = TRUE
    /\ IF file.key # 0 /\ file.age <= SessionFor
       THEN /\ key' = file.key /\ opener' = [opener EXCEPT !["on"] = "opening"]
            /\ phone' = [p \in Phones |-> IF p = file.who THEN [at |-> "on_air", seen |-> 0]
                                          ELSE phone[p]]
            /\ Save(key', phone')
       ELSE Save(0, phone) /\ UNCHANGED <<key, opener, phone>>    \* a file too old is removed
    /\ UNCHANGED <<ons, srv, listenErr, taken, looked, downs, away, before>>

Tick ==
    /\ looked /\ looked' = ~up
    /\ phone' = [p \in Phones |-> [phone[p] EXCEPT !.seen = IF Known(p) THEN Cap(@, LostFor + 1) ELSE @]]
    /\ saved' = Cap(saved, SaveEvery) /\ file' = [file EXCEPT !.age = IF file.key # 0 THEN Cap(@, SessionFor + 1) ELSE @]
    /\ away' = IF up THEN away ELSE Cap(away, SessionFor + 1)
    /\ UNCHANGED <<key, ons, unsaved, lostSaves, door, up, downs, before>>

TalkNext ==
    \/ TalkOff \/ OtherProgram
    \/ \E o \in Openers : TalkOn(o) \/ Bind(o) \/ OpenPort(o) \/ PortInUse(o)
    \/ \E p \in Phones : \/ HasKey(p) \/ Join(p) \/ Touch(p) \/ LeavePage(p)
                         \/ Approve(p) \/ Dismiss(p) \/ Adjust(p)
    \/ TalkTick \/ ServerCrash \/ CleanStop \/ TalkResume \/ Tick

TalkSpec == TalkInit /\ [][TalkNext]_talk

-----------------------------------------------------------------------------
\* One voice at a time: approving, handing over, being lost, and being picked up after a
\* crash, in any order.  And only behind an open switch: nobody waits, is on air or finds the
\* phones' port open while commentary is off, though the port is opened outside the lock and
\* commentary may be switched off, and on again, meanwhile.
OneVoice ==
    /\ Cardinality(In("on_air")) <= 1
    /\ ~on => In("waiting") \cup In("on_air") = {} /\ ~srv

\* Who is on air after a restart, if the last save reached the disk: after a crash and a short
\* outage, who was when it crashed; after a clean stop nobody; and never anybody else.  Whatever
\* was lost, nobody comes back after a long outage, and one phone at most after a short one.  (The
\* comment at talk.go:1249 has a failed save cost the session only; but after one a phone that was
\* sent off the air is put back, by a crash, or by a clean stop when it was the removal that failed.)
ResumesExactly ==
    ~up /\ up' =>
        LET heard == OnAirIn(phone')
        IN  /\ ~unsaved =>
                  /\ heard \subseteq {before}
                  /\ before \in {"nobody"} \cup Phones /\ away + SaveEvery < SessionFor
                        => key' # 0 /\ (before \in Phones => heard = {before})
                  /\ before = "off" => key' = 0
            /\ away > SessionFor => key' = 0 /\ heard = {}
            /\ Cardinality(heard) <= 1
ResumeIsExact == [][ResumesExactly]_talk
===============================================================================
