------------------------------ MODULE ClubScreen ------------------------------
(***************************************************************************)
(* The clubhouse screen once it is paired (screen.go): the PIN that locks it,  *)
(* its page in the kiosk browser (clubhouse.html), which asks the laptop on a   *)
(* clock of its own, what it passes on to the laptop's link (link.go), and the   *)
(* laptop it wakes.                                                          *)
(*                                                                         *)
(* Everybody in the clubhouse can press it.  An unlock lasts ten minutes and    *)
(* every press renews it; what the page asks by itself must not, or a screen     *)
(* left on a tab is never locked.  A tick is the three seconds of the page's      *)
(* clock; its faster polls fall within it.                                     *)
(***************************************************************************)
EXTENDS Naturals

CONSTANTS
    PINs,
    UnlockFor,      \* an unlock, in ticks: 200; fewer when checking
    MaxWrong,       \* wrong PINs before a pause: 5
    Pause,          \* a minute
    StartFor,       \* how long a start waits for the laptop: 15 minutes
    MaxTurns        \* bound on the laptop's comings and goings, on pairings, PINs and faults

NoPIN == "none"

\* What is assumed of the constants; TLC evaluates it with the instance (MCLaptop).
ScreenTimed == UnlockFor \in Nat

VARIABLES
    pin,        \* cfg.PinHash
    role,       \* the key the screen is paired with: "none", "control" or "view" (cfg.View)
    kept,       \* what clubhouse.ini has of both
    till,       \* unlockedTil: ticks left
    wrong,      \* pinFails
    paused,     \* pinLockTil: ticks left
    found,      \* what the last poll of the laptop found: "off", or its phase
    waking,     \* wakingSince
    tab,        \* the page's: "score", "get", "talk", "health" or "other"
    startIn,    \* pendingStart: ticks left, 0 when none
    qrKnown,    \* the page knows whether the match is scored by hand
    laptop,     \* its phase (external): "off", "home" or "running"
    byHand,     \* how its match day is scored
    obeyed,     \* history: a command that the laptop took from this screen, as it is paired
    untouched,  \* history: ticks since a person did something
    polled,     \* history: since then the page has asked whether a match is by hand, in vain
    turns

locking == <<pin, kept, till, wrong, paused>>
kiosk == <<tab, startIn, qrKnown>>
match == <<laptop, byHand>>
clubScreen == <<locking, role, found, waking, kiosk, match, obeyed, untouched, polled, turns>>

Unlocked == pin = NoPIN \/ till > 0

\* touch: an unlock is renewed, whoever it is that acts.
Touched == IF pin # NoPIN /\ till > 0 THEN UnlockFor ELSE till
Touch == till' = Touched

-----------------------------------------------------------------------------
(* What the page may read: of a locked screen, the match and the stream; with the  *)
(* unlock but without renewing it, what the Commentary tab asks every second.      *)

PublicReads == {"/live/view", "/state", "/preview.jpg", "/youtube/live", "/checklist",
                "/stream/monitor", "/health", "/match/scorecard", "/league/table", "/talk/onair"}

\* Mutant: every read that needs the unlock is a person at work.
NothingWatched == {}

WatchedReads == {"/talk/status", "/talk/qr.png"}

\* Any other read renews the unlock it needs.
RenewNothing(reads) == reads \subseteq PublicReads \cup WatchedReads

\* What a tab asks as it opens (loadTab), and on the clock.
AskedOnOpening ==
    [get |-> {"/checklist"}, talk |-> {"/talk/status", "/talk/qr.png"}, score |-> {}, other |-> {"/state"},
     health |-> {"/health", "/stream/monitor", "/precheck/last"}]

AskedByTheClock ==
    [get |-> {}, talk |-> {"/talk/status"}, score |-> {"/match/scorecard", "/league/table"}, other |-> {},
     health |-> {"/health", "/stream/monitor"}]

AskedAlways == {"/live/view", "/checklist", "/talk/onair", "/preview.jpg"}

-----------------------------------------------------------------------------
Turn == turns < MaxTurns /\ turns' = turns + 1

\* A person is at the screen.
Person == untouched' = 0 /\ polled' = FALSE

-----------------------------------------------------------------------------
(* The PIN.                                                                  *)

\* unlock: without a PIN there is nothing to unlock; in a pause not even the right one is taken.
TypePIN(p) ==
    /\ Person /\ UNCHANGED <<pin, kept, role, found, waking, kiosk, match, obeyed>>
    /\ \/ /\ pin # NoPIN /\ paused = 0 /\ p = pin
          /\ wrong' = 0 /\ till' = UnlockFor /\ UNCHANGED <<paused, turns>>
       \/ /\ pin # NoPIN /\ paused = 0 /\ p # pin /\ Turn
          /\ wrong' = IF wrong + 1 >= MaxWrong THEN 0 ELSE wrong + 1
          /\ paused' = IF wrong + 1 >= MaxWrong THEN Pause ELSE 0
          /\ UNCHANGED till

Lock ==
    /\ till' = 0 /\ Person
    /\ UNCHANGED <<pin, kept, wrong, paused, role, found, waking, kiosk, match, obeyed, turns>>

\* saveScreenConfig: the file is replaced as a whole, or not at all.
Saved(p, r) == kept' \in {kept, [pin |-> p, role |-> r]}

\* setPIN: it holds from now on, in the file or not; whoever set it carries on.
SetPIN(p) ==
    /\ Unlocked /\ Turn /\ Person
    /\ pin' = p /\ till' = IF p = NoPIN THEN Touched ELSE UnlockFor
    /\ Saved(p, role)
    /\ UNCHANGED <<wrong, paused, role, found, waking, kiosk, match, obeyed>>

-----------------------------------------------------------------------------
(* What is passed on (api, forward), and taken (ServeHTTP).                    *)

\* The link takes a command from the screen that runs match day, and from no score-only screen.
Obeys == role = "control" /\ laptop # "off"

\* A person's press of what changes the laptop or its stream: start, answer, stop, power off, and
\* the panel's buttons.  A score-only screen passes none on.
Command ==
    /\ role # "view" /\ Unlocked /\ Touch /\ Person
    /\ obeyed' = (obeyed \/ Obeys)
    /\ \/ UNCHANGED match
       \/ Obeys /\ laptop = "home" /\ laptop' = "running" /\ byHand' \in BOOLEAN
       \/ Obeys /\ laptop = "running" /\ laptop' = "home" /\ UNCHANGED byHand
       \/ Obeys /\ laptop = "home" /\ laptop' = "off" /\ UNCHANGED byHand
    /\ UNCHANGED <<pin, kept, wrong, paused, role, found, waking, kiosk, turns>>

\* Start the stream, from the screen that says the laptop is off; and wake it again.
Wake ==
    /\ role = "control" /\ Unlocked /\ found = "off" /\ Touch /\ Person
    /\ waking' = TRUE /\ startIn' \in {startIn, StartFor}
    /\ UNCHANGED <<pin, kept, wrong, paused, role, found, tab, qrKnown, match, obeyed, turns>>

StopWaiting ==
    /\ waking /\ waking' = FALSE /\ startIn' = 0 /\ Person
    /\ UNCHANGED <<locking, role, found, tab, qrKnown, match, obeyed, turns>>

PairWith(r) ==
    /\ role = "none" /\ Unlocked /\ Turn /\ Touch /\ Person
    /\ role' = r /\ obeyed' = FALSE /\ Saved(pin, r)
    /\ UNCHANGED <<pin, wrong, paused, found, waking, kiosk, match>>

ForgetLaptop ==
    /\ role # "none" /\ Unlocked /\ Touch /\ Person
    /\ role' = "none" /\ found' = "off" /\ Saved(pin, "none")
    /\ UNCHANGED <<pin, wrong, paused, waking, kiosk, match, obeyed, turns>>

-----------------------------------------------------------------------------
(* The page.                                                                 *)

\* Where the tabs are: match day is on.  Every tab but the score asks for the unlock, and Health
\* reads the last pre-match check as it opens.
OpenTab(t) ==
    /\ role = "control" /\ found = "running" /\ (t # "score" => Unlocked)
    /\ tab' = t /\ Person
    /\ IF RenewNothing(AskedOnOpening[t]) THEN UNCHANGED till ELSE Touch
    /\ UNCHANGED <<pin, kept, wrong, paused, role, found, waking, startIn, qrKnown, match, obeyed, turns>>

OneLess(n) == IF n = 0 THEN 0 ELSE n - 1

\* A round of the page's clock: time passes, the laptop is polled, the page is drawn, and asks.
PollFound(now) == IF role = "none" THEN found ELSE now

\* A start that waited goes out when the laptop is there, at home, and has nothing to ask.
Starts == startIn > 1 /\ PollFound(laptop) = "home"

\* The first round of a match day: the Get ready tab, or the score.
TabDrawn(unlocked) ==
    CASE ~unlocked -> "score"
      [] found # "running" /\ PollFound(laptop) = "running" -> IF role = "view" THEN "score" ELSE "get"
      [] OTHER -> tab

\* loadChecklist, on every tab: is the match scored by hand?  Asked until it is.
AsksByHand == PollFound(laptop) = "running" /\ role # "none" /\ ~(qrKnown /\ found = "running")

Round ==
    LET unlocked == pin = NoPIN \/ till > 1
        starts == Starts /\ unlocked /\ role = "control"
        asks == AsksByHand /\ unlocked /\ role = "control"
        reads == AskedAlways \cup AskedByTheClock[TabDrawn(unlocked)]
                    \cup (IF asks THEN {"/remote/info"} ELSE {})
        renews == starts \/ (unlocked /\ PollFound(laptop) = "running" /\ ~RenewNothing(reads))
    IN
    /\ found' = PollFound(laptop)
    /\ waking' = (waking /\ found' = "off")
    /\ tab' = TabDrawn(unlocked)
    /\ startIn' = IF Starts THEN 0 ELSE OneLess(startIn)
    /\ qrKnown' = (found' = "running" /\ (IF AsksByHand THEN asks /\ byHand ELSE qrKnown))
    /\ laptop' = IF starts THEN "running" ELSE laptop
    /\ obeyed' = (obeyed \/ starts)
    /\ till' = IF renews /\ pin # NoPIN THEN UnlockFor ELSE OneLess(till)
    /\ paused' = OneLess(paused)
    /\ untouched' = IF starts THEN 0 ELSE IF untouched = 2 * UnlockFor THEN untouched ELSE untouched + 1
    /\ polled' = (polled \/ (asks /\ ~byHand))
    /\ byHand' = byHand
    /\ UNCHANGED <<pin, kept, wrong, role, turns>>

-----------------------------------------------------------------------------
(* The laptop without this screen, and the screen's own restarts.              *)

\* Switched on, off, or used by somebody there; a start is somebody's press.
LaptopTurns ==
    /\ Turn
    /\ \/ laptop = "off" /\ laptop' = "home" /\ UNCHANGED <<byHand, untouched>>
       \/ laptop = "home" /\ laptop' \in {"off", "running"}
          /\ IF laptop' = "running" THEN byHand' \in BOOLEAN /\ untouched' = 0 ELSE UNCHANGED <<byHand, untouched>>
       \/ laptop = "running" /\ laptop' = "home" /\ UNCHANGED <<byHand, untouched>>
    /\ UNCHANGED <<locking, role, found, waking, kiosk, obeyed, polled>>

\* Its memory is gone: locked, and with no wrong PIN counted.
Restart ==
    /\ Turn /\ pin' = kept.pin /\ role' = kept.role /\ till' = 0 /\ wrong' = 0 /\ paused' = 0
    /\ found' = "off" /\ waking' = FALSE /\ tab' = "score" /\ startIn' = 0 /\ qrKnown' = FALSE
    /\ obeyed' = (obeyed /\ role' = role)
    /\ UNCHANGED <<kept, match, untouched, polled>>

ScreenInit ==
    /\ pin = NoPIN /\ kept = [pin |-> NoPIN, role |-> "none"] /\ role = "none" /\ till = 0 /\ wrong = 0 /\ paused = 0
    /\ found = "off" /\ waking = FALSE /\ tab = "score" /\ startIn = 0 /\ qrKnown = FALSE
    /\ laptop = "off" /\ byHand = FALSE /\ obeyed = FALSE /\ untouched = 0 /\ polled = FALSE
    /\ turns = 0

ScreenNext ==
    \/ \E p \in PINs : TypePIN(p)
    \/ \E p \in PINs \cup {NoPIN} : SetPIN(p)
    \/ \E r \in {"control", "view"} : PairWith(r)
    \/ \E t \in {"score", "get", "talk", "health", "other"} : OpenTab(t)
    \/ Lock \/ Command \/ Wake \/ StopWaiting \/ ForgetLaptop \/ Round \/ LaptopTurns \/ Restart

ScreenSpec == ScreenInit /\ [][ScreenNext]_clubScreen
-----------------------------------------------------------------------------
\* A screen with a PIN that nobody touches locks itself ("After ten minutes untouched the screen
\* locks itself", CLUBHOUSE_SCREEN.md).
LocksItself == pin # NoPIN /\ till > 0 => untouched <= UnlockFor

\* The lock holds, whichever tab the screen is left on and whatever it starts by itself, but for the
\* question whether the match is scored by hand, which is asked until the answer is yes; and a
\* score-only screen has the laptop do nothing, whatever it was before.
ScreenIsMinded ==
    /\ ~polled => LocksItself
    /\ role = "view" => ~obeyed
==============================================================================
