------------------------------- MODULE Update --------------------------------
(***************************************************************************)
(* Update now (internal/app/update.go): a newer release is fetched beside    *)
(* CricketStream.exe, checked, swapped in by two renames and started, and    *)
(* the copy that did it closes.  Each press is a goroutine of its own; two    *)
(* of them share the download's name.                                       *)
(*                                                                         *)
(* The files are Windows's: an open one is neither renamed nor removed, a    *)
(* running one may be renamed but neither replaced nor removed.              *)
(***************************************************************************)
EXTENDS FiniteSets

CONSTANTS Presses    \* the presses of Update now: a bound on their number

VARIABLES
    exe,        \* CricketStream.exe: "old", "new", "broken" or "none"
    aside,      \* CricketStream.exe.old: "old" (the copy running), "stale" or "none"
    download,   \* CricketStream.exe.download: "none", "short", "bad" or "good"
    stage,         \* each press's goroutine
    sum,        \* what it has fetched, by its own reckoning: "none", "bad" or "good"
    said,       \* updateInfo.state
    offered,    \* a newer release was found, with a file for this computer
    match,      \* match day is on
    window,     \* this copy's: "open", "finishing" or "gone"
    successor,  \* the copy it started: "none", "waiting" for the port, "open" or "gone"
    torn        \* history: the process ended inside a swap

files == <<exe, aside, download>>
threads == <<stage, sum, said>>
update == <<files, threads, offered, match, window, successor, torn>>

UpdateInit ==
    /\ exe = "old" /\ aside \in {"none", "stale"} /\ download = "none"
    /\ stage = [u \in Presses |-> "idle"] /\ sum = [u \in Presses |-> "none"] /\ said = ""
    /\ offered = FALSE /\ match = FALSE
    /\ window = "open" /\ successor = "none" /\ torn = FALSE

Writing == {u \in Presses : stage[u] = "writing"}
Busy == said \in {"downloading", "checking", "restarting"}
Running == window # "gone"

Goes(u, from, to) == Running /\ stage[u] = from /\ stage' = [stage EXCEPT ![u] = to]
Others == <<offered, match, window, successor, torn>>

-----------------------------------------------------------------------------
(* check, and startUpdate: what is remembered is set by the goroutine, later.  *)

Check ==
    /\ window = "open" /\ ~offered /\ offered' = TRUE
    /\ UNCHANGED <<files, threads, match, window, successor, torn>>

Press(u) ==
    /\ window = "open" /\ ~match /\ offered /\ ~Busy /\ Goes(u, "idle", "begun")
    /\ UNCHANGED <<files, sum, said, Others>>

-----------------------------------------------------------------------------
(* performUpdate.  The download is removed at every way out of it.             *)

Removed(u) == IF Writing \ {u} = {} THEN "none" ELSE download

Fail(u, from) ==
    /\ Goes(u, from, "over") /\ said' = "failed" /\ download' = Removed(u)
    /\ UNCHANGED <<exe, aside, sum, Others>>

Begin(u) ==
    /\ Goes(u, "begun", "fetching") /\ said' = "downloading"
    /\ UNCHANGED <<files, sum, Others>>

\* GitHub answers: the file is created, or emptied if it is there.
Create(u) ==
    /\ Goes(u, "fetching", "writing") /\ download' = "short"
    /\ UNCHANGED <<exe, aside, sum, said, Others>>

Progress(u) ==
    /\ Running /\ stage[u] = "writing" /\ said # "downloading" /\ said' = "downloading"
    /\ UNCHANGED <<files, stage, sum, Others>>

\* All of it has come.  Where the other goroutine emptied the file and has not got as far
\* again, there is a hole in it.
Fetched(u, what) ==
    /\ Goes(u, "writing", "checking") /\ sum' = [sum EXCEPT ![u] = what] /\ said' = "checking"
    /\ \/ download' = what
       \/ Writing # {u} /\ download' = "short"
    /\ UNCHANGED <<exe, aside, Others>>

\* The checksum is of what came; the signature and the version are read from the file.
Checked(u) ==
    /\ sum[u] = "good" /\ download = "good" /\ Goes(u, "checking", "checked")
    /\ UNCHANGED <<files, sum, said, Others>>

Refused(u) == (sum[u] # "good" \/ download # "good") /\ Fail(u, "checking")

\* What an earlier update left is removed; this copy moves to its name.
MoveAside(u) ==
    /\ Goes(u, "checked", "placing")
    /\ exe # "none" /\ aside # "old" /\ aside' = exe /\ exe' = "none"
    /\ UNCHANGED <<download, sum, said, Others>>

\* Its place was cleared first: what an earlier update left may be gone all the same.
CannotMove(u) ==
    /\ Goes(u, "checked", "over") /\ said' = "failed" /\ download' = Removed(u)
    /\ aside' \in IF aside = "stale" THEN {"stale", "none"} ELSE {aside}
    /\ UNCHANGED <<exe, sum, Others>>

Place(u) ==
    /\ Goes(u, "placing", "placed") /\ download # "none" /\ Writing = {}
    /\ exe' = (IF download = "good" THEN "new" ELSE "broken") /\ download' = "none"
    /\ said' = "restarting"
    /\ UNCHANGED <<aside, sum, Others>>

\* Mutant: the copy moved aside is left there.
AfterRefusalLeft == "failing"

AfterRefusal == "undoing"

CannotPlace(u) ==
    /\ Goes(u, "placing", AfterRefusal) /\ UNCHANGED <<files, sum, said, Others>>

\* Whatever Windows loads is started, what another press wrote over the download included; it
\* may die at once, which nobody looks at.
Relaunch(u) ==
    /\ Goes(u, "placed", "quitting") /\ successor' \in {"waiting", "gone"}
    /\ UNCHANGED <<files, sum, said, offered, match, window, torn>>

WillNotStart(u) ==
    /\ Goes(u, "placed", "undoing") /\ exe' = "none"
    /\ UNCHANGED <<aside, download, sum, said, Others>>

\* The rename back is taken to succeed: nothing has the name.
Undo(u) ==
    /\ Goes(u, "undoing", "failing") /\ exe' = aside /\ aside' = "none"
    /\ UNCHANGED <<download, sum, said, Others>>

Quit(u) ==
    /\ Goes(u, "quitting", "over") /\ download' = Removed(u)
    /\ window' = (IF window = "open" THEN "finishing" ELSE window)
    /\ UNCHANGED <<exe, aside, sum, said, offered, match, successor, torn>>

Step(u) ==
    \/ Begin(u) \/ Fail(u, "fetching") \/ Create(u) \/ Progress(u) \/ Fail(u, "writing")
    \/ \E what \in {"bad", "good"} : Fetched(u, what)
    \/ Checked(u) \/ Refused(u) \/ MoveAside(u) \/ CannotMove(u)
    \/ Place(u) \/ CannotPlace(u) \/ Relaunch(u) \/ WillNotStart(u)
    \/ Undo(u) \/ Fail(u, "failing") \/ Quit(u)

-----------------------------------------------------------------------------
(* Match day, the window, and the copies that follow one another.              *)

StartMatchDay ==
    /\ window = "open" /\ ~match /\ match' = TRUE
    /\ UNCHANGED <<files, threads, offered, window, successor, torn>>

MatchDayEnds ==
    /\ Running /\ match /\ match' = FALSE
    /\ UNCHANGED <<files, threads, offered, window, successor, torn>>

\* The window's close button: an update does not keep it open.
CloseWindow ==
    /\ window = "open" /\ ~match /\ window' = "finishing"
    /\ UNCHANGED <<files, threads, offered, match, successor, torn>>

\* The process ends: its window is closed and match day over, or not waited for any longer;
\* or the laptop's power is cut.
Exit ==
    /\ Running /\ window' = "gone" /\ match' = FALSE
    /\ stage' = [u \in Presses |-> "over"] /\ torn' = (exe = "none")
    /\ UNCHANGED <<files, sum, said, offered, successor>>

\* The copy that follows has the port, tidies up and tells of the update.
TakeOver ==
    /\ successor = "waiting" /\ ~Running /\ successor' = "open"
    /\ download' = "none" /\ aside' \in {aside, "none"}
    /\ UNCHANGED <<exe, threads, offered, match, window, torn>>

\* After 15 s the port is still taken and answers as CricketStream: it leaves.  The first
\* copy waits up to 20 s for a match day to end.
LeaveItOpen ==
    /\ successor = "waiting" /\ window = "finishing" /\ match /\ successor' = "gone"
    /\ UNCHANGED <<files, threads, offered, match, window, torn>>

UpdateNext ==
    \/ Check \/ \E u \in Presses : Press(u) \/ Step(u)
    \/ StartMatchDay \/ MatchDayEnds \/ CloseWindow \/ Exit \/ TakeOver \/ LeaveItOpen

UpdateSpec == UpdateInit /\ [][UpdateNext]_update

-----------------------------------------------------------------------------
\* "anything wrong leaves the old copy as it was" (CHANGELOG.md:330): a copy is under its name
\* as soon as no swap is under way, unless the process ended inside one, and till then the old
\* one is beside it.  What the code does not keep whole, of two presses, is what one has checked
\* and the other then wrote over: it is placed and, if Windows loads it, started; the old copy is
\* beside it, until the one that was started has the port and removes it.
Swapping == \E u \in Presses : stage[u] \in {"placing", "placed", "undoing"}

ACopyIsThere ==
    /\ exe = "none" => aside = "old" /\ (Swapping \/ torn)
    /\ exe = "broken" => aside = "old" \/ successor = "open"

\* "startUpdate begins Update now (not during match day)" (update.go:175): no update closes
\* CricketStream while match day is on.
NotDuringMatchDay == [][(\E u \in Presses : Quit(u)) => ~match]_update
==============================================================================
