------------------------------- MODULE MCParts -------------------------------
(* Parts of the server that share no state, each checked for itself in one    *)
(* run: a behaviour is one of one part, chosen at the start.  The parts that     *)
(* are proved about have their own variables; every other part has the rest to *)
(* itself: they are named in its INSTANCE, and what it does not need stays 0.  *)
EXTENDS ObsGuard, Talk, Requests, Rehearsal, ScorerFile, BreakShow, OBSReady

VARIABLES part, v1, v2, v3, v4, v5, v6, v7, v8, v9, v10, v11, v12, v13, v14

\* The page keeps one chunk, gives each two ticks, and counts again after two.
Voice == INSTANCE TalkVoice WITH
    MostBehind <- 1, InFlight <- 2, GiveUp <- 2, MaxPending <- 1, Restart <- 2, OldNews <- 1,
    MaxChunks <- 8, MaxFresh <- 1, MaxNet <- 2,
    made <- v1, queue <- v2, seq <- v3, net <- v4, slots <- v5, fresh <- v6, nextSeq <- v7,
    started <- v8, held <- v9, heldFor <- v10, silent <- v11

Source == INSTANCE TalkSource WITH
    Scenes <- {1, 2}, Cams <- {1}, MaxReloads <- 1, MaxEdits <- 2, MaxFaults <- 2,
    items <- v1, filters <- v2, input <- v3, connected <- v4, wanted <- v5, pass <- v6,
    sawInput <- v7, sawItem <- v8, sawFilter <- v9, todo <- v10, reloads <- v11,
    ready <- v12, edits <- v13, wrongs <- v14

\* A chapter leads by two gaps and a half in the code (25 s and 10 s), by two here.
Video == INSTANCE Chapters WITH
    Lead <- 2, Gap <- 1, Writers <- {"timer", "panel"}, Horizon <- 4, MaxWickets <- 1,
    MaxVideos <- 2, MaxTroubles <- 1,
    now <- v1, innings <- v2, started <- v3, wickets <- v4, prev <- v5, moments <- v6,
    videos <- v7, written <- v8, writer <- v9, due <- v10, troubles <- v11

Scene == INSTANCE Stacking WITH
    Graphic <- "overlay", Pictures <- {"one", "two"}, Logos <- {"logo"}, NewCamera <- "new",
    MaxTouches <- 1,
    items <- v1, home <- v2, setup <- v3, add <- v4, before <- v5, refused <- v6,
    together <- v7, touches <- v8

rest == <<v1, v2, v3, v4, v5, v6, v7, v8, v9, v10, v11, v12, v13, v14>>
own == <<vars, talk, rehearsal, requests, scorerFile, breaks, obsReady>>
parts == <<part, own, rest>>

\* What is left of the variables after the first so many.
rest11 == <<v12, v13, v14>>
rest8 == <<v9, v10, v11, rest11>>

After11 == v12 = 0 /\ v13 = 0 /\ v14 = 0
After8 == v9 = 0 /\ v10 = 0 /\ v11 = 0 /\ After11
After0 == /\ v1 = 0 /\ v2 = 0 /\ v3 = 0 /\ v4 = 0 /\ v5 = 0 /\ v6 = 0 /\ v7 = 0 /\ v8 = 0
          /\ After8

Parts == {"guard", "talk", "practice", "asks", "file", "voice", "source", "video", "break", "ready",
          "scene"}

PartsInit ==
    /\ part \in Parts
    /\ Init /\ TalkInit /\ RehearsalInit /\ RequestsInit /\ FileInit /\ BreakInit
    /\ ReadyInit
    \* A part that is not chosen has one beginning.
    /\ part # "guard" => ~marker
    \* The club's folders are alike.
    /\ source = "here"
    /\ part # "asks" => ~byHand /\ conf = auth
    /\ part # "file" => club = [way |-> "folder", known |-> FALSE, pcs |-> FALSE]
    \* Last season's folder is there for an agent, which knows the files' names; a bridge's file has
    \* a name of the club's own.
    /\ club.way = "agent" => club.known /\ club.pcs
    /\ club.way = "bridge" => ~club.known
    /\ part # "ready" => obsFiles = New /\ ~sentinel /\ managed
    /\ CASE part = "voice" -> Voice!Init /\ After11
         [] part = "source" -> Source!SourceInit
         [] part = "video" -> Video!Init /\ After11
         [] part = "scene" -> Scene!Init /\ After8
         [] OTHER -> After0

Other ==
    \/ part = "voice" /\ Voice!Next /\ UNCHANGED rest11
    \/ part = "source" /\ Source!SourceNext
    \/ part = "video" /\ Video!Next /\ UNCHANGED rest11
    \/ part = "scene" /\ Scene!Next /\ UNCHANGED rest8

PartsNext ==
    /\ UNCHANGED part
    /\ \/ /\ part = "guard" /\ Next
          /\ UNCHANGED <<talk, rehearsal, requests, scorerFile, breaks, obsReady, rest>>
       \/ /\ part = "talk" /\ TalkNext
          /\ UNCHANGED <<vars, rehearsal, requests, scorerFile, breaks, obsReady, rest>>
       \/ /\ part = "practice" /\ RehearsalNext
          /\ UNCHANGED <<vars, talk, requests, scorerFile, breaks, obsReady, rest>>
       \/ /\ part = "asks" /\ RequestsNext
          /\ UNCHANGED <<vars, talk, rehearsal, scorerFile, breaks, obsReady, rest>>
       \/ /\ part = "file" /\ FileNext
          /\ UNCHANGED <<vars, talk, rehearsal, requests, breaks, obsReady, rest>>
       \/ /\ part = "break" /\ BreakNext
          /\ UNCHANGED <<vars, talk, rehearsal, requests, scorerFile, obsReady, rest>>
       \/ /\ part = "ready" /\ ReadyNext
          /\ UNCHANGED <<vars, talk, rehearsal, requests, scorerFile, breaks, rest>>
       \/ Other /\ UNCHANGED own

PartsSpec == PartsInit /\ [][PartsNext]_parts

-----------------------------------------------------------------------------
(* The parts' properties, each of the states that are its part's.              *)

\* A voice whose chunks arrive is never silent for long, nor heard from two sources at once.
HeardOnce ==
    /\ part = "voice" => Voice!HeardAgainSoon
    /\ part = "source" => Source!OneSource

\* The chapters of a description are ones YouTube shows.
ChaptersFit == part = "video" => Video!ChaptersFit

\* The cameras are under the graphics, and what else a club put there is where it was.
LayoutIsRight == part = "scene" => Scene!LayoutIsRight

==============================================================================
