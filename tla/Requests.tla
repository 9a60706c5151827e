------------------------------ MODULE Requests -------------------------------
(***************************************************************************)
(* Who may ask the server for what (handler.go, handler_post.go): the routes   *)
(* there are, and the logins they ask for (auth.go), which a crash              *)
(* restart keeps, for the clubhouse screen has no way of typing a password, and  *)
(* "log everyone out" ends for the day.                                       *)
(*                                                                         *)
(* A login is a signature over the server's epoch.  The launcher gives every    *)
(* server of a match day that day's epoch, and a file keeps the one that "log   *)
(* everyone out" chose.  An epoch is a number no other has.                    *)
(***************************************************************************)
EXTENDS Naturals, FiniteSets

-----------------------------------------------------------------------------
(* The routes, in the order they are matched: what each needs of the caller    *)
(* ("login", "here", the overlay's "login or here", or nothing) and what it      *)
(* changes; and which of them the clubhouse's link passes on.                    *)

Get(path, needs, changes) == [method |-> "GET", path |-> path, needs |-> needs, changes |-> changes]
Post(path, changes) == [method |-> "POST", path |-> path, needs |-> "login", changes |-> changes]
Overlay(path, changes) == [Post(path, changes) EXCEPT !.needs = "login or here"]
Anyone(paths, changes) == {Get(p, "nothing", changes) : p \in paths}
Login(paths, changes) == {Get(p, "login", changes) : p \in paths}

PagesAndState ==
    Anyone({"/", "/settings", "/control", "/favicon.ico", "/scoring", "/scoring/state",
          "/scoring/balls", "/scoring/scorecard", "/state"}, {})
    \cup Login({"/settings/info", "/rehearsal"}, {})

WeatherAndWords ==
    Anyone({"/weather/radar", "/weather/radar/frame", "/weather"}, {"lookups"})
    \cup Anyone({"/commands"}, {"commands"})
    \cup Anyone({"/commentary/over", "/fonts", "/voice", "/logos/debug"}, {})
    \cup Login({"/camera/spotter", "/precheck/last"}, {})

ScorerAndReports ==
    Anyone({"/pcs/debug", "/agent/status", "/data/status", "/social/photos"}, {})
    \cup Anyone({"/agent/discover"}, {"agent"})
    \cup Login({"/cameras/discover", "/data/export", "/social/recent"}, {})
    \cup Login({"/report/generate", "/social/image/generate"}, {"credit", "files"})

PicturesAndPages ==
    Anyone({"/social/clips/file", "/match/page/latest", "/social/image/latest", "/headshot",
          "/library/file", "/logos/list", "/logo", "/sponsor/airtime", "/sponsor"}, {})
    \cup Login({"/social/clips", "/match/page", "/report/log", "/library", "/sponsor/bg_preview"}, {})

SeasonAndMatch ==
    Anyone({"/player/stats", "/season/top", "/club/career", "/h2h", "/lineups", "/league/table"},
         {"lookups"})
    \cup Anyone({"/match/scorecard", "/match/fixtures"}, {})
    \cup Login({"/camera/side-on", "/break"}, {})
    \cup Login({"/h2h?force=1", "/player/stats/refresh"}, {"lookups"})
    \cup Login({"/match/fetch", "/save/test"}, {"settings"})

HealthAndYouTube ==
    Anyone({"/highlights/status", "/status", "/health", "/stream/monitor"}, {})
    \cup Login({"/auth/log", "/camera/cut_test", "/checklist", "/preview.jpg", "/youtube/chapters",
                "/youtube/highlights", "/youtube/live"}, {})
    \cup Login({"/youtube/thumbnail"}, {"files"})
    \cup Login({"/obs/stream_check"}, {"lookups"})

RemoteAndTalk ==
    Anyone({"/remote/info", "/remote/qr.png", "/live/view", "/talk/onair"}, {})
    \cup Anyone({"/live"}, {"record"})
    \cup Login({"/talk/status", "/talk/qr.png"}, {"talk"})
    \cup {Get("/talk/out", "here", {}), Get("/talk/out/ws", "here", {"talk"})}

Uploads == {Post("/sponsor/upload", {"files", "settings"}), Post("/library/upload", {"files"})}

PanelPosts ==
    {Post("/settings/save", {"config", "settings"}), Post("/settings/check", {}),
     [Post("/settings/open_folder", {"files"}) EXCEPT !.needs = "login and here"],
     Post("/talk/control", {"talk"}), Post("/rehearsal", {"settings"}),
     Post("/cameras/use", {"settings"}), Post("/agent/pair", {"settings", "agent"}),
     Post("/library/delete", {"files"}), Post("/library/rename", {"files"}),
     Post("/sponsor/remove_background", {"files", "settings"}), Post("/camera/cut_test", {"picture"}),
     Post("/checklist/action", {"picture", "stream"})}

StateAndReplay ==
    {Overlay("/sponsor/airtime", {"airtime"}), Post("/state", {"settings", "agent"}),
     Overlay("/replay", {"picture"}), Overlay("/weather/show", {"commands"}),
     Post("/obs/add_camera", {"picture"}), Post("/camera/spotter", {"credit"}),
     Post("/precheck", {"credit"})}

CamerasAndBreaks ==
    {Overlay("/camera/scene", {"picture"}), Post("/data/reconcile", {}),
     Overlay("/break/start", {"commands", "picture"}), Overlay("/break/end", {"commands", "picture"}),
     Overlay("/weather/hide", {"commands"})}
    \cup {Post(p, {"commands"}) : p \in {"/replay/test", "/scorecard/show", "/h2h/show", "/cards/show"}}

YouTubeAndClips ==
    {Post(p, {"youtube"}) : p \in {"/youtube/update", "/youtube/chapters", "/youtube/thumbnail",
                                   "/youtube/highlights"}}
    \cup {Post(p, {"files"}) : p \in {"/match/page", "/social/clips", "/highlights"}}

WordsAndStream ==
    {Overlay("/commentary/over/generate", {"credit"}), Post("/commentary/test", {"credit"}),
     Post("/auth/logout_all", {"logins"}), Post("/stream/dynamic", {"stream"}),
     Post("/stream/quality", {"stream"}), Post("/scoring/setup", {"record"}), Post("/scoring", {"record"})}

Routes ==
    PagesAndState \cup WeatherAndWords \cup ScorerAndReports \cup PicturesAndPages
    \cup SeasonAndMatch \cup HealthAndYouTube \cup RemoteAndTalk
    \cup Uploads \cup PanelPosts \cup StateAndReplay \cup CamerasAndBreaks \cup YouTubeAndClips
    \cup WordsAndStream

-----------------------------------------------------------------------------
(* The clubhouse's link: an allowlist, sent as from elsewhere, with the window's  *)
(* login.                                                                    *)

ViewAllowed == {"/live/view", "/state", "/checklist", "/preview.jpg", "/youtube/live",
                "/match/scorecard", "/league/table", "/logo"}

ProxyAllowed ==
    {r \in Routes :
        IF r.method = "GET"
        THEN r.path \in ViewAllowed \cup
                {"/precheck/last", "/stream/monitor", "/health", "/cameras/discover", "/remote/info",
                 "/remote/qr.png", "/talk/status", "/talk/qr.png", "/talk/onair"}
        ELSE r.path \in {"/checklist/action", "/precheck", "/cameras/use", "/obs/add_camera",
                         "/camera/scene", "/youtube/update", "/talk/control"}}

-----------------------------------------------------------------------------
(* Whose the changes are.                                                     *)

\* What anybody at all may change by asking: what is fetched, what is popped for the overlay, the
\* match as it is polled, where the scorer's laptop was seen.
Anybodys == {"lookups", "commands", "record", "agent"}

\* And what the overlay may, which has no login: the picture, the airtime, a sentence for an over.
Overlays == {"picture", "airtime", "credit", "commands", "talk"}

\* The routes that change more than is anybody's.
Operators == {r \in Routes : ~(r.changes \subseteq IF r.method = "GET" THEN Anybodys ELSE {})}

-----------------------------------------------------------------------------
(* The logins.                                                                *)

CONSTANTS
    LoginMaxFailures,   \* 5
    MaxEpochs,          \* bound on the days and on the times everyone is logged out
    MaxFaults           \* bound on the crashes, lost writes, wrong passwords and settings saved

NoLogin == [day |-> 0]
Off == 0

\* Whose calls they are: OBS's overlay and the laptop's own browser, from this machine; a phone;
\* the launcher and its window, whose login the clubhouse screen and the score-only screen use.
Callers == {"overlay", "browser", "phone", "window", "screen", "board"}
OnThisMachine == {"overlay", "browser", "window"}
Holders == {"browser", "phone", "window"}

VARIABLES
    byHand,     \* the server was started without the launcher
    serves,         \* it runs
    day,        \* the launcher's epoch: today's
    epoch,      \* sessionEpoch
    disk,       \* session_epoch.txt: [day, epoch]
    saving,     \* the epochs chosen and not yet in the file
    conf,       \* config.ini: [pwd, key, wide]
    auth,       \* [pwd, key: ClubPassword and ControlToken are set, wide: bound beyond this machine]
    login,      \* [Holders -> [epoch, old, and when it was given: day, round]]
    fails,      \* wrong passwords, from here and from elsewhere
    round,      \* times everyone has been logged out
    unsure,     \* today a write of the file was lost, or two met
    next,       \* the next epoch
    faults

requests == <<byHand, serves, day, epoch, disk, saving, conf, auth, login, fails, round, unsure, next,
          faults>>
settings == <<conf, auth>>

-----------------------------------------------------------------------------
\* A call that gets as far as the server, which listens to this machine alone without a password;
\* the link is the window's, which is on this machine.
Reaches(c, r) ==
    CASE c = "phone" -> auth.wide
      [] c = "screen" -> r \in ProxyAllowed
      [] c = "board" -> r \in ProxyAllowed /\ r.method = "GET" /\ r.path \in ViewAllowed
      [] OTHER -> TRUE

Bearer(c) == CASE c \in {"screen", "board"} -> login["window"]
               [] c \in Holders -> login[c]
               [] OTHER -> NoLogin

\* A good signature, which only a server with a control_token checks, and not twelve hours old.
VerifySessionToken(l) == auth.key /\ l # NoLogin /\ l.epoch = epoch /\ ~l.old
CheckToken(c) == ~auth.pwd \/ VerifySessionToken(Bearer(c))
TrustedLoopback(c) == c \in OnThisMachine

Allowed(c, r) ==
    CASE r.needs = "login" -> CheckToken(c)
      [] r.needs = "here" -> TrustedLoopback(c)
      [] r.needs = "login or here" -> TrustedLoopback(c) \/ CheckToken(c)
      [] r.needs = "login and here" -> TrustedLoopback(c) /\ CheckToken(c)
      [] OTHER -> TRUE

May(c, path) == serves /\ \E r \in Routes : r.path = path /\ r.method = "POST" /\ Reaches(c, r) /\ Allowed(c, r)

-----------------------------------------------------------------------------
Fault == faults < MaxFaults /\ faults' = faults + 1

\* The key a password needs is made, if config.ini can be written (persistControlToken).
EnsureControlToken(written) == conf.key \/ (conf.pwd /\ written)

\* Without a password, or a key to sign with, nobody beyond this machine is listened to.
LoadAuth(written) ==
    \E key \in {EnsureControlToken(written)} :
        /\ auth' = [pwd |-> conf.pwd, key |-> key, wide |-> conf.wide /\ conf.pwd /\ key]
        /\ conf' = [conf EXCEPT !.key = key]

\* Mutant: whatever the file says, whichever day it is of.
LoadSessionEpochOfAnyDay == epoch' = IF disk # NoLogin THEN disk.epoch ELSE day'

LoadSessionEpoch == epoch' = IF disk # NoLogin /\ disk.day = day' THEN disk.epoch ELSE day'

Booted(written) ==
    /\ serves' = TRUE /\ saving' = {} /\ fails' = [a \in {"here", "away"} |-> 0]
    /\ LoadAuth(written)

\* A match day, or a server by hand, whose every start is a day of its own: the window logs in once.
MatchDay(written) ==
    /\ ~serves /\ next < MaxEpochs
    /\ day' = next /\ next' = next + 1 /\ round' = 0 /\ unsure' = FALSE
    /\ IF byHand THEN epoch' = day' ELSE LoadSessionEpoch
    /\ Booted(written)
    /\ login' = [login EXCEPT !["window"] =
                    IF byHand \/ ~auth'.pwd \/ ~auth'.key THEN NoLogin
                    ELSE [epoch |-> epoch', old |-> FALSE, day |-> day', round |-> 0]]
    /\ UNCHANGED <<byHand, disk, faults>>

\* What a crash leaves of a write it cut short is the old file, an empty one or the new.
Collapse ==
    /\ serves /\ ~byHand /\ Fault /\ serves' = FALSE
    /\ IF saving = {} THEN UNCHANGED <<disk, unsure>>
       ELSE /\ disk' \in {disk, NoLogin} \cup {[day |-> day, epoch |-> e] : e \in saving}
            /\ unsure' = TRUE
    /\ UNCHANGED <<byHand, day, epoch, saving, settings, login, fails, round, next>>

StartAgain(written) ==
    /\ ~serves /\ ~byHand /\ day # Off
    /\ UNCHANGED day /\ LoadSessionEpoch /\ Booted(written)
    /\ UNCHANGED <<byHand, disk, login, round, unsure, next, faults>>

Stop ==
    /\ serves /\ saving = {} /\ serves' = FALSE
    /\ UNCHANGED <<byHand, day, epoch, disk, saving, settings, login, fails, round, unsure, next, faults>>

-----------------------------------------------------------------------------
Address(h) == IF TrustedLoopback(h) THEN "here" ELSE "away"

Serving == serves /\ UNCHANGED <<byHand, serves, day>>

\* makeSessionToken: without a key there is no login; without a password there need be none.
LogIn(h) ==
    /\ Serving /\ h # "window" /\ (h = "phone" => auth.wide)
    /\ auth.key /\ fails[Address(h)] < LoginMaxFailures
    /\ login' = [login EXCEPT ![h] = [epoch |-> epoch, old |-> FALSE, day |-> day, round |-> round]]
    /\ fails' = IF auth.pwd THEN [fails EXCEPT ![Address(h)] = 0] ELSE fails
    /\ UNCHANGED <<epoch, disk, saving, settings, round, unsure, next, faults>>

WrongPassword(h) ==
    /\ Serving /\ auth.pwd /\ h # "window" /\ (h = "phone" => auth.wide)
    /\ fails[Address(h)] < LoginMaxFailures
    /\ fails' = [fails EXCEPT ![Address(h)] = @ + 1] /\ Fault
    /\ UNCHANGED <<epoch, disk, saving, settings, login, round, unsure, next>>

TenMinutes(a) ==
    /\ Serving /\ fails[a] # 0 /\ fails' = [fails EXCEPT ![a] = 0]
    /\ UNCHANGED <<epoch, disk, saving, settings, login, round, unsure, next, faults>>

TwelveHours(h) ==
    /\ login[h] # NoLogin /\ ~login[h].old /\ login' = [login EXCEPT ![h].old = TRUE]
    /\ UNCHANGED <<byHand, serves, day, epoch, disk, saving, settings, fails, round, unsure, next, faults>>

\* rotateSessionEpoch: in memory at once, and then in the file, after the lock is let go.
LogoutAll(c) ==
    /\ Serving /\ next < MaxEpochs /\ May(c, "/auth/logout_all")
    /\ epoch' = next /\ next' = next + 1 /\ round' = round + 1
    /\ saving' = IF byHand THEN saving ELSE saving \cup {next}
    /\ unsure' = (unsure \/ saving # {})
    /\ UNCHANGED <<disk, settings, login, fails, faults>>

SaveEpoch(e) ==
    /\ Serving /\ saving' = saving \ {e}
    /\ \/ disk' = [day |-> day, epoch |-> e] /\ UNCHANGED <<unsure, faults>>
       \/ Fault /\ unsure' = TRUE /\ disk' \in {disk, NoLogin}
    /\ UNCHANGED <<epoch, settings, login, fails, round, next>>

\* settingsSave: the form always leaves a key; a password that is taken away while others can
\* reach the panel stays until a restart, and who is listened to changes only with one.
SettingsSave(c, p, w) ==
    /\ Serving /\ Fault /\ May(c, "/settings/save")
    /\ conf' = [pwd |-> p, key |-> TRUE, wide |-> w /\ p]
    /\ auth' = [auth EXCEPT !.key = TRUE, !.pwd = p \/ (auth.pwd /\ auth.wide)]
    /\ UNCHANGED <<epoch, disk, saving, login, fails, round, unsure, next>>

-----------------------------------------------------------------------------
RequestsInit ==
    /\ byHand \in BOOLEAN /\ serves = FALSE /\ day = Off /\ epoch = Off /\ disk = NoLogin /\ saving = {}
    /\ conf \in [pwd : BOOLEAN, key : BOOLEAN, wide : BOOLEAN]
    /\ auth = [pwd |-> FALSE, key |-> FALSE, wide |-> FALSE]
    /\ login = [h \in Holders |-> NoLogin] /\ fails = [a \in {"here", "away"} |-> 0]
    /\ round = 0 /\ unsure = FALSE /\ next = 1 /\ faults = 0

Starts == \E written \in BOOLEAN : MatchDay(written) \/ StartAgain(written)
Logins == \E h \in Holders : LogIn(h) \/ WrongPassword(h) \/ TwelveHours(h)
Asks == \E c \in Callers : LogoutAll(c) \/ \E p, w \in BOOLEAN : SettingsSave(c, p, w)

RequestsNext ==
    Starts \/ Collapse \/ Stop \/ Logins \/ Asks
    \/ (\E a \in {"here", "away"} : TenMinutes(a)) \/ (\E e \in saving : SaveEpoch(e))

RequestsSpec == RequestsInit /\ [][RequestsNext]_requests

-----------------------------------------------------------------------------
\* A login stands: given today, since everyone was last logged out, less than twelve hours ago.
Stands(l) == l # NoLogin /\ l.day = day /\ l.round = round /\ ~l.old

\* A login the server takes is one that stands, and the other way round: a crash neither logs the
\* clubhouse out nor brings back who was logged out.
TakenIfItStands == \A h \in Holders : login[h] # NoLogin /\ auth.key => (VerifySessionToken(login[h]) <=> Stands(login[h]))

\* Beyond what is anybody's, a change is an operator's: where there is a password, one whose login
\* stands; where there is none, somebody's at this machine or at the clubhouse's own screen.
OperatorsOnly ==
    \A c \in Callers :
        \/ Stands(Bearer(c)) \/ (~auth.pwd /\ c \notin {"phone", "board"})
        \/ \A r \in Operators :
            \/ ~Allowed(c, r) \/ ~Reaches(c, r)
            \/ TrustedLoopback(c) /\ r.changes \subseteq Overlays

\* Whose request changes what holds through crashes, restarts, saved settings and logouts, except
\* on a day when a write of the epoch's file was lost or two of them met.
LoginsHold == serves /\ ~unsure => TakenIfItStands /\ OperatorsOnly
==============================================================================
