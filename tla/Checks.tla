------------------------------- MODULE Checks --------------------------------
(***************************************************************************)
(* The pre-match check (precheck.go): seventeen questions asked at once, each   *)
(* answered ok, warn, bad or skip, within a time limit, by the panel's button    *)
(* and every six hours by itself; the last answer is the panel's badge.  A       *)
(* behaviour is about one of them, the subject; the rest are well or not.        *)
(* What a question sees is a record of facts: `conf' of them the settings a run   *)
(* began with, the others what is so as it asks.  The bitrate's facts have a      *)
(* life of their own: the launcher, the ladder and OBS write it.                *)
(***************************************************************************)
EXTENDS Naturals, Sequences, FiniteSetsExt, SequencesExt

CONSTANTS
    Tests,        \* what an upload test may measure, in kbps
    Ladder,       \* StreamLadder, in hundredths: rung by rung
    Releases      \* the versions, in the order they came out: [core, pre: <<>> or its numbers]

VARIABLES subject, facts, run, last
vars == <<subject, facts, run, last>>

Runners == {"loop", "button"}

-----------------------------------------------------------------------------
(* RecommendStreamSettings, targetBitrate and the versions.                    *)

RecommendStreamSettings(kbps) ==
    LET safe == (kbps * 75) \div 100
    IN  CASE safe < 1500 -> IF safe < 800 THEN 800 ELSE safe
          [] safe < 2800 -> safe
          [] safe < 4500 -> Min({safe, 4000})
          [] OTHER -> Min({safe, 6000})

TargetBitrate(test) == IF test = 0 THEN 0 ELSE RecommendStreamSettings(test)

TupleNewer(x, y) ==
    \E i \in 1 .. (Len(x) + Len(y)) :
        LET at(t, k) == IF k <= Len(t) THEN t[k] ELSE 0
        IN  at(x, i) > at(y, i) /\ \A j \in 1 .. (i - 1) : at(x, j) = at(y, j)

\* "A pre-release comes BEFORE its release."
VersionNewer(a, b) ==
    IF TupleNewer(a.core, b.core) \/ TupleNewer(b.core, a.core) THEN TupleNewer(a.core, b.core)
    ELSE IF a.pre = <<>> \/ b.pre = <<>> THEN a.pre = <<>> /\ b.pre # <<>>
    ELSE TupleNewer(a.pre, b.pre)

\* releases/latest is never a pre-release; a beta looks through the list too.
NewestListed(have, listed) ==
    LET among == {v \in listed : have.pre # <<>> \/ v.pre = <<>>}
        newer == {v \in among : VersionNewer(v, have)}
    IN  {v \in newer : ~\E w \in newer : VersionNewer(w, v)}

-----------------------------------------------------------------------------
(* The checks.                                                                *)

YouTube(f) ==
    CASE ~f.setUp -> "warn"
      [] f.login # "works" \/ f.channel = "none" -> "bad"
      [] f.channel = "another" \/ f.days = "five or more" -> "warn"
      [] OTHER -> "ok"

PlayCricket(f) ==
    CASE ~f.key \/ ~f.site -> "warn"
      [] f.answer # "fixtures" -> "bad"
      [] OTHER -> "ok"

Anthropic(f) == IF ~f.key THEN "warn" ELSE IF f.answer = "works" THEN "ok" ELSE "bad"

OBS(f) ==
    CASE f.local /\ ~f.open -> "warn"
      [] ~f.open \/ ~f.accepts -> "bad"
      [] OTHER -> "ok"

Scorer(f) == IF f.fresh THEN "ok" ELSE IF f.source = "local" /\ ~f.folder THEN "bad" ELSE "warn"

ScorerLink(f) == IF f.source = "local" THEN "skip" ELSE IF f.answers THEN "ok" ELSE "bad"

Disk(f) == CASE f.free = "under 2 GB" -> "bad" [] f.free = "under 10 GB" -> "warn" [] OTHER -> "ok"

Upload(f) ==
    LET want == IF f.want = 0 THEN RecommendStreamSettings(f.test) ELSE f.want
    IN  CASE f.test = 0 -> "skip"
          [] want * 100 > f.test * 80 -> "bad"
          [] f.old -> "warn"
          [] OTHER -> "ok"

AutoQuality(f) ==
    LET want == IF f.want = 0 /\ f.test # 0 THEN RecommendStreamSettings(f.test) ELSE f.want
    IN  CASE f.auto -> IF f.signedIn THEN "warn" ELSE "ok"
          [] f.test # 0 /\ f.test < 2 * want /\ ~f.signedIn -> "warn"
          [] OTHER -> "skip"

Cameras(f) == IF f.set = 0 THEN "skip" ELSE IF f.up < f.set THEN "warn" ELSE "ok"

Fixture(f) == IF f.key /\ f.site /\ f.found THEN "ok" ELSE "skip"

Badge(f) == IF ~f.opposition THEN "skip" ELSE IF f.found THEN "ok" ELSE "warn"

Surnames(f) == IF ~f.loaded THEN "skip" ELSE IF f.shared /\ ~f.rostered THEN "warn" ELSE "ok"

\* releases/latest has no answer offline, nor before the first release that is not a beta.
Updates(f) ==
    CASE ~f.online \/ {v \in f.listed : v.pre = <<>>} = {} -> "bad"
      [] NewestListed(f.have, f.listed) # {} -> "warn"
      [] OTHER -> "ok"

Clubhouse(f) == IF ~f.screen THEN "skip" ELSE IF f.woke /\ f.ready THEN "ok" ELSE "warn"

Discord(f) ==
    CASE ~f.hook -> "skip" [] f.answer = "gone" -> "bad" [] f.answer = "offline" -> "warn" [] OTHER -> "ok"

-----------------------------------------------------------------------------
(* The bitrate: what the launcher sets, the ladder lowers and OBS keeps.        *)

Configured(f) == IF f.mon # 0 THEN f.mon ELSE f.profile

\* Mutant: a rung is taken for the week-to-week jitter of the tests.
BitrateJitter(f) ==
    LET want == TargetBitrate(f.test)
    IN  CASE f.manual \/ Configured(f) = 0 \/ want = 0 -> "skip"
          [] Configured(f) * 100 < want * 70 -> "bad"
          [] Configured(f) * 100 > f.test * 80 -> "warn"
          [] OTHER -> "ok"

Bitrate(f) ==
    LET want == TargetBitrate(f.test)
    IN  CASE f.manual \/ Configured(f) = 0 \/ want = 0 -> "skip"
          [] Configured(f) * 100 < want * 80 -> "bad"
          [] Configured(f) * 100 > f.test * 80 -> "warn"
          [] OTHER -> "ok"

\* /health's (obsBitrateSanityCheck), of an OBS that is open; a step of this match is not left over.
Suspicious(f) ==
    /\ f.mon # 0 /\ f.test # 0 /\ f.mon * 100 < RecommendStreamSettings(f.test) * 80
    /\ ~(f.rung > 1 /\ f.mon = f.kbps)

Rung(n, base) == (base * Ladder[n]) \div 100

\* A test; the launcher, which sets OBS by the last one; somebody who opens OBS.
Tested(f) == {[f EXCEPT !.test = t] : t \in Tests \ {f.test}}

Opened(f) ==
    LET on(kbps) == [f EXCEPT !.open = TRUE, !.kbps = kbps, !.profile = kbps, !.rung = 1]
        set == TargetBitrate(f.test)
    IN  CASE f.open -> {}
          [] f.manual \/ set = 0 -> {on(f.profile)}
          [] OTHER -> {on(f.profile), [on(set) EXCEPT !.base = set]}

\* The ladder's steps, of a full bitrate; the monitor's look; OBS writes its file as it closes.
Lived(f) ==
    IF ~f.open THEN (IF f.mon # 0 THEN {[f EXCEPT !.mon = 0]} ELSE {})
    ELSE {[f EXCEPT !.open = FALSE, !.profile = f.kbps, !.rung = 1], [f EXCEPT !.mon = f.kbps]}
         \cup {[f EXCEPT !.rung = n, !.kbps = Rung(n, f.base)] :
                  n \in IF f.rung = 1 /\ f.kbps # f.base THEN {}
                        ELSE {f.rung - 1, f.rung + 1} \cap DOMAIN Ladder}

BitrateLives(f) == Tested(f) \cup Opened(f) \cup Lived(f)

-----------------------------------------------------------------------------
(* The facts of each: what is set up, and what is so.                          *)

Yes == BOOLEAN

Facts ==
    [youtube |-> [setUp : Yes, login : {"works", "expired", "offline"},
                  channel : {"ours", "another", "none"}, days : {"few", "five or more"}],
     playcricket |-> [key : Yes, site : Yes, answer : {"fixtures", "refused", "other", "offline"}],
     anthropic |-> [key : Yes, answer : {"works", "refused", "forbidden", "offline"}],
     obs |-> [local : Yes, open : Yes, accepts : Yes],
     scorer |-> [source : {"local", "agent"}, folder : Yes, fresh : Yes],
     scorer_link |-> [source : {"local", "agent", "bridge"}, answers : Yes],
     disk |-> [free : {"under 2 GB", "under 10 GB", "enough"}],
     upload |-> [test : Tests \cup {0}, want : {0, 3000}, old : Yes],
     auto_quality |-> [auto : Yes, signedIn : Yes, test : Tests \cup {0}, want : {0, 3000}],
     cameras |-> [set : 0 .. 2, up : 0 .. 2],
     fixture |-> [key : Yes, site : Yes, found : Yes],
     badge |-> [opposition : Yes, found : Yes],
     surnames |-> [loaded : Yes, shared : Yes, rostered : Yes],
     update |-> [online : Yes, have : ToSet(Releases), listed : SUBSET ToSet(Releases)],
     clubhouse |-> [screen : Yes, woke : Yes, ready : Yes],
     discord |-> [hook : Yes, answer : {"there", "gone", "offline"}],
     obs_bitrate |-> [manual : Yes, test : Tests \cup {0}, open : {FALSE}, profile : {4000},
                      base : {4000}, kbps : {4000}, rung : {1}, mon : {0}]]

Prechecks == DOMAIN Facts

\* What a check reads of the match state the run began with, not as it asks.
Conf == {"key", "site", "local", "source", "folder", "days", "test", "set", "opposition", "rostered"}

Verdict(c, f) ==
    CASE c = "youtube" -> YouTube(f) [] c = "playcricket" -> PlayCricket(f)
      [] c = "anthropic" -> Anthropic(f) [] c = "obs" -> OBS(f) [] c = "scorer" -> Scorer(f)
      [] c = "scorer_link" -> ScorerLink(f) [] c = "disk" -> Disk(f) [] c = "upload" -> Upload(f)
      [] c = "auto_quality" -> AutoQuality(f) [] c = "cameras" -> Cameras(f)
      [] c = "fixture" -> Fixture(f) [] c = "badge" -> Badge(f) [] c = "surnames" -> Surnames(f)
      [] c = "update" -> Updates(f) [] c = "clubhouse" -> Clubhouse(f) [] c = "discord" -> Discord(f)
      [] c = "obs_bitrate" -> Bitrate(f)

-----------------------------------------------------------------------------
(* RunPrecheck.  A run, or the last result, is old once the facts are others    *)
(* than they were, or another run has begun.                                   *)

NoRun == [at |-> "no", conf |-> <<>>, status |-> "skip", old |-> FALSE]
NoResult == [status |-> "skip", late |-> FALSE, old |-> TRUE]

Init ==
    /\ subject \in Prechecks /\ facts \in Facts[subject]
    /\ run = [r \in Runners |-> NoRun] /\ last = NoResult

Grown(x) == IF x = NoRun THEN x ELSE [x EXCEPT !.old = TRUE]

Changes(f) ==
    IF subject = "obs_bitrate" THEN BitrateLives(f)
    ELSE {g \in Facts[subject] : \E k \in DOMAIN f : g[k] # f[k] /\ \A j \in DOMAIN f \ {k} : g[j] = f[j]}

Change ==
    /\ \E g \in Changes(facts) \ {facts} : facts' = g
    /\ run' = [r \in Runners |-> Grown(run[r])] /\ last' = Grown(last)
    /\ UNCHANGED subject

Begin(r) ==
    /\ run[r].at = "no"
    /\ LET conf == [k \in DOMAIN facts \cap Conf |-> facts[k]]
       IN  run' = [o \in Runners |-> IF o = r THEN [NoRun EXCEPT !.at = "asking", !.conf = conf]
                                     ELSE Grown(run[o])]
    /\ last' = Grown(last)
    /\ UNCHANGED <<subject, facts>>

Seen(r) == [k \in DOMAIN facts |-> IF k \in Conf THEN run[r].conf[k] ELSE facts[k]]

Answer(r) ==
    /\ run[r].at = "asking"
    /\ run' = [run EXCEPT ![r].at = "answered", ![r].status = Verdict(subject, Seen(r))]
    /\ UNCHANGED <<subject, facts, last>>

\* All have answered, or the time is up: one that has not is bad, and hides no other.
End(r) ==
    /\ run[r].at # "no"
    /\ LET late == run[r].at = "asking"
       IN  last' = [status |-> IF late THEN "bad" ELSE run[r].status, late |-> late, old |-> run[r].old]
    /\ run' = [run EXCEPT ![r] = NoRun]
    /\ UNCHANGED <<subject, facts>>

Next == Change \/ \E r \in Runners : Begin(r) \/ Answer(r) \/ End(r)

Spec == Init /\ [][Next]_vars

-----------------------------------------------------------------------------
(* Properties                                                                *)

\* What is wrong now: a credential that is set and not taken, a folder, disk or line that will
\* not do.  A camera, a scorer or an OBS that is away or closed is not, nor is no internet for
\* what is optional; but see the README for the scorer's laptop and for an OBS elsewhere.
Wrong(c, f) ==
    CASE c = "youtube" -> f.setUp /\ (f.login # "works" \/ f.channel = "none")
      [] c = "playcricket" -> f.key /\ f.site /\ f.answer # "fixtures"
      [] c = "anthropic" -> f.key /\ f.answer # "works"
      [] c = "obs" -> IF f.open THEN ~f.accepts ELSE ~f.local
      [] c = "scorer" -> ~f.fresh /\ f.source = "local" /\ ~f.folder
      [] c = "scorer_link" -> f.source # "local" /\ ~f.answers
      [] c = "disk" -> f.free = "under 2 GB"
      [] c = "upload" -> f.test # 0 /\ f.test * 4 < 5 * (IF f.want = 0 THEN 800 ELSE f.want)
      [] c = "discord" -> f.hook /\ f.answer = "gone"
      [] OTHER -> FALSE

\* A bitrate the ladder lowered in a match that is over.
Leftover(f) == f.rung = 1 /\ (IF f.open THEN f.kbps ELSE f.profile) < f.base
Known(f) == f.mon = IF f.open THEN f.kbps ELSE 0

\* "this only fires on a real leftover downshift", or on a bitrate set before a faster test was
\* made; the pre-match check on a working step too.  And it does fire.
LeftoversAreSeen(f, status) ==
    Known(f) =>
        /\ Leftover(f) /\ TargetBitrate(f.test) >= f.base =>
               (f.manual \/ status = "bad") /\ (f.open => Suspicious(f))
        /\ status = "bad" => Leftover(f) \/ TargetBitrate(f.test) > f.base \/ f.rung > 1
        /\ Suspicious(f) => Leftover(f) \/ TargetBitrate(f.test) > f.base

\* Which came out after which.
Later(v, w) == \E i, j \in DOMAIN Releases : i > j /\ Releases[i] = v /\ Releases[j] = w

UpdatesAreLater(f, status) ==
    status # "bad" =>
        ((status = "warn") <=> \E v \in f.listed : Later(v, f.have) /\ (v.pre = <<>> \/ f.have.pre # <<>>))

\* The answer of the last run that was begun, if it came in time and nothing has changed since, is
\* about what is so: a red badge for what is wrong now, and for nothing else.
BadgeIsRight ==
    ~last.old /\ ~last.late =>
        CASE subject = "obs_bitrate" -> LeftoversAreSeen(facts, last.status)
          [] subject = "update" -> UpdatesAreLater(facts, last.status)
          [] OTHER -> (last.status = "bad") <=> Wrong(subject, facts)
==============================================================================
