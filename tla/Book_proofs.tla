----------------------------- MODULE Book_proofs -----------------------------
(***************************************************************************)
(* The scorer's book, for matches of any size: any side, any number of overs  *)
(* and of balls in one, any deliveries, and logs of any length.              *)
(*                                                                         *)
(*   An innings that is right (Right): its figures agree at every stage of a   *)
(*   delivery, the pair at the crease have batted, those who have not are next. *)
(*   A book that is good (GoodBook), so every replay of a log: its innings are  *)
(*   right, and the second chases one more than the first.                     *)
(*   What the book tells (TellsAll), event by event: overs, bowlers, maidens.    *)
(*   The session (SessionInv): what is in memory and in the file replays, and   *)
(*   is accepted event by event until something is edited.                     *)
(*                                                                         *)
(* The last is inductive because a log that reads does so up to each of its    *)
(* events (AllOfItIsRead): an undo after edits has a prefix that was replayed.  *)
(***************************************************************************)
EXTENDS ScoringSession, DataLemmas

BatRec == [runs : Nat, balls : Nat, out : BOOLEAN]
BowlRec == [legal : Nat, runs : Nat, wkts : Nat, maidens : Nat, conceded : Nat]
Orders == [Batters -> Batters]
Bats == [Batters -> BatRec]
Bowls == [Bowlers -> BowlRec]
Schedules == [0..MaxOvers -> Bowlers \cup {NoBowler}]
Histories == Seq(Nat)

InningsRec ==
    [total : Nat, wkts : Nat, legal : Nat, extras : Nat, target : Nat,
     order : Orders, nextBat : Batters, striker : Batters, nonStriker : Batters,
     bat : Bats, bowl : Bowls, schedule : Schedules,
     overBowlers : SUBSET Bowlers, overRuns : Nat, overBalls : Nat, history : Histories,
     pruns : Nat, pballs : Nat, forced : BOOLEAN]

\* An over more at every BallsPerOver legal balls, and no more than MaxOvers of them.
LEMMA OverIs ==
  \A n \in Nat : /\ n \div BallsPerOver \in Nat /\ n % BallsPerOver \in Nat
                 /\ (n + 1) \div BallsPerOver = IF (n + 1) % BallsPerOver = 0 THEN n \div BallsPerOver + 1
                                                ELSE n \div BallsPerOver
                 /\ n < MaxOvers * BallsPerOver => n \div BallsPerOver < MaxOvers
                 /\ n <= MaxOvers * BallsPerOver => n \div BallsPerOver <= MaxOvers
  BY BookAssumption

\* The place in an end's rotation.
LEMMA CycleIs ==
  \A o \in Nat, n \in Nat \ {0} : (((o \div 2) \div SpellOvers) % n) + 1 \in 1..n
<1> SUFFICES ASSUME NEW o \in Nat, NEW n \in Nat \ {0} PROVE (((o \div 2) \div SpellOvers) % n) + 1 \in 1..n
  OBVIOUS
<1>1. o \div 2 \in Nat
  OBVIOUS
<1>2. (o \div 2) \div SpellOvers \in Nat
  BY <1>1, BookAssumption
<1> QED
  BY <1>2

\* Somebody bowls every over.
LEMMA BowlerIs ==
  ASSUME NEW e \in InningsRec, NEW o \in 0..MaxOvers PROVE BowlerForOver(e, o) \in Bowlers
<1> DEFINE end == o % 2
           n == (Len(Attack) + 1 - end) \div 2
           ends  == [j \in 1..n |-> Attack[2 * j - 1 + end]]
           cycle == IF ends = <<>> THEN Attack ELSE ends
           at == (((o \div 2) \div SpellOvers) % Len(cycle)) + 1
<1>0. o \in Nat /\ MaxOvers \in Nat
  BY BookAssumption
<1>1. Attack \in Seq(Bowlers) /\ Len(Attack) \in Nat \ {0}
  BY BookAssumption, EmptySeq
<1>2. end \in {0, 1}
  BY <1>0
<1>3. ends \in Seq(Bowlers)
  <2> HIDE DEF end
  <2>1. n \in Nat
    BY <1>1, <1>2
  <2>2. ASSUME NEW j \in 1..n PROVE Attack[2 * j - 1 + end] \in Bowlers
    <3>1. 2 * j - 1 + end \in 1..Len(Attack)
      BY <1>1, <1>2
    <3> QED
      BY <3>1, <1>1
  <2> QED
    BY <2>1, <2>2
<1>4. cycle \in Seq(Bowlers) /\ Len(cycle) \in Nat \ {0}
  <2> HIDE DEF ends
  <2> QED
    BY <1>1, <1>3, EmptySeq
<1>5. cycle[at] \in Bowlers
  <2> HIDE DEF cycle
  <2> QED
    BY <1>0, <1>4, CycleIs
<1>6. BowlerForOver(e, o) = IF e.schedule[o] # NoBowler THEN e.schedule[o] ELSE cycle[at]
  BY DEF BowlerForOver
<1>7. e.schedule[o] \in Bowlers \cup {NoBowler}
  BY DEF InningsRec, Schedules
<1> HIDE DEF cycle, at
<1> QED
  BY <1>5, <1>6, <1>7

-----------------------------------------------------------------------------
(* An innings that is right. *)

\* The columns that are added up.
RunsOff(bat) == [b \in Batters |-> bat[b].runs]
Outs(bat) == {b \in Batters : bat[b].out}
LegalBy(bowl) == [w \in Bowlers |-> bowl[w].legal]
RunsBy(bowl) == [w \in Bowlers |-> bowl[w].runs]
WktsBy(bowl) == [w \in Bowlers |-> bowl[w].wkts]

\* Its figures agree, whatever stage of a ball it is at.
Sums(e) ==
    /\ e.total = Sum(RunsOff(e.bat)) + e.extras
    /\ e.total = Sum(e.history) + e.overRuns
    /\ e.legal = Sum(LegalBy(e.bowl))
    /\ e.total >= Sum(RunsBy(e.bowl))
    /\ e.wkts = Cardinality(Outs(e.bat))
    /\ e.wkts >= Sum(WktsBy(e.bowl))

Batted(e) == {e.order[i] : i \in 1..e.nextBat}

\* Two who batted and are not out are in, while there are wickets left.
Pair(e) ==
    /\ \A i, j \in Batters : e.order[i] = e.order[j] => i = j
    /\ e.striker # e.nonStriker /\ e.striker \in Batted(e) /\ e.nonStriker \in Batted(e)
    /\ e.wkts < AllOut => ~e.bat[e.striker].out /\ ~e.bat[e.nonStriker].out
    /\ \A b \in Batters \ Batted(e) : ~e.bat[b].out /\ e.bat[b].balls = 0
    /\ e.wkts < AllOut => e.nextBat = 2 + e.wkts

\* What is left of it can be bowled.
Overs(e) == /\ e.legal <= MaxOvers * BallsPerOver /\ Len(e.history) = CurrentOverNo(e)

Right(e) == e \in InningsRec /\ Sums(e) /\ Pair(e) /\ Overs(e)

\* The sum of the session's properties is the one of the data lemmas.
LEMMA SumIsTotal == \A f : Sum(f) = Total(f)
  BY DEF Sum, Total

LEMMA SidesAreFinite == IsFiniteSet(Batters) /\ IsFiniteSet(Bowlers)
<1>1. IsFiniteSet(Batters)
  BY BookAssumption, FS_Interval DEF Batters
<1>2. IsFiniteSet({Attack[i] : i \in DOMAIN Attack})
  <2>1. DOMAIN Attack = 1..Len(Attack) /\ Len(Attack) \in Int
    BY BookAssumption
  <2>2. IsFiniteSet(DOMAIN Attack)
    BY <2>1, FS_Interval
  <2> QED
    <3> DEFINE T == {Attack[i] : i \in DOMAIN Attack}
    <3>1. Attack \in Surjection(DOMAIN Attack, T)
      BY <2>1, BookAssumption DEF Surjection
    <3> HIDE DEF T
    <3>2. IsFiniteSet(T)
      BY <2>2, <3>1, FS_Surjection
    <3> QED
      BY <3>2 DEF T
<1> QED
  BY <1>1, <1>2, BookAssumption, FS_Union DEF Bowlers

\* What a delivery is worth, to whom, is a natural number, and the team's share is the largest.
LEMMA DeliveryIs ==
  \A d \in Delivery : /\ TeamRuns(d) \in Nat /\ OffBat(d) \in Nat /\ Conceded(d) \in Nat
                      /\ OffBat(d) <= TeamRuns(d) /\ Conceded(d) <= TeamRuns(d)
                      /\ Ran(d) \in Nat
  BY DEF Delivery, Kinds, TeamRuns, OffBat, Conceded, Ran, ByeRuns

\* Sums of a column, when one place changes or one is added.
LEMMA SumFacts ==
  /\ \A f \in [Batters -> Int] : Sum(f) \in Int
  /\ \A f \in [Bowlers -> Int] : Sum(f) \in Int
  /\ \A f, e \in [Batters -> Int], x \in Batters :
        (\A b \in Batters \ {x} : e[b] = f[b]) => Sum(e) = Sum(f) + e[x] - f[x]
  /\ \A f, e \in [Bowlers -> Int], x \in Bowlers :
        (\A b \in Bowlers \ {x} : e[b] = f[b]) => Sum(e) = Sum(f) + e[x] - f[x]
  /\ \A s \in Seq(Int), v \in Int : Sum(s) \in Int /\ Sum(Append(s, v)) = Sum(s) + v
<1>1. \A s \in Seq(Int) : Sum(s) \in Int
  <2> SUFFICES ASSUME NEW s \in Seq(Int) PROVE Sum(s) \in Int
    OBVIOUS
  <2>1. s \in [1..Len(s) -> Int] /\ Len(s) \in Nat
    BY LenProperties
  <2>2. IsFiniteSet(1..Len(s))
    BY <2>1, FS_Interval
  <2> QED
    BY <2>1, <2>2, TotalIsInt, SumIsTotal
<1>2. \A s \in Seq(Int), v \in Int : Sum(Append(s, v)) = Sum(s) + v
  BY TotalOfAppend, SumIsTotal
<1>3. /\ \A f \in [Batters -> Int] : Sum(f) \in Int
      /\ \A f \in [Bowlers -> Int] : Sum(f) \in Int
  BY SidesAreFinite, TotalIsInt, SumIsTotal
<1>4. \A f, e \in [Batters -> Int], x \in Batters :
        (\A b \in Batters \ {x} : e[b] = f[b]) => Sum(e) = Sum(f) + e[x] - f[x]
  BY SidesAreFinite, TotalChanges, SumIsTotal
<1>5. \A f, e \in [Bowlers -> Int], x \in Bowlers :
        (\A b \in Bowlers \ {x} : e[b] = f[b]) => Sum(e) = Sum(f) + e[x] - f[x]
  BY SidesAreFinite, TotalChanges, SumIsTotal
<1> QED
  BY <1>1, <1>2, <1>3, <1>4, <1>5

-----------------------------------------------------------------------------
(* The stages of a ball. *)

LEMMA Columns ==
  /\ \A bat \in Bats : /\ RunsOff(bat) \in [Batters -> Int] /\ Sum(RunsOff(bat)) \in Int
                        /\ \A b \in Batters : RunsOff(bat)[b] = bat[b].runs
  /\ \A bowl \in Bowls :
        /\ LegalBy(bowl) \in [Bowlers -> Int] /\ Sum(LegalBy(bowl)) \in Int
        /\ RunsBy(bowl) \in [Bowlers -> Int] /\ Sum(RunsBy(bowl)) \in Int
        /\ WktsBy(bowl) \in [Bowlers -> Int] /\ Sum(WktsBy(bowl)) \in Int
        /\ \A w \in Bowlers : /\ LegalBy(bowl)[w] = bowl[w].legal
                               /\ RunsBy(bowl)[w] = bowl[w].runs
                               /\ WktsBy(bowl)[w] = bowl[w].wkts
<1>1. ASSUME NEW bat \in Bats
      PROVE  RunsOff(bat) \in [Batters -> Int] /\ \A b \in Batters : RunsOff(bat)[b] = bat[b].runs
  BY DEF Bats, BatRec, RunsOff
<1>2. ASSUME NEW bowl \in Bowls
      PROVE  /\ LegalBy(bowl) \in [Bowlers -> Int] /\ RunsBy(bowl) \in [Bowlers -> Int]
             /\ WktsBy(bowl) \in [Bowlers -> Int]
             /\ \A w \in Bowlers : /\ LegalBy(bowl)[w] = bowl[w].legal
                                    /\ RunsBy(bowl)[w] = bowl[w].runs
                                    /\ WktsBy(bowl)[w] = bowl[w].wkts
  BY DEF Bowls, BowlRec, LegalBy, RunsBy, WktsBy
<1> QED
  BY <1>1, <1>2, SumFacts

\* A column in which one figure has grown by n.
LEMMA ColumnGrows ==
  /\ \A f, g \in [Batters -> Int], x \in Batters, n \in Int :
        (\A b \in Batters \ {x} : g[b] = f[b]) /\ g[x] = f[x] + n => Sum(g) = Sum(f) + n
  /\ \A f, g \in [Bowlers -> Int], x \in Bowlers, n \in Int :
        (\A b \in Bowlers \ {x} : g[b] = f[b]) /\ g[x] = f[x] + n => Sum(g) = Sum(f) + n
<1>1. ASSUME NEW f \in [Batters -> Int], NEW g \in [Batters -> Int], NEW x \in Batters, NEW n \in Int,
             \A b \in Batters \ {x} : g[b] = f[b], g[x] = f[x] + n
      PROVE  Sum(g) = Sum(f) + n
  <2>1. Sum(g) = Sum(f) + g[x] - f[x] /\ Sum(f) \in Int /\ f[x] \in Int
    BY <1>1, SumFacts
  <2> QED
    BY <2>1, <1>1
<1>2. ASSUME NEW f \in [Bowlers -> Int], NEW g \in [Bowlers -> Int], NEW x \in Bowlers, NEW n \in Int,
             \A b \in Bowlers \ {x} : g[b] = f[b], g[x] = f[x] + n
      PROVE  Sum(g) = Sum(f) + n
  <2>1. Sum(g) = Sum(f) + g[x] - f[x] /\ Sum(f) \in Int /\ f[x] \in Int
    BY <1>2, SumFacts
  <2> QED
    BY <2>1, <1>2
<1> QED
  BY <1>1, <1>2

LEMMA ToBatterIs ==
  ASSUME NEW b \in BatRec, NEW d \in Delivery
  PROVE  /\ ToBatter(b, d) \in BatRec /\ ToBatter(b, d).out = b.out
         /\ ToBatter(b, d).runs = b.runs + OffBat(d)
<1>1. PICK f \in {0, 1} : f = IF d.kind = "wide" THEN 0 ELSE 1
  OBVIOUS
<1>2. PICK r \in Nat : r = OffBat(d)
  BY DeliveryIs
<1>3. ToBatter(b, d) = [b EXCEPT !.runs = b.runs + r, !.balls = b.balls + f]
  BY <1>1, <1>2 DEF ToBatter
<1>4. b.runs + r \in Nat /\ b.balls + f \in Nat
  BY DEF BatRec
<1>5. PICK m, n \in Nat : m = b.runs + r /\ n = b.balls + f
  BY <1>4
<1>6. ToBatter(b, d) = [b EXCEPT !.runs = m, !.balls = n]
  BY <1>3, <1>5
<1>7. ToBatter(b, d) \in BatRec /\ ToBatter(b, d).out = b.out /\ ToBatter(b, d).runs = m
  BY <1>6 DEF BatRec
<1> QED
  BY <1>2, <1>5, <1>7

LEMMA ToBowlerIs ==
  ASSUME NEW w \in BowlRec, NEW d \in Delivery
  PROVE  LET b == ToBowler(w, d)
         IN  /\ b \in BowlRec /\ b.wkts = w.wkts /\ b.maidens = w.maidens
             /\ b.legal = w.legal + (IF Legal(d) THEN 1 ELSE 0)
             /\ b.runs = w.runs + Conceded(d) /\ b.conceded = w.conceded + Conceded(d)
<1>1. PICK l \in {0, 1} : l = IF Legal(d) THEN 1 ELSE 0
  OBVIOUS
<1>2. PICK r \in Nat : r = Conceded(d)
  BY DeliveryIs
<1>3. ToBowler(w, d) = [w EXCEPT !.legal = w.legal + l, !.runs = w.runs + r, !.conceded = w.conceded + r]
  BY <1>1, <1>2 DEF ToBowler
<1>4. w.legal + l \in Nat /\ w.runs + r \in Nat /\ w.conceded + r \in Nat
  BY DEF BowlRec
<1>5. PICK k, m, n \in Nat : k = w.legal + l /\ m = w.runs + r /\ n = w.conceded + r
  BY <1>4
<1>6. ToBowler(w, d) = [w EXCEPT !.legal = k, !.runs = m, !.conceded = n]
  BY <1>3, <1>5
<1>7. /\ ToBowler(w, d) \in BowlRec /\ ToBowler(w, d).wkts = w.wkts /\ ToBowler(w, d).maidens = w.maidens
      /\ ToBowler(w, d).legal = k /\ ToBowler(w, d).runs = m /\ ToBowler(w, d).conceded = n
  BY <1>6 DEF BowlRec
<1> QED
  BY <1>1, <1>2, <1>5, <1>7

\* The ball is charged: the figures agree, and everybody is where he was.
LEMMA ChargeIs ==
  ASSUME NEW e \in InningsRec, NEW d \in Delivery, NEW w \in Bowlers, Sums(e), Pair(e)
  PROVE  LET c == Charge(e, d, w)
         IN  /\ c \in InningsRec /\ Sums(c) /\ Pair(c)
             /\ c.legal = e.legal + (IF Legal(d) THEN 1 ELSE 0)
             /\ c.history = e.history /\ c.wkts = e.wkts /\ c.overBowlers = e.overBowlers \cup {w}
             /\ c.target = e.target
             /\ \A x \in Bowlers : /\ c.bowl[x].maidens = e.bowl[x].maidens
                                  /\ c.bowl[x].conceded = e.bowl[x].conceded + (IF x = w THEN Conceded(d) ELSE 0)
<1> DEFINE c == Charge(e, d, w)
           L == IF Legal(d) THEN 1 ELSE 0
           F == IF d.kind = "wide" THEN 0 ELSE 1
<1>0. /\ TeamRuns(d) \in Nat /\ OffBat(d) \in Nat /\ Conceded(d) \in Nat
      /\ OffBat(d) <= TeamRuns(d) /\ Conceded(d) <= TeamRuns(d) /\ L \in {0, 1} /\ F \in {0, 1}
  BY DeliveryIs
<1>1. /\ c.total = e.total + TeamRuns(d) /\ c.extras = e.extras + TeamRuns(d) - OffBat(d)
      /\ c.overRuns = e.overRuns + TeamRuns(d) /\ c.overBalls = e.overBalls + 1
      /\ c.pruns = e.pruns + TeamRuns(d) /\ c.pballs = e.pballs + L /\ c.legal = e.legal + L
      /\ c.overBowlers = e.overBowlers \cup {w} /\ c.wkts = e.wkts /\ c.target = e.target
      /\ c.order = e.order /\ c.nextBat = e.nextBat /\ c.striker = e.striker /\ c.nonStriker = e.nonStriker
      /\ c.schedule = e.schedule /\ c.history = e.history /\ c.forced = e.forced
  BY DEF Charge, InningsRec
<1>2. ToBatter(e.bat[e.striker], d) \in BatRec
  BY ToBatterIs DEF InningsRec, Bats
<1>3. ToBowler(e.bowl[w], d) \in BowlRec
  BY ToBowlerIs DEF InningsRec, Bowls
<1> DEFINE bat == [e.bat EXCEPT ![e.striker] = ToBatter(e.bat[e.striker], d)]
           bowl == [e.bowl EXCEPT ![w] = ToBowler(e.bowl[w], d)]
<1>4. c.bat = bat /\ c.bowl = bowl
  BY DEF Charge, InningsRec
<1>5. bat \in Bats /\ bowl \in Bowls
  BY <1>2, <1>3 DEF InningsRec, Bats, Bowls
<1>6. c \in InningsRec
  <2>1. /\ e.total + TeamRuns(d) \in Nat /\ e.extras + TeamRuns(d) - OffBat(d) \in Nat
        /\ e.overRuns + TeamRuns(d) \in Nat /\ e.overBalls + 1 \in Nat /\ e.pruns + TeamRuns(d) \in Nat
        /\ e.pballs + L \in Nat /\ e.legal + L \in Nat /\ e.overBowlers \cup {w} \in SUBSET Bowlers
    BY <1>0 DEF InningsRec
  <2> HIDE DEF bat, bowl, L
  <2>2. c = [e EXCEPT !.overBowlers = e.overBowlers \cup {w},
              !.total = e.total + TeamRuns(d), !.extras = e.extras + TeamRuns(d) - OffBat(d),
              !.overRuns = e.overRuns + TeamRuns(d), !.overBalls = e.overBalls + 1,
              !.pruns = e.pruns + TeamRuns(d),
              !.pballs = e.pballs + L,
              !.legal = e.legal + L,
              !.bat = bat, !.bowl = bowl]
    BY Zenon DEF Charge, InningsRec, L, bat, bowl
  <2> HIDE DEF c
  <2> QED
    BY <2>1, <2>2, <1>5 DEF InningsRec
<1>7. /\ \A b \in Batters : /\ bat[b].out = e.bat[b].out
                            /\ b # e.striker => bat[b] = e.bat[b]
      /\ bat[e.striker].runs = e.bat[e.striker].runs + OffBat(d) /\ e.striker \in Batters
  BY ToBatterIs DEF InningsRec, Bats
<1>8. /\ \A x \in Bowlers : /\ bowl[x].wkts = e.bowl[x].wkts /\ bowl[x].maidens = e.bowl[x].maidens
                            /\ x # w => bowl[x] = e.bowl[x]
      /\ bowl[w].legal = e.bowl[w].legal + L /\ bowl[w].runs = e.bowl[w].runs + Conceded(d)
      /\ bowl[w].conceded = e.bowl[w].conceded + Conceded(d)
  BY ToBowlerIs DEF InningsRec, Bowls
<1> HIDE DEF bat, bowl, c, L, F
<1>9. Sums(c)
  <2>0. /\ e.bat \in Bats /\ e.bowl \in Bowls /\ Sum(e.history) \in Int
        /\ e.total \in Nat /\ e.extras \in Nat /\ e.overRuns \in Nat /\ e.legal \in Nat
    <3>1. e.history \in Seq(Int)
      BY DEF InningsRec, Histories
    <3> QED
      BY <3>1, SumFacts DEF InningsRec
  <2>1. Sum(RunsOff(bat)) = Sum(RunsOff(e.bat)) + OffBat(d)
    <3>1. /\ RunsOff(bat) \in [Batters -> Int] /\ RunsOff(e.bat) \in [Batters -> Int]
          /\ \A b \in Batters \ {e.striker} : RunsOff(bat)[b] = RunsOff(e.bat)[b]
          /\ RunsOff(bat)[e.striker] = RunsOff(e.bat)[e.striker] + OffBat(d)
      BY <1>5, <1>7, <2>0, Columns
    <3> QED
      BY <3>1, <1>0, <1>7, ColumnGrows
  <2>2. Sum(LegalBy(bowl)) = Sum(LegalBy(e.bowl)) + L
    <3>1. /\ LegalBy(bowl) \in [Bowlers -> Int] /\ LegalBy(e.bowl) \in [Bowlers -> Int]
          /\ \A b \in Bowlers : LegalBy(bowl)[b] = bowl[b].legal /\ LegalBy(e.bowl)[b] = e.bowl[b].legal
      BY <1>5, <2>0, Columns
    <3>2. /\ \A b \in Bowlers \ {w} : LegalBy(bowl)[b] = LegalBy(e.bowl)[b]
          /\ LegalBy(bowl)[w] = LegalBy(e.bowl)[w] + L
      BY <1>8, <3>1
    <3>3. L \in Int
      BY <1>0
    <3> QED
      BY <3>1, <3>2, <3>3, ColumnGrows
  <2>3. Sum(RunsBy(bowl)) = Sum(RunsBy(e.bowl)) + Conceded(d)
    <3>1. /\ RunsBy(bowl) \in [Bowlers -> Int] /\ RunsBy(e.bowl) \in [Bowlers -> Int]
          /\ \A b \in Bowlers : RunsBy(bowl)[b] = bowl[b].runs /\ RunsBy(e.bowl)[b] = e.bowl[b].runs
      BY <1>5, <2>0, Columns
    <3>2. /\ \A b \in Bowlers \ {w} : RunsBy(bowl)[b] = RunsBy(e.bowl)[b]
          /\ RunsBy(bowl)[w] = RunsBy(e.bowl)[w] + Conceded(d)
      BY <1>8, <3>1
    <3> QED
      BY <3>1, <3>2, <1>0, ColumnGrows
  <2>4. WktsBy(bowl) = WktsBy(e.bowl) /\ Outs(bat) = Outs(e.bat)
    <3>1. \A x \in Bowlers : bowl[x].wkts = e.bowl[x].wkts
      BY <1>8
    <3>2. WktsBy(bowl) = WktsBy(e.bowl)
      BY <3>1, Zenon DEF WktsBy
    <3> QED
      BY <1>7, <3>2 DEF Outs
  <2>5. /\ Sum(RunsOff(e.bat)) \in Int /\ Sum(LegalBy(e.bowl)) \in Int /\ Sum(RunsBy(e.bowl)) \in Int
    BY <2>0, Columns
  <2>6. c.total = Sum(RunsOff(c.bat)) + c.extras
    BY <1>0, <1>1, <1>4, <2>0, <2>1, <2>5 DEF Sums
  <2>7. c.total = Sum(c.history) + c.overRuns
    BY <1>0, <1>1, <2>0 DEF Sums
  <2>8. c.legal = Sum(LegalBy(c.bowl))
    BY <1>0, <1>1, <1>4, <2>0, <2>2, <2>5 DEF Sums
  <2>9. c.total >= Sum(RunsBy(c.bowl))
    BY <1>0, <1>1, <1>4, <2>0, <2>3, <2>5 DEF Sums
  <2>10. c.wkts = Cardinality(Outs(c.bat)) /\ c.wkts >= Sum(WktsBy(c.bowl))
    BY <1>1, <1>4, <2>4 DEF Sums
  <2> QED
    BY <2>6, <2>7, <2>8, <2>9, <2>10 DEF Sums
<1>10. Pair(c)
  <2>1. Batted(c) = Batted(e)
    BY <1>1 DEF Batted
  <2> QED
    BY <1>1, <1>4, <1>7, <2>1 DEF Pair, InningsRec
<1>11. \A x \in Bowlers : /\ c.bowl[x].maidens = e.bowl[x].maidens
                           /\ c.bowl[x].conceded = e.bowl[x].conceded + (IF x = w THEN Conceded(d) ELSE 0)
  <2>1. \A x \in Bowlers : e.bowl[x].conceded \in Nat
    BY DEF InningsRec, Bowls, BowlRec
  <2> QED
    BY <1>4, <1>8, <2>1
<1> QED
  BY <1>1, <1>6, <1>9, <1>10, <1>11 DEF c, L

\* A wicket: the next in the order comes in for the one who is out.
LEMMA DismissIs ==
  ASSUME NEW e \in InningsRec, NEW d \in Delivery, NEW w \in Bowlers, Sums(e), Pair(e), e.wkts < AllOut
  PROVE  LET c == Dismiss(e, d, w)
         IN  /\ c \in InningsRec /\ Sums(c) /\ Pair(c)
             /\ c.legal = e.legal /\ c.history = e.history /\ c.overBowlers = e.overBowlers
             /\ c.target = e.target
             /\ \A x \in Bowlers : /\ c.bowl[x].maidens = e.bowl[x].maidens
                                  /\ c.bowl[x].conceded = e.bowl[x].conceded
<1> DEFINE c == Dismiss(e, d, w)
           out == IF d.nonStriker THEN e.nonStriker ELSE e.striker
           more == e.nextBat < XI
           new == IF more THEN e.order[e.nextBat + 1] ELSE out
           one == IF d.credited THEN 1 ELSE 0
           bat == [e.bat EXCEPT ![out] = [e.bat[out] EXCEPT !.out = TRUE]]
           bowl == [e.bowl EXCEPT ![w] = [e.bowl[w] EXCEPT !.wkts = e.bowl[w].wkts + one]]
           next == IF more THEN e.nextBat + 1 ELSE e.nextBat
           str == IF d.nonStriker THEN e.striker ELSE new
           non == IF d.nonStriker THEN new ELSE e.nonStriker
<1>1. CASE d.kind # "W"
  BY <1>1 DEF Dismiss
<1>2. CASE d.kind = "W"
  <2>0. /\ e.bat \in Bats /\ e.bowl \in Bowls /\ e.order \in Orders /\ e.nextBat \in Batters
        /\ e.striker \in Batters /\ e.nonStriker \in Batters /\ e.wkts \in Nat
        /\ XI \in Nat /\ AllOut \in Nat /\ AllOut < XI
    BY BookAssumption DEF InningsRec
  <2>1. c = [e EXCEPT !.bat = bat, !.wkts = e.wkts + 1, !.bowl = bowl, !.pruns = 0, !.pballs = 0,
                      !.nextBat = next, !.striker = str, !.nonStriker = non]
    BY <1>2, Zenon DEF Dismiss
  <2>2. out \in Batters /\ new \in Batters /\ next \in Batters /\ str \in Batters /\ non \in Batters
    BY <2>0 DEF Batters, Orders
  <2>3. /\ bat \in Bats
        /\ \A b \in Batters : bat[b].runs = e.bat[b].runs /\ bat[b].balls = e.bat[b].balls
        /\ \A b \in Batters : bat[b].out = (b = out \/ e.bat[b].out)
    BY <2>0, <2>2 DEF Bats, BatRec
  <2>4. /\ bowl \in Bowls
        /\ \A x \in Bowlers : bowl[x].legal = e.bowl[x].legal /\ bowl[x].runs = e.bowl[x].runs
        /\ \A x \in Bowlers : bowl[x].maidens = e.bowl[x].maidens /\ bowl[x].conceded = e.bowl[x].conceded
        /\ \A x \in Bowlers \ {w} : bowl[x].wkts = e.bowl[x].wkts
        /\ bowl[w].wkts = e.bowl[w].wkts + one
    BY <2>0 DEF Bowls, BowlRec
  <2> HIDE DEF bat, bowl, next, str, non, one
  <2>5. c \in InningsRec
    <3>1. e.wkts + 1 \in Nat /\ 0 \in Nat
      BY <2>0
    <3> HIDE DEF c
    <3> QED
      BY <2>1, <2>2, <2>3, <2>4, <3>1 DEF InningsRec
  <2>6. /\ c.bat = bat /\ c.wkts = e.wkts + 1 /\ c.bowl = bowl /\ c.nextBat = next /\ c.striker = str
        /\ c.nonStriker = non /\ c.total = e.total /\ c.extras = e.extras /\ c.history = e.history
        /\ c.overRuns = e.overRuns /\ c.legal = e.legal /\ c.order = e.order /\ c.overBowlers = e.overBowlers
        /\ c.target = e.target
    <3> HIDE DEF c
    <3> QED
      BY <2>1 DEF InningsRec
  <2> HIDE DEF c
  <2>7. ~e.bat[out].out
    BY <2>0 DEF Pair
  <2>8. Sums(c)
    <3>1. RunsOff(bat) = RunsOff(e.bat) /\ LegalBy(bowl) = LegalBy(e.bowl) /\ RunsBy(bowl) = RunsBy(e.bowl)
      <4>1. \A b \in Batters : bat[b].runs = e.bat[b].runs
        BY <2>3
      <4>2. \A x \in Bowlers : bowl[x].legal = e.bowl[x].legal /\ bowl[x].runs = e.bowl[x].runs
        BY <2>4
      <4> QED
        BY <4>1, <4>2, Zenon DEF RunsOff, LegalBy, RunsBy
    <3>2. Cardinality(Outs(bat)) = Cardinality(Outs(e.bat)) + 1
      <4>1. Outs(bat) = Outs(e.bat) \cup {out} /\ out \notin Outs(e.bat)
        BY <2>2, <2>3, <2>7 DEF Outs
      <4>2. IsFiniteSet(Outs(e.bat))
        BY SidesAreFinite, FS_Subset DEF Outs
      <4> QED
        BY <4>1, <4>2, FS_AddElement, SMTT(30)
    <3>3. Sum(WktsBy(bowl)) = Sum(WktsBy(e.bowl)) + one
      <4>1. /\ WktsBy(bowl) \in [Bowlers -> Int] /\ WktsBy(e.bowl) \in [Bowlers -> Int]
            /\ \A b \in Bowlers : WktsBy(bowl)[b] = bowl[b].wkts /\ WktsBy(e.bowl)[b] = e.bowl[b].wkts
        BY <2>0, <2>4, Columns
      <4>2. /\ \A b \in Bowlers \ {w} : WktsBy(bowl)[b] = WktsBy(e.bowl)[b]
            /\ WktsBy(bowl)[w] = WktsBy(e.bowl)[w] + one
        BY <2>4, <4>1
      <4>3. one \in Int
        BY DEF one
      <4> QED
        BY <4>1, <4>2, <4>3, ColumnGrows
    <3>4. one <= 1 /\ one \in Int /\ Sum(WktsBy(e.bowl)) \in Int
      BY <2>0, Columns DEF one
    <3>5. c.wkts >= Sum(WktsBy(c.bowl))
      BY <2>0, <2>6, <3>3, <3>4 DEF Sums
    <3> QED
      BY <2>6, <3>1, <3>2, <3>5 DEF Sums
  <2>9. Pair(c)
    <3>0. /\ Batted(e) \subseteq Batters /\ e.order[e.nextBat] \in Batters
          /\ more => e.nextBat + 1 \in Batters /\ e.order[e.nextBat + 1] \in Batters
          /\ e.nextBat = 2 + e.wkts
      <4>1. \A i \in 1..XI : e.order[i] \in Batters
        BY <2>0 DEF Orders, Batters
      <4>2. e.nextBat \in 1..XI /\ (more => e.nextBat + 1 \in 1..XI)
        BY <2>0 DEF Batters
      <4>3. Batted(e) \subseteq Batters
        BY <2>0, <4>1, <4>2 DEF Batted
      <4>4. e.nextBat = 2 + e.wkts
        BY DEF Pair
      <4> QED
        BY <4>1, <4>2, <4>3, <4>4 DEF Batters
    <3>1. Batted(c) = Batted(e) \cup {new}
      <4>1. CASE more
        <5>1. 1..(e.nextBat + 1) = (1..e.nextBat) \cup {e.nextBat + 1}
          BY <2>0 DEF Batters
        <5> QED
          BY <4>1, <5>1, <2>6 DEF Batted, next
      <4>2. CASE ~more
        BY <4>2, <2>6 DEF Batted, next, Pair
      <4> QED
        BY <4>1, <4>2
    <3>2. more => new \notin Batted(e)
      BY <3>0, <2>0 DEF Batted, Pair, Batters
    <3>3. c.striker # c.nonStriker /\ c.striker \in Batted(c) /\ c.nonStriker \in Batted(c)
      BY <2>6, <3>1, <3>2 DEF Pair, str, non
    <3>4. c.wkts < AllOut => more /\ c.nextBat = 2 + c.wkts
      BY <2>0, <2>6, <3>0 DEF next
    <3>5. c.wkts < AllOut => ~c.bat[c.striker].out /\ ~c.bat[c.nonStriker].out
      <4> SUFFICES ASSUME c.wkts < AllOut PROVE ~c.bat[c.striker].out /\ ~c.bat[c.nonStriker].out
        OBVIOUS
      <4>1. more /\ new \in Batters \ Batted(e) /\ ~e.bat[new].out /\ new # out
        BY <2>2, <3>2, <3>4 DEF Pair
      <4>2. ~e.bat[e.striker].out /\ ~e.bat[e.nonStriker].out /\ e.striker # e.nonStriker
        BY DEF Pair
      <4>3. c.striker \in Batters /\ c.nonStriker \in Batters /\ c.striker # out /\ c.nonStriker # out
            /\ ~e.bat[c.striker].out /\ ~e.bat[c.nonStriker].out
        BY <2>0, <2>2, <2>6, <4>1, <4>2 DEF str, non
      <4> QED
        BY <2>3, <2>6, <4>3
    <3>6. \A b \in Batters \ Batted(c) : ~c.bat[b].out /\ c.bat[b].balls = 0
      BY <2>3, <2>6, <3>1, ZenonT(40) DEF Pair
    <3> QED
      BY <2>6, <3>3, <3>4, <3>5, <3>6 DEF Pair
  <2> QED
    BY <2>4, <2>5, <2>6, <2>8, <2>9 DEF c
<1> QED
  BY <1>1, <1>2

LEMMA SwapIs ==
  ASSUME NEW e \in InningsRec, Pair(e), Sums(e)
  PROVE  LET c == SwapStrike(e)
         IN  /\ c \in InningsRec /\ Sums(c) /\ Pair(c)
             /\ c.legal = e.legal /\ c.history = e.history /\ c.overBowlers = e.overBowlers
             /\ c.bowl = e.bowl /\ c.forced = e.forced /\ c.wkts = e.wkts /\ c.total = e.total
             /\ c.target = e.target /\ c.schedule = e.schedule
<1> DEFINE c == SwapStrike(e)
<1>1. /\ c \in InningsRec /\ c.striker = e.nonStriker /\ c.nonStriker = e.striker
      /\ c.legal = e.legal /\ c.history = e.history /\ c.overBowlers = e.overBowlers
      /\ c.bowl = e.bowl /\ c.forced = e.forced /\ c.wkts = e.wkts /\ c.total = e.total
      /\ c.bat = e.bat /\ c.order = e.order /\ c.nextBat = e.nextBat /\ c.overRuns = e.overRuns
      /\ c.extras = e.extras /\ c.target = e.target /\ c.schedule = e.schedule
  BY DEF SwapStrike, InningsRec
<1> HIDE DEF c
<1>2. Batted(c) = Batted(e)
  BY <1>1 DEF Batted
<1>3. Sums(c) /\ Pair(c)
  BY <1>1, <1>2 DEF Sums, Pair
<1> QED
  BY <1>1, <1>3 DEF c

\* The over in the book: what its balls add to a bowler's maidens.
Maiden(e, w) == e.bowl[w].conceded = 0 /\ Cardinality(e.overBowlers) = 1

\* The end of an over: what it cost goes from overRuns to the history.
LEMMA EndOverIs ==
  ASSUME NEW e \in InningsRec, Sums(e), Pair(e), NEW d \in Delivery, NEW w \in Bowlers
  PROVE  LET c == EndOver(e, d, w)
             ends == Legal(d) /\ e.legal % BallsPerOver = 0
         IN  /\ c \in InningsRec /\ Sums(c) /\ Pair(c)
             /\ c.legal = e.legal /\ c.wkts = e.wkts /\ c.target = e.target
             /\ Len(c.history) = Len(e.history) + IF ends THEN 1 ELSE 0
             /\ ~ends => c = e
             /\ ends => /\ c.overBowlers = {}
                        /\ \A x \in Bowlers :
                              /\ c.bowl[x].conceded = IF x \in e.overBowlers THEN 0 ELSE e.bowl[x].conceded
                              /\ c.bowl[x].maidens = e.bowl[x].maidens + IF x = w /\ Maiden(e, w) THEN 1 ELSE 0
<1> DEFINE ends == Legal(d) /\ e.legal % BallsPerOver = 0
           Mdn(x) == IF x = w /\ e.bowl[w].conceded = 0 /\ Cardinality(e.overBowlers) = 1
                     THEN e.bowl[x].maidens + 1 ELSE e.bowl[x].maidens
           Con(x) == IF x \in e.overBowlers THEN 0 ELSE e.bowl[x].conceded
           bowl == [x \in Bowlers |-> [e.bowl[x] EXCEPT !.maidens = Mdn(x), !.conceded = Con(x)]]
           r == [e EXCEPT !.bowl = bowl, !.overBowlers = {}, !.history = Append(e.history, e.overRuns),
                          !.overRuns = 0, !.overBalls = 0]
<1>1. CASE ~ends
  <2>1. EndOver(e, d, w) = e
    BY <1>1 DEF EndOver
  <2>2. Len(e.history) + 0 = Len(e.history)
    BY DEF InningsRec, Histories
  <2> QED
    BY <1>1, <2>1, <2>2
<1>2. CASE ends
  <2>0. /\ e.bowl \in Bowls /\ e.history \in Seq(Nat) /\ e.overRuns \in Nat /\ e.total \in Nat
    BY DEF InningsRec, Histories
  <2>1. EndOver(e, d, w) = SwapStrike(r)
    BY <1>2, Zenon DEF EndOver
  <2>2. /\ bowl \in Bowls
        /\ \A x \in Bowlers : bowl[x].legal = e.bowl[x].legal /\ bowl[x].runs = e.bowl[x].runs
        /\ \A x \in Bowlers : bowl[x].wkts = e.bowl[x].wkts
        /\ \A x \in Bowlers : bowl[x].conceded = Con(x) /\ bowl[x].maidens = Mdn(x)
    <3>1. \A x \in Bowlers : Mdn(x) \in Nat /\ Con(x) \in Nat
      BY <2>0 DEF Bowls, BowlRec
    <3> HIDE DEF Mdn, Con
    <3> QED
      BY <2>0, <3>1 DEF Bowls, BowlRec
  <2>3. /\ Append(e.history, e.overRuns) \in Histories
        /\ Len(Append(e.history, e.overRuns)) = Len(e.history) + 1
        /\ Sum(Append(e.history, e.overRuns)) = Sum(e.history) + e.overRuns /\ Sum(e.history) \in Int
    <3> DEFINE h == e.history
               n == e.overRuns
    <3>1. h \in Seq(Nat) /\ n \in Nat
      BY <2>0 DEF Histories
    <3> HIDE DEF h, n
    <3>2. h \in Seq(Int) /\ n \in Int /\ Append(h, n) \in Seq(Nat) /\ Len(Append(h, n)) = Len(h) + 1
      BY <3>1
    <3>3. Sum(Append(h, n)) = Sum(h) + n /\ Sum(h) \in Int
      BY <3>2, SumFacts
    <3> QED
      BY <3>2, <3>3 DEF h, n, Histories
  <2> HIDE DEF bowl, Mdn, Con
  <2>4. r \in InningsRec
    BY <2>2, <2>3 DEF InningsRec
  <2>5. /\ r.bowl = bowl /\ r.overBowlers = {} /\ r.history = Append(e.history, e.overRuns)
        /\ r.overRuns = 0 /\ r.total = e.total /\ r.extras = e.extras /\ r.legal = e.legal
        /\ r.bat = e.bat /\ r.wkts = e.wkts /\ r.order = e.order /\ r.nextBat = e.nextBat
        /\ r.striker = e.striker /\ r.nonStriker = e.nonStriker /\ r.target = e.target
    BY DEF InningsRec
  <2> HIDE DEF r
  <2>6. Sums(r)
    <3>1. LegalBy(bowl) = LegalBy(e.bowl) /\ RunsBy(bowl) = RunsBy(e.bowl) /\ WktsBy(bowl) = WktsBy(e.bowl)
      BY <2>2, Zenon DEF LegalBy, RunsBy, WktsBy
    <3>2. r.total = Sum(r.history) + r.overRuns
      BY <2>0, <2>3, <2>5 DEF Sums
    <3> QED
      BY <2>5, <3>1, <3>2 DEF Sums
  <2>7. Pair(r)
    <3>1. Batted(r) = Batted(e)
      BY <2>5 DEF Batted
    <3> QED
      BY <2>5, <3>1 DEF Pair
  <2>8. \A x \in Bowlers : Mdn(x) = e.bowl[x].maidens + IF x = w /\ Maiden(e, w) THEN 1 ELSE 0
    BY <2>0 DEF Mdn, Maiden, Bowls, BowlRec
  <2> QED
    BY <1>2, <2>1, <2>2, <2>3, <2>4, <2>5, <2>6, <2>7, <2>8, SwapIs DEF Con
<1> QED
  BY <1>1, <1>2

\* A whole delivery.
LEMMA BallIs ==
  ASSUME NEW e, Right(e), NEW d \in Delivery, e.wkts < AllOut, e.legal < MaxOvers * BallsPerOver
  PROVE  LET c == ApplyOutcome(e, d)
             over == CurrentOverNo(e)
             w == BowlerForOver(e, over)
             ends == Legal(d) /\ (e.legal + 1) % BallsPerOver = 0
             bowlers == e.overBowlers \cup {w}
             Now(x) == e.bowl[x].conceded + IF x = w THEN Conceded(d) ELSE 0
         IN  /\ Right(c) /\ c.target = e.target /\ w \in Bowlers
             /\ ~ends => /\ CurrentOverNo(c) = over /\ c.overBowlers = bowlers
                         /\ \A x \in Bowlers : c.bowl[x].conceded = Now(x) /\ c.bowl[x].maidens = e.bowl[x].maidens
             /\ ends => /\ CurrentOverNo(c) = over + 1 /\ c.overBowlers = {}
                        /\ \A x \in Bowlers :
                              /\ c.bowl[x].conceded = IF x \in bowlers THEN 0 ELSE Now(x)
                              /\ c.bowl[x].maidens = e.bowl[x].maidens
                                    + IF x = w /\ Now(w) = 0 /\ Cardinality(bowlers) = 1 THEN 1 ELSE 0
<1> DEFINE over == CurrentOverNo(e)
           w == BowlerForOver(e, over)
           ch == Charge(e, d, w)
           di == Dismiss(ch, d, w)
           cr == Cross(di, d)
           c == EndOver(cr, d, w)
           ends == Legal(d) /\ (e.legal + 1) % BallsPerOver = 0
           Now(x) == e.bowl[x].conceded + IF x = w THEN Conceded(d) ELSE 0
           L == IF Legal(d) THEN 1 ELSE 0
<1>0. /\ e \in InningsRec /\ Sums(e) /\ Pair(e) /\ e.legal \in Nat /\ Len(e.history) = over
      /\ BallsPerOver \in Nat /\ MaxOvers \in Nat
  BY BookAssumption DEF Right, Overs, InningsRec
<1>1. over \in 0..MaxOvers /\ w \in Bowlers
  <2>0. over = e.legal \div BallsPerOver
    BY DEF CurrentOverNo
  <2> HIDE DEF over
  <2>1. over \in 0..MaxOvers
    <3>1. e.legal \div BallsPerOver \in Nat /\ e.legal \div BallsPerOver < MaxOvers
      BY <1>0, OverIs
    <3> QED
      BY <1>0, <2>0, <3>1
  <2> QED
    BY <2>1, <1>0, BowlerIs
<1> HIDE DEF w
<1>2. /\ ch \in InningsRec /\ Sums(ch) /\ Pair(ch) /\ ch.wkts < AllOut /\ ch.legal = e.legal + L
      /\ ch.history = e.history /\ ch.overBowlers = e.overBowlers \cup {w} /\ ch.target = e.target
      /\ \A x \in Bowlers : ch.bowl[x].maidens = e.bowl[x].maidens /\ ch.bowl[x].conceded = Now(x)
  BY <1>0, <1>1, ChargeIs
<1> HIDE DEF ch, Now, L
<1>3. /\ di \in InningsRec /\ Sums(di) /\ Pair(di) /\ di.legal = e.legal + L
      /\ di.history = e.history /\ di.overBowlers = e.overBowlers \cup {w} /\ di.target = e.target
      /\ \A x \in Bowlers : di.bowl[x].maidens = e.bowl[x].maidens /\ di.bowl[x].conceded = Now(x)
  BY <1>1, <1>2, DismissIs
<1> HIDE DEF di
<1>4. /\ cr \in InningsRec /\ Sums(cr) /\ Pair(cr) /\ cr.legal = e.legal + L
      /\ cr.history = e.history /\ cr.overBowlers = e.overBowlers \cup {w} /\ cr.target = e.target
      /\ \A x \in Bowlers : cr.bowl[x].maidens = e.bowl[x].maidens /\ cr.bowl[x].conceded = Now(x)
  <2>1. CASE Ran(d) % 2 = 1
    <3>1. cr = SwapStrike(di)
      BY <2>1 DEF Cross
    <3> HIDE DEF cr
    <3> QED
      BY <3>1, <1>3, SwapIs
  <2>2. CASE Ran(d) % 2 # 1
    <3>1. cr = di
      BY <2>2 DEF Cross
    <3> HIDE DEF cr
    <3> QED
      BY <3>1, <1>3
  <2> QED
    BY <2>1, <2>2
<1> HIDE DEF cr
<1>5. ends <=> Legal(d) /\ cr.legal % BallsPerOver = 0
  BY <1>4 DEF L
<1> HIDE DEF ends
<1>6. /\ c \in InningsRec /\ Sums(c) /\ Pair(c) /\ c.legal = e.legal + L /\ c.target = e.target
      /\ Len(c.history) = over + IF ends THEN 1 ELSE 0
      /\ ~ends => c = cr
      /\ ends => /\ c.overBowlers = {}
                 /\ \A x \in Bowlers :
                       /\ c.bowl[x].conceded = IF x \in e.overBowlers \cup {w} THEN 0 ELSE Now(x)
                       /\ c.bowl[x].maidens = e.bowl[x].maidens
                             + IF x = w /\ Now(w) = 0 /\ Cardinality(e.overBowlers \cup {w}) = 1 THEN 1 ELSE 0
  <2>1. /\ c \in InningsRec /\ Sums(c) /\ Pair(c) /\ c.legal = cr.legal /\ c.target = cr.target
        /\ Len(c.history) = Len(cr.history) + IF ends THEN 1 ELSE 0
        /\ ~ends => c = cr
        /\ ends => /\ c.overBowlers = {}
                   /\ \A x \in Bowlers :
                         /\ c.bowl[x].conceded = IF x \in cr.overBowlers THEN 0 ELSE cr.bowl[x].conceded
                         /\ c.bowl[x].maidens = cr.bowl[x].maidens + IF x = w /\ Maiden(cr, w) THEN 1 ELSE 0
    BY <1>1, <1>4, <1>5, EndOverIs
  <2>2. Maiden(cr, w) <=> Now(w) = 0 /\ Cardinality(e.overBowlers \cup {w}) = 1
    BY <1>1, <1>4 DEF Maiden
  <2> HIDE DEF c
  <2> QED
    BY <1>0, <1>1, <1>4, <2>1, <2>2
<1> HIDE DEF c
<1>7. CurrentOverNo(c) = over + IF ends THEN 1 ELSE 0
  <2>1. e.legal \in Nat /\ over = e.legal \div BallsPerOver
    BY <1>0 DEF CurrentOverNo
  <2>2. CASE Legal(d)
    <3>1. c.legal = e.legal + 1 /\ (ends <=> (e.legal + 1) % BallsPerOver = 0)
      BY <1>6, <2>2 DEF ends, L
    <3>2. (e.legal + 1) \div BallsPerOver = over + IF ends THEN 1 ELSE 0
      BY <2>1, <3>1, OverIs
    <3> QED
      BY <3>1, <3>2 DEF CurrentOverNo
  <2>3. CASE ~Legal(d)
    <3>1. c.legal = e.legal /\ ~ends
      BY <1>6, <2>1, <2>3 DEF ends, L
    <3> QED
      BY <2>1, <3>1, OverIs DEF CurrentOverNo
  <2> QED
    BY <2>2, <2>3
<1>8. Overs(c)
  <2>1. e.legal + L <= MaxOvers * BallsPerOver
    BY <1>0 DEF L
  <2> QED
    BY <1>6, <1>7, <2>1 DEF Overs
<1>9. over \in Nat /\ over + 0 = over
  BY <1>1
<1>10. ApplyOutcome(e, d) = c
  BY DEF ApplyOutcome, c, cr, di, ch, w
<1> QED
  BY <1>1, <1>4, <1>6, <1>7, <1>8, <1>9, <1>10 DEF Right, ends, Now, w

\* What an event that is no ball leaves of the figures.
Same(c, e) == /\ c.legal = e.legal /\ c.overBowlers = e.overBowlers /\ c.bowl = e.bowl
              /\ c.target = e.target /\ c.total = e.total /\ c.wkts = e.wkts

\* Another batter comes in: the order is permuted, and who has batted is told by it as before.
LEMMA ChooseIs ==
  ASSUME NEW e, Right(e), NEW b, CanChoose(e, b)
  PROVE  Right(ChooseNextBatter(e, b)) /\ Same(ChooseNextBatter(e, b), e)
<1> DEFINE a == CHOOSE x \in Arrived(e) : TRUE
           c == ChooseNextBatter(e, b)
           order == [i \in Batters |-> CASE e.order[i] = a -> b [] e.order[i] = b -> a [] OTHER -> e.order[i]]
           str == IF e.striker = a THEN b ELSE e.striker
           non == IF e.striker # a THEN b ELSE e.nonStriker
<1>0. /\ e \in InningsRec /\ Sums(e) /\ Pair(e) /\ Overs(e) /\ e.order \in Orders /\ e.nextBat \in 1..XI
      /\ e.striker \in Batters /\ e.nonStriker \in Batters /\ XI \in Nat /\ Batters = 1..XI
      /\ \A i \in 1..XI : e.order[i] \in Batters
  BY BookAssumption, ZenonT(40) DEF Right, InningsRec, Batters, Orders
<1>1. a \in Arrived(e)
  BY DEF CanChoose
<1>2. /\ a = e.striker \/ a = e.nonStriker
      /\ ~e.bat[a].out /\ e.bat[a].balls = 0 /\ a = e.order[e.nextBat]
  BY <1>1, ZenonT(40) DEF Arrived
<1> HIDE DEF a
<1>3. PICK j \in (e.nextBat + 1)..XI : b = e.order[j]
  BY DEF CanChoose, YetToBat
<1>4. j \in 1..XI /\ a \in Batters /\ b \in Batters /\ a # b /\ b \notin Batted(e) /\ a \in Batted(e)
  <2>1. j \in 1..XI /\ j \notin 1..e.nextBat /\ e.nextBat \in 1..e.nextBat /\ j # e.nextBat
    BY <1>0, <1>3
  <2>2. \A i \in 1..e.nextBat : i \in 1..XI
    BY <1>0
  <2>3. b \notin Batted(e)
    BY <1>0, <1>3, <2>1, <2>2 DEF Batted, Pair
  <2>4. a \in Batted(e)
    BY <1>2, <2>1 DEF Batted
  <2> QED
    BY <1>0, <1>2, <1>3, <2>1, <2>3, <2>4
<1>5. \A i \in Batters : order[i] = IF e.order[i] = a THEN b ELSE IF e.order[i] = b THEN a ELSE e.order[i]
  BY <1>4
<1>6. order \in Orders
  BY <1>0, <1>4 DEF Orders
<1>7. str \in Batters /\ non \in Batters
  BY <1>0, <1>4
<1> HIDE DEF order, str, non
<1>8. c = [e EXCEPT !.order = order, !.striker = str, !.nonStriker = non]
  BY Zenon DEF ChooseNextBatter, a, order, str, non
<1> HIDE DEF c
<1>9. /\ c \in InningsRec /\ c.order = order /\ c.striker = str /\ c.nonStriker = non /\ Same(c, e)
      /\ c.bat = e.bat /\ c.nextBat = e.nextBat /\ c.history = e.history /\ c.extras = e.extras
      /\ c.overRuns = e.overRuns
  BY <1>0, <1>6, <1>7, <1>8 DEF InningsRec, Same
<1>10. Batted(c) = (Batted(e) \ {a}) \cup {b}
  <2>0. \A i \in 1..e.nextBat : i \in Batters /\ e.order[i] \in Batted(e)
    BY <1>0 DEF Batted
  <2>1. ASSUME NEW x \in Batted(c) PROVE x \in (Batted(e) \ {a}) \cup {b}
    <3>1. PICK i \in 1..e.nextBat : x = order[i]
      BY <1>9 DEF Batted
    <3>2. i \in Batters /\ e.order[i] \in Batted(e)
      BY <2>0
    <3> QED
      BY <1>4, <1>5, <3>1, <3>2
  <2>2. ASSUME NEW x \in Batted(e) \ {a} PROVE x \in Batted(c)
    <3>1. PICK i \in 1..e.nextBat : x = e.order[i]
      BY DEF Batted
    <3>2. order[i] = x
      BY <1>4, <1>5, <2>0, <3>1
    <3> QED
      BY <1>9, <3>2 DEF Batted
  <2>3. b \in Batted(c)
    <3>1. e.nextBat \in 1..e.nextBat
      BY <1>0
    <3>2. order[e.nextBat] = b
      BY <1>0, <1>2, <1>5
    <3> QED
      BY <1>9, <3>1, <3>2 DEF Batted
  <2> QED
    BY <2>1, <2>2, <2>3
<1>11. Pair(c)
  <2>1. \A i, k \in Batters : order[i] = order[k] => i = k
    <3>1. \A i, k \in Batters : e.order[i] = e.order[k] => i = k
      BY <1>0 DEF Pair
    <3>2. ASSUME NEW i \in Batters, NEW k \in Batters, order[i] = order[k] PROVE e.order[i] = e.order[k]
      BY <1>4, <1>5, <3>2
    <3> QED
      BY <3>1, <3>2
  <2>2. str # non /\ str \in Batted(c) /\ non \in Batted(c)
    BY <1>0, <1>2, <1>4, <1>10 DEF Pair, str, non
  <2>3. ~e.bat[b].out /\ e.bat[b].balls = 0
    BY <1>0, <1>4 DEF Pair
  <2>4. e.wkts < AllOut => ~e.bat[str].out /\ ~e.bat[non].out
    BY <1>0, <2>3 DEF Pair, str, non
  <2>5. \A x \in Batters \ Batted(c) : ~e.bat[x].out /\ e.bat[x].balls = 0
    BY <1>0, <1>2, <1>10 DEF Pair
  <2> QED
    BY <1>0, <1>9, <2>1, <2>2, <2>4, <2>5 DEF Pair, Same
<1>12. Sums(c) /\ Overs(c)
  BY <1>0, <1>9 DEF Sums, Overs, Same, CurrentOverNo
<1> QED
  BY <1>9, <1>11, <1>12 DEF c, Right

LEMMA SetBowlerIs ==
  ASSUME NEW e, Right(e), NEW w \in Bowlers
  PROVE  Right(SetBowler(e, w)) /\ Same(SetBowler(e, w), e)
<1> DEFINE c == SetBowler(e, w)
           o == CurrentOverNo(e)
           schedule == [e.schedule EXCEPT ![o] = w]
<1>0. e \in InningsRec /\ Sums(e) /\ Pair(e) /\ Overs(e)
  BY DEF Right
<1>1. schedule \in Schedules
  BY <1>0 DEF InningsRec, Schedules
<1> HIDE DEF o
<1>2. c = [e EXCEPT !.schedule = schedule]
  BY Zenon DEF SetBowler, o
<1> HIDE DEF schedule, c
<1>3. /\ c \in InningsRec /\ c.order = e.order /\ c.striker = e.striker /\ c.nonStriker = e.nonStriker
      /\ Same(c, e) /\ c.bat = e.bat /\ c.nextBat = e.nextBat /\ c.history = e.history
      /\ c.extras = e.extras /\ c.overRuns = e.overRuns
  BY <1>0, <1>1, <1>2 DEF InningsRec, Same
<1>4. Batted(c) = Batted(e)
  BY <1>3 DEF Batted
<1> QED
  BY <1>0, <1>3, <1>4 DEF c, Right, Sums, Pair, Overs, Same, CurrentOverNo

LEMMA EndIs ==
  ASSUME NEW e, Right(e)
  PROVE  Right(End(e)) /\ Same(End(e), e) /\ Complete(End(e))
<1> DEFINE c == End(e)
<1>0. e \in InningsRec /\ Sums(e) /\ Pair(e) /\ Overs(e)
  BY DEF Right
<1>1. /\ c \in InningsRec /\ c.order = e.order /\ c.striker = e.striker /\ c.nonStriker = e.nonStriker
      /\ Same(c, e) /\ c.bat = e.bat /\ c.nextBat = e.nextBat /\ c.history = e.history
      /\ c.extras = e.extras /\ c.overRuns = e.overRuns /\ c.forced = TRUE
  BY <1>0 DEF InningsRec, Same, End
<1> HIDE DEF c
<1>2. Batted(c) = Batted(e)
  BY <1>1 DEF Batted
<1> QED
  BY <1>0, <1>1, <1>2 DEF c, Right, Sums, Pair, Overs, Same, CurrentOverNo, Complete

LEMMA SwapKeeps == ASSUME NEW e, Right(e) PROVE Right(SwapStrike(e)) /\ Same(SwapStrike(e), e)
<1> DEFINE c == SwapStrike(e)
<1>1. /\ e \in InningsRec /\ Sums(e) /\ Pair(e) /\ Overs(e)
  BY DEF Right
<1>2. /\ c \in InningsRec /\ Sums(c) /\ Pair(c) /\ c.history = e.history /\ Same(c, e)
  BY <1>1, SwapIs DEF Same
<1> HIDE DEF c
<1> QED
  BY <1>1, <1>2 DEF c, Right, Overs, Same, CurrentOverNo

LEMMA NewIs ==
  ASSUME NEW target \in Nat
  PROVE  LET e == NewInnings(target)
         IN  /\ Right(e) /\ e.target = target /\ e.overBowlers = {} /\ CurrentOverNo(e) = 0
             /\ \A w \in Bowlers : e.bowl[w].conceded = 0 /\ e.bowl[w].maidens = 0
<1> DEFINE e == NewInnings(target)
           bat == [b \in Batters |-> [runs |-> 0, balls |-> 0, out |-> FALSE]]
           bowl == [w \in Bowlers |-> [legal |-> 0, runs |-> 0, wkts |-> 0, maidens |-> 0, conceded |-> 0]]
           order == [i \in Batters |-> i]
           schedule == [o \in 0..MaxOvers |-> NoBowler]
<1>1. XI \in Nat /\ XI >= 2 /\ Batters = 1..XI /\ MaxOvers \in Nat /\ BallsPerOver \in Nat \ {0}
  BY BookAssumption DEF Batters
<1>2. /\ bat \in Bats /\ bowl \in Bowls /\ order \in Orders /\ schedule \in Schedules /\ <<>> \in Histories
  BY DEF Bats, BatRec, Bowls, BowlRec, Orders, Schedules, Histories
<1>3. /\ \A b \in Batters : bat[b].runs = 0 /\ bat[b].balls = 0 /\ ~bat[b].out
      /\ \A w \in Bowlers : /\ bowl[w].legal = 0 /\ bowl[w].runs = 0 /\ bowl[w].wkts = 0
                             /\ bowl[w].conceded = 0 /\ bowl[w].maidens = 0
      /\ \A i \in Batters : order[i] = i
  OBVIOUS
<1>4. /\ e.total = 0 /\ e.wkts = 0 /\ e.legal = 0 /\ e.extras = 0 /\ e.target = target /\ e.order = order
      /\ e.nextBat = 2 /\ e.striker = 1 /\ e.nonStriker = 2 /\ e.bat = bat /\ e.bowl = bowl
      /\ e.overBowlers = {} /\ e.overRuns = 0 /\ e.history = <<>>
  BY DEF NewInnings
<1>5. e \in InningsRec
  <2>1. 1 \in Batters /\ 2 \in Batters
    BY <1>1
  <2> HIDE DEF bat, bowl, order, schedule
  <2>2. e = [total |-> 0, wkts |-> 0, legal |-> 0, extras |-> 0, target |-> target,
     order |-> order, nextBat |-> 2, striker |-> 1, nonStriker |-> 2, bat |-> bat, bowl |-> bowl,
     schedule |-> schedule, overBowlers |-> {}, overRuns |-> 0, overBalls |-> 0, history |-> <<>>,
     pruns |-> 0, pballs |-> 0, forced |-> FALSE]
    BY Zenon DEF NewInnings, bat, bowl, order, schedule
  <2> HIDE DEF e
  <2> QED
    BY <1>2, <2>1, <2>2 DEF InningsRec
<1> HIDE DEF bat, bowl, order, schedule, e
<1>6. Sum(RunsOff(bat)) = 0 /\ Sum(LegalBy(bowl)) = 0 /\ Sum(RunsBy(bowl)) = 0 /\ Sum(WktsBy(bowl)) = 0
  <2>1. /\ RunsOff(bat) = [b \in Batters |-> 0] /\ LegalBy(bowl) = [w \in Bowlers |-> 0]
        /\ RunsBy(bowl) = [w \in Bowlers |-> 0] /\ WktsBy(bowl) = [w \in Bowlers |-> 0]
    BY <1>3 DEF RunsOff, LegalBy, RunsBy, WktsBy
  <2> QED
    BY <2>1, SidesAreFinite, TotalOfNothings, SumIsTotal
<1>7. Sum(<<>>) = 0
  <2>1. <<>> \in [{} -> Int]
    OBVIOUS
  <2> QED
    BY <2>1, TotalOfNone, SumIsTotal
<1>8. Cardinality(Outs(bat)) = 0
  <2>1. Outs(bat) = {}
    BY <1>3 DEF Outs
  <2> QED
    BY <2>1, FS_EmptySet
<1>9. Sums(e)
  BY <1>4, <1>6, <1>7, <1>8 DEF Sums
<1>10. Batted(e) = {1, 2}
  BY <1>1, <1>3, <1>4 DEF Batted
<1>11. Pair(e)
  BY <1>1, <1>3, <1>4, <1>10 DEF Pair
<1>12. CurrentOverNo(e) = 0 /\ Overs(e)
  <2>1. 0 \div BallsPerOver = 0 /\ 0 <= MaxOvers * BallsPerOver
    BY <1>1
  <2> QED
    BY <1>4, <2>1 DEF CurrentOverNo, Overs
<1> QED
  BY <1>3, <1>4, <1>5, <1>9, <1>11, <1>12 DEF Right, e

\* What the session promises of an innings follows.
LEMMA RightBalances == ASSUME NEW e, Right(e) PROVE InningsBalances(e) /\ PairAtCrease(e)
<1>0. /\ e \in InningsRec /\ Sums(e) /\ Pair(e) /\ Overs(e) /\ e.order \in Orders
      /\ e.bat \in Bats /\ e.bowl \in Bowls
  BY DEF Right, InningsRec
<1>1. InningsBalances(e)
  BY <1>0 DEF InningsBalances, Sums, Overs, RunsOff, Outs, LegalBy, RunsBy, WktsBy
<1>2. Cardinality({e.order[i] : i \in Batters}) = XI
  <2> DEFINE T == {e.order[i] : i \in Batters}
  <2>1. e.order \in Surjection(Batters, T)
    BY <1>0 DEF Surjection, Orders
  <2>2. e.order \in Injection(Batters, T)
    <3>1. e.order \in [Batters -> T] /\ \A i, j \in Batters : e.order[i] = e.order[j] => i = j
      BY <1>0, <2>1 DEF Surjection, Pair
    <3> HIDE DEF T
    <3> QED
      BY <3>1 DEF Injection, IsInjective
  <2> HIDE DEF T
  <2>3. Cardinality(T) = Cardinality(Batters)
    BY <2>1, <2>2, SidesAreFinite, FS_Surjection
  <2>4. Cardinality(Batters) = XI
    BY BookAssumption, FS_Interval DEF Batters
  <2> QED
    BY <2>3, <2>4 DEF T
<1>3. PairAtCrease(e)
  <2>1. ~Complete(e) => e.wkts < AllOut
    BY <1>0, BookAssumption DEF Complete, InningsRec
  <2> QED
    BY <1>0, <1>2, <2>1 DEF PairAtCrease, Pair, Batted
<1> QED
  BY <1>1, <1>3

-----------------------------------------------------------------------------
(* What the balls of an innings say of its overs: B are its balls, numbered, and over, by and con what *)
(* over each was of, who bowled it, and what was conceded.                                            *)

EarnedBy(B, over, by, con, x, o) == \A m \in B : over[m] = o => by[m] = x /\ con[m] = 0

Told(e, B, over, by, con) ==
    /\ \A m \in B : over[m] \in Nat /\ over[m] <= CurrentOverNo(e) /\ by[m] \in Bowlers
    /\ \A x \in Bowlers : x \in e.overBowlers <=> \E m \in B : over[m] = CurrentOverNo(e) /\ by[m] = x
    /\ \A x \in Bowlers : e.bowl[x].conceded = 0 <=>
          \A m \in B : over[m] = CurrentOverNo(e) /\ by[m] = x => con[m] = 0
    /\ \A x \in Bowlers : e.bowl[x].maidens =
          Cardinality({o \in 0..CurrentOverNo(e) - 1 : EarnedBy(B, over, by, con, x, o)})

LEMMA ToldNew ==
  ASSUME NEW target \in Nat, NEW over, NEW by, NEW con
  PROVE  Told(NewInnings(target), {}, over, by, con)
<1> DEFINE e == NewInnings(target)
<1>1. /\ e.overBowlers = {} /\ CurrentOverNo(e) = 0
      /\ \A w \in Bowlers : e.bowl[w].conceded = 0 /\ e.bowl[w].maidens = 0
  BY NewIs
<1> HIDE DEF e
<1>2. \A x : {o \in 0..(CurrentOverNo(e) - 1) : EarnedBy({}, over, by, con, x, o)} = {}
  BY <1>1
<1> QED
  BY <1>1, <1>2, FS_EmptySet DEF Told, e

LEMMA ToldSame ==
  ASSUME NEW e, NEW c, Same(c, e), NEW B, NEW over, NEW by, NEW con, Told(e, B, over, by, con)
  PROVE  Told(c, B, over, by, con)
<1>1. CurrentOverNo(c) = CurrentOverNo(e) /\ c.overBowlers = e.overBowlers /\ c.bowl = e.bowl
  BY DEF Same, CurrentOverNo
<1> QED
  BY <1>1 DEF Told

\* The next ball, and with it perhaps the end of an over, tells on.
LEMMA ToldBall ==
  ASSUME NEW e, Right(e), NEW d \in Delivery, e.wkts < AllOut, e.legal < MaxOvers * BallsPerOver,
         NEW B, NEW over, NEW by, NEW con, Told(e, B, over, by, con),
         NEW n, n \notin B, over[n] = CurrentOverNo(e), by[n] = BowlerForOver(e, CurrentOverNo(e)),
         con[n] = Conceded(d)
  PROVE  Told(ApplyOutcome(e, d), B \cup {n}, over, by, con)
<1> DEFINE c == ApplyOutcome(e, d)
           cur == CurrentOverNo(e)
           w == BowlerForOver(e, CurrentOverNo(e))
           ends == Legal(d) /\ (e.legal + 1) % BallsPerOver = 0
           bowlers == e.overBowlers \cup {w}
           Now(x) == e.bowl[x].conceded + IF x = w THEN Conceded(d) ELSE 0
           Ed(x, o) == EarnedBy(B, over, by, con, x, o)
           Ed2(x, o) == EarnedBy(B \cup {n}, over, by, con, x, o)
           Maid(x) == x = w /\ Now(w) = 0 /\ Cardinality(bowlers) = 1
<1>0. /\ e \in InningsRec /\ cur \in Nat /\ Conceded(d) \in Nat /\ w \in Bowlers
      /\ \A x \in Bowlers : e.bowl[x].conceded \in Nat /\ e.bowl[x].maidens \in Nat
      /\ e.overBowlers \subseteq Bowlers
  <2>1. e \in InningsRec
    BY DEF Right
  <2>2. e.legal \in Nat
    BY <2>1 DEF InningsRec
  <2>3. cur \in Nat
    BY <2>2, OverIs DEF CurrentOverNo
  <2>4. \A x \in Bowlers : e.bowl[x].conceded \in Nat /\ e.bowl[x].maidens \in Nat
    BY <2>1 DEF InningsRec, Bowls, BowlRec
  <2> QED
    BY <2>1, <2>3, <2>4, DeliveryIs, BallIs DEF InningsRec
<1>1. /\ ~ends => /\ CurrentOverNo(c) = cur /\ c.overBowlers = bowlers
                  /\ \A x \in Bowlers : c.bowl[x].conceded = Now(x) /\ c.bowl[x].maidens = e.bowl[x].maidens
      /\ ends => /\ CurrentOverNo(c) = cur + 1 /\ c.overBowlers = {}
                 /\ \A x \in Bowlers :
                       /\ c.bowl[x].conceded = IF x \in bowlers THEN 0 ELSE Now(x)
                       /\ c.bowl[x].maidens = e.bowl[x].maidens + IF Maid(x) THEN 1 ELSE 0
  BY BallIs
<1> HIDE DEF c, ends, cur, w
<1>2. /\ over[n] = cur /\ by[n] = w
      /\ \A m \in B : over[m] \in Nat /\ over[m] <= cur /\ by[m] \in Bowlers
      /\ \A x \in Bowlers : x \in e.overBowlers <=> \E m \in B : over[m] = cur /\ by[m] = x
      /\ \A x \in Bowlers : e.bowl[x].conceded = 0 <=> \A m \in B : over[m] = cur /\ by[m] = x => con[m] = 0
      /\ \A x \in Bowlers : e.bowl[x].maidens = Cardinality({o \in 0..cur - 1 : Ed(x, o)})
  BY DEF Told, cur, w
<1>3. \A x \in Bowlers : Now(x) \in Nat /\ (Now(x) = 0 <=> e.bowl[x].conceded = 0 /\ (x = w => Conceded(d) = 0))
  BY <1>0
<1> HIDE DEF Now
\* Over by over, up to the one that is being bowled.
<1>4. \A x \in Bowlers : \A o \in 0..cur - 1 : Ed2(x, o) <=> Ed(x, o)
  BY <1>0, <1>2 DEF EarnedBy
<1>5. \A x \in Bowlers : {o \in 0..cur - 1 : Ed2(x, o)} = {o \in 0..cur - 1 : Ed(x, o)}
  BY <1>4
<1>6. \A x \in Bowlers : x \in bowlers <=> \E m \in B \cup {n} : over[m] = cur /\ by[m] = x
  BY <1>2
<1>7. \A x \in Bowlers : Now(x) = 0 <=> \A m \in B \cup {n} : over[m] = cur /\ by[m] = x => con[m] = 0
  BY <1>2, <1>3
<1>8. CASE ~ends
  <2>1. /\ \A m \in B \cup {n} : over[m] \in Nat /\ over[m] <= CurrentOverNo(c) /\ by[m] \in Bowlers
        /\ \A x \in Bowlers : x \in c.overBowlers <=>
              \E m \in B \cup {n} : over[m] = CurrentOverNo(c) /\ by[m] = x
        /\ \A x \in Bowlers : c.bowl[x].conceded = 0 <=>
              \A m \in B \cup {n} : over[m] = CurrentOverNo(c) /\ by[m] = x => con[m] = 0
    BY <1>0, <1>1, <1>2, <1>6, <1>7, <1>8
  <2>2. \A x \in Bowlers : c.bowl[x].maidens = Cardinality({o \in 0..CurrentOverNo(c) - 1 : Ed2(x, o)})
    BY <1>1, <1>2, <1>5, <1>8
  <2> QED
    BY <2>1, <2>2 DEF Told, c
<1>9. CASE ends
  <2>1. \A m \in B \cup {n} : over[m] \in Nat /\ over[m] <= CurrentOverNo(c) /\ over[m] # CurrentOverNo(c)
                               /\ by[m] \in Bowlers
    BY <1>0, <1>1, <1>2, <1>9
  <2>2. \A x \in Bowlers : c.bowl[x].conceded = 0
    BY <1>1, <1>2, <1>3, <1>7, <1>6, <1>9
  <2>3. ASSUME NEW x \in Bowlers
        PROVE  c.bowl[x].maidens = Cardinality({o \in 0..CurrentOverNo(c) - 1 : Ed2(x, o)})
    <3>1. Maid(x) <=> Ed2(x, cur)
      <4>1. ASSUME Ed2(x, cur) PROVE Maid(x)
        <5>1. x = w /\ \A m \in B \cup {n} : over[m] = cur => by[m] = x /\ con[m] = 0
          BY <1>2, <4>1 DEF EarnedBy
        <5>2. Now(w) = 0 /\ bowlers = {w}
          BY <1>0, <1>6, <1>7, <5>1
        <5> QED
          BY <5>1, <5>2, FS_Singleton
      <4>2. ASSUME Maid(x) PROVE Ed2(x, cur)
        <5>1. bowlers = {w}
          <6>1. IsFiniteSet(bowlers)
            BY <1>0, SidesAreFinite, FS_Subset, FS_AddElement
          <6> QED
            BY <4>2, <6>1, FS_Singleton
        <5>2. \A m \in B \cup {n} : over[m] = cur => by[m] = w
          BY <1>0, <1>2, <1>6, <5>1
        <5> QED
          BY <1>0, <1>7, <4>2, <5>2 DEF EarnedBy
      <4> QED
        BY <4>1, <4>2
    <3> DEFINE M == {o \in 0..cur - 1 : Ed(x, o)}
    <3>2. IsFiniteSet(M) /\ cur \notin M
      <4>1. IsFiniteSet(0..cur - 1)
        BY <1>0, FS_Interval
      <4> QED
        BY <1>0, <4>1, FS_Subset
    <3>3. {o \in 0..CurrentOverNo(c) - 1 : Ed2(x, o)} = IF Maid(x) THEN M \cup {cur} ELSE M
      <4>1. CurrentOverNo(c) - 1 = cur
        BY <1>0, <1>1, <1>9
      <4>2. \A o : o \in 0..cur <=> o \in 0..cur - 1 \/ o = cur
        BY <1>0
      <4> QED
        BY <1>4, <3>1, <4>1, <4>2
    <3>4. Cardinality(M) = e.bowl[x].maidens
      BY <1>2
    <3> HIDE DEF M
    <3>5. Cardinality(M \cup {cur}) = e.bowl[x].maidens + 1
      BY <3>2, <3>4, FS_AddElement
    <3> HIDE DEF Maid, Ed2
    <3>6. CASE Maid(x)
      BY <1>0, <1>1, <1>9, <3>3, <3>5, <3>6
    <3>7. CASE ~Maid(x)
      <4>1. e.bowl[x].maidens \in Nat /\ c.bowl[x].maidens = e.bowl[x].maidens + 0
        BY <1>0, <1>1, <1>9, <3>7
      <4>2. {o \in 0..CurrentOverNo(c) - 1 : Ed2(x, o)} = M
        BY <3>3, <3>7
      <4>3. c.bowl[x].maidens = e.bowl[x].maidens
        BY <4>1
      <4> QED
        BY <3>4, <4>2, <4>3, Zenon
    <3> QED
      BY <3>6, <3>7
  <2> QED
    BY <1>1, <1>9, <2>1, <2>2, <2>3 DEF Told, c
<1> QED
  BY <1>8, <1>9

-----------------------------------------------------------------------------
(* A book, and what an event does to it. *)

GoodBook(book) ==
    /\ book \in Seq(InningsRec) /\ Len(book) \in {1, 2}
    /\ \A k \in 1..Len(book) : Right(book[k])
    /\ Len(book) = 2 => Complete(book[1]) /\ book[2].target = book[1].total + 1

\* What a replay can have come to.
Replays == {r \in [book : Seq(InningsRec), ok : BOOLEAN] : GoodBook(r.book)}

LEMMA NewBookIsGood == GoodBook(NewBook)
<1>1. Right(NewInnings(NoTarget))
  BY NewIs DEF NoTarget
<1>2. NewInnings(NoTarget) \in InningsRec
  BY <1>1 DEF Right
<1> DEFINE e == NewInnings(NoTarget)
<1> HIDE DEF e
<1> QED
  BY <1>1, <1>2 DEF GoodBook, NewBook, e

LEMMA GoodEnds ==
  ASSUME NEW book, GoodBook(book), Len(book) = 1
  PROVE  GoodBook(<<End(book[1])>>) /\ Complete(End(book[1])) /\ Same(End(book[1]), book[1])
<1>1. Right(End(book[1])) /\ Complete(End(book[1])) /\ Same(End(book[1]), book[1])
  BY EndIs DEF GoodBook
<1>2. End(book[1]) \in InningsRec
  BY <1>1, SMTT(30) DEF Right
<1> QED
  BY <1>1, <1>2 DEF GoodBook

\* The innings of a book are what they were, but for the one that is played.
LEMMA GoodPlays ==
  ASSUME NEW book, GoodBook(book), NEW e, Right(e), e.target = Current(book).target
  PROVE  LET b == [book EXCEPT ![Len(book)] = e]
         IN  /\ GoodBook(b)
             /\ Len(b) = Len(book) /\ b[Len(book)] = e /\ (Len(book) = 2 => b[1] = book[1])
<1> DEFINE n == Len(book)
           b == [book EXCEPT ![n] = e]
<1>1. e \in InningsRec /\ n \in {1, 2} /\ book \in Seq(InningsRec) /\ n \in 1..n
  BY DEF Right, GoodBook
<1>2. b \in Seq(InningsRec) /\ Len(b) = n /\ \A k \in 1..n : b[k] = IF k = n THEN e ELSE book[k]
  BY <1>1
<1> HIDE DEF n, b
<1>3. n = 2 => b[1] = book[1] /\ b[2] = e
  BY <1>1, <1>2
<1>4. \A k \in 1..n : Right(b[k])
  BY <1>2 DEF GoodBook, n
<1>5. n = 2 => Complete(b[1]) /\ b[2].target = b[1].total + 1
  BY <1>3 DEF GoodBook, n, Current
<1> QED
  BY <1>1, <1>2, <1>3, <1>4, <1>5 DEF GoodBook, n, b

LEMMA GoodStarts ==
  ASSUME NEW book, GoodBook(book), Len(book) = 1, Complete(book[1])
  PROVE  /\ GoodBook(StartInnings(book)) /\ Len(StartInnings(book)) = 2
         /\ StartInnings(book)[1] = book[1] /\ StartInnings(book)[2] = NewInnings(book[1].total + 1)
<1> DEFINE e == NewInnings(book[1].total + 1)
           b == Append(book, e)
<1>1. book \in Seq(InningsRec) /\ Right(book[1]) /\ book[1] \in InningsRec /\ book[1].total + 1 \in Nat
  BY DEF GoodBook, Right, InningsRec
<1>2. Right(e) /\ e.target = book[1].total + 1
  BY <1>1, NewIs
<1>3. e \in InningsRec
  BY <1>2 DEF Right
<1> HIDE DEF e
<1>4. b \in Seq(InningsRec) /\ Len(b) = 2 /\ b[1] = book[1] /\ b[2] = e
  <2>1. Len(b) = Len(book) + 1 /\ b \in Seq(InningsRec)
    BY <1>1, <1>3, AppendProperties
  <2>2. \A i \in 1..Len(book) : b[i] = book[i]
    BY <1>1, <1>3, AppendProperties
  <2>3. b[Len(book) + 1] = e
    BY <1>1, <1>3, AppendProperties
  <2> HIDE DEF b
  <2> QED
    BY <2>1, <2>2, <2>3
<1>5. StartInnings(book) = b
  BY DEF StartInnings, e
<1> HIDE DEF b
<1>6. \A k \in 1..2 : Right(b[k])
  <2>1. \A k \in 1..2 : k = 1 \/ k = 2
    OBVIOUS
  <2> QED
    BY <1>1, <1>2, <1>4, <2>1
<1> QED
  BY <1>2, <1>4, <1>5, <1>6 DEF GoodBook, e

\* What is played on: the innings of the book that it is of, what happens to it, and what for.
Plays(e, c, ev) ==
    /\ Right(c) /\ c.target = e.target
    /\ \/ /\ ev.event = "ball" /\ ev.ball \in Delivery /\ ~Complete(e) /\ c = ApplyOutcome(e, ev.ball)
          /\ e.wkts < AllOut /\ e.legal < MaxOvers * BallsPerOver
       \/ ev.event # "ball" /\ Same(c, e)

\* An accepted event other than the start of an innings plays on the current one.
LEMMA EffectPlays ==
  ASSUME NEW book, GoodBook(book), NEW ev \in Events, Accepts(book, ev), ev.event # "start_innings"
  PROVE  \E c : Plays(Current(book), c, ev) /\ Effect(book, ev) = [book EXCEPT ![Len(book)] = c]
<1> DEFINE e == Current(book)
<1>1. Right(e) /\ e \in InningsRec
  BY DEF GoodBook, Current, Right
<1>2. CASE ev.event = "ball"
  <2>1. ev.ball \in Delivery
    BY <1>2, SessionAssumption DEF Events
  <2>2. ~Complete(e)
    BY <1>2 DEF Accepts
  <2>3. e.wkts < AllOut /\ e.legal < MaxOvers * BallsPerOver
    BY <2>2, <1>1, BookAssumption DEF Complete, InningsRec
  <2>4. Right(ApplyOutcome(e, ev.ball)) /\ ApplyOutcome(e, ev.ball).target = e.target
    BY <1>1, <2>1, <2>3, BallIs
  <2>5. Effect(book, ev) = [book EXCEPT ![Len(book)] = ApplyOutcome(e, ev.ball)]
    BY <1>2 DEF Effect
  <2>6. Plays(e, ApplyOutcome(e, ev.ball), ev)
    BY <1>2, <2>1, <2>2, <2>3, <2>4 DEF Plays
  <2> QED
    BY <2>5, <2>6
<1>3. CASE ev.event = "bowler"
  <2>1. ev.name \in Bowlers
    BY <1>3, SessionAssumption DEF Events
  <2>2. Right(SetBowler(e, ev.name)) /\ Same(SetBowler(e, ev.name), e)
    BY <1>1, <2>1, SetBowlerIs
  <2>3. Effect(book, ev) = [book EXCEPT ![Len(book)] = SetBowler(e, ev.name)]
    BY <1>3 DEF Effect
  <2>4. Plays(e, SetBowler(e, ev.name), ev)
    BY <1>3, <2>2 DEF Plays, Same
  <2> QED
    BY <2>3, <2>4
<1>4. CASE ev.event = "batter"
  <2>1. CanChoose(e, ev.name)
    BY <1>4 DEF Accepts
  <2>2. Right(ChooseNextBatter(e, ev.name)) /\ Same(ChooseNextBatter(e, ev.name), e)
    BY <1>1, <2>1, ChooseIs
  <2>3. Effect(book, ev) = [book EXCEPT ![Len(book)] = ChooseNextBatter(e, ev.name)]
    BY <1>4 DEF Effect
  <2>4. Plays(e, ChooseNextBatter(e, ev.name), ev)
    BY <1>4, <2>2 DEF Plays, Same
  <2> QED
    BY <2>3, <2>4
<1>5. CASE ev.event = "swap_strike"
  <2>2. Right(SwapStrike(e)) /\ Same(SwapStrike(e), e)
    BY <1>1, SwapKeeps
  <2>3. Effect(book, ev) = [book EXCEPT ![Len(book)] = SwapStrike(e)]
    BY <1>5 DEF Effect
  <2>4. Plays(e, SwapStrike(e), ev)
    BY <1>5, <2>2 DEF Plays, Same
  <2> QED
    BY <2>3, <2>4
<1>6. CASE ev.event = "end_innings"
  <2>2. Right(End(e)) /\ Same(End(e), e)
    BY <1>1, EndIs
  <2>3. Effect(book, ev) = [book EXCEPT ![Len(book)] = End(e)]
    BY <1>6 DEF Effect
  <2>4. Plays(e, End(e), ev)
    BY <1>6, <2>2 DEF Plays, Same
  <2> QED
    BY <2>3, <2>4
<1>7. ev.event \in {"ball", "bowler", "batter", "swap_strike", "end_innings", "start_innings"}
  BY DEF Events
<1> QED
  BY <1>2, <1>3, <1>4, <1>5, <1>6, <1>7

\* A replay goes on with an innings, starts one, or leaves the book; or it stops.
Goes(r, q, ev) ==
    \/ q.book = r.book /\ q.ok = r.ok /\ (ev.event = "ball" => ~r.ok)
    \/ r.ok /\ ~q.ok /\ q.book = r.book
    \/ r.ok /\ q.ok /\ ev.event = "start_innings" /\ Len(r.book) = 1 /\ Len(q.book) = 2
       /\ Same(q.book[1], r.book[1]) /\ q.book[2] = NewInnings(q.book[1].total + 1)
    \/ r.ok /\ q.ok /\ Len(q.book) = Len(r.book) /\ (Len(r.book) = 2 => q.book[1] = r.book[1])
       /\ Plays(Current(r.book), Current(q.book), ev)

LEMMA ReplayGoes ==
  ASSUME NEW r \in Replays, NEW ev \in Events
  PROVE  ReplayOne(r, ev) \in Replays /\ Goes(r, ReplayOne(r, ev), ev)
<1> DEFINE closing == ev.event = "start_innings" /\ Len(r.book) = 1 /\ ~Complete(Current(r.book))
           book == IF closing THEN <<End(r.book[1])>> ELSE r.book
           q == ReplayOne(r, ev)
<1>0. r \in [book : Seq(InningsRec), ok : BOOLEAN] /\ GoodBook(r.book) /\ r.ok \in BOOLEAN
  BY DEF Replays
<1>1. CASE ~r.ok
  <2>1. q = r
    BY <1>1 DEF ReplayOne
  <2> QED
    BY <1>1, <2>1 DEF Goes
<1>2. CASE r.ok /\ ~Accepts(book, ev)
  <2>1. CASE ev.event \in Auxiliary
    <3>1. q = r
      BY <1>2, <2>1 DEF ReplayOne
    <3> QED
      BY <2>1, <3>1 DEF Goes, Auxiliary
  <2>2. CASE ev.event \notin Auxiliary
    <3>1. q = [r EXCEPT !.ok = FALSE]
      BY <1>2, <2>2 DEF ReplayOne
    <3>2. q.book = r.book /\ q.ok = FALSE /\ q \in [book : Seq(InningsRec), ok : BOOLEAN]
      BY <1>0, <3>1
    <3> QED
      BY <1>0, <1>2, <3>2 DEF Replays, Goes
  <2> QED
    BY <2>1, <2>2
<1>3. CASE r.ok /\ Accepts(book, ev) /\ ev.event # "start_innings"
  <2>1. book = r.book
    BY <1>3
  <2>2. PICK c : Plays(Current(r.book), c, ev) /\ Effect(r.book, ev) = [r.book EXCEPT ![Len(r.book)] = c]
    BY <1>0, <1>3, <2>1, EffectPlays
  <2>3. q = [r EXCEPT !.book = Effect(r.book, ev)]
    BY <1>3, <2>1 DEF ReplayOne
  <2>4. q.book = [r.book EXCEPT ![Len(r.book)] = c] /\ q.ok = r.ok
    BY <1>0, <2>2, <2>3
  <2>5. Right(c) /\ c.target = Current(r.book).target
    BY <2>2 DEF Plays
  <2>6. /\ GoodBook(q.book) /\ Len(q.book) = Len(r.book) /\ q.book[Len(r.book)] = c
        /\ Len(r.book) = 2 => q.book[1] = r.book[1]
    BY <1>0, <2>4, <2>5, GoodPlays
  <2>7. Current(q.book) = c
    BY <2>6 DEF Current
  <2>8. q \in Replays
    BY <1>0, <2>3, <2>4, <2>6 DEF Replays, GoodBook
  <2> QED
    BY <1>3, <2>2, <2>4, <2>6, <2>7, <2>8 DEF Goes
<1>4. CASE r.ok /\ Accepts(book, ev) /\ ev.event = "start_innings"
  <2>1. Len(book) = 1 /\ Complete(Current(book))
    BY <1>4 DEF Accepts
  <2>2. Len(r.book) = 1 /\ GoodBook(book) /\ Complete(book[1]) /\ Same(book[1], r.book[1])
    <3>1. CASE closing
      <4>1. book = <<End(r.book[1])>> /\ book[1] = End(r.book[1])
        BY <3>1
      <4> HIDE DEF book
      <4> QED
        BY <1>0, <3>1, <4>1, GoodEnds
    <3>2. CASE ~closing
      <4>1. book = r.book
        BY <3>2
      <4> HIDE DEF book
      <4> QED
        BY <1>0, <2>1, <4>1 DEF Same, Current
    <3> QED
      BY <3>1, <3>2
  <2>3. q = [r EXCEPT !.book = StartInnings(book)]
    BY <1>4 DEF ReplayOne, Effect
  <2> HIDE DEF book
  <2>4. q.book = StartInnings(book) /\ q.ok = r.ok
    BY <1>0, <2>3
  <2>5. GoodBook(q.book) /\ Len(q.book) = 2 /\ q.book[1] = book[1] /\ q.book[2] = NewInnings(book[1].total + 1)
    BY <2>1, <2>2, <2>4, GoodStarts
  <2>6. q \in Replays
    BY <1>0, <2>3, <2>4, <2>5 DEF Replays, GoodBook
  <2> QED
    BY <1>4, <2>2, <2>4, <2>5, <2>6 DEF Goes
<1> QED
  BY <1>0, <1>1, <1>2, <1>3, <1>4

-----------------------------------------------------------------------------
(* A log, replayed. *)

\* What the replay of a log came to after each of its events.
Follow(log, g) ==
    /\ g \in [0..Len(log) -> Replays]
    /\ g[0] = [book |-> NewBook, ok |-> TRUE]
    /\ \A n \in 1..Len(log) : g[n] = ReplayOne(g[n - 1], log[n])

\* A replay ends where its steps lead.
LEMMA RebuildFollows ==
  ASSUME NEW log \in Seq(Events)
  PROVE  \E g : Follow(log, g) /\ Rebuild(log) = g[Len(log)]
<1> DEFINE n == Len(log)
           b == [book |-> NewBook, ok |-> TRUE]
           step == [x \in Replays \X (1..n) |-> ReplayOne(x[1], log[x[2]])]
           Is(g) == g = [k \in 0..n |-> IF k = 0 THEN b ELSE ReplayOne(g[k - 1], log[k])]
           after == CHOOSE g : Is(g)
<1>1. n \in Nat /\ \A k \in 1..n : log[k] \in Events
  OBVIOUS
<1>2. b \in Replays
  BY NewBookIsGood DEF Replays, GoodBook
<1>3. step \in [Replays \X (1..n) -> Replays] /\ \A r \in Replays, k \in 1..n : step[<<r, k>>] = ReplayOne(r, log[k])
  BY <1>1, ReplayGoes
<1> HIDE DEF step, b
<1>4. PICK g \in [0..n -> Replays] : Follows(g, n, b, step)
  BY <1>1, <1>2, <1>3, PrefixExists
<1>5. \A k \in 1..n : g[k - 1] \in Replays /\ g[k] = ReplayOne(g[k - 1], log[k])
  <2> SUFFICES ASSUME NEW k \in 1..n PROVE g[k - 1] \in Replays /\ g[k] = ReplayOne(g[k - 1], log[k])
    OBVIOUS
  <2>1. k \in 0..n /\ k - 1 \in 0..n /\ k # 0
    BY <1>1
  <2>2. g[k] = step[<<g[k - 1], k>>]
    BY <1>4, <2>1 DEF Follows
  <2> QED
    BY <1>3, <2>1, <2>2
<1>6. g[0] = b
  BY <1>1, <1>4 DEF Follows
<1>7. Is(g)
  <2> DEFINE h == [k \in 0..n |-> IF k = 0 THEN b ELSE ReplayOne(g[k - 1], log[k])]
  <2>1. \A k \in 0..n : g[k] = h[k]
    <3>1. \A k \in 0..n : k = 0 \/ k \in 1..n
      BY <1>1
    <3> QED
      BY <1>5, <1>6, <3>1
  <2> QED
    BY <2>1
<1>8. Is(after)
  <2> HIDE DEF Is
  <2> QED
    BY <1>7
<1>9. \A k \in 0..n : after[k] = g[k]
  <2> HIDE DEF after
  <2> DEFINE Done == {k \in Nat : k <= n => after[k] = g[k]}
  <2>1. 0 \in Done
    BY <1>1, <1>6, <1>8
  <2>2. ASSUME NEW k \in Nat, k \in Done PROVE k + 1 \in Done
    <3> SUFFICES ASSUME k + 1 <= n PROVE after[k + 1] = g[k + 1]
      OBVIOUS
    <3>1. after[k] = g[k] /\ k + 1 \in 1..n /\ k + 1 \in 0..n /\ (k + 1) - 1 = k /\ k + 1 # 0
      BY <1>1, <2>2
    <3>2. after[k + 1] = ReplayOne(after[k], log[k + 1])
      BY <1>8, <3>1
    <3> QED
      BY <1>5, <3>1, <3>2
  <2> HIDE DEF Done
  <2>3. \A k \in Nat : k \in Done
    BY <2>1, <2>2, SetInduction
  <2> QED
    BY <1>1, <2>3 DEF Done
<1>10. Rebuild(log) = after[n]
  BY DEF Rebuild, b
<1>11. Follow(log, g)
  BY <1>4, <1>5, <1>6 DEF Follow, b
<1> HIDE DEF after
<1> QED
  BY <1>1, <1>9, <1>10, <1>11

\* Two replays go the same way as long as their logs do.
LEMMA FollowsAgree ==
  ASSUME NEW log \in Seq(Events), NEW short \in Seq(Events), NEW g, NEW h, Follow(log, g), Follow(short, h),
         NEW n \in Nat, n <= Len(log), n <= Len(short), \A k \in 1..n : log[k] = short[k]
  PROVE  \A k \in 0..n : g[k] = h[k]
<1> DEFINE Done == {k \in Nat : k <= n => g[k] = h[k]}
<1>0. Len(log) \in Nat /\ Len(short) \in Nat
  OBVIOUS
<1>1. 0 \in Done
  BY DEF Follow
<1>2. ASSUME NEW k \in Nat, k \in Done PROVE k + 1 \in Done
  <2> SUFFICES ASSUME k + 1 <= n PROVE g[k + 1] = h[k + 1]
    OBVIOUS
  <2>1. g[k] = h[k] /\ k + 1 \in 1..n /\ k + 1 \in 1..Len(log) /\ k + 1 \in 1..Len(short) /\ (k + 1) - 1 = k
    BY <1>0, <1>2
  <2>2. g[k + 1] = ReplayOne(g[k], log[k + 1]) /\ h[k + 1] = ReplayOne(h[k], short[k + 1])
    BY <2>1 DEF Follow
  <2> QED
    BY <2>1, <2>2
<1> HIDE DEF Done
<1>3. \A k \in Nat : k \in Done
  BY <1>1, <1>2, SetInduction
<1> QED
  BY <1>3 DEF Done

\* What the first events come to is where the replay was after them.
LEMMA RebuildOfPrefix ==
  ASSUME NEW log \in Seq(Events), NEW g, Follow(log, g), NEW n \in 0..Len(log)
  PROVE  SubSeq(log, 1, n) \in Seq(Events) /\ Len(SubSeq(log, 1, n)) = n /\ Rebuild(SubSeq(log, 1, n)) = g[n]
<1> DEFINE short == SubSeq(log, 1, n)
<1>1. short \in Seq(Events) /\ Len(short) = n /\ \A k \in 1..n : log[k] = short[k]
  OBVIOUS
<1> HIDE DEF short
<1>2. PICK h : Follow(short, h) /\ Rebuild(short) = h[Len(short)]
  BY <1>1, RebuildFollows
<1>3. n \in Nat /\ n <= Len(log) /\ n <= Len(short) /\ n \in 0..n
  BY <1>1
<1>4. \A k \in 0..n : g[k] = h[k]
  BY <1>1, <1>2, <1>3, FollowsAgree
<1> QED
  BY <1>1, <1>2, <1>3, <1>4 DEF short

LEMMA RebuildIs ==
  ASSUME NEW log \in Seq(Events), NEW g, Follow(log, g)
  PROVE  Rebuild(log) = g[Len(log)] /\ Rebuild(log) \in Replays
<1>1. PICK h : Follow(log, h) /\ Rebuild(log) = h[Len(log)]
  BY RebuildFollows
<1>2. Len(log) \in Nat /\ Len(log) \in 0..Len(log)
  OBVIOUS
<1>3. \A k \in 0..Len(log) : g[k] = h[k]
  BY <1>1, <1>2, FollowsAgree
<1> QED
  BY <1>1, <1>2, <1>3 DEF Follow

LEMMA RebuildOfNone == Rebuild(<<>>) = [book |-> NewBook, ok |-> TRUE]
<1>1. <<>> \in Seq(Events) /\ Len(<<>>) = 0
  OBVIOUS
<1>2. PICK g : Follow(<<>>, g) /\ Rebuild(<<>>) = g[Len(<<>>)]
  BY <1>1, RebuildFollows
<1> QED
  BY <1>1, <1>2 DEF Follow

\* One event more.
LEMMA RebuildOfAppend ==
  ASSUME NEW log \in Seq(Events), NEW ev \in Events
  PROVE  Rebuild(Append(log, ev)) = ReplayOne(Rebuild(log), ev)
<1> DEFINE long == Append(log, ev)
<1>1. /\ long \in Seq(Events) /\ Len(long) = Len(log) + 1 /\ Len(log) \in Nat
      /\ \A k \in 1..Len(log) : long[k] = log[k]
      /\ long[Len(log) + 1] = ev
  OBVIOUS
<1> HIDE DEF long
<1>2. PICK g : Follow(long, g) /\ Rebuild(long) = g[Len(long)]
  BY <1>1, RebuildFollows
<1>3. PICK h : Follow(log, h) /\ Rebuild(log) = h[Len(log)]
  BY RebuildFollows
<1>4. g[Len(log)] = h[Len(log)]
  <2>1. \A k \in 0..Len(log) : g[k] = h[k]
    BY <1>1, <1>2, <1>3, FollowsAgree
  <2> QED
    BY <1>1, <2>1
<1>5. Len(log) + 1 \in 1..Len(long) /\ (Len(log) + 1) - 1 = Len(log)
  BY <1>1
<1>6. g[Len(log) + 1] = ReplayOne(g[Len(log)], ev)
  BY <1>1, <1>2, <1>5 DEF Follow
<1> QED
  BY <1>1, <1>2, <1>3, <1>4, <1>6 DEF long

\* A replay that stopped stays stopped: one that came to the end never did.
LEMMA AllOfItIsRead ==
  ASSUME NEW log \in Seq(Events), NEW g, Follow(log, g), g[Len(log)].ok
  PROVE  \A n \in 0..Len(log) : g[n].ok
<1> SUFFICES ASSUME NEW n \in 0..Len(log), ~g[n].ok PROVE FALSE
  OBVIOUS
<1> DEFINE Done == {k \in Nat : n + k <= Len(log) => g[n + k] = g[n]}
<1>0. Len(log) \in Nat /\ n \in Nat /\ n <= Len(log)
  OBVIOUS
<1>1. 0 \in Done
  BY <1>0
<1>2. ASSUME NEW k \in Nat, k \in Done PROVE k + 1 \in Done
  <2> SUFFICES ASSUME n + (k + 1) <= Len(log) PROVE g[n + (k + 1)] = g[n]
    OBVIOUS
  <2>1. g[n + k] = g[n] /\ n + (k + 1) \in 1..Len(log) /\ (n + (k + 1)) - 1 = n + k
    BY <1>0, <1>2
  <2>2. g[n + (k + 1)] = ReplayOne(g[n + k], log[n + (k + 1)])
    BY <2>1 DEF Follow
  <2> QED
    BY <2>1, <2>2 DEF ReplayOne
<1> HIDE DEF Done
<1>3. Len(log) - n \in Done
  BY <1>0, <1>1, <1>2, SetInduction
<1>4. n + (Len(log) - n) = Len(log)
  BY <1>0
<1> QED
  BY <1>0, <1>3, <1>4 DEF Done

-----------------------------------------------------------------------------
(* The figures of a log. *)

\* The balls of innings k up to event n, and over by over who bowled them and what was conceded.
LogBalls(log, g, n, k) == {m \in 1..n : log[m].event = "ball" /\ Len(g[m - 1].book) = k}
OverOf(log, g) == [m \in 1..Len(log) |-> CurrentOverNo(Current(g[m - 1].book))]
BowlerOf(log, g) == [m \in 1..Len(log) |-> BowlerForOver(Current(g[m - 1].book), OverOf(log, g)[m])]
GivenIn(log) == [m \in 1..Len(log) |-> IF log[m].event = "ball" THEN Conceded(log[m].ball) ELSE 0]

\* What the book tells after event n is what the balls so far tell, and none was bowled at a chase that was won.
TellsAll(log, g, n) ==
    /\ \A m \in 0..n : Len(g[m].book) <= Len(g[n].book)
    /\ \A k \in 1..Len(g[n].book) :
          Told(g[n].book[k], LogBalls(log, g, n, k), OverOf(log, g), BowlerOf(log, g), GivenIn(log))
    /\ Len(g[n].book) = 2 => \A m \in LogBalls(log, g, n, 2) :
                                g[m - 1].book[2].total <= g[n].book[1].total

LEMMA TellsStart ==
  ASSUME NEW log \in Seq(Events), NEW g, Follow(log, g)
  PROVE  TellsAll(log, g, 0)
<1>1. g[0].book = NewBook /\ Len(g[0].book) = 1
  BY DEF Follow, NewBook
<1>2. \A k : LogBalls(log, g, 0, k) = {}
  BY DEF LogBalls
<1>3. g[0].book[1] = NewInnings(NoTarget) /\ NoTarget \in Nat
  BY <1>1 DEF NewBook, NoTarget
<1> DEFINE over == OverOf(log, g)
           by == BowlerOf(log, g)
           con == GivenIn(log)
<1> HIDE DEF over, by, con
<1>4. Told(NewInnings(NoTarget), {}, over, by, con)
  BY <1>3, ToldNew
<1>5. \A k \in 1..1 : k = 1
  OBVIOUS
<1>6. \A m \in 0..0 : m = 0
  OBVIOUS
<1>7. \A k \in 1..Len(g[0].book) : Told(g[0].book[k], LogBalls(log, g, 0, k), over, by, con)
  BY <1>1, <1>2, <1>3, <1>4, <1>5
<1>8. \A m \in 0..0 : Len(g[m].book) <= Len(g[0].book)
  <2> SUFFICES ASSUME NEW m \in 0..0 PROVE Len(g[m].book) <= Len(g[0].book)
    OBVIOUS
  <2>1. g[m] = g[0] /\ 1 <= 1
    BY <1>6
  <2> QED
    BY <1>1, <2>1
<1>9. Len(g[0].book) # 2
  BY <1>1
<1> QED
  BY <1>7, <1>8, <1>9 DEF TellsAll, over, by, con

\* One event more.
LEMMA TellsOn ==
  ASSUME NEW log \in Seq(Events), NEW g, Follow(log, g), \A m \in 0..Len(log) : g[m].ok,
         NEW n \in Nat, n + 1 <= Len(log), TellsAll(log, g, n)
  PROVE  TellsAll(log, g, n + 1)
<1> DEFINE r == g[n]
           q == g[n + 1]
           ev == log[n + 1]
           over == OverOf(log, g)
           by == BowlerOf(log, g)
           con == GivenIn(log)
           Before(k) == LogBalls(log, g, n, k)
           After(k) == LogBalls(log, g, n + 1, k)
<1>0. Len(log) \in Nat /\ n + 1 \in 1..Len(log) /\ (n + 1) - 1 = n /\ n \in 0..Len(log) /\ n + 1 \in 0..Len(log)
  OBVIOUS
<1>1. r \in Replays /\ q \in Replays /\ r.ok /\ q.ok /\ ev \in Events /\ q = ReplayOne(r, ev)
  BY <1>0 DEF Follow
<1>2. Goes(r, q, ev)
  BY <1>1, ReplayGoes
<1>3. GoodBook(r.book) /\ GoodBook(q.book) /\ Len(r.book) \in {1, 2} /\ Len(q.book) \in {1, 2}
  BY <1>1 DEF Replays, GoodBook
<1>4. /\ over[n + 1] = CurrentOverNo(Current(r.book)) /\ by[n + 1] = BowlerForOver(Current(r.book), over[n + 1])
      /\ ev.event = "ball" => con[n + 1] = Conceded(ev.ball)
  BY <1>0 DEF OverOf, BowlerOf, GivenIn
<1>5. \A k : n + 1 \notin Before(k)
             /\ After(k) = IF ev.event = "ball" /\ Len(r.book) = k THEN Before(k) \cup {n + 1} ELSE Before(k)
  <2>1. \A m : m \in 1..n + 1 <=> m \in 1..n \/ m = n + 1
    BY <1>0
  <2>2. n + 1 \notin 1..n
    OBVIOUS
  <2> QED
    BY <1>0, <2>1, <2>2 DEF LogBalls
<1>6. \A m \in 0..n : Len(g[m].book) <= Len(r.book)
  BY DEF TellsAll
<1>7. \A k \in 1..Len(r.book) : Told(r.book[k], Before(k), over, by, con)
  BY DEF TellsAll
<1>8. Len(r.book) = 2 => \A m \in Before(2) : g[m - 1].book[2].total <= r.book[1].total
  BY DEF TellsAll
<1>9. \A m : m \in 0..n + 1 <=> m \in 0..n \/ m = n + 1
  BY <1>0
<1>10. SUFFICES
         /\ Len(r.book) <= Len(q.book)
         /\ \A k \in 1..Len(q.book) : Told(q.book[k], After(k), over, by, con)
         /\ Len(q.book) = 2 => \A m \in After(2) : g[m - 1].book[2].total <= q.book[1].total
  <2> HIDE DEF over, by, con
  <2>1. ASSUME Len(r.book) <= Len(q.book) PROVE \A m \in 0..n + 1 : Len(g[m].book) <= Len(q.book)
    <3> SUFFICES ASSUME NEW m \in 0..n + 1 PROVE Len(g[m].book) <= Len(q.book)
      OBVIOUS
    <3>1. CASE m = n + 1
      BY <1>3, <3>1
    <3>2. CASE m \in 0..n
      <4>1. m \in 0..Len(log)
        BY <1>0, <3>2
      <4>2. g[m] \in Replays
        BY <4>1 DEF Follow
      <4>3. Len(g[m].book) \in {1, 2}
        BY <4>2 DEF Replays, GoodBook
      <4> QED
        BY <1>3, <1>6, <2>1, <3>2, <4>3, SMTT(30)
    <3> QED
      BY <1>9, <3>1, <3>2
  <2> QED
    BY <2>1 DEF TellsAll, over, by, con
<1> HIDE DEF r, q, ev, over, by, con, Before, After
<1>11. CASE q.book = r.book /\ q.ok = r.ok /\ (ev.event = "ball" => ~r.ok)
  <2>1. \A k : After(k) = Before(k)
    BY <1>1, <1>5, <1>11
  <2> QED
    BY <1>3, <1>7, <1>8, <1>11, <2>1
<1>12. CASE r.ok /\ q.ok /\ ev.event = "start_innings" /\ Len(r.book) = 1 /\ Len(q.book) = 2
            /\ Same(q.book[1], r.book[1]) /\ q.book[2] = NewInnings(q.book[1].total + 1)
  <2>1. \A k : After(k) = Before(k)
    BY <1>5, <1>12
  <2>2. Before(2) = {}
    <3> SUFFICES ASSUME NEW m \in Before(2) PROVE FALSE
      OBVIOUS
    <3>1. m \in 1..n /\ Len(g[m - 1].book) = 2
      BY DEF Before, LogBalls
    <3>2. m - 1 \in 0..n
      BY <1>0, <3>1
    <3> QED
      BY <1>6, <1>12, <3>1, <3>2
  <2>3. q.book[1].total + 1 \in Nat
    <3>1. 1 \in 1..Len(q.book)
      BY <1>12
    <3>2. Right(q.book[1])
      BY <1>3, <3>1 DEF GoodBook
    <3> QED
      BY <3>2 DEF Right, InningsRec
  <2>4. Told(q.book[2], After(2), over, by, con)
    BY <1>12, <2>1, <2>2, <2>3, ToldNew
  <2>5. Told(r.book[1], Before(1), over, by, con)
    BY <1>7, <1>12
  <2>6. Told(q.book[1], After(1), over, by, con)
    BY <1>12, <2>1, <2>5, ToldSame
  <2>7. \A k \in 1..2 : k = 1 \/ k = 2
    OBVIOUS
  <2> QED
    BY <1>12, <2>1, <2>2, <2>4, <2>6, <2>7
<1>13. CASE r.ok /\ q.ok /\ Len(q.book) = Len(r.book) /\ (Len(r.book) = 2 => q.book[1] = r.book[1])
            /\ Plays(Current(r.book), Current(q.book), ev)
  <2> DEFINE K == Len(r.book)
             e == r.book[K]
             c == q.book[K]
  <2>1. K \in {1, 2} /\ Current(r.book) = e /\ Current(q.book) = c /\ Plays(e, c, ev) /\ Right(e)
    <3>1. K \in {1, 2} /\ K \in 1..K
      <4>1. K \in {1, 2}
        BY <1>3
      <4> HIDE DEF K
      <4> QED
        BY <4>1
    <3>2. Right(e)
      BY <1>3, <3>1 DEF GoodBook
    <3>3. Current(r.book) = e /\ Current(q.book) = c
      BY <1>13 DEF Current
    <3> HIDE DEF K, e, c
    <3> QED
      BY <1>13, <3>1, <3>2, <3>3
  <2>2. Told(e, Before(K), over, by, con)
    <3>1. K \in 1..K
      <4> HIDE DEF K
      <4> QED
        BY <2>1
    <3> QED
      BY <1>7, <3>1
  <2>3. Told(c, After(K), over, by, con)
    <3> HIDE DEF K, e, c
    <3>1. CASE ev.event = "ball"
      <4>1. /\ ev.ball \in Delivery /\ ~Complete(e) /\ c = ApplyOutcome(e, ev.ball)
            /\ e.wkts < AllOut /\ e.legal < MaxOvers * BallsPerOver
        BY <2>1, <3>1 DEF Plays
      <4>2. After(K) = Before(K) \cup {n + 1} /\ n + 1 \notin Before(K)
        BY <1>5, <3>1 DEF K
      <4>3. /\ over[n + 1] = CurrentOverNo(e) /\ by[n + 1] = BowlerForOver(e, CurrentOverNo(e))
            /\ con[n + 1] = Conceded(ev.ball)
        BY <1>4, <2>1, <3>1
      <4> QED
        BY <2>1, <2>2, <4>1, <4>2, <4>3, ToldBall
    <3>2. CASE ev.event # "ball"
      <4>1. Same(c, e)
        BY <2>1, <3>2 DEF Plays
      <4>2. After(K) = Before(K)
        BY <1>5, <3>2
      <4> QED
        BY <2>2, <4>1, <4>2, ToldSame
    <3> QED
      BY <3>1, <3>2
  <2>4. K = 2 => q.book[1] = r.book[1] /\ After(1) = Before(1) /\ Told(r.book[1], Before(1), over, by, con)
    BY <1>5, <1>7, <1>13
  <2>5. \A k \in 1..K : k = K \/ (K = 2 /\ k = 1)
    BY <2>1
  <2>6. \A k \in 1..Len(q.book) : Told(q.book[k], After(k), over, by, con)
    BY <1>13, <2>3, <2>4, <2>5
  <2>7. ASSUME K = 2 PROVE \A m \in After(2) : g[m - 1].book[2].total <= q.book[1].total
    <3>1. ASSUME ev.event = "ball" PROVE r.book[2].total <= r.book[1].total
      <4>1. ~Complete(r.book[2]) /\ r.book[2].target = r.book[1].total + 1
        BY <1>3, <2>1, <2>7, <3>1 DEF Plays, GoodBook
      <4>2. r.book[1].total \in Nat /\ r.book[2].total \in Nat
        BY <1>3, <2>7 DEF GoodBook, Right, InningsRec
      <4> QED
        BY <4>1, <4>2 DEF Complete, NoTarget
    <3> SUFFICES ASSUME NEW m \in After(2) PROVE g[m - 1].book[2].total <= r.book[1].total
      BY <1>13, <2>7
    <3>2. m \in Before(2) \/ (m = n + 1 /\ ev.event = "ball")
      BY <1>5
    <3>3. CASE m \in Before(2)
      BY <1>8, <2>7, <3>3
    <3>4. CASE m = n + 1 /\ ev.event = "ball"
      <4>1. g[m - 1] = r
        BY <1>0, <3>4 DEF r
      <4> QED
        BY <3>1, <3>4, <4>1
    <3> QED
      BY <3>2, <3>3, <3>4
  <2> QED
    BY <1>13, <2>1, <2>6, <2>7
<1> QED
  BY <1>1, <1>2, <1>11, <1>12, <1>13 DEF Goes

LEMMA TellsIt ==
  ASSUME NEW log \in Seq(Events), NEW g, Follow(log, g), \A m \in 0..Len(log) : g[m].ok
  PROVE  TellsAll(log, g, Len(log))
<1> DEFINE Done == {n \in Nat : n <= Len(log) => TellsAll(log, g, n)}
<1>1. 0 \in Done
  BY TellsStart
<1>2. ASSUME NEW n \in Nat, n \in Done PROVE n + 1 \in Done
  <2> SUFFICES ASSUME n + 1 <= Len(log) PROVE TellsAll(log, g, n + 1)
    OBVIOUS
  <2>1. n <= Len(log) /\ Len(log) \in Nat
    OBVIOUS
  <2>2. TellsAll(log, g, n)
    BY <1>2, <2>1
  <2> QED
    BY <2>2, TellsOn
<1>3. Len(log) \in Nat /\ Len(log) <= Len(log)
  OBVIOUS
<1> HIDE DEF Done
<1>4. Len(log) \in Done
  BY <1>1, <1>2, <1>3, SetInduction
<1> QED
  BY <1>3, <1>4 DEF Done

-----------------------------------------------------------------------------
(* The session. *)

\* What a log that the session or the file may hold is like: all of it reads, and while nothing has been
\* edited every event of it is one that the book as it was then accepts.
Fit(log, ed) ==
    /\ log \in Seq(Events) /\ Rebuild(log).ok
    /\ ~ed => Strict(log)

SessionInv ==
    /\ sess # None => Fit(sess.events, edited) /\ sess.book = Rebuild(sess.events).book
    /\ file # NoFile => Fit(file, edited)
    /\ edited \in BOOLEAN

\* A log is strict if it is along the way that its replay goes.
LEMMA StrictIs ==
  ASSUME NEW log \in Seq(Events), NEW g, Follow(log, g)
  PROVE  Strict(log) <=> \A n \in 1..Len(log) : Accepts(g[n - 1].book, log[n])
<1>1. DOMAIN log = 1..Len(log) /\ Len(log) \in Nat
  OBVIOUS
<1>2. \A n \in 1..Len(log) : Rebuild(SubSeq(log, 1, n - 1)) = g[n - 1]
  <2> SUFFICES ASSUME NEW n \in 1..Len(log) PROVE Rebuild(SubSeq(log, 1, n - 1)) = g[n - 1]
    OBVIOUS
  <2>1. n - 1 \in 0..Len(log)
    BY <1>1
  <2> QED
    BY <2>1, RebuildOfPrefix
<1> QED
  BY <1>1, <1>2 DEF Strict

LEMMA FitNone == \A ed : Fit(<<>>, ed)
  BY RebuildOfNone DEF Fit, Strict

\* A press that is accepted, and an undo, keep a log fit.
LEMMA FitAppend ==
  ASSUME NEW log, NEW ed, Fit(log, ed), NEW ev \in Events, Accepts(Rebuild(log).book, ev)
  PROVE  /\ Fit(Append(log, ev), ed)
         /\ Rebuild(Append(log, ev)).book = Effect(Rebuild(log).book, ev)
<1> DEFINE r == Rebuild(log)
           long == Append(log, ev)
<1>1. log \in Seq(Events) /\ r.ok /\ Len(log) \in Nat
  BY DEF Fit
<1>2. PICK h : Follow(log, h)
  BY <1>1, RebuildFollows
<1>3. r = h[Len(log)] /\ r \in Replays
  BY <1>1, <1>2, RebuildIs
<1>4. /\ long \in Seq(Events) /\ Len(long) = Len(log) + 1 /\ long[Len(log) + 1] = ev
      /\ \A k \in 1..Len(log) : long[k] = log[k]
  BY <1>1
<1>5. Rebuild(long) = ReplayOne(r, ev)
  BY <1>1, RebuildOfAppend
<1> HIDE DEF long
<1>6. PICK g : Follow(long, g)
  BY <1>4, RebuildFollows
<1>7. \A k \in 0..Len(log) : g[k] = h[k]
  BY <1>1, <1>2, <1>4, <1>6, FollowsAgree
<1>8. ReplayOne(r, ev) = [r EXCEPT !.book = Effect(r.book, ev)]
  <2>1. ~(ev.event = "start_innings" /\ Len(r.book) = 1 /\ ~Complete(Current(r.book)))
    BY DEF Accepts
  <2> HIDE DEF r
  <2> QED
    BY <1>1, <2>1 DEF ReplayOne, r
<1>9. Rebuild(long).ok /\ Rebuild(long).book = Effect(r.book, ev)
  <2> HIDE DEF r
  <2>1. r \in [book : Seq(InningsRec), ok : BOOLEAN]
    BY <1>3 DEF Replays
  <2> QED
    BY <1>1, <1>5, <1>8, <2>1
<1>10. ASSUME ~ed PROVE Strict(long)
  <2>1. \A n \in 1..Len(log) : Accepts(h[n - 1].book, log[n])
    BY <1>1, <1>2, <1>10, StrictIs DEF Fit
  <2>2. ASSUME NEW n \in 1..Len(long) PROVE Accepts(g[n - 1].book, long[n])
    <3>1. CASE n \in 1..Len(log)
      <4>1. n - 1 \in 0..Len(log)
        BY <1>1, <3>1
      <4> QED
        BY <1>4, <1>7, <2>1, <3>1, <4>1
    <3>2. CASE n = Len(log) + 1
      <4>1. n - 1 = Len(log) /\ n - 1 \in 0..Len(log)
        BY <1>1, <3>2
      <4>2. g[n - 1] = r /\ long[n] = ev
        BY <1>3, <1>4, <1>7, <3>2, <4>1
      <4> QED
        BY <4>2 DEF r
    <3> QED
      BY <1>1, <1>4, <3>1, <3>2
  <2> QED
    BY <1>4, <1>6, <2>2, StrictIs
<1> QED
  BY <1>4, <1>9, <1>10 DEF Fit, long, r

LEMMA FitFront ==
  ASSUME NEW log, NEW ed, Fit(log, ed), log # <<>>
  PROVE  Fit(Front(log), ed)
<1> DEFINE n == Len(log) - 1
           short == SubSeq(log, 1, n)
<1>1. log \in Seq(Events) /\ Len(log) \in Nat /\ n \in 0..Len(log) /\ Rebuild(log).ok
  BY DEF Fit
<1>2. PICK g : Follow(log, g)
  BY <1>1, RebuildFollows
<1>3. short \in Seq(Events) /\ Len(short) = n /\ Rebuild(short) = g[n]
  BY <1>1, <1>2, RebuildOfPrefix
<1>4. \A k \in 1..n : short[k] = log[k]
  BY <1>1
<1>5. Front(log) = short
  BY DEF Front
<1> HIDE DEF short
<1>6. g[n].ok
  <2>1. g[Len(log)].ok
    BY <1>1, <1>2, RebuildIs
  <2> QED
    BY <1>1, <1>2, <2>1, AllOfItIsRead
<1>7. PICK h : Follow(short, h)
  BY <1>3, RebuildFollows
<1>8. \A k \in 0..n : g[k] = h[k]
  <2>1. n \in Nat /\ n <= Len(log) /\ n <= Len(short)
    BY <1>1, <1>3
  <2> HIDE DEF n
  <2> QED
    BY <1>1, <1>2, <1>3, <1>4, <1>7, <2>1, FollowsAgree
<1>9. ASSUME ~ed PROVE Strict(short)
  <2>1. \A k \in 1..Len(log) : Accepts(g[k - 1].book, log[k])
    BY <1>1, <1>2, <1>9, StrictIs DEF Fit
  <2>2. ASSUME NEW k \in 1..n PROVE Accepts(h[k - 1].book, short[k])
    <3>1. k \in 1..Len(log) /\ k - 1 \in 0..n
      BY <1>1
    <3> QED
      BY <1>4, <1>8, <2>1, <3>1
  <2> QED
    BY <1>3, <1>7, <2>2, StrictIs
<1> QED
  BY <1>3, <1>5, <1>6, <1>9 DEF Fit

\* The session that a handler finds.
LEMMA NowIs ==
  ASSUME SessionInv, SessionNow # None
  PROVE  Fit(SessionNow.events, edited) /\ SessionNow.book = Rebuild(SessionNow.events).book
<1>1. CASE SessionNow = sess
  BY <1>1 DEF SessionInv
<1>2. CASE file # NoFile /\ SessionNow = [events |-> file, book |-> Rebuild(file).book]
  BY <1>2 DEF SessionInv
<1> QED
  BY <1>1, <1>2 DEF SessionNow

\* What an action leaves in memory and in the file.
LEMMA Leaves ==
  ASSUME NEW log, NEW book, SessionInv, edited' \in BOOLEAN, edited => edited', Fit(log, edited'),
         book = Rebuild(log).book,
         sess' = [events |-> log, book |-> book], file' = log \/ file' = file
  PROVE  SessionInv'
<1>1. file # NoFile => Fit(file, edited')
  BY DEF SessionInv, Fit
<1>2. file' # NoFile => Fit(file', edited')
  BY <1>1
<1>3. sess'.events = log /\ sess'.book = book
  OBVIOUS
<1> QED
  BY <1>2, <1>3 DEF SessionInv

LEMMA SessionStarts == Init => SessionInv
  BY DEF Init, SessionInv

LEMMA SessionKeeps == SessionInv /\ [Next]_vars => SessionInv'
<1> SUFFICES ASSUME SessionInv, [Next]_vars PROVE SessionInv'
  OBVIOUS
<1>0. edited \in BOOLEAN /\ (file # NoFile => Fit(file, edited))
  BY DEF SessionInv
<1>1. ASSUME NEW force \in BOOLEAN, Setup(force) PROVE SessionInv'
  <2>1. sess' = [events |-> <<>>, book |-> NewBook] /\ edited' = edited /\ (file' = <<>> \/ file' = file)
    BY <1>1 DEF Setup, Save, Writes
  <2>2. NewBook = Rebuild(<<>>).book
    BY RebuildOfNone
  <2> QED
    BY <1>0, <2>1, <2>2, FitNone, Leaves
<1>2. CASE Look
  <2>1. sess' = SessionNow /\ file' = file /\ edited' = edited
    BY <1>2 DEF Look
  <2> QED
    BY <1>0, <2>1, NowIs DEF SessionInv
<1>3. ASSUME NEW ev \in Events, Apply(ev) PROVE SessionInv'
  <2> DEFINE s == SessionNow
             log == Append(s.events, ev)
             book == Effect(s.book, ev)
  <2>1. /\ s # None /\ Accepts(s.book, ev) /\ sess' = [events |-> log, book |-> book]
        /\ edited' = edited /\ (file' = sess'.events \/ file' = file)
    BY <1>3 DEF Apply, Save, Writes
  <2>2. Fit(s.events, edited) /\ s.book = Rebuild(s.events).book
    BY <2>1, NowIs
  <2>3. Fit(log, edited) /\ book = Rebuild(log).book
    BY <2>1, <2>2, FitAppend
  <2>4. file' = log \/ file' = file
    BY <2>1
  <2> HIDE DEF log, book
  <2> QED
    BY <1>0, <2>1, <2>3, <2>4, Leaves
<1>4. CASE Undo
  <2> DEFINE s == SessionNow
             log == Front(s.events)
             book == Rebuild(log).book
  <2>1. /\ s # None /\ s.events # <<>> /\ sess' = [events |-> log, book |-> book]
        /\ edited' = edited /\ (file' = sess'.events \/ file' = file)
    BY <1>4 DEF Undo, Save, Writes
  <2>2. Fit(log, edited)
    BY <2>1, NowIs, FitFront
  <2>3. file' = log \/ file' = file
    BY <2>1
  <2>4. book = Rebuild(log).book
    OBVIOUS
  <2> HIDE DEF log, book
  <2> QED
    BY <1>0, <2>1, <2>2, <2>3, <2>4, Leaves
<1>5. ASSUME NEW i \in 1..MaxEvents, NEW ball \in Balls, EditBall(i, ball) PROVE SessionInv'
  <2> DEFINE s == SessionNow
             ev == [event |-> "ball", ball |-> ball]
             log == [s.events EXCEPT ![i] = ev]
  <2>1. s # None /\ i \in DOMAIN s.events
    BY <1>5 DEF EditBall, Editable
  <2>2. Fit(s.events, edited) /\ s.events \in Seq(Events)
    BY <2>1, NowIs DEF Fit
  <2>3. log \in Seq(Events)
    <3>1. ev \in Events
      BY DEF Events
    <3> HIDE DEF ev, s
    <3> QED
      BY <2>1, <2>2, <3>1
  <2>4. \/ /\ Rebuild(log).ok /\ sess' = [events |-> log, book |-> Rebuild(log).book]
           /\ (file' = sess'.events \/ file' = file) /\ edited' = TRUE
        \/ /\ sess' = [events |-> s.events, book |-> Rebuild(s.events).book]
           /\ file' = file /\ edited' = edited
    BY <1>5 DEF EditBall, Save, Writes
  <2> HIDE DEF log
  <2>5. CASE Rebuild(log).ok /\ sess' = [events |-> log, book |-> Rebuild(log).book]
             /\ (file' = sess'.events \/ file' = file) /\ edited' = TRUE
    <3>1. Fit(log, edited') /\ (file' = log \/ file' = file) /\ edited' \in BOOLEAN
      BY <2>3, <2>5 DEF Fit
    <3> QED
      BY <2>5, <3>1, Leaves
  <2>6. CASE sess' = [events |-> s.events, book |-> Rebuild(s.events).book]
             /\ file' = file /\ edited' = edited
    <3> DEFINE old == s.events
    <3>1. sess' = [events |-> old, book |-> Rebuild(old).book] /\ Fit(old, edited')
      BY <2>2, <2>6
    <3> HIDE DEF old
    <3> QED
      BY <1>0, <2>6, <3>1, Leaves
  <2> QED
    BY <2>4, <2>5, <2>6
<1>6. CASE Reset
  <2>1. sess' = None /\ edited' = edited /\ (file' = NoFile \/ file' = file)
    BY <1>6 DEF Reset, Writes
  <2> QED
    BY <1>0, <2>1 DEF SessionInv
<1>7. CASE Restart
  <2>1. sess' = None /\ edited' = edited /\ file' = file
    BY <1>7 DEF Restart
  <2> QED
    BY <1>0, <2>1 DEF SessionInv
<1>8. CASE UNCHANGED vars
  BY <1>8 DEF vars, SessionInv
<1> QED
  BY <1>1, <1>2, <1>3, <1>4, <1>5, <1>6, <1>7, <1>8 DEF Next

\* The session's invariant is inductive, and holds.
LEMMA SessionHolds == Spec => []SessionInv
  BY SessionStarts, SessionKeeps, PTL DEF Spec

\* The book on screen, then, is a good one, and all of its log was read.
LEMMA OnScreen ==
  ASSUME SessionInv, sess # None
  PROVE  /\ Rebuild(sess.events) = [book |-> sess.book, ok |-> TRUE]
         /\ GoodBook(sess.book)
<1>1. sess.events \in Seq(Events) /\ Rebuild(sess.events).ok /\ sess.book = Rebuild(sess.events).book
  BY DEF SessionInv, Fit
<1>2. Rebuild(sess.events) \in Replays
  BY <1>1, RebuildFollows, RebuildIs
<1> DEFINE r == Rebuild(sess.events)
<1> HIDE DEF r
<1>3. r \in [book : Seq(InningsRec), ok : BOOLEAN] /\ GoodBook(r.book)
  BY <1>2 DEF Replays, r
<1> QED
  BY <1>1, <1>3 DEF r

\* The book shown and the log agree, and what was saved restores: after any presses, undos, edits accepted
\* or refused, failed saves and restarts of the server, the book on screen is the replay of its log, so an
\* undo leaves the book as if the button had never been pressed, and the file never becomes unreadable.
THEOREM BookIsAlwaysReplay == Spec => []BookIsReplay
<1>1. SessionInv => BookIsReplay
  <2> SUFFICES ASSUME SessionInv PROVE BookIsReplay
    OBVIOUS
  <2>1. SavedMatchRestores
    BY DEF SessionInv, Fit, SavedMatchRestores
  <2>2. sess # None => (~edited => Strict(sess.events))
    BY DEF SessionInv, Fit
  <2> QED
    BY <2>1, <2>2, OnScreen DEF BookIsReplay
<1> QED
  BY <1>1, SessionHolds, PTL

\* The figures of every innings in the book agree with one another and with who is in and who is out, through
\* every delivery, wicket, over end, mid-over change of bowler, chosen batter, undo, edit and restart.
THEOREM BooksAlwaysBalance == Spec => []BooksBalance
<1>1. SessionInv => BooksBalance
  <2> SUFFICES ASSUME SessionInv, NEW k \in DOMAIN sess.book
               PROVE  InningsBalances(sess.book[k]) /\ PairAtCrease(sess.book[k])
    BY DEF BooksBalance
  <2>1. sess # None
    BY DEF None
  <2>2. GoodBook(sess.book)
    BY <2>1, OnScreen
  <2>3. Right(sess.book[k])
    BY <2>2 DEF GoodBook
  <2> QED
    BY <2>3, RightBalances
<1> QED
  BY <1>1, SessionHolds, PTL

\* A maiden in the book is a whole over by one bowler with nothing conceded, counted from the log ball by
\* ball, and the chase is against the first innings as the book has it and no ball follows its being won.
THEOREM FiguresAreAlwaysHonest == Spec => []FiguresAreHonest
<1>1. SessionInv => FiguresAreHonest
  <2> SUFFICES ASSUME SessionInv PROVE FiguresAreHonest
    OBVIOUS
  <2>1. CASE sess = None
    <3>1. sess.book = <<>> /\ DOMAIN sess.book = {} /\ Len(sess.book) # 2
      BY <2>1 DEF None
    <3>2. MaidensAreEarned
      BY <3>1 DEF MaidensAreEarned
    <3>3. ChaseIsHonest
      BY <3>1 DEF ChaseIsHonest
    <3> QED
      BY <3>2, <3>3 DEF FiguresAreHonest
  <2>2. CASE sess # None
    <3> DEFINE log == sess.events
               n == Len(log)
    <3>1. /\ log \in Seq(Events) /\ n \in Nat /\ DOMAIN log = 1..n
          /\ Rebuild(log) = [book |-> sess.book, ok |-> TRUE] /\ GoodBook(sess.book)
      <4>1. log \in Seq(Events)
        BY <2>2 DEF SessionInv, Fit
      <4> QED
        BY <2>2, <4>1, OnScreen
    <3>2. PICK g : Follow(log, g)
      BY <3>1, RebuildFollows
    <3>3. g[n] = Rebuild(log) /\ g[n].book = sess.book /\ g[n].ok
      BY <3>1, <3>2, RebuildIs
    <3>4. TellsAll(log, g, n)
      BY <3>1, <3>2, <3>3, AllOfItIsRead, TellsIt
    <3>5. BooksPlayed = [m \in 0..n |-> g[m].book]
      BY <3>1, <3>2, RebuildOfPrefix DEF BooksPlayed
    <3> DEFINE books == BooksPlayed
    <3> HIDE DEF n
    <3>6. \A m \in 1..n : books[m - 1] = g[m - 1].book
      BY <3>1, <3>5
    <3> HIDE DEF books
    <3>7. \A k : BallsOf(books, k) = LogBalls(log, g, n, k)
      BY <3>1, <3>6 DEF BallsOf, LogBalls
    <3> HIDE DEF log
    <3>8. MaidensAreEarned
      <4> DEFINE Over(m) == CurrentOverNo(Current(books[m - 1]))
                 By(m) == BowlerForOver(Current(books[m - 1]), Over(m))
                 Earned(k, w, o) == \A m \in BallsOf(books, k) : Over(m) = o =>
                                        By(m) = w /\ Conceded(log[m].ball) = 0
      <4>1. ASSUME NEW k \in DOMAIN sess.book, NEW w \in Bowlers
            PROVE  sess.book[k].bowl[w].maidens =
                      Cardinality({o \in 0..CurrentOverNo(sess.book[k]) - 1 : Earned(k, w, o)})
        <5> DEFINE B == LogBalls(log, g, n, k)
        <5>1. k \in 1..Len(g[n].book) /\ sess.book[k] = g[n].book[k]
          BY <3>1, <3>3 DEF GoodBook
        <5>2. Told(sess.book[k], B, OverOf(log, g), BowlerOf(log, g), GivenIn(log))
          BY <3>4, <5>1 DEF TellsAll
        <5>3. \A m \in B : /\ OverOf(log, g)[m] = Over(m) /\ BowlerOf(log, g)[m] = By(m)
                           /\ GivenIn(log)[m] = Conceded(log[m].ball)
          <6> SUFFICES ASSUME NEW m \in B
                       PROVE  /\ OverOf(log, g)[m] = Over(m) /\ BowlerOf(log, g)[m] = By(m)
                              /\ GivenIn(log)[m] = Conceded(log[m].ball)
            OBVIOUS
          <6>1. m \in 1..n /\ log[m].event = "ball" /\ m \in 1..Len(log)
            BY DEF LogBalls, n
          <6>2. books[m - 1] = g[m - 1].book
            BY <3>6, <6>1
          <6> QED
            BY <6>1, <6>2 DEF OverOf, BowlerOf, GivenIn
        <5>4. BallsOf(books, k) = B
          BY <3>7
        <5> HIDE DEF B, Over, By
        <5>5. \A o : Earned(k, w, o) <=> EarnedBy(B, OverOf(log, g), BowlerOf(log, g), GivenIn(log), w, o)
          BY <5>3, <5>4 DEF EarnedBy
        <5> HIDE DEF Earned
        <5> QED
          BY <5>2, <5>5 DEF Told
      <4> QED
        BY <4>1 DEF MaidensAreEarned, books, log
    <3>9. ASSUME Len(sess.book) = 2
          PROVE  /\ Complete(sess.book[1]) /\ sess.book[2].target = sess.book[1].total + 1
                 /\ \A m \in BallsOf(books, 2) : books[m - 1][2].total <= sess.book[1].total
      <4>1. Complete(sess.book[1]) /\ sess.book[2].target = sess.book[1].total + 1
        BY <3>1, <3>9 DEF GoodBook
      <4>2. \A m \in LogBalls(log, g, n, 2) : g[m - 1].book[2].total <= sess.book[1].total
        BY <3>3, <3>4, <3>9 DEF TellsAll
      <4>3. \A m \in LogBalls(log, g, n, 2) : m \in 1..n
        BY DEF LogBalls
      <4> QED
        BY <3>6, <3>7, <4>1, <4>2, <4>3
    <3>10. ChaseIsHonest
      BY <3>9 DEF ChaseIsHonest, books
    <3> QED
      BY <3>8, <3>10 DEF FiguresAreHonest
  <2> QED
    BY <2>1, <2>2
<1> QED
  BY <1>1, SessionHolds, PTL
=============================================================================
