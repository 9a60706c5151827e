------------------------------- MODULE MCMatch -------------------------------
(* A match day: how it is started and stopped, the ball log it leaves behind, and *)
(* the scenes it puts on air.  They share no state: a behaviour is one of one of   *)
(* them, chosen at the start, and the others stay as they begin.                  *)
EXTENDS BallLog, OnAir, MatchDay

\* Small matches for the ball log: two-ball overs, three kinds of delivery.
CONSTANTS a, b

IdsAlike == Permutations({a, b})

Run == [runs |-> 1, wicket |-> FALSE, legal |-> TRUE]
Out == [runs |-> 0, wicket |-> TRUE, legal |-> TRUE]
Wide == [runs |-> 1, wicket |-> FALSE, legal |-> FALSE]

AllKinds == {Run, Out, Wide}

\* What the proofs take of the scenes' constants.
ASSUME Timed /\ OneLength /\ NamesApart

VARIABLE part

parts == <<part, vars, air, matchDay>>

PartsInit ==
    /\ part \in {"ball log", "pictures", "day"}
    /\ Init /\ AirInit /\ DayInit
    \* A part that stays begins in one way.
    /\ (part # "pictures" => ~sideOn)

Only(name) == part = name /\ UNCHANGED part

PartsNext ==
    \/ Only("ball log") /\ Next
       /\ UNCHANGED <<air, matchDay>>
    \/ Only("pictures") /\ AirNext
       /\ UNCHANGED <<vars, matchDay>>
    \/ Only("day") /\ DayNext
       /\ UNCHANGED <<vars, air>>

PartsSpec == PartsInit /\ [][PartsNext]_parts
==============================================================================
