------------------------------- MODULE Picture -------------------------------
(***************************************************************************)
(* What the actors that cut OBS's scene promise each other: nobody is in     *)
(* charge of the picture, so whoever moves it by itself must have looked     *)
(* first, and must have found no replay on air but its own.  People, and the *)
(* camera cuts they have planned, may cut at any time.                       *)
(***************************************************************************)
CONSTANTS Replays, Others, Scenes   \* who may take the picture; Others only give it back
VARIABLES
    scene,
    claim,     \* the replay on air, or "none"
    looked,    \* who has looked, and may act on it
    cutBy      \* who cut last

picture == <<scene, claim, looked, cutBy>>

Free(x) == claim \in {"none", x}

Init == scene = "main" /\ claim = "none" /\ looked = {} /\ cutBy = "people"

Look(x) == Free(x) /\ looked' = looked \cup {x} /\ UNCHANGED <<scene, claim, cutBy>>

\* A replay comes on, over whatever is there; the claim is the newest one's.
Take(r) == /\ scene' = "replay" /\ claim' \in Replays \cup {claim}
           /\ cutBy' \in {r, cutBy} /\ UNCHANGED looked

\* A cut nobody asked for, by one who has looked.
Move(x) ==
    /\ x \in looked /\ scene' \in Scenes /\ claim' = "none" /\ cutBy' = x
    /\ looked' \in {looked, looked \ {x}}

\* A replay has played, its picture still on; some are done with what they saw, or gone.
Forget == looked' \in SUBSET looked /\ claim' \in {claim, "none"} /\ UNCHANGED <<scene, cutBy>>

Asked == /\ scene' \in Scenes /\ claim' = "none" /\ cutBy' = "people"
         /\ looked' \in SUBSET looked

Next ==
    \/ Forget \/ Asked
    \/ \E r \in Replays : Take(r)
    \/ \E x \in Replays \cup Others : Look(x) \/ Move(x)

Spec == Init /\ [][Next]_picture
==============================================================================
