------------------------------- MODULE Stacking ------------------------------
(***************************************************************************)
(* The order of the sources in one scene of OBS (placement.go): OBS puts each *)
(* new source on top of the rest, and a camera above the graphics hides them. *)
(* Setup moves what covers the graphic below it (setup.go), the panel's Add    *)
(* camera places the new camera (obsops.go arrangeCameraItem); both ask OBS    *)
(* for the list and then move by an index of it, and may run at once.         *)
(***************************************************************************)
EXTENDS SequencesExt

CONSTANTS
    Graphic,     \* the scene's Overlay or ReplayClip
    Pictures,    \* the cameras and videos already there
    Logos,       \* anything else a club has put there
    NewCamera,   \* the camera being added
    MaxTouches   \* bound on what people do to the scene

VARIABLES
    items,       \* the sources, the bottom one first
    home,        \* the scene is the new camera's own
    setup,       \* [at, seen: the list it was given, passes: left to it]
    add,         \* [at, seen, fresh: it has just been put there]
    before,      \* the scene as people left it
    refused,     \* OBS has refused one of them something
    together,    \* one has begun while the other was under way
    touches

vars == <<items, home, setup, add, before, refused, together, touches>>

Rest == [at |-> "no", seen |-> <<>>, passes |-> 0]
Still == {"no", "done"}
Out == [at |-> "no", seen |-> <<>>, fresh |-> FALSE]
IsPicture(i) == i \in Pictures \union {NewCamera}

Init ==
    /\ \E s \in SUBSET (Pictures \union Logos \union {Graphic}) : items \in SetToSeqs(s)
    /\ home \in BOOLEAN
    /\ setup = Rest /\ add = Out /\ before = items /\ refused = FALSE
    /\ together = FALSE /\ touches = 0

Index(list, i) == CHOOSE n \in DOMAIN list : list[n] = i
Has(list, i) == i \in ToSet(list)

\* SetSceneItemIndex: to the n-th place, of what is left without it.
Moved(i, n) ==
    LET rest == SelectSeq(items, LAMBDA j : j # i)
    IN IF n > Len(rest) + 1 THEN items ELSE InsertAt(rest, n, i)

\* What OBS may refuse is left as it is.
Move(i, n) ==
    \/ items' = Moved(i, n) /\ UNCHANGED refused
    \/ UNCHANGED items /\ refused' = TRUE

-----------------------------------------------------------------------------
(* Setup: one camera a pass, and the list is read again after each.            *)

\* Mutant: the highest of them first.
CoveringHighest(list) ==
    Reverse(SelectSeq(list, LAMBDA i : IsPicture(i) /\ Index(list, i) > Index(list, Graphic)))

\* CoveringPictures: lowest first.
CoveringPictures(list) ==
    SelectSeq(list, LAMBDA i : IsPicture(i) /\ Index(list, i) > Index(list, Graphic))

SetupBegins ==
    /\ setup.at = "no" /\ Has(items, Graphic)
    /\ setup' = [at |-> "move", seen |-> items, passes |-> Len(items)]
    /\ together' = (together \/ add.at \notin Still)
    /\ UNCHANGED <<items, home, add, before, refused, touches>>

SetupMoves ==
    /\ setup.at = "move" /\ setup.passes > 0 /\ CoveringPictures(setup.seen) # <<>>
    /\ Move(CoveringPictures(setup.seen)[1], Index(setup.seen, Graphic))
    /\ setup' = [setup EXCEPT !.at = "read", !.passes = @ - 1]
    /\ UNCHANGED <<home, add, before, together, touches>>

\* GetSceneItemList: a list that does not come is an empty one.
Listed(list) ==
    \/ list = items /\ UNCHANGED refused
    \/ list = <<>> /\ refused' = TRUE

SetupReads ==
    /\ setup.at = "read"
    /\ \E list \in {items, <<>>} :
        Listed(list) /\ setup' = [setup EXCEPT !.at = "move", !.seen = list]
    /\ UNCHANGED <<items, home, add, before, together, touches>>

SetupEnds ==
    /\ setup.at = "move" /\ (setup.passes = 0 \/ CoveringPictures(setup.seen) = <<>>)
    /\ setup' = [Rest EXCEPT !.at = "done"]
    /\ UNCHANGED <<items, home, add, before, refused, together, touches>>

-----------------------------------------------------------------------------
(* Add camera.                                                               *)

\* OBS puts it on top; one that is there already keeps its place.
AddBegins ==
    /\ add.at = "no"
    /\ IF Has(items, NewCamera) THEN UNCHANGED items ELSE items' = Append(items, NewCamera)
    /\ add' = [Out EXCEPT !.at = IF home THEN "overlay" ELSE "read", !.fresh = ~Has(items, NewCamera)]
    /\ together' = (together \/ setup.at \notin Still)
    /\ UNCHANGED <<home, setup, before, refused, touches>>

\* Its own scene gets the Overlay if it has none.
AddOverlay ==
    /\ add.at = "overlay" /\ add' = [add EXCEPT !.at = "read"]
    /\ \/ Has(items, Graphic) /\ UNCHANGED <<items, before, refused>>
       \/ /\ ~Has(items, Graphic) /\ items' = Append(items, Graphic)
          /\ before' = Append(before, Graphic) /\ UNCHANGED refused
       \/ ~Has(items, Graphic) /\ refused' = TRUE /\ UNCHANGED <<items, before>>
    /\ UNCHANGED <<home, setup, together, touches>>

AddReads ==
    /\ add.at = "read"
    /\ \E list \in {items, <<>>} :
        Listed(list) /\ add' = [add EXCEPT !.at = "place", !.seen = list]
    /\ UNCHANGED <<items, home, setup, before, together, touches>>

Covers == Has(add.seen, Graphic) /\ Index(add.seen, Graphic) < Index(add.seen, NewCamera)

\* Directly beneath the graphic, where it is the camera one sees; elsewhere at the bottom.
AddPlaces ==
    /\ add.at = "place" /\ add' = [Out EXCEPT !.at = "done"]
    /\ IF ~Has(add.seen, NewCamera) \/ (~add.fresh /\ ~Covers) THEN UNCHANGED <<items, refused>>
       ELSE IF ~home THEN Move(NewCamera, 1)
       ELSE IF Covers THEN Move(NewCamera, Index(add.seen, Graphic))
       ELSE UNCHANGED <<items, refused>>
    /\ UNCHANGED <<home, setup, before, together, touches>>

-----------------------------------------------------------------------------
(* People: between the two, never in the middle of one.                       *)

Touch ==
    /\ setup.at \in Still /\ add.at \in Still /\ touches < MaxTouches
    /\ \E i \in ToSet(items), n \in DOMAIN items : items' = Moved(i, n)
    /\ before' = items' /\ setup' = Rest /\ add' = Out /\ refused' = FALSE /\ together' = FALSE
    /\ touches' = touches + 1
    /\ UNCHANGED home

Next ==
    \/ SetupBegins \/ SetupMoves \/ SetupReads \/ SetupEnds
    \/ AddBegins \/ AddOverlay \/ AddReads \/ AddPlaces
    \/ Touch

Spec == Init /\ [][Next]_vars

Only(list, S) == SelectSeq(list, LAMBDA i : i \in S)

\* Whatever the order of the two: what a club has put above a graphic or beneath it stays there
\* ("an earlier version ... moved a club's two sponsor logos underneath its scorebar",
\* placement.go:15), cameras keep their order but where the two overlap, and once Setup has run,
\* and Add camera if it has begun, no camera covers the graphic unless OBS refused something.
LayoutIsRight ==
    /\ Only(items, Logos \union {Graphic}) = Only(before, Logos \union {Graphic})
    /\ ~together => Only(items, Pictures) = Only(before, Pictures)
    /\ setup.at = "done" /\ add.at \in Still /\ ~refused => CoveringPictures(items) = <<>>
==============================================================================
