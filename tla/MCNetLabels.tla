---------------------------- MODULE MCNetLabels ----------------------------
(***************************************************************************)
(* Small instances of NetLabels: four nodes in a square with a ground      *)
(* symbol at the last one, and the same with a fifth node to its right.    *)
(***************************************************************************)
EXTENDS NetLabels, TLC

CONSTANTS top, left, right, bottom, tail, gnd4

MCSquare == <<1, 2, 3, 4>>
MCFive == <<1, 2, 3, 4, 5>>
MCFour == {top, left, right, bottom}
MCWithTail == MCFour \cup {tail}
MCFrom == (top :> 1 @@ left :> 1 @@ right :> 2 @@ bottom :> 3 @@ tail :> 4)
MCTo == (top :> 2 @@ left :> 3 @@ right :> 4 @@ bottom :> 4 @@ tail :> 5)
MCSquareFrom == [w \in MCFour |-> MCFrom[w]]
MCSquareTo == [w \in MCFour |-> MCTo[w]]
MCGround == {gnd4}
MCPlace == [g \in MCGround |-> 4]
MCNoGround == {}
MCNoPlace == <<>>
MCLabelText == {<<"out", TRUE>>, <<"gnd", FALSE>>, <<"", TRUE>>}
MCTwoNames == {<<"out", FALSE>>, <<"in", FALSE>>}
=============================================================================
