----------------------------- MODULE MCDocTabs -----------------------------
(***************************************************************************)
(* A small instance of DocTabs: documents are interchangeable; the two     *)
(* names are data displays of each other, and the first has a file.        *)
(***************************************************************************)
EXTENDS DocTabs, TLC

CONSTANTS d1, d2, d3, sch, dpl, blank, drawn, none

MCTwoDocs == {d1, d2}
MCThreeDocs == {d1, d2, d3}
MCName == {sch, dpl}
MCDisplay == sch :> dpl @@ dpl :> sch
MCFirstFiles == sch :> drawn @@ dpl :> none
MCFails == {"save", "load", "erase"}
MCNoFails == {}
MCNever == {FALSE}
DocSymmetry == Permutations(Doc)
=============================================================================
