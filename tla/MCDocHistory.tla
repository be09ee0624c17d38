--------------------------- MODULE MCDocHistory ---------------------------
(***************************************************************************)
(* Small instances of DocHistory.  Every variable ranges over a finite set *)
(* once the undo depth is bounded, so no other bound is needed; Nat of the *)
(* abstract Timeline is only tested for membership.                        *)
(***************************************************************************)
EXTENDS DocHistory, FiniteSets, TLC

CONSTANTS box, line, blank, grid1, grid2

MCArt == {box, line}
MCOneArt == {box}
MCDepths == {1, 3}
Symmetry == Permutations({grid1, grid2})
===========================================================================
