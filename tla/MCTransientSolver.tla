------------------------- MODULE MCTransientSolver -------------------------
(***************************************************************************)
(* Small instances of TransientSolver: three requested times, the largest  *)
(* step as long as the least distance, a ring of five for the order 3, and *)
(* estimates on both sides of every limit.                                 *)
(***************************************************************************)
EXTENDS TransientSolver

MCTimes == <<0, 12, 30>>
MCRaster == BOOLEAN
MCEstimates == {1, 4, 5, 7, 8, 10, 24}
MCLater == {2}
=============================================================================
