----------------------------- MODULE MCDcSolver -----------------------------
(***************************************************************************)
(* Small instances of DcSolver.  44 is the least MaxIter for which source  *)
(* stepping can end; the first steps are 8 of 40 units, so that they can   *)
(* be halved three times before the code gives up.                         *)
(***************************************************************************)
EXTENDS DcSolver

MCMatrix == {"regular", "singular"}
MCSometimes == {2, 3, 11, 12, 43, 44}
MCAnyHelper == Helper
MCDCDCTR == <<"DC", "DC", "TR">>
=============================================================================
