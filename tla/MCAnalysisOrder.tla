-------------------------- MODULE MCAnalysisOrder --------------------------
(***************************************************************************)
(* Small instances of AnalysisOrder: all netlists of five analyses with    *)
(* up to three sweeps, in every order and with every choice of what the    *)
(* sweeps name.  The names of the sweeps and those of the other analyses   *)
(* do not matter, so they appear in a fixed order in the file.             *)
(***************************************************************************)
EXTENDS AnalysisOrder, SequencesExt

CONSTANTS dc, ac, tr, sw1, sw2, sw3

MCPlain == {ac, tr}
MCSweep == {sw1, sw2, sw3}
MCPoints == [s \in MCSweep |-> IF s = sw2 THEN 3 ELSE 2]

Before(f, a, b) ==
  \A i, j \in DOMAIN f : f[i] = a /\ f[j] = b => i < j

Ordered(f) == Before(f, ac, tr) /\ Before(f, sw1, sw2) /\ Before(f, sw1, sw3)
              /\ Before(f, sw2, sw3)

Chains(S) == {f \in SetToSeqs(S) : Ordered(f)}

MCFiles == UNION {Chains(S) : S \in {{dc, ac, sw1, sw2, sw3}, {dc, ac, tr, sw1, sw2},
                                     {ac, sw1, sw2, sw3}}}
=============================================================================
