----------------------------- MODULE StateRing -----------------------------
(***************************************************************************)
(* The save-state variables of integrators and of the transient solver: a  *)
(* ring of STATE_NUM values and the place of the current one.  A higher    *)
(* position means an earlier state.  Source: qucs-core/src/states.cpp.     *)
(***************************************************************************)
EXTENDS Naturals

CONSTANT STATE_NUM  \* length of the ring, 8 in the code

ASSUME StateNumAssumption == STATE_NUM \in Nat /\ STATE_NUM >= 3

Positions == 0 .. STATE_NUM - 1

Ring(Values) == [val : [Positions -> Values], at : Positions]

\* The slot of position n: (n + currentstate) & STATE_MASK.
Slot(ring, n) ==
  IF ring.at + n < STATE_NUM THEN ring.at + n ELSE ring.at + n - STATE_NUM

GetState(ring, n) == ring.val[Slot(ring, n)]

SetState(ring, v, n) ==
  [val |-> [ring.val EXCEPT ![Slot(ring, n)] = v], at |-> ring.at]

\* A plausible slip: the ring turns the other way.
NextStateUp(ring) ==
  [val |-> ring.val, at |-> IF ring.at + 1 = STATE_NUM THEN 0 ELSE ring.at + 1]

NextState(ring) ==
  [val |-> ring.val, at |-> IF ring.at = 0 THEN STATE_NUM - 1 ELSE ring.at - 1]

\* Every slot has the value v, and the place stays.
FillState(ring, v) == [val |-> [i \in Positions |-> v], at |-> ring.at]

\* A ring behind initStates and fillState.
Filled(v) == [val |-> [i \in Positions |-> v], at |-> 0]
=============================================================================
