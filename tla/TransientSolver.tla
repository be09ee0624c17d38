--------------------------- MODULE TransientSolver ---------------------------
(***************************************************************************)
(* The transient analysis: steps of varying length and integrators of      *)
(* varying order, steps that are taken back because the circuit does not   *)
(* converge or because the truncation error asks for a shorter one, and    *)
(* the results saved at the requested times.                               *)
(* Source: qucs-core/src trsolver.cpp, history.cpp, transient.cpp,         *)
(* integrator.cpp; the rings of the last states are those of StateRing.    *)
(*                                                                         *)
(* A step is one pass through the inner loop of trsolver::solve.  Times    *)
(* are integers: a step forth and back is exact, but for the one place     *)
(* where its rounding decides, the test of updateHistory behind a rejected *)
(* step, which may turn out either way.  Of a solution the model knows its *)
(* time and how it came about.  The initial DC analysis is in DcSolver;    *)
(* TRInit is the state behind it.                                          *)
(***************************************************************************)
EXTENDS Integers, Sequences, StateRing

CONSTANTS Times,      \* the requested times
          FirstStep,  \* a tenth of InitialStep
          DeltaMin, DeltaMax,
          MaxOrder,   \* corrMaxOrder
          Calm,       \* passes without trouble before times are met exactly: 64
          Raster,     \* values of the property "relaxTSR"
          Estimates,  \* steps the truncation error may ask for
          Solvable,   \* a step this short always converges
          Fragile     \* values of running at which a longer one may not

ASSUME TimesAssumption ==
  /\ Times \in Seq(Nat) /\ Times # <<>>
  /\ \A i, j \in DOMAIN Times : i < j => Times[i] < Times[j]
ASSUME DeltaAssumption ==
  /\ {FirstStep, DeltaMin, DeltaMax} \subseteq Nat \ {0}
  /\ DeltaMin <= DeltaMax /\ 10 * FirstStep <= DeltaMax
ASSUME OrderAssumption == MaxOrder \in 1 .. STATE_NUM - 2
ASSUME CalmAssumption == Calm \in Nat /\ Raster \subseteq BOOLEAN
ASSUME CircuitAssumption ==
  Estimates \subseteq Nat \ {0} /\ Solvable \in Nat /\ Fragile \subseteq 0 .. 2

VARIABLES stage,       \* "time", "step", "save", "done" or "failed"
          relaxTSR,
          point,       \* index of the requested time
          current,     \* the time to solve
          saveCurrent, \* the last time solved
          delta,       \* the step to the current time
          stepDelta,   \* the step behind an exact one, -1 if there is none
          corrOrder,
          passes,      \* the number of passes, modulo 2
          running,     \* passes that came to their end, up to 2
          converged,   \* of these since the last trouble, up to Calm + 1
          statConvergence, \* whether any pass did not converge
          convError, trHelper,
          x,           \* the solution vector
          deltas,      \* the ring dState
          solution,    \* the ring SOL
          charges,     \* the ring of an integrator, by the times of its states
          tHistory     \* the last entry of the histories: its time, whose solution
                       \* it holds, and (history variable) the last one that was
                       \* entered because its time was new

trVars == <<stage, relaxTSR, point, current, saveCurrent, delta, stepDelta, corrOrder,
            passes, running, converged, statConvergence, convError, trHelper, x,
            deltas, solution, charges, tHistory>>

time == Times[point]
SOL(n) == GetState(solution, n)
Vector(t, made) == [time |-> t, made |-> made]
AtMost(a, b) == IF a < b THEN a ELSE b
AtLeast(a, b) == IF a < b THEN b ELSE a

TRInit ==
  /\ stage = "time" /\ point = 0
  /\ relaxTSR \in Raster
  /\ current = 0 /\ saveCurrent = 0
  /\ delta = FirstStep /\ stepDelta = -1
  /\ corrOrder = 1
  /\ passes = 0 /\ running = 0 /\ converged = 0 /\ statConvergence = FALSE
  /\ convError = 0 /\ trHelper \in {"None", "LineSearch"}
  /\ x = Vector(0, "initially")
  /\ deltas = Filled(FirstStep)
  /\ solution = Filled(x)
  /\ charges = Filled(-1)
  /\ tHistory = [at |-> 0, of |-> x, due |-> x]

-----------------------------------------------------------------------------
\* The requested times.

NextTime ==
  /\ stage = "time"
  /\ IF point < Len(Times) THEN stage' = "step" /\ point' = point + 1
                           ELSE stage' = "done" /\ UNCHANGED point
  /\ UNCHANGED <<relaxTSR, current, saveCurrent, delta, stepDelta, corrOrder,
                 passes, running, converged, statConvergence, convError, trHelper,
                 x, deltas, solution, charges, tHistory>>

\* saveAllResults takes whatever is in x.
SaveResults ==
  /\ stage = "save"
  /\ stage' = "time"
  /\ UNCHANGED <<relaxTSR, point, current, saveCurrent, delta, stepDelta, corrOrder,
                 passes, running, converged, statConvergence, convError, trHelper,
                 x, deltas, solution, charges, tHistory>>

\* The condition of the loop, reached by `continue' as well.
Loop == stage' = IF saveCurrent' < time THEN "step" ELSE "save"

-----------------------------------------------------------------------------
\* The rings in a pass.

\* updateCoefficients
DeltasNow == SetState(deltas, delta, 0)

\* The integrators calculate their charges; with MODE_INIT, up to the first
\* completed pass, the same for all positions.
ChargesNow ==
  IF running = 0 THEN FillState(charges, current) ELSE SetState(charges, current, 0)

\* The pass leaves no trace but at position 0, where SOL has the prediction.
Stay ==
  /\ deltas' = DeltasNow
  /\ solution' = SetState(solution, Vector(current, "predicted"), 0)
  /\ charges' = ChargesNow

\* A plausible slip: the integrators are not moved on.
ShiftSolver(charged) ==
  /\ deltas' = NextState(DeltasNow)
  /\ solution' = NextState(SetState(solution, x', 0))
  /\ charges' = charged

\* nextStates
Shift(charged) ==
  /\ deltas' = NextState(DeltasNow)
  /\ solution' = NextState(SetState(solution, x', 0))
  /\ charges' = NextState(charged)

-----------------------------------------------------------------------------
\* The corrector does not converge.

\* A plausible slip: the halved step may fall below the minimum.
HalvedFreely ==
  /\ delta' = AtLeast(delta \div 2, 1)
  /\ corrOrder' = IF delta \div 2 <= DeltaMin THEN 1 ELSE corrOrder

Halved ==
  /\ delta' = AtLeast(delta \div 2, DeltaMin)
  /\ corrOrder' = IF delta \div 2 <= DeltaMin THEN 1 ELSE corrOrder

\* Step back, and forward by the new step: both only if the time is not 0.
SteppedBack ==
  LET back == IF current > 0 THEN current - delta ELSE current
  IN  current' = IF back > 0 THEN back + delta' ELSE back

CorrectorFails ==
  /\ stage = "step"
  /\ running \in Fragile /\ delta > Solvable
  /\ Halved
  /\ SteppedBack
  /\ passes' = 1 - passes
  /\ statConvergence' = TRUE
  /\ converged' = 0
  /\ trHelper' = "SteepestDescent" /\ convError' = 2
  /\ x' = Vector(current, "failed")
  /\ Stay
  /\ UNCHANGED <<saveCurrent, relaxTSR, point, stepDelta, running, tHistory>>
  /\ Loop

\* Any other exception, or a Jacobian that is not finite.
Abort ==
  /\ stage = "step"
  /\ stage' = "failed"
  /\ UNCHANGED <<relaxTSR, point, current, saveCurrent, delta, stepDelta, corrOrder,
                 passes, running, converged, statConvergence, convError, trHelper,
                 x, deltas, solution, charges, tHistory>>

-----------------------------------------------------------------------------
\* The corrector converges.

\* What is entered for a new time.
Entry == [at |-> saveCurrent', of |-> x', due |-> x']

\* A plausible slip: every pass adds to the history.
UpdateEachPass(above) == tHistory' = Entry

\* initHistory behind the first pass, updateHistory behind all others.  A time that
\* is stepped back to may be above the last entry by a rounding error: then it is
\* entered once more, with whatever is solved.
UpdateHistory(above) ==
  IF running = 0 \/ saveCurrent' > tHistory.at
  THEN tHistory' = Entry
  ELSE tHistory' = [at |-> tHistory.at, of |-> IF above THEN x' ELSE tHistory.of,
                    due |-> tHistory.due]

\* What follows the decision about the step.
Advance ==
  /\ current' = saveCurrent' + delta'
  /\ passes' = 1 - passes
  /\ running' = AtMost(running + 1, 2)
  /\ converged' = AtMost(converged + 1, Calm + 1)
  /\ convError' = AtLeast(convError - 1, -1)
  /\ trHelper' = IF convError < 1 THEN "None" ELSE trHelper
  /\ UNCHANGED <<relaxTSR, point, statConvergence>>
  /\ Loop

\* The first two steps are taken as they are.  fillStates gives all positions the
\* charges of now.
FirstSteps ==
  /\ stage = "step" /\ running <= 1
  /\ x' = Vector(current, "solved")
  /\ Shift(FillState(ChargesNow, GetState(ChargesNow, 0)))
  /\ saveCurrent' = current
  /\ UNCHANGED <<delta, stepDelta, corrOrder>>
  /\ Advance /\ UpdateHistory(FALSE)

Limited(d) == AtLeast(AtMost(d, DeltaMax), DeltaMin)

\* checkDelta, for the estimate n of the truncation error, and its limits.
CheckDelta(n) ==
  Limited(AtMost(IF 10 * n > 19 * delta THEN 2 * delta ELSE delta, n))

HitsTimes == ~relaxTSR /\ (~statConvergence \/ converged > Calm)

\* A plausible slip: the time to come is never looked at.
AdjustedFreely(n) == [delta |-> CheckDelta(n), next |-> -1, good |-> FALSE]

\* The step adjustDelta arrives at, what it keeps for the step behind it, and
\* whether it is an exact one.
Adjusted(n) ==
  LET d == CheckDelta(n)
      exact == current < time /\ d > time - current
  IN CASE ~HitsTimes                   -> [delta |-> d, next |-> stepDelta, good |-> FALSE]
       [] HitsTimes /\ stepDelta > 0   -> [delta |-> Limited(stepDelta), next |-> -1,
                                           good |-> FALSE]
       [] HitsTimes /\ stepDelta <= 0 /\ exact
                                       -> [delta |-> Limited(time - current),
                                           next |-> delta, good |-> TRUE]
       [] HitsTimes /\ stepDelta <= 0 /\ ~exact
                                       -> [delta |-> d, next |-> -1, good |-> FALSE]

\* A plausible slip: a step at the minimum is rejected as well.
AcceptsGrowth(adjusted) == adjusted.delta > delta \/ adjusted.good

Accepts(adjusted) == 10 * adjusted.delta > 9 * delta \/ adjusted.good

\* The step taken is good: the rings move on and the order may grow.
AcceptStep(n) ==
  /\ stage = "step" /\ running > 1
  /\ Accepts(Adjusted(n))
  /\ x' = Vector(current, "solved")
  /\ Shift(ChargesNow)
  /\ delta' = Adjusted(n).delta /\ stepDelta' = Adjusted(n).next
  /\ corrOrder' = AtMost(corrOrder + 1, MaxOrder)
  /\ saveCurrent' = current
  /\ Advance /\ UpdateHistory(FALSE)

\* A plausible slip: the time is not taken back.
RejectStepHere(n) ==
  /\ stage = "step" /\ running > 1
  /\ ~Accepts(Adjusted(n))
  /\ x' = Vector(current, "solved")
  /\ Stay
  /\ delta' = Adjusted(n).delta /\ stepDelta' = Adjusted(n).next
  /\ saveCurrent' = current
  /\ UNCHANGED corrOrder
  /\ Advance /\ \E above \in BOOLEAN : UpdateHistory(above)

\* The truncation error asks for a shorter step: back to the time before this one.
RejectStep(n) ==
  /\ stage = "step" /\ running > 1
  /\ ~Accepts(Adjusted(n))
  /\ x' = Vector(current, "solved")
  /\ Stay
  /\ delta' = Adjusted(n).delta /\ stepDelta' = Adjusted(n).next
  /\ saveCurrent' = IF current > 0 THEN current - delta ELSE current
  /\ UNCHANGED corrOrder
  /\ Advance /\ \E above \in BOOLEAN : UpdateHistory(above)

TRNext ==
  \/ NextTime
  \/ SaveResults
  \/ CorrectorFails
  \/ Abort
  \/ FirstSteps
  \/ \E n \in Estimates : AcceptStep(n) \/ RejectStep(n)

\* One thread, which runs on.
Fairness == WF_trVars(TRNext)
TRSpec == TRInit /\ [][TRNext]_trVars /\ Fairness

-----------------------------------------------------------------------------
\* Properties

\* Types and limits: behind the first steps no step leaves its limits.
TRTypeOK ==
  /\ stage \in {"time", "step", "save", "done", "failed"}
  /\ point \in 0 .. Len(Times)
  /\ current \in Nat /\ saveCurrent \in Nat
  /\ delta \in {FirstStep} \union (DeltaMin .. DeltaMax)
  /\ stepDelta \in {-1} \union (1 .. DeltaMax)
  /\ corrOrder \in 1 .. MaxOrder
  /\ passes \in {0, 1} /\ running \in 0 .. 2 /\ converged \in 0 .. Calm + 1
  /\ convError \in -1 .. 2 /\ trHelper \in {"None", "LineSearch", "SteepestDescent"}
  /\ relaxTSR \in BOOLEAN /\ statConvergence \in BOOLEAN

\* The divided differences of the predictor and the coefficients of the corrector
\* are those of the steps really taken: up to the order in use the ring of steps
\* holds the distances of the solutions beside it, all of which were accepted, and
\* the step to the current time leads from the last of them.
StepsMatchTimes ==
  /\ running > 0 => /\ SOL(1) = Vector(saveCurrent, "solved")
                    /\ current = saveCurrent + delta
  /\ running > 1 => \A o \in 1 .. corrOrder :
       /\ SOL(o + 1).made = "solved"
       /\ GetState(deltas, o) = SOL(o).time - SOL(o + 1).time

\* The integrators use charges of the accepted solutions, one per step of the order.
IntegratorsMatch ==
  running > 0 => \A k \in 1 .. corrOrder : GetState(charges, k) = SOL(k).time

\* Lines with a delay read their history: every accepted solution is entered, at its
\* time, and of the passes taken back none but what rounding lets in: one that was
\* rejected, entered for the time it went back to although it is of a later one.
HistoryIsTrue ==
  running > 0 => /\ tHistory.at = saveCurrent /\ tHistory.due = SOL(1)
                 /\ tHistory.of # SOL(1) => tHistory.of.time > saveCurrent

\* What is saved for a requested time is an accepted solution, not one that was
\* rejected or did not converge, and none from before that time.
SavedIsAccepted == stage = "save" => x = SOL(1) /\ x.made = "solved" /\ x.time >= time

\* As long as all passes converge, results are exact in time up to the minimum step.
OnTime ==
  stage = "save" /\ ~relaxTSR /\ ~statConvergence => x.time < time + DeltaMin

\* The analysis comes to its end.
TransientEnds == <>(stage \in {"done", "failed"})
=============================================================================
