------------------------------ MODULE DcSolver ------------------------------
(***************************************************************************)
(* The operating point search of the simulator: Newton iteration, its two  *)
(* continuation methods (gMin stepping, source stepping), the global       *)
(* exception stack, and the two callers that choose another convergence    *)
(* helper when a search fails, dcsolver::solve and trsolver::dcAnalysis.   *)
(* Source: qucs-core/src nasolver.cpp, dcsolver.cpp, trsolver.cpp.         *)
(*                                                                         *)
(* One step is one pass through an innermost loop: one solution of the     *)
(* linearised circuit and everything up to the next one.  Voltages are     *)
(* abstracted: the circuit says in each pass whether its matrix is         *)
(* singular and whether the voltages have settled.  Source factors and     *)
(* conductances are integers, in units of the smallest step the code still *)
(* takes (NR_EPSI).                                                        *)
(***************************************************************************)
EXTENDS Integers, Sequences, Functions

CONSTANTS MaxIter,     \* property "MaxIter" of the analysis
          Full,        \* the source factor 1
          FirstSource, \* the first step of the source factor
          FirstGMin,   \* the first extra conductance
          GMinStep,    \* the first step of the extra conductance
          Settles,     \* the passes after which the voltages may have settled
          Matrix,      \* what the matrix may be in a pass
          Analyses,    \* the analyses to run, in this order
          Requested    \* values of the property "convHelper"

ASSUME IterAssumption == MaxIter \in Nat /\ MaxIter >= 2 /\ Settles \subseteq Nat
ASSUME StepAssumption ==
  /\ {Full, FirstSource, FirstGMin, GMinStep} \subseteq Nat \ {0}
  /\ FirstSource <= Full /\ GMinStep < FirstGMin
ASSUME MatrixAssumption == Matrix \subseteq {"regular", "singular"}
ASSUME AnalysesAssumption == Analyses \in Seq({"DC", "TR"})

Damping == {"SteepestDescent", "LineSearch", "Attenuation"}
Helper == {"None", "SourceStepping", "gMinStepping"} \union Damping

ASSUME RequestedAssumption == Requested \subseteq Helper

VARIABLES pc,         \* the loop that is running, "returned" or "idle"
          todo,       \* the analyses still to run, the running one first
          nonLinear,  \* subnet->isNonLinear
          preferred, fallback, retry,
          again,      \* dcAnalysis solves for the second time
          convHelper, \* of the solver objects "DC" and "TR"
          tried,      \* the helpers of this analysis, in order
          run, prev, cur, step,  \* the loop counter; gPrev, gMin, gStep or
                                 \* sPrev, srcFactor, sStep
          srcFactor,  \* of the net, read by all sources
          circuit,    \* sources and extra conductance in the last pass
          error, estack,
          saved       \* what the last analysis has saved

vars == <<pc, todo, nonLinear, preferred, fallback, retry, again, convHelper,
          tried, run, prev, cur, step, srcFactor, circuit, error,
          estack, saved>>

loop == <<run, prev, cur, step>>
caller == <<todo, nonLinear, preferred, fallback, retry, again, convHelper, tried,
            saved>>

FullCircuit == [src |-> Full, gMin |-> 0]
NothingSaved == [by |-> "DC", converged |-> TRUE, tried |-> <<>>]

Smaller(a, b) == IF a < b THEN a ELSE b
Larger(a, b) == IF a < b THEN b ELSE a

Init ==
  /\ pc = "idle"
  /\ todo = Analyses
  /\ nonLinear \in BOOLEAN
  /\ preferred \in Requested
  /\ fallback = 0 /\ retry = -1 /\ again = FALSE
  /\ convHelper = [a \in {"DC", "TR"} |-> "None"]
  /\ tried = <<>>
  /\ run = 0 /\ prev = 0 /\ cur = 0 /\ step = 0
  /\ srcFactor = Full
  /\ circuit = FullCircuit
  /\ error = FALSE
  /\ estack = <<>>
  /\ saved = NothingSaved

-----------------------------------------------------------------------------
\* One pass: solve_once, checkConvergence and the counting of the loop.

\* The voltages settle, if at all, behind the first pass.
MayBe(ok) == ok => run > 0 /\ run + 1 \in Settles

\* The exception stack behind solve_once.  Singular rows get a virtual resistance
\* and their own exceptions are popped; behind a regular pass the whole stack is
\* printed, and so emptied.  (LU_FAILURE is 0: a pass never fails.)
Below(matrix) == IF matrix = "regular" THEN <<>> ELSE estack

Pass(circ, matrix, ok) ==
  /\ MayBe(ok)
  /\ circuit' = circ
  /\ UNCHANGED caller

GoOn(matrix) == estack' = Below(matrix) /\ UNCHANGED <<pc, error>>

Converged(matrix) == pc' = "returned" /\ error' = FALSE /\ estack' = Below(matrix)

NoConvergence(matrix) ==
  /\ pc' = "returned"
  /\ error' = TRUE
  /\ estack' = <<"NO_CONVERGENCE">> \o Below(matrix)

\* The basic loop of solve_nonlinear.
NewtonPass(matrix, ok) ==
  /\ pc = "newton"
  /\ Pass([src |-> srcFactor, gMin |-> 0], matrix, ok)
  /\ run' = run + 1
  /\ \/ ~ok /\ run' < MaxIter /\ GoOn(matrix)
     \/ ok /\ run' < MaxIter /\ Converged(matrix)
     \/ run' >= MaxIter /\ NoConvergence(matrix)
  /\ UNCHANGED <<prev, cur, step, srcFactor>>

\* The inner loops of the continuation methods.
MaxIterations == MaxIter \div 4 + 1
Inner(ok) == ~ok /\ run + 1 < MaxIterations
OutOfPasses == run + 1 >= MaxIterations
NextRun(ok) == run' = IF Inner(ok) THEN run + 1 ELSE 0

\* A plausible slip: the loop ends when the next conductance would be 0.
GMinPassShort(matrix, ok) ==
  /\ pc = "gmin"
  /\ Pass([src |-> srcFactor, gMin |-> cur], matrix, ok)
  /\ NextRun(ok)
  /\ \/ Inner(ok) /\ GoOn(matrix) /\ UNCHANGED <<prev, cur, step>>
     \/ /\ OutOfPasses
        /\ step' = step \div 2
        /\ cur' = Larger(prev - step', 0)
        /\ UNCHANGED prev
        /\ IF step' = 0 THEN NoConvergence(matrix) ELSE GoOn(matrix)
     \/ /\ ok /\ ~OutOfPasses
        /\ prev' = cur
        /\ cur' = Larger(cur - step, 0)
        /\ step' = 2 * step
        /\ IF cur' = 0 THEN Converged(matrix) ELSE GoOn(matrix)
  /\ UNCHANGED srcFactor

\* A plausible slip: the step is not halved behind a failure.
GMinPassSameStep(matrix, ok) ==
  /\ pc = "gmin"
  /\ Pass([src |-> srcFactor, gMin |-> cur], matrix, ok)
  /\ NextRun(ok)
  /\ \/ Inner(ok) /\ GoOn(matrix) /\ UNCHANGED <<prev, cur, step>>
     \/ /\ OutOfPasses
        /\ cur' = Larger(prev - step, 0)
        /\ UNCHANGED <<prev, step>>
        /\ GoOn(matrix)
     \/ /\ ok /\ ~OutOfPasses
        /\ prev' = cur
        /\ cur' = Larger(cur - step, 0)
        /\ step' = 2 * step
        /\ IF prev' = 0 THEN Converged(matrix) ELSE GoOn(matrix)
  /\ UNCHANGED srcFactor

\* solve_nonlinear_continuation_gMin: the extra conductance goes down to 0, with
\* half the step when the passes run out and with twice the step otherwise.
GMinPass(matrix, ok) ==
  /\ pc = "gmin"
  /\ Pass([src |-> srcFactor, gMin |-> cur], matrix, ok)
  /\ NextRun(ok)
  /\ \/ Inner(ok) /\ GoOn(matrix) /\ UNCHANGED <<prev, cur, step>>
     \/ /\ OutOfPasses
        /\ step' = step \div 2
        /\ UNCHANGED prev
        /\ \/ step' = 0 /\ UNCHANGED cur /\ NoConvergence(matrix)
           \/ step' > 0 /\ cur' = Larger(prev - step', 0) /\ GoOn(matrix)
     \/ /\ ok /\ ~OutOfPasses
        /\ prev' = cur
        /\ cur' = Larger(cur - step, 0)
        /\ step' = 2 * step
        /\ \/ prev' = 0 /\ Converged(matrix)
           \/ prev' > 0 /\ GoOn(matrix)
  /\ UNCHANGED srcFactor

\* A plausible slip: the net keeps the factor it had when the method gave up.
SourcePassKeepFactor(matrix, ok) ==
  /\ pc = "source"
  /\ Pass([src |-> cur, gMin |-> 0], matrix, ok)
  /\ NextRun(ok)
  /\ srcFactor' = cur
  /\ \/ Inner(ok) /\ GoOn(matrix) /\ UNCHANGED <<prev, cur, step>>
     \/ /\ OutOfPasses
        /\ step' = step \div 2
        /\ cur' = Smaller(prev + step', Full)
        /\ UNCHANGED prev
        /\ IF step' = 0 THEN NoConvergence(matrix) ELSE GoOn(matrix)
     \/ /\ ok /\ ~OutOfPasses
        /\ prev' = cur
        /\ cur' = Smaller(cur + step, Full)
        /\ step' = (3 * step) \div 2
        /\ IF prev' >= Full THEN Converged(matrix) ELSE GoOn(matrix)

\* solve_nonlinear_continuation_Source: the source factor goes up to 1.  Only an
\* inner loop that needed less than a quarter of its passes moves sPrev on, the
\* factor from which a shorter step is tried and by which the method ends.
SourcePass(matrix, ok) ==
  /\ pc = "source"
  /\ Pass([src |-> cur, gMin |-> 0], matrix, ok)
  /\ NextRun(ok)
  /\ \/ Inner(ok) /\ GoOn(matrix) /\ UNCHANGED <<prev, cur, step>>
     \/ /\ OutOfPasses
        /\ step' = step \div 2
        /\ UNCHANGED prev
        /\ \/ step' = 0 /\ UNCHANGED cur /\ NoConvergence(matrix)
           \/ step' > 0 /\ cur' = Smaller(prev + step', Full) /\ GoOn(matrix)
     \/ /\ ok /\ run + 1 < MaxIterations \div 4
        /\ prev' = cur
        /\ cur' = Smaller(cur + step, Full)
        /\ step' = (3 * step) \div 2
        /\ \/ prev' >= Full /\ Converged(matrix)
           \/ prev' < Full /\ GoOn(matrix)
     \/ /\ ok /\ ~OutOfPasses /\ run + 1 >= MaxIterations \div 4
        /\ cur' = Smaller(cur + step, Full)
        /\ UNCHANGED <<prev, step>>
        /\ GoOn(matrix)
  /\ srcFactor' = IF pc' = "returned" THEN Full ELSE cur

-----------------------------------------------------------------------------
\* The callers.

\* solve_nonlinear is called with this convergence helper.
Solve(helper) ==
  /\ run' = 0
  /\ \/ /\ helper = "gMinStepping"
        /\ pc' = "gmin"
        /\ prev' = FirstGMin /\ step' = GMinStep /\ cur' = FirstGMin - GMinStep
     \/ /\ helper = "SourceStepping"
        /\ pc' = "source"
        /\ prev' = 0 /\ step' = FirstSource /\ cur' = FirstSource
     \/ /\ helper \in {"None"} \union Damping
        /\ pc' = "newton"
        /\ UNCHANGED <<prev, cur, step>>

Running(kind) == todo # <<>> /\ Head(todo) = kind

\* dcsolver::solve of a nonlinear circuit, up to its first search.
StartDC ==
  /\ pc = "idle" /\ Running("DC") /\ nonLinear
  /\ convHelper' = [convHelper EXCEPT !["DC"] = preferred]
  /\ tried' = <<preferred>>
  /\ fallback' = 0 /\ retry' = -1
  /\ Solve(preferred)
  /\ UNCHANGED <<todo, nonLinear, preferred, again, srcFactor, circuit,
                 error, estack, saved>>

\* dcsolver::solve of a linear circuit: one pass, and no exception handling.
SolveLinear(matrix) ==
  /\ pc = "idle" /\ Running("DC") /\ ~nonLinear
  /\ convHelper' = [convHelper EXCEPT !["DC"] = "None"]
  /\ circuit' = [src |-> srcFactor, gMin |-> 0]
  /\ estack' = Below(matrix)
  /\ tried' = <<>>
  /\ saved' = NothingSaved
  /\ todo' = Tail(todo)
  /\ UNCHANGED <<pc, nonLinear, preferred, fallback, retry, again, loop,
                 srcFactor, error>>

Save ==
  /\ saved' = [by |-> Head(todo), converged |-> ~error, tried |-> tried]
  /\ todo' = Tail(todo)
  /\ pc' = "idle"
  /\ UNCHANGED <<tried, loop>>

SolveAgain(helper) ==
  /\ tried' = Append(tried, helper)
  /\ Solve(helper)
  /\ UNCHANGED <<todo, saved>>

helpers == <<"SourceStepping", "gMinStepping", "SteepestDescent", "LineSearch",
             "Attenuation", "giveUp">>

\* A plausible slip: the helper asked for is not left out of the fallbacks.
NextFallbackTwice(n) == n + 1

\* The fallback behind the next one, in the numbering of the code.
NextFallback(n) ==
  IF preferred # "None" /\ preferred = helpers[n + 1] THEN n + 2 ELSE n + 1

\* A plausible slip: the exception is handled but stays on the stack.
CatchKept ==
  LET helper == helpers[NextFallback(fallback)]
  IN  /\ estack # <<>>
      /\ UNCHANGED estack
      /\ fallback' = NextFallback(fallback)
      /\ convHelper' = [convHelper EXCEPT !["DC"] = helper]
      /\ IF helper = "giveUp" THEN Save /\ retry' = -1
         ELSE SolveAgain(helper) /\ retry' = (IF error THEN retry ELSE -1) + 1

\* The handler of dcsolver::solve: the next helper, or the end.
Catch ==
  LET next == NextFallback(fallback)
      helper == helpers[next]
  IN  /\ estack # <<>>
      /\ estack' = Tail(estack)
      /\ fallback' = next
      /\ convHelper' = [convHelper EXCEPT !["DC"] = helper]
      /\ \/ helper = "giveUp" /\ Save /\ retry' = -1
         \/ /\ helper # "giveUp"
            /\ SolveAgain(helper)
            /\ retry' = (IF error THEN retry ELSE -1) + 1

\* solve_nonlinear has returned to dcsolver::solve.  A search that fails leaves
\* its exception, so that without one the loop ends.
ReturnDC ==
  /\ pc = "returned" /\ Running("DC")
  /\ \/ Catch
     \/ /\ estack = <<>>
        /\ retry' = -1
        /\ Save
        /\ UNCHANGED <<fallback, convHelper, estack>>
  /\ UNCHANGED <<nonLinear, preferred, again, srcFactor, circuit, error>>

\* trsolver::dcAnalysis, up to its first search.  Its object keeps the helper of
\* the sweep point before.
StartTR ==
  /\ pc = "idle" /\ Running("TR")
  /\ tried' = <<convHelper["TR"]>>
  /\ again' = FALSE
  /\ Solve(convHelper["TR"])
  /\ UNCHANGED <<todo, nonLinear, preferred, fallback, retry, convHelper, srcFactor,
                 circuit, error, estack, saved>>

\* solve_nonlinear has returned to dcAnalysis: a line search is the only fallback,
\* and nothing handles the exception it may leave.
ReturnTR ==
  /\ pc = "returned" /\ Running("TR")
  /\ \/ /\ ~again /\ estack # <<>>
        /\ again' = TRUE
        /\ estack' = Tail(estack)
        /\ convHelper' = [convHelper EXCEPT !["TR"] = "LineSearch"]
        /\ SolveAgain("LineSearch")
     \/ /\ again \/ estack = <<>>
        /\ Save
        /\ UNCHANGED <<again, estack>>
        \* the transient analysis proper may change the helper
        /\ convHelper' \in {convHelper} \union
             (IF error THEN {} ELSE {[convHelper EXCEPT !["TR"] = h] :
                                       h \in {"None", "SteepestDescent"}})
  /\ UNCHANGED <<nonLinear, preferred, fallback, retry, srcFactor, circuit,
                 error>>

Next ==
  \/ \E matrix \in Matrix, ok \in BOOLEAN :
       \/ NewtonPass(matrix, ok)
       \/ GMinPass(matrix, ok)
       \/ SourcePass(matrix, ok)
  \/ \E matrix \in Matrix : SolveLinear(matrix)
  \/ StartDC
  \/ ReturnDC
  \/ StartTR
  \/ ReturnTR

\* The simulator is one thread that always runs on.
Spec == Init /\ [][Next]_vars /\ WF_vars(Next)

-----------------------------------------------------------------------------
\* Types of the variables.
TypeOK ==
  /\ pc \in {"idle", "newton", "gmin", "source", "returned"}
  /\ todo \in Seq({"DC", "TR"})
  /\ nonLinear \in BOOLEAN /\ again \in BOOLEAN
  /\ error \in BOOLEAN
  /\ preferred \in Requested
  /\ fallback \in 0..6 /\ retry \in -1..5
  /\ convHelper \in [{"DC", "TR"} -> Helper \union {"giveUp"}]
  /\ tried \in Seq(Helper)
  /\ {run, prev, cur, step, srcFactor, circuit.src, circuit.gMin} \subseteq Nat
  /\ estack \in Seq({"NO_CONVERGENCE"})

\* A search that reports success has solved the circuit itself: the sources at
\* their full value and no extra conductance, however often the steps of the
\* continuation methods were shortened (nasolver.cpp "continue until no source
\* factor is necessary", "continue until no additional resistances is necessary").
SolvesTheCircuit == pc = "returned" /\ ~error => circuit = FullCircuit

\* Outside source stepping the sources have their full value, also behind a
\* source stepping that failed (nasolver.cpp:414).
SourcesRestored == pc # "source" => srcFactor = Full

\* No helper is tried twice in an analysis, the helper asked for is not tried again
\* as a fallback (dcsolver.cpp:141-142), and a DC analysis that saves the voltages of
\* a failed search has tried all five helpers.
EachHelperOnce ==
  /\ pc # "idle" /\ Running("DC") => IsInjective(tried)
  /\ ~saved.converged /\ saved.by = "DC" =>
       Damping \union {"SourceStepping", "gMinStepping"} \subseteq Range(saved.tried)

\* No analysis leaves an exception to the next one.  A DC analysis keeps this.
NoExceptionLeft == pc = "idle" => estack = <<>>

\* A gMin stepping ends, however the circuit behaves.
GMinSteppingEnds == pc = "gmin" ~> pc = "returned"

\* Source stepping ends on a circuit that settles at once; the code does not
\* keep this one.
SourceSteppingEnds == pc = "source" ~> pc = "returned"

\* What a handler takes for a failed search is the failure of this search.  This
\* holds as long as no transient analysis runs before.
FailureIsOwn == pc = "returned" /\ estack # <<>> => error
=============================================================================
