--------------------------- MODULE Solvers_proofs ---------------------------
(***************************************************************************)
(* Theorems about the two solvers, DcSolver and TransientSolver, which     *)
(* have no variable in common: each theorem is about the specification of  *)
(* one of them, whatever the other one does.                               *)
(***************************************************************************)
EXTENDS DcSolver, TransientSolver, SequenceTheorems, TLAPS

-----------------------------------------------------------------------------
\* DcSolver, for every iteration limit, every first step and every behaviour of
\* the circuit.  Three inductive invariants: one says which circuit the loops
\* solve, one, for DC analyses only, which exceptions are on the stack, and one
\* which helpers have been tried.

\* The numbers of the loops are natural numbers, and outside source stepping the
\* sources have their full value, so that a success is one of the full circuit.
DcInv ==
  /\ {run, prev, cur, step, srcFactor} \subseteq Nat
  /\ pc = "source" => cur <= Full
  /\ SourcesRestored
  /\ SolvesTheCircuit

LEMMA InitDcInv == Init => DcInv
BY StepAssumption DEF Init, DcInv, SourcesRestored, SolvesTheCircuit

\* A pass of the basic loop.
LEMMA NewtonDcInv ==
  ASSUME DcInv, NEW matrix, NEW ok \in BOOLEAN, NewtonPass(matrix, ok)
  PROVE  DcInv'
BY DEF DcInv, NewtonPass, Pass, GoOn, Converged, NoConvergence, FullCircuit,
       SourcesRestored, SolvesTheCircuit

\* The steps of the continuation methods stay natural numbers.
LEMMA Halves == \A n \in Nat : n \div 2 \in Nat /\ (3 * n) \div 2 \in Nat
OBVIOUS

LEMMA LargerInNat == \A a \in Int : Larger(a, 0) \in Nat
BY DEF Larger

LEMMA SmallerBounded ==
  \A a \in Nat : Smaller(a, Full) \in Nat /\ Smaller(a, Full) <= Full
BY StepAssumption DEF Smaller

\* A pass of gMin stepping: success means that the last conductance was 0.
LEMMA GMinDcInv ==
  ASSUME DcInv, NEW matrix, NEW ok \in BOOLEAN, GMinPass(matrix, ok)
  PROVE  DcInv'
<1>1. run' \in Nat /\ srcFactor' = Full /\ pc' \in {"gmin", "returned"}
  BY DEF DcInv, GMinPass, NextRun, SourcesRestored, GoOn, Converged, NoConvergence
<1>2. {prev', cur', step'} \subseteq Nat
  BY Halves, LargerInNat DEF DcInv, GMinPass
<1>3. SolvesTheCircuit'
  BY DEF DcInv, GMinPass, Pass, GoOn, Converged, NoConvergence, FullCircuit,
         SourcesRestored, SolvesTheCircuit
<1> QED
  BY <1>1, <1>2, <1>3, StepAssumption DEF DcInv, SourcesRestored

\* A pass of source stepping: success means that the last factor was 1.
LEMMA SourceDcInv ==
  ASSUME DcInv, NEW matrix, NEW ok \in BOOLEAN, SourcePass(matrix, ok)
  PROVE  DcInv'
<1>1. run' \in Nat /\ srcFactor' \in Nat /\ pc' \in {"source", "returned"}
      /\ (pc' = "returned" => srcFactor' = Full)
  <2>1. run' \in Nat
    BY DEF DcInv, SourcePass, NextRun, GoOn, Converged, NoConvergence
  <2>2. pc' \in {"source", "returned"} /\ (pc' = "returned" => srcFactor' = Full)
    BY StepAssumption DEF DcInv, SourcePass, GoOn, Converged, NoConvergence
  <2>3. srcFactor' \in Nat
    BY StepAssumption DEF DcInv, SourcePass, GoOn, Converged, NoConvergence
  <2> QED BY <2>1, <2>2, <2>3
<1>2. {prev', cur', step'} \subseteq Nat /\ cur' <= Full
  BY Halves, SmallerBounded DEF DcInv, SourcePass
<1>3. SolvesTheCircuit'
  <2>1. CASE pc' = "source"
    BY <2>1 DEF SolvesTheCircuit
  <2>2. CASE error'
    BY <2>2 DEF SolvesTheCircuit
  <2>3. CASE pc' = "returned" /\ ~error'
    <3>1. cur >= Full
      BY <2>3 DEF SourcePass, GoOn, NoConvergence
    <3>2. cur = Full
      BY <3>1, StepAssumption DEF DcInv, SourcePass
    <3>3. circuit' = [src |-> cur, gMin |-> 0]
      BY DEF SourcePass, Pass
    <3> QED
      BY <3>2, <3>3 DEF SolvesTheCircuit, FullCircuit
  <2> QED
    BY <1>1, <2>1, <2>2, <2>3
<1> QED
  BY <1>1, <1>2, <1>3 DEF DcInv, SourcesRestored

\* A search begins with loop variables in range, outside "returned".
LEMMA SolveDcInv ==
  ASSUME DcInv, NEW helper, Solve(helper), pc # "source", UNCHANGED srcFactor
  PROVE  DcInv'
BY StepAssumption DEF DcInv, Solve, SourcesRestored, SolvesTheCircuit

LEMMA SaveDcInv ==
  ASSUME DcInv, Save, pc # "source", UNCHANGED srcFactor
  PROVE  DcInv'
BY DEF DcInv, Save, loop, SourcesRestored, SolvesTheCircuit

LEMMA NextDcInv == DcInv /\ [Next]_vars => DcInv'
<1> SUFFICES ASSUME DcInv, [Next]_vars PROVE DcInv'
  OBVIOUS
<1>1. ASSUME NEW matrix \in Matrix, NEW ok \in BOOLEAN,
             NewtonPass(matrix, ok) \/ GMinPass(matrix, ok) \/ SourcePass(matrix, ok)
      PROVE  DcInv'
  BY <1>1, NewtonDcInv, GMinDcInv, SourceDcInv
<1>2. ASSUME NEW matrix \in Matrix, SolveLinear(matrix)
      PROVE  DcInv'
  BY <1>2 DEF SolveLinear, DcInv, loop, SourcesRestored, SolvesTheCircuit
<1>3. CASE StartDC
  BY <1>3, SolveDcInv DEF StartDC
<1>4. CASE ReturnDC
  <2>1. CASE Catch
    BY <1>4, <2>1, SolveDcInv, SaveDcInv DEF ReturnDC, Catch, SolveAgain
  <2>2. CASE Save
    BY <1>4, <2>2, SaveDcInv DEF ReturnDC
  <2> QED
    BY <1>4, <2>1, <2>2 DEF ReturnDC
<1>5. CASE StartTR
  BY <1>5, SolveDcInv DEF StartTR
<1>6. CASE ReturnTR
  BY <1>6, SolveDcInv, SaveDcInv DEF ReturnTR, SolveAgain
<1>7. CASE UNCHANGED vars
  BY <1>7 DEF vars, DcInv, SourcesRestored, SolvesTheCircuit
<1> QED
  BY <1>1, <1>2, <1>3, <1>4, <1>5, <1>6, <1>7 DEF Next

THEOREM DcInductive == Spec => []DcInv
BY InitDcInv, NextDcInv, PTL DEF Spec

\* A search that reports success has solved the circuit with its sources at full
\* value and without extra conductances (the two continuation methods of
\* nasolver.cpp), whatever MaxIter, the first steps and the circuit are.
THEOREM SuccessIsReal == Spec => []SolvesTheCircuit
BY DcInductive, PTL DEF DcInv

\* No search but source stepping itself ever runs with reduced sources.
THEOREM SourcesAreFull == Spec => []SourcesRestored
BY DcInductive, PTL DEF DcInv

-----------------------------------------------------------------------------
\* The exception stack when only DC analyses run.

OnlyDC == Analyses \in Seq({"DC"})

\* The stack is empty but for the exception of the search that has just failed.
StackInv ==
  /\ todo \in Seq({"DC"})
  /\ pc # "returned" => estack = <<>>
  /\ pc = "returned" => estack = IF error THEN <<"NO_CONVERGENCE">> ELSE <<>>

LEMMA PassStack ==
  ASSUME StackInv, NEW matrix, pc # "returned", UNCHANGED caller,
         GoOn(matrix) \/ Converged(matrix) \/ NoConvergence(matrix)
  PROVE  StackInv'
<1>1. Below(matrix) = <<>>
  BY DEF StackInv, Below
<1>2. <<"NO_CONVERGENCE">> \o <<>> = <<"NO_CONVERGENCE">>
  OBVIOUS
<1> QED
  BY <1>1, <1>2 DEF StackInv, GoOn, Converged, NoConvergence, caller

LEMMA NextStack == StackInv /\ [Next]_vars => StackInv'
<1> SUFFICES ASSUME StackInv, [Next]_vars PROVE StackInv'
  OBVIOUS
<1>1. ASSUME NEW matrix \in Matrix, NEW ok \in BOOLEAN,
             NewtonPass(matrix, ok) \/ GMinPass(matrix, ok) \/ SourcePass(matrix, ok)
      PROVE  StackInv'
  <2>1. pc # "returned" /\ UNCHANGED caller
    BY <1>1 DEF NewtonPass, GMinPass, SourcePass, Pass
  <2>2. GoOn(matrix) \/ Converged(matrix) \/ NoConvergence(matrix)
    BY <1>1 DEF NewtonPass, GMinPass, SourcePass
  <2> QED
    BY <2>1, <2>2, PassStack
<1>2. ASSUME NEW matrix \in Matrix, SolveLinear(matrix)
      PROVE  StackInv'
  BY <1>2 DEF SolveLinear, StackInv, Below, Running
<1>3. CASE StartDC
  BY <1>3 DEF StartDC, Solve, StackInv
<1>4. CASE ReturnDC
  <2>1. pc' # "returned"
    BY <1>4 DEF ReturnDC, Catch, Save, SolveAgain, Solve
  <2>2. estack' = <<>>
    <3>1. Tail(<<"NO_CONVERGENCE">>) = <<>>
      OBVIOUS
    <3>2. estack = <<"NO_CONVERGENCE">> \/ estack = <<>>
      BY <1>4 DEF ReturnDC, StackInv
    <3>3. estack' = Tail(estack) \/ (estack' = estack /\ estack = <<>>)
      BY <1>4 DEF ReturnDC, Catch
    <3>4. estack = <<>> => estack' = estack
      BY <1>4 DEF ReturnDC, Catch
    <3> QED
      BY <3>1, <3>2, <3>3, <3>4
  <2>3. todo' = todo \/ todo' = Tail(todo)
    BY <1>4 DEF ReturnDC, Catch, Save, SolveAgain
  <2>4. todo' \in Seq({"DC"})
    <3>1. todo # <<>> /\ todo \in Seq({"DC"})
      BY <1>4 DEF ReturnDC, Running, StackInv
    <3> QED
      BY <2>3, <3>1
  <2> QED
    BY <2>1, <2>2, <2>4 DEF StackInv
<1>5. ~StartTR /\ ~ReturnTR
  BY DEF StartTR, ReturnTR, Running, StackInv
<1>6. CASE UNCHANGED vars
  BY <1>6 DEF vars, StackInv
<1> QED
  BY <1>1, <1>2, <1>3, <1>4, <1>5, <1>6 DEF Next

\* A DC analysis takes no failure of another search for its own, in any sequence
\* of DC analyses (a sweep); with a transient analysis in the sequence this is
\* not so: the second search of dcAnalysis has no handler for its exception.
THEOREM OwnFailures == OnlyDC /\ Spec => []FailureIsOwn
<1>1. OnlyDC /\ Init => StackInv
  BY DEF OnlyDC, Init, StackInv
<1>2. StackInv => FailureIsOwn
  BY DEF StackInv, FailureIsOwn
<1> QED
  BY <1>1, <1>2, NextStack, PTL DEF Spec

\* And it leaves no exception behind.
THEOREM NothingLeft == OnlyDC /\ Spec => []NoExceptionLeft
<1>1. OnlyDC /\ Init => StackInv
  BY DEF OnlyDC, Init, StackInv
<1>2. StackInv => NoExceptionLeft
  BY DEF StackInv, NoExceptionLeft
<1> QED
  BY <1>1, <1>2, NextStack, PTL DEF Spec

-----------------------------------------------------------------------------
\* Types, and the helpers that were tried.

\* A transient analysis is never left with the mark behind the last helper.
DcTypes ==
  /\ pc \in {"idle", "newton", "gmin", "source", "returned"}
  /\ todo \in Seq({"DC", "TR"}) /\ (pc # "idle" => todo # <<>>)
  /\ nonLinear \in BOOLEAN /\ again \in BOOLEAN /\ error \in BOOLEAN
  /\ preferred \in Requested
  /\ fallback \in 0..6 /\ retry \in -1..5
  /\ convHelper \in [{"DC", "TR"} -> Helper \union {"giveUp"}]
  /\ convHelper["TR"] \in Helper
  /\ tried \in Seq(Helper)
  /\ {circuit.src, circuit.gMin} \subseteq Nat
  /\ estack \in Seq({"NO_CONVERGENCE"})

\* A DC analysis has tried the helper asked for and all fallbacks up to the
\* present one, none of them twice.
Tries ==
  /\ fallback \in 0..5 /\ retry < fallback
  /\ IsInjective(tried)
  /\ Range(tried) = {preferred} \union {helpers[j] : j \in 1..fallback}

\* A search that fails leaves an exception, so that dcsolver::solve only ends
\* without a success when the list of its helpers does.
Helpers ==
  /\ pc # "idle" /\ Running("DC") => Tries
  /\ pc = "returned" /\ error => estack # <<>>
  /\ ~saved.converged /\ saved.by = "DC" =>
       Damping \union {"SourceStepping", "gMinStepping"} \subseteq Range(saved.tried)

HInv == DcInv /\ DcTypes /\ Helpers

LEMMA HelperList ==
  /\ helpers[1] = "SourceStepping" /\ helpers[2] = "gMinStepping"
  /\ helpers[3] = "SteepestDescent" /\ helpers[4] = "LineSearch"
  /\ helpers[5] = "Attenuation" /\ helpers[6] = "giveUp"
BY DEF helpers

\* The fallbacks are the helpers but "None", each once, with the end behind them.
LEMMA HelpersDiffer ==
  /\ \A j \in 1..5 : helpers[j] \in Helper \ {"None"}
  /\ \A i, j \in 1..6 : helpers[i] = helpers[j] => i = j
  /\ \A j \in 1..6 : helpers[j] = "giveUp" <=> j = 6
BY HelperList DEF Helper, Damping

LEMMA InitHInv == Init => HInv
<1> SUFFICES ASSUME Init PROVE HInv
  OBVIOUS
<1>1. DcTypes
  <2>1. convHelper["TR"] \in Helper
        /\ convHelper \in [{"DC", "TR"} -> Helper \union {"giveUp"}]
    BY DEF Init, Helper
  <2>2. {circuit.src, circuit.gMin} \subseteq Nat
    BY StepAssumption DEF Init, FullCircuit
  <2>3. tried \in Seq(Helper) /\ estack \in Seq({"NO_CONVERGENCE"})
    BY DEF Init
  <2>4. todo \in Seq({"DC", "TR"}) /\ pc = "idle" /\ preferred \in Requested
        /\ fallback \in 0..6 /\ retry \in -1..5
    BY AnalysesAssumption DEF Init
  <2>5. nonLinear \in BOOLEAN /\ again \in BOOLEAN /\ error \in BOOLEAN
    BY Zenon DEF Init
  <2> QED
    BY <2>1, <2>2, <2>3, <2>4, <2>5, Zenon DEF DcTypes
<1>2. Helpers
  BY DEF Init, Helpers, NothingSaved
<1> QED
  BY <1>1, <1>2, InitDcInv DEF HInv

\* The helper that follows is none of those tried so far.
LEMMA NextHelper ==
  ASSUME preferred \in Helper, NEW n \in 0..5
  PROVE  /\ NextFallback(n) \in (n + 1)..6
         /\ helpers[NextFallback(n)] # preferred
         /\ {preferred} \union {helpers[j] : j \in 1..NextFallback(n)}
              = {preferred} \union {helpers[j] : j \in 1..n}
                  \union {helpers[NextFallback(n)]}
<1>1. preferred # "giveUp"
  BY DEF Helper, Damping
<1> DEFINE next == NextFallback(n)
<1>2. CASE preferred # "None" /\ preferred = helpers[n + 1]
  <2>1. next = n + 2
    BY <1>2 DEF NextFallback
  <2>2. n + 1 # 6
    BY <1>1, <1>2, HelperList
  <2>3. next \in (n + 1)..6 /\ n + 1 \in 1..6 /\ next \in 1..6 /\ n + 1 # next
    BY <2>1, <2>2
  <2>4. helpers[next] # preferred
    BY <1>2, <2>3, HelpersDiffer
  <2>5. 1..next = (1..n) \union {n + 1, next}
    BY <2>1
  <2> HIDE DEF next
  <2>6. {helpers[j] : j \in 1..next} = {helpers[j] : j \in 1..n} \union {preferred, helpers[next]}
    BY <1>2, <2>5
  <2> QED
    BY <2>3, <2>4, <2>6 DEF next
<1>3. CASE ~(preferred # "None" /\ preferred = helpers[n + 1])
  <2>1. next = n + 1
    BY <1>3 DEF NextFallback
  <2>2. next \in (n + 1)..6 /\ next \in 1..6
    BY <2>1
  <2>3. helpers[next] # preferred
    <3>1. helpers[next] # "None"
      BY <2>2, HelperList
    <3> QED
      BY <1>3, <2>1, <3>1
  <2>4. 1..next = (1..n) \union {next}
    BY <2>1
  <2> HIDE DEF next
  <2>5. {helpers[j] : j \in 1..next} = {helpers[j] : j \in 1..n} \union {helpers[next]}
    BY <2>4
  <2> QED
    BY <2>2, <2>3, <2>5 DEF next
<1> QED
  BY <1>2, <1>3

\* A new element at the end.
LEMMA AppendRange ==
  ASSUME NEW S, NEW s \in Seq(S), NEW e \in S
  PROVE  /\ Append(s, e) \in Seq(S)
         /\ Range(Append(s, e)) = Range(s) \union {e}
         /\ IsInjective(s) /\ e \notin Range(s) => IsInjective(Append(s, e))
<1> DEFINE t == Append(s, e)
           n == Len(s)
<1>1. /\ t \in Seq(S) /\ n \in Nat /\ Len(t) = n + 1
      /\ DOMAIN s = 1..n /\ DOMAIN t = 1..(n + 1)
      /\ t[n + 1] = e /\ \A i \in 1..n : t[i] = s[i]
  BY LenProperties, AppendProperties
<1>2. 1..(n + 1) = (1..n) \union {n + 1} /\ n + 1 \notin 1..n
  BY <1>1
<1> HIDE DEF t, n
<1>3. Range(t) = Range(s) \union {e}
  <2>1. Range(t) = {t[i] : i \in (1..n) \union {n + 1}}
    BY <1>1, <1>2 DEF Range
  <2>2. Range(s) = {s[i] : i \in 1..n}
    BY <1>1 DEF Range
  <2> QED
    BY <1>1, <2>1, <2>2
<1>4. ASSUME IsInjective(s), e \notin Range(s) PROVE IsInjective(t)
  <2> SUFFICES ASSUME NEW i \in DOMAIN t, NEW j \in DOMAIN t, t[i] = t[j]
               PROVE  i = j
    BY DEF IsInjective
  <2>1. ASSUME NEW k \in 1..n PROVE t[k] # e
    BY <1>1, <1>4, <2>1 DEF Range
  <2>2. CASE i \in 1..n /\ j \in 1..n
    BY <1>1, <1>4, <2>2 DEF IsInjective
  <2>3. CASE i = n + 1 \/ j = n + 1
    BY <1>1, <1>2, <2>1, <2>3
  <2> QED
    BY <1>1, <1>2, <2>2, <2>3
<1> QED
  BY <1>1, <1>3, <1>4 DEF t

\* A pass changes nothing the callers know; only a failure sets the flag, and it
\* leaves an exception.
LEMMA PassHelpers ==
  ASSUME DcTypes, Helpers, NEW matrix, pc \in {"newton", "gmin", "source"},
         UNCHANGED caller, {circuit.src, circuit.gMin}' \subseteq Nat,
         GoOn(matrix) \/ Converged(matrix) \/ NoConvergence(matrix)
  PROVE  DcTypes' /\ Helpers'
<1>1. Below(matrix) \in Seq({"NO_CONVERGENCE"})
  BY DEF Below, DcTypes
<1>2. /\ pc' \in {"newton", "gmin", "source", "returned"}
      /\ error' \in BOOLEAN /\ estack' \in Seq({"NO_CONVERGENCE"})
      /\ pc' = "returned" /\ error' => estack' # <<>>
  <2>1. CASE GoOn(matrix)
    BY <1>1, <2>1 DEF GoOn, DcTypes
  <2>2. CASE Converged(matrix)
    BY <1>1, <2>2 DEF Converged
  <2>3. CASE NoConvergence(matrix)
    <3>1. <<"NO_CONVERGENCE">> \o Below(matrix) \in Seq({"NO_CONVERGENCE"}) \ {<<>>}
      <4> DEFINE below == Below(matrix)
      <4>1. ASSUME below \in Seq({"NO_CONVERGENCE"})
            PROVE  <<"NO_CONVERGENCE">> \o below \in Seq({"NO_CONVERGENCE"}) \ {<<>>}
        BY <4>1
      <4> QED
        BY <1>1, <4>1
    <3> QED
      BY <2>3, <3>1 DEF NoConvergence
  <2> QED
    BY <2>1, <2>2, <2>3
<1>3. DcTypes'
  BY <1>2 DEF DcTypes, caller
<1>4. Helpers'
  <2>1. Running("DC")' => Running("DC")
    BY DEF Running, caller
  <2>2. Tries => Tries'
    BY DEF Tries, caller
  <2> QED
    BY <1>2, <2>1, <2>2 DEF Helpers, caller
<1> QED
  BY <1>3, <1>4

\* A search begins.
LEMMA SolvePc ==
  ASSUME NEW helper, Solve(helper)
  PROVE  pc' \in {"newton", "gmin", "source"}
BY DEF Solve

\* An analysis that saves.
LEMMA SavePc ==
  ASSUME DcTypes, Save, todo # <<>>
  PROVE  /\ pc' = "idle" /\ todo' \in Seq({"DC", "TR"})
         /\ tried' = tried
         /\ saved' = [by |-> Head(todo), converged |-> ~error, tried |-> tried]
BY DEF DcTypes, Save

LEMMA StartDCHelpers == DcTypes /\ Helpers /\ StartDC => DcTypes' /\ Helpers'
<1> SUFFICES ASSUME DcTypes, Helpers, StartDC PROVE DcTypes' /\ Helpers'
  OBVIOUS
<1>1. pc' \in {"newton", "gmin", "source"} /\ preferred \in Helper
  BY SolvePc, RequestedAssumption DEF StartDC, DcTypes
<1>2. tried' \in Seq(Helper) /\ Range(tried') = {preferred} /\ IsInjective(tried')
  BY <1>1 DEF StartDC, Range, IsInjective
<1>3. DcTypes'
  <2>1. convHelper' \in [{"DC", "TR"} -> Helper \union {"giveUp"}]
        /\ convHelper'["TR"] \in Helper
    BY <1>1 DEF StartDC, DcTypes
  <2>2. todo' # <<>>
    BY DEF StartDC, Running
  <2> QED
    BY <1>1, <1>2, <2>1, <2>2 DEF StartDC, DcTypes
<1>4. Tries'
  <2>1. {helpers[j] : j \in 1..0} = {}
    OBVIOUS
  <2>2. fallback' = 0 /\ retry' = -1 /\ preferred' = preferred
    BY DEF StartDC
  <2> QED
    BY <1>2, <2>1, <2>2 DEF Tries
<1>5. Helpers'
  BY <1>1, <1>4 DEF Helpers, StartDC
<1> QED
  BY <1>3, <1>5

LEMMA LinearHelpers ==
  ASSUME DcTypes, Helpers, SourcesRestored, NEW matrix, SolveLinear(matrix)
  PROVE  DcTypes' /\ Helpers'
<1>1. convHelper' \in [{"DC", "TR"} -> Helper \union {"giveUp"}]
      /\ convHelper'["TR"] \in Helper
  BY DEF SolveLinear, DcTypes, Helper
<1>2. {circuit.src, circuit.gMin}' \subseteq Nat
  BY StepAssumption DEF SolveLinear, SourcesRestored
<1>3. estack' \in Seq({"NO_CONVERGENCE"}) /\ tried' \in Seq(Helper)
  BY DEF SolveLinear, Below, DcTypes
<1>4. todo' \in Seq({"DC", "TR"})
  BY DEF SolveLinear, Running, DcTypes
<1>5. DcTypes'
  BY <1>1, <1>2, <1>3, <1>4 DEF SolveLinear, DcTypes
<1>6. Helpers'
  BY DEF SolveLinear, Helpers, NothingSaved
<1> QED
  BY <1>5, <1>6

LEMMA ReturnDCHelpers == DcTypes /\ Helpers /\ ReturnDC => DcTypes' /\ Helpers'
<1> SUFFICES ASSUME DcTypes, Helpers, ReturnDC PROVE DcTypes' /\ Helpers'
  OBVIOUS
<1>1. Tries /\ todo # <<>> /\ pc = "returned" /\ preferred \in Helper
  BY RequestedAssumption DEF ReturnDC, Running, Helpers, DcTypes
<1> DEFINE next == NextFallback(fallback)
           helper == helpers[next]
<1>2. /\ next \in (fallback + 1)..6 /\ next \in 1..6
      /\ helper # preferred
      /\ {preferred} \union {helpers[j] : j \in 1..next} = Range(tried) \union {helper}
  <2>1. fallback \in 0..5
        /\ Range(tried) = {preferred} \union {helpers[j] : j \in 1..fallback}
    BY <1>1 DEF Tries
  <2>2. /\ next \in (fallback + 1)..6
        /\ helper # preferred
        /\ {preferred} \union {helpers[j] : j \in 1..next}
             = {preferred} \union {helpers[j] : j \in 1..fallback} \union {helper}
    BY <1>1, <2>1, NextHelper
  <2> HIDE DEF helper, next
  <2>3. next \in 1..6
    BY <2>1, <2>2
  <2> QED
    BY <2>1, <2>2, <2>3
<1>3. CASE Catch /\ helper = "giveUp"
  <2>1. next = 6
    BY <1>2, <1>3, HelpersDiffer
  <2>2. Save /\ retry' = -1 /\ fallback' = next /\ estack' = Tail(estack)
        /\ estack # <<>> /\ convHelper' = [convHelper EXCEPT !["DC"] = helper]
    BY <1>3 DEF Catch
  <2>3. Damping \union {"SourceStepping", "gMinStepping"} \subseteq Range(tried)
    <3>1. {helpers[j] : j \in 1..6} \subseteq Range(tried) \union {"giveUp"}
      BY <1>2, <1>3, <2>1
    <3>2. {helpers[1], helpers[2], helpers[3], helpers[4], helpers[5]}
            \subseteq {helpers[j] : j \in 1..6}
      OBVIOUS
    <3> QED
      BY <3>1, <3>2, HelperList DEF Damping
  <2>4. /\ pc' = "idle" /\ todo' \in Seq({"DC", "TR"}) /\ tried' = tried
        /\ saved'.tried = tried
    BY <1>1, <2>2, SavePc
  <2>5. DcTypes'
    <3>1. estack' \in Seq({"NO_CONVERGENCE"})
      BY <2>2 DEF DcTypes
    <3>2. convHelper' \in [{"DC", "TR"} -> Helper \union {"giveUp"}]
          /\ convHelper'["TR"] \in Helper
      BY <1>3, <2>2 DEF DcTypes
    <3> QED
      BY <2>1, <2>2, <2>4, <3>1, <3>2 DEF DcTypes, ReturnDC
  <2>6. Helpers'
    BY <2>3, <2>4 DEF Helpers
  <2> QED
    BY <2>5, <2>6
<1>4. CASE Catch /\ helper # "giveUp"
  <2>1. /\ estack # <<>> /\ estack' = Tail(estack)
        /\ fallback' = next
        /\ convHelper' = [convHelper EXCEPT !["DC"] = helper]
        /\ tried' = Append(tried, helper)
        /\ Solve(helper)
        /\ retry' = (IF error THEN retry ELSE -1) + 1
        /\ UNCHANGED <<todo, saved>>
    BY <1>4 DEF Catch, SolveAgain
  <2>2. next \in (fallback + 1)..5 /\ helper \in Helper
    <3>1. next # 6
      BY <1>4, HelperList
    <3>2. next \in (fallback + 1)..5 /\ next \in 1..5
      BY <1>1, <1>2, <3>1 DEF Tries
    <3> QED
      BY <3>2, HelpersDiffer
  <2>3. helper \notin Range(tried)
    <3>1. ASSUME NEW j \in 1..fallback PROVE helper # helpers[j]
      <4>1. j \in 1..6 /\ next \in 1..6 /\ j # next
        BY <1>1, <1>2 DEF Tries
      <4> QED
        BY <4>1, HelpersDiffer
    <3> QED
      BY <1>1, <1>2, <3>1 DEF Tries
  <2>4. /\ tried' \in Seq(Helper) /\ IsInjective(tried')
        /\ Range(tried') = {preferred} \union {helpers[j] : j \in 1..next}
    <3>1. tried \in Seq(Helper) /\ IsInjective(tried)
      BY <1>1 DEF DcTypes, Tries
    <3>2. /\ Append(tried, helper) \in Seq(Helper)
          /\ Range(Append(tried, helper)) = Range(tried) \union {helper}
          /\ IsInjective(Append(tried, helper))
      BY <2>2, <2>3, <3>1, AppendRange
    <3> HIDE DEF helper, next
    <3> QED
      BY <1>2, <2>1, <3>2
  <2>5. pc' \in {"newton", "gmin", "source"} /\ preferred' = preferred
    BY <2>1, SolvePc DEF ReturnDC
  <2>6. retry' \in 0..5 /\ retry' < next
    <3>1. retry \in -1..5 /\ retry < fallback /\ fallback \in 0..5 /\ next \in (fallback + 1)..5
      BY <1>1, <2>2 DEF DcTypes, Tries
    <3> HIDE DEF next
    <3> QED
      BY <2>1, <3>1
  <2>7. DcTypes'
    <3>1. estack' \in Seq({"NO_CONVERGENCE"})
      BY <2>1 DEF DcTypes
    <3>2. convHelper' \in [{"DC", "TR"} -> Helper \union {"giveUp"}]
          /\ convHelper'["TR"] \in Helper
      BY <2>1, <2>2 DEF DcTypes
    <3>3. fallback' \in 0..6 /\ retry' \in -1..5
      BY <1>2, <2>1, <2>6
    <3> QED
      BY <1>1, <2>1, <2>4, <2>5, <3>1, <3>2, <3>3 DEF DcTypes, ReturnDC
  <2>8. Tries'
    <3>1. fallback' \in 0..5 /\ fallback' = next
      BY <1>1, <2>1, <2>2 DEF Tries
    <3> HIDE DEF next
    <3> QED
      BY <2>4, <2>5, <2>6, <3>1 DEF Tries
  <2>9. Helpers'
    BY <2>1, <2>5, <2>8 DEF Helpers
  <2> QED
    BY <2>7, <2>9
<1>5. CASE ~Catch
  <2>1. estack = <<>> /\ Save /\ retry' = -1 /\ UNCHANGED <<fallback, convHelper, estack>>
    BY <1>5 DEF ReturnDC
  <2>2. ~error
    BY <1>1, <2>1 DEF Helpers
  <2>3. /\ pc' = "idle" /\ todo' \in Seq({"DC", "TR"}) /\ tried' = tried
        /\ saved'.converged
    <3>1. /\ pc' = "idle" /\ todo' \in Seq({"DC", "TR"}) /\ tried' = tried
          /\ saved' = [by |-> Head(todo), converged |-> ~error, tried |-> tried]
      BY <1>1, <2>1, SavePc
    <3>2. saved'.converged = ~error
      BY <3>1, Zenon
    <3> QED
      BY <2>2, <3>1, <3>2, Zenon
  <2>4. DcTypes'
    BY <2>1, <2>3 DEF DcTypes, ReturnDC
  <2>5. Helpers'
    BY <2>3 DEF Helpers
  <2> QED
    BY <2>4, <2>5
<1> QED
  BY <1>3, <1>4, <1>5 DEF ReturnDC

\* A transient analysis has no list of helpers.
LEMMA TRHelpers == DcTypes /\ Helpers /\ (StartTR \/ ReturnTR) => DcTypes' /\ Helpers'
<1> SUFFICES ASSUME DcTypes, Helpers, StartTR \/ ReturnTR PROVE DcTypes' /\ Helpers'
  OBVIOUS
<1>1. todo # <<>> /\ Head(todo) = "TR" /\ ~Running("DC")
  BY DEF StartTR, ReturnTR, Running
<1>2. CASE StartTR
  <2>1. pc' \in {"newton", "gmin", "source"} /\ tried' \in Seq(Helper)
    BY <1>2, SolvePc DEF StartTR, DcTypes
  <2>2. DcTypes'
    BY <1>1, <1>2, <2>1 DEF StartTR, DcTypes
  <2>3. Helpers'
    BY <1>1, <1>2, <2>1 DEF StartTR, Helpers, Running
  <2> QED
    BY <2>2, <2>3
<1>3. CASE ReturnTR /\ SolveAgain("LineSearch")
  <2>1. pc' \in {"newton", "gmin", "source"} /\ UNCHANGED <<todo, saved>>
    BY <1>3, SolvePc DEF SolveAgain
  <2>2. tried' \in Seq(Helper)
    BY <1>3, AppendRange DEF SolveAgain, DcTypes, Helper, Damping
  <2>3. /\ estack' \in Seq({"NO_CONVERGENCE"}) /\ again' \in BOOLEAN
        /\ convHelper' \in [{"DC", "TR"} -> Helper \union {"giveUp"}]
        /\ convHelper'["TR"] \in Helper
    <3>1. \/ /\ estack # <<>> /\ again' = TRUE /\ estack' = Tail(estack)
             /\ convHelper' = [convHelper EXCEPT !["TR"] = "LineSearch"]
          \/ Save
      BY <1>3 DEF ReturnTR
    <3>2. ~Save
      BY <2>1 DEF Save
    <3>3. again' \in BOOLEAN
      BY <3>1, <3>2, Zenon
    <3>4. estack' \in Seq({"NO_CONVERGENCE"})
      <4>1. estack # <<>> /\ estack' = Tail(estack)
        BY <3>1, <3>2, Zenon
      <4>2. estack \in Seq({"NO_CONVERGENCE"})
        BY DEF DcTypes
      <4> QED
        BY <4>1, <4>2
    <3>5. convHelper' = [convHelper EXCEPT !["TR"] = "LineSearch"]
      BY <3>1, <3>2
    <3>6. /\ convHelper' \in [{"DC", "TR"} -> Helper \union {"giveUp"}]
          /\ convHelper'["TR"] \in Helper
      BY <3>5 DEF DcTypes, Helper, Damping
    <3> QED
      BY <3>3, <3>4, <3>6, Zenon
  <2>4. DcTypes'
    BY <1>1, <1>3, <2>1, <2>2, <2>3 DEF ReturnTR, DcTypes
  <2>5. Helpers'
    BY <1>1, <2>1 DEF Helpers, Running
  <2> QED
    BY <2>4, <2>5
<1>4. CASE ReturnTR /\ ~SolveAgain("LineSearch")
  <2>1. /\ Save /\ UNCHANGED <<again, estack>>
        /\ convHelper' \in {convHelper} \union
             (IF error THEN {} ELSE {[convHelper EXCEPT !["TR"] = h] :
                                       h \in {"None", "SteepestDescent"}})
    BY <1>4 DEF ReturnTR
  <2>2. convHelper' \in [{"DC", "TR"} -> Helper \union {"giveUp"}]
        /\ convHelper'["TR"] \in Helper
    <3>1. \/ convHelper' = convHelper
          \/ \E h \in {"None", "SteepestDescent"} :
               convHelper' = [convHelper EXCEPT !["TR"] = h]
      BY <2>1
    <3> QED
      BY <3>1 DEF DcTypes, Helper, Damping
  <2>3. /\ pc' = "idle" /\ todo' \in Seq({"DC", "TR"}) /\ tried' = tried
        /\ saved'.by = "TR"
    BY <1>1, <2>1, SavePc
  <2>4. DcTypes'
    BY <1>4, <2>1, <2>2, <2>3 DEF DcTypes, ReturnTR
  <2>5. Helpers'
    BY <2>3 DEF Helpers
  <2> QED
    BY <2>4, <2>5
<1> QED
  BY <1>2, <1>3, <1>4

LEMMA NextHInv == HInv /\ [Next]_vars => HInv'
<1> SUFFICES ASSUME HInv, [Next]_vars PROVE DcTypes' /\ Helpers'
  BY NextDcInv DEF HInv
<1> USE DEF HInv
<1>1. ASSUME NEW matrix \in Matrix, NEW ok \in BOOLEAN,
             NewtonPass(matrix, ok) \/ GMinPass(matrix, ok) \/ SourcePass(matrix, ok)
      PROVE  DcTypes' /\ Helpers'
  <2>1. pc \in {"newton", "gmin", "source"} /\ UNCHANGED caller
    BY <1>1 DEF NewtonPass, GMinPass, SourcePass, Pass
  <2>2. {circuit.src, circuit.gMin}' \subseteq Nat
    BY <1>1 DEF NewtonPass, GMinPass, SourcePass, Pass, DcInv
  <2>3. GoOn(matrix) \/ Converged(matrix) \/ NoConvergence(matrix)
    BY <1>1 DEF NewtonPass, GMinPass, SourcePass
  <2> QED
    BY <2>1, <2>2, <2>3, PassHelpers
<1>2. ASSUME NEW matrix \in Matrix, SolveLinear(matrix)
      PROVE  DcTypes' /\ Helpers'
  BY <1>2, LinearHelpers DEF DcInv
<1>3. CASE StartDC
  BY <1>3, StartDCHelpers
<1>4. CASE ReturnDC
  BY <1>4, ReturnDCHelpers
<1>5. CASE StartTR \/ ReturnTR
  BY <1>5, TRHelpers
<1>6. CASE UNCHANGED vars
  <2>1. DcTypes'
    BY <1>6 DEF vars, DcTypes
  <2>2. Helpers'
    BY <1>6 DEF vars, Helpers, Running, Tries
  <2> QED
    BY <2>1, <2>2
<1> QED
  BY <1>1, <1>2, <1>3, <1>4, <1>5, <1>6 DEF Next

\* The variables keep their types, the numbers of the fallback and of the retry
\* among them, which no list of helpers runs past.
THEOREM SolverTypes == Spec => []TypeOK
<1>1. HInv => TypeOK
  BY DEF HInv, DcInv, DcTypes, TypeOK
<1> QED
  BY <1>1, InitHInv, NextHInv, PTL DEF Spec

\* dcsolver::solve tries every helper once, the one asked for first, and saves the
\* voltages of a failed search only when none is left, whatever the circuit does
\* and whatever exceptions other analyses have left on the stack.
THEOREM HelpersOnce == Spec => []EachHelperOnce
<1>1. HInv => EachHelperOnce
  BY DEF HInv, Helpers, Tries, EachHelperOnce
<1> QED
  BY <1>1, InitHInv, NextHInv, PTL DEF Spec

-----------------------------------------------------------------------------
\* TransientSolver, for every length of the rings, every order they can carry, all
\* limits of the step and all estimates, if the first two passes converge.  (If
\* they do not, the properties fail: see "Disagreements found" in README.md.)

-----------------------------------------------------------------------------
\* The ring of states is a shift register, for every length: a value that was set
\* is read back, at no other position, until STATE_NUM - 1 shifts later it has gone
\* through all of them.

\* A position is a slot, and two positions are two slots.
LEMMA SlotsDiffer ==
  ASSUME NEW S, NEW ring \in Ring(S), NEW n \in Positions, NEW m \in Positions
  PROVE  /\ Slot(ring, n) \in Positions
         /\ n # m => Slot(ring, n) # Slot(ring, m)
  BY StateNumAssumption DEF Ring, Positions, Slot

\* What was set is read, and no other position has changed.
LEMMA SetGet ==
  ASSUME NEW S, NEW ring \in Ring(S), NEW v \in S, NEW n \in Positions
  PROVE  /\ SetState(ring, v, n) \in Ring(S)
         /\ GetState(SetState(ring, v, n), n) = v
         /\ \A m \in Positions : m # n => GetState(SetState(ring, v, n), m) = GetState(ring, m)
<1>1. /\ ring.val \in [Positions -> S] /\ ring.at \in Positions
      /\ ring = [val |-> ring.val, at |-> ring.at]
  BY DEF Ring
<1>2. SetState(ring, v, n) =
        [val |-> [ring.val EXCEPT ![Slot(ring, n)] = v], at |-> ring.at]
  BY <1>1 DEF SetState
<1>3. Slot(ring, n) \in Positions
  BY SlotsDiffer
<1>4. SetState(ring, v, n) \in Ring(S)
  BY <1>1, <1>2, <1>3 DEF Ring
<1>5. \A m \in Positions : Slot(SetState(ring, v, n), m) = Slot(ring, m)
  BY <1>2 DEF Slot
<1>6. GetState(SetState(ring, v, n), n) = v
  BY <1>1, <1>2, <1>3, <1>5 DEF GetState
<1>7. ASSUME NEW m \in Positions, m # n
      PROVE  GetState(SetState(ring, v, n), m) = GetState(ring, m)
  <2>1. Slot(ring, m) \in Positions /\ Slot(ring, m) # Slot(ring, n)
    BY <1>7, SlotsDiffer
  <2> QED
    BY <1>1, <1>2, <1>5, <2>1 DEF GetState
<1> QED
  BY <1>4, <1>6, <1>7

\* A shift moves every value by one position; the last one is lost.
LEMMA NextGet ==
  ASSUME NEW S, NEW ring \in Ring(S)
  PROVE  /\ NextState(ring) \in Ring(S)
         /\ \A n \in 0 .. STATE_NUM - 2 : GetState(NextState(ring), n + 1) = GetState(ring, n)
<1>1. /\ ring.val \in [Positions -> S] /\ ring.at \in Positions
      /\ ring = [val |-> ring.val, at |-> ring.at]
  BY DEF Ring
<1>2. NextState(ring) =
        [val |-> ring.val, at |-> IF ring.at = 0 THEN STATE_NUM - 1 ELSE ring.at - 1]
  BY <1>1 DEF NextState
<1>3. NextState(ring) \in Ring(S)
  BY <1>1, <1>2, StateNumAssumption DEF Ring, Positions
<1>4. ASSUME NEW n \in 0 .. STATE_NUM - 2
      PROVE  GetState(NextState(ring), n + 1) = GetState(ring, n)
  <2>1. Slot(NextState(ring), n + 1) = Slot(ring, n)
    <3>1. ring.at \in 0 .. (STATE_NUM - 1) /\ n \in Nat /\ STATE_NUM \in Nat \ {0}
      BY <1>1, StateNumAssumption DEF Positions
    <3>2. NextState(ring).at = IF ring.at = 0 THEN STATE_NUM - 1 ELSE ring.at - 1
      BY <1>2
    <3>3. CASE ring.at = 0
      BY <3>1, <3>2, <3>3 DEF Slot
    <3>4. CASE ring.at # 0
      BY <3>1, <3>2, <3>4 DEF Slot
    <3> QED BY <3>3, <3>4
  <2> QED
    BY <1>2, <2>1 DEF GetState
<1> QED
  BY <1>3, <1>4

\* All positions of a ring that was filled have the one value.
LEMMA FillGet ==
  ASSUME NEW S, NEW ring \in Ring(S), NEW v \in S
  PROVE  /\ FillState(ring, v) \in Ring(S)
         /\ Filled(v) \in Ring(S)
         /\ \A n \in Positions : GetState(FillState(ring, v), n) = v
<1>1. /\ ring.at \in Positions /\ ring = [val |-> ring.val, at |-> ring.at]
  BY DEF Ring
<1>2. FillState(ring, v) = [val |-> [i \in Positions |-> v], at |-> ring.at]
  BY <1>1 DEF FillState
<1>3. FillState(ring, v) \in Ring(S)
  BY <1>1, <1>2 DEF Ring
<1>4. Filled(v) \in Ring(S)
  BY StateNumAssumption DEF Filled, Ring, Positions
<1>5. ASSUME NEW n \in Positions PROVE GetState(FillState(ring, v), n) = v
  <2>1. Slot(FillState(ring, v), n) \in Positions
    BY <1>3, SlotsDiffer
  <2> QED
    BY <1>2, <2>1 DEF GetState
<1> QED
  BY <1>3, <1>4, <1>5

-----------------------------------------------------------------------------

\* What the theorems assume of the circuit.
StartsWell == Fragile \subseteq {2}

\* Numbers in rings.
Number == Int

Solutions == [time : Int, made : {"initially", "predicted", "solved", "failed"}]

RingsOK ==
  /\ deltas \in Ring(Number) /\ charges \in Ring(Number)
  /\ solution \in Ring(Solutions) /\ x \in Solutions

\* Where the first passes are.
Progress ==
  /\ stage \in {"step", "save"} => point > 0
  /\ running = 0 => current = 0 /\ saveCurrent = 0
  /\ running < 2 => corrOrder = 1
  /\ running > 1 => saveCurrent > 0

IInv == TRTypeOK /\ RingsOK /\ Progress /\ StepsMatchTimes /\ IntegratorsMatch /\ HistoryIsTrue

-----------------------------------------------------------------------------
\* The rings

LEMMA ChargesNowRing ==
  ASSUME TRTypeOK, RingsOK
  PROVE  /\ ChargesNow \in Ring(Number)
         /\ GetState(ChargesNow, 0) = current
         /\ running > 0 => \A n \in 1 .. STATE_NUM - 1 :
              GetState(ChargesNow, n) = GetState(charges, n)
<1>1. running \in Nat
  BY DEF TRTypeOK
<1>4. current \in Number /\ charges \in Ring(Number) /\ 0 \in Positions
  BY StateNumAssumption DEF TRTypeOK, RingsOK, Positions, Number
<1>2. CASE running = 0
  BY <1>4, <1>2, FillGet DEF ChargesNow
<1>3. CASE running # 0
  <2>1. \A n \in 1 .. STATE_NUM - 1 : n \in Positions /\ n # 0
    BY StateNumAssumption DEF Positions
  <2>2. /\ ChargesNow \in Ring(Number) /\ GetState(ChargesNow, 0) = current
        /\ \A n \in Positions : n # 0 => GetState(ChargesNow, n) = GetState(charges, n)
    BY <1>3, <1>4, SetGet DEF ChargesNow
  <2> QED
    BY <2>1, <2>2
<1> QED
  BY <1>2, <1>3

LEMMA DeltasNowRing ==
  ASSUME TRTypeOK, RingsOK
  PROVE  /\ DeltasNow \in Ring(Number)
         /\ GetState(DeltasNow, 0) = delta
         /\ \A n \in 1 .. STATE_NUM - 1 : GetState(DeltasNow, n) = GetState(deltas, n)
<1>1. delta \in Number /\ deltas \in Ring(Number) /\ 0 \in Positions
  BY StateNumAssumption, DeltaAssumption DEF TRTypeOK, RingsOK, Positions, Number
<1>2. \A n \in 1 .. STATE_NUM - 1 : n \in Positions /\ n # 0
  BY StateNumAssumption DEF Positions
<1> QED
  BY <1>1, <1>2, SetGet DEF DeltasNow

\* A pass that is taken back changes no position but 0.
LEMMA StayKeeps ==
  ASSUME TRTypeOK, RingsOK, running > 0, Stay, x' \in Solutions
  PROVE  /\ RingsOK'
         /\ \A n \in 1 .. STATE_NUM - 1 :
              /\ SOL(n)' = SOL(n)
              /\ GetState(deltas', n) = GetState(deltas, n)
              /\ GetState(charges', n) = GetState(charges, n)
<1>1. Vector(current, "predicted") \in Solutions /\ 0 \in Positions
  BY StateNumAssumption DEF TRTypeOK, Vector, Solutions, Positions
<1>2. \A n \in 1 .. STATE_NUM - 1 : n \in Positions /\ n # 0
  BY StateNumAssumption DEF Positions
<1>3. solution' = SetState(solution, Vector(current, "predicted"), 0)
      /\ deltas' = DeltasNow /\ charges' = ChargesNow
  BY DEF Stay
<1>4. solution' \in Ring(Solutions)
      /\ \A n \in 1 .. STATE_NUM - 1 : GetState(solution', n) = GetState(solution, n)
  BY <1>1, <1>2, <1>3, SetGet DEF RingsOK
<1> QED
  BY <1>3, <1>4, ChargesNowRing, DeltasNowRing DEF RingsOK, SOL

\* A pass that is accepted moves all positions on and is itself at position 1.
LEMMA ShiftMoves ==
  ASSUME TRTypeOK, RingsOK, NEW charged \in Ring(Number), Shift(charged), x' \in Solutions
  PROVE  /\ RingsOK'
         /\ SOL(1)' = x'
         /\ GetState(deltas', 1) = delta
         /\ GetState(charges', 1) = GetState(charged, 0)
         /\ \A n \in 1 .. STATE_NUM - 2 :
              /\ SOL(n + 1)' = SOL(n)
              /\ GetState(deltas', n + 1) = GetState(deltas, n)
              /\ GetState(charges', n + 1) = GetState(charged, n)
<1> DEFINE solved == SetState(solution, x', 0)
<1>1. /\ 0 \in Positions /\ 0 \in 0 .. STATE_NUM - 2
      /\ \A n \in 1 .. STATE_NUM - 2 : n \in Positions /\ n # 0 /\ n \in 0 .. STATE_NUM - 2
                                       /\ n \in 1 .. STATE_NUM - 1
  BY StateNumAssumption DEF Positions
<1>2. solved \in Ring(Solutions) /\ GetState(solved, 0) = x'
      /\ \A n \in Positions : n # 0 => GetState(solved, n) = GetState(solution, n)
  BY <1>1, SetGet DEF RingsOK
<1>3. solution' = NextState(solved) /\ deltas' = NextState(DeltasNow)
      /\ charges' = NextState(charged)
  BY DEF Shift
<1> HIDE DEF solved
<1>4. solution' \in Ring(Solutions)
      /\ \A n \in 0 .. STATE_NUM - 2 : GetState(solution', n + 1) = GetState(solved, n)
  BY <1>2, <1>3, NextGet
<1>5. deltas' \in Ring(Number)
      /\ \A n \in 0 .. STATE_NUM - 2 : GetState(deltas', n + 1) = GetState(DeltasNow, n)
  BY <1>3, NextGet, DeltasNowRing
<1>6. charges' \in Ring(Number)
      /\ \A n \in 0 .. STATE_NUM - 2 : GetState(charges', n + 1) = GetState(charged, n)
  BY <1>3, NextGet
<1>7. SOL(1)' = x' /\ GetState(deltas', 1) = delta
      /\ GetState(charges', 1) = GetState(charged, 0)
  <2>1. 0 + 1 = 1
    OBVIOUS
  <2> QED
    BY <1>1, <1>2, <1>4, <1>5, <1>6, <2>1, DeltasNowRing DEF SOL
<1>8. ASSUME NEW n \in 1 .. STATE_NUM - 2
      PROVE  /\ SOL(n + 1)' = SOL(n)
             /\ GetState(deltas', n + 1) = GetState(deltas, n)
             /\ GetState(charges', n + 1) = GetState(charged, n)
  BY <1>1, <1>2, <1>4, <1>5, <1>6, DeltasNowRing DEF SOL
<1> QED
  BY <1>4, <1>5, <1>6, <1>7, <1>8 DEF RingsOK

-----------------------------------------------------------------------------
\* The numbers

LEMMA Constants ==
  /\ FirstStep \in Nat \ {0} /\ DeltaMin \in Nat \ {0} /\ DeltaMax \in Nat \ {0}
  /\ DeltaMin <= DeltaMax /\ FirstStep <= DeltaMax
  /\ MaxOrder \in Nat /\ 1 <= MaxOrder /\ MaxOrder <= STATE_NUM - 2
  /\ STATE_NUM \in Nat /\ Calm \in Nat
BY StateNumAssumption, DeltaAssumption, OrderAssumption, CalmAssumption

LEMMA Sums == \A a, b \in Nat : a + b \in Nat
OBVIOUS

LEMMA LimitedRange == \A d \in Int : Limited(d) \in DeltaMin .. DeltaMax
BY Constants DEF Limited, AtLeast, AtMost

LEMMA CheckDeltaRange ==
  ASSUME TRTypeOK, NEW n \in Estimates
  PROVE  CheckDelta(n) \in DeltaMin .. DeltaMax
<1>1. delta \in Nat /\ n \in Nat
  BY Constants, CircuitAssumption DEF TRTypeOK
<1>2. AtMost(IF 10 * n > 19 * delta THEN 2 * delta ELSE delta, n) \in Int
  BY <1>1 DEF AtMost
<1> QED
  BY <1>2, LimitedRange DEF CheckDelta

\* Whatever the estimate, the step adjustDelta arrives at is in its limits.
LEMMA AdjustedRange ==
  ASSUME TRTypeOK, Progress, stage = "step", NEW n \in Estimates
  PROVE  /\ Adjusted(n).delta \in DeltaMin .. DeltaMax
         /\ Adjusted(n).next \in {-1} \union (1 .. DeltaMax)
<1>1. /\ time \in Nat /\ current \in Nat /\ delta \in 1 .. DeltaMax /\ n \in Nat
      /\ stepDelta \in {-1} \union (1 .. DeltaMax)
  BY Constants, TimesAssumption, CircuitAssumption DEF TRTypeOK, Progress, time
<1>2. CheckDelta(n) \in DeltaMin .. DeltaMax
  BY CheckDeltaRange
<1>3. Limited(stepDelta) \in DeltaMin .. DeltaMax
      /\ Limited(time - current) \in DeltaMin .. DeltaMax
  BY <1>1, LimitedRange, Constants
<1>4. HitsTimes \in BOOLEAN
  BY DEF HitsTimes
<1>5. CASE ~HitsTimes
  BY <1>1, <1>2, <1>5 DEF Adjusted
<1>6. CASE HitsTimes /\ stepDelta > 0
  BY <1>1, <1>3, <1>6 DEF Adjusted
<1>7. CASE HitsTimes /\ stepDelta <= 0 /\ current < time /\ CheckDelta(n) > time - current
  BY <1>1, <1>3, <1>7 DEF Adjusted
<1>8. CASE HitsTimes /\ stepDelta <= 0 /\ ~(current < time /\ CheckDelta(n) > time - current)
  BY <1>1, <1>2, <1>8 DEF Adjusted
<1> QED
  BY <1>1, <1>4, <1>5, <1>6, <1>7, <1>8

-----------------------------------------------------------------------------
\* The invariant

LEMMA InitTRInv == TRInit => IInv
<1> SUFFICES ASSUME TRInit PROVE IInv
  OBVIOUS
<1>1. TRTypeOK
  <2>1. relaxTSR \in BOOLEAN /\ statConvergence \in BOOLEAN
    BY CalmAssumption, Zenon DEF TRInit
  <2>2. Len(Times) \in Nat
    BY TimesAssumption
  <2> QED
    BY <2>1, <2>2, Constants DEF TRInit, TRTypeOK
<1>2. Vector(0, "initially") \in Solutions /\ FirstStep \in Number /\ -1 \in Number
  BY Constants DEF Vector, Solutions, Number
<1>3. \A S : \A v \in S : Filled(v) \in Ring(S)
  BY StateNumAssumption DEF Filled, Ring, Positions
<1>4. RingsOK
  BY <1>2, <1>3 DEF TRInit, RingsOK
<1> QED
  BY <1>1, <1>4 DEF TRInit, IInv, Progress, StepsMatchTimes, IntegratorsMatch, HistoryIsTrue

\* A step that only turns to another time or saves leaves all of it alone.
LEMMA QuietIInv ==
  ASSUME IInv, NextTime \/ SaveResults \/ Abort \/ UNCHANGED trVars
  PROVE  IInv'
<1>1. UNCHANGED <<relaxTSR, current, saveCurrent, delta, stepDelta, corrOrder, passes, running,
                  converged, statConvergence, convError, trHelper, x, deltas, solution,
                  charges, tHistory>>
  BY DEF NextTime, SaveResults, Abort, trVars
<1>2. RingsOK' /\ StepsMatchTimes' /\ IntegratorsMatch' /\ HistoryIsTrue'
  BY <1>1 DEF IInv, RingsOK, StepsMatchTimes, IntegratorsMatch, HistoryIsTrue, SOL
<1>3. Len(Times) \in Nat
  BY TimesAssumption
<1>4. TRTypeOK' /\ Progress'
  BY <1>1, <1>3 DEF IInv, TRTypeOK, Progress, NextTime, SaveResults, Abort, trVars
<1> QED
  BY <1>2, <1>4 DEF IInv

\* What a pass that is taken back leaves of the history, if the new time is right.
LEMMA StayIInv ==
  ASSUME IInv, running > 1, Stay, x' \in Solutions,
         running' = running, saveCurrent' = saveCurrent,
         tHistory'.at = tHistory.at, tHistory'.due = tHistory.due,
         tHistory'.of # tHistory.of => tHistory'.of.time > saveCurrent,
         current' = saveCurrent + delta', corrOrder' \in 1 .. corrOrder
  PROVE  RingsOK' /\ StepsMatchTimes' /\ IntegratorsMatch' /\ HistoryIsTrue'
<1>1. /\ TRTypeOK /\ RingsOK /\ running > 0 /\ corrOrder + 1 <= STATE_NUM - 1
      /\ corrOrder \in Nat
  BY Constants DEF IInv, TRTypeOK
<1>2. /\ RingsOK'
      /\ \A n \in 1 .. STATE_NUM - 1 :
           /\ SOL(n)' = SOL(n)
           /\ GetState(deltas', n) = GetState(deltas, n)
           /\ GetState(charges', n) = GetState(charges, n)
  BY <1>1, StayKeeps
<1>3. \A o \in 1 .. corrOrder' : /\ o \in 1 .. corrOrder
                                 /\ o \in 1 .. STATE_NUM - 1 /\ o + 1 \in 1 .. STATE_NUM - 1
  BY <1>1, Constants
<1>4. 1 \in 1 .. STATE_NUM - 1
  BY Constants, <1>1
<1>5. StepsMatchTimes'
  BY <1>2, <1>3, <1>4 DEF IInv, StepsMatchTimes
<1>6. IntegratorsMatch'
  BY <1>1, <1>2, <1>3 DEF IInv, IntegratorsMatch
<1>7. HistoryIsTrue'
  BY <1>1, <1>2, <1>4 DEF IInv, HistoryIsTrue
<1> QED
  BY <1>2, <1>5, <1>6, <1>7

LEMMA FailsIInv ==
  ASSUME StartsWell, IInv, CorrectorFails
  PROVE  IInv'
<1>1. running = 2
  BY DEF CorrectorFails, StartsWell, IInv, TRTypeOK
<1>2. /\ current \in Nat /\ saveCurrent \in Nat /\ saveCurrent > 0
      /\ current = saveCurrent + delta /\ delta \in 1 .. DeltaMax
      /\ corrOrder \in 1 .. MaxOrder
  BY <1>1, Constants DEF IInv, TRTypeOK, Progress, StepsMatchTimes
<1>3. delta' \in DeltaMin .. DeltaMax /\ delta' \in Nat /\ corrOrder' \in 1 .. corrOrder
  BY <1>2, Constants DEF CorrectorFails, Halved, AtLeast
<1>4. current' = saveCurrent + delta'
  <2>1. current > 0 /\ current - delta = saveCurrent
    BY <1>2
  <2> QED
    BY <1>2, <2>1 DEF CorrectorFails, SteppedBack
<1>5. x' \in Solutions
  BY <1>2 DEF CorrectorFails, Vector, Solutions
<1>6. RingsOK' /\ StepsMatchTimes' /\ IntegratorsMatch' /\ HistoryIsTrue'
  BY <1>1, <1>3, <1>4, <1>5, StayIInv DEF CorrectorFails
<1>7. TRTypeOK'
  <2>1. relaxTSR' \in BOOLEAN /\ statConvergence' \in BOOLEAN
    BY Zenon DEF IInv, TRTypeOK, CorrectorFails
  <2>2. current' \in Nat /\ delta' \in DeltaMin .. DeltaMax /\ corrOrder' \in 1 .. MaxOrder
    <3>1. current' \in Nat
      <4>1. saveCurrent \in Nat /\ delta' \in Nat
        BY <1>2, <1>3
      <4> QED
        BY <1>4, <4>1, Sums
    <3>2. corrOrder' \in 1 .. MaxOrder
      BY <1>2, <1>3, Constants
    <3> QED
      BY <1>3, <3>1, <3>2
  <2>3. stage' \in {"step", "save"} /\ converged' \in 0 .. Calm + 1
    BY Constants DEF CorrectorFails, Loop
  <2>4. /\ UNCHANGED <<point, saveCurrent, stepDelta, running>>
        /\ convError' = 2 /\ trHelper' = "SteepestDescent" /\ passes' \in {0, 1}
    BY DEF CorrectorFails, IInv, TRTypeOK
  <2> QED
    BY <2>1, <2>2, <2>3, <2>4 DEF IInv, TRTypeOK
<1>8. Progress'
  BY <1>1, <1>2 DEF IInv, Progress, CorrectorFails, Loop
<1> QED
  BY <1>6, <1>7, <1>8 DEF IInv

\* The types behind a pass that converged.
LEMMA AdvanceTypes ==
  ASSUME IInv, stage = "step", Advance, saveCurrent' \in Nat,
         delta' \in {FirstStep} \union (DeltaMin .. DeltaMax),
         stepDelta' \in {-1} \union (1 .. DeltaMax), corrOrder' \in 1 .. MaxOrder
  PROVE  TRTypeOK'
<1>1. TRTypeOK
  BY DEF IInv
<1>2. UNCHANGED <<relaxTSR, point, statConvergence>> /\ stage' \in {"step", "save"}
  BY DEF Advance, Loop
<1>3. relaxTSR' \in BOOLEAN /\ statConvergence' \in BOOLEAN /\ point' \in 0 .. Len(Times)
  BY <1>1, <1>2, Zenon DEF TRTypeOK
<1>4. current' \in Nat
  <2>1. delta' \in Nat
    BY Constants
  <2> QED
    BY <2>1, Sums DEF Advance
<1>5. running' \in 0 .. 2 /\ passes' \in {0, 1}
  BY <1>1 DEF TRTypeOK, Advance, AtMost
<1>6. converged' \in 0 .. Calm + 1
  BY <1>1, Constants DEF TRTypeOK, Advance, AtMost
<1>7. convError' \in -1 .. 2
      /\ trHelper' \in {"None", "LineSearch", "SteepestDescent"}
  BY <1>1 DEF TRTypeOK, Advance, AtLeast
<1> QED
  BY <1>2, <1>3, <1>4, <1>5, <1>6, <1>7 DEF TRTypeOK

\* An accepted pass: what the rings had up to the old order they have, one position
\* on, up to the order plus one.
LEMMA AcceptedRings ==
  ASSUME IInv, stage = "step", x' = Vector(current, "solved"),
         NEW charged \in Ring(Number), GetState(charged, 0) = current,
         running > 1 => \A n \in 1 .. STATE_NUM - 1 : GetState(charged, n) = GetState(charges, n),
         Shift(charged), saveCurrent' = current, Advance,
         running = 0 \/ saveCurrent' > tHistory.at => tHistory' = Entry,
         corrOrder' \in 1 .. MaxOrder,
         running < 2 => corrOrder' = 1, running > 1 => corrOrder' <= corrOrder + 1
  PROVE  RingsOK' /\ StepsMatchTimes' /\ IntegratorsMatch' /\ HistoryIsTrue'
<1>1. /\ TRTypeOK /\ RingsOK /\ current \in Nat /\ saveCurrent \in Nat /\ delta \in Nat
      /\ corrOrder \in Nat /\ running \in 0 .. 2
  BY Constants DEF IInv, TRTypeOK
<1>2. x' \in Solutions
  BY <1>1 DEF Vector, Solutions
<1>3. /\ RingsOK'
      /\ SOL(1)' = x'
      /\ GetState(deltas', 1) = delta
      /\ GetState(charges', 1) = current
      /\ \A n \in 1 .. STATE_NUM - 2 :
           /\ SOL(n + 1)' = SOL(n)
           /\ GetState(deltas', n + 1) = GetState(deltas, n)
           /\ GetState(charges', n + 1) = GetState(charged, n)
  BY <1>1, <1>2, ShiftMoves
<1>4. running' = IF running = 0 THEN 1 ELSE 2
  BY <1>1 DEF Advance, AtMost
<1>5. current' = saveCurrent' + delta'
  BY DEF Advance
<1>6. running > 0 => /\ SOL(1) = Vector(saveCurrent, "solved")
                     /\ current - saveCurrent = delta
  BY <1>1 DEF IInv, StepsMatchTimes
<1>7. 1 \in 1 .. STATE_NUM - 2 /\ 1 + 1 = 2
  BY Constants
\* A position of the new order is 1, or one behind a position of the old order.
<1>8. ASSUME NEW o \in 1 .. corrOrder', o # 1
      PROVE  /\ o - 1 \in 1 .. corrOrder /\ o - 1 \in 1 .. STATE_NUM - 2
             /\ o \in 1 .. STATE_NUM - 2 /\ (o - 1) + 1 = o /\ running > 1
  <2>1. o \in Nat /\ o > 1
    BY <1>8
  <2>2. o <= MaxOrder /\ running > 1 /\ o <= corrOrder + 1
    BY <1>1, <1>8, <2>1, Constants
  <2> QED
    BY <1>1, <2>1, <2>2, Constants
<1>9. StepsMatchTimes'
  <2>1. running' > 0 => /\ SOL(1)' = Vector(saveCurrent', "solved")
                        /\ current' = saveCurrent' + delta'
    BY <1>3, <1>5 DEF Vector
  <2>2. ASSUME running' > 1, NEW o \in 1 .. corrOrder'
        PROVE  /\ SOL(o + 1)'.made = "solved"
               /\ GetState(deltas', o) = SOL(o)'.time - SOL(o + 1)'.time
    <3>1. running > 0
      BY <1>1, <1>4, <2>2
    <3>2. CASE o = 1
      BY <1>1, <1>3, <1>6, <1>7, <3>1, <3>2 DEF Vector
    <3>3. CASE o # 1
      <4>1. /\ SOL(o)' = SOL(o - 1) /\ SOL(o + 1)' = SOL(o)
            /\ GetState(deltas', o) = GetState(deltas, o - 1)
        BY <1>3, <1>8, <3>3
      <4>2. /\ SOL((o - 1) + 1).made = "solved"
            /\ GetState(deltas, o - 1) = SOL(o - 1).time - SOL((o - 1) + 1).time
        BY <1>8, <3>3 DEF IInv, StepsMatchTimes
      <4>3. (o - 1) + 1 = o
        BY <1>8, <3>3
      <4> QED
        BY <4>1, <4>2, <4>3
    <3> QED
      BY <3>2, <3>3
  <2> QED
    BY <2>1, <2>2 DEF StepsMatchTimes
<1>10. IntegratorsMatch'
  <2>1. ASSUME running' > 0, NEW k \in 1 .. corrOrder'
        PROVE  GetState(charges', k) = SOL(k)'.time
    <3>1. CASE k = 1
      BY <1>3, <3>1 DEF Vector
    <3>2. CASE k # 1
      <4>1. /\ SOL(k)' = SOL(k - 1)
            /\ GetState(charges', k) = GetState(charged, k - 1)
            /\ running > 1 /\ k - 1 \in 1 .. STATE_NUM - 1 /\ k - 1 \in 1 .. corrOrder
        BY <1>3, <1>8, <3>2, Constants
      <4>2. GetState(charges, k - 1) = SOL(k - 1).time
        BY <1>1, <4>1 DEF IInv, IntegratorsMatch
      <4> QED
        BY <4>1, <4>2
    <3> QED
      BY <3>1, <3>2
  <2> QED
    BY <2>1 DEF IntegratorsMatch
<1>11. HistoryIsTrue'
  <2>1. CASE running = 0
    BY <1>3, <2>1 DEF HistoryIsTrue, Entry
  <2>2. CASE running > 0
    <3>1. tHistory.at = saveCurrent /\ delta > 0
      BY <2>2, Constants DEF IInv, HistoryIsTrue, TRTypeOK
    <3>2. saveCurrent' > tHistory.at
      BY <1>1, <1>6, <2>2, <3>1
    <3> QED
      BY <1>3, <3>2 DEF HistoryIsTrue, Entry
  <2> QED
    BY <1>1, <2>1, <2>2
<1> QED
  BY <1>3, <1>9, <1>10, <1>11

\* Behind a pass that converged, the place is right.
LEMMA AdvanceProgress ==
  ASSUME IInv, stage = "step", Advance, running' < 2 => corrOrder' = 1,
         running > 0 => saveCurrent' > 0
  PROVE  Progress'
<1>1. running \in 0 .. 2 /\ running' = AtMost(running + 1, 2) /\ point' = point
      /\ point > 0
  BY DEF IInv, TRTypeOK, Progress, Advance
<1>2. running' = IF running = 0 THEN 1 ELSE 2
  BY <1>1 DEF AtMost
<1> QED
  BY <1>1, <1>2 DEF Progress

LEMMA FirstStepsIInv ==
  ASSUME IInv, FirstSteps
  PROVE  IInv'
<1> DEFINE charged == FillState(ChargesNow, GetState(ChargesNow, 0))
<1>1. /\ TRTypeOK /\ RingsOK /\ running \in 0 .. 1 /\ stage = "step" /\ corrOrder = 1
      /\ current \in Nat
  BY DEF IInv, TRTypeOK, Progress, FirstSteps
<1>2. charged \in Ring(Number) /\ GetState(charged, 0) = current
  <2>1. ChargesNow \in Ring(Number) /\ GetState(ChargesNow, 0) = current
    BY <1>1, ChargesNowRing
  <2>2. current \in Number /\ 0 \in Positions
    BY <1>1, StateNumAssumption DEF Number, Positions
  <2> QED
    BY <2>1, <2>2, FillGet
<1>3. /\ Shift(charged) /\ x' = Vector(current, "solved") /\ saveCurrent' = current
      /\ delta' = delta /\ stepDelta' = stepDelta /\ corrOrder' = 1 /\ Advance
      /\ (running = 0 \/ saveCurrent' > tHistory.at => tHistory' = Entry)
  BY <1>1 DEF FirstSteps, UpdateHistory
<1> HIDE DEF charged
<1>4. 1 \in 1 .. MaxOrder
  BY Constants
<1>5. RingsOK' /\ StepsMatchTimes' /\ IntegratorsMatch' /\ HistoryIsTrue'
  BY <1>1, <1>2, <1>3, <1>4, AcceptedRings
<1>6. TRTypeOK'
  BY <1>1, <1>3, <1>4, AdvanceTypes DEF TRTypeOK
<1>7. running > 0 => saveCurrent' > 0
  <2>1. ASSUME running > 0 PROVE current > 0
    <3>1. current = saveCurrent + delta /\ saveCurrent \in Nat /\ delta \in Nat /\ delta > 0
      BY <2>1, Constants DEF IInv, StepsMatchTimes, TRTypeOK
    <3> QED
      BY <3>1
  <2> QED
    BY <1>3, <2>1
<1>8. Progress'
  BY <1>1, <1>3, <1>7, AdvanceProgress
<1> QED
  BY <1>5, <1>6, <1>8 DEF IInv

LEMMA AcceptIInv ==
  ASSUME IInv, NEW n \in Estimates, AcceptStep(n)
  PROVE  IInv'
<1>1. /\ TRTypeOK /\ RingsOK /\ Progress /\ running = 2 /\ stage = "step" /\ current \in Nat
      /\ corrOrder \in 1 .. MaxOrder
  BY DEF IInv, TRTypeOK, AcceptStep
<1>2. /\ ChargesNow \in Ring(Number) /\ GetState(ChargesNow, 0) = current
      /\ \A k \in 1 .. STATE_NUM - 1 : GetState(ChargesNow, k) = GetState(charges, k)
  BY <1>1, ChargesNowRing
<1>3. /\ Shift(ChargesNow) /\ x' = Vector(current, "solved") /\ saveCurrent' = current
      /\ delta' = Adjusted(n).delta /\ stepDelta' = Adjusted(n).next /\ Advance
      /\ corrOrder' = AtMost(corrOrder + 1, MaxOrder)
      /\ (running = 0 \/ saveCurrent' > tHistory.at => tHistory' = Entry)
  BY DEF AcceptStep, UpdateHistory
<1>4. corrOrder' \in 1 .. MaxOrder /\ corrOrder' <= corrOrder + 1
  BY <1>1, <1>3, Constants DEF AtMost
<1>5. RingsOK' /\ StepsMatchTimes' /\ IntegratorsMatch' /\ HistoryIsTrue'
  BY <1>1, <1>2, <1>3, <1>4, AcceptedRings
<1>6. TRTypeOK'
  BY <1>1, <1>3, <1>4, AdjustedRange, AdvanceTypes
<1>7. saveCurrent' > 0
  <2>1. current = saveCurrent + delta /\ saveCurrent \in Nat /\ delta \in Nat /\ delta > 0
    BY <1>1, Constants DEF IInv, StepsMatchTimes, TRTypeOK
  <2> QED
    BY <1>3, <2>1
<1>8. running' = 2
  BY <1>1, <1>3 DEF Advance, AtMost
<1>9. Progress'
  BY <1>1, <1>3, <1>7, <1>8, AdvanceProgress
<1> QED
  BY <1>5, <1>6, <1>9 DEF IInv

\* A rejected step ends where the step before it ended.
LEMMA RejectIInv ==
  ASSUME IInv, NEW n \in Estimates, RejectStep(n)
  PROVE  IInv' /\ saveCurrent' = saveCurrent
<1>1. /\ TRTypeOK /\ RingsOK /\ Progress /\ running = 2 /\ stage = "step" /\ current \in Nat
      /\ corrOrder \in 1 .. MaxOrder /\ saveCurrent \in Nat /\ saveCurrent > 0
      /\ current = saveCurrent + delta /\ delta \in Nat
  BY Constants DEF IInv, TRTypeOK, Progress, StepsMatchTimes, RejectStep
<1>2. /\ Stay /\ x' = Vector(current, "solved") /\ corrOrder' = corrOrder
      /\ delta' = Adjusted(n).delta /\ stepDelta' = Adjusted(n).next /\ Advance
  BY DEF RejectStep
<1>3. saveCurrent' = saveCurrent
  <2>1. current > 0 /\ current - delta = saveCurrent
    BY <1>1
  <2> QED
    BY <2>1 DEF RejectStep
<1>4. running' = 2
  BY <1>1, <1>2 DEF Advance, AtMost
<1>5. current' = saveCurrent + delta'
  BY <1>2, <1>3 DEF Advance
\* The time is no new one; by rounding the rejected solution may be entered for it.
<1>6. /\ tHistory'.at = tHistory.at /\ tHistory'.due = tHistory.due
      /\ tHistory'.of # tHistory.of => tHistory'.of.time > saveCurrent
  <2>1. PICK above \in BOOLEAN : UpdateHistory(above)
    BY DEF RejectStep
  <2>2. tHistory.at = saveCurrent
    BY <1>1 DEF IInv, HistoryIsTrue
  <2>3. ~(running = 0 \/ saveCurrent' > tHistory.at)
    BY <1>1, <1>3, <2>2
  <2>4. tHistory' = [at |-> tHistory.at, of |-> IF above THEN x' ELSE tHistory.of,
                     due |-> tHistory.due]
    BY <2>1, <2>3 DEF UpdateHistory
  <2>5. x'.time = current /\ current > saveCurrent
    <3>1. delta > 0
      BY Constants DEF IInv, TRTypeOK
    <3> QED
      BY <1>1, <1>2, <3>1 DEF Vector
  <2> QED
    BY <2>4, <2>5
<1>7. x' \in Solutions /\ corrOrder' \in 1 .. corrOrder
  BY <1>1, <1>2, Constants DEF Vector, Solutions
<1>8. RingsOK' /\ StepsMatchTimes' /\ IntegratorsMatch' /\ HistoryIsTrue'
  BY <1>1, <1>2, <1>3, <1>4, <1>5, <1>6, <1>7, StayIInv
<1>9. TRTypeOK'
  BY <1>1, <1>2, <1>3, AdjustedRange, AdvanceTypes
<1>10. Progress'
  BY <1>1, <1>2, <1>3, <1>4, AdvanceProgress
<1> QED
  BY <1>3, <1>8, <1>9, <1>10 DEF IInv

LEMMA StepIInv ==
  ASSUME StartsWell, IInv, [TRNext]_trVars
  PROVE  IInv'
BY QuietIInv, FailsIInv, FirstStepsIInv, AcceptIInv, RejectIInv DEF TRNext

-----------------------------------------------------------------------------
\* The step is always within its limits, and all other variables have their types.
THEOREM TransientTypes == ASSUME StartsWell PROVE TRSpec => []TRTypeOK
<1>1. IInv => TRTypeOK
  BY DEF IInv
<1> QED
  BY <1>1, InitTRInv, StepIInv, PTL DEF TRSpec

\* Predictor and corrector work with the steps really taken: after any sequence of
\* accepted and rejected steps, growth and halving, the ring of steps holds the
\* distances of the accepted solutions, up to the order in use.
THEOREM PredictorIsRight == ASSUME StartsWell PROVE TRSpec => []StepsMatchTimes
<1>1. IInv => StepsMatchTimes
  BY DEF IInv
<1> QED
  BY <1>1, InitTRInv, StepIInv, PTL DEF TRSpec

\* The integrators of the devices run along with the solutions of the solver.
THEOREM IntegratorsAreRight == ASSUME StartsWell PROVE TRSpec => []IntegratorsMatch
<1>1. IInv => IntegratorsMatch
  BY DEF IInv
<1> QED
  BY <1>1, InitTRInv, StepIInv, PTL DEF TRSpec

\* The histories have every accepted solution, at its time; of those taken back only
\* what rounding lets in, a rejected one that is of a later time than it is entered for.
THEOREM HistoryIsRight == ASSUME StartsWell PROVE TRSpec => []HistoryIsTrue
<1>1. IInv => HistoryIsTrue
  BY DEF IInv
<1> QED
  BY <1>1, InitTRInv, StepIInv, PTL DEF TRSpec

-----------------------------------------------------------------------------
\* What is saved.

\* The requested times are no closer than the largest step.  (That is the default of
\* a linear sweep, where MaxStep is at most the distance of the points.)
Spaced == \A i \in 1 .. Len(Times) - 1 : Times[i] + DeltaMax <= Times[i + 1]

\* How far the solved time is from the requested one.
Pace ==
  /\ running = 0 => /\ stage \in {"time", "step", "done", "failed"}
                    /\ stage = "time" => point = 0
                    /\ stage = "step" => point = 1
  /\ running > 0 => /\ stage = "step" => saveCurrent < time
                    /\ stage \in {"time", "save"} => /\ point > 0
                                                  /\ saveCurrent < time + DeltaMax

SInv == Pace /\ SavedIsAccepted

LEMMA InitSInv == TRInit => SInv
BY DEF TRInit, SInv, Pace, SavedIsAccepted

LEMMA TimesAreNat == \A i \in 1 .. Len(Times) : Times[i] \in Nat
BY TimesAssumption

LEMMA NextTimeSInv ==
  ASSUME Spaced, IInv, SInv, NextTime
  PROVE  SInv'
<1>1. /\ stage = "time" /\ running \in 0 .. 2 /\ saveCurrent \in Nat /\ point \in 0 .. Len(Times)
      /\ Len(Times) \in Nat
  BY TimesAssumption DEF NextTime, IInv, TRTypeOK
<1>2. running' = running /\ saveCurrent' = saveCurrent
  BY DEF NextTime
<1>3. CASE point < Len(Times)
  <2>1. stage' = "step" /\ point' = point + 1
    BY <1>3 DEF NextTime
  <2>2. CASE running = 0
    BY <1>1, <1>2, <2>1, <2>2 DEF SInv, Pace, SavedIsAccepted
  <2>3. CASE running > 0
    <3>1. point \in 1 .. Len(Times) - 1 /\ saveCurrent < Times[point] + DeltaMax
      BY <1>1, <1>3, <2>3 DEF SInv, Pace, time
    <3>2. Times[point] + DeltaMax <= Times[point + 1]
      BY <3>1 DEF Spaced
    <3>3. Times[point] \in Nat /\ Times[point + 1] \in Nat
      BY <1>1, <3>1, TimesAreNat
    <3>4. saveCurrent < Times[point + 1]
      BY <1>1, <3>1, <3>2, <3>3, Constants
    <3> QED
      BY <1>2, <2>1, <2>3, <3>4 DEF SInv, Pace, SavedIsAccepted, time
  <2> QED
    BY <1>1, <2>2, <2>3
<1>4. CASE ~(point < Len(Times))
  <2>1. stage' = "done" /\ point' = point
    BY <1>4 DEF NextTime
  <2> QED
    BY <1>2, <2>1 DEF SInv, Pace, SavedIsAccepted
<1> QED
  BY <1>3, <1>4

LEMMA QuietSInv ==
  ASSUME SInv, SaveResults \/ Abort \/ UNCHANGED trVars
  PROVE  SInv'
BY DEF SInv, Pace, SavedIsAccepted, SaveResults, Abort, trVars, SOL, time

\* A pass that is taken back stays before the requested time, so that nothing is saved.
LEMMA BackSInv ==
  ASSUME IInv, SInv, stage = "step", running > 0, saveCurrent' = saveCurrent,
         point' = point, running' > 0, Loop
  PROVE  SInv'
BY DEF SInv, Pace, SavedIsAccepted, Loop, time

\* An accepted one ends less than a step behind it.
LEMMA AcceptSInv ==
  ASSUME IInv, IInv', SInv, stage = "step", saveCurrent' = current, Advance,
         x' = Vector(current, "solved")
  PROVE  SInv'
<1>1. /\ current \in Nat /\ saveCurrent \in Nat /\ delta \in Nat /\ delta <= DeltaMax
      /\ running \in 0 .. 2 /\ point \in 1 .. Len(Times)
  BY Constants, TimesAssumption DEF IInv, TRTypeOK, Progress
<1>2. time \in Nat
  BY <1>1, TimesAreNat DEF time
<1>3. current < time + DeltaMax
  <2>1. CASE running = 0
    BY <1>2, <2>1, Constants DEF IInv, Progress
  <2>2. CASE running > 0
    BY <1>1, <1>2, <2>2, Constants DEF IInv, StepsMatchTimes, SInv, Pace
  <2> QED
    BY <1>1, <2>1, <2>2
<1>4. running' > 0 /\ point' = point /\ running' \in 1 .. 2
  BY <1>1 DEF Advance, AtMost
<1>5. SOL(1)' = Vector(current, "solved")
  BY <1>4 DEF IInv, StepsMatchTimes
<1>6. stage' = IF current < time THEN "step" ELSE "save"
  BY <1>4 DEF Advance, Loop, time
<1>7. time' = time
  BY <1>4 DEF time
<1>8. Pace'
  BY <1>1, <1>3, <1>4, <1>6, <1>7 DEF Pace
<1>9. SavedIsAccepted'
  BY <1>1, <1>2, <1>5, <1>6, <1>7 DEF SavedIsAccepted, Vector
<1> QED
  BY <1>8, <1>9 DEF SInv

LEMMA StepSInv ==
  ASSUME StartsWell, Spaced, IInv, IInv', SInv, [TRNext]_trVars
  PROVE  SInv'
<1>1. CASE NextTime
  BY <1>1, NextTimeSInv
<1>2. CASE SaveResults \/ Abort \/ UNCHANGED trVars
  BY <1>2, QuietSInv
<1>3. CASE CorrectorFails
  <2>1. running = 2
    BY <1>3 DEF CorrectorFails, StartsWell, IInv, TRTypeOK
  <2> QED
    BY <1>3, <2>1, BackSInv DEF CorrectorFails
<1>4. CASE FirstSteps
  BY <1>4, AcceptSInv DEF FirstSteps
<1>5. ASSUME NEW n \in Estimates, AcceptStep(n) PROVE SInv'
  BY <1>5, AcceptSInv DEF AcceptStep
<1>6. ASSUME NEW n \in Estimates, RejectStep(n) PROVE SInv'
  <2>1. running = 2 /\ stage = "step" /\ Advance
    BY <1>6 DEF RejectStep, IInv, TRTypeOK
  <2>2. running' = 2 /\ point' = point /\ Loop
    BY <2>1 DEF Advance, AtMost
  <2>3. saveCurrent' = saveCurrent
    BY <1>6, RejectIInv
  <2> QED
    BY <2>1, <2>2, <2>3, BackSInv
<1> QED
  BY <1>1, <1>2, <1>3, <1>4, <1>5, <1>6 DEF TRNext

\* Every result that is saved is an accepted solution, and from no earlier time than
\* the requested one.
THEOREM ResultsAreAccepted == ASSUME StartsWell, Spaced PROVE TRSpec => []SavedIsAccepted
<1>1. IInv /\ SInv => SavedIsAccepted
  BY DEF SInv
<1>2. IInv /\ SInv /\ [TRNext]_trVars => (IInv /\ SInv)'
  BY StepIInv, StepSInv
<1> QED
  BY <1>1, <1>2, InitTRInv, InitSInv, PTL DEF TRSpec

-----------------------------------------------------------------------------
\* Results in time.

\* The first requested time is 0 or not met by the first two steps.
StartsFar == Times[1] = 0 \/ 2 * FirstStep <= Times[1]

\* All passes have converged, and requested times are to be met.
Quiet == ~relaxTSR /\ ~statConvergence

\* The first two steps have the first length.  Up to a requested time no step leads
\* past it by DeltaMin, and a step is kept for later only by one that reaches it.
Meets ==
  Quiet =>
    /\ running < 2 => delta = FirstStep /\ saveCurrent = 0 /\ stepDelta = -1
    /\ stage = "step" =>
         /\ current < time + DeltaMin
         /\ stepDelta > 0 => current >= time
         /\ running = 0 => time = 0 \/ 2 * FirstStep <= time
         /\ running = 1 => 2 * FirstStep <= time
    /\ stage \in {"time", "save"} =>
         stepDelta = -1 /\ (running > 0 => saveCurrent < time + DeltaMin)

LEMMA InitMeets == TRInit => Meets
BY DEF TRInit, Meets

\* What adjustDelta does as long as all passes converge.
LEMMA AdjustedMeets ==
  ASSUME IInv, Quiet, NEW n \in Estimates, time \in Nat
  PROVE  /\ stepDelta > 0 \/ current >= time => Adjusted(n).next = -1
         /\ stepDelta <= 0 /\ current < time =>
              \/ Adjusted(n).next = -1 /\ Adjusted(n).delta <= time - current
              \/ /\ current + Adjusted(n).delta >= time
                 /\ current + Adjusted(n).delta < time + DeltaMin
         /\ ~Accepts(Adjusted(n)) => /\ Adjusted(n).next = -1
                                     /\ 10 * Adjusted(n).delta <= 9 * delta
<1> DEFINE d == CheckDelta(n)
<1>1. /\ current \in Nat /\ stepDelta \in {-1} \union (1 .. DeltaMax)
      /\ d \in DeltaMin .. DeltaMax /\ d \in Nat /\ delta \in Nat
  BY Constants, CheckDeltaRange DEF IInv, TRTypeOK
<1>2. HitsTimes
  BY DEF HitsTimes, Quiet
<1>3. Limited(stepDelta) \in Nat /\ Limited(time - current) \in Nat
  BY <1>1, LimitedRange, Constants
<1>4. CASE stepDelta > 0
  <2>1. Adjusted(n) = [delta |-> Limited(stepDelta), next |-> -1, good |-> FALSE]
    BY <1>1, <1>2, <1>4 DEF Adjusted
  <2>2. Adjusted(n).next = -1 /\ Adjusted(n).delta = Limited(stepDelta)
    BY <2>1
  <2>3. ~Accepts(Adjusted(n)) => 10 * Adjusted(n).delta <= 9 * delta
    BY <1>1, <1>3, <2>2 DEF Accepts
  <2> QED
    BY <1>1, <1>4, <2>2, <2>3
<1>5. CASE stepDelta <= 0 /\ current < time /\ d > time - current
  <2>1. Adjusted(n) = [delta |-> Limited(time - current), next |-> delta, good |-> TRUE]
    BY <1>1, <1>2, <1>5 DEF Adjusted
  <2>2. Adjusted(n).delta = Limited(time - current) /\ Accepts(Adjusted(n))
    BY <2>1 DEF Accepts
  <2>3. Limited(time - current) = AtLeast(time - current, DeltaMin)
    BY <1>1, <1>5, Constants DEF Limited, AtMost
  <2>4. /\ current + Limited(time - current) >= time
        /\ current + Limited(time - current) < time + DeltaMin
    BY <1>1, <1>5, <2>3, Constants DEF AtLeast
  <2> QED
    BY <1>1, <1>5, <2>2, <2>4
<1>6. CASE stepDelta <= 0 /\ ~(current < time /\ d > time - current)
  <2>1. Adjusted(n) = [delta |-> d, next |-> -1, good |-> FALSE]
    BY <1>1, <1>2, <1>6 DEF Adjusted
  <2> HIDE DEF d
  <2>2. Adjusted(n).next = -1 /\ Adjusted(n).delta = d
    BY <2>1
  <2>3. ~Accepts(Adjusted(n)) => 10 * Adjusted(n).delta <= 9 * delta
    BY <1>1, <2>2 DEF Accepts
  <2> QED
    BY <1>1, <1>6, <2>2, <2>3
<1> QED
  BY <1>1, <1>4, <1>5, <1>6

LEMMA NextTimeMeets ==
  ASSUME Spaced, StartsFar, IInv, SInv, Meets, NextTime
  PROVE  Meets'
<1>1. /\ stage = "time" /\ running \in 0 .. 2 /\ saveCurrent \in Nat /\ point \in 0 .. Len(Times)
      /\ current \in Nat /\ delta \in Nat /\ delta <= DeltaMax /\ Len(Times) \in Nat
  BY Constants, TimesAssumption DEF NextTime, IInv, TRTypeOK
<1>2. /\ UNCHANGED <<relaxTSR, current, saveCurrent, delta, stepDelta, statConvergence, running>>
      /\ IF point < Len(Times) THEN stage' = "step" /\ point' = point + 1
                               ELSE stage' = "done" /\ UNCHANGED point
  BY DEF NextTime
<1>3. CASE ~(Quiet /\ point < Len(Times))
  BY <1>2, <1>3 DEF Meets, Quiet
<1>4. CASE Quiet /\ point < Len(Times) /\ running = 0
  <2>1. point = 0 /\ current = 0
    BY <1>1, <1>4 DEF SInv, Pace, IInv, Progress
  <2>2. time' = Times[1] /\ Times[1] \in Nat
    BY <1>1, <1>2, <1>4, <2>1, TimesAreNat DEF time
  <2> QED
    BY <1>1, <1>2, <1>4, <2>1, <2>2, Constants DEF Meets, StartsFar, Quiet
<1>5. CASE Quiet /\ point < Len(Times) /\ running > 0
  <2>1. /\ point > 0 /\ stepDelta = -1 /\ saveCurrent < time + DeltaMin
        /\ current = saveCurrent + delta
        /\ running = 1 => delta = FirstStep /\ saveCurrent = 0
    BY <1>1, <1>5 DEF Meets, SInv, Pace, IInv, StepsMatchTimes
  <2>2. time \in Nat /\ time' \in Nat /\ time + DeltaMax <= time'
    <3>1. point \in 1 .. Len(Times) - 1 /\ time' = Times[point + 1]
      BY <1>1, <1>2, <1>5, <2>1 DEF time
    <3> QED
      BY <1>1, <3>1, TimesAreNat DEF Spaced, time
  <2>3. /\ stage' = "step" /\ current' = current /\ running' = running
        /\ delta' = delta /\ saveCurrent' = saveCurrent /\ stepDelta' = -1
    BY <1>2, <1>5, <2>1
  <2>4. current < time' + DeltaMin
    <3>1. current = saveCurrent + delta /\ saveCurrent < time + DeltaMin
      BY <2>1
    <3>2. /\ saveCurrent \in Nat /\ delta \in Nat /\ delta <= DeltaMax
          /\ DeltaMin \in Nat /\ DeltaMax \in Nat
      BY <1>1, Constants
    <3>3. \A a, b, c, d, e, f \in Nat : b < d + e /\ c <= f /\ d + f <= a => b + c < a + e
      OBVIOUS
    <3> QED
      BY <2>2, <3>1, <3>2, <3>3
  <2>5. 2 * FirstStep <= time'
    BY <2>2, DeltaAssumption
  <2> QED
    BY <1>5, <2>1, <2>3, <2>4, <2>5 DEF Meets
<1> QED
  BY <1>1, <1>3, <1>4, <1>5

\* A pass that is accepted, with the step that follows it.
LEMMA AcceptMeets ==
  ASSUME IInv, SInv, Meets, Quiet, stage = "step", Advance, saveCurrent' = current,
         delta' \in Nat, stepDelta' \in Int,
         current >= time => stepDelta' = -1,
         current < time => /\ current + delta' < time + DeltaMin
                           /\ stepDelta' > 0 => current + delta' >= time,
         running = 0 => delta' = FirstStep /\ stepDelta' = -1,
         running = 0 /\ current < time => 2 * FirstStep <= time
  PROVE  Meets'
<1>1. /\ current \in Nat /\ saveCurrent \in Nat /\ running \in 0 .. 2
      /\ point \in 1 .. Len(Times)
  BY TimesAssumption DEF IInv, TRTypeOK, Progress
<1>2. time \in Nat
  BY <1>1, TimesAreNat DEF time
<1>3. /\ current' = current + delta' /\ point' = point /\ time' = time
      /\ running' = IF running = 2 THEN 2 ELSE running + 1
      /\ stage' = IF current < time THEN "step" ELSE "save"
  BY <1>1 DEF Advance, Loop, time, AtMost
<1>4. running = 0 => current = 0
  BY DEF IInv, Progress
<1>5. current < time + DeltaMin
  BY DEF Meets
<1>6. running' < 2 => delta' = FirstStep /\ saveCurrent' = 0 /\ stepDelta' = -1
  BY <1>1, <1>3, <1>4
<1>7. CASE current < time
  <2>1. /\ stage' = "step" /\ running' # 0
        /\ running' = 1 => running = 0
    BY <1>1, <1>3, <1>7
  <2> QED
    BY <1>3, <1>6, <1>7, <2>1 DEF Meets
<1>8. CASE ~(current < time)
  <2>1. stage' = "save" /\ stepDelta' = -1 /\ saveCurrent' < time' + DeltaMin
    BY <1>1, <1>2, <1>3, <1>5, <1>8
  <2> QED
    BY <1>6, <2>1 DEF Meets
<1> QED
  BY <1>7, <1>8

LEMMA FirstMeets == IInv /\ SInv /\ Meets /\ Quiet /\ FirstSteps => Meets'
<1> SUFFICES ASSUME IInv, SInv, Meets, Quiet, FirstSteps PROVE Meets'
  OBVIOUS
<1>1. /\ stage = "step" /\ running \in 0 .. 1 /\ current \in Nat /\ point \in 1 .. Len(Times)
      /\ delta' = delta /\ stepDelta' = stepDelta /\ saveCurrent' = current /\ Advance
  BY TimesAssumption DEF FirstSteps, IInv, TRTypeOK, Progress
<1>2. time \in Nat
  BY <1>1, TimesAreNat DEF time
<1>3. delta = FirstStep /\ saveCurrent = 0 /\ stepDelta = -1
  BY <1>1 DEF Meets
<1>4. /\ running = 0 => current = 0 /\ (time = 0 \/ 2 * FirstStep <= time)
      /\ running = 1 => current = FirstStep /\ 2 * FirstStep <= time
  BY <1>1, <1>3, Constants DEF Meets, IInv, Progress, StepsMatchTimes
<1> QED
  BY <1>1, <1>2, <1>3, <1>4, Constants, AcceptMeets

LEMMA StepMeets ==
  ASSUME StartsWell, Spaced, StartsFar, IInv, IInv', SInv, Meets, [TRNext]_trVars
  PROVE  Meets'
<1>1. CASE NextTime
  BY <1>1, NextTimeMeets
<1>2. CASE SaveResults \/ Abort \/ UNCHANGED trVars
  BY <1>2 DEF Meets, Quiet, SaveResults, Abort, trVars, time
<1>3. CASE CorrectorFails
  BY <1>3 DEF CorrectorFails, Meets, Quiet
<1>4. ASSUME FirstSteps \/ (\E n \in Estimates : AcceptStep(n) \/ RejectStep(n)), ~Quiet
      PROVE  Meets'
  <2>1. Advance
    BY <1>4 DEF FirstSteps, AcceptStep, RejectStep
  <2>2. ~Quiet'
    BY <1>4, <2>1 DEF Advance, Quiet
  <2> QED BY <2>2 DEF Meets
<1>5. CASE FirstSteps /\ Quiet
  BY <1>5, FirstMeets
<1>6. ASSUME NEW n \in Estimates, AcceptStep(n) \/ RejectStep(n), Quiet
      PROVE  Meets'
  <2>1. /\ stage = "step" /\ running = 2 /\ current \in Nat /\ point \in 1 .. Len(Times)
        /\ delta \in Nat /\ stepDelta \in Int /\ current = saveCurrent + delta
        /\ saveCurrent \in Nat
        /\ Advance /\ delta' = Adjusted(n).delta /\ stepDelta' = Adjusted(n).next
    <3>1. /\ stage = "step" /\ running > 1 /\ Advance
          /\ delta' = Adjusted(n).delta /\ stepDelta' = Adjusted(n).next
      BY <1>6 DEF AcceptStep, RejectStep
    <3>2. /\ running \in 0 .. 2 /\ current \in Nat /\ saveCurrent \in Nat
          /\ delta \in Nat /\ stepDelta \in Int
      BY Constants DEF IInv, TRTypeOK
    <3>3. running = 2
      BY <3>1, <3>2
    <3>4. point \in 1 .. Len(Times) /\ current = saveCurrent + delta
      BY <3>1, <3>2, <3>3, TimesAssumption DEF IInv, TRTypeOK, Progress, StepsMatchTimes
    <3> QED BY <3>1, <3>2, <3>3, <3>4
  <2>2. time \in Nat
    BY <2>1, TimesAreNat DEF time
  <2>3. delta' \in Nat /\ stepDelta' \in Int
    <3>1. /\ Adjusted(n).delta \in DeltaMin .. DeltaMax
          /\ Adjusted(n).next \in {-1} \union (1 .. DeltaMax)
      BY <2>1, AdjustedRange DEF IInv
    <3> QED
      BY <2>1, <3>1, Constants
  <2>4. CASE AcceptStep(n)
    <3>1. saveCurrent' = current
      BY <2>4 DEF AcceptStep
    <3>2. stepDelta > 0 => current >= time
      BY <1>6, <2>1 DEF Meets
    <3>3. current >= time => stepDelta' = -1
      BY <1>6, <2>1, <2>2, AdjustedMeets
    <3>4. current < time => /\ current + delta' < time + DeltaMin
                            /\ stepDelta' > 0 => current + delta' >= time
      BY <1>6, <2>1, <2>2, <2>3, <3>2, AdjustedMeets, Constants
    <3> QED
      BY <1>6, <2>1, <2>3, <3>1, <3>3, <3>4, AcceptMeets
  <2>5. CASE RejectStep(n)
    <3>1. saveCurrent' = saveCurrent
      BY <2>5, RejectIInv
    <3>2. ~Accepts(Adjusted(n))
      BY <2>5 DEF RejectStep
    <3>3. stepDelta' = -1 /\ 10 * delta' <= 9 * delta
      BY <1>6, <2>1, <2>2, <3>2, AdjustedMeets
    <3>4. /\ current' = saveCurrent + delta' /\ time' = time /\ running' = 2
          /\ stage' = IF saveCurrent < time THEN "step" ELSE "save"
      BY <2>1, <3>1 DEF Advance, Loop, time, AtMost
    <3>5. saveCurrent < time /\ current < time + DeltaMin
      BY <1>6, <2>1 DEF SInv, Pace, Meets
    <3> QED
      BY <2>1, <2>2, <2>3, <3>3, <3>4, <3>5, Constants DEF Meets
  <2> QED
    BY <1>6, <2>4, <2>5
<1> QED
  BY <1>1, <1>2, <1>3, <1>4, <1>5, <1>6 DEF TRNext

\* As long as all passes converge, a result belongs to its requested time up to the
\* minimum step, however the truncation error changes the steps in between.
THEOREM ResultsAreOnTime ==
  ASSUME StartsWell, Spaced, StartsFar PROVE TRSpec => []OnTime
<1>1. IInv /\ SInv /\ Meets => OnTime
  <2> SUFFICES ASSUME IInv, SInv, Meets, stage = "save", Quiet
               PROVE  x.time < time + DeltaMin
    BY DEF OnTime, Quiet
  <2>1. running > 0 /\ x = SOL(1)
    BY DEF SInv, Pace, SavedIsAccepted, IInv, TRTypeOK
  <2>2. x.time = saveCurrent
    BY <2>1 DEF IInv, StepsMatchTimes, Vector
  <2> QED
    BY <2>1, <2>2 DEF Meets
<1>2. IInv /\ SInv /\ Meets /\ [TRNext]_trVars => (IInv /\ SInv /\ Meets)'
  BY StepIInv, StepSInv, StepMeets
<1> QED
  BY <1>1, <1>2, InitTRInv, InitSInv, InitMeets, PTL DEF TRSpec
=============================================================================
