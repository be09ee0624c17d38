--------------------------- MODULE AnalysisOrder ---------------------------
(***************************************************************************)
(* The order of the analyses of a netlist and their run (net.cpp,          *)
(* parasweep.cpp).  A parameter sweep names the analysis that it repeats.  *)
(* orderAnalysis turns the list of the netlist into a tree: an analysis    *)
(* that is named leaves the list for the children of the sweeps that name  *)
(* it, and the DC analysis joins it there.  runAnalysis then walks through *)
(* the tree; a sweep solves its children at each of its points.            *)
(*                                                                         *)
(* The checker of the netlist (check_netlist.cpp) lets two sweeps have one *)
(* parameter exactly if they name one analysis.  The parameter of a sweep  *)
(* is therefore known by the analysis it names.  A value of a parameter is *)
(* the sweep that has set it and the number of the point; Net stands for   *)
(* the initialisation.                                                     *)
(***************************************************************************)
EXTENDS Naturals, Sequences, FiniteSets, FiniteSetsExt, Selection

CONSTANTS
  DC,      \* the DC analysis; the checker allows one
  Plain,   \* analyses that are neither DC nor a sweep: AC, TR, SP, ...
  Sweep,   \* parameter sweeps
  Points,  \* the number of points of each sweep
  Net,     \* stands for the netlist as the parent of the first analyses
  Files    \* the netlists considered, as sequences of analyses

Analysis == {DC} \union Plain \union Sweep

ASSUME KindsDiffer == /\ DC \notin Plain \union Sweep
                      /\ Plain \intersect Sweep = {}
                      /\ Net \notin Analysis
ASSUME PointsPositive == Points \in [Sweep -> Nat \ {0}]
ASSUME FilesAreLists ==
  \A f \in Files : /\ f \in Seq(Analysis)
                   /\ \A i, j \in DOMAIN f : f[i] = f[j] => i = j

VARIABLES
  file,      \* the netlist
  sim,       \* the analysis each sweep names, its property Sim
  actions,   \* the list of analyses of the net
  children,  \* the list of analyses of each sweep, empty where it is NULL
  applied,   \* dcApplied: the DC analysis has left the list of the net
  pc,
  calls,     \* what is being solved: the net, in it sweeps in each other
  value,     \* the value of each swept parameter, by the analysis it goes with
  runs,      \* how often each sweep was solved
  solved,    \* the number of results of each other analysis
  deps,      \* the parameters these depend on
  axis,      \* the number of values saved of each parameter
  dcValue    \* the values with which the DC analysis was solved last

tree == <<file, sim, actions, children, applied>>
results == <<runs, solved, deps, axis, dcValue>>
vars == <<tree, pc, calls, value, results>>

Single == {DC} \union Plain   \* the analyses that are no sweeps

-----------------------------------------------------------------------------
Present(f) == Range(f)

\* Netlists that the checker accepts: each sweep names an analysis of the
\* netlist, and none leads back to itself, so that among any sweeps there is one
\* that names none of them.
Accepted(f, s) ==
  LET present == Sweep \intersect Present(f)
  IN  /\ \A a \in present : s[a] \in Present(f)
      /\ \A a \in Sweep \ present : s[a] = DC
      /\ \A S \in SUBSET present : S # {} => \E a \in S : s[a] \notin S

HasDC == DC \in Present(file)

-----------------------------------------------------------------------------
\* The order.

\* The child of a sweep is still in the list (getChildAnalysis is not NULL).
ChildListed(a) == a \in Sweep /\ sim[a] \in Range(actions)

\* A plausible slip: the child may be a sweep that is not complete yet.
SecondOrderAny(a) == ChildListed(a)

\* findSecondOrder: a sweep whose child is no sweep, or one that is complete.
SecondOrder(a) == ChildListed(a) /\ ~ChildListed(sim[a])

Without(list, a) == Only(list, Range(list) \ {a})

Position(a, list) == CHOOSE i \in DOMAIN list : list[i] = a

Parent == actions[Min({i \in DOMAIN actions : SecondOrder(actions[i])})]

\* A plausible slip: the type of the child is only compared with DC.
NeedsDCAlways(child) == child # DC /\ HasDC

\* The DC analysis goes with a child that is no sweep and not itself.
NeedsDC(child) == child \in Plain /\ HasDC

\* The loop over the list adds the child to every sweep that names it.  The DC
\* analysis leaves the list when the first of them is met: if it stands before
\* that one, the analysis behind that one moves into its place and is skipped.
Parents(child, list) ==
  LET named == {i \in DOMAIN list : list[i] \in Sweep /\ sim[list[i]] = child}
      first == Min(named)
      moved == /\ NeedsDC(child) /\ ~applied /\ DC \in Range(list)
               /\ Position(DC, list) < first
  IN  {list[i] : i \in named \ (IF moved THEN {first + 1} ELSE {})}

\* containsAnalysis for DC: the first DC analysis or sweep among the children
\* decides.
Telling(s) == Only(children[s], {DC} \union Sweep)

ContainsDC ==
  {a \in Sweep : \A S \in SUBSET Sweep :
     (\A s \in Sweep : Telling(s) # <<>> /\ Telling(s)[1] \in S \union {DC} => s \in S)
     => a \in S}

Backwards(list) == [i \in DOMAIN list |-> list[Len(list) + 1 - i]]

\* A plausible slip: only the DC analysis itself is moved.
SortedDCOnly(list) == Only(list, {DC}) \o Without(list, DC)

\* sortChildAnalyses: what is, or contains, a DC analysis moves to the front,
\* one behind the other.
Sorted(list) ==
  LET first == {DC} \union ContainsDC
  IN  Backwards(Only(list, first)) \o Only(list, Range(list) \ first)

\* One round of the loop of orderAnalysis.  The lists of children it sorts
\* consist of one analysis, or of a DC analysis that is already in front of it.
OrderRound ==
  /\ pc = "order"
  /\ \E a \in Range(actions) : SecondOrder(a)
  /\ LET child == sim[Parent]
         list  == Without(actions, child)
         hosts == Parents(child, list)
         new   == IF NeedsDC(child) THEN <<DC, child>> ELSE <<child>>
     IN  /\ children' = [s \in Sweep |-> IF s \in hosts THEN new \o children[s]
                                         ELSE children[s]]
         /\ actions' = IF NeedsDC(child) /\ ~applied
                         THEN Without(list, DC) ELSE list
         /\ applied' = (applied \/ NeedsDC(child))
  /\ UNCHANGED <<file, sim, pc, calls, value, results>>

\* No sweep is left to be completed: the list itself is sorted.
OrderDone ==
  /\ pc = "order"
  /\ \A a \in Range(actions) : ~SecondOrder(a)
  /\ actions' = Sorted(actions)
  /\ pc' = "initialize"
  /\ UNCHANGED <<file, sim, children, applied, calls, value, results>>

-----------------------------------------------------------------------------
\* The run.

\* The analyses below an analysis.
Below ==
  LET below[n \in Nat, a \in Analysis] ==
        IF n = 0 \/ a \notin Sweep THEN {}
        ELSE Range(children[a]) \union UNION {below[n - 1, c] : c \in Range(children[a])}
  IN  [a \in Analysis |-> below[Len(file), a]]

Frame(s) == [parent |-> s, point |-> 1, k |-> 1]

\* Initialising a sweep gives its parameter the first value, which is that of
\* the last one initialised where several sweeps share it, then initialises its
\* children.
Initialize ==
  /\ pc = "initialize"
  /\ value' = [p \in Analysis |->
                 IF \E a \in Range(actions) : \E s \in Sweep \intersect ({a} \union Below[a]) :
                      sim[s] = p
                   THEN <<Net, 1>> ELSE value[p]]
  /\ calls' = <<Frame(Net)>>
  /\ pc' = "solve"
  /\ UNCHANGED <<tree, results>>

Top == calls[Len(calls)]
ListOf(parent) == IF parent = Net THEN actions ELSE children[parent]
Due == ListOf(Top.parent)[Top.k]
AnyDue == pc = "solve" /\ Top.k <= Len(ListOf(Top.parent))

\* findLastOrderChildren: the first child leads on as long as it is a sweep.
LastOrder(s) ==
  {a \in Analysis : \A S \in SUBSET Sweep :
     (\A t \in Sweep : /\ children[t] # <<>>
                       /\ \/ children[t][1] \in S
                          \/ children[t][1] \notin Sweep /\ a \in Range(children[t])
                       => t \in S)
     => s \in S}

\* Behind each child it has solved, a sweep makes the results that exist of its
\* last analyses depend on its parameter.
Assigned(parent, number) ==
  [a \in Single |-> IF parent # Net /\ a \in LastOrder(parent) /\ number[a] > 0
                      THEN deps[a] \union {sim[parent]} ELSE deps[a]]

\* A child that is no sweep is solved.
SolveSingle ==
  /\ AnyDue /\ Due \in Single
  /\ solved' = [solved EXCEPT ![Due] = @ + 1]
  /\ deps' = Assigned(Top.parent, solved')
  /\ dcValue' = IF Due = DC THEN value ELSE dcValue
  /\ calls' = [calls EXCEPT ![Len(calls)].k = @ + 1]
  /\ UNCHANGED <<tree, pc, value, runs, axis>>

\* A plausible slip: the parameter is saved in every run.
ComeToSaving(s, point, run) ==
  /\ value' = [value EXCEPT ![sim[s]] = <<s, point>>]
  /\ axis' = [axis EXCEPT ![sim[s]] = @ + 1]

\* A sweep comes to a point: the parameter is set, and saved in the first run.
ComeTo(s, point, run) ==
  /\ value' = [value EXCEPT ![sim[s]] = <<s, point>>]
  /\ axis' = IF run = 1 THEN [axis EXCEPT ![sim[s]] = @ + 1] ELSE axis

EnterSweep ==
  /\ AnyDue /\ Due \in Sweep /\ children[Due] # <<>>
  /\ runs' = [runs EXCEPT ![Due] = @ + 1]
  /\ ComeTo(Due, 1, runs'[Due])
  /\ calls' = Append(calls, Frame(Due))
  /\ UNCHANGED <<tree, pc, solved, deps, dcValue>>

\* The length of a list that is not there is asked for (actions is NULL).
SweepWithoutChild ==
  /\ AnyDue /\ Due \in Sweep /\ children[Due] = <<>>
  /\ runs' = [runs EXCEPT ![Due] = @ + 1]
  /\ ComeTo(Due, 1, runs'[Due])
  /\ pc' = "crashed"
  /\ UNCHANGED <<tree, calls, solved, deps, dcValue>>

\* A plausible slip: one point too many.
NextPointTooFar ==
  /\ pc = "solve" /\ ~AnyDue
  /\ Top.parent # Net /\ Top.point <= Points[Top.parent]
  /\ ComeTo(Top.parent, Top.point + 1, runs[Top.parent])
  /\ calls' = [calls EXCEPT ![Len(calls)].point = @ + 1, ![Len(calls)].k = 1]
  /\ UNCHANGED <<tree, pc, runs, solved, deps, dcValue>>

\* All children are solved at this point.
NextPoint ==
  /\ pc = "solve" /\ ~AnyDue
  /\ Top.parent # Net /\ Top.point < Points[Top.parent]
  /\ ComeTo(Top.parent, Top.point + 1, runs[Top.parent])
  /\ calls' = [calls EXCEPT ![Len(calls)].point = @ + 1, ![Len(calls)].k = 1]
  /\ UNCHANGED <<tree, pc, runs, solved, deps, dcValue>>

LeaveSweep ==
  /\ pc = "solve" /\ ~AnyDue
  /\ Top.parent # Net /\ Top.point = Points[Top.parent]
  /\ LET outer == Len(calls) - 1
     IN  /\ calls' = [SubSeq(calls, 1, outer) EXCEPT ![outer].k = @ + 1]
         /\ deps' = Assigned(calls[outer].parent, solved)
  /\ UNCHANGED <<tree, pc, value, runs, solved, axis, dcValue>>

Finish ==
  /\ pc = "solve" /\ ~AnyDue /\ Top.parent = Net
  /\ pc' = "done"
  /\ UNCHANGED <<tree, calls, value, results>>

-----------------------------------------------------------------------------
\* net::insertAnalysis puts each analysis in front of the list, in the order of
\* the file.
Init ==
  /\ file \in Files
  /\ sim \in {s \in [Sweep -> Analysis] : Accepted(file, s)}
  /\ actions = Backwards(file)
  /\ children = [s \in Sweep |-> <<>>]
  /\ applied = FALSE
  /\ pc = "order"
  /\ calls = <<>>
  /\ value = [p \in Analysis |-> <<Net, 0>>]
  /\ runs = [s \in Sweep |-> 0]
  /\ solved = [a \in Single |-> 0]
  /\ deps = [a \in Single |-> {}]
  /\ axis = [p \in Analysis |-> 0]
  /\ dcValue = value

Next == \/ OrderRound \/ OrderDone \/ Initialize
        \/ SolveSingle \/ EnterSweep \/ SweepWithoutChild
        \/ NextPoint \/ LeaveSweep \/ Finish

Spec == Init /\ [][Next]_vars /\ WF_vars(Next)

-----------------------------------------------------------------------------
\* What is promised.

TypeOK ==
  /\ file \in Seq(Analysis)
  /\ sim \in [Sweep -> Analysis]
  /\ actions \in Seq(Analysis)
  /\ children \in [Sweep -> Seq(Analysis)]
  /\ applied \in BOOLEAN
  /\ pc \in {"order", "initialize", "solve", "done", "crashed"}
  /\ calls \in Seq([parent : Sweep \union {Net}, point : Nat, k : Nat])
  /\ \A i \in 2..Len(calls) : calls[i].point <= Points[calls[i].parent]
  /\ value \in [Analysis -> (Sweep \union {Net}) \X Nat]
  /\ runs \in [Sweep -> Nat] /\ axis \in [Analysis -> Nat]
  /\ solved \in [Single -> Nat] /\ deps \in [Single -> SUBSET Analysis]
  /\ dcValue \in [Analysis -> (Sweep \union {Net}) \X Nat]

\* The number of solutions a netlist asks for: an analysis nobody names is
\* solved once, a named one at each point of each sweep that names it.
NamedBy(a) == {s \in Sweep \intersect Present(file) : sim[s] = a}

Total(list, S, f) ==
  Rounds(Len(list), 0, LAMBDA n, i : IF list[i] \in S THEN n + f[list[i]] ELSE n)

\* How often sweeps come to a point if they run so often.
PointsOf(times) == [s \in Sweep |-> Points[s] * times[s]]

Asked ==
  Rounds(Len(file), [a \in Analysis |-> 1], LAMBDA times, i :
    [a \in Analysis |-> IF NamedBy(a) = {} THEN 1 ELSE Total(file, NamedBy(a), PointsOf(times))])

\* Sweeps of anything but a DC analysis or a sweep have the DC analysis at each of
\* their points; elsewhere it is then solved only if it is named.
Hosts == {s \in Sweep \intersect Present(file) : sim[s] \in Plain}

AskedOfDC ==
  IF Hosts = {} THEN Asked[DC]
  ELSE Total(file, Hosts \union NamedBy(DC), PointsOf(Asked))

\* In a run that comes to its end every analysis was solved at every point of
\* the sweeps that lead to it, neither less nor more often.
EveryPointIsSolved ==
  pc = "done" =>
    /\ \A a \in Plain \intersect Present(file) : solved[a] = Asked[a]
    /\ HasDC => solved[DC] = AskedOfDC

\* What an analysis starts from is the operating point at the present values of
\* the parameters (runAnalysis: the order of the list; check_netlist.cpp:698
\* "analyses requiring a DC solution").
StartsFromItsPoint ==
  [][\A a \in Plain : solved'[a] # solved[a] /\ HasDC => dcValue = value]_vars

\* Sweeps that name one analysis stand next to each other: they are named by the
\* same sweeps.  The checker does not ask for that.
SameOrder ==
  \A s, t \in Sweep \intersect Present(file) : sim[s] = sim[t] => NamedBy(s) = NamedBy(t)

Product(list, S, f) ==
  Rounds(Len(list), 1, LAMBDA n, i : IF list[i] \in S THEN n * f[list[i]] ELSE n)

\* The DC analysis goes with one analysis at most, itself included.
GoesWithOne == \A s, t \in Hosts \union NamedBy(DC) : sim[s] = sim[t]

\* The results of an analysis fill the grid of the values saved for the
\* parameters they depend on, which is what the equations and diagrams that read
\* the dataset rely on.  Not so those of a DC analysis that is given to sweeps of
\* different analyses: they depend on the parameters of all of these but are
\* solved along one after the other.
ResultsFillTheGrid ==
  pc = "done" /\ SameOrder =>
    \A a \in Single \intersect Present(file) :
      (a = DC => GoesWithOne) => solved[a] = Product(file, deps[a], axis)

\* Every run stops, and one whose sweeps do not share what they name comes to
\* its end.  Sweeps of plain analyses share the DC analysis.
Unshared ==
  /\ \A a \in Analysis : Cardinality(NamedBy(a)) <= 1
  /\ HasDC /\ Hosts # {} => NamedBy(DC) = {}

RunEnds == /\ <>(pc \in {"done", "crashed"})
           /\ Unshared => <>(pc = "done")
=============================================================================
