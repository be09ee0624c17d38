----------------------------- MODULE Equations -----------------------------
(***************************************************************************)
(* The equations of a netlist (equation.cpp).  Each assigns a variable and *)
(* uses others.  The checker collects what each equation uses, looks for   *)
(* undefined and doubly defined variables and for cycles, and brings the   *)
(* equations into an order in which they can be evaluated; the solver then *)
(* evaluates those that are marked as possible.                            *)
(*                                                                         *)
(* The checker runs when the netlist is read (check_netlist.cpp), then,    *)
(* together with the solver, before each analysis (net.cpp) and at each    *)
(* point of a parameter sweep, where the swept variable is an equation too *)
(* (parasweep.cpp), and at last with the vectors of the dataset as further *)
(* equations (ucs.cpp).  The marks and flags of an equation are kept from  *)
(* one check to the next.                                                  *)
(*                                                                         *)
(* One step is one round of a loop or one call of a recursive function.    *)
(***************************************************************************)
EXTENDS Naturals, Sequences, FiniteSets, Functions, Selection

CONSTANTS
  Name,       \* names of variables
  Generated,  \* those with a generated name (isGenerated)
  Property,   \* those of a property of a circuit, Instance.Property
  Netlists,   \* the equations of the netlists considered, as lists of entries
  UseTables,  \* what the equations of a variable may use
  Sweeps,     \* sets of the swept variables; one sweep has at most one
  Datasets,   \* sets of the variables the analyses save
  Runs        \* how often the solver runs during the analyses

\* An equation is known by its variable and where it comes from; "again" is a
\* second equation of the netlist for one variable.
Kind == {"user", "again", "property", "sweep", "data"}
Entry == Name \X Kind
Var(e) == e[1]

ASSUME NamesAssumption ==
  IsFiniteSet(Name) /\ Generated \subseteq Name /\ Property \subseteq Name

\* Names that end in a dot and four digits are given by the solver alone
\* (addGeneratedEquation): nothing else defines such a variable.
ASSUME NetlistsAssumption ==
  /\ Netlists \subseteq Seq((Name \ Generated) \X {"user", "again"})
  /\ \A list \in Netlists : IsInjective(list)
ASSUME VariablesAssumption ==
  /\ Property \intersect Generated = {}
  /\ \A S \in Sweeps \union Datasets : S \subseteq Name \ Generated
ASSUME UseTablesAssumption == UseTables \subseteq [Name -> SUBSET Name]
ASSUME RunsAssumption == Runs \in Nat \ {0}

VARIABLES
  uses,       \* the variables in the equation of a variable
  swept,      \* the variable of the sweep, if there is one
  dataset,    \* the variables in the dataset of the analyses
  stage,      \* on whose behalf the checker runs: the netlist, an analysis, the dataset
  run,        \* the runs of the solver during the analyses so far
  pc,
  equations,  \* the list of equations; while it is reordered, what is left of it
  root,       \* the new list
  head,       \* the first equation the solver knows, as a list of at most one
  at,         \* the position of the loop in the list
  asked,      \* the list passed to recurseDependencies
  deps,       \* the dependencies of each equation
  cyclic,     \* the equations whose flag cycle is set
  counted,    \* the flag duplicate: how often the variable is defined, or zero
  marked,     \* the equations with evalPossible
  errors,     \* whether the check has found an error
  evaluated   \* the equations evaluated since the last check

input == <<uses, swept, dataset>>
flags == <<deps, cyclic, counted, marked>>
vars == <<input, stage, run, pc, equations, root, head, at, asked, flags, errors, evaluated>>

-----------------------------------------------------------------------------
Uses(e) == IF e[2] \in {"user", "property"} THEN uses[Var(e)] ELSE {}

Entries(list) == {list[i] : i \in DOMAIN list}
Defined(list) == {Var(e) : e \in Entries(list)}
EntryOf(kind, S) == {<<v, kind>> : v \in S}

\* findEquation: the first equation of a variable.
First(v) ==
  equations[CHOOSE i \in DOMAIN equations :
              /\ Var(equations[i]) = v
              /\ \A j \in 1..(i - 1) : Var(equations[j]) # v]

Children(S) == {First(v) : v \in S \intersect Defined(equations)}

Without(list, i) == SubSeq(list, 1, i - 1) \o SubSeq(list, i + 1, Len(list))

ListOf(S) == CHOOSE f \in [1..Cardinality(S) -> S] : IsInjective(f)

-----------------------------------------------------------------------------
\* The start of a check: collectDependencies, findUndefined, findDuplicate.

\* The properties that the equations of the list, or of the properties in S, use.
UsedWith(S) ==
  (Property \intersect UNION {Uses(e) : e \in Entries(equations) \union EntryOf("property", S)})
    \ Defined(equations)

\* A property of a circuit that an equation uses becomes an equation itself, and
\* the loop that adds it meets it later on; the definitions of the circuits are
\* known to the check of the netlist only.
Found ==
  IF stage # "netlist" THEN {}
  ELSE EntryOf("property",
         {v \in Property \ Defined(equations) :
            \A S \in SUBSET Property : UsedWith(S) \subseteq S => v \in S})

\* With the dataset, a variable that is not defined is an error.
Undefined(list) ==
  /\ stage = "dataset"
  /\ \E e \in Entries(list) : ~(Uses(e) \ Generated \subseteq Defined(list))

\* An equation is counted in its first check, if it is the first of its variable.
IsFirst(list, i) ==
  \A j \in 1..(i - 1) : Var(list[j]) = Var(list[i]) => counted[list[j]] # 0

Count(list, v) == Cardinality({i \in DOMAIN list : Var(list[i]) = v})

Counts(list) ==
  [e \in Entry |->
     IF e \notin Entries(list) THEN counted[e]
     ELSE LET i == CHOOSE k \in DOMAIN list : list[k] = e
          IN  IF counted[e] = 0 /\ IsFirst(list, i) THEN Count(list, Var(e)) ELSE 1]

Collect ==
  /\ pc = "collect"
  /\ LET list == equations \o ListOf(Found)
     IN  /\ equations' = list
         /\ counted' = Counts(list)
         /\ errors' = (Undefined(list) \/ \E e \in Entries(list) : counted'[e] > 1)
  /\ deps' = [e \in Entry |-> Uses(e)]
  /\ pc' = "cycles" /\ at' = 1 /\ asked' = {}
  /\ UNCHANGED <<input, stage, run, root, head, cyclic, marked, evaluated>>

-----------------------------------------------------------------------------
\* detectCycles: one call of recurseDependencies for the equation at hand.

This == equations[at]
Asking == IF asked = {} THEN deps[This] ELSE asked

\* The variable is among its own dependencies.
InCycle == Var(This) \in Asking

Below == UNION {deps[c] : c \in Children(Asking) \ cyclic}
CyclicNow == This \in cyclic \/ Children(Asking) \intersect cyclic # {}

Turn == pc = "cycles" /\ at <= Len(equations)

\* It is asked for the dependencies of the children, once more.
RecurseDeeper ==
  /\ Turn /\ ~InCycle /\ CyclicNow /\ Below # {}
  /\ cyclic' = cyclic \union {This}
  /\ asked' = Below
  /\ UNCHANGED <<input, stage, run, pc, equations, root, head, at, deps, counted, marked,
                 errors, evaluated>>

\* The recursion ends.  The flag is set by a cycle found at once or by a cyclic
\* child, but not by what the children depend on.
CycleFound ==
  /\ Turn
  /\ InCycle \/ (CyclicNow /\ Below = {}) \/ (~CyclicNow /\ Var(This) \in Below)
  /\ cyclic' = IF InCycle \/ CyclicNow THEN cyclic \union {This} ELSE cyclic
  /\ errors' = TRUE
  /\ at' = at + 1 /\ asked' = {}
  /\ UNCHANGED <<input, stage, run, pc, equations, root, head, deps, counted, marked, evaluated>>

NoCycleFound ==
  /\ Turn /\ ~InCycle /\ ~CyclicNow /\ Var(This) \notin Below
  /\ deps' = [deps EXCEPT ![This] = @ \union Below]
  /\ at' = at + 1 /\ asked' = {}
  /\ UNCHANGED <<input, stage, run, pc, equations, root, head, cyclic, counted, marked,
                 errors, evaluated>>

CyclesDone ==
  /\ pc = "cycles" /\ at > Len(equations)
  /\ pc' = "reorder" /\ at' = 1 /\ root' = <<>>
  /\ UNCHANGED <<input, stage, run, equations, head, asked, flags, errors, evaluated>>

-----------------------------------------------------------------------------
\* reorderEquations.

\* A plausible slip: one dependency in the new list is enough.
EvaluableOne(e, list) ==
  deps[e] \subseteq Generated \/ deps[e] \intersect Defined(list) # {}

\* All dependencies are in the new list, but for generated variables: they are
\* counted.
Evaluable(e, list) ==
  Cardinality(deps[e] \intersect Defined(list))
    = Cardinality(deps[e]) - Cardinality(deps[e] \intersect Generated)

\* A plausible slip: the loop goes on where it is.
MoveGoOn ==
  /\ pc = "reorder" /\ at <= Len(equations) /\ Evaluable(equations[at], root)
  /\ root' = Append(root, equations[at])
  /\ marked' = marked \union {equations[at]}
  /\ equations' = Without(equations, at)
  /\ at' = at
  /\ UNCHANGED <<input, stage, run, pc, head, asked, deps, cyclic, counted, errors, evaluated>>

\* The equation moves to the end of the new list; the loop starts over.
Move ==
  /\ pc = "reorder" /\ at <= Len(equations) /\ Evaluable(equations[at], root)
  /\ root' = Append(root, equations[at])
  /\ marked' = marked \union {equations[at]}
  /\ equations' = Without(equations, at)
  /\ at' = 1
  /\ UNCHANGED <<input, stage, run, pc, head, asked, deps, cyclic, counted, errors, evaluated>>

\* A plausible slip: the loop starts over behind this equation, too.
PassStartOver ==
  /\ pc = "reorder" /\ at <= Len(equations) /\ ~Evaluable(equations[at], root)
  /\ at' = 1
  /\ UNCHANGED <<input, stage, run, pc, equations, root, head, asked, flags, errors, evaluated>>

Pass ==
  /\ pc = "reorder" /\ at <= Len(equations) /\ ~Evaluable(equations[at], root)
  /\ at' = at + 1
  /\ UNCHANGED <<input, stage, run, pc, equations, root, head, asked, flags, errors, evaluated>>

\* What is left is appended.  Reading the netlist ends with an error if there was
\* one, or if a swept variable has an equation (netlist_checker_variables).  A
\* solver whose check failed does not look at the new list: it hands back what
\* follows the equation that was the first one of the old list.
FromHead(list) ==
  IF head = <<>> THEN <<>>
  ELSE SubSeq(list, CHOOSE i \in DOMAIN list : list[i] = head[1], Len(list))

Reordered ==
  /\ pc = "reorder" /\ at > Len(equations)
  /\ equations' = IF stage # "netlist" /\ errors THEN FromHead(root \o equations)
                  ELSE root \o equations
  /\ root' = <<>>
  /\ at' = 1 /\ evaluated' = {}
  /\ pc' = CASE stage = "netlist" ->
                   IF errors \/ swept \intersect Defined(root \o equations) # {}
                     THEN "refused" ELSE "checked"
             [] OTHER -> IF errors THEN "checked" ELSE "evaluate"
  /\ UNCHANGED <<input, stage, run, head, asked, flags, errors>>

-----------------------------------------------------------------------------
\* solver::evaluate.  The vectors an evaluation adds in front of the list
\* (addGeneratedEquation) are left out: they use nothing, and their names are
\* generated ones that the checker passes over.

Evaluate ==
  /\ pc = "evaluate" /\ at <= Len(equations)
  /\ evaluated' = evaluated \union ({equations[at]} \intersect marked)
  /\ at' = at + 1
  /\ UNCHANGED <<input, stage, run, pc, equations, root, head, asked, flags, errors>>

Evaluated ==
  /\ pc = "evaluate" /\ at > Len(equations)
  /\ pc' = "checked"
  /\ UNCHANGED <<input, stage, run, equations, root, head, at, asked, flags, errors, evaluated>>

-----------------------------------------------------------------------------
\* The checks of a run.

StartCheck(s, list) ==
  /\ stage' = s /\ equations' = list /\ pc' = "collect" /\ at' = 1
  /\ errors' = FALSE
  /\ head' = SubSeq(list, 1, IF list = <<>> THEN 0 ELSE 1)
  /\ UNCHANGED <<input, root, asked, flags, evaluated>>

\* A sweep adds its variable in front of the list when it is initialised, before
\* the first run of the solver.
RunStarts ==
  /\ pc = "checked" /\ stage = "netlist"
  /\ run' = 1
  /\ StartCheck("run", ListOf(EntryOf("sweep", swept)) \o equations)

\* A plausible slip: one run too many.
RunGoesTooFar ==
  /\ pc = "checked" /\ stage = "run" /\ run <= Runs
  /\ run' = run + 1
  /\ StartCheck("run", equations)

RunGoesOn ==
  /\ pc = "checked" /\ stage = "run" /\ run < Runs
  /\ run' = run + 1
  /\ StartCheck("run", equations)

\* The sweep has taken its variable out of the list; the vectors of the dataset,
\* the values of the swept variable among them, are put in front of it.
Kept == Only(equations, {e \in Entry : e[2] # "sweep"})

\* A plausible slip: the vectors are appended.
DatasetIsAppended ==
  /\ pc = "checked" /\ stage = "run" /\ run = Runs
  /\ StartCheck("dataset", Kept \o ListOf(EntryOf("data", dataset \union swept)))
  /\ UNCHANGED run

DatasetIsRead ==
  /\ pc = "checked" /\ stage = "run" /\ run = Runs
  /\ StartCheck("dataset", ListOf(EntryOf("data", dataset \union swept)) \o Kept)
  /\ UNCHANGED run

Finish ==
  /\ pc = "checked" /\ stage = "dataset"
  /\ pc' = "done"
  /\ UNCHANGED <<input, stage, run, equations, root, head, at, asked, flags, errors, evaluated>>

Init ==
  /\ equations \in Netlists
  /\ uses \in UseTables
  /\ swept \in Sweeps
  /\ dataset \in Datasets
  /\ stage = "netlist" /\ run = 0 /\ pc = "collect"
  /\ root = <<>> /\ head = <<>> /\ at = 1 /\ asked = {}
  /\ deps = [e \in Entry |-> {}]
  /\ counted = [e \in Entry |-> 0]
  /\ cyclic = {} /\ marked = {} /\ evaluated = {}
  /\ errors = FALSE

Next == \/ Collect
        \/ RecurseDeeper \/ CycleFound \/ NoCycleFound \/ CyclesDone
        \/ Move \/ Pass \/ Reordered
        \/ Evaluate \/ Evaluated
        \/ RunStarts \/ RunGoesOn \/ DatasetIsRead \/ Finish

Spec == Init /\ [][Next]_vars /\ WF_vars(Next)

-----------------------------------------------------------------------------
\* What is promised.

TypeOK ==
  /\ uses \in [Name -> SUBSET Name]
  /\ swept \subseteq Name /\ dataset \subseteq Name
  /\ stage \in {"netlist", "run", "dataset"}
  /\ run \in 0..Runs
  /\ pc \in {"collect", "cycles", "reorder", "evaluate", "checked", "refused", "done"}
  /\ equations \in Seq(Entry) /\ root \in Seq(Entry) /\ head \in Seq(Entry)
  /\ at \in 1..(Len(equations) + 1)
  /\ asked \subseteq Name
  /\ deps \in [Entry -> SUBSET Name]
  /\ counted \in [Entry -> Nat]
  /\ cyclic \subseteq Entry /\ marked \subseteq Entry /\ evaluated \subseteq Entry
  /\ errors \in BOOLEAN

\* What the variables of a set use, and what that uses in turn: the least set that
\* holds what its variables use.
IsClosed(T) == \A e \in Entries(equations) : Var(e) \in T => Uses(e) \subseteq T
AllUsed == UNION {Uses(e) : e \in Entries(equations)}
Closure(S) == S \union {v \in AllUsed : \A T \in SUBSET AllUsed : IsClosed(S \union T) => v \in T}

LeadsBack(e) == Var(e) \in Closure(Uses(e))

\* The equations that can be evaluated: all they lead to is defined, without a cycle.
Solvable(e) ==
  LET reached == Closure(Uses(e)) \ Generated
  IN  /\ reached \subseteq Defined(equations)
      /\ \A c \in Entries(equations) : c = e \/ Var(c) \in reached => ~LeadsBack(c)

\* An equation is evaluated behind all that it uses, in the same pass of the
\* solver (reorderEquations: "can be used to evaluate the list step by step").
EvaluatedInOrder ==
  [][\A e \in evaluated' \ evaluated :
       Uses(e) \ Generated \subseteq {Var(c) : c \in evaluated}]_vars

\* A check without errors marks the equations that can be evaluated and no
\* others: no mark of an earlier check is out of date.  No variable has two of them.
SolvableIsMarked ==
  pc = "evaluate" /\ at = 1 =>
    /\ \A e \in Entries(equations) : e \in marked <=> Solvable(e)
    /\ \A v \in Defined(equations) : Count(equations, v) = 1

\* No check loses an equation, whether it ends with an error or not.
NothingForgotten ==
  [][pc = "reorder" /\ pc' # "reorder" =>
       Entries(equations') = Entries(root) \union Entries(equations)]_vars

\* Every check of a netlist without cycles ends, and no cycle is seen where there
\* is none: if each variable has one equation, and a swept one none, the run comes
\* to its end.
Acyclic ==
  \A S \in SUBSET (Defined(equations) \union Property) \ {{}} :
    \E v \in S : uses[v] \intersect S = {}

ChecksEnd ==
  /\ Acyclic
  /\ \A v \in Name : Count(equations, v) <= 1
  /\ swept \intersect (Defined(equations) \union Property) = {}
  => <>(pc = "done")

\* A run without errors evaluates all equations (checker::check, equation.cpp:1564:
\* "non-zero if the parsed equations contained errors").  The code does not see
\* cycles of four equations.
AllEvaluated ==
  pc = "done" /\ ~errors => evaluated = Entries(equations)
=============================================================================
