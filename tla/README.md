# A verification project for Qucs

Qucs ("Quite Universal Circuit Simulator") is a graphical schematic editor
(`src/qucs`, C++ with Qt) and a command line simulator (`src/qucs-core`,
program `qucsator`). The editor writes a netlist, starts the simulator or the
converter as a child process, and shows the dataset it leaves behind. Around
the two stand small calculators (filters, transmission lines, attenuators), a
component library browser and vendored programs (ASCO, ADMS).

This directory holds TLA+ modules translated from that code, TLC
configurations that check them on small instances, and proofs of their most
important invariants for every instance, checked by TLAPS.

## 1. Inventory

What each part keeps, what it does, and what would make it correct.
`PROJECT.json` lists the same parts with their source files.

### The editor

**Schematic document** (`schematic.cpp`, `schematic_file.cpp`, `qucsdoc.cpp`,
`dialogs/settingsdialog.cpp`). State: the lists of components, wires, diagrams
and paintings; the paintings of the circuit symbol; document settings; two
lists of undo strings, each with a current element and two tag bytes per
element; the flag `DocChanged`. Operations: load, save, `setChanged`, undo,
redo, switch between schematic and symbol, `becomeCurrent`,
`adjustPortNumbers`, the settings dialog. It is sequential, but the flag is
worked out from the tags of *both* stacks, the symbol is changed behind the
back of its stack when ports come and go, and the undo depth is a global
setting that may change at any time. Correct: a document shown as saved equals
its file; undo and redo lead through exactly the states the user saw; the
current entry is always there.

**Simulation windows** (`dialogs/simmessage.cpp`, `qucs.cpp`
`slotSimulate` ... `slotAfterSimulation`, `dialogs/sweepdialog.cpp`). State: per
window a child process, flags copied from the document, a pointer to the
document, a pointer to an optimisation component; shared by all windows
`netlist.txt`, the netlist and the output file of ASCO, `log.txt` and the dataset
files; per document the display state of the DC bias. Windows are not modal:
the user edits, closes documents, starts further simulations and quits while
processes run. Correct: each window ends, once, and with the status of its own
process; the result shown is that of this simulation of this schematic; closed documents are not touched.

**Documents and tabs** (`qucs.cpp`, `dialogs/savedialog.cpp`). State: the pages
of the tab widget with the current one, a name and a flag per document. Operations:
new, open, save, save as, save all, close one or all, change of project, quit. Hard:
each of several saves may fail or be cancelled half way; modal dialogs have an
event loop of their own, in which a simulation may end and open, show or change
a document that the waiting slot has already looked at. Correct: no changed
document is lost without a question, one the user wants saved is saved before it
goes, no two documents have one name, an unmarked one is on the disk.

**Wires, nodes and labels** (`schematic_element.cpp`, `wire.cpp`, `node.cpp`,
`wirelabel.cpp`, `mouseactions.cpp`): a graph of nodes with lists of attached
elements, wires split and joined as elements are placed, moved and removed; a
label on a node or a wire names the whole net. Each change walks along the wires
and deletes the labels that are one too many. Correct: a net has one label, a
grounded one none, and a change of one net leaves the labels of the others.

**Node naming** (`schematic_file.cpp` `throughAllNodes`, `propagateNode`,
`createNetlist`): labels are propagated along wires, unnamed nets are numbered,
initial voltages are written as `NodeSet` lines. Correct: two nodes have one name
exactly if they are connected or labelled alike; each initial voltage is written
once.

**Mouse actions** (`mouseactions.cpp`): a handler per mode and event.

**Octave window, import dialog**: one child process each.

**Diagrams, paintings, property dialogs**: drawing and forms.

### The simulator

**Operating point search** (`nasolver.cpp`, `dcsolver.cpp`,
`exceptionstack.cpp`, and `trsolver::dcAnalysis`). State: the solution vectors,
the convergence helper, the continuation variables (source factor or extra
conductance, its previous value and its step), the source factor of the whole
net, a *global* stack of exceptions. Operations: one linear solution, three
loops around it, and callers that try the next helper when an exception is on
top of the stack. Correct: what is reported as a solution solves the circuit
itself and not an easier one; each helper gets its turn once; every search
ends; a failure is blamed on the search that failed.

**Transient analysis** (`trsolver.cpp`, `transient.cpp`, `states.cpp`,
`history.cpp`): step size control, rejection and roll-back of steps, ring
buffers of states, history of delay lines. Correct: rejected steps are not
saved, the ring gives back what was stored, time proceeds.

**Sweeps and order of analyses** (`net.cpp`, `parasweep.cpp`). State: the list of
analyses of the net, a list of children for each sweep, the values of the swept
parameters, the variables of the dataset with their dependencies. The list is
turned into a tree in place, then walked through recursively; the DC analysis is
taken along where one is needed. Correct: each analysis is solved once at each
point of the sweeps around it, from the operating point of that point, and the
sizes of the results fit those of the swept parameters.

**Netlist and S-parameter reduction** (`nodelist.cpp`, `spsolver.cpp`): circuits
are joined two by two and the original net restored at the end.

**Equations** (`equation.cpp`, called from `check_netlist.cpp`, `net.cpp`,
`parasweep.cpp` and `ucs.cpp`). State: one linked list of equations, handed from
checker to checker, with dependencies and three flags on each equation that
outlive a check. A check collects dependencies, looks for undefined and double
variables and for cycles, and reorders the list; a solver evaluates the marked
ones. Correct: what can be evaluated is, once its operands are known; cycles are
reported; checks end and lose no equation.

**Harmonic balance, AC, noise, digital analyses; mathematics; device models;
scanners and parsers**: numerical or generated code.

### How the parts interact

The editor starts `qucsator` (or `asco`, `qucsdigi`) with the netlist as its
input file and learns of its end by the signal `finished(int)`; simulator and
editor share only files. `SimMessage` calls back into `QucsApp` by the signal
`SimulationEnded`, which changes documents (bias points, results of an
optimisation) and so meets the undo history through `setChanged`. In the
simulator an analysis object lives through a whole sweep: what it keeps between
two calls of `solve` (its helper, the exception stack) reaches from one sweep
point to the next. The checks of the equations hand the list on in the same way:
flags set in one check are read in the next, with other equations around.

### Behaviours that are hard

Interleaving of windows, processes and user (simulation windows); state kept
across runs (exception stack, `showBias`); flags derived from two histories
(undo); loops whose end depends on more than one variable (continuation
methods); operations that fail half way (save, start of a process, copies of files).
The list `hazards` of `PROJECT.json` gives each at its line with the properties
that watch it.

## 2. Modules

| module | models | proofs |
|---|---|---|
| `Timeline` | the promise of an undo facility, without any code | |
| `DocHistory` | a schematic document; implements two `Timeline`s | `DocHistory_proofs` |
| `SimDialog` | the simulation windows, their processes and the user | `SimDialog_proofs` |
| `DocTabs` | the open documents, the questions before closing, saving under a name | `DocTabs_proofs` |
| `NetLabels` | wires, ground symbols and labels, and the node names of the netlist | `NetLabels_proofs` |
| `AnalysisOrder` | the tree of analyses and sweeps, and its run | `AnalysisOrder_proofs` |
| `DcSolver` | the operating point search and its two callers | `Solvers_proofs` |
| `StateRing` | a ring of the last states, as a data structure | `Solvers_proofs` |
| `TransientSolver` | the time loop of the transient analysis; its steps, solutions and charges are `StateRing`s | `Solvers_proofs` |
| `Equations` | the repeated checks of the equations and their evaluation | `Equations_proofs` |
| `Selection` | the list a loop makes of the elements it needs, and loops in general; used by `Equations`, `NetLabels` and `AnalysisOrder` | `Selection_proofs` |
| `MC...` | one for each of `DocHistory`, `SimDialog`, `DocTabs`, `NetLabels`, `AnalysisOrder`, `DcSolver`, `TransientSolver`, `Equations`: values of the constants for TLC | |

Operators whose comment begins "A plausible slip" are wrong variants of the
operator behind them. They are not used by any specification: each shows that
some property would notice that mistake in the code.

### DocHistory and Timeline

A drawing is the set of its subcircuit ports plus an abstract value `art`; a
symbol is an `art` plus the place of each port. An entry of a stack is a
snapshot with the two tag bytes of the string: `op` (`'m'` marks a marker move)
and `saved` (`'i'`). `Push` is the body of `setChanged`: drop the redo items,
let a marker move replace the marker move before it, append, trim to `maxUndo`.
`Undo` and `Redo` are `Travel(-1)` and `Travel(1)`, in the schematic or in the
symbol, each with the computation of the flag from both stacks.
`EnterSymbol` is the part of `becomeCurrent` that creates a symbol where there
is none. `SaveFails` keeps the side effect of the failing save: the ports are
adjusted before the file is opened. `running` becomes FALSE where the code
dereferences the current element of an empty list.

`Reload` is the reload of a document that another program has written
(`slotSimulate` finds out and asks): `load` runs on the open document and gives it
two `Fresh` stacks, whatever the old ones were. `file` therefore is what was
written last, by Qucs or by another program, and `Contents` says what such a file
may hold. "Calculate DC bias" leads to a reload in symbol mode, too: `load` ends the
mode (`symbolMode`), but the lists that are shown and edited stay those of the
symbol (`onSymbol`) until the page or the mode is changed or the document saved.
What the user then paints into the symbol is recorded as an edit of the schematic
(`EditAstray`); the history variable `strayed` tells that this has happened since
the document was loaded last, and ends what is promised of the symbol.

Any edit is one step to any other drawing: the editing operations themselves do
not matter to the history, only the call of `setChanged` at their end. File
contents are all or nothing.

`Timeline` states what the user is promised: undo leads back, redo leads on, an
edit forgets the future and, as far as the depth demands, the oldest past.
`UndoIsTrue` says that both stacks implement it, with the items before the
current one as the past and the screen as the present; only a reload may begin
anew.

### SimDialog

A slot of Qt runs to its end before the next event, so one slot with all it
calls is one action: `SlotSimulate` runs through `startProcess`, `nextSPICE` and
`startSimulator`. The branch of `nextSPICE` that converts SPICE files is left out:
nothing puts a SPICE file on the list `Collect`, which gets node sets and library
includes only; subcircuits from SPICE files are converted while `prepareNetlist`
runs. The record `dlg[s]` has the members of a window; `bias` (`showBias`), `SimOpt`
and `visible` have the names of the code. `ver`, `finishes`, `lost`, `last` and `got`
are only there for the properties. `proc[s]` is the child process: none, before and
behind the reading of its netlist, or ended with its signal not yet delivered. A
version counter stands for the contents of a document.

`netlist` is the file all windows write; `asco` are the two files of an
optimisation, the copy `createASCOnetlist` makes of it and the output of ASCO.
`WriteResult` writes a dataset, or the output of ASCO, which `FinishWell` copies into
the dataset (`SaveOptimization`) before it puts the values found into the schematic.
Either copy may fail, which the code does not notice; `lost` remembers it.

The simulators, Qt's event loop and the user are the environment. `Faults` says what
may go wrong besides the failures that are always possible (opening the netlist
file, `prepareNetlist`, `createNetlist`, the search for the program, a simulator that
reports an error): a program that is found but does not start, a directory for a
VHDL module that cannot be made, a copy of a file that fails, a simulator killed by a
signal. `Patient` says that the user does not start a simulation while another runs.

### DocTabs

`win` is the tab widget: the pages, the index of the current one, and of each
document its name, its content and `DocChanged`. `disk` holds the contents of
the files. A slot is one action up to the next modal dialog; `ask` says which
dialog is open, or how far a slot has come that saves several documents. The
file dialog of `saveAs` can be opened from six places: its record carries what
its caller does behind a success and behind a failure, as the returned `bool`
does in the code, which three of the callers ignore. While a dialog is open only
`SimulationEnds` can happen, as the signal of a process is delivered by the
event loop of the dialog; it may open and show a page and, with an optimisation,
change a document.

`Fails` says which operations may fail; `CancelName` and the other answers of the
user need no permission. Names are those behind the guessing of a suffix and
behind the conversion to an absolute path. Contents are two values; undo, which
can also clear the flag, is in `DocHistory`, the processes are in `SimDialog`.

### NetLabels

`drawn` is the list of wires and ground symbols in the order in which they were
connected, which is the order in which the walks meet them; `active` are the
ground symbols that are not deactivated; `label` is the label of each node and
wire, a text with or without an initial voltage. The geometry is left out: every
node is there from the beginning, held by a port of some component, and a wire
runs between two of them. Wires are straight and two that lie on each other are made
one, so that no two wires join the same two nodes (`PortsAssumption`).

`Walk` is the breadth first walk over the list `Cons` that four functions of the
code repeat with different bodies; `OneLabel`, `GetWireLabel` and
`PropagateNode` give it theirs. Its loops are `Rounds` of `Selection`, a recursive
function. `InsertWire`, `DeleteWire`, `InsertGround`,
`DeleteGround`, `Activate`, `Deactivate`, `SetLabel` and `EditLabel` are the
operations of the editor with the walks that each makes, which differ: a ground
that is inserted is not yet connected when it looks for a label, one that is
activated is. `Reload` is what loading does to labels and to the order of the
parts. `GiveNodeNames` is the whole naming for the netlist, with the initial
voltages. The properties compare with nets defined without any walk: `Nets` are the
smallest sets of nodes that no wire leaves (`Joined`).

### AnalysisOrder

`actions` is the list of the net, `children` that of each sweep. `OrderRound` is
a round of the loop of `orderAnalysis`: `Parents` follows the index of the inner
loop while the DC analysis is taken out of the list under it, and `Sorted` the
sorting of what contains a DC analysis to the front. `calls` is the stack of the
recursive `solve`: the net, then sweeps within sweeps, each with its point and
the number of the child to be solved. `value` holds for each parameter the sweep
and the point that have set it, so that `dcValue`, the values under which the DC
analysis was solved last, tells whether an operating point is up to date.
`SweepWithoutChild` is the crash behind a list that is not there. `Accepted` are
the netlists the checker lets through. `LastOrder` are the analyses to which the
first children of a sweep lead (`findLastOrderChildren`), as a least set; `Assigned`
makes their results depend on its parameter. `Asked` and `AskedOfDC` say how often an
analysis has to be solved, from the netlist alone.

The analyses themselves are one step each. For the DC analysis that step stands
for an entry of `Analyses` in `DcSolver`.

### Equations

An equation is its variable and where it comes from (`Kind`); a step is one round
of a loop, or one call of `recurseDependencies`. `Collect`, the four actions of
the search for cycles, `Move`, `Pass` and `Reordered` are `checker::check`;
`Evaluate` and `Evaluated` are `solver::evaluate`. `Found` are the properties of
circuits that become equations, those used by properties found before included.
The vectors an evaluation adds in front of the list (`addGeneratedEquation`) are left
out: they use nothing, and have generated names. `stage` says on whose behalf
the checker runs: when the netlist is read, with properties of circuits as
further equations; `Runs` times during the analyses, with the variable of a
sweep; at the end, with the vectors of the dataset. The flags `counted`,
`marked` and `cyclic` are kept from one check to the next, as in the code, and
so is the pointer `head` that the solver holds on the list while the checker
moves its elements. What the equations of a variable use, what is swept and what
the dataset has are inputs. A netlist in which a swept variable has an equation of
its own is refused (`netlist_checker_variables`). Names that end in a dot and four
digits are given by the solver alone, to what it adds for the evaluation; the
netlist, the sweeps and the datasets have none.

### DcSolver

A step is one pass through an innermost loop: one solution of the linearised
circuit and everything up to the next. The tiny number put into a singular matrix
(`eqnsys.cpp`, `NR_TINY`) is not part of what `circuit` says is solved. Voltages are
abstracted: the circuit
decides in each pass whether its matrix is singular and, within `Settles`,
whether the voltages have settled. Source factors, conductances and their steps
are integers in units of the smallest step the code still takes, so that
halving and the factor 1.5 round as integers do; the code stops shortening at a
fixed threshold, the model at 0. `estack` is the global exception stack.
`dcsolver::solve` is `StartDC`, `ReturnDC` and `Catch`; the numbering of the
fallbacks and the skipping of the helper asked for are those of the code.
`trsolver::dcAnalysis` is `StartTR` and `ReturnTR`; the rest of the transient
analysis appears only as a possible change of its helper.

Two branches of the code cannot be taken and are left out: `LU_FAILURE` is 0,
so that no linear solution fails, and fixpoint iteration is never switched on.

### StateRing and TransientSolver

`StateRing` has the operations of `states.cpp` on a record of the values and the
place of the current one. `TransientSolver` takes three of them: the steps
(`dState` of the solver), the solutions (`SOL`) and the charges of one integrator,
which stands for all of them since all are moved together.

A step is one pass through the inner loop of `trsolver::solve`. Times and steps
are integers, and exact but in one place: behind a rejection the code takes the step
off the time and compares the result with the last time of the delay histories, on
doubles, so that equal times may differ either way (0.3 + 0.1 - 0.1 > 0.3).
`UpdateHistory(above)` takes either outcome there. A solution is known by its time and by how it came about
(initially, predicted, by a pass that came to its end, by one that failed), so
that a property can ask whether the right one is in the right place.
`CorrectorFails` is the handler of `NO_CONVERGENCE` with the halved step and, if
it is due, the step back; `FirstSteps` are the two passes without an estimate;
`AcceptStep` and `RejectStep` the others, for any estimate of the truncation
error in `Estimates`; `Abort` ends the analysis for any other exception or an
invalid step. `Init` is the state behind the initial DC analysis, which is
`StartTR` and `ReturnTR` of `DcSolver`. `passes` counts the passes modulo 2: a
pass repeated with the same step changes nothing else, and would be a stuttering
step that hides an endless repetition. `converged` is capped behind the number
of quiet passes the code asks for, `running` at 2.

## 3. Runs

All runs use a few model values and small bounds; each lasts two minutes
or less. Deadlock is checked for `DocHistory` and `NetLabels`; in the other
modules a simulation, an analysis, a check or the program may come to its end.

| run | instance | result |
|---|---|---|
| `DocHistory_undo` | one port, one painting beside the frame of a new symbol, 2 settings, undo depths 1 and 3 changing at any time, reloads in either mode | `TypeOK`, `LiveIsCurrent`, `MarkedIsFile`, `CleanIsSaved` and both refinements of `Timeline` (`UndoIsTrue`) hold |
| `SimDialog_turns` | 2 windows one after the other, a schematic with an optimisation that may be inactive and a VHDL text that is simulated or compiled, reloads, failing starts, directories and copies | `TypeOK`, `ResultIsOwn` hold |
| `SimDialog_ends` | 2 windows at the same time, simulators that may be killed | `EndsOnceProperly` and `SimulationEnds` hold |
| `DocTabs_close` | 3 documents, 2 names that are data displays of each other, one simulation at a time, failing saves and loads | `TypeOK`, `NoTwoOfOneName`, `CleanIsOnDisk`, `SaveAllSaves` and `AskedBeforeDeleting` hold |
| `DocTabs_saved` | 2 documents, nothing fails | violated: `SavedBeforeDeleting` |
| `NetLabels_netlist` | 4 nodes in a square, a ground symbol at one of them, a name, a label spelled like ground and one without a name, 2 labels at most | `TypeOK`, `NamesAreNets`, `VoltagesAreKept`, `OneLabelIsLeft` hold |
| `NetLabels_loop` | 5 nodes, a square with a tail, 2 names | violated: `EachNetOneLabel` |
| `Analysis_order` | every netlist of 4 or 5 analyses with up to 3 sweeps of 2, 3 and 2 points, in any order, with any choice of what they name | `TypeOK`, `EveryPointIsSolved`, `ResultsFillTheGrid`, `StartsFromItsPoint`, `RunEnds` hold |
| `DcSolver_sweep` | two DC analyses and then a transient one, all six helpers, singular or not | `TypeOK`, `SolvesTheCircuit`, `EachHelperOnce`, `FailureIsOwn`, `GMinSteppingEnds` hold |
| `Transient_steps` | three requested times, orders up to 3 in rings of 5, any sequence of seven estimates, passes that fail at steps above 4 | `StepsMatchTimes`, `IntegratorsMatch`, `HistoryIsTrue`, `SavedIsAccepted`, `OnTime` and `TransientEnds` hold |
| `Equations_check` | 2 or 3 equations with every choice of what they use among ten sets, a second equation for one variable, two properties, one of which may use the other, a generated name, a sweep, a dataset, 2 runs | `TypeOK`, `SolvableIsMarked`, `EvaluatedInOrder`, `NothingForgotten`, `ChecksEnd` hold |
| `Equations_cycle` | 4 equations that use at most one other each | violated: `AllEvaluated` |

What the properties say is in the comment on each; in short:

* *The document.* The screen is the current snapshot, an entry marked as saved is
  what the file holds, a document shown as unchanged is its file, and each stack
  is a timeline that leads back through what the user saw; of the symbol, until an
  edit of it goes to the history of the schematic.
* *Simulations.* Every started simulation ends, once, and not before its process;
  results and bias points shown come from an own run that succeeded, also those of
  an optimisation, which pass through files that all optimisations share.
* *Documents.* Two never share a file; an unmarked one is on the disk; Save All
  leaves none behind; none goes with changes nobody asked about.
* *Nets.* The netlist gives two nodes one name exactly if wires, labels or ground
  join them; each initial voltage is there once; editing leaves at most one label.
* *Sweeps.* Each analysis is solved exactly at the points of its sweeps, from the
  operating point of that very point, and its results fill the grid of the
  parameters, those of the DC analysis if all it goes with is swept alike; runs end.
* *Operating point.* A success has solved the circuit itself; each helper is tried
  once and a failure is saved only when none is left; a handler catches the
  exception of its own search.
* *Transient analysis.* Steps, solutions, charges, delay histories and results
  agree on which passes were accepted, but for what rounding lets into the delay
  histories behind a rejection; requested times are met; the analysis ends.
* *Equations.* An equation is evaluated behind all it uses; one without undefined
  or cyclic operands is marked; none is lost; checks end.

Why the bounds are enough. *DocHistory*: with depth 3 there is a past, a present
and a future at once and trimming happens with each of them, with depth 1 nothing
is kept; a drawing with and without the port suffices to tell a snapshot from its
neighbour and to change the symbol behind its stack; the two settings are
interchangeable (`SYMMETRY`, no property is about liveness); nothing else is bounded.
*SimDialog*: two windows are the least that can disturb each other through the
netlist file, the files of an optimisation, the dataset or `showBias`; of the two
documents each kind of program has one; one edit suffices to make a version stale. *NetLabels*: a square is the least grid with a
loop; two labels are the least that can meet in a net; a ground at the corner is
reached from both sides. *AnalysisOrder*: three sweeps can be nested, stand
beside each other or share a child, before and behind what they name; sizes 2 and
3 tell which sweep was multiplied. *DcSolver*: 44 is the least `MaxIter` with
which source stepping can end at all; the passes in which the voltages may settle
lie on both sides of every comparison the loops make (a quarter of a quarter, a
quarter, the last pass); the first steps of 8 units can be halved three times.
*DocTabs*: three documents are one that is closed, one that is current and one
that a simulation opens meanwhile; two names suffice for a clash; two contents
tell a saved document from a changed one; documents are interchangeable
(`SYMMETRY`), no property is about liveness. *TransientSolver*: a ring of 5 is
the least for order 3, so that the oldest entry in use is next to the one
overwritten; the estimates lie on both sides of the minimum, of the maximum and
of the factors by which the code compares; the requested times are once as far
apart as the largest step and once farther; steps are long enough to be halved
twice before the minimum. The code's 64 quiet passes are 2. *Equations*: three
equations form every shape of dependency up to a chain, a diamond's half, and
cycles of one to three; two runs tell what a check leaves to the next of its
kind; the fourth equation is only needed for the cycle that is not seen.

### Fairness

`SimDialog`: weak fairness of `SimulatorExits` and `SlotSimEnded` for each
window. A simulator that was started ends (the run asks what the window makes of
it), and Qt delivers the signal of its end. Nothing is assumed of the user.

`DcSolver`: weak fairness of `Next`. The simulator is one thread that always
runs on. Whether a pass settles is not fair: `GMinSteppingEnds` holds however
the circuit behaves.

`TransientSolver`: weak fairness of `TRNext`, as the simulator is one thread. The
estimates and the failures are not fair; that short steps converge (`Solvable`)
is an assumption about the circuit.

`AnalysisOrder` and `Equations`: weak fairness of `Next`, for the same reason.
Both only loop over data; their liveness properties say that no round repeats
itself.

`DocHistory`, `DocTabs` and `NetLabels` have safety properties only: nothing is
owed to a user who stops.

### Disagreements found

Each is a run with the expectation "violation"; TLC's trace is the scenario.

* *Save saves another document.* Closing a tab that is not the current one asks
  about its document; the answer Save saves the current one, and the document
  that was asked about is deleted with its changes.
* *A loop keeps two labels.* The walk that deletes further labels leaves out a
  wire whose other end it has already met, with its label; the netlist then names
  the nodes of one net after both.
* *A cycle that is not seen.* `recurseDependencies` looks two levels deep unless a
  cyclic equation is known already; a cycle of four equations passes the check,
  which reports no error, and is not evaluated.

Further ones were met while modelling and are noted with their hazards. TLC finds
those marked with a star when the named constant, or the property of the run, is
changed.

* Undo: depth 0 ends in a null pointer; the place of a port symbol is lost by
  deleting the port and undoing; a change of settings takes no snapshot, so that an
  undo and a redo lead back to an entry marked unchanged.
* Simulation windows: `if(!SimProcess.Running)` reads an enumeration constant, so
  that a program that does not start leaves its window waiting (* `Faults` with
  `"start"`); so does a VHDL directory that cannot be made (* `"directory"`); abort and quit hide
  windows without ending their processes; a copy of the netlist for ASCO, or of its
  output into the dataset, that fails is reported as a success (* `"copy"` without the
  condition on `lost`); bias points of an edited schematic are shown all the same; a
  simulator killed by a signal is reported as a success (* `"crash"`); the window
  copies what it needs "as the document could be closed during the simulation", but
  `slotAfterSimulation` uses the document all the same (* `ClosedDocIsNotUsed`); a
  calculation of the DC bias that finds its file changed and reloads it is a plain
  simulation, as `load` takes the request back (`setChanged`); the branch for SPICE
  files of `nextSPICE` is reached by nothing.
* Reload: the result of `load` is ignored, so that a file that cannot be read leaves
  a cleared drawing under the old flag and stacks. A reload in symbol mode, by way of
  "Calculate DC bias", which stays enabled there, leaves the symbol on the screen of a
  document in schematic mode: its edits become entries of the schematic's history,
  undo does not take them back, and behind an undo or a redo to the entry of the last save
  the changed symbol is shown as saved (* `CleanIsSaved`, `MarkedIsFile` or `UndoIsTrue`
  without `strayed`).
* Labels: an initial voltage without a name is lost by saving or by undoing.
* Sweeps: two sweeps of one analysis with the DC analysis before them in the list
  leave one of them without children, whose length is then asked of a null pointer
  (* `RunEnds` without `Unshared`); results of sweeps that share an analysis at
  different depths do not fit their grid (* `ResultsFillTheGrid` without
  `SameOrder`). The DC analysis is given to the sweeps of several analyses: of `dc`,
  `ac` and `tr`, with a sweep of 2 points for `ac` and one of 3 for `tr`, it is solved 5
  times and depends on both parameters, whose grid has 6 points (* without
  `GoesWithOne`).
* Equations: the recursion does not end for an equation that uses one of a cycle
  already met and one of a cycle of two still to come (* `ChecksEnd` without
  `Acyclic`).
* Documents: closing goes on behind a save that failed or was cancelled; the
  dialog for all documents saves the current one in place of an untitled one; a
  document changed by an optimisation while that dialog is open is deleted
  without a question (* `Optimises = BOOLEAN`); a Save As that fails leaves an
  unmarked document under a name without a file (* `Fails` with `"saveAs"`).
* Operating point: a search that settles in its last pass is reported as failed.
  Source stepping may not end: the variable by which its loop ends is moved on only
  by an inner loop that took less than a quarter of its passes, which no loop can
  with `MaxIter` below 44 (* `SourceSteppingEnds`, `MaxIter = 40`). The second search
  of `dcAnalysis` has no handler; the exception it leaves on the global stack is
  taken for the failure of the next sweep point (* `FailureIsOwn`, two transient
  analyses).
* Transient analysis: a first pass that does not converge at time 0 is saved as
  the result for that time (* `Fragile = {0}`, `Solvable = 0`); a second one that
  fails leads back to time 0, which is then solved twice as a step of its own
  (* `Fragile = {1}`); at the minimum step a failing pass is repeated for ever
  (* `Solvable = 0`); with a maximum step above the distance of the requested
  times a pass taken back may be saved.

## 4. Proofs

TLAPS checks the following for every value of the constants that satisfies the
named assumptions of the module.

**DocHistory_proofs.** The invariants are not inductive by themselves: that a
document shown as saved equals its file after an undo depends on the tags, the
tags on what earlier saves left, and all of it on the screen being the current
snapshot. `IInv` joins types, the position of the current entry, the truth of
the tags (`MarkedIsFile`), screen against snapshot (`LiveIsCurrent`) and the
flag (`CleanIsSaved`), with neither stack empty and the program running. Lemmas
say what `Push`, `MarkSaved`, `Stepped` and `Fresh` do to a stack in general: every
entry behind a push is an old one or the new snapshot; behind a save an entry is
marked only at the current position. The step theorem has one case per action.
Results: `TypeCorrect`, `SavedFlagIsTrue`, `TagsAreTrue`, `ScreenIsSnapshot`,
`NoCrash`, all under the assumption `DepthsPositive`, that no undo depth is 0.
Reloads may happen in either mode; the parts about the symbol are claimed, in `IInv`
as in the properties, as long as `strayed` is FALSE, while those about the schematic
survive the edits that go astray, since what they push is the schematic on the screen.

Its second half proves `UndoImplementsTimeline`: under the same assumption each step of
`DocHistory` is a step of the abstract timeline of either stack, a stutter, or a
reload that begins it anew. The refinement mapping reads past and future off the
items on both sides of the current one. Lemmas about sequences (`Push` is a cut,
an append and a trim) are stated once for any stack and used for the states of
the schematic and for the paintings of the symbol; that the screen is the present
is `LiveIsCurrent`, so the proof rests on `IInv`.

**SimDialog_proofs.** `WindowTypes` and `EndsOnce` for any set of windows and
documents and any faults. `IInv` adds to the types what a window and its process know
of each other: a process only runs while its window is simulating, which is behind
the assignment of `SimOpt`, and a window that has finished has no process left that
could finish it again. What the calls of a slot do (`StartProcess`, `FinishWell`) is
stated first, as lemmas about any window, so that the proof of each slot speaks of the
shared state only.

`ResultsAreOwn` holds under `InTurns`: the user starts no simulation while another
runs, and no simulator is killed by a signal. Both are needed, as the disagreements
above show. The invariant adds that there is one process at most, that the netlist
file, and the copy of it for ASCO unless it was lost, belong to its window, that the
window is the last one of its document, that the output file of ASCO is that of the
process that has just succeeded, what a dataset holds, and that the last window of a
document that ended well left its dataset unless copying it failed. An optimisation
takes its result from a file that other windows have written before: that the file
is its own when it is copied is the point of the proof.

**DocTabs_proofs.** The tab widget is treated like a data type: lemmas say of any
window what adding, closing, naming, saving or showing a page does to the set of
pages, to names and to marks, and the slots are proved from them. `IInv` says in
each modal dialog what the slot behind it still relies on (`AskOK`). Results:
`TabTypes`, with a current page as soon as there are pages, and `NamesAreUnique` without further assumptions; `UnmarkedIsOnDisk` if
neither a Save As nor the creation of a data display may fail (`NamesAreWritten`);
`SaveAllIsComplete` and `NothingGoesUnasked` if no simulation writes into its
schematic (`NoOptimiser`). Each of these assumptions is one of the disagreements.

**Solvers_proofs, `DcSolver`.** `SuccessIsReal` (a search that reports success has solved
the full circuit) rests on a small invariant of the loops: the loop numbers are
naturals, source stepping never exceeds the full factor, outside of it the net's
factor is full (`SourcesAreFull`), and a reported solution solves the circuit. It
needs no assumption on `MaxIter`, the steps or the circuit but that they are
natural numbers in the right order. `OwnFailures` and `NothingLeft` need
`StackInv`: in a sequence of DC analyses the global stack is empty but where a
search has just returned, and there it holds one exception, that search's own,
exactly if it failed. The assumption `OnlyDC` is needed, since the second search
of a transient analysis leaves its exception on the stack. `HelpersOnce` and
`SolverTypes` need no such assumption. `Tries` relates the index of the fallback to
the list of the helpers tried: these are the one asked for and all fallbacks up to
the index, none of them twice (`NextHelper`: the next one is none of these).
A failed search always leaves an exception, so that the loop of `dcsolver::solve`
can only end without a success where the list of its helpers ends.

**Solvers_proofs, `TransientSolver`.** For every length of at least 3 the ring of `StateRing` is
a shift register: positions have different slots (`SlotsDiffer`), storing changes one of them
(`SetGet`), and a shift moves each value by one position and the oldest to the
front (`NextGet`), where the next pass overwrites it.

`TransientTypes`, `PredictorIsRight`,
`IntegratorsAreRight` and `HistoryIsRight` are proved for every ring, order,
limit of steps and sequence of estimates and failures, under `StartsWell` (no
failure in the first two passes; the section on disagreements says why it is
needed). `IInv` adds to these properties the types of the rings (`RingsOK`) and
where the first passes are (`Progress`): without it an order above 1 could meet a
ring not yet filled. Two lemmas carry the proof: a pass that stays (`StayKeeps`)
leaves every position but the current one, a pass that shifts (`ShiftMoves`)
moves all of them, both by the facts about the ring. `HistoryIsRight` says of the delay
histories that the last entry made for a new time is the accepted solution of that
time, and that anything entered for it besides is of a pass that has reached beyond. An accepted step then
has one case for the new position and one for the shifted ones.
`ResultsAreAccepted` additionally assumes that requested times are at least the
maximum step apart (`Spaced`); `Pace` says how far behind the requested time the
loop stands, which makes every way out of it one behind an accepted pass.
`ResultsAreOnTime` proves `OnTime` under the same assumptions and `StartsFar`: the
first two steps, which no estimate changes, do not lead past the first requested
time unless it is 0. `Meets` says that, while all passes converge, no step up to a
requested time leads past it by the minimum step, and that a step is kept for later
only by one that reaches the time.

**Selection_proofs.** What the proofs about lists rest on. The induction theorems of
the library take a predicate as a parameter, which the provers cannot use; here
induction over numbers and over the length of a list is stated for *sets* in place of
predicates, and follows from the well-foundedness of < (`Induction`,
`InductionUpTo`, `ListInduction`). `Recursion` says that a function defined by
recursion over numbers exists, `RecursionIsUnique` that it is the only one. From
these follow the equations of `Only`, the selection of a list: what it does to an
appended element, to a concatenation, and which elements it has. `RunOfRounds` says
the same of a loop: one written with `Rounds` runs through states of its type, each
made of the one before by one round. An invariant of the loop is then proved by
`InductionUpTo` over the rounds.

**Equations_proofs.** All of `TypeOK`, `SolvableIsMarked`, `EvaluatedInOrder` and
`NothingForgotten` for all netlists, sweeps, datasets and numbers of runs over a
finite set of names. It assumes what the code guarantees about names: what is
generated belongs to no equation, sweep, dataset or property, and a netlist does not
hold an equation twice. The difficulty is that marks live longer than the check that
has set them, and that the list is taken apart and put together by name.

* *A mark is never out of date* rests on `Grounded`: every set of variables that has
  the generated names and is closed under the equations with a mark has the variables
  of all marked ones. That is how "can be evaluated from nothing" is said without a
  recursion, and it survives each move and each change of the list, since the
  equations in question only gain others beside them.
* *The reordering is complete* (`ReorderingIsComplete`): at its end the variables of
  the new list, together with the generated ones, are closed, so that what an
  equation depends on (`LeadsTo`) stays among them; hence the new list holds exactly
  the equations with a value (`ReorderingIsRight`), each behind all it uses (`Sorted`).
* *No equation is lost*: a solver whose check failed goes on with what follows the
  old first equation. That equation uses nothing if any equation does
  (`FreeFirst`, `HeadOK`), is therefore the first to be moved, and so everything
  follows it (`FromHeadIsAll`).
* *Every variable has one equation* where the solver evaluates: the duplicate
  counter, which skips what earlier checks have seen, still finds each new double
  (`DoublesAreSeen`).
* *What can be evaluated is marked* (`SolvableIsReached`): among the unmarked ones an
  equation leads to there would be one that leads to fewest variables; it uses
  another unmarked one, which leads to fewer still unless there is a cycle.

**NetLabels_proofs.** `LabelTypes`, `NodesAreNamed`, `VoltagesAreGiven` and
`LabelsStayOne` for every finite list of nodes and any wires, grounds and labels, with
no assumption but those of the module. `Inv` joins `SchematicInv` (types, no part drawn
twice, labels only on what is drawn and no more than the bound) and `NetlistOK` (names
are forgotten, or they are what `GiveNodeNames` makes of this very schematic).

* *Nets without recursion.* `NetOf` is the intersection of all sets with a node that
  no wire leaves; `NetsAre` and `OneNetEach` say that these are the `Nets` and that each
  node is in one.
* *What a walk meets* (`WalkMeets`): the list `Cons` holds no node twice, so that it is
  never longer than the list of all nodes, and at the end of the walk everything on it
  was looked at. A walk that may enter every node hence has met exactly the net
  (`MeetsTheNet`); one that enters only unnamed nodes has spread its name as far as
  unnamed neighbours reach (`Spread`).
* *Names.* `FirstPass` is the invariant of the walks from the nodes with given names:
  what has a name has that of its net. Behind it a net has names for all its nodes or for none (`FirstPassEnds`), and the
  second pass gives each of the latter a number of its own (`SecondPass`). From both
  follows what the netlist promises (`NamesFollow`).
* *Initial voltages.* A line is written wherever a walk passes a label, on a node or on
  the wire it goes over. `Recorded` says that lines and conductors with a voltage
  correspond one to one; that no label is passed twice and none is left out is where
  each net's having one label is needed.
* *One label.* Every node but the first is entered over one wire, so that a walk looks
  at one wire fewer than there are nodes (`Seen`, `Traced`). In a net without a loop
  these are all wires, and no label can hide on another one (`OneLabelLeaves`,
  `OneLabelTidies`). This is the place where the proof needs `LoopFree`, and the
  disagreement of `NetLabels_loop` is what happens without it. `GetWireLabelFinds`
  says the same of the search that an inserted ground or a label makes. For each
  operation of the editor one lemma (`InsertWireKeeps` and so on) puts this together
  with what the operation does to the nets (`SameNets` if nothing).

**AnalysisOrder_proofs.** `AnalysisTypes`, `PointsAreOperated`, `PointsAreSolved`,
`GridIsFilled` and `DependenciesAreComplete` for every netlist the checker accepts: any number of analyses and sweeps that name
each other without a cycle, any numbers of points.

* *The operating point is fresh* (`PointsAreOperated`). `Inv` says of the lists that
  no analysis stands in two places of one (`ListsOK`) and that no list of a netlist with
  a DC analysis begins with one that needs it (`HeadsOK`). For that the order has to
  keep something in the list of the net that is or contains a DC analysis (`Reaches`);
  sorting then brings it to the front. Hence behind the first element of any list the
  last DC solution belongs to the present values (`FreshPoint`): it is the element, or
  was the first one solved in it.
* *The tree* (`TreeOK`): a sweep has the group of what it names or nothing, what has
  left the list of the net is named (the DC analysis: named or taken along), and at the
  end of the order nothing in that list is named.
* *The tally* (`TallyOK`). The sweeps on the stack stand in each other (`Chained`), so
  that by the absence of cycles none is on it twice (`ChainDistinct`). `Balanced` says
  of every analysis that the number of its solutions is the sum of what the lists that
  hold it have contributed: the points of all finished runs of a sweep, the points done
  in the present one, and one more where its place has been passed. `BalanceMoves` is
  the step that solves an analysis or leaves a sweep, `BalanceStays` each of the others.
* *The number asked for.* At the end every sweep has run: among those that did not there
  would be one that none of them names (`FirstOfAny`), but what names it ran. Thus the
  numbers are the shares of each other (`SharesAreTaken`), and as each round of `Asked`
  makes one analysis more right for good (`SharesAreAsked`), they are those asked for.

* *The grid of the results.* `AxisOK` says that the values saved of a parameter are
  the points that its sweeps have done in their first runs (`FirstRun`). `DepsOK` bounds
  what results depend on from both sides: each parameter is that of a sweep of which the
  analysis is one of the last, and none of a sweep that has solved what it names is
  missing. At the end the parameters are hence those of all sweeps that lead to the
  analysis (`DepsAre`, `DependenciesAreComplete`), which `Leading` says from the netlist
  alone (`LastOrderLeads`). `ResultsFillTheGrid` compares a product along this chain with
  the number asked for, which is a sum over the sweeps that name an analysis. With
  `SameOrder` several sweeps of one analysis depend on the same parameters and are
  solved equally often (`ParamsAre`), so that the sum is a product. The DC analysis
belongs in it where all sweeps it is given to and named by are led to alike
(`GoesWithOne`): its hosts then stand in for the sweeps that name it. `GridIs` goes down
  the chain, again by `FirstOfAny`.

Only model-checked, not proved: `SimulationEnds`, `GMinSteppingEnds`, `TransientEnds`,
`RunEnds` and `ChecksEnd`. Liveness under fairness, as anything about ENABLED, is out of
the prover's reach. All invariants and action properties of the passing runs are
theorems.

## 5. Not modelled

* *Numbers.* Device equations, matrices, integration formulas, interpolation in
  stored histories, harmonic balance, AC and noise analysis, the evaluation of
  equations: straight computations with real numbers, correct up to rounding. In
  `DcSolver` and `TransientSolver` they appear as free choices of whether a pass
  converges and how large an error is.
* *Generated and vendored code.* Scanners and parsers, the Verilog-A devices written
  by ADMS, ADMS and ASCO themselves. They are by far the largest part of the
  repository and have no state of their own that lasts from one call to the next.
* *Drawing and forms.* Diagrams, paintings, property dialogs, the calculators, and
  the handlers of the mouse but those that set labels.
* *Geometry of the schematic.* Splitting, joining and covering wires, moving,
  rotating and copying depend on coordinates; `NetLabels` keeps only which nodes a
  wire joins.
* *Text.* The netlist, the progress output of the simulator, file formats and file
  names; a file is all or nothing, except that saving and loading may fail.
* In `DocHistory` a reload that fails, and parts of a schematic pasted into the symbol
  behind a reload in symbol mode; in `TransientSolver` a time that stays an ulp short
  of the requested one behind an exact step; in `Equations` export to the dataset
  (`checkExport`), types of operands (`applyTypes`) and exceptions of the evaluation;
  in `NetLabels` subcircuits and digital signals; in `AnalysisOrder` errors of the
  analyses and subcircuit environments.
* *Reduction of S-parameter netlists* (`spsolver.cpp`): its control chooses pairs of
  circuits by their numbers of ports; what it has to keep is an algebraic identity.
* *The Octave window and the import dialog*: one process each, without shared state.

## 6. Plan

Done: `Timeline` and `DocHistory` (the user's work must not be lost), `SimDialog`
(the only concurrent part), `DcSolver` (its answers must be real), `StateRing` and
`TransientSolver` (its history decides every later step), `DocTabs` (again the
user's work), `NetLabels` (what is simulated must be what is drawn),
`AnalysisOrder` and `Equations` (what is computed, and in which order), and the
proofs of all their safety properties.

What could follow, in this order:

1. `NetLabels` with wires that are split and joined: a wire then is a set of places,
   and insertion and removal of an element change several wires at once.
2. `DocTabs` with the way into a subcircuit and back, and with menus that follow the
   page.
3. `AnalysisOrder` composed with `DcSolver`, to state `FailureIsOwn` of the whole run
   of a netlist, and with `Equations`, which it calls at each point.
4. A fault of `Reload` in `DocHistory`, with what the undo history then still
   promises.
