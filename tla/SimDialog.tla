------------------------------ MODULE SimDialog ------------------------------
(***************************************************************************)
(* Simulations started from the editor: the simulation windows (class      *)
(* SimMessage), the processes they start, and what QucsApp does when one   *)
(* of them ends (slotSimulate, slotDCbias, slotAfterSimulation).           *)
(*                                                                         *)
(* A slot runs to its end before the next event is served, so each slot is *)
(* one action, with everything it calls.  Windows, documents and processes *)
(* interleave freely: the windows are not modal.  All windows share the    *)
(* netlist file of the user's home directory, and all optimisations share  *)
(* the netlist and the output file of ASCO there.  The programs the        *)
(* windows start are external.                                             *)
(***************************************************************************)
EXTENDS Integers

CONSTANTS Sim,        \* simulation windows, in no order
          NoSim,      \* none of them
          Doc,        \* documents
          TextDoc,    \* the documents that are VHDL texts
          OptDoc,     \* the schematics with an optimisation component
          MaxEdits,   \* bound on the changes made to one document
          Faults,     \* what may go wrong: "start", "directory", "copy", "crash"
          Patient     \* the user never starts one simulation during another

ASSUME DocAssumption ==
  Doc # {} /\ TextDoc \subseteq Doc /\ OptDoc \subseteq Doc \ TextDoc
ASSUME NoSimAssumption == NoSim \notin Sim
ASSUME BoundAssumption == MaxEdits \in Nat

VARIABLES page,      \* documents whose page is open
          ver,       \* how often each document has been changed
          showBias,  \* Doc->showBias
          painted,   \* the version the painted bias points belong to
          dlg,       \* the windows
          proc,      \* the process of each window
          got,       \* the windows whose text the simulator found in its netlist
          netlist,   \* the windows whose text the netlist file holds
          asco,      \* asco_netlist.txt and asco_out.dat
          dataset,   \* the dataset file of each document
          last,      \* the simulation started last for each document
          quit,      \* the application has ended
          crash      \* which deleted object has been used: "no", "doc", "opt"

files == <<netlist, asco, dataset>>
vars == <<page, ver, showBias, painted, dlg, proc, got, files, last, quit, crash>>

\* "lost" is a history variable: the copies of files the window did not manage.
NoWindow == [phase |-> "unused", doc |-> CHOOSE d \in Doc : TRUE,
             program |-> "qucsator", visible |-> FALSE, bias |-> -1,
             openDpl |-> FALSE, ver |-> 0, SimOpt |-> "uninitialized",
             status |-> -1, finishes |-> 0, lost |-> {}]

NoResult == [by |-> NoSim, of |-> {}]

Init ==
  /\ page = Doc
  /\ ver = [d \in Doc |-> 0]
  /\ showBias = [d \in Doc |-> -1]
  /\ painted = [d \in Doc |-> 0]
  /\ dlg = [s \in Sim |-> NoWindow]
  /\ proc = [s \in Sim |-> "none"]
  /\ got = [s \in Sim |-> {}]
  /\ netlist = {}
  /\ asco = [netlist |-> {}, out |-> NoResult]
  /\ dataset = [d \in Doc |-> NoResult]
  /\ last = [d \in Doc |-> NoSim]
  /\ quit = FALSE
  /\ crash = "no"

Alive == ~quit /\ crash = "no"

-----------------------------------------------------------------------------
\* FinishSimulation, and slotAfterSimulation on the signal it emits.

\* The window w behind FinishSimulation(-1), and behind FinishSimulation(0).
EndsBadly(w) ==
  [w EXCEPT !.phase = "ended", !.status = 1, !.finishes = @ + 1]

EndsWell(w, lost) ==
  [w EXCEPT !.phase = "ended", !.status = 0, !.finishes = @ + 1, !.lost = @ \union lost,
            !.visible = @ /\ ~(w.bias = 0 \/ w.openDpl)]

\* SweepDialog::setBiasPoints: the voltages calculated for version v are painted.
SetBiasPoints(d, v) ==
  /\ showBias' = [showBias EXCEPT ![d] = 1]
  /\ painted' = [painted EXCEPT ![d] = v]

\* The result of an optimisation is copied into the dataset; when one of the two
\* files cannot be opened nothing is said of it.
SaveOptimization(d, lost) ==
  dataset' = IF lost = {} THEN [dataset EXCEPT ![d] = asco.out] ELSE dataset

\* The end of a simulation of d, whose values may have been optimised: they are put
\* into the schematic.  A bias calculation is painted if the page is still open,
\* even if the schematic has changed.  The document is used in any case.
AfterSimulation(d, w, optimized) ==
  /\ optimized => ver[d] < MaxEdits
  /\ ver' = [ver EXCEPT ![d] = IF optimized THEN @ + 1 ELSE @]
  /\ IF w.bias = 0 /\ d \in page
       THEN SetBiasPoints(d, w.ver)
       ELSE /\ showBias' = [showBias EXCEPT ![d] = IF optimized THEN -1 ELSE @]
            /\ UNCHANGED painted
  /\ crash' = IF d \in page THEN "no" ELSE "doc"

\* The window s ends well.  The optimisation component it remembers may be gone.
FinishWell(s, w) ==
  LET d == w.doc
      gone == w.SimOpt = "deleted" \/ d \notin page
  IN
  IF w.SimOpt = "none"
  THEN /\ dlg' = [dlg EXCEPT ![s] = EndsWell(w, {})]
       /\ AfterSimulation(d, w, FALSE)
       /\ UNCHANGED dataset
  ELSE \E lost \in SUBSET (IF "copy" \in Faults THEN {"result"} ELSE {}) :
         /\ SaveOptimization(d, lost)
         /\ IF gone
            THEN crash' = "opt" /\ UNCHANGED <<dlg, ver, showBias, painted>>
            ELSE /\ dlg' = [dlg EXCEPT ![s] = EndsWell(w, lost)]
                 /\ \E optimized \in BOOLEAN : AfterSimulation(d, w, optimized)

-----------------------------------------------------------------------------
\* startProcess and startSimulator, which follow each other in one slot.

\* The program chosen for d: a VHDL text is simulated, or compiled as a module; the
\* optimisation of a schematic may be inactive.  "qucsator" stands for the digital
\* simulators of schematics, too.
Program(d) ==
  IF d \in TextDoc THEN {"qucsdigi", "qucsdigilib"}
  ELSE IF d \in OptDoc THEN {"qucsator", "asco"} ELSE {"qucsator"}

\* Where the start may fail: the netlist file, prepareNetlist, createNetlist, the
\* search for the program, the directory for a module, and, unnoticed because the
\* test of SimProcess.Running reads an enumeration constant, the start itself.
Trouble(d, program) ==
  {"none", "open", "program"}
    \union (IF d \in TextDoc THEN {} ELSE {"prepare", "create"})
    \union (Faults \intersect IF program = "qucsdigilib" THEN {"start", "directory"}
                                                         ELSE {"start"})

\* SimOpt gets its value in startSimulator only.
FindOptimization(program, trouble) ==
  IF trouble \in {"open", "prepare"} THEN "uninitialized"
  ELSE IF program = "asco" /\ trouble # "create" THEN "optimization" ELSE "none"

\* The window w behind the slot.  A missing directory just leaves the slot.
StartedWindow(w, program, trouble, lost) ==
  LET v == [w EXCEPT !.program = program, !.lost = lost,
                     !.SimOpt = FindOptimization(program, trouble)]
  IN  IF trouble \in {"none", "start", "directory"} THEN [v EXCEPT !.phase = "simulating"]
                                                    ELSE EndsBadly(v)

\* A plausible slip: no return behind the error message.
LaunchedAnyway(trouble) ==
  IF trouble \in {"none", "program"} THEN "simulator" ELSE "none"

\* SimProcess.start
Launched(trouble) == IF trouble = "none" THEN "simulator" ELSE "none"

\* A plausible slip: the netlist file is opened for appending.
NetlistAppended(s) == netlist \union {s}

\* The netlist file behind NetlistFile.open(QIODevice::WriteOnly).
NetlistOpened(s) == {s}

\* prepareNetlist ends the display of bias points.
PrepareNetlist(bias) == IF bias > 0 THEN -1 ELSE bias

\* createASCOnetlist copies the netlist; its result is not looked at.
CreateASCOnetlist(w) ==
  asco' = IF w.SimOpt = "optimization" /\ w.lost = {}
            THEN [asco EXCEPT !.netlist = netlist'] ELSE asco

\* The window s, in the state w, runs startProcess; the windows are now those of dlgs.
StartProcess(s, w, dlgs) ==
  \E program \in Program(w.doc) :
  \E trouble \in Trouble(w.doc, program), lost \in {{}, {"netlist"}} :
    LET v == StartedWindow(w, program, trouble, lost)
    IN  /\ lost # {} => "copy" \in Faults /\ v.SimOpt = "optimization"
        /\ dlg' = [dlgs EXCEPT ![s] = v]
        /\ proc' = [proc EXCEPT ![s] = Launched(trouble)]
        /\ netlist' = IF trouble = "open" THEN netlist ELSE NetlistOpened(s)
        /\ showBias' = [showBias EXCEPT ![w.doc] =
                          IF trouble = "open" THEN w.bias ELSE PrepareNetlist(w.bias)]
        /\ CreateASCOnetlist(v)

-----------------------------------------------------------------------------
\* The user.

\* The windows when the components of d are new objects: the optimisation a window
\* remembers is gone.
Orphans(d) ==
  [s \in Sim |-> IF dlg[s].doc = d /\ dlg[s].SimOpt = "optimization"
                   THEN [dlg[s] EXCEPT !.SimOpt = "deleted"] ELSE dlg[s]]

\* The constructor of SimMessage: it copies the settings of the document.
NewWindow(d, bias, openDpl, v) ==
  [NoWindow EXCEPT !.doc = d, !.visible = TRUE, !.bias = bias, !.openDpl = openDpl,
                   !.ver = v]

\* slotSimulate, or slotDCbias which sets showBias to 0 first.  A file changed by
\* another program may be loaded before, which sets showBias to -1 in any case.
SlotSimulate ==
  \E s \in Sim, d \in page, openDpl, dcBias, reload \in BOOLEAN :
    LET bias == IF reload THEN -1 ELSE IF dcBias THEN 0 ELSE showBias[d]
        v == IF reload THEN ver[d] + 1 ELSE ver[d]
    IN
    /\ Alive
    /\ dlg[s].phase = "unused"
    /\ Patient => \A t \in Sim : proc[t] = "none"
    /\ d \in TextDoc => ~dcBias
    /\ v \leq MaxEdits
    /\ ver' = [ver EXCEPT ![d] = v]
    /\ StartProcess(s, NewWindow(d, bias, openDpl, v), IF reload THEN Orphans(d) ELSE dlg)
    /\ last' = [last EXCEPT ![d] = s]
    /\ UNCHANGED <<page, painted, got, dataset, quit, crash>>

\* "Abort simulation", "Close window" or the button of the window frame: the
\* window is hidden.  It is not deleted and its process goes on.
Reject(s) ==
  /\ Alive
  /\ dlg[s].visible
  /\ dlg' = [dlg EXCEPT ![s].visible = FALSE]
  /\ UNCHANGED <<page, ver, showBias, painted, proc, got, files, last, quit, crash>>

\* A plausible slip: showBias is counted down instead of set to -1.
EditDecrements(d) ==
  /\ Alive
  /\ d \in page
  /\ ver[d] < MaxEdits
  /\ ver' = [ver EXCEPT ![d] = @ + 1]
  /\ showBias' = [showBias EXCEPT ![d] = @ - 1]
  /\ UNCHANGED <<page, painted, dlg, proc, got, files, last, quit, crash>>

\* The schematic is edited (setChanged), or rebuilt from an undo entry.
Edit(d) ==
  /\ Alive
  /\ d \in page
  /\ ver[d] < MaxEdits
  /\ ver' = [ver EXCEPT ![d] = @ + 1]
  /\ showBias' = [showBias EXCEPT ![d] = -1]
  /\ dlg' \in {dlg, Orphans(d)}
  /\ UNCHANGED <<page, painted, proc, got, files, last, quit, crash>>

CloseDoc(d) ==
  /\ Alive
  /\ d \in page
  /\ page' = page \ {d}
  /\ UNCHANGED <<ver, showBias, painted, dlg, proc, got, files, last, quit, crash>>

\* closeAllFiles, then signalKillEmAll, connected to slotClose of each window.
Quit ==
  /\ Alive
  /\ page' = {}
  /\ dlg' = [s \in Sim |-> [dlg[s] EXCEPT !.visible = FALSE]]
  /\ quit' = TRUE
  /\ UNCHANGED <<ver, showBias, painted, proc, got, files, last, crash>>

-----------------------------------------------------------------------------
\* The programs.

SimulatorReads(s) ==
  /\ proc[s] = "simulator"
  /\ got' = [got EXCEPT ![s] = IF dlg[s].program = "asco" THEN asco.netlist ELSE netlist]
  /\ proc' = [proc EXCEPT ![s] = "computing"]
  /\ UNCHANGED <<page, ver, showBias, painted, dlg, files, last, quit, crash>>

\* The program of s writes its result: asco into its own file, qucsdigilib none.
WriteResult(s) ==
  LET result == [by |-> s, of |-> got[s]]
  IN  /\ asco' = IF dlg[s].program = "asco" THEN [asco EXCEPT !.out = result] ELSE asco
      /\ dataset' = IF dlg[s].program \in {"asco", "qucsdigilib"} THEN dataset
                    ELSE [dataset EXCEPT ![dlg[s].doc] = result]

\* The program writes its result and exits, or exits with an error, or is killed
\* by a signal: the exit code of finished(int) is 0 then as well.
SimulatorExits(s) ==
  /\ \/ /\ proc[s] = "computing"
        /\ proc' = [proc EXCEPT ![s] = "succeeded"]
        /\ WriteResult(s)
     \/ /\ proc[s] \in {"simulator", "computing"}
        /\ proc' = [proc EXCEPT ![s] = "failed"]
        /\ UNCHANGED <<asco, dataset>>
     \/ /\ "crash" \in Faults
        /\ proc[s] \in {"simulator", "computing"}
        /\ proc' = [proc EXCEPT ![s] = "succeeded"]
        /\ UNCHANGED <<asco, dataset>>
  /\ UNCHANGED <<page, ver, showBias, painted, dlg, got, netlist, last, quit, crash>>

\* A plausible slip: only a good end is told to the window.
SlotSimEndedOnlyWell(s) ==
  /\ Alive
  /\ proc[s] = "succeeded"
  /\ FinishWell(s, dlg[s])
  /\ proc' = [proc EXCEPT ![s] = "none"]
  /\ UNCHANGED <<page, got, netlist, asco, last, quit>>

\* The signal finished() of the program.
SlotSimEnded(s) ==
  /\ Alive
  /\ \/ /\ proc[s] = "succeeded"
        /\ FinishWell(s, dlg[s])
     \/ /\ proc[s] = "failed"
        /\ dlg' = [dlg EXCEPT ![s] = EndsBadly(@)]
        /\ UNCHANGED <<ver, showBias, painted, dataset, crash>>
  /\ proc' = [proc EXCEPT ![s] = "none"]
  /\ UNCHANGED <<page, got, netlist, asco, last, quit>>

-----------------------------------------------------------------------------
User == SlotSimulate \/ Quit \/ (\E s \in Sim : Reject(s))
          \/ (\E d \in Doc : Edit(d) \/ CloseDoc(d))

Programs == \E s \in Sim : SimulatorReads(s) \/ SimulatorExits(s) \/ SlotSimEnded(s)

Next == User \/ Programs

\* A program ends, and its end is told to the window.
Fairness == \A s \in Sim : WF_vars(SimulatorExits(s)) /\ WF_vars(SlotSimEnded(s))

Spec == Init /\ [][Next]_vars /\ Fairness

-----------------------------------------------------------------------------
Phases == {"unused", "simulating", "ended"}
ProgramNames == {"qucsator", "asco", "qucsdigi", "qucsdigilib"}
Results == [by : Sim \union {NoSim}, of : SUBSET Sim]

TypeOK ==
  /\ page \subseteq Doc
  /\ ver \in [Doc -> 0..MaxEdits]
  /\ showBias \in [Doc -> {-1, 0, 1}]
  /\ painted \in [Doc -> 0..MaxEdits]
  /\ \A s \in Sim : /\ dlg[s].phase \in Phases
                    /\ dlg[s].doc \in Doc
                    /\ dlg[s].program \in ProgramNames
                    /\ dlg[s].bias \in {-1, 0, 1}
                    /\ dlg[s].ver \in 0..MaxEdits
                    /\ dlg[s].status \in {-1, 0, 1}
                    /\ dlg[s].finishes \in Nat
                    /\ dlg[s].SimOpt \in {"uninitialized", "none", "optimization",
                                          "deleted"}
                    /\ dlg[s].lost \subseteq {"netlist", "result"}
  /\ proc \in [Sim -> {"none", "simulator", "computing", "succeeded", "failed"}]
  /\ got \in [Sim -> SUBSET Sim]
  /\ netlist \subseteq Sim
  /\ asco.netlist \subseteq Sim /\ asco.out \in Results
  /\ dataset \in [Doc -> Results]
  /\ last \in [Doc -> Sim \union {NoSim}]
  /\ quit \in BOOLEAN
  /\ crash \in {"no", "doc", "opt"}

\* A window ends once, not before its process has ended, and a window that ended
\* well knows whether it ran an optimisation (SimOpt has no value before
\* startSimulator; FinishSimulation reads it when the status is 0).
EndsOnceProperly ==
  \A s \in Sim :
    /\ dlg[s].finishes = IF dlg[s].phase = "ended" THEN 1 ELSE 0
    /\ dlg[s].phase = "ended" => proc[s] = "none"
    /\ dlg[s].status = 0 => dlg[s].SimOpt # "uninitialized"

\* Simulations that do not overlap compute their own netlist, also an optimisation
\* that works on a copy of it (unless making the copy failed, which passes
\* unnoticed), and when the simulation started last for a document is reported as a
\* success, the dataset of the document is its result, also when it comes out of the
\* output file that all optimisations share (unless the copy from there failed, which
\* passes unnoticed, or the program was qucsdigilib, which makes none).  Bias points
\* are shown only of a bias calculation of this document that was reported as a
\* success.  (Overlapping simulations share the files and may be told each other's;
\* and a simulator killed by a signal is reported as a success without a result,
\* simmessage.cpp:599 "0 - normal  | 1 - crash".)
ResultIsOwn ==
  \A d \in Doc :
    /\ \A s \in Sim : dataset[d].by = s /\ "netlist" \notin dlg[s].lost =>
                        dataset[d].of = {s}
    /\ \A s \in Sim : last[d] = s /\ dlg[s].status = 0 /\ dlg[s].program # "qucsdigilib"
                        /\ "result" \notin dlg[s].lost => dataset[d].by = s
    /\ showBias[d] = 1 => \E s \in Sim : /\ dlg[s].doc = d /\ dlg[s].bias = 0
                                         /\ dlg[s].status = 0 /\ dlg[s].ver = painted[d]

\* Every window that has started a simulation ends: its button changes from
\* "Abort simulation" to "Close window".
SimulationEnds ==
  \A s \in Sim : dlg[s].phase = "simulating" ~> (dlg[s].phase = "ended" \/ ~Alive)

\* A document closed during the simulation is not used any more; the code does
\* not keep this one.
ClosedDocIsNotUsed == crash # "doc"
=============================================================================
