-------------------------- MODULE SimDialog_proofs --------------------------
(***************************************************************************)
(* Proofs about SimDialog, for every number of windows, documents and      *)
(* edits: that a window ends once and after its process, and, if           *)
(* simulations do not overlap and no simulator is killed, that each        *)
(* program computes the netlist of its own window and the dataset is that  *)
(* of the simulation started last, also when the copies an optimisation    *)
(* needs are not made (they are named in `lost' then).                     *)
(***************************************************************************)
EXTENDS SimDialog, TLAPS

Fields == {"phase", "doc", "program", "visible", "bias", "openDpl", "ver", "SimOpt",
           "status", "finishes", "lost"}

\* What holds of a window by itself.  An optimisation is remembered with asco only.
WindowOK(w) ==
  /\ DOMAIN w = Fields
  /\ w.phase \in Phases
  /\ w.doc \in Doc
  /\ w.program \in ProgramNames
  /\ w.bias \in {-1, 0, 1}
  /\ w.ver \in 0..MaxEdits
  /\ w.SimOpt \in {"uninitialized", "none", "optimization", "deleted"}
  /\ w.status \in {-1, 0, 1}
  /\ w.lost \subseteq {"netlist", "result"}
  /\ w.phase # "ended" => w.status = -1
  /\ w.finishes = IF w.phase = "ended" THEN 1 ELSE 0
  /\ w.status = 0 => w.SimOpt # "uninitialized"
  /\ w.phase = "unused" => w.lost = {}
  /\ w.phase = "simulating" =>
       w.SimOpt \in IF w.program = "asco" THEN {"optimization", "deleted"} ELSE {"none"}

\* Only a window that simulates has a process.
Together(w, p) == p # "none" => w.phase = "simulating"

SharedOK ==
  /\ page \subseteq Doc
  /\ ver \in [Doc -> 0..MaxEdits]
  /\ showBias \in [Doc -> {-1, 0, 1}]
  /\ painted \in [Doc -> 0..MaxEdits]
  /\ got \in [Sim -> SUBSET Sim]
  /\ netlist \subseteq Sim
  /\ asco \in [netlist : SUBSET Sim, out : Results]
  /\ dataset \in [Doc -> Results]
  /\ last \in [Doc -> Sim \union {NoSim}]
  /\ quit \in BOOLEAN
  /\ crash \in {"no", "doc", "opt"}

Processes == {"none", "simulator", "computing", "succeeded", "failed"}

WindowsOK ==
  /\ DOMAIN dlg = Sim
  /\ proc \in [Sim -> Processes]
  /\ \A s \in Sim : WindowOK(dlg[s]) /\ Together(dlg[s], proc[s])

IInv == SharedOK /\ WindowsOK

-----------------------------------------------------------------------------
\* The windows u and w differ at most in being visible and in the optimisation they
\* remember, which may have gone.
Alike(u, w) ==
  /\ DOMAIN u = Fields
  /\ u.phase = w.phase /\ u.doc = w.doc /\ u.program = w.program
  /\ u.bias = w.bias /\ u.ver = w.ver /\ u.status = w.status
  /\ u.finishes = w.finishes /\ u.lost = w.lost
  /\ u.SimOpt = w.SimOpt \/ (w.SimOpt = "optimization" /\ u.SimOpt = "deleted")

LEMMA AlikeOK ==
  ASSUME NEW u, NEW w, NEW p, WindowOK(w), Together(w, p), Alike(u, w)
  PROVE  WindowOK(u) /\ Together(u, p)
<1>1. Together(u, p)
  BY DEF Together, Alike
<1>2. WindowOK(u)
  BY DEF WindowOK, Alike
<1> QED
  BY <1>1, <1>2

LEMMA SelfAlike ==
  ASSUME NEW w, WindowOK(w)
  PROVE  /\ Alike(w, w)
         /\ Alike([w EXCEPT !.visible = FALSE], w)
         /\ w.SimOpt = "optimization" => Alike([w EXCEPT !.SimOpt = "deleted"], w)
BY DEF WindowOK, Alike, Fields

LEMMA OrphansAlike ==
  ASSUME WindowsOK, NEW d
  PROVE  DOMAIN Orphans(d) = Sim /\ \A t \in Sim : Alike(Orphans(d)[t], dlg[t])
<1>1. DOMAIN Orphans(d) = Sim
  BY DEF Orphans
<1>2. ASSUME NEW t \in Sim PROVE Alike(Orphans(d)[t], dlg[t])
  <2>1. WindowOK(dlg[t])
    BY DEF WindowsOK
  <2>2. CASE dlg[t].doc = d /\ dlg[t].SimOpt = "optimization"
    <3>1. Orphans(d)[t] = [dlg[t] EXCEPT !.SimOpt = "deleted"]
      BY <2>2 DEF Orphans
    <3> QED
      BY <2>1, <2>2, <3>1, SelfAlike
  <2>3. CASE ~(dlg[t].doc = d /\ dlg[t].SimOpt = "optimization")
    <3>1. Orphans(d)[t] = dlg[t]
      BY <2>3 DEF Orphans
    <3> QED
      BY <2>1, <3>1, SelfAlike
  <2> QED
    BY <2>2, <2>3
<1> QED
  BY <1>1, <1>2

\* The window s and its process are replaced; the other windows stay as they are, or
\* alike.
LEMMA ReplacedOK ==
  ASSUME WindowsOK, NEW s \in Sim, NEW p \in Processes,
         WindowOK(dlg'[s]), Together(dlg'[s], p),
         DOMAIN dlg' = Sim, \A t \in Sim \ {s} : Alike(dlg'[t], dlg[t]),
         proc' = [proc EXCEPT ![s] = p]
  PROVE  WindowsOK'
<1>1. proc' \in [Sim -> Processes] /\ proc'[s] = p /\ \A t \in Sim \ {s} : proc'[t] = proc[t]
  BY DEF WindowsOK
<1>2. ASSUME NEW t \in Sim PROVE WindowOK(dlg'[t]) /\ Together(dlg'[t], proc'[t])
  <2>1. CASE t = s
    BY <1>1, <2>1
  <2>2. CASE t # s
    <3>1. Alike(dlg'[t], dlg[t]) /\ WindowOK(dlg[t]) /\ Together(dlg[t], proc[t])
      BY <2>2 DEF WindowsOK
    <3>2. WindowOK(dlg'[t]) /\ Together(dlg'[t], proc[t])
      BY <3>1, AlikeOK
    <3> QED
      BY <1>1, <2>2, <3>2
  <2> QED
    BY <2>1, <2>2
<1> QED
  BY <1>1, <1>2 DEF WindowsOK, WindowOK, Together

\* The windows stay alike, and the processes go on.
LEMMA SameWindowsOK ==
  ASSUME WindowsOK, DOMAIN dlg' = Sim, proc' \in [Sim -> Processes],
         \A t \in Sim : Alike(dlg'[t], dlg[t]),
         \A t \in Sim : proc[t] = "none" => proc'[t] = "none"
  PROVE  WindowsOK'
<1>1. ASSUME NEW t \in Sim PROVE WindowOK(dlg'[t]) /\ Together(dlg'[t], proc'[t])
  <2>1. WindowOK(dlg[t]) /\ Together(dlg[t], proc'[t])
    BY DEF WindowsOK, Together
  <2> QED
    BY <2>1, AlikeOK
<1> QED
  BY <1>1 DEF WindowsOK, WindowOK, Together

-----------------------------------------------------------------------------
LEMMA InitOK == Init => IInv
<1> SUFFICES ASSUME Init PROVE IInv
  OBVIOUS
<1>1. DOMAIN NoWindow = Fields /\ NoWindow.phase = "unused" /\ NoWindow.doc \in Doc
  BY DocAssumption DEF NoWindow, Fields
<1>2. WindowOK(NoWindow)
  BY <1>1, BoundAssumption DEF WindowOK, NoWindow, Phases, ProgramNames
<1>3. Together(NoWindow, "none")
  BY DEF Together
<1>4. WindowsOK
  BY <1>2, <1>3 DEF Init, WindowsOK, Processes
<1>5. NoResult \in Results
  BY DEF NoResult, Results
<1>6. /\ ver \in [Doc -> 0..MaxEdits] /\ showBias \in [Doc -> {-1, 0, 1}]
      /\ painted \in [Doc -> 0..MaxEdits] /\ got \in [Sim -> SUBSET Sim]
      /\ last \in [Doc -> Sim \union {NoSim}]
  BY BoundAssumption DEF Init
<1>7. dataset \in [Doc -> Results] /\ asco \in [netlist : SUBSET Sim, out : Results]
  BY <1>5 DEF Init
<1>8. SharedOK
  BY <1>6, <1>7 DEF Init, SharedOK
<1> QED
  BY <1>4, <1>8 DEF IInv

-----------------------------------------------------------------------------
\* slotSimulate in short: the window s is opened for the document d and is v then,
\* with the process p, which finds its own text in the netlist it is to read.
Opened(s, d, v, p) ==
  /\ dlg[s].phase = "unused"
  /\ Patient => \A t \in Sim : proc[t] = "none"
  /\ DOMAIN dlg' = Sim /\ dlg'[s] = v /\ \A t \in Sim \ {s} : Alike(dlg'[t], dlg[t])
  /\ proc' = [proc EXCEPT ![s] = p] /\ p \in {"none", "simulator"}
  /\ WindowOK(v) /\ Together(v, p)
  /\ v.phase # "unused" /\ v.status # 0 /\ v.doc = d
  /\ netlist' \in {netlist, {s}}
  /\ asco' \in {asco, [asco EXCEPT !.netlist = {s}]}
  /\ p # "none" => netlist' = {s}
  /\ p # "none" /\ v.program = "asco" /\ "netlist" \notin v.lost =>
       asco' = [asco EXCEPT !.netlist = {s}]
  /\ showBias' \in [Doc -> {-1, 0, 1}]
  /\ \A e \in Doc : showBias'[e] = 1 => showBias[e] = 1
  /\ ver' \in [Doc -> 0..MaxEdits]
  /\ last' = [last EXCEPT ![d] = s]
  /\ UNCHANGED <<page, painted, got, dataset, quit, crash>>

\* The window behind startProcess.
LEMMA StartedOK ==
  ASSUME NEW w, WindowOK(w), w.phase = "unused", w.SimOpt = "uninitialized",
         NEW program, program \in Program(w.doc),
         NEW trouble, trouble \in Trouble(w.doc, program),
         NEW lost, lost \in {{}, {"netlist"}}
  PROVE  LET v == StartedWindow(w, program, trouble, lost)
         IN  /\ WindowOK(v) /\ Together(v, Launched(trouble))
             /\ v.phase # "unused" /\ v.status # 0 /\ v.doc = w.doc
             /\ v.program = program /\ v.lost = lost
             /\ v.SimOpt = FindOptimization(program, trouble)
<1> DEFINE opt == FindOptimization(program, trouble)
           u == [w EXCEPT !.program = program, !.lost = lost, !.SimOpt = opt]
           v == StartedWindow(w, program, trouble, lost)
<1>1. /\ DOMAIN u = Fields /\ u.program = program /\ u.lost = lost /\ u.SimOpt = opt
      /\ u.phase = w.phase /\ u.doc = w.doc /\ u.bias = w.bias /\ u.ver = w.ver
      /\ u.status = -1 /\ u.finishes = 0
  BY DEF WindowOK, Fields
<1>2. v = IF trouble \in {"none", "start", "directory"} THEN [u EXCEPT !.phase = "simulating"]
                                                        ELSE EndsBadly(u)
  BY DEF StartedWindow
<1> HIDE DEF u, v
<1>3. program \in ProgramNames /\ opt \in {"uninitialized", "none", "optimization"}
  BY DEF Program, ProgramNames, FindOptimization
<1>4. CASE trouble \in {"none", "start", "directory"}
  <2>1. /\ DOMAIN v = Fields /\ v.phase = "simulating" /\ v.program = program
        /\ v.lost = lost /\ v.SimOpt = opt /\ v.doc = w.doc /\ v.bias = w.bias
        /\ v.ver = w.ver /\ v.status = -1 /\ v.finishes = 0
    BY <1>1, <1>2, <1>4 DEF Fields
  <2>2. opt = IF program = "asco" THEN "optimization" ELSE "none"
    BY <1>4 DEF FindOptimization
  <2>3. WindowOK(v)
    BY <1>3, <2>1, <2>2 DEF WindowOK, Phases
  <2> QED
    BY <2>1, <2>3 DEF Together, v
<1>5. CASE trouble \notin {"none", "start", "directory"}
  <2>1. /\ DOMAIN v = Fields /\ v.phase = "ended" /\ v.program = program
        /\ v.lost = lost /\ v.SimOpt = opt /\ v.doc = w.doc /\ v.bias = w.bias
        /\ v.ver = w.ver /\ v.status = 1 /\ v.finishes = 1
    BY <1>1, <1>2, <1>5 DEF Fields, EndsBadly
  <2>2. WindowOK(v)
    BY <1>3, <2>1 DEF WindowOK, Phases
  <2>3. Launched(trouble) = "none"
    BY <1>5 DEF Launched
  <2> QED
    BY <2>1, <2>2, <2>3 DEF Together, v
<1> QED
  BY <1>4, <1>5

LEMMA NewWindowOK ==
  ASSUME NEW d \in Doc, NEW b \in {-1, 0, 1}, NEW openDpl, NEW v \in 0..MaxEdits
  PROVE  LET w == NewWindow(d, b, openDpl, v)
         IN  /\ WindowOK(w) /\ w.phase = "unused" /\ w.SimOpt = "uninitialized"
             /\ w.doc = d /\ w.bias = b
<1> DEFINE w == NewWindow(d, b, openDpl, v)
<1>1. /\ DOMAIN w = Fields /\ w.phase = "unused" /\ w.doc = d /\ w.ver = v /\ w.bias = b
      /\ w.SimOpt = "uninitialized" /\ w.status = -1 /\ w.finishes = 0 /\ w.lost = {}
      /\ w.program = "qucsator"
  BY DEF NewWindow, NoWindow, Fields
<1> HIDE DEF w
<1>2. WindowOK(w)
  BY <1>1 DEF WindowOK, Phases, ProgramNames
<1> QED
  BY <1>1, <1>2 DEF w

LEMMA SlotSimulateOpens ==
  ASSUME IInv, SlotSimulate
  PROVE  \E s \in Sim, d \in page : \E v, p : Opened(s, d, v, p)
<1>1. PICK s \in Sim, d \in page, openDpl \in BOOLEAN, dcBias \in BOOLEAN,
           reload \in BOOLEAN :
        LET bias == IF reload THEN -1 ELSE IF dcBias THEN 0 ELSE showBias[d]
            v == IF reload THEN ver[d] + 1 ELSE ver[d]
        IN
        /\ Alive
        /\ dlg[s].phase = "unused"
        /\ Patient => \A t \in Sim : proc[t] = "none"
        /\ d \in TextDoc => ~dcBias
        /\ v \leq MaxEdits
        /\ ver' = [ver EXCEPT ![d] = v]
        /\ StartProcess(s, NewWindow(d, bias, openDpl, v),
                        IF reload THEN Orphans(d) ELSE dlg)
        /\ last' = [last EXCEPT ![d] = s]
        /\ UNCHANGED <<page, painted, got, dataset, quit, crash>>
  BY DEF SlotSimulate
<1> DEFINE b == IF reload THEN -1 ELSE IF dcBias THEN 0 ELSE showBias[d]
           n == IF reload THEN ver[d] + 1 ELSE ver[d]
           w == NewWindow(d, b, openDpl, n)
           dlgs == IF reload THEN Orphans(d) ELSE dlg
<1>2. d \in Doc /\ b \in {-1, 0, 1} /\ (b = 1 => showBias[d] = 1)
  BY DEF IInv, SharedOK
<1>3. n \in 0..MaxEdits
  <2>1. ver[d] \in 0..MaxEdits /\ n \leq MaxEdits
    BY <1>1, <1>2 DEF IInv, SharedOK
  <2> QED
    BY <2>1, BoundAssumption
<1>4. StartProcess(s, w, dlgs)
  BY <1>1
<1>5. ver' \in [Doc -> 0..MaxEdits]
  BY <1>1, <1>2, <1>3 DEF IInv, SharedOK
<1>6. DOMAIN dlgs = Sim /\ \A t \in Sim : Alike(dlgs[t], dlg[t])
  BY OrphansAlike, SelfAlike DEF IInv, WindowsOK
<1> HIDE DEF b, n
<1>7. WindowOK(w) /\ w.phase = "unused" /\ w.SimOpt = "uninitialized" /\ w.doc = d /\ w.bias = b
  BY <1>2, <1>3, NewWindowOK
<1> HIDE DEF w, dlgs
<1>8. PICK program \in Program(w.doc) : \E trouble \in Trouble(w.doc, program),
                                           lost \in {{}, {"netlist"}} :
        LET v == StartedWindow(w, program, trouble, lost)
        IN  /\ lost # {} => "copy" \in Faults /\ v.SimOpt = "optimization"
            /\ dlg' = [dlgs EXCEPT ![s] = v]
            /\ proc' = [proc EXCEPT ![s] = Launched(trouble)]
            /\ netlist' = IF trouble = "open" THEN netlist ELSE NetlistOpened(s)
            /\ showBias' = [showBias EXCEPT ![w.doc] =
                              IF trouble = "open" THEN w.bias ELSE PrepareNetlist(w.bias)]
            /\ CreateASCOnetlist(v)
  BY <1>4 DEF StartProcess
<1>9. PICK trouble \in Trouble(w.doc, program), lost \in {{}, {"netlist"}} :
        LET v == StartedWindow(w, program, trouble, lost)
        IN  /\ dlg' = [dlgs EXCEPT ![s] = v]
            /\ proc' = [proc EXCEPT ![s] = Launched(trouble)]
            /\ netlist' = IF trouble = "open" THEN netlist ELSE NetlistOpened(s)
            /\ showBias' = [showBias EXCEPT ![w.doc] =
                              IF trouble = "open" THEN w.bias ELSE PrepareNetlist(w.bias)]
            /\ CreateASCOnetlist(v)
  BY <1>8
<1> DEFINE v == StartedWindow(w, program, trouble, lost)
           p == Launched(trouble)
<1>10. /\ WindowOK(v) /\ Together(v, p)
       /\ v.phase # "unused" /\ v.status # 0 /\ v.doc = d
       /\ v.program = program /\ v.lost = lost
       /\ v.SimOpt = FindOptimization(program, trouble)
  <2>1. WindowOK(w) /\ w.phase = "unused" /\ w.SimOpt = "uninitialized"
    BY <1>7
  <2> HIDE DEF p
  <2>2. /\ WindowOK(v) /\ Together(v, Launched(trouble))
        /\ v.phase # "unused" /\ v.status # 0 /\ v.doc = w.doc
        /\ v.program = program /\ v.lost = lost
        /\ v.SimOpt = FindOptimization(program, trouble)
    <3>1. /\ program \in Program(w.doc)
          /\ trouble \in Trouble(w.doc, program)
          /\ lost \in {{}, {"netlist"}}
      OBVIOUS
    <3> QED
      BY <2>1, <3>1, StartedOK
  <2> QED
    BY <1>7, <2>2 DEF p
<1> HIDE DEF v
<1>11. /\ DOMAIN dlg' = Sim /\ dlg'[s] = v
       /\ \A t \in Sim \ {s} : Alike(dlg'[t], dlg[t])
  BY <1>6, <1>9 DEF v
<1>12. /\ p \in {"none", "simulator"}
       /\ p # "none" => trouble = "none"
       /\ netlist' \in {netlist, {s}}
       /\ trouble # "open" => netlist' = {s}
  BY <1>9 DEF Launched, NetlistOpened
<1>13. /\ v.SimOpt = "optimization" => trouble # "open"
       /\ trouble = "none" /\ program = "asco" => v.SimOpt = "optimization"
  BY <1>10 DEF FindOptimization
<1>14. asco' = IF v.SimOpt = "optimization" /\ v.lost = {}
                 THEN [asco EXCEPT !.netlist = netlist'] ELSE asco
  BY <1>9 DEF CreateASCOnetlist, v
<1>15. /\ asco' \in {asco, [asco EXCEPT !.netlist = {s}]}
       /\ trouble = "none" /\ v.program = "asco" /\ "netlist" \notin v.lost =>
            asco' = [asco EXCEPT !.netlist = {s}]
  <2>1. "netlist" \notin v.lost => v.lost = {}
    BY <1>9, <1>10
  <2> QED
    BY <2>1, <1>10, <1>12, <1>13, <1>14
<1>16. /\ showBias' \in [Doc -> {-1, 0, 1}]
       /\ \A e \in Doc : showBias'[e] = 1 => showBias[e] = 1
  BY <1>2, <1>7, <1>9 DEF PrepareNetlist, IInv, SharedOK
<1>17. proc' = [proc EXCEPT ![s] = p]
  BY <1>9
<1> HIDE DEF p
<1>18. p # "none" => netlist' = {s}
  BY <1>12
<1>19. p # "none" /\ v.program = "asco" /\ "netlist" \notin v.lost =>
         asco' = [asco EXCEPT !.netlist = {s}]
  BY <1>12, <1>15
<1>20. Opened(s, d, v, p)
  BY <1>1, <1>5, <1>10, <1>11, <1>12, <1>15, <1>16, <1>17, <1>18, <1>19 DEF Opened
<1> QED
  BY <1>20

LEMMA SlotSimulateOK == IInv /\ SlotSimulate => IInv'
<1> SUFFICES ASSUME IInv, SlotSimulate PROVE IInv'
  OBVIOUS
<1> PICK s \in Sim, d \in page : \E v, p : Opened(s, d, v, p)
  BY SlotSimulateOpens
<1>1. PICK v, p : Opened(s, d, v, p)
  OBVIOUS
<1>2. WindowsOK'
  BY <1>1, ReplacedOK DEF IInv, Opened, Processes
<1>3. d \in Doc /\ asco' \in [netlist : SUBSET Sim, out : Results] /\ netlist' \subseteq Sim
  BY <1>1 DEF IInv, SharedOK, Opened
<1>4. last' \in [Doc -> Sim \union {NoSim}]
  BY <1>1 DEF IInv, SharedOK, Opened
<1>5. SharedOK'
  BY <1>1, <1>3, <1>4 DEF IInv, SharedOK, Opened
<1> QED
  BY <1>2, <1>5 DEF IInv

LEMMA RejectOK ==
  ASSUME IInv, NEW s \in Sim, Reject(s)
  PROVE  IInv' /\ DOMAIN dlg' = Sim /\ \A t \in Sim : Alike(dlg'[t], dlg[t])
<1>1. DOMAIN dlg' = Sim /\ \A t \in Sim : Alike(dlg'[t], dlg[t])
  BY SelfAlike DEF Reject, IInv, WindowsOK
<1>2. WindowsOK'
  BY <1>1, SameWindowsOK DEF Reject, IInv, WindowsOK
<1> QED
  BY <1>1, <1>2 DEF Reject, IInv, SharedOK, files

LEMMA QuitOK ==
  ASSUME IInv, Quit
  PROVE  IInv' /\ DOMAIN dlg' = Sim /\ \A t \in Sim : Alike(dlg'[t], dlg[t])
<1>1. DOMAIN dlg' = Sim /\ \A t \in Sim : Alike(dlg'[t], dlg[t])
  BY SelfAlike DEF Quit, IInv, WindowsOK
<1>2. WindowsOK'
  BY <1>1, SameWindowsOK DEF Quit, IInv, WindowsOK
<1> QED
  BY <1>1, <1>2 DEF Quit, IInv, SharedOK, files

LEMMA EditOK ==
  ASSUME IInv, NEW d \in Doc, Edit(d)
  PROVE  IInv' /\ DOMAIN dlg' = Sim /\ \A t \in Sim : Alike(dlg'[t], dlg[t])
<1>1. DOMAIN dlg' = Sim /\ \A t \in Sim : Alike(dlg'[t], dlg[t])
  BY OrphansAlike, SelfAlike DEF Edit, IInv, WindowsOK
<1>2. WindowsOK'
  BY <1>1, SameWindowsOK DEF Edit, IInv, WindowsOK
<1>3. SharedOK'
  BY BoundAssumption DEF Edit, IInv, SharedOK, files
<1> QED
  BY <1>1, <1>2, <1>3 DEF IInv

LEMMA CloseDocOK ==
  ASSUME IInv, NEW d \in Doc, CloseDoc(d)
  PROVE  IInv' /\ DOMAIN dlg' = Sim /\ \A t \in Sim : Alike(dlg'[t], dlg[t])
<1>1. DOMAIN dlg' = Sim /\ \A t \in Sim : Alike(dlg'[t], dlg[t])
  BY SelfAlike DEF CloseDoc, IInv, WindowsOK
<1>2. WindowsOK'
  BY <1>1, SameWindowsOK DEF CloseDoc, IInv, WindowsOK
<1> QED
  BY <1>1, <1>2 DEF CloseDoc, IInv, SharedOK, files

LEMMA SimulatorReadsOK ==
  ASSUME IInv, NEW s \in Sim, SimulatorReads(s)
  PROVE  IInv'
<1>1. WindowsOK'
  BY SameWindowsOK, SelfAlike DEF SimulatorReads, IInv, WindowsOK, Processes
<1>2. asco.netlist \subseteq Sim
  BY DEF IInv, SharedOK
<1>3. got' \in [Sim -> SUBSET Sim]
  BY <1>2 DEF SimulatorReads, IInv, SharedOK
<1>4. SharedOK'
  BY <1>3 DEF SimulatorReads, IInv, SharedOK, files
<1> QED
  BY <1>1, <1>4 DEF IInv

LEMMA SimulatorExitsOK ==
  ASSUME IInv, NEW s \in Sim, SimulatorExits(s)
  PROVE  IInv'
<1> DEFINE result == [by |-> s, of |-> got[s]]
<1>1. WindowsOK'
  BY SameWindowsOK, SelfAlike DEF SimulatorExits, IInv, WindowsOK, Processes
<1>2. result \in Results
  BY DEF IInv, SharedOK, Results
<1>3. /\ asco' \in {asco, [asco EXCEPT !.out = result]}
      /\ dataset' \in {dataset, [dataset EXCEPT ![dlg[s].doc] = result]}
  BY DEF SimulatorExits, WriteResult
<1> HIDE DEF result
<1>4. asco' \in [netlist : SUBSET Sim, out : Results] /\ dataset' \in [Doc -> Results]
  BY <1>2, <1>3 DEF IInv, SharedOK
<1>5. SharedOK'
  BY <1>4 DEF SimulatorExits, IInv, SharedOK
<1> QED
  BY <1>1, <1>5 DEF IInv

-----------------------------------------------------------------------------
\* FinishSimulation with status 0 in short: a deleted optimisation is used, or the
\* window is v now and the bias points are shown, left alone or no longer shown.
EndedWell(s, v) ==
  LET w == dlg[s]
      d == w.doc
  IN
  /\ \/ crash' = "opt" /\ UNCHANGED <<dlg, ver, showBias, painted>>
     \/ /\ dlg' = [dlg EXCEPT ![s] = v]
        /\ ver' \in [Doc -> 0..MaxEdits]
        /\ \/ v.bias = 0 /\ SetBiasPoints(d, v.ver)
           \/ /\ showBias' \in {showBias, [showBias EXCEPT ![d] = -1]}
              /\ UNCHANGED painted
        /\ crash' \in {"no", "doc"}
  /\ WindowOK(v) /\ v.phase = "ended" /\ v.status = 0
  /\ v.doc = d /\ v.bias = w.bias /\ v.ver = w.ver /\ v.program = w.program
  /\ w.lost \subseteq v.lost /\ v.lost \subseteq w.lost \union {"result"}
  /\ IF w.program = "asco"
       THEN \/ dataset' = [dataset EXCEPT ![d] = asco.out]
            \/ dataset' = dataset /\ ("result" \in v.lost \/ dlg' = dlg)
       ELSE dataset' = dataset

LEMMA AfterSimulationOK ==
  ASSUME IInv, NEW d \in Doc, NEW w, WindowOK(w), NEW optimized \in BOOLEAN,
         AfterSimulation(d, w, optimized)
  PROVE  /\ ver' \in [Doc -> 0..MaxEdits]
         /\ \/ w.bias = 0 /\ SetBiasPoints(d, w.ver)
            \/ /\ showBias' \in {showBias, [showBias EXCEPT ![d] = -1]}
               /\ UNCHANGED painted
         /\ crash' \in {"no", "doc"}
<1>1. ver' \in [Doc -> 0..MaxEdits]
  BY BoundAssumption DEF AfterSimulation, IInv, SharedOK
<1>2. \/ w.bias = 0 /\ SetBiasPoints(d, w.ver)
      \/ /\ showBias' \in {showBias, [showBias EXCEPT ![d] = -1]}
         /\ UNCHANGED painted
  <2>1. CASE w.bias = 0 /\ d \in page
    BY <2>1 DEF AfterSimulation
  <2>2. CASE ~(w.bias = 0 /\ d \in page)
    <3>1. /\ showBias' = [showBias EXCEPT ![d] = IF optimized THEN -1 ELSE showBias[d]]
          /\ UNCHANGED painted
      BY <2>2 DEF AfterSimulation
    <3>2. showBias = [showBias EXCEPT ![d] = showBias[d]]
      BY DEF IInv, SharedOK
    <3> QED
      BY <3>1, <3>2
  <2> QED
    BY <2>1, <2>2
<1> QED
  BY <1>1, <1>2 DEF AfterSimulation

\* The window s behind a good end.
LEMMA EndsWellOK ==
  ASSUME NEW w, WindowOK(w), w.phase = "simulating", NEW lost \in SUBSET {"result"}
  PROVE  LET v == EndsWell(w, lost)
         IN  /\ WindowOK(v) /\ v.phase = "ended" /\ v.status = 0
             /\ v.doc = w.doc /\ v.bias = w.bias /\ v.ver = w.ver
             /\ v.program = w.program /\ v.lost = w.lost \union lost
<1> DEFINE v == EndsWell(w, lost)
<1>1. /\ DOMAIN v = Fields /\ v.phase = "ended" /\ v.status = 0
      /\ v.finishes = w.finishes + 1 /\ v.doc = w.doc /\ v.bias = w.bias
      /\ v.ver = w.ver /\ v.SimOpt = w.SimOpt /\ v.program = w.program
      /\ v.lost = w.lost \union lost
  BY DEF EndsWell, WindowOK, Fields
<1> HIDE DEF v
<1>2. WindowOK(v)
  <2>1. v.lost \subseteq {"netlist", "result"}
    BY <1>1 DEF WindowOK
  <2>2. w.SimOpt # "uninitialized" /\ w.finishes = 0
    BY DEF WindowOK
  <2> QED
    BY <1>1, <2>1, <2>2 DEF WindowOK, Phases
<1> QED
  BY <1>1, <1>2 DEF v

LEMMA FinishWellEnds ==
  ASSUME IInv, NEW s \in Sim, proc[s] = "succeeded", FinishWell(s, dlg[s])
  PROVE  \E v : EndedWell(s, v)
<1> DEFINE w == dlg[s]
           d == w.doc
<1>1. /\ WindowOK(w) /\ w.phase = "simulating" /\ d \in Doc
      /\ w.SimOpt = "none" <=> w.program # "asco"
  BY DEF IInv, WindowsOK, Together, WindowOK
<1> DEFINE V(lost) == EndsWell(w, lost)
<1>2. ASSUME NEW lost \in SUBSET {"result"}
      PROVE  /\ WindowOK(V(lost)) /\ V(lost).phase = "ended" /\ V(lost).status = 0
             /\ V(lost).doc = w.doc /\ V(lost).bias = w.bias /\ V(lost).ver = w.ver
             /\ V(lost).program = w.program /\ V(lost).lost = w.lost \union lost
  BY <1>1, EndsWellOK
<1> HIDE DEF V
<1>3. ASSUME NEW lost \in SUBSET {"result"}, NEW optimized \in BOOLEAN,
             dlg' = [dlg EXCEPT ![s] = V(lost)], AfterSimulation(d, w, optimized),
             IF w.program = "asco" THEN SaveOptimization(d, lost) ELSE UNCHANGED dataset
      PROVE  EndedWell(s, V(lost))
  <2>1. /\ ver' \in [Doc -> 0..MaxEdits]
        /\ \/ w.bias = 0 /\ SetBiasPoints(d, w.ver)
           \/ /\ showBias' \in {showBias, [showBias EXCEPT ![d] = -1]}
              /\ UNCHANGED painted
        /\ crash' \in {"no", "doc"}
    BY <1>1, <1>3, AfterSimulationOK
  <2>2. IF w.program = "asco"
          THEN \/ dataset' = [dataset EXCEPT ![d] = asco.out]
               \/ dataset' = dataset /\ "result" \in V(lost).lost
          ELSE dataset' = dataset
    BY <1>2, <1>3 DEF SaveOptimization
  <2>3. /\ WindowOK(V(lost)) /\ V(lost).phase = "ended" /\ V(lost).status = 0
        /\ V(lost).doc = w.doc /\ V(lost).bias = w.bias /\ V(lost).ver = w.ver
        /\ V(lost).program = w.program /\ V(lost).lost = w.lost \union lost
    BY <1>2
  <2>4. w.lost \subseteq V(lost).lost /\ V(lost).lost \subseteq w.lost \union {"result"}
    BY <2>3
  <2> QED
    BY <1>3, <2>1, <2>2, <2>3, <2>4 DEF EndedWell
<1>4. CASE w.SimOpt = "none"
  <2>1. /\ dlg' = [dlg EXCEPT ![s] = V({})] /\ AfterSimulation(d, w, FALSE)
        /\ UNCHANGED dataset
    BY <1>4 DEF FinishWell, V
  <2>2. EndedWell(s, V({}))
    BY <1>1, <1>3, <1>4, <2>1
  <2> QED
    BY <2>2
<1>5. CASE w.SimOpt # "none"
  <2>1. PICK lost \in SUBSET {"result"} :
          /\ SaveOptimization(d, lost)
          /\ \/ crash' = "opt" /\ UNCHANGED <<dlg, ver, showBias, painted>>
             \/ /\ dlg' = [dlg EXCEPT ![s] = V(lost)]
                /\ \E optimized \in BOOLEAN : AfterSimulation(d, w, optimized)
    BY <1>5 DEF FinishWell, V
  <2>2. CASE crash' = "opt" /\ UNCHANGED <<dlg, ver, showBias, painted>>
    <3>1. /\ dataset' = [dataset EXCEPT ![d] = asco.out] \/ dataset' = dataset
          /\ w.program = "asco"
      BY <1>1, <1>5, <2>1 DEF SaveOptimization
    <3>2. EndedWell(s, V(lost))
      BY <1>2, <2>2, <3>1 DEF EndedWell
    <3> QED
      BY <3>2
  <2>3. ASSUME NEW optimized \in BOOLEAN, dlg' = [dlg EXCEPT ![s] = V(lost)],
               AfterSimulation(d, w, optimized)
        PROVE  EndedWell(s, V(lost))
    BY <1>1, <1>3, <1>5, <2>1, <2>3
  <2> QED
    BY <2>1, <2>2, <2>3
<1> QED
  BY <1>4, <1>5

LEMMA EndedWellOK ==
  ASSUME IInv, NEW s \in Sim, NEW v, EndedWell(s, v), proc' = [proc EXCEPT ![s] = "none"]
  PROVE  /\ WindowsOK'
         /\ ver' \in [Doc -> 0..MaxEdits] /\ painted' \in [Doc -> 0..MaxEdits]
         /\ showBias' \in [Doc -> {-1, 0, 1}]
         /\ dataset' \in [Doc -> Results]
         /\ crash' \in {"no", "doc", "opt"}
<1>1. dataset' \in [Doc -> Results]
  BY DEF EndedWell, IInv, SharedOK
<1>2. CASE crash' = "opt" /\ UNCHANGED <<dlg, ver, showBias, painted>>
  <2>1. WindowsOK'
    BY <1>2, SameWindowsOK, SelfAlike DEF IInv, WindowsOK, Processes
  <2> QED
    BY <1>1, <1>2, <2>1 DEF IInv, SharedOK
<1>3. CASE /\ dlg' = [dlg EXCEPT ![s] = v]
           /\ ver' \in [Doc -> 0..MaxEdits]
           /\ \/ SetBiasPoints(dlg[s].doc, v.ver)
              \/ /\ showBias' \in {showBias, [showBias EXCEPT ![dlg[s].doc] = -1]}
                 /\ UNCHANGED painted
           /\ crash' \in {"no", "doc"}
  <2>1. WindowOK(v)
    BY DEF EndedWell
  <2>2. /\ DOMAIN dlg' = Sim /\ dlg'[s] = v
        /\ \A t \in Sim \ {s} : Alike(dlg'[t], dlg[t])
    BY <1>3, SelfAlike DEF IInv, WindowsOK
  <2>3. WindowsOK'
    BY <2>1, <2>2, ReplacedOK DEF IInv, Processes, Together
  <2>4. painted' \in [Doc -> 0..MaxEdits] /\ showBias' \in [Doc -> {-1, 0, 1}]
    BY <1>3, <2>1 DEF IInv, SharedOK, SetBiasPoints, WindowOK
  <2> QED
    BY <1>1, <1>3, <2>3, <2>4
<1> QED
  BY <1>2, <1>3 DEF EndedWell

\* The window s behind a bad end.
LEMMA EndsBadlyOK ==
  ASSUME NEW w, WindowOK(w), w.phase = "simulating"
  PROVE  LET v == EndsBadly(w)
         IN  /\ WindowOK(v) /\ v.phase = "ended" /\ v.status = 1
             /\ v.doc = w.doc /\ v.program = w.program /\ v.lost = w.lost
<1> DEFINE v == EndsBadly(w)
<1>1. /\ DOMAIN v = Fields /\ v.phase = "ended" /\ v.status = 1
      /\ v.finishes = w.finishes + 1 /\ v.doc = w.doc /\ v.bias = w.bias
      /\ v.ver = w.ver /\ v.SimOpt = w.SimOpt /\ v.program = w.program /\ v.lost = w.lost
  BY DEF EndsBadly, WindowOK, Fields
<1> HIDE DEF v
<1>2. WindowOK(v)
  BY <1>1 DEF WindowOK, Phases
<1> QED
  BY <1>1, <1>2 DEF v

LEMMA SlotSimEndedOK ==
  ASSUME IInv, NEW s \in Sim, SlotSimEnded(s)
  PROVE  IInv'
<1>1. CASE proc[s] = "succeeded" /\ FinishWell(s, dlg[s])
  <2>1. PICK v : EndedWell(s, v)
    BY <1>1, FinishWellEnds
  <2>2. /\ WindowsOK'
        /\ ver' \in [Doc -> 0..MaxEdits] /\ painted' \in [Doc -> 0..MaxEdits]
        /\ showBias' \in [Doc -> {-1, 0, 1}]
        /\ dataset' \in [Doc -> Results]
        /\ crash' \in {"no", "doc", "opt"}
    BY <2>1, EndedWellOK DEF SlotSimEnded
  <2> QED
    BY <2>2 DEF SlotSimEnded, IInv, SharedOK
<1>2. CASE /\ proc[s] = "failed" /\ dlg' = [dlg EXCEPT ![s] = EndsBadly(@)]
           /\ UNCHANGED <<ver, showBias, painted, dataset, crash>>
  <2>1. WindowOK(dlg[s]) /\ dlg[s].phase = "simulating"
    BY <1>2 DEF IInv, WindowsOK, Together
  <2>2. /\ DOMAIN dlg' = Sim /\ WindowOK(dlg'[s])
        /\ \A t \in Sim \ {s} : Alike(dlg'[t], dlg[t])
    BY <1>2, <2>1, EndsBadlyOK, SelfAlike DEF IInv, WindowsOK
  <2>3. proc' = [proc EXCEPT ![s] = "none"]
    BY DEF SlotSimEnded
  <2>4. WindowsOK'
    BY <2>2, <2>3, ReplacedOK DEF IInv, Processes, Together
  <2> QED
    BY <1>2, <2>4 DEF SlotSimEnded, IInv, SharedOK
<1> QED
  BY <1>1, <1>2 DEF SlotSimEnded

LEMMA StepOK == IInv /\ [Next]_vars => IInv'
<1> SUFFICES ASSUME IInv, [Next]_vars PROVE IInv'
  OBVIOUS
<1>1. CASE User
  BY <1>1, SlotSimulateOK, QuitOK, RejectOK, EditOK, CloseDocOK DEF User
<1>2. CASE Programs
  BY <1>2, SimulatorReadsOK, SimulatorExitsOK, SlotSimEndedOK DEF Programs
<1>3. CASE UNCHANGED vars
  BY <1>3 DEF vars, files, IInv, SharedOK, WindowsOK, WindowOK, Together
<1> QED
  BY <1>1, <1>2, <1>3 DEF Next

LEMMA Invariance == Spec => []IInv
BY InitOK, StepOK, PTL DEF Spec

-----------------------------------------------------------------------------
\* The members of the windows, the processes, the displays of the bias points and
\* the files keep their types (simmessage.cpp, qucs.cpp slotAfterSimulation),
\* whatever windows, user and programs do in between.
THEOREM WindowTypes == Spec => []TypeOK
<1>1. IInv => TypeOK
  <2> SUFFICES ASSUME IInv PROVE TypeOK
    OBVIOUS
  <2>1. ASSUME NEW s \in Sim
        PROVE  WindowOK(dlg[s]) /\ dlg[s].finishes \in {0, 1}
    BY DEF IInv, WindowsOK, WindowOK
  <2>2. asco.netlist \subseteq Sim /\ asco.out \in Results
    BY DEF IInv, SharedOK
  <2>3. proc \in [Sim -> {"none", "simulator", "computing", "succeeded", "failed"}]
    BY DEF IInv, WindowsOK, Processes
  <2> QED
    BY <2>1, <2>2, <2>3 DEF IInv, SharedOK, WindowOK, TypeOK
<1> QED
  BY <1>1, Invariance, PTL

\* A window ends once, and not before its process (simmessage.cpp FinishSimulation);
\* one that ended well has been through startSimulator, which gives SimOpt its value.
THEOREM EndsOnce == Spec => []EndsOnceProperly
<1>1. IInv => EndsOnceProperly
  BY DEF IInv, WindowsOK, WindowOK, Together, EndsOnceProperly, Processes
<1> QED
  BY <1>1, Invariance, PTL

-----------------------------------------------------------------------------
\* Each program computes the netlist of its own window, and the dataset is that of
\* the simulation started last, if the user never starts a simulation during another
\* and no simulator is killed by a signal.

InTurns == Patient /\ "crash" \notin Faults

\* There is one process at most; it belongs to the window opened last for its
\* document, and the netlist it reads is its own.
OneProcess ==
  /\ \A s, t \in Sim : proc[s] # "none" /\ proc[t] # "none" => s = t
  /\ \A s \in Sim : proc[s] # "none" => netlist = {s} /\ last[dlg[s].doc] = s
  /\ \A s \in Sim : /\ proc[s] # "none" /\ dlg[s].program = "asco"
                    /\ "netlist" \notin dlg[s].lost
                    => asco.netlist = {s}
  /\ \A s \in Sim : proc[s] = "computing" /\ "netlist" \notin dlg[s].lost => got[s] = {s}

\* What a result r says of the window s is true.
Own(r, s) == r.by = s /\ "netlist" \notin dlg[s].lost => r.of = {s}

\* What the datasets and the output file of ASCO hold.
DatasetsOK ==
  /\ \A s \in Sim : proc[s] = "succeeded" /\ dlg[s].program # "qucsdigilib" =>
       IF dlg[s].program = "asco" THEN asco.out.by = s ELSE dataset[dlg[s].doc].by = s
  /\ \A s \in Sim : Own(asco.out, s)
  /\ \A s \in Sim, d \in Doc : Own(dataset[d], s)

\* The window w ended well and must have left its dataset.
Leaves(w) == w.status = 0 /\ w.program # "qucsdigilib" /\ "result" \notin w.lost

\* The window opened last for a document was opened for it, and has left its dataset.
LastOK ==
  \A d \in Doc, s \in Sim : last[d] = s =>
    /\ dlg[s].phase # "unused" /\ dlg[s].doc = d
    /\ Leaves(dlg[s]) => dataset[d].by = s

\* The window w is a bias calculation whose result is painted in d.
Shows(w, d) == w.doc = d /\ w.bias = 0 /\ w.status = 0 /\ w.ver = painted[d]

BiasOK == \A d \in Doc : showBias[d] = 1 => \E s \in Sim : Shows(dlg[s], d)

OInv == OneProcess /\ DatasetsOK /\ LastOK /\ BiasOK

LEMMA InitOwn == Init => OInv
<1> SUFFICES ASSUME Init PROVE OInv
  OBVIOUS
<1>1. /\ \A s \in Sim : proc[s] = "none"
      /\ asco.out = NoResult /\ \A d \in Doc : dataset[d] = NoResult
      /\ \A d \in Doc : last[d] = NoSim /\ showBias[d] = -1
  BY DEF Init
<1>2. \A s \in Sim : NoResult.by # s
  BY NoSimAssumption DEF NoResult
<1>3. OneProcess
  BY <1>1 DEF OneProcess
<1>4. DatasetsOK
  BY <1>1, <1>2 DEF DatasetsOK, Own
<1>5. LastOK
  BY <1>1, NoSimAssumption DEF LastOK
<1>6. BiasOK
  BY <1>1 DEF BiasOK
<1> QED
  BY <1>3, <1>4, <1>5, <1>6 DEF OInv

-----------------------------------------------------------------------------
\* The windows that have ended well stay as they are: the bias points shown keep
\* their windows.
LEMMA BiasStays ==
  ASSUME BiasOK, UNCHANGED painted,
         \A t \in Sim : dlg[t].status = 0 =>
           /\ dlg'[t].doc = dlg[t].doc /\ dlg'[t].bias = dlg[t].bias
           /\ dlg'[t].status = dlg[t].status /\ dlg'[t].ver = dlg[t].ver,
         \A d \in Doc : showBias'[d] = 1 => showBias[d] = 1
  PROVE  BiasOK'
<1> SUFFICES ASSUME NEW d \in Doc, showBias'[d] = 1
             PROVE  \E t \in Sim : Shows(dlg[t], d)'
  BY DEF BiasOK
<1>1. PICK t \in Sim : Shows(dlg[t], d)
  BY DEF BiasOK
<1>2. Shows(dlg[t], d)'
  BY <1>1 DEF Shows
<1> QED
  BY <1>2

LEMMA SlotSimulateOwn ==
  ASSUME InTurns, IInv, OInv, SlotSimulate
  PROVE  OInv'
<1> PICK s \in Sim, d \in page : \E v, p : Opened(s, d, v, p)
  BY SlotSimulateOpens
<1>1. PICK v, p : Opened(s, d, v, p)
  OBVIOUS
<1>2. /\ dlg[s].phase = "unused" /\ dlg[s].status # 0 /\ dlg[s].lost = {}
      /\ d \in Doc /\ \A t \in Sim : proc[t] = "none"
  BY <1>1 DEF Opened, InTurns, IInv, SharedOK, WindowsOK, WindowOK
<1>3. \A t \in Sim \ {s} : Alike(dlg'[t], dlg[t])
  BY <1>1 DEF Opened
<1>4. /\ dlg'[s] = v /\ v.phase # "unused" /\ v.status # 0 /\ v.doc = d
  BY <1>1 DEF Opened
<1>5. \A t \in Sim : proc'[t] = IF t = s THEN p ELSE "none"
  BY <1>1, <1>2 DEF Opened, IInv, WindowsOK
<1>6. \A e \in Doc : last'[e] = IF e = d THEN s ELSE last[e]
  BY <1>1, <1>2 DEF Opened, IInv, SharedOK
<1>7. /\ p \in {"none", "simulator"} /\ (p # "none" => netlist' = {s})
      /\ UNCHANGED <<got, dataset, painted>>
  BY <1>1 DEF Opened
<1>8. asco'.out = asco.out
  BY <1>1 DEF Opened, IInv, SharedOK
<1>9. p # "none" /\ v.program = "asco" /\ "netlist" \notin v.lost => asco'.netlist = {s}
  BY <1>1 DEF Opened, IInv, SharedOK
<1>10. OneProcess'
  BY <1>2, <1>4, <1>5, <1>6, <1>7, <1>9 DEF OneProcess
<1>11. DatasetsOK'
  <2>1. \A t \in Sim : "netlist" \notin dlg'[t].lost => "netlist" \notin dlg[t].lost
    BY <1>2, <1>3 DEF Alike
  <2>2. \A t \in Sim : proc'[t] # "succeeded"
    BY <1>5, <1>7
  <2>3. \A t \in Sim : Own(asco.out, t)'
    BY <1>8, <2>1 DEF OInv, DatasetsOK, Own
  <2>4. \A t \in Sim, e \in Doc : Own(dataset[e], t)'
    BY <1>7, <2>1 DEF OInv, DatasetsOK, Own
  <2> QED
    BY <2>2, <2>3, <2>4 DEF DatasetsOK
<1>12. LastOK'
  <2> SUFFICES ASSUME NEW e \in Doc, NEW t \in Sim, last'[e] = t
               PROVE  /\ dlg'[t].phase # "unused" /\ dlg'[t].doc = e
                      /\ Leaves(dlg'[t]) => dataset'[e].by = t
    BY DEF LastOK
  <2>1. CASE e = d
    BY <1>4, <1>6, <2>1 DEF Leaves
  <2>2. CASE e # d
    <3>1. /\ dlg[t].phase # "unused" /\ dlg[t].doc = e
          /\ Leaves(dlg[t]) => dataset[e].by = t
      BY <1>6, <2>2 DEF OInv, LastOK
    <3>2. Alike(dlg'[t], dlg[t])
      BY <1>2, <1>3, <3>1
    <3> QED
      BY <1>7, <3>1, <3>2 DEF Leaves, Alike
  <2> QED
    BY <2>1, <2>2
<1>13. BiasOK'
  <2>1. \A t \in Sim : dlg[t].status = 0 =>
           /\ dlg'[t].doc = dlg[t].doc /\ dlg'[t].bias = dlg[t].bias
           /\ dlg'[t].status = dlg[t].status /\ dlg'[t].ver = dlg[t].ver
    BY <1>2, <1>3 DEF Alike
  <2>2. \A e \in Doc : showBias'[e] = 1 => showBias[e] = 1
    BY <1>1 DEF Opened
  <2> QED
    BY <1>7, <2>1, <2>2, BiasStays DEF OInv
<1> QED
  BY <1>10, <1>11, <1>12, <1>13 DEF OInv

-----------------------------------------------------------------------------
\* A step that leaves the processes and the files alone, and the windows alike.
LEMMA AlikeOwn ==
  ASSUME OInv, UNCHANGED <<proc, got, files, last, painted>>,
         \A t \in Sim : Alike(dlg'[t], dlg[t]),
         \A d \in Doc : showBias'[d] = 1 => showBias[d] = 1
  PROVE  OInv'
<1>1. \A t \in Sim :
        /\ dlg'[t].phase = dlg[t].phase /\ dlg'[t].doc = dlg[t].doc
        /\ dlg'[t].program = dlg[t].program /\ dlg'[t].lost = dlg[t].lost
        /\ dlg'[t].bias = dlg[t].bias /\ dlg'[t].ver = dlg[t].ver
        /\ dlg'[t].status = dlg[t].status
  BY DEF Alike
<1>2. UNCHANGED <<netlist, asco, dataset>>
  BY DEF files
<1>3. OneProcess'
  BY <1>1, <1>2 DEF OInv, OneProcess
<1>4. DatasetsOK'
  BY <1>1, <1>2 DEF OInv, DatasetsOK, Own
<1>5. LastOK'
  BY <1>1, <1>2 DEF OInv, LastOK, Leaves
<1>6. BiasOK'
  BY <1>1, BiasStays DEF OInv
<1> QED
  BY <1>3, <1>4, <1>5, <1>6 DEF OInv

LEMMA UserOwn ==
  ASSUME InTurns, IInv, OInv, User
  PROVE  OInv'
<1>1. CASE SlotSimulate
  BY <1>1, SlotSimulateOwn
<1>2. CASE Quit
  BY <1>2, QuitOK, AlikeOwn DEF Quit
<1>3. ASSUME NEW s \in Sim, Reject(s) PROVE OInv'
  BY <1>3, RejectOK, AlikeOwn DEF Reject
<1>4. ASSUME NEW d \in Doc, Edit(d) PROVE OInv'
  <2>1. \A e \in Doc : showBias'[e] = 1 => showBias[e] = 1
    BY <1>4 DEF Edit, IInv, SharedOK
  <2> QED
    BY <1>4, <2>1, EditOK, AlikeOwn DEF Edit
<1>5. ASSUME NEW d \in Doc, CloseDoc(d) PROVE OInv'
  BY <1>5, CloseDocOK, AlikeOwn DEF CloseDoc
<1> QED
  BY <1>1, <1>2, <1>3, <1>4, <1>5 DEF User

LEMMA SimulatorReadsOwn ==
  ASSUME IInv, OInv, NEW s \in Sim, SimulatorReads(s)
  PROVE  OInv'
<1>1. /\ \A t \in Sim : proc'[t] = IF t = s THEN "computing" ELSE proc[t]
      /\ \A t \in Sim : got'[t] = IF t # s THEN got[t]
                                  ELSE IF dlg[s].program = "asco" THEN asco.netlist
                                                                  ELSE netlist
      /\ proc[s] = "simulator"
  BY DEF SimulatorReads, IInv, SharedOK, WindowsOK
<1>2. UNCHANGED <<dlg, netlist, asco, dataset, last, showBias, painted>>
  BY DEF SimulatorReads, files
<1>3. OneProcess'
  BY <1>1, <1>2 DEF OInv, OneProcess
<1>4. DatasetsOK'
  BY <1>1, <1>2 DEF OInv, DatasetsOK, Own
<1>5. LastOK' /\ BiasOK'
  BY <1>2 DEF OInv, LastOK, Leaves, BiasOK, Shows
<1> QED
  BY <1>3, <1>4, <1>5 DEF OInv

LEMMA SimulatorExitsOwn ==
  ASSUME InTurns, IInv, OInv, NEW s \in Sim, SimulatorExits(s)
  PROVE  OInv'
<1> DEFINE d == dlg[s].doc
           result == [by |-> s, of |-> got[s]]
<1>1. /\ proc[s] \in {"simulator", "computing"}
      /\ UNCHANGED <<dlg, got, netlist, last, showBias, painted>>
  BY DEF SimulatorExits
<1>2. /\ d \in Doc /\ last[d] = s /\ dlg[s].status # 0
      /\ \A t \in Sim \ {s} : proc[t] = "none"
  BY <1>1 DEF OInv, OneProcess, IInv, WindowsOK, WindowOK, Together
<1>3. \/ /\ proc[s] = "computing" /\ proc' = [proc EXCEPT ![s] = "succeeded"]
         /\ WriteResult(s)
      \/ proc' = [proc EXCEPT ![s] = "failed"] /\ UNCHANGED <<asco, dataset>>
  BY DEF SimulatorExits, InTurns
<1>4. BiasOK'
  BY <1>1 DEF OInv, BiasOK, Shows
<1>5. CASE /\ proc[s] = "computing" /\ proc' = [proc EXCEPT ![s] = "succeeded"]
           /\ WriteResult(s)
  <2>1. \A t \in Sim : proc'[t] = IF t = s THEN "succeeded" ELSE "none"
    BY <1>2, <1>5 DEF IInv, WindowsOK
  <2>2. result.by = s /\ ("netlist" \notin dlg[s].lost => result.of = {s})
    BY <1>5 DEF OInv, OneProcess
  <2>3. /\ asco' = IF dlg[s].program = "asco" THEN [asco EXCEPT !.out = result] ELSE asco
        /\ dataset' = IF dlg[s].program \in {"asco", "qucsdigilib"} THEN dataset
                      ELSE [dataset EXCEPT ![d] = result]
    BY <1>5 DEF WriteResult
  <2> HIDE DEF result
  <2>4. /\ asco'.netlist = asco.netlist
        /\ asco'.out = IF dlg[s].program = "asco" THEN result ELSE asco.out
        /\ \A e \in Doc : dataset'[e] = IF e = d /\ dlg[s].program \notin {"asco", "qucsdigilib"}
                                          THEN result ELSE dataset[e]
    BY <1>2, <2>3 DEF IInv, SharedOK
  <2>5. OneProcess'
    BY <1>1, <1>2, <1>5, <2>1, <2>4 DEF OInv, OneProcess
  <2>6. \A t \in Sim : Own(asco.out, t)'
    BY <1>1, <2>2, <2>4 DEF OInv, DatasetsOK, Own
  <2>7. \A t \in Sim, e \in Doc : Own(dataset[e], t)'
    BY <1>1, <2>2, <2>4 DEF OInv, DatasetsOK, Own
  <2>8. DatasetsOK'
    BY <1>1, <1>2, <2>1, <2>2, <2>4, <2>6, <2>7 DEF DatasetsOK
  <2>9. LastOK'
    <3> SUFFICES ASSUME NEW e \in Doc, NEW t \in Sim, last'[e] = t
                 PROVE  /\ dlg'[t].phase # "unused" /\ dlg'[t].doc = e
                        /\ Leaves(dlg'[t]) => dataset'[e].by = t
      BY DEF LastOK
    <3>1. /\ dlg[t].phase # "unused" /\ dlg[t].doc = e
          /\ Leaves(dlg[t]) => dataset[e].by = t
      BY <1>1 DEF OInv, LastOK
    <3>2. CASE t = s
      BY <1>1, <1>2, <3>1, <3>2 DEF Leaves
    <3>3. CASE t # s
      <4>1. e # d
        BY <1>1, <1>2, <3>3
      <4> QED
        BY <1>1, <2>4, <3>1, <4>1
    <3> QED
      BY <3>2, <3>3
  <2> QED
    BY <1>4, <2>5, <2>8, <2>9 DEF OInv
<1>6. CASE proc' = [proc EXCEPT ![s] = "failed"] /\ UNCHANGED <<asco, dataset>>
  <2>1. \A t \in Sim : proc'[t] = IF t = s THEN "failed" ELSE "none"
    BY <1>2, <1>6 DEF IInv, WindowsOK
  <2>2. OneProcess'
    BY <1>1, <1>2, <1>6, <2>1 DEF OInv, OneProcess
  <2>3. DatasetsOK'
    BY <1>1, <1>6, <2>1 DEF OInv, DatasetsOK, Own
  <2>4. LastOK'
    BY <1>1, <1>6 DEF OInv, LastOK, Leaves
  <2> QED
    BY <1>4, <2>2, <2>3, <2>4 DEF OInv
<1> QED
  BY <1>3, <1>5, <1>6

-----------------------------------------------------------------------------
\* The window s, the only one with a process, ends as v, and the datasets with it.
LEMMA EndOwn ==
  ASSUME IInv, OInv, NEW s \in Sim, NEW v, proc[s] # "none",
         \A t \in Sim : dlg'[t] = IF t = s THEN v ELSE dlg[t],
         proc' = [proc EXCEPT ![s] = "none"],
         v.phase # "unused", v.doc = dlg[s].doc,
         dlg[s].lost \subseteq v.lost,
         UNCHANGED <<got, netlist, asco, last>>,
         dataset' = dataset \/ dataset' = [dataset EXCEPT ![dlg[s].doc] = asco.out],
         Leaves(v) => dataset'[dlg[s].doc].by = s
  PROVE  OneProcess' /\ DatasetsOK' /\ LastOK'
<1> DEFINE d == dlg[s].doc
<1>1. /\ d \in Doc /\ last[d] = s
      /\ \A t \in Sim : dlg'[t] = IF t = s THEN v ELSE dlg[t]
      /\ \A t \in Sim : proc'[t] = "none"
  BY DEF OInv, OneProcess, IInv, WindowsOK, WindowOK
<1>2. \A e \in Doc : dataset'[e] = dataset[e] \/ (e = d /\ dataset'[e] = asco.out)
  BY <1>1 DEF IInv, SharedOK
<1>3. OneProcess'
  BY <1>1 DEF OneProcess
<1>4. \A t \in Sim : "netlist" \notin dlg'[t].lost => "netlist" \notin dlg[t].lost
  BY <1>1
<1>5. \A t \in Sim : Own(asco.out, t)'
  BY <1>4 DEF OInv, DatasetsOK, Own
<1>6. \A t \in Sim, e \in Doc : Own(dataset[e], t)'
  BY <1>2, <1>4 DEF OInv, DatasetsOK, Own
<1>7. DatasetsOK'
  BY <1>1, <1>5, <1>6 DEF DatasetsOK
<1>8. LastOK'
  <2> SUFFICES ASSUME NEW e \in Doc, NEW t \in Sim, last'[e] = t
               PROVE  /\ dlg'[t].phase # "unused" /\ dlg'[t].doc = e
                      /\ Leaves(dlg'[t]) => dataset'[e].by = t
    BY DEF LastOK
  <2>1. /\ dlg[t].phase # "unused" /\ dlg[t].doc = e
        /\ Leaves(dlg[t]) => dataset[e].by = t
    BY DEF OInv, LastOK
  <2>2. CASE t = s
    BY <1>1, <2>1, <2>2
  <2>3. CASE t # s
    <3>1. e # d
      BY <1>1, <2>3
    <3> QED
      BY <1>1, <1>2, <2>1, <2>3, <3>1
  <2> QED
    BY <2>2, <2>3
<1> QED
  BY <1>3, <1>7, <1>8

LEMMA SlotSimEndedOwn ==
  ASSUME InTurns, IInv, OInv, NEW s \in Sim, SlotSimEnded(s)
  PROVE  OInv'
<1> DEFINE d == dlg[s].doc
<1>1. /\ proc[s] # "none" /\ proc' = [proc EXCEPT ![s] = "none"]
      /\ UNCHANGED <<got, netlist, asco, last>>
  BY DEF SlotSimEnded
<1>2. /\ d \in Doc /\ dlg[s].phase = "simulating" /\ dlg[s].status # 0
      /\ WindowOK(dlg[s])
  BY <1>1 DEF IInv, WindowsOK, WindowOK, Together
<1>3. CASE proc[s] = "succeeded" /\ FinishWell(s, dlg[s])
  <2>1. PICK v : EndedWell(s, v)
    BY <1>3, FinishWellEnds
  <2>2. /\ v.phase = "ended" /\ v.status = 0 /\ v.doc = d
        /\ v.bias = dlg[s].bias /\ v.ver = dlg[s].ver /\ v.program = dlg[s].program
        /\ dlg[s].lost \subseteq v.lost
        /\ IF dlg[s].program = "asco"
             THEN \/ dataset' = [dataset EXCEPT ![d] = asco.out]
                  \/ dataset' = dataset /\ ("result" \in v.lost \/ dlg' = dlg)
             ELSE dataset' = dataset
    BY <2>1 DEF EndedWell
  <2>3. dataset' = dataset \/ dataset' = [dataset EXCEPT ![d] = asco.out]
    BY <2>2
  <2>4. dlg[s].program # "qucsdigilib" =>
          IF dlg[s].program = "asco" THEN asco.out.by = s ELSE dataset[d].by = s
    BY <1>3 DEF OInv, DatasetsOK
  <2>5. CASE UNCHANGED <<dlg, showBias, painted>>
    <3>1. \A t \in Sim : dlg'[t] = IF t = s THEN dlg[s] ELSE dlg[t]
      BY <2>5
    <3>2. ~Leaves(dlg[s])
      BY <1>2 DEF Leaves
    <3>3. OneProcess' /\ DatasetsOK' /\ LastOK'
      BY <1>1, <1>2, <2>3, <3>1, <3>2, EndOwn
    <3>4. BiasOK'
      BY <2>5 DEF OInv, BiasOK, Shows
    <3> QED
      BY <3>3, <3>4 DEF OInv
  <2>6. CASE /\ dlg' = [dlg EXCEPT ![s] = v]
             /\ \/ v.bias = 0 /\ SetBiasPoints(d, v.ver)
                \/ /\ showBias' \in {showBias, [showBias EXCEPT ![d] = -1]}
                   /\ UNCHANGED painted
    <3>1. \A t \in Sim : dlg'[t] = IF t = s THEN v ELSE dlg[t]
      BY <2>6 DEF IInv, WindowsOK
    <3>2. dlg' # dlg
      BY <1>2, <2>2, <3>1
    <3>3. Leaves(v) => dataset'[d].by = s
      BY <1>2, <2>2, <2>4, <3>2 DEF Leaves, IInv, SharedOK
    <3>4. OneProcess' /\ DatasetsOK' /\ LastOK'
      BY <1>1, <2>2, <2>3, <3>1, <3>3, EndOwn
    <3>5. CASE v.bias = 0 /\ SetBiasPoints(d, v.ver)
      <4> SUFFICES ASSUME NEW e \in Doc, showBias'[e] = 1
                   PROVE  \E t \in Sim : Shows(dlg[t], e)'
        BY <3>4 DEF BiasOK, OInv
      <4>1. CASE e = d
        <5>1. painted'[d] = v.ver /\ dlg'[s] = v
          BY <1>2, <3>1, <3>5 DEF SetBiasPoints, IInv, SharedOK
        <5>2. Shows(dlg[s], e)'
          BY <2>2, <3>5, <4>1, <5>1 DEF Shows
        <5> QED
          BY <5>2
      <4>2. CASE e # d
        <5>1. showBias[e] = 1 /\ painted'[e] = painted[e]
          BY <3>5, <4>2 DEF SetBiasPoints, IInv, SharedOK
        <5>2. PICK t \in Sim : Shows(dlg[t], e)
          BY <5>1 DEF OInv, BiasOK
        <5>3. dlg'[t] = dlg[t]
          BY <1>2, <3>1, <5>2 DEF Shows
        <5>4. Shows(dlg[t], e)'
          BY <5>1, <5>2, <5>3 DEF Shows
        <5> QED
          BY <5>4
      <4> QED
        BY <4>1, <4>2
    <3>6. CASE /\ showBias' \in {showBias, [showBias EXCEPT ![d] = -1]}
               /\ UNCHANGED painted
      <4>1. \A e \in Doc : showBias'[e] = 1 => showBias[e] = 1
        BY <3>6 DEF IInv, SharedOK
      <4>2. \A t \in Sim : dlg[t].status = 0 => dlg'[t] = dlg[t]
        BY <1>2, <3>1
      <4>3. BiasOK'
        BY <3>6, <4>1, <4>2, BiasStays DEF OInv
      <4> QED
        BY <3>4, <4>3 DEF OInv
    <3> QED
      BY <2>6, <3>5, <3>6
  <2> QED
    BY <2>1, <2>2, <2>5, <2>6 DEF EndedWell
<1>4. CASE /\ proc[s] = "failed" /\ dlg' = [dlg EXCEPT ![s] = EndsBadly(@)]
           /\ UNCHANGED <<ver, showBias, painted, dataset, crash>>
  <2> DEFINE v == EndsBadly(dlg[s])
  <2>1. v.phase = "ended" /\ v.status = 1 /\ v.doc = d /\ v.lost = dlg[s].lost
    BY <1>2, EndsBadlyOK
  <2>2. \A t \in Sim : dlg'[t] = IF t = s THEN v ELSE dlg[t]
    BY <1>4 DEF IInv, WindowsOK
  <2> HIDE DEF v
  <2>3. ~Leaves(v)
    BY <2>1 DEF Leaves
  <2>4. OneProcess' /\ DatasetsOK' /\ LastOK'
    BY <1>1, <1>4, <2>1, <2>2, <2>3, EndOwn
  <2>5. \A t \in Sim : dlg[t].status = 0 => dlg'[t] = dlg[t]
    BY <1>2, <2>2
  <2>6. BiasOK'
    BY <1>4, <2>5, BiasStays DEF OInv
  <2> QED
    BY <2>4, <2>6 DEF OInv
<1> QED
  BY <1>3, <1>4 DEF SlotSimEnded

LEMMA StepOwn ==
  ASSUME InTurns
  PROVE  IInv /\ OInv /\ [Next]_vars => OInv'
<1> SUFFICES ASSUME IInv, OInv, [Next]_vars PROVE OInv'
  OBVIOUS
<1>1. CASE User
  BY <1>1, UserOwn
<1>2. CASE Programs
  BY <1>2, SimulatorReadsOwn, SimulatorExitsOwn, SlotSimEndedOwn DEF Programs
<1>3. CASE UNCHANGED vars
  <2>1. UNCHANGED <<showBias, painted, dlg, proc, got, files, last>>
    BY <1>3 DEF vars
  <2>2. \A t \in Sim : Alike(dlg'[t], dlg[t])
    BY <2>1, SelfAlike DEF IInv, WindowsOK
  <2> QED
    BY <2>1, <2>2, AlikeOwn
<1> QED
  BY <1>1, <1>2, <1>3 DEF Next

-----------------------------------------------------------------------------
\* If simulations do not overlap and no simulator is killed by a signal, each
\* program computes the netlist of its own window, a success leaves its result in the
\* dataset of the document it was started for, for an optimisation by way of the files
\* all optimisations share, and the bias points shown were calculated for this
\* document; what a failed copy costs is named in `lost' (simmessage.cpp
\* startSimulator, FinishSimulation, qucs.cpp slotAfterSimulation).
THEOREM ResultsAreOwn ==
  ASSUME InTurns
  PROVE  Spec => []ResultIsOwn
<1>1. IInv /\ OInv => ResultIsOwn
  <2> SUFFICES ASSUME IInv, OInv, NEW d \in Doc
               PROVE  /\ \A s \in Sim : dataset[d].by = s /\ "netlist" \notin dlg[s].lost =>
                                          dataset[d].of = {s}
                      /\ \A s \in Sim : last[d] = s /\ Leaves(dlg[s]) => dataset[d].by = s
                      /\ showBias[d] = 1 => \E s \in Sim : Shows(dlg[s], d)
    BY DEF ResultIsOwn, Leaves, Shows
  <2> QED
    BY DEF OInv, DatasetsOK, Own, LastOK, BiasOK
<1>2. IInv /\ OInv /\ [Next]_vars => OInv'
  BY StepOwn
<1> QED
  BY <1>1, <1>2, InitOwn, InitOK, StepOK, PTL DEF Spec
=============================================================================
