------------------------------ MODULE DocTabs ------------------------------
(***************************************************************************)
(* The documents of the main window (qucs.cpp) and the dialog that asks    *)
(* about unsaved ones (savedialog.cpp).  A slot runs to its end except     *)
(* where it opens a modal dialog: the dialog's own event loop still        *)
(* delivers the end of a simulation, which may open a page, change the     *)
(* current one and, with an optimisation, change a document.  `ask' says   *)
(* which dialog is open, or where a slot stands that saves several         *)
(* documents, and what it does next.                                       *)
(*                                                                         *)
(* Contents are abstract; undo and the rest of the flag DocChanged are in  *)
(* DocHistory, the windows of the simulations in SimDialog.                *)
(***************************************************************************)
EXTENDS Naturals, Sequences, FiniteSets, SequencesExt

CONSTANTS Doc,        \* documents; as many can be open at a time
          Name,       \* file names
          NoName,     \* the name of an untitled document
          Display,    \* [Name -> Name], the data display of a document
          Content,    \* what a document may hold
          Empty,      \* what a new document holds
          NoFile,     \* no file has this name
          FirstFiles, \* [Name -> Content \cup {NoFile}]
          NoDoc,
          Fails,      \* what may fail besides the choices of the user
          Optimises   \* \subseteq BOOLEAN, may a simulation change its schematic

ASSUME NameAssumption ==
  /\ NoName \notin Name
  /\ Empty \in Content
  /\ NoFile \notin Content
  /\ NoDoc \notin Doc
  /\ Display \in [Name -> Name]
  /\ FirstFiles \in [Name -> Content \cup {NoFile}]
  /\ Optimises \subseteq BOOLEAN
  /\ Fails \subseteq {"save", "saveAs", "load", "create", "erase"}

VARIABLES win,   \* tabs: the pages; cur: index of the current one; doc: the documents
          disk,  \* [Name -> Content \cup {NoFile}]
          sim,   \* the running simulation: its document and its data display
          ask    \* the open dialog or the unfinished slot

vars == <<win, disk, sim, ask>>

(***************************************************************************)
(* The tab widget (Qt).  What slotChangeView does to menus and tool bars   *)
(* when its signal tells of another page is left out.                      *)
(***************************************************************************)
Closed == [name |-> NoName, content |-> Empty, changed |-> FALSE]
NoWin == [tabs |-> <<>>, cur |-> 0, doc |-> [d \in Doc |-> Closed]]
Open == ToSet(win.tabs)
Current == win.tabs[win.cur]

\* QTabWidget::setCurrentPage
SetPage(w, i) == [w EXCEPT !.cur = i]
Show(w, d) == SetPage(w, CHOOSE i \in DOMAIN w.tabs : w.tabs[i] = d)

\* The constructors of Schematic and TextDoc: a new page, made the current one.
Added(w, d, n) ==
  SetPage([w EXCEPT !.tabs = Append(@, d), !.doc[d] = [Closed EXCEPT !.name = n]],
          Len(w.tabs) + 1)

\* A plausible slip: the index stays where it is when a page before it goes.
RemovedIndexStays(w, d) ==
  LET i == Show(w, d).cur
  IN SetPage([w EXCEPT !.tabs = RemoveAt(@, i), !.doc[d] = Closed],
             IF i = w.cur /\ i = Len(w.tabs) THEN i - 1 ELSE w.cur)

\* The destructors: the page goes; for the current one its right neighbour is
\* shown, for the last its left one.
Removed(w, d) ==
  LET i    == Show(w, d).cur
      rest == [w EXCEPT !.tabs = RemoveAt(@, i), !.doc[d] = Closed]
  IN IF i < w.cur \/ (i = w.cur /\ i = Len(w.tabs)) THEN SetPage(rest, w.cur - 1)
     ELSE rest

\* A plausible slip: the current document is not looked at.
FoundElsewhere(n) == {d \in Open \ {Current} : win.doc[d].name = n}

\* findDoc
Found(n) == {d \in Open : win.doc[d].name = n}

(***************************************************************************)
(* Where the program stands.                                               *)
(***************************************************************************)
Idle == [at |-> "idle"]
\* The message box of closeFile about document d.
Question(d) == [at |-> "question", doc |-> d]
\* The file dialog of saveAs for d, the page that was current when it opened;
\* `yes' and `no' say how its caller goes on.
NameDialog(d, yes, no) ==
  [at |-> "name", doc |-> d, yes |-> yes, no |-> no]
\* closeFile behind its switch; `answer' is what the user said and what
\* slotFileSave made of it, which the code does not know.
Deleting(d, answer) == [at |-> "delete", doc |-> d, answer |-> answer]
\* The loop of slotFileSaveAll at page `no'; `ok' if every saveFile succeeded.
SavingAll(no, ok) == [at |-> "all", no |-> no, ok |-> ok]
\* The dialog of closeAllFiles: documents listed at first and those still in
\* unsavedDocs; `why' the program closes them.
List(asked, docs, why) == [at |-> "list", asked |-> asked, docs |-> docs, why |-> why]
\* closeAllFiles behind its dialog; `chosen' are the documents to be saved.
ClosingAll(asked, chosen, why) ==
  [at |-> "deleteAll", asked |-> asked, chosen |-> chosen, why |-> why]
\* A slot that has closed pages and still has to make an untitled one.
Renewing == [at |-> "renew"]
NoSim == [doc |-> NoDoc, page |-> NoName]
\* slotSimulate behind its saveAs.
Starting(d) == [at |-> "simulate", doc |-> d]
Ended == [at |-> "ended"]
Crashed == [at |-> "crashed"]

ResultOf(what) == IF what \in Fails THEN {TRUE, FALSE} ELSE {TRUE}

(***************************************************************************)
(* Saving.                                                                 *)
(***************************************************************************)
\* A plausible slip: the result of saving is not looked at.
WriteUnchecked(d, ok) ==
  /\ disk' = IF ok THEN [disk EXCEPT ![win.doc[d].name] = win.doc[d].content] ELSE disk
  /\ win' = [win EXCEPT !.doc[d].changed = FALSE]

\* save() of a document with a name; a failing one changes nothing.
Write(d, ok) ==
  IF ok THEN /\ disk' = [disk EXCEPT ![win.doc[d].name] = win.doc[d].content]
             /\ win' = [win EXCEPT !.doc[d].changed = FALSE]
        ELSE UNCHANGED <<win, disk>>

\* saveFile; on a document without name it calls saveAs, which turns to the
\* current document.
SaveFile(d, yes, no) ==
  IF win.doc[d].name = NoName
  THEN ask' = NameDialog(Current, yes, no) /\ UNCHANGED <<win, disk>>
  ELSE \E ok \in ResultOf("save") :
         /\ Write(d, ok)
         /\ ask' = IF ok THEN yes ELSE no

SlotFileSave ==
  /\ ask = Idle
  /\ SaveFile(Current, Idle, Idle)
  /\ UNCHANGED sim

SlotFileSaveAs ==
  /\ ask = Idle
  /\ ask' = NameDialog(Current, Idle, Idle)
  /\ UNCHANGED <<win, disk, sim>>

\* saveAs, its dialogs cancelled, or answered by the name of an open document.
CancelName ==
  /\ ask.at = "name"
  /\ ask' = ask.no
  /\ UNCHANGED <<win, disk, sim>>

\* The name is given to the document before the document is saved.
Named(p, n, ok) == [p EXCEPT !.name = n, !.changed = @ /\ ~ok]

\* saveAs with a name.
ChooseName(n) ==
  /\ ask.at = "name"
  /\ Found(n) = {}
  /\ \E ok \in ResultOf("saveAs") :
       /\ win' = [win EXCEPT !.doc[ask.doc] = Named(@, n, ok)]
       /\ disk' = IF ok THEN [disk EXCEPT ![n] = win.doc[ask.doc].content] ELSE disk
       /\ ask' = IF ok THEN ask.yes ELSE ask.no
  /\ UNCHANGED sim

SlotFileSaveAll ==
  /\ ask = Idle
  /\ ask' = SavingAll(1, TRUE)
  /\ UNCHANGED <<win, disk, sim>>

\* A plausible slip: untitled documents are not made the current one.
SaveNextPageAsIs ==
  /\ ask.at = "all"
  /\ IF ask.no > Len(win.tabs)
     THEN ask' = Idle /\ UNCHANGED <<win, disk>>
     ELSE SaveFile(win.tabs[ask.no], SavingAll(ask.no + 1, ask.ok), SavingAll(ask.no + 1, FALSE))
  /\ UNCHANGED sim

\* One round of the loop of slotFileSaveAll: an untitled document is made the
\* current one, so that saveAs takes it.
SaveNextPage ==
  /\ ask.at = "all"
  /\ LET no   == ask.no
         yes  == SavingAll(no + 1, ask.ok)
         fail == SavingAll(no + 1, FALSE)
     IN IF no > Len(win.tabs)
        THEN ask' = Idle /\ UNCHANGED <<win, disk>>
        ELSE LET d == win.tabs[no] IN
             IF win.doc[d].name = NoName
             THEN /\ win' = SetPage(win, no)
                  /\ ask' = NameDialog(d, yes, fail)
                  /\ UNCHANGED disk
             ELSE SaveFile(d, yes, fail)
  /\ UNCHANGED sim

(***************************************************************************)
(* Opening.                                                                *)
(***************************************************************************)
\* slotFileNew, slotTextNew
NewPage ==
  /\ ask = Idle
  /\ \E d \in Doc \ Open : win' = Added(win, d, NoName)
  /\ UNCHANGED <<disk, sim, ask>>

\* A new untitled schematic where a slot has closed the last page.
Renew ==
  /\ ask = Renewing
  /\ \E d \in Doc \ Open : win' = Added(win, d, NoName)
  /\ ask' = Idle
  /\ UNCHANGED <<disk, sim>>

Loaded(w, d, n) == [w EXCEPT !.doc[d].content = disk[n]]

\* A plausible slip: an untitled first page goes even if it is changed.
GotoPageInstead(n) ==
  /\ ask = Idle
  /\ Found(n) = {}
  /\ disk[n] # NoFile
  /\ \E d \in Doc \ Open :
       LET w == Loaded(Added(win, d, n), d, n)
       IN win' = IF win.doc[win.tabs[1]].name = NoName THEN Removed(w, win.tabs[1]) ELSE w
  /\ UNCHANGED <<disk, sim, ask>>

\* gotoPage: an open page is shown, a file loaded.  A page that cannot be
\* loaded goes again and the page before is shown; after loading, the first
\* page goes if it is untitled and unchanged.
GotoPage(n) ==
  /\ ask = Idle
  /\ IF Found(n) # {}
     THEN \E d \in Found(n) : win' = Show(win, d)
     ELSE \E d \in Doc \ Open, ok \in ResultOf("load") :
            LET w == Added(win, d, n)
                f == win.doc[win.tabs[1]]
            IN win' = IF ~ok \/ disk[n] = NoFile
                      THEN SetPage(Removed(w, d), win.cur)
                      ELSE IF f.name = NoName /\ ~f.changed
                      THEN Removed(Loaded(w, d, n), win.tabs[1])
                      ELSE Loaded(w, d, n)
  /\ UNCHANGED <<disk, sim, ask>>

\* The user clicks a tab.
ShowPage(i) ==
  /\ ask = Idle
  /\ win' = SetPage(win, i)
  /\ UNCHANGED <<disk, sim, ask>>

\* Any change of a document ends in setChanged.
Edited(p, c) == [p EXCEPT !.content = c, !.changed = TRUE]

Edit(c) ==
  /\ ask = Idle
  /\ win.doc[Current].content # c
  /\ win' = [win EXCEPT !.doc[Current] = Edited(@, c)]
  /\ UNCHANGED <<disk, sim, ask>>

\* slotChangePage for the page n, in a window w: open already, loaded, created,
\* or neither; here a page that fails to load leaves another page shown.
ChangePage(w, n) ==
  IF Found(n) # {}
  THEN /\ \E d \in Found(n) : win' = Show(w, d)
       /\ UNCHANGED disk
  ELSE \E d \in Doc \ Open :
         LET a == Added(w, d, n) IN
         IF disk[n] # NoFile
         THEN /\ \E ok \in ResultOf("load") :
                   win' = IF ok THEN Loaded(a, d, n) ELSE Removed(a, d)
              /\ UNCHANGED disk
         ELSE /\ win' = a
              /\ \E ok \in ResultOf("create") :
                   disk' = IF ok THEN [disk EXCEPT ![n] = Empty] ELSE disk

(***************************************************************************)
(* Closing.                                                                *)
(***************************************************************************)
\* A simulation whose document is deleted still opens its data display.
Forget(ds) == sim' = IF sim.doc \in ds THEN [sim EXCEPT !.doc = NoDoc] ELSE sim

\* closeFile for page i, which need not be the current one.
CloseFile(i) ==
  /\ ask = Idle
  /\ LET d == win.tabs[i] IN
     ask' = IF win.doc[d].changed THEN Question(d) ELSE Deleting(d, "unchanged")
  /\ UNCHANGED <<win, disk, sim>>

\* "Save" calls slotFileSave, which saves the current document.
AnswerSave ==
  /\ ask.at = "question"
  /\ SaveFile(Current, Deleting(ask.doc, "saved"), Deleting(ask.doc, "not saved"))
  /\ UNCHANGED sim

AnswerDiscard ==
  /\ ask.at = "question"
  /\ ask' = Deleting(ask.doc, "discard")
  /\ UNCHANGED <<win, disk, sim>>

AnswerCancel ==
  /\ ask.at = "question"
  /\ ask' = Idle
  /\ UNCHANGED <<win, disk, sim>>

\* closeFile behind its switch, whatever became of the saving.
DeleteDoc ==
  /\ ask.at = "delete"
  /\ win' = Removed(win, ask.doc)
  /\ Forget({ask.doc})
  /\ ask' = IF win'.tabs = <<>> THEN Renewing ELSE Idle
  /\ UNCHANGED disk

\* closeAllFiles, for another project or to quit: lists the changed documents.
CloseAllFiles(why) ==
  /\ ask = Idle
  /\ LET changed == {d \in Open : win.doc[d].changed} IN
     ask' = IF changed = {} THEN ClosingAll({}, {}, why) ELSE List(changed, changed, why)
  /\ UNCHANGED <<win, disk, sim>>

\* SaveDialog::reject and dontSaveClicked
AbortClosing ==
  /\ ask.at = "list"
  /\ ask' = Idle
  /\ UNCHANGED <<win, disk, sim>>

DontSave ==
  /\ ask.at = "list"
  /\ ask' = ClosingAll(ask.asked, {}, ask.why)
  /\ UNCHANGED <<win, disk, sim>>

\* saveSelectedClicked: `todo' are the checked documents still to be saved, in
\* the order of their addresses, which is any; `failed' those not saved.
SaveSelected(chosen) ==
  /\ ask.at = "list"
  /\ ask' = [at |-> "saving", list |-> ask, chosen |-> chosen, todo |-> chosen, failed |-> {}]
  /\ UNCHANGED <<win, disk, sim>>

SaveNextSelected ==
  /\ ask.at = "saving"
  /\ \E d \in ask.todo :
       LET on == [ask EXCEPT !.todo = @ \ {d}]
       IN SaveFile(d, [on EXCEPT !.list.docs = @ \ {d}],
                             [on EXCEPT !.failed = @ \cup {d}])
  /\ UNCHANGED sim

\* The loop removes the element under its iterator and then moves it on: it
\* reads freed memory, which an allocator that overwrites it makes a crash.
IteratorCrashes ==
  /\ ask.at = "saving"
  /\ "erase" \in Fails
  /\ ask.chosen \ (ask.todo \cup ask.failed) # {}
  /\ ask' = Crashed
  /\ UNCHANGED <<win, disk, sim>>

\* Behind the loop: with a failure the dialog stays open.
AllSelected ==
  /\ ask.at = "saving"
  /\ ask.todo = {}
  /\ ask' = IF ask.failed = {} THEN ClosingAll(ask.list.asked, ask.chosen, ask.list.why)
            ELSE ask.list
  /\ UNCHANGED <<win, disk, sim>>

\* closeAllFiles behind its dialog deletes every document; a quit also ends
\* the simulation.
DeleteAll ==
  /\ ask.at = "deleteAll"
  /\ win' = NoWin
  /\ IF ask.why = "quit" THEN sim' = NoSim /\ ask' = Ended
     ELSE Forget(Open) /\ ask' = Renewing
  /\ UNCHANGED disk

(***************************************************************************)
(* Simulations (SimDialog has them in full), one at a time.                *)
(***************************************************************************)
Started(d) == sim' = [doc |-> d, page |-> Display[win.doc[d].name]]

\* slotSimulate, which first gives an untitled document a name.
SlotSimulate ==
  /\ ask = Idle
  /\ sim = NoSim
  /\ IF win.doc[Current].name = NoName
     THEN ask' = NameDialog(Current, Starting(Current), Idle) /\ UNCHANGED sim
     ELSE Started(Current) /\ UNCHANGED ask
  /\ UNCHANGED <<win, disk>>

StartProcess ==
  /\ ask.at = "simulate"
  /\ Started(ask.doc)
  /\ ask' = Idle
  /\ UNCHANGED <<win, disk>>

\* slotSimEnded: the windows after an optimisation has written its results into
\* the schematic.
Optimised ==
  IF TRUE \in Optimises /\ sim.doc # NoDoc
  THEN {[win EXCEPT !.doc[sim.doc] = Edited(@, c)] : c \in Content}
  ELSE {}

\* slotSimEnded and slotAfterSimulation, delivered whenever an event loop runs:
\* the data display may be shown.
SimulationEnds ==
  /\ sim # NoSim
  /\ ask.at \in {"idle", "question", "name", "list"}
  /\ \E w \in {win} \cup Optimised :
       \/ win' = w /\ UNCHANGED disk
       \/ ChangePage(w, sim.page)
  /\ sim' = NoSim
  /\ UNCHANGED ask

(***************************************************************************)
(* The program.                                                            *)
(***************************************************************************)
\* The constructor of QucsApp opens an untitled schematic.
Init ==
  /\ \E d \in Doc : win = Added(NoWin, d, NoName)
  /\ disk = FirstFiles
  /\ sim = NoSim
  /\ ask = Idle

User ==
  \/ SlotFileSave \/ SlotFileSaveAs \/ SlotFileSaveAll \/ SlotSimulate
  \/ NewPage
  \/ \E n \in Name : GotoPage(n)
  \/ \E i \in DOMAIN win.tabs : ShowPage(i) \/ CloseFile(i)
  \/ \E c \in Content : Edit(c)
  \/ \E why \in {"project", "quit"} : CloseAllFiles(why)
  \/ CancelName \/ \E n \in Name : ChooseName(n)
  \/ AnswerSave \/ AnswerDiscard \/ AnswerCancel
  \/ AbortClosing \/ DontSave
  \/ ask.at = "list" /\ \E chosen \in SUBSET ask.docs : SaveSelected(chosen)

Program ==
  \/ SaveNextPage \/ SaveNextSelected \/ AllSelected \/ IteratorCrashes
  \/ DeleteDoc \/ DeleteAll \/ Renew \/ StartProcess

Next == User \/ Program \/ SimulationEnds
Spec == Init /\ [][Next]_vars

(***************************************************************************)
(* Properties.                                                             *)
(***************************************************************************)
\* The types; no page is there twice, and one of them is the current one as soon as
\* there are pages: what closing, opening and showing pages rely on.
TypeOK ==
  /\ win.tabs \in Seq(Doc)
  /\ \A i, j \in DOMAIN win.tabs : win.tabs[i] = win.tabs[j] => i = j
  /\ IF win.tabs = <<>> THEN win.cur = 0 ELSE win.cur \in DOMAIN win.tabs
  /\ win.doc \in [Doc -> [name : Name \cup {NoName}, content : Content, changed : BOOLEAN]]
  /\ disk \in [Name -> Content \cup {NoFile}]
  /\ sim \in [doc : Doc \cup {NoDoc}, page : Name \cup {NoName}]
  /\ ask.at \in {"idle", "question", "name", "delete", "all", "list", "saving",
                 "deleteAll", "renew", "simulate", "ended", "crashed"}

\* Two open documents never have the same file: saveAs refuses the name of an
\* open document and every way of opening looks for it first, so that saving
\* one document cannot change what is behind another.
NoTwoOfOneName ==
  \A d, e \in Open : d # e /\ win.doc[d].name = win.doc[e].name
                     => win.doc[d].name = NoName

\* A document without the mark of unsaved changes is what its file holds, and
\* nothing if it has no name: closing it without a question loses nothing.
CleanIsOnDisk ==
  \A d \in Open : LET p == win.doc[d] IN
    ~p.changed => p.content = IF p.name = NoName THEN Empty ELSE disk[p.name]

\* The documents the user has been asked about by the slot that is running.
AskedAbout == CASE ask.at = "delete" -> {ask.doc}
                [] ask.at = "deleteAll" -> ask.asked
                [] OTHER -> {}

\* A changed document is never deleted without a question about it: not by
\* closing, by opening another, by a change of project nor by quitting
\* ("close files and ask for saving them", qucs.cpp openProject).
AskedBeforeDeleting ==
  [][\A d \in Open \ Range(win'.tabs) : win.doc[d].changed => d \in AskedAbout]_vars

\* Save All ends with every document saved unless a save failed or was
\* cancelled: the untitled ones, whose saveAs takes the current page, included.
SaveAllSaves ==
  ask.at = "all" /\ ask.ok /\ ask.no > Len(win.tabs) => \A d \in Open : ~win.doc[d].changed

\* A document the user wanted to save is saved before it is deleted, at least if
\* every save succeeds ("Do you want to save the changes before closing?",
\* closeFile; "Select files to be saved", the dialog of closeAllFiles).
SavedBeforeDeleting ==
  /\ ask.at = "delete" /\ ask.answer = "saved" => ~win.doc[ask.doc].changed
  /\ ask.at = "deleteAll" => \A d \in ask.chosen : ~win.doc[d].changed
=============================================================================
