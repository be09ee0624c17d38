----------------------------- MODULE DocHistory -----------------------------
(***************************************************************************)
(* One schematic document of the editor: its two undo stacks (drawing and  *)
(* circuit symbol), the file on disk and the "document changed" flag.      *)
(* Source: class Schematic (schematic.cpp, schematic_file.cpp), the        *)
(* settings dialog and QucsApp::slotSymbolEdit.                            *)
(*                                                                         *)
(* An entry of a stack is a snapshot with two tags, the first two bytes of *)
(* the saved string: op ('m' for a marker move) and saved (the byte 'i').  *)
(* A drawing is the set of its subcircuit ports and an abstract value art; *)
(* a symbol is an art value and the place of each port symbol.             *)
(***************************************************************************)
EXTENDS Integers, Sequences

CONSTANTS Port,       \* port numbers a schematic may contain
          Art,        \* everything else that is drawn
          NoArt,      \* a symbol that has no painting but its ports
          Frame,      \* the box createSubcircuitSymbol draws
          Settings,   \* values of the document settings dialog
          UndoSizes   \* values the user may give to QucsSettings.maxUndo

ASSUME ArtAssumption == Frame \in Art /\ NoArt \notin Art
ASSUME SizesAssumption == UndoSizes \subseteq Nat

VARIABLES symbolMode, \* the document is in symbol mode, not in schematic mode
          onSymbol,   \* Components ... Paintings, what is shown and edited, are the symbol's
          sch,        \* DocComps, DocWires, DocDiags, DocPaints
          sym,        \* SymbolPaints
          settings,   \* grid, data display, frame texts, ...
          UndoStack, UndoSymbol,
          DocChanged,
          file,       \* what was last written to, or read from, the file DocName
          maxUndo,
          running,    \* FALSE once a null pointer has been dereferenced
          strayed     \* history variable: since it was loaded last, an edit of the
                      \* symbol went to the history of the schematic

modes == <<symbolMode, onSymbol, strayed>>
vars == <<modes, sch, sym, settings, UndoStack, UndoSymbol, DocChanged,
          file, maxUndo, running>>

\* Where adjustPortNumbers puts a new port, or where it was placed since.
Place == {"default", "placed"}
Sch == [ports : SUBSET Port, art : Art]
Sym == [art : Art \union {NoArt}, at : [Port -> Place \union {"absent"}]]
Entry(State) == [op : {"*", "m"}, saved : BOOLEAN, state : State]
Stack(State) == [items : Seq(Entry(State)), at : Nat]

-----------------------------------------------------------------------------
\* The pointer list of undo strings, with its "current" element.

Empty(st) == st.items = <<>>
Current(st) == st.items[st.at]

\* A plausible slip: the redo items survive a new edit.
PushKeepRedo(st, op, state) ==
  LET grown == Append(st.items, [op |-> op, saved |-> FALSE, state |-> state])
      n     == Len(grown)
      kept  == SubSeq(grown, IF n > maxUndo THEN n - maxUndo + 1 ELSE 1, n)
  IN  [items |-> kept, at |-> Len(kept)]

\* A plausible slip: the position is not corrected when old entries go.
PushStaleIndex(st, op, state) ==
  LET past  == SubSeq(st.items, 1, st.at)
      grown == Append(past, [op |-> op, saved |-> FALSE, state |-> state])
      n     == Len(grown)
  IN  [items |-> SubSeq(grown, IF n > maxUndo THEN n - maxUndo + 1 ELSE 1, n),
       at    |-> n]

\* setChanged: drop the redo items, let a marker move replace the marker move
\* before it, append the snapshot, then forget the oldest ones.
Push(st, op, state) ==
  LET amends == op = "m" /\ Current(st).op = "m"
      past   == SubSeq(st.items, 1, IF amends THEN st.at - 1 ELSE st.at)
      grown  == Append(past, [op |-> op, saved |-> FALSE, state |-> state])
      n      == Len(grown)
      kept   == SubSeq(grown, IF n > maxUndo THEN n - maxUndo + 1 ELSE 1, n)
  IN  [items |-> kept, at |-> Len(kept)]

\* A plausible slip: the marks of earlier saves are left in place.
MarkKeepOld(st) ==
  [st EXCEPT !.items = [i \in DOMAIN st.items |->
                          [st.items[i] EXCEPT !.saved = @ \/ i = st.at]]]

\* save: every entry becomes "changed" but the current one.
MarkSaved(st) ==
  [st EXCEPT !.items = [i \in DOMAIN st.items |->
                          [st.items[i] EXCEPT !.saved = (i = st.at)]]]

-----------------------------------------------------------------------------
\* The symbol follows the ports of the schematic.

AdjustPortNumbers(s, ports) ==
  [s EXCEPT !.at = [p \in Port |-> IF p \notin ports THEN "absent"
                                   ELSE IF s.at[p] = "absent" THEN "default"
                                   ELSE s.at[p]]]

\* SymbolPaints.count() == countPort: nothing is drawn but the ports.
NeedsSymbol(s) == s.art = NoArt

CreateSubcircuitSymbol(ports) ==
  [art |-> Frame,
   at  |-> [p \in Port |-> IF p \in ports THEN "placed" ELSE "absent"]]

-----------------------------------------------------------------------------
\* What a file may hold.  Qucs adjusts the ports before it writes a file, so the
\* symbol of a file has the ports of its schematic.
Contents == {f \in [sch : Sch, sym : Sym, settings : Settings] :
               f.sym = AdjustPortNumbers(f.sym, f.sch.ports)}

\* A stack with one entry that is marked unchanged.
Fresh(state) ==
  [items |-> <<[op |-> "*", saved |-> TRUE, state |-> state]>>, at |-> 1]

\* Schematic::load, or the constructor of an untitled document.
Init ==
  /\ file \in Contents
  /\ sch = file.sch
  /\ sym = file.sym
  /\ settings = file.settings
  /\ UndoStack = Fresh(sch)
  /\ UndoSymbol = Fresh(sym)
  /\ DocChanged = FALSE
  /\ symbolMode = FALSE /\ onSymbol = FALSE /\ strayed = FALSE
  /\ maxUndo \in UndoSizes \ {0}
  /\ running = TRUE

\* slotSimulate has found that another program has written the file, and the
\* user wants it reloaded: load on the open document, which only succeeds here.
\* "Calculate DC bias" may be chosen in symbol mode as well: load ends that mode,
\* but what is shown and edited is still the symbol.
\* Without an undo depth the current entry is dereferenced that was trimmed.
Reload ==
  /\ running
  /\ symbolMode' = FALSE /\ strayed' = FALSE
  /\ file' \in Contents
  /\ sch' = file'.sch
  /\ sym' = file'.sym
  /\ settings' = file'.settings
  /\ DocChanged' = FALSE
  /\ IF maxUndo = 0
       THEN running' = FALSE /\ UNCHANGED <<UndoStack, UndoSymbol>>
       ELSE /\ UndoStack' = Fresh(sch')
            /\ UndoSymbol' = Fresh(sym')
            /\ UNCHANGED running
  /\ UNCHANGED <<onSymbol, maxUndo>>

\* Any edit of the schematic that ends in setChanged(true, true, op); a marker
\* move (op 'm') redraws a diagram and leaves the ports alone.
EditSchematic ==
  \E new \in Sch, op \in {"*", "m"} :
    /\ running /\ ~onSymbol
    /\ new # sch
    /\ op = "m" => new.ports = sch.ports
    /\ DocChanged' = TRUE
    /\ sch' = new
    /\ IF op = "m" /\ Empty(UndoStack)
         THEN running' = FALSE /\ UNCHANGED UndoStack
         ELSE UndoStack' = Push(UndoStack, op, new) /\ UNCHANGED running
    /\ UNCHANGED <<modes, sym, settings, UndoSymbol, file, maxUndo>>

\* What the user may make of the symbol: paint, or move a port symbol.  The
\* commands that delete paintings leave ports and the ID text in place.
Redrawn ==
  {new \in Sym :
     /\ new # sym
     /\ new.art = NoArt => sym.art = NoArt
     /\ \A p \in Port : new.at[p] \in {sym.at[p]} \union
                          (IF sym.at[p] = "absent" THEN {} ELSE {"placed"})}

\* Any edit in symbol mode.
EditSymbol ==
  \E new \in Redrawn :
    /\ running /\ symbolMode
    /\ DocChanged' = TRUE
    /\ sym' = new
    /\ UndoSymbol' = Push(UndoSymbol, "*", new)
    /\ UNCHANGED <<modes, sch, settings, UndoStack, file, maxUndo, running>>

\* Any edit of the symbol behind a reload in symbol mode: setChanged takes a
\* snapshot of the schematic.
EditAstray ==
  \E new \in Redrawn :
    /\ running /\ onSymbol /\ ~symbolMode
    /\ DocChanged' = TRUE
    /\ sym' = new
    /\ UndoStack' = Push(UndoStack, "*", sch)
    /\ strayed' = TRUE
    /\ UNCHANGED <<symbolMode, onSymbol, sch, settings, UndoSymbol, file, maxUndo, running>>

\* The settings dialog calls setChanged(true): no snapshot is taken.
ChangeSettings ==
  \E new \in Settings :
    /\ running
    /\ new # settings
    /\ settings' = new
    /\ DocChanged' = TRUE
    /\ UNCHANGED <<modes, sch, sym, UndoStack, UndoSymbol, file, maxUndo,
                   running>>

\* A plausible slip: the new symbol is drawn without a snapshot of it.
EnterSymbolUnrecorded ==
  /\ UNCHANGED UndoSymbol
  /\ IF NeedsSymbol(sym)
     THEN sym' = CreateSubcircuitSymbol(sch.ports) /\ DocChanged' = TRUE
     ELSE sym' = AdjustPortNumbers(sym, sch.ports) /\ UNCHANGED DocChanged

\* becomeCurrent with symbolMode set: the ports are adjusted, and a symbol is
\* created where there is none.
EnterSymbol ==
  IF NeedsSymbol(sym)
  THEN /\ sym' = CreateSubcircuitSymbol(sch.ports)
       /\ UndoSymbol' = Push(UndoSymbol, "*", sym')
       /\ DocChanged' = TRUE
  ELSE /\ sym' = AdjustPortNumbers(sym, sch.ports)
       /\ UNCHANGED <<UndoSymbol, DocChanged>>

\* Menu entry "Edit Circuit Symbol" / "Edit Schematic".
SlotSymbolEdit ==
  /\ running
  /\ symbolMode' = ~symbolMode /\ onSymbol' = symbolMode'
  /\ IF symbolMode' THEN EnterSymbol ELSE UNCHANGED <<sym, UndoSymbol, DocChanged>>
  /\ UNCHANGED <<strayed, sch, settings, UndoStack, file, maxUndo, running>>

\* The user comes back to this document's tab: what is shown follows the mode.
BecomeCurrent ==
  /\ running
  /\ onSymbol' = symbolMode
  /\ IF symbolMode THEN EnterSymbol ELSE UNCHANGED <<sym, UndoSymbol, DocChanged>>
  /\ UNCHANGED <<symbolMode, strayed, sch, settings, UndoStack, file, maxUndo, running>>

\* The user changes the undo depth; the stacks are trimmed by the next push.
ChangeMaxUndo ==
  \E n \in UndoSizes :
    /\ running
    /\ n # maxUndo
    /\ maxUndo' = n
    /\ UNCHANGED <<modes, sch, sym, settings, UndoStack, UndoSymbol,
                   DocChanged, file, running>>

-----------------------------------------------------------------------------
\* Undo and redo.  step is -1 or 1.

CanStep(st, step) == ~Empty(st) /\ st.at + step \in DOMAIN st.items
Stepped(st, step) == [st EXCEPT !.at = @ + step]

\* In symbol mode the state of the schematic's current entry is read without
\* asking whether there is one; in schematic mode an empty symbol stack counts
\* as unchanged.
TravelSymbol(step) ==
  /\ running /\ symbolMode
  /\ CanStep(UndoSymbol, step)
  /\ UndoSymbol' = Stepped(UndoSymbol, step)
  /\ sym' = AdjustPortNumbers(Current(UndoSymbol').state, sch.ports)
  /\ IF Current(UndoSymbol').saved /\ Empty(UndoStack)
       THEN running' = FALSE /\ UNCHANGED DocChanged
       ELSE /\ DocChanged' = ~(Current(UndoSymbol').saved
                                 /\ Current(UndoStack).saved)
            /\ UNCHANGED running
  /\ UNCHANGED <<modes, sch, settings, UndoStack, file, maxUndo>>

\* A plausible slip: the other stack is not looked at.
TravelSchematicAlone(step) ==
  /\ running /\ ~symbolMode
  /\ CanStep(UndoStack, step)
  /\ UndoStack' = Stepped(UndoStack, step)
  /\ sch' = Current(UndoStack').state
  /\ DocChanged' = ~Current(UndoStack').saved
  /\ UNCHANGED <<modes, sym, settings, UndoSymbol, file, maxUndo, running>>

TravelSchematic(step) ==
  /\ running /\ ~symbolMode
  /\ CanStep(UndoStack, step)
  /\ UndoStack' = Stepped(UndoStack, step)
  /\ sch' = Current(UndoStack').state
  /\ DocChanged' = ~(/\ Current(UndoStack').saved
                     /\ Empty(UndoSymbol) \/ Current(UndoSymbol).saved)
  /\ UNCHANGED <<modes, sym, settings, UndoSymbol, file, maxUndo, running>>

Travel(step) == TravelSymbol(step) \/ TravelSchematic(step)

Undo == Travel(-1)
Redo == Travel(1)

-----------------------------------------------------------------------------
\* Saving.

\* adjustPortNumbers as save calls it: outside symbol mode it turns the lists to
\* the symbol and then to the schematic, whatever they were.
PortsAdjusted ==
  /\ sym' = AdjustPortNumbers(sym, sch.ports)
  /\ onSymbol' = symbolMode

\* save: the ports are adjusted, the file is written, the flag is cleared and
\* the current entry of each stack becomes the unchanged one; a stack without a
\* current entry is dereferenced all the same.
SaveSucceeds ==
  /\ running
  /\ PortsAdjusted
  /\ file' = [sch |-> sch, sym |-> sym', settings |-> settings]
  /\ DocChanged' = FALSE
  /\ IF Empty(UndoStack) \/ Empty(UndoSymbol)
       THEN running' = FALSE /\ UNCHANGED <<UndoStack, UndoSymbol>>
       ELSE /\ UndoStack' = MarkSaved(UndoStack)
            /\ UndoSymbol' = MarkSaved(UndoSymbol)
            /\ UNCHANGED running
  /\ UNCHANGED <<symbolMode, strayed, sch, settings, maxUndo>>

\* The file cannot be opened for writing: save returns -1, but the ports have
\* been adjusted.
SaveFails ==
  /\ running
  /\ PortsAdjusted
  /\ UNCHANGED <<symbolMode, strayed, sch, settings, UndoStack, UndoSymbol, DocChanged,
                 file, maxUndo, running>>

Next ==
  \/ EditSchematic
  \/ EditSymbol
  \/ EditAstray
  \/ ChangeSettings
  \/ SlotSymbolEdit
  \/ BecomeCurrent
  \/ ChangeMaxUndo
  \/ Undo
  \/ Redo
  \/ SaveSucceeds
  \/ SaveFails
  \/ Reload

Spec == Init /\ [][Next]_vars

-----------------------------------------------------------------------------
StackOK(st, State) ==
  /\ st \in Stack(State)
  /\ st.at \in DOMAIN st.items \/ (Empty(st) /\ st.at = 0)

\* Types of the variables; the current entry of a stack is one of its items.
TypeOK ==
  /\ symbolMode \in BOOLEAN /\ onSymbol \in BOOLEAN /\ strayed \in BOOLEAN
  /\ symbolMode => onSymbol
  /\ sch \in Sch
  /\ sym \in Sym
  /\ settings \in Settings
  /\ StackOK(UndoStack, Sch)
  /\ StackOK(UndoSymbol, Sym)
  /\ DocChanged \in BOOLEAN
  /\ file \in [sch : Sch, sym : Sym, settings : Settings]
  /\ maxUndo \in UndoSizes
  /\ running \in BOOLEAN

\* What is on the screen is the current snapshot, so that undo really leaves
\* the state the user saw (schematic.cpp undo, redo, setChanged); of the symbol as
\* long as its edits go to its own history.  The places of port symbols are
\* excepted: adjustPortNumbers changes them without a snapshot.
LiveIsCurrent ==
  /\ ~Empty(UndoStack) => sch = Current(UndoStack).state
  /\ ~Empty(UndoSymbol) /\ ~strayed => sym.art = Current(UndoSymbol).state.art

\* An entry tagged 'i' holds what the file holds: the tags stay true through edits,
\* trims, amended marker moves, undo, redo, saves and reloads in either mode
\* (schematic.cpp:96 "The 'i' means state for being unchanged"); of the symbol as long
\* as its edits go to its own history.
MarkedIsFile ==
  /\ \A i \in DOMAIN UndoStack.items :
       UndoStack.items[i].saved => UndoStack.items[i].state = file.sch
  /\ ~strayed => \A i \in DOMAIN UndoSymbol.items :
       UndoSymbol.items[i].saved =>
         UndoSymbol.items[i].state.art = file.sym.art

\* A document without the "unsaved" icon has the schematic of its file, whichever
\* way undo, redo, saves, reloads and mode switches were mixed to get there, and
\* the symbol paintings as long as their edits go to their own history.
\* (The settings may differ: their dialog takes no snapshot; and the places of port
\* symbols: nor does adjustPortNumbers.)
CleanIsSaved ==
  ~DocChanged => sch = file.sch /\ (strayed \/ sym.art = file.sym.art)

\* No null pointer is dereferenced: while every undo depth is at least 1, each
\* stack has a current entry whenever save, undo or a marker move reads it.
NoNullEntry == running

\* What the user is promised of each stack, read off the stack and the screen.
States(st, first, last) == [i \in 1..(last - first + 1) |->
                              st.items[first + i - 1].state]
Arts(st, first, last) == [i \in 1..(last - first + 1) |->
                            st.items[first + i - 1].state.art]

SchematicTimeline == INSTANCE Timeline WITH
  State  <- Sch,
  past   <- States(UndoStack, 1, UndoStack.at - 1),
  now    <- sch,
  future <- States(UndoStack, UndoStack.at + 1, Len(UndoStack.items)),
  depth  <- maxUndo

SymbolTimeline == INSTANCE Timeline WITH
  State  <- Art \union {NoArt},
  past   <- Arts(UndoSymbol, 1, UndoSymbol.at - 1),
  now    <- sym.art,
  future <- Arts(UndoSymbol, UndoSymbol.at + 1, Len(UndoSymbol.items)),
  depth  <- maxUndo

\* Undo leads back through exactly the schematics the user saw and redo on to
\* them again; an edit forgets only what lies beyond the undo depth.  The same for
\* the paintings of the symbol, until an edit of them goes to the other history.
\* A reload begins anew, with neither past nor future: no undo leads out of what was read.
UndoIsTrue ==
  /\ SchematicTimeline!Init /\ SymbolTimeline!Init
  /\ [][\/ SchematicTimeline!Next
        \/ Reload /\ SchematicTimeline!Init']_SchematicTimeline!vars
  /\ [][\/ strayed'
        \/ SymbolTimeline!Next
        \/ Reload /\ SymbolTimeline!Init']_SymbolTimeline!vars
=============================================================================
