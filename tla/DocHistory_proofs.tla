-------------------------- MODULE DocHistory_proofs --------------------------
(***************************************************************************)
(* Proofs about DocHistory, for every set of ports and drawings and every  *)
(* choice of undo depths that are not zero.  The inductive invariant adds  *)
(* to the checked invariants that no stack is ever without an entry: with  *)
(* a depth of zero that fails, and so do the properties.  Reloads may      *)
(* happen in symbol mode; what is said of the symbol then ends with its    *)
(* next edit, which goes to the history of the schematic (strayed).        *)
(***************************************************************************)
EXTENDS DocHistory, SequenceTheorems, TLAPS

\* What the theorems assume; QIntValidator(0, 200) of the settings dialog does
\* not enforce it.
DepthsPositive == 0 \notin UndoSizes

HasEntries(st) == ~Empty(st) /\ st.at \in DOMAIN st.items

IInv ==
  /\ DepthsPositive
  /\ TypeOK
  /\ running
  /\ HasEntries(UndoStack)
  /\ HasEntries(UndoSymbol)
  /\ LiveIsCurrent
  /\ MarkedIsFile
  /\ CleanIsSaved

-----------------------------------------------------------------------------
\* Every depth the user can choose keeps at least one entry.
LEMMA DepthPositive ==
  ASSUME IInv
  PROVE  maxUndo \in Nat /\ maxUndo >= 1
BY SizesAssumption DEF IInv, DepthsPositive, TypeOK

\* What setChanged does to a stack: the new snapshot is the current entry, and
\* every tagged entry was there before.
LEMMA PushProperties ==
  ASSUME NEW S, NEW st \in Stack(S), HasEntries(st),
         NEW op \in {"*", "m"}, NEW state \in S,
         maxUndo \in Nat, maxUndo >= 1
  PROVE  /\ StackOK(Push(st, op, state), S)
         /\ HasEntries(Push(st, op, state))
         /\ Current(Push(st, op, state)).state = state
         /\ \A i \in DOMAIN Push(st, op, state).items :
              Push(st, op, state).items[i].saved =>
                \E j \in DOMAIN st.items : st.items[j] = Push(st, op, state).items[i]
<1> DEFINE k     == IF op = "m" /\ Current(st).op = "m" THEN st.at - 1 ELSE st.at
           past  == SubSeq(st.items, 1, k)
           e     == [op |-> op, saved |-> FALSE, state |-> state]
           grown == Append(past, e)
           n     == Len(grown)
           m     == IF n > maxUndo THEN n - maxUndo + 1 ELSE 1
           kept  == SubSeq(grown, m, n)
<1>1. st.items \in Seq(Entry(S)) /\ st.at \in Nat /\ st.at \in 1..Len(st.items)
  BY DEF Stack, HasEntries
<1>2. k \in Nat /\ k <= Len(st.items)
  BY <1>1
<1>3. /\ past \in Seq(Entry(S))
      /\ Len(past) = k
      /\ \A i \in 1..k : past[i] = st.items[i]
  <2>1. \A i \in 1..k : st.items[i] \in Entry(S)
    BY <1>1, <1>2
  <2> HIDE DEF k
  <2> QED
    BY <2>1, <1>2, SubSeqProperties
<1>4. e \in Entry(S)
  BY DEF Entry
<1>5. /\ grown \in Seq(Entry(S))
      /\ n = k + 1
      /\ grown[n] = e
      /\ \A i \in 1..k : grown[i] = st.items[i]
  <2> HIDE DEF past, e, k
  <2> QED
    BY <1>2, <1>3, <1>4
<1>6. m \in 1..n
  <2> HIDE DEF grown
  <2> QED
    BY <1>5, <1>2
<1>7. /\ kept \in Seq(Entry(S))
      /\ Len(kept) = n - m + 1
      /\ \A i \in 1..(n - m + 1) : kept[i] = grown[m + i - 1]
  <2>1. \A i \in m..n : grown[i] \in Entry(S)
    BY <1>5, <1>6
  <2>2. m \in Int /\ n \in Int /\ m <= n
    BY <1>5, <1>2, <1>6
  <2> HIDE DEF m, n, grown
  <2> QED
    BY <2>1, <2>2, SubSeqProperties
<1>8. Push(st, op, state) = [items |-> kept, at |-> Len(kept)]
  BY DEF Push
<1>9. Len(kept) \in Nat /\ Len(kept) >= 1 /\ kept[Len(kept)] = e
  <2> HIDE DEF kept, grown, m, n, e
  <2>1. n \in Nat /\ m \in Nat /\ m <= n /\ 1 <= m
    BY <1>2, <1>5, <1>6
  <2>2. n - m + 1 \in 1..(n - m + 1) /\ m + (n - m + 1) - 1 = n
    BY <2>1
  <2>3. kept[n - m + 1] = grown[n]
    BY <2>2, <1>7
  <2> QED
    BY <2>1, <2>3, <1>5, <1>7
<1>10. \A i \in 1..Len(kept) : kept[i].saved =>
          \E j \in 1..Len(st.items) : st.items[j] = kept[i]
  <2> SUFFICES ASSUME NEW i \in 1..Len(kept), kept[i].saved
               PROVE  \E j \in 1..Len(st.items) : st.items[j] = kept[i]
    OBVIOUS
  <2>1. m + i - 1 \in 1..n /\ kept[i] = grown[m + i - 1]
    <3> HIDE DEF kept, grown, m, n
    <3>1. n \in Nat /\ m \in 1..n /\ Len(kept) = n - m + 1
      <4>1. n \in Nat
        <5> HIDE DEF k
        <5> QED
          BY <1>2, <1>5
      <4> QED
        BY <4>1, <1>6, <1>7
    <3>2. i \in 1..(n - m + 1) /\ m + i - 1 \in 1..n
      BY <3>1
    <3> QED
      BY <1>7, <3>2
  <2>2. m + i - 1 # n
    <3>1. ~e.saved
      OBVIOUS
    <3> HIDE DEF kept, grown, m, n, e
    <3> QED
      BY <2>1, <1>5, <3>1
  <2>3. m + i - 1 \in 1..k
    <3> HIDE DEF kept, grown, m, n, k
    <3> QED
      BY <2>1, <2>2, <1>5, <1>2, <1>6
  <2> HIDE DEF kept, grown, m, n, k
  <2> QED
    BY <2>1, <2>3, <1>5, <1>2
<1>11. kept[Len(kept)].state = state
  <2>1. e.state = state
    OBVIOUS
  <2> HIDE DEF kept, e
  <2> QED
    BY <1>9, <2>1
<1> HIDE DEF kept
<1>12. /\ kept \in Seq(Entry(S)) /\ kept # <<>>
       /\ DOMAIN kept = 1..Len(kept) /\ Len(kept) \in DOMAIN kept
  <2>1. kept \in Seq(Entry(S))
    BY <1>7
  <2>2. DOMAIN kept = 1..Len(kept)
    BY <2>1, LenProperties
  <2>3. kept # <<>>
    BY <1>9, EmptySeq
  <2>4. Len(kept) \in DOMAIN kept
    BY <1>9, <2>2
  <2> QED
    BY <2>1, <2>2, <2>3, <2>4
<1>13. DOMAIN st.items = 1..Len(st.items)
  BY <1>1
<1> DEFINE r == Push(st, op, state)
<1>14. r.items = kept /\ r.at = Len(kept) /\ r \in Stack(S)
  BY <1>8, <1>9, <1>12 DEF Stack
<1> HIDE DEF r
<1>15. StackOK(r, S) /\ HasEntries(r)
  BY <1>12, <1>14 DEF StackOK, HasEntries, Empty
<1>16. Current(r).state = state
  BY <1>11, <1>14 DEF Current
<1>17. \A i \in DOMAIN r.items : r.items[i].saved =>
         \E j \in DOMAIN st.items : st.items[j] = r.items[i]
  BY <1>10, <1>12, <1>13, <1>14
<1> QED
  BY <1>15, <1>16, <1>17 DEF r

\* Marking a save moves the tag to the current entry and changes no snapshot.
LEMMA MarkSavedProperties ==
  ASSUME NEW S, NEW st \in Stack(S), HasEntries(st)
  PROVE  /\ StackOK(MarkSaved(st), S)
         /\ HasEntries(MarkSaved(st))
         /\ MarkSaved(st).at = st.at /\ DOMAIN MarkSaved(st).items = DOMAIN st.items
         /\ \A i \in DOMAIN MarkSaved(st).items :
              /\ MarkSaved(st).items[i].state = st.items[i].state
              /\ MarkSaved(st).items[i].saved => i = st.at
<1> DEFINE n == Len(st.items)
           f == [i \in 1..n |-> [st.items[i] EXCEPT !.saved = (i = st.at)]]
<1>1. /\ st.items \in Seq(Entry(S)) /\ st.at \in Nat
      /\ n \in Nat /\ DOMAIN st.items = 1..n /\ st.at \in 1..n
  BY DEF Stack, HasEntries
<1>2. MarkSaved(st) = [items |-> f, at |-> st.at]
  <2>1. MarkSaved(st) = [st EXCEPT !.items = f]
    BY <1>1, Zenon DEF MarkSaved
  <2> HIDE DEF f
  <2> QED
    BY <2>1 DEF Stack
<1>3. \A i \in 1..n : st.items[i] \in Entry(S)
  BY <1>1
<1>4. \A i \in 1..n : /\ f[i] \in Entry(S)
                      /\ f[i].state = st.items[i].state
                      /\ f[i].saved => i = st.at
  BY <1>3 DEF Entry
<1>5. f \in Seq(Entry(S)) /\ DOMAIN f = 1..n
  <2>1. f \in [1..n -> Entry(S)]
    BY <1>4
  <2> QED
    BY <2>1, <1>1
<1> HIDE DEF f, n
<1>6. f # <<>>
  BY <1>1, <1>5
<1> DEFINE r == MarkSaved(st)
<1>7. r.items = f /\ r.at = st.at /\ r \in Stack(S)
  BY <1>1, <1>2, <1>5 DEF Stack
<1> HIDE DEF r
<1>8. StackOK(r, S) /\ HasEntries(r)
  BY <1>1, <1>5, <1>6, <1>7 DEF StackOK, HasEntries, Empty
<1>9. r.at = st.at /\ DOMAIN r.items = DOMAIN st.items
  BY <1>1, <1>5, <1>7
<1> QED
  BY <1>4, <1>5, <1>7, <1>8, <1>9 DEF r

\* The symbol keeps its paintings when its ports are adjusted or moved.
LEMMA AdjustProperties ==
  ASSUME NEW s \in Sym, NEW ports
  PROVE  AdjustPortNumbers(s, ports) \in Sym /\ AdjustPortNumbers(s, ports).art = s.art
BY DEF AdjustPortNumbers, Sym, Place

LEMMA CreateProperties ==
  ASSUME NEW ports
  PROVE  CreateSubcircuitSymbol(ports) \in Sym
BY ArtAssumption DEF CreateSubcircuitSymbol, Sym, Place

\* The current entry of a stack is an entry.
LEMMA CurrentProperties ==
  ASSUME NEW S, NEW st, StackOK(st, S), HasEntries(st), NEW i \in DOMAIN st.items
  PROVE  st.items[i].state \in S /\ st.items[i].saved \in BOOLEAN
<1>1. st.items \in Seq(Entry(S))
  BY DEF StackOK, Stack
<1>2. st.items[i] \in Entry(S)
  BY <1>1
<1> QED
  BY <1>2 DEF Entry

-----------------------------------------------------------------------------
\* A stack with one entry.
LEMMA FreshProperties ==
  ASSUME NEW S, NEW x \in S
  PROVE  /\ StackOK(Fresh(x), S) /\ HasEntries(Fresh(x))
         /\ DOMAIN Fresh(x).items = {1} /\ Fresh(x).at = 1
         /\ Current(Fresh(x)).state = x /\ Fresh(x).items[1].state = x
<1> DEFINE e == [op |-> "*", saved |-> TRUE, state |-> x]
<1>1. e \in Entry(S) /\ e.state = x
  BY DEF Entry
<1>2. Fresh(x) = [items |-> <<e>>, at |-> 1]
  BY DEF Fresh
<1> HIDE DEF e
<1>3. <<e>> \in Seq(Entry(S)) /\ DOMAIN <<e>> = {1} /\ <<e>>[1] = e /\ <<e>> # <<>>
  BY <1>1
<1> DEFINE st == Fresh(x)
<1>4. st.items = <<e>> /\ st.at = 1 /\ st \in Stack(S)
  BY <1>2, <1>3 DEF Stack
<1> HIDE DEF st
<1>5. /\ StackOK(st, S) /\ HasEntries(st)
      /\ DOMAIN st.items = {1} /\ st.at = 1
      /\ Current(st).state = x /\ st.items[1].state = x
  BY <1>1, <1>3, <1>4 DEF StackOK, HasEntries, Empty, Current
<1> QED
  BY <1>5 DEF st

\* The invariant holds of a document just opened.
LEMMA InitIInv == DepthsPositive /\ Init => IInv
<1> SUFFICES ASSUME DepthsPositive, Init PROVE IInv
  OBVIOUS
<1> USE DEF Init
<1>1. /\ sch \in Sch /\ sym \in Sym /\ settings \in Settings
      /\ file \in [sch : Sch, sym : Sym, settings : Settings]
      /\ sch = file.sch /\ sym = file.sym
  BY DEF Contents
<1>2. UndoStack = Fresh(sch) /\ UndoSymbol = Fresh(sym)
  OBVIOUS
<1>3. /\ StackOK(UndoStack, Sch) /\ HasEntries(UndoStack)
      /\ DOMAIN UndoStack.items = {1}
      /\ Current(UndoStack).state = sch /\ UndoStack.items[1].state = sch
  BY <1>1, <1>2, FreshProperties
<1>4. /\ StackOK(UndoSymbol, Sym) /\ HasEntries(UndoSymbol)
      /\ DOMAIN UndoSymbol.items = {1}
      /\ Current(UndoSymbol).state = sym /\ UndoSymbol.items[1].state = sym
  BY <1>1, <1>2, FreshProperties
<1>5. TypeOK
  BY <1>1, <1>3, <1>4 DEF TypeOK
<1> QED
  BY <1>1, <1>3, <1>4, <1>5 DEF IInv, LiveIsCurrent, MarkedIsFile, CleanIsSaved

-----------------------------------------------------------------------------
\* Pushing a snapshot of the schematic, or of the symbol, keeps the part of the
\* invariant that speaks of that stack.
LEMMA PushSchematic ==
  ASSUME IInv, NEW op \in {"*", "m"}, NEW new \in Sch
  PROVE  LET st == Push(UndoStack, op, new)
         IN  /\ StackOK(st, Sch) /\ HasEntries(st)
             /\ Current(st).state = new
             /\ \A i \in DOMAIN st.items :
                  st.items[i].saved => st.items[i].state = file.sch
<1>1. maxUndo \in Nat /\ maxUndo >= 1
  BY DepthPositive DEF IInv
<1>2. UndoStack \in Stack(Sch) /\ HasEntries(UndoStack)
  BY DEF IInv, TypeOK, StackOK
<1> QED
  BY <1>1, <1>2, PushProperties DEF IInv, MarkedIsFile

LEMMA PushSymbol ==
  ASSUME IInv, NEW new \in Sym
  PROVE  LET st == Push(UndoSymbol, "*", new)
         IN  /\ StackOK(st, Sym) /\ HasEntries(st)
             /\ Current(st).state = new
             /\ \A i \in DOMAIN st.items :
                  st.items[i].saved /\ ~strayed => st.items[i].state.art = file.sym.art
<1>1. maxUndo \in Nat /\ maxUndo >= 1
  BY DepthPositive DEF IInv
<1>2. UndoSymbol \in Stack(Sym) /\ HasEntries(UndoSymbol)
  BY DEF IInv, TypeOK, StackOK
<1> QED
  BY <1>1, <1>2, PushProperties DEF IInv, MarkedIsFile

\* Moving along a stack that has the entry moved to.
LEMMA SteppedProperties ==
  ASSUME NEW S, NEW st, StackOK(st, S), NEW step \in {-1, 1}, CanStep(st, step)
  PROVE  /\ StackOK(Stepped(st, step), S) /\ HasEntries(Stepped(st, step))
         /\ Stepped(st, step).items = st.items
         /\ Stepped(st, step).at \in DOMAIN st.items
<1>1. st.items \in Seq(Entry(S)) /\ st.at \in Nat /\ DOMAIN st.items = 1..Len(st.items)
  BY DEF StackOK, Stack
<1>2. st.at + step \in 1..Len(st.items) /\ st.at + step \in Nat /\ ~Empty(st)
  BY <1>1 DEF CanStep
<1> DEFINE r == Stepped(st, step)
<1>3. r.items = st.items /\ r.at = st.at + step /\ r \in Stack(S)
  BY <1>1, <1>2 DEF Stepped, StackOK, Stack
<1> HIDE DEF r
<1>4. StackOK(r, S) /\ HasEntries(r) /\ r.items = st.items /\ r.at \in DOMAIN st.items
  BY <1>1, <1>2, <1>3 DEF StackOK, HasEntries, Empty
<1> QED
  BY <1>4 DEF r

-----------------------------------------------------------------------------
\* The symbol is entered: it keeps its paintings, or gets its first ones.
LEMMA EnterSymbolProperties ==
  ASSUME IInv, EnterSymbol
  PROVE  /\ sym' \in Sym
         /\ StackOK(UndoSymbol', Sym) /\ HasEntries(UndoSymbol')
         /\ ~strayed => sym'.art = Current(UndoSymbol').state.art
         /\ \A i \in DOMAIN UndoSymbol'.items :
              UndoSymbol'.items[i].saved /\ ~strayed =>
                UndoSymbol'.items[i].state.art = file.sym.art
         /\ DocChanged' \in BOOLEAN
         /\ ~DocChanged' => ~DocChanged /\ sym'.art = sym.art
<1>1. CASE NeedsSymbol(sym)
  <2>1. /\ sym' = CreateSubcircuitSymbol(sch.ports)
        /\ UndoSymbol' = Push(UndoSymbol, "*", sym')
        /\ DocChanged' = TRUE
    BY <1>1 DEF EnterSymbol
  <2>2. sym' \in Sym
    BY <2>1, CreateProperties
  <2> QED
    BY <2>1, <2>2, PushSymbol
<1>2. CASE ~NeedsSymbol(sym)
  <2>1. sym' = AdjustPortNumbers(sym, sch.ports) /\ UNCHANGED <<UndoSymbol, DocChanged>>
    BY <1>2 DEF EnterSymbol
  <2>2. sym' \in Sym /\ sym'.art = sym.art
    BY <2>1, AdjustProperties DEF IInv, TypeOK
  <2> QED
    BY <2>1, <2>2 DEF IInv, TypeOK, LiveIsCurrent, MarkedIsFile, HasEntries
<1> QED
  BY <1>1, <1>2

\* Every step keeps the invariant.
LEMMA NextIInv == IInv /\ [Next]_vars => IInv'
<1> SUFFICES ASSUME IInv, [Next]_vars PROVE IInv'
  OBVIOUS
<1>1. CASE EditSchematic
  <2>1. PICK new \in Sch, op \in {"*", "m"} :
          /\ DocChanged' = TRUE /\ sch' = new
          /\ UndoStack' = Push(UndoStack, op, new) /\ UNCHANGED running
          /\ UNCHANGED <<symbolMode, onSymbol, strayed, sym, settings, UndoSymbol, file, maxUndo>>
    BY <1>1 DEF EditSchematic, modes, IInv, HasEntries
  <2>2. /\ StackOK(UndoStack', Sch) /\ HasEntries(UndoStack')
        /\ Current(UndoStack').state = sch'
        /\ \A i \in DOMAIN UndoStack'.items :
             UndoStack'.items[i].saved => UndoStack'.items[i].state = file'.sch
    BY <2>1, PushSchematic
  <2> QED
    BY <2>1, <2>2 DEF IInv, TypeOK, LiveIsCurrent, MarkedIsFile, CleanIsSaved
<1>2. CASE EditSymbol
  <2>1. PICK new \in Sym :
          /\ DocChanged' = TRUE /\ sym' = new
          /\ UndoSymbol' = Push(UndoSymbol, "*", new)
          /\ UNCHANGED <<symbolMode, onSymbol, strayed, sch, settings, UndoStack, file, maxUndo,
                         running>>
    BY <1>2 DEF EditSymbol, Redrawn, modes
  <2>2. /\ StackOK(UndoSymbol', Sym) /\ HasEntries(UndoSymbol')
        /\ Current(UndoSymbol').state = sym'
        /\ \A i \in DOMAIN UndoSymbol'.items :
             UndoSymbol'.items[i].saved =>
               strayed \/ UndoSymbol'.items[i].state.art = file'.sym.art
    BY <2>1, PushSymbol
  <2> QED
    BY <2>1, <2>2 DEF IInv, TypeOK, LiveIsCurrent, MarkedIsFile, CleanIsSaved
<1>3. CASE ChangeSettings
  BY <1>3 DEF ChangeSettings, modes, IInv, TypeOK, LiveIsCurrent, MarkedIsFile, CleanIsSaved
<1>4. CASE SlotSymbolEdit
  <2>1. CASE symbolMode'
    <3>1. EnterSymbol /\ symbolMode' \in BOOLEAN /\ onSymbol' = symbolMode'
          /\ UNCHANGED <<strayed, sch, settings, UndoStack, file, maxUndo, running>>
      BY <1>4, <2>1 DEF SlotSymbolEdit
    <3> QED
      BY <3>1, EnterSymbolProperties
         DEF IInv, TypeOK, LiveIsCurrent, MarkedIsFile, CleanIsSaved
  <2>2. CASE ~symbolMode'
    <3>1. symbolMode' \in BOOLEAN /\ onSymbol' = symbolMode'
          /\ UNCHANGED <<strayed, sch, sym, settings, UndoStack, UndoSymbol, DocChanged, file,
                         maxUndo, running>>
      BY <1>4, <2>2 DEF SlotSymbolEdit
    <3> QED
      BY <2>2, <3>1 DEF IInv, TypeOK, LiveIsCurrent, MarkedIsFile, CleanIsSaved
  <2> QED
    BY <2>1, <2>2
<1>5. CASE BecomeCurrent
  <2>1. onSymbol' = symbolMode
        /\ UNCHANGED <<symbolMode, strayed, sch, settings, UndoStack, file, maxUndo, running>>
    BY <1>5 DEF BecomeCurrent
  <2>2. CASE symbolMode
    <3>1. EnterSymbol
      BY <1>5, <2>2 DEF BecomeCurrent
    <3> QED
      BY <2>1, <2>2, <3>1, EnterSymbolProperties
         DEF IInv, TypeOK, LiveIsCurrent, MarkedIsFile, CleanIsSaved
  <2>3. CASE ~symbolMode
    <3>1. UNCHANGED <<sym, UndoSymbol, DocChanged>>
      BY <1>5, <2>3 DEF BecomeCurrent
    <3> QED
      BY <2>1, <2>3, <3>1 DEF IInv, TypeOK, LiveIsCurrent, MarkedIsFile, CleanIsSaved
  <2> QED
    BY <2>2, <2>3
<1>6. CASE ChangeMaxUndo
  BY <1>6 DEF ChangeMaxUndo, modes, IInv, TypeOK, LiveIsCurrent, MarkedIsFile, CleanIsSaved
<1>7. ASSUME NEW step \in {-1, 1}, TravelSymbol(step) PROVE IInv'
  <2>1. /\ CanStep(UndoSymbol, step)
        /\ UndoSymbol' = Stepped(UndoSymbol, step)
        /\ sym' = AdjustPortNumbers(Current(UndoSymbol').state, sch.ports)
        /\ DocChanged' = ~(Current(UndoSymbol').saved /\ Current(UndoStack).saved)
        /\ UNCHANGED <<symbolMode, onSymbol, strayed, sch, settings, UndoStack, file, maxUndo,
                       running>>
    BY <1>7 DEF TravelSymbol, modes, IInv, HasEntries
  <2>2. /\ StackOK(UndoSymbol', Sym) /\ HasEntries(UndoSymbol')
        /\ UndoSymbol'.items = UndoSymbol.items
        /\ UndoSymbol'.at \in DOMAIN UndoSymbol.items
    BY <2>1, SteppedProperties DEF IInv, TypeOK
  <2>3. Current(UndoSymbol').state \in Sym
    BY <2>2, CurrentProperties DEF Current, IInv, TypeOK
  <2>4. sym' \in Sym /\ sym'.art = Current(UndoSymbol').state.art
    BY <2>1, <2>3, AdjustProperties
  <2>5. ~DocChanged' => strayed \/ sym'.art = file.sym.art
    BY <2>1, <2>2, <2>4 DEF Current, IInv, MarkedIsFile
  <2>6. ~DocChanged' => sch = file.sch
    BY <2>1 DEF Current, IInv, MarkedIsFile, LiveIsCurrent, HasEntries
  <2>7. DocChanged' \in BOOLEAN
    BY <2>1
  <2>8. TypeOK' /\ running'
    BY <2>1, <2>2, <2>4, <2>7 DEF IInv, TypeOK
  <2>9. LiveIsCurrent'
    BY <2>1, <2>2, <2>4 DEF IInv, LiveIsCurrent
  <2>10. MarkedIsFile'
    BY <2>1, <2>2 DEF IInv, MarkedIsFile
  <2>11. CleanIsSaved'
    BY <2>1, <2>5, <2>6 DEF CleanIsSaved
  <2> QED
    BY <2>1, <2>2, <2>8, <2>9, <2>10, <2>11 DEF IInv
<1>8. ASSUME NEW step \in {-1, 1}, TravelSchematic(step) PROVE IInv'
  <2>1. /\ CanStep(UndoStack, step)
        /\ UndoStack' = Stepped(UndoStack, step)
        /\ sch' = Current(UndoStack').state
        /\ DocChanged' = ~(Current(UndoStack').saved /\ Current(UndoSymbol).saved)
        /\ UNCHANGED <<symbolMode, onSymbol, strayed, sym, settings, UndoSymbol, file, maxUndo,
                       running>>
    BY <1>8 DEF TravelSchematic, modes, IInv, HasEntries
  <2>2. /\ StackOK(UndoStack', Sch) /\ HasEntries(UndoStack')
        /\ UndoStack'.items = UndoStack.items
        /\ UndoStack'.at \in DOMAIN UndoStack.items
    BY <2>1, SteppedProperties DEF IInv, TypeOK
  <2>3. sch' \in Sch
    BY <2>1, <2>2, CurrentProperties DEF Current, IInv, TypeOK
  <2>4. ~DocChanged' => sch' = file.sch
    BY <2>1, <2>2 DEF Current, IInv, MarkedIsFile
  <2>5. ~DocChanged' => strayed \/ sym.art = file.sym.art
    BY <2>1 DEF Current, IInv, MarkedIsFile, LiveIsCurrent, HasEntries
  <2>6. DocChanged' \in BOOLEAN
    BY <2>1
  <2>7. TypeOK' /\ running'
    BY <2>1, <2>2, <2>3, <2>6 DEF IInv, TypeOK
  <2>8. LiveIsCurrent' /\ MarkedIsFile'
    BY <2>1, <2>2 DEF IInv, LiveIsCurrent, MarkedIsFile
  <2>9. CleanIsSaved'
    BY <2>1, <2>4, <2>5 DEF CleanIsSaved
  <2> QED
    BY <2>1, <2>2, <2>7, <2>8, <2>9 DEF IInv
<1>9. CASE SaveSucceeds
  <2>1. /\ sym' = AdjustPortNumbers(sym, sch.ports)
        /\ file' = [sch |-> sch, sym |-> sym', settings |-> settings]
        /\ DocChanged' = FALSE
        /\ UndoStack' = MarkSaved(UndoStack) /\ UndoSymbol' = MarkSaved(UndoSymbol)
        /\ onSymbol' = symbolMode
        /\ UNCHANGED <<symbolMode, strayed, sch, settings, maxUndo, running>>
    BY <1>9 DEF SaveSucceeds, PortsAdjusted, IInv, HasEntries
  <2>2. sym' \in Sym /\ sym'.art = sym.art
    BY <2>1, AdjustProperties DEF IInv, TypeOK
  <2>3. UndoStack \in Stack(Sch) /\ UndoSymbol \in Stack(Sym)
        /\ HasEntries(UndoStack) /\ HasEntries(UndoSymbol)
    BY DEF IInv, TypeOK, StackOK
  <2>4. /\ StackOK(UndoStack', Sch) /\ HasEntries(UndoStack')
        /\ UndoStack'.at = UndoStack.at
        /\ \A i \in DOMAIN UndoStack'.items :
             /\ UndoStack'.items[i].state = UndoStack.items[i].state
             /\ UndoStack'.items[i].saved => i = UndoStack.at
    BY <2>1, <2>3, MarkSavedProperties
  <2>5. /\ StackOK(UndoSymbol', Sym) /\ HasEntries(UndoSymbol')
        /\ UndoSymbol'.at = UndoSymbol.at
        /\ \A i \in DOMAIN UndoSymbol'.items :
             /\ UndoSymbol'.items[i].state = UndoSymbol.items[i].state
             /\ UndoSymbol'.items[i].saved => i = UndoSymbol.at
    BY <2>1, <2>3, MarkSavedProperties
  <2>6. sch = Current(UndoStack).state /\ (strayed \/ sym.art = Current(UndoSymbol).state.art)
    BY DEF IInv, LiveIsCurrent, HasEntries
  <2>7. TypeOK' /\ running'
    BY <2>1, <2>2, <2>4, <2>5 DEF IInv, TypeOK
  <2>8. LiveIsCurrent'
    BY <2>1, <2>2, <2>4, <2>5, <2>6 DEF LiveIsCurrent, Current, HasEntries
  <2>9. MarkedIsFile'
    <3>1. ASSUME NEW i \in DOMAIN UndoStack'.items, UndoStack'.items[i].saved
          PROVE  UndoStack'.items[i].state = sch
      BY <2>4, <2>6, <3>1 DEF Current
    <3>2. ASSUME NEW i \in DOMAIN UndoSymbol'.items, UndoSymbol'.items[i].saved, ~strayed
          PROVE  UndoSymbol'.items[i].state.art = sym.art
      BY <2>5, <2>6, <3>2 DEF Current
    <3>3. file'.sch = sch /\ file'.sym.art = sym.art
      BY <2>1, <2>2
    <3> QED
      BY <2>1, <3>1, <3>2, <3>3 DEF MarkedIsFile
  <2>10. CleanIsSaved'
    BY <2>1 DEF CleanIsSaved
  <2> QED
    BY <2>4, <2>5, <2>7, <2>8, <2>9, <2>10 DEF IInv
<1>10. CASE SaveFails
  <2>1. /\ sym' = AdjustPortNumbers(sym, sch.ports)
        /\ onSymbol' = symbolMode
        /\ UNCHANGED <<symbolMode, strayed, sch, settings, UndoStack, UndoSymbol, DocChanged,
                       file, maxUndo, running>>
    BY <1>10 DEF SaveFails, PortsAdjusted
  <2>2. sym' \in Sym /\ sym'.art = sym.art
    BY <2>1, AdjustProperties DEF IInv, TypeOK
  <2> QED
    BY <2>1, <2>2 DEF IInv, TypeOK, LiveIsCurrent, MarkedIsFile, CleanIsSaved
<1>11. CASE Reload
  <2>1. maxUndo # 0
    BY DEF IInv, DepthsPositive, TypeOK
  <2>2. /\ file' \in Contents
        /\ sch' = file'.sch /\ sym' = file'.sym /\ settings' = file'.settings
        /\ DocChanged' = FALSE
        /\ UndoStack' = Fresh(sch') /\ UndoSymbol' = Fresh(sym')
        /\ symbolMode' = FALSE /\ strayed' = FALSE
        /\ UNCHANGED <<running, onSymbol, maxUndo>>
    BY <1>11, <2>1 DEF Reload
  <2>3. /\ sch' \in Sch /\ sym' \in Sym /\ settings' \in Settings
        /\ file' \in [sch : Sch, sym : Sym, settings : Settings]
    BY <2>2 DEF Contents
  <2>4. /\ StackOK(UndoStack', Sch) /\ HasEntries(UndoStack')
        /\ DOMAIN UndoStack'.items = {1}
        /\ Current(UndoStack').state = sch' /\ UndoStack'.items[1].state = sch'
    BY <2>2, <2>3, FreshProperties
  <2>5. /\ StackOK(UndoSymbol', Sym) /\ HasEntries(UndoSymbol')
        /\ DOMAIN UndoSymbol'.items = {1}
        /\ Current(UndoSymbol').state = sym' /\ UndoSymbol'.items[1].state = sym'
    BY <2>2, <2>3, FreshProperties
  <2>6. TypeOK'
    BY <2>2, <2>3, <2>4, <2>5 DEF IInv, TypeOK
  <2> QED
    BY <2>2, <2>4, <2>5, <2>6 DEF IInv, LiveIsCurrent, MarkedIsFile, CleanIsSaved
<1>12. CASE UNCHANGED vars
  BY <1>12 DEF vars, modes, IInv, TypeOK, LiveIsCurrent, MarkedIsFile, CleanIsSaved
<1>13. CASE EditAstray
  <2>1. PICK new \in Sym :
          /\ DocChanged' = TRUE /\ sym' = new /\ strayed' = TRUE
          /\ UndoStack' = Push(UndoStack, "*", sch)
          /\ UNCHANGED <<symbolMode, onSymbol, sch, settings, UndoSymbol, file, maxUndo, running>>
    BY <1>13 DEF EditAstray, Redrawn
  <2>2. /\ StackOK(UndoStack', Sch) /\ HasEntries(UndoStack')
        /\ Current(UndoStack').state = sch'
        /\ \A i \in DOMAIN UndoStack'.items :
             UndoStack'.items[i].saved => UndoStack'.items[i].state = file'.sch
    BY <2>1, PushSchematic DEF IInv, TypeOK
  <2> QED
    BY <2>1, <2>2 DEF IInv, TypeOK, LiveIsCurrent, MarkedIsFile, CleanIsSaved
<1> QED
  BY <1>1, <1>2, <1>3, <1>4, <1>5, <1>6, <1>7, <1>8, <1>9, <1>10, <1>11,
     <1>12, <1>13 DEF Next, Undo, Redo, Travel

-----------------------------------------------------------------------------
\* The inductive invariant holds in every reachable state.
THEOREM Inductive ==
  ASSUME DepthsPositive
  PROVE  Spec => []IInv
BY InitIInv, NextIInv, PTL DEF Spec

\* Every variable keeps its type, and the current entry of a stack is one of
\* its items, through every mixture of edits, trims, undo, redo and saves.
THEOREM TypeCorrect ==
  ASSUME DepthsPositive
  PROVE  Spec => []TypeOK
<1>1. IInv => TypeOK
  BY DEF IInv
<1> QED
  BY <1>1, Inductive, PTL

\* A document shown as saved has the schematic of its file, in whichever mode it was
\* reloaded, and its symbol paintings unless an edit of them has gone to the history
\* of the schematic (Schematic::setChanged, save, undo, redo, load).
THEOREM SavedFlagIsTrue ==
  ASSUME DepthsPositive
  PROVE  Spec => []CleanIsSaved
<1>1. IInv => CleanIsSaved
  BY DEF IInv
<1> QED
  BY <1>1, Inductive, PTL

\* A snapshot tagged 'i' is what the file holds (Schematic::save, load); one of the
\* symbol until an edit of the symbol has gone to the history of the schematic.
THEOREM TagsAreTrue ==
  ASSUME DepthsPositive
  PROVE  Spec => []MarkedIsFile
<1>1. IInv => MarkedIsFile
  BY DEF IInv
<1> QED
  BY <1>1, Inductive, PTL

\* The schematic is the current snapshot of its stack (Schematic::rebuild), and the
\* symbol until an edit of it has gone to the history of the schematic.
THEOREM ScreenIsSnapshot ==
  ASSUME DepthsPositive
  PROVE  Spec => []LiveIsCurrent
<1>1. IInv => LiveIsCurrent
  BY DEF IInv
<1> QED
  BY <1>1, Inductive, PTL

\* No null entry is dereferenced when the undo depth is never zero.
THEOREM NoCrash ==
  ASSUME DepthsPositive
  PROVE  Spec => []NoNullEntry
<1>1. IInv => NoNullEntry
  BY DEF IInv, NoNullEntry
<1> QED
  BY <1>1, Inductive, PTL

-----------------------------------------------------------------------------
\* Both undo stacks of a document implement Timeline, under the same assumption.
\* The past are the items before the current one, the future those behind it, and
\* the present is what is on the screen.

\* The newest of the values s, those before it, and the newest d - 1, as in Timeline.
Latest(s) == s[Len(s)]
Before(s) == SubSeq(s, 1, Len(s) - 1)
Behind(x, s) == <<x>> \o s
Newest(s, d) == SubSeq(s, IF Len(s) < d THEN 1 ELSE Len(s) - d + 2, Len(s))

-----------------------------------------------------------------------------
\* The parts of a sequence before and behind a place.

LEMMA AppendConcat ==
  ASSUME NEW S, NEW s \in Seq(S), NEW x \in S
  PROVE  Append(s, x) = s \o <<x>>
<1>1. <<x>> \in Seq(S) /\ Len(<<x>>) = 1 /\ <<x>>[1] = x
  OBVIOUS
<1>2. /\ s \o <<x>> \in Seq(S) /\ Len(s \o <<x>>) = Len(s) + 1
      /\ \A i \in 1..(Len(s) + 1) : (s \o <<x>>)[i] = IF i <= Len(s) THEN s[i] ELSE <<x>>[i - Len(s)]
  BY <1>1, ConcatProperties
<1>3. \A i \in 1..(Len(s) + 1) : Append(s, x)[i] = (s \o <<x>>)[i]
  BY <1>1, <1>2
<1>4. Append(s, x) \in Seq(S) /\ Len(Append(s, x)) = Len(s) + 1
  OBVIOUS
<1> QED
  BY <1>2, <1>3, <1>4, SeqEqual

\* One place back: the last of the past becomes the present, and the present the
\* first of the future.
LEMMA OneBack ==
  ASSUME NEW S, NEW V \in Seq(S), NEW n, n = Len(V), NEW at \in 2..n
  PROVE  LET past == SubSeq(V, 1, at - 1) IN
         /\ past # <<>> /\ past[Len(past)] = V[at - 1]
         /\ SubSeq(past, 1, Len(past) - 1) = SubSeq(V, 1, at - 2)
         /\ SubSeq(V, at, n) = <<V[at]>> \o SubSeq(V, at + 1, n)
<1> DEFINE past == SubSeq(V, 1, at - 1)
<1>1. n \in Nat /\ at \in Nat /\ \A i \in 1..n : V[i] \in S
  BY LenProperties
<1>2. /\ past \in Seq(S) /\ Len(past) = at - 1
      /\ \A i \in 1..(at - 1) : past[i] = V[i]
  BY <1>1, SubSeqProperties
<1> HIDE DEF past
<1>3. past # <<>> /\ past[Len(past)] = V[at - 1]
  BY <1>1, <1>2, EmptySeq
<1>4. /\ SubSeq(past, 1, Len(past) - 1) \in Seq(S) /\ Len(SubSeq(past, 1, Len(past) - 1)) = at - 2
      /\ \A i \in 1..(at - 2) : SubSeq(past, 1, Len(past) - 1)[i] = past[i]
  <2>1. \A i \in 1..(Len(past) - 1) : past[i] \in S
    BY <1>1, <1>2
  <2>2. Len(past) - 1 \in Int /\ 1 \in Int
    BY <1>1, <1>2
  <2> QED
    BY <1>1, <1>2, <2>1, <2>2, SubSeqProperties
<1>5. /\ SubSeq(V, 1, at - 2) \in Seq(S) /\ Len(SubSeq(V, 1, at - 2)) = at - 2
      /\ \A i \in 1..(at - 2) : SubSeq(V, 1, at - 2)[i] = V[i]
  BY <1>1, SubSeqProperties
<1>6. ASSUME NEW i \in 1..(at - 2)
      PROVE  SubSeq(past, 1, Len(past) - 1)[i] = SubSeq(V, 1, at - 2)[i]
  <2>1. i \in 1..(at - 1)
    BY <1>1
  <2>2. past[i] = V[i]
    BY <1>2, <2>1
  <2> QED
    BY <1>4, <1>5, <2>2
<1>7. SubSeq(past, 1, Len(past) - 1) = SubSeq(V, 1, at - 2)
  BY <1>4, <1>5, <1>6, SeqEqual
<1>8. SubSeq(V, at, n) = <<V[at]>> \o SubSeq(V, at + 1, n)
  BY <1>1, SubSeqRecursiveFirst
<1> QED
  BY <1>3, <1>7, <1>8 DEF past

\* One place on, the other way round.
LEMMA OneOn ==
  ASSUME NEW S, NEW V \in Seq(S), NEW n, n = Len(V), NEW at \in 1..(n - 1)
  PROVE  LET future == SubSeq(V, at + 1, n) IN
         /\ future # <<>> /\ Head(future) = V[at + 1]
         /\ Tail(future) = SubSeq(V, at + 2, n)
         /\ SubSeq(V, 1, at) = Append(SubSeq(V, 1, at - 1), V[at])
<1>1. n \in Nat /\ at \in Nat /\ \A i \in 1..n : V[i] \in S
  BY LenProperties
<1>2. at + 1 \in 1..n /\ n \in (at + 1)..n /\ at \in 1..n /\ at \in 1..at
  BY <1>1
<1>3. Head(SubSeq(V, at + 1, n)) = V[at + 1] /\ Tail(SubSeq(V, at + 1, n)) = SubSeq(V, at + 2, n)
  <2>1. Tail(SubSeq(V, at + 1, n)) = SubSeq(V, (at + 1) + 1, n)
    BY <1>2, HeadTailOfSubSeq
  <2>2. (at + 1) + 1 = at + 2
    BY <1>1
  <2> QED
    BY <1>2, <2>1, <2>2, HeadTailOfSubSeq
<1>4. SubSeq(V, at + 1, n) # <<>>
  <2>1. /\ at + 1 \in Int /\ n \in Int /\ at + 1 <= n
        /\ \A i \in (at + 1)..n : V[i] \in S
    BY <1>1
  <2>2. SubSeq(V, at + 1, n) \in Seq(S) /\ Len(SubSeq(V, at + 1, n)) = n - (at + 1) + 1
    BY <2>1, SubSeqProperties
  <2>3. n - (at + 1) + 1 # 0
    BY <1>1
  <2> QED
    BY <2>2, <2>3, EmptySeq
<1>5. SubSeq(V, 1, at) = SubSeq(V, 1, at - 1) \o <<V[at]>>
  <2>1. 1 \in 1..n /\ at \in 1..n
    BY <1>1
  <2> QED
    BY <2>1, SubSeqRecursiveSecond
<1>6. SubSeq(V, 1, at - 1) \in Seq(S) /\ V[at] \in S
  BY <1>1, <1>2, SubSeqProperties
<1>7. Append(SubSeq(V, 1, at - 1), V[at]) = SubSeq(V, 1, at - 1) \o <<V[at]>>
  BY <1>6, AppendConcat
<1> QED
  BY <1>3, <1>4, <1>5, <1>7

\* The first of k values, with a new one behind them, that a depth of d keeps.
First(k, d) == IF k + 1 > d THEN k - d + 2 ELSE 1

\* The first k values of V with a new one behind them, cut to the newest d, are W.
CutOf(V, W, k, d) ==
  /\ Len(W) = k - First(k, d) + 2
  /\ \A i \in 1..(k - First(k, d) + 1) : W[i] = V[First(k, d) + i - 1]

\* Then the past of W are the newest d - 1 of the first k.
LEMMA CutToDepth ==
  ASSUME NEW S, NEW V \in Seq(S), NEW W \in Seq(S),
         NEW k \in 0..Len(V), NEW d \in Nat \ {0}, CutOf(V, W, k, d)
  PROVE  SubSeq(W, 1, Len(W) - 1) = Newest(SubSeq(V, 1, k), d)
<1> DEFINE m == First(k, d)
<1>1. /\ Len(V) \in Nat /\ k \in Nat /\ m \in Nat /\ m >= 1 /\ m <= k + 1
      /\ \A i \in 1..Len(V) : V[i] \in S
  BY LenProperties DEF First
<1> DEFINE s == SubSeq(V, 1, k)
<1>2. s \in Seq(S) /\ Len(s) = k /\ \A i \in 1..k : s[i] = V[i]
  BY <1>1, SubSeqProperties
<1> HIDE DEF s
<1>3. Newest(s, d) = SubSeq(s, m, k)
  <2>1. m = IF k < d THEN 1 ELSE k - d + 2
    BY <1>1 DEF First
  <2> QED
    BY <1>2, <2>1 DEF Newest
<1>4. /\ SubSeq(s, m, k) \in Seq(S) /\ Len(SubSeq(s, m, k)) = k - m + 1
      /\ \A i \in 1..(k - m + 1) : SubSeq(s, m, k)[i] = s[m + i - 1]
  <2>1. \A i \in m..k : s[i] \in S
    BY <1>1, <1>2
  <2>2. m \in Int /\ k \in Int /\ k - m + 1 = IF m <= k THEN k - m + 1 ELSE 0
    BY <1>1
  <2> HIDE DEF m
  <2> QED
    BY <2>1, <2>2, SubSeqProperties
<1> DEFINE t == SubSeq(W, 1, Len(W) - 1)
<1>5. /\ t \in Seq(S) /\ Len(t) = k - m + 1
      /\ \A i \in 1..(k - m + 1) : t[i] = W[i]
  <2>1. \A i \in 1..(Len(W) - 1) : W[i] \in S
    BY LenProperties
  <2>2. Len(W) - 1 = k - m + 1 /\ Len(W) - 1 \in Int
    BY <1>1 DEF CutOf
  <2> QED
    BY <1>1, <2>1, <2>2, SubSeqProperties
<1>6. \A i \in 1..(k - m + 1) : W[i] = V[m + i - 1] /\ m + i - 1 \in 1..k
  <2>1. \A i \in 1..(k - m + 1) : W[i] = V[m + i - 1]
    BY DEF CutOf
  <2> HIDE DEF m
  <2>2. \A i \in 1..(k - m + 1) : m + i - 1 \in 1..k
    BY <1>1
  <2> QED
    BY <2>1, <2>2
<1> HIDE DEF t, m
<1>7. ASSUME NEW i \in 1..(k - m + 1) PROVE t[i] = SubSeq(s, m, k)[i]
  <2>1. t[i] = V[m + i - 1] /\ SubSeq(s, m, k)[i] = s[m + i - 1]
    BY <1>4, <1>5, <1>6
  <2>2. m + i - 1 \in 1..k
    BY <1>6
  <2> QED
    BY <1>2, <2>1, <2>2
<1>8. t = SubSeq(s, m, k)
  BY <1>4, <1>5, <1>7, SeqEqual
<1> QED
  BY <1>3, <1>8 DEF s, t

-----------------------------------------------------------------------------
\* The timelines of a document, read off its stacks.

SchV == [i \in 1..Len(UndoStack.items) |-> UndoStack.items[i].state]
SymV == [i \in 1..Len(UndoSymbol.items) |-> UndoSymbol.items[i].state.art]

\* The values V with the current one, now, at the place at: past and future are
\* the parts of V on its two sides.
ViewOK(S, V, at, now, past, future) ==
  /\ V \in Seq(S)
  /\ at \in 1..Len(V)
  /\ now = V[at]
  /\ past = SubSeq(V, 1, at - 1)
  /\ future = SubSeq(V, at + 1, Len(V))

SchView ==
  /\ Len(SchV) = Len(UndoStack.items)
  /\ ViewOK(Sch, SchV, UndoStack.at, sch, States(UndoStack, 1, UndoStack.at - 1),
            States(UndoStack, UndoStack.at + 1, Len(UndoStack.items)))
SymView ==
  /\ Len(SymV) = Len(UndoSymbol.items)
  /\ ViewOK(Art \union {NoArt}, SymV, UndoSymbol.at, sym.art,
            Arts(UndoSymbol, 1, UndoSymbol.at - 1),
            Arts(UndoSymbol, UndoSymbol.at + 1, Len(UndoSymbol.items)))

LEMMA PartIsSubSeq ==
  ASSUME NEW S, NEW V \in Seq(S), NEW a \in Nat \ {0}, NEW b \in 0..Len(V)
  PROVE  [i \in 1..(b - a + 1) |-> V[a + i - 1]] = SubSeq(V, a, b)
<1> DEFINE f == [i \in 1..(b - a + 1) |-> V[a + i - 1]]
<1>1. /\ Len(V) \in Nat /\ b \in Nat /\ \A i \in 1..Len(V) : V[i] \in S
  BY LenProperties
<1>2. CASE b < a
  <2>1. SubSeq(V, a, b) = <<>>
    BY <1>1, <1>2, SubSeqEmpty
  <2>2. 1..(b - a + 1) = {}
    BY <1>1, <1>2
  <2>3. f = <<>>
    BY <2>2
  <2> QED
    BY <2>1, <2>3
<1>3. CASE a <= b
  <2>1. b - a + 1 \in Nat /\ \A i \in 1..(b - a + 1) : V[a + i - 1] \in S
    BY <1>1, <1>3
  <2>2. f \in Seq(S) /\ Len(f) = b - a + 1 /\ \A i \in 1..(b - a + 1) : f[i] = V[a + i - 1]
    BY <2>1
  <2>3. /\ SubSeq(V, a, b) \in Seq(S) /\ Len(SubSeq(V, a, b)) = b - a + 1
        /\ \A i \in 1..(b - a + 1) : SubSeq(V, a, b)[i] = V[a + i - 1]
    BY <1>1, <1>3, SubSeqProperties
  <2> HIDE DEF f
  <2> QED
    BY <2>2, <2>3, SeqEqual DEF f
<1> QED
  BY <1>1, <1>2, <1>3

LEMMA SchViewHolds == IInv => SchView
<1> SUFFICES ASSUME IInv PROVE SchView
  OBVIOUS
<1> DEFINE n == Len(UndoStack.items)
           at == UndoStack.at
<1>1. /\ UndoStack.items \in Seq(Entry(Sch)) /\ n \in Nat /\ at \in Nat
      /\ DOMAIN UndoStack.items = 1..n /\ at \in 1..n /\ ~Empty(UndoStack)
  BY DEF IInv, TypeOK, StackOK, Stack, HasEntries
<1>2. \A i \in 1..n : UndoStack.items[i].state \in Sch
  BY <1>1, CurrentProperties DEF IInv, TypeOK
<1>3. /\ SchV \in Seq(Sch) /\ Len(SchV) = n
      /\ \A i \in 1..n : SchV[i] = UndoStack.items[i].state
  BY <1>1, <1>2 DEF SchV
<1>4. sch = SchV[at]
  BY <1>1, <1>3 DEF IInv, LiveIsCurrent, Current
<1>5. ASSUME NEW a \in Nat \ {0}, NEW b \in 0..n
      PROVE  States(UndoStack, a, b) = SubSeq(SchV, a, b)
  <2>1. \A i \in 1..(b - a + 1) : UndoStack.items[a + i - 1].state = SchV[a + i - 1]
    BY <1>1, <1>3
  <2>2. States(UndoStack, a, b) = [i \in 1..(b - a + 1) |-> SchV[a + i - 1]]
    BY <2>1 DEF States
  <2> QED
    BY <1>3, <2>2, PartIsSubSeq
<1>6. States(UndoStack, 1, at - 1) = SubSeq(SchV, 1, at - 1)
  <2>1. 1 \in Nat \ {0} /\ at - 1 \in 0..n
    BY <1>1
  <2> QED
    BY <2>1, <1>5
<1>7. States(UndoStack, at + 1, n) = SubSeq(SchV, at + 1, n)
  <2>1. at + 1 \in Nat \ {0} /\ n \in 0..n
    BY <1>1
  <2> QED
    BY <2>1, <1>5
<1> QED
  BY <1>1, <1>3, <1>4, <1>6, <1>7 DEF SchView, ViewOK

LEMMA SymViewHolds == IInv /\ ~strayed => SymView
<1> SUFFICES ASSUME IInv, ~strayed PROVE SymView
  OBVIOUS
<1> DEFINE n == Len(UndoSymbol.items)
           at == UndoSymbol.at
           S == Art \union {NoArt}
<1>1. /\ UndoSymbol.items \in Seq(Entry(Sym)) /\ n \in Nat /\ at \in Nat
      /\ DOMAIN UndoSymbol.items = 1..n /\ at \in 1..n /\ ~Empty(UndoSymbol)
  BY DEF IInv, TypeOK, StackOK, Stack, HasEntries
<1>2. \A i \in 1..n : UndoSymbol.items[i].state.art \in S
  <2>1. \A i \in 1..n : UndoSymbol.items[i].state \in Sym
    BY <1>1, CurrentProperties DEF IInv, TypeOK
  <2> QED
    BY <2>1 DEF Sym
<1>3. /\ SymV \in Seq(S) /\ Len(SymV) = n
      /\ \A i \in 1..n : SymV[i] = UndoSymbol.items[i].state.art
  BY <1>1, <1>2 DEF SymV
<1>4. sym.art = SymV[at]
  BY <1>1, <1>3 DEF IInv, LiveIsCurrent, Current
<1>5. ASSUME NEW a \in Nat \ {0}, NEW b \in 0..n
      PROVE  Arts(UndoSymbol, a, b) = SubSeq(SymV, a, b)
  <2>1. \A i \in 1..(b - a + 1) : UndoSymbol.items[a + i - 1].state.art = SymV[a + i - 1]
    BY <1>1, <1>3
  <2>2. Arts(UndoSymbol, a, b) = [i \in 1..(b - a + 1) |-> SymV[a + i - 1]]
    BY <2>1 DEF Arts
  <2> QED
    BY <1>3, <2>2, PartIsSubSeq
<1>6. Arts(UndoSymbol, 1, at - 1) = SubSeq(SymV, 1, at - 1)
  <2>1. 1 \in Nat \ {0} /\ at - 1 \in 0..n
    BY <1>1
  <2> QED
    BY <2>1, <1>5
<1>7. Arts(UndoSymbol, at + 1, n) = SubSeq(SymV, at + 1, n)
  <2>1. at + 1 \in Nat \ {0} /\ n \in 0..n
    BY <1>1
  <2> QED
    BY <2>1, <1>5
<1> QED
  BY <1>1, <1>3, <1>4, <1>6, <1>7 DEF SymView, ViewOK

-----------------------------------------------------------------------------
\* What undo, redo and a push make of a view.

LEMMA ViewBack ==
  ASSUME NEW S, NEW V, NEW at, NEW now, NEW past, NEW future,
         NEW at2, NEW now2, NEW past2, NEW future2,
         ViewOK(S, V, at, now, past, future),
         ViewOK(S, V, at2, now2, past2, future2), at = at2 + 1
  PROVE  /\ past # <<>> /\ now2 \in S
         /\ now2 = Latest(past) /\ past2 = Before(past)
         /\ future2 = Behind(now, future)
<1>1. /\ V \in Seq(S) /\ Len(V) \in Nat /\ at \in 2..Len(V)
      /\ \A i \in 1..Len(V) : V[i] \in S
  BY LenProperties DEF ViewOK
<1>2. (at - 1) - 1 = at - 2 /\ (at - 1) + 1 = at
  BY <1>1
<1>3. /\ now = V[at] /\ past = SubSeq(V, 1, at - 1) /\ future = SubSeq(V, at + 1, Len(V))
      /\ now2 = V[at - 1] /\ past2 = SubSeq(V, 1, at - 2) /\ future2 = SubSeq(V, at, Len(V))
  BY <1>2 DEF ViewOK
<1>4. now2 \in S
  BY <1>1, <1>3
<1>5. /\ past # <<>> /\ now2 = past[Len(past)]
      /\ past2 = SubSeq(past, 1, Len(past) - 1)
      /\ future2 = <<now>> \o future
  BY <1>1, <1>3, OneBack
<1> QED
  BY <1>4, <1>5 DEF Latest, Before, Behind

LEMMA ViewOn ==
  ASSUME NEW S, NEW V, NEW at, NEW now, NEW past, NEW future,
         NEW at2, NEW now2, NEW past2, NEW future2,
         ViewOK(S, V, at, now, past, future),
         ViewOK(S, V, at2, now2, past2, future2), at2 = at + 1
  PROVE  /\ future # <<>> /\ now2 \in S
         /\ now2 = Head(future) /\ future2 = Tail(future)
         /\ past2 = Append(past, now)
<1>1. /\ V \in Seq(S) /\ Len(V) \in Nat /\ at \in 1..(Len(V) - 1)
      /\ \A i \in 1..Len(V) : V[i] \in S
  BY LenProperties DEF ViewOK
<1>2. (at + 1) - 1 = at /\ (at + 1) + 1 = at + 2
  BY <1>1
<1>3. /\ now = V[at] /\ past = SubSeq(V, 1, at - 1) /\ future = SubSeq(V, at + 1, Len(V))
      /\ now2 = V[at + 1] /\ past2 = SubSeq(V, 1, at) /\ future2 = SubSeq(V, at + 2, Len(V))
  BY <1>2 DEF ViewOK
<1>4. now2 \in S
  BY <1>1, <1>3
<1> QED
  BY <1>1, <1>3, <1>4, OneOn

LEMMA ViewPush ==
  ASSUME NEW S, NEW V, NEW at, NEW now, NEW past, NEW future,
         NEW W, NEW at2, NEW now2, NEW past2, NEW future2,
         ViewOK(S, V, at, now, past, future),
         ViewOK(S, W, at2, now2, past2, future2),
         NEW k \in {at - 1, at}, NEW d \in Nat \ {0},
         at2 = Len(W), CutOf(V, W, k, d)
  PROVE  /\ now2 \in S /\ future2 = <<>>
         /\ past2 = Newest(IF k = at THEN Append(past, now) ELSE past, d)
<1>1. /\ V \in Seq(S) /\ Len(V) \in Nat /\ at \in 1..Len(V) /\ k \in 0..Len(V)
      /\ W \in Seq(S) /\ Len(W) \in Nat /\ at2 \in 1..Len(W)
      /\ \A i \in 1..Len(V) : V[i] \in S
      /\ \A i \in 1..Len(W) : W[i] \in S
  <2>1. V \in Seq(S) /\ at \in 1..Len(V) /\ W \in Seq(S) /\ at2 \in 1..Len(W)
    BY DEF ViewOK
  <2>2. Len(V) \in Nat /\ \A i \in 1..Len(V) : V[i] \in S
    BY <2>1, LenProperties
  <2>3. Len(W) \in Nat /\ \A i \in 1..Len(W) : W[i] \in S
    BY <2>1, LenProperties
  <2>4. k \in 0..Len(V)
    BY <2>1, <2>2
  <2> QED
    BY <2>1, <2>2, <2>3, <2>4
<1>2. now2 \in S
  BY <1>1 DEF ViewOK
<1>3. future2 = <<>>
  <2>1. future2 = SubSeq(W, Len(W) + 1, Len(W))
    BY DEF ViewOK
  <2>2. Len(W) + 1 \in Int /\ Len(W) \in Int /\ Len(W) < Len(W) + 1
    BY <1>1
  <2> QED
    BY <2>1, <2>2, SubSeqEmpty
<1>4. past2 = Newest(SubSeq(V, 1, k), d)
  <2>1. past2 = SubSeq(W, 1, Len(W) - 1)
    BY DEF ViewOK
  <2>2. SubSeq(W, 1, Len(W) - 1) = Newest(SubSeq(V, 1, k), d)
    BY <1>1, CutToDepth
  <2> QED
    BY <2>1, <2>2
<1>5. SubSeq(V, 1, k) = IF k = at THEN Append(past, now) ELSE past
  <2>1. CASE k = at
    <3>1. 1 \in 1..Len(V) /\ at \in 1..Len(V) /\ at \in 1..at
      BY <1>1
    <3>2. SubSeq(V, 1, at) = SubSeq(V, 1, at - 1) \o <<V[at]>>
      BY <1>1, <3>1, SubSeqRecursiveSecond
    <3>3. SubSeq(V, 1, at - 1) \in Seq(S) /\ V[at] \in S
      BY <1>1, SubSeqProperties
    <3>4. SubSeq(V, 1, at) = Append(SubSeq(V, 1, at - 1), V[at])
      BY <3>2, <3>3, AppendConcat
    <3> QED
      BY <2>1, <3>4 DEF ViewOK
  <2>2. CASE k = at - 1
    BY <1>1, <2>2 DEF ViewOK
  <2> QED
    BY <2>1, <2>2
<1> QED
  BY <1>2, <1>3, <1>4, <1>5

\* The entries behind a push, in terms of those before it.
LEMMA PushShape ==
  ASSUME NEW S, NEW st \in Stack(S), HasEntries(st),
         NEW op \in {"*", "m"}, NEW state \in S,
         maxUndo \in Nat, maxUndo >= 1
  PROVE  LET r == Push(st, op, state)
             k == IF op = "m" /\ Current(st).op = "m" THEN st.at - 1 ELSE st.at
             m == First(k, maxUndo)
         IN  /\ Len(r.items) = k - m + 2 /\ r.at = k - m + 2
             /\ \A i \in 1..(k - m + 1) : r.items[i] = st.items[m + i - 1]
<1> DEFINE k     == IF op = "m" /\ Current(st).op = "m" THEN st.at - 1 ELSE st.at
           past  == SubSeq(st.items, 1, k)
           e     == [op |-> op, saved |-> FALSE, state |-> state]
           grown == Append(past, e)
           n     == Len(grown)
           m     == First(k, maxUndo)
           kept  == SubSeq(grown, IF n > maxUndo THEN n - maxUndo + 1 ELSE 1, n)
<1>1. st.items \in Seq(Entry(S)) /\ st.at \in Nat /\ st.at \in 1..Len(st.items)
  BY DEF Stack, HasEntries
<1>2. k \in Nat /\ k <= Len(st.items)
  BY <1>1
<1>3. Push(st, op, state) = [items |-> kept, at |-> Len(kept)]
  BY DEF Push
<1>4. e \in Entry(S)
  BY DEF Entry
<1> HIDE DEF e, k
<1>5. past \in Seq(Entry(S)) /\ Len(past) = k /\ \A i \in 1..k : past[i] = st.items[i]
  <2>1. \A i \in 1..k : st.items[i] \in Entry(S)
    BY <1>1, <1>2
  <2> QED
    BY <2>1, <1>2, SubSeqProperties
<1> HIDE DEF past
<1>6. /\ grown \in Seq(Entry(S)) /\ n = k + 1
      /\ \A i \in 1..k : grown[i] = st.items[i]
  BY <1>2, <1>4, <1>5
<1>7. kept = SubSeq(grown, m, k + 1) /\ m \in 1..(k + 1)
  <2> HIDE DEF grown
  <2> QED
    BY <1>2, <1>6 DEF First
<1> HIDE DEF grown, kept
<1>8. /\ Len(kept) = k - m + 2
      /\ \A i \in 1..(k - m + 1) : kept[i] = grown[m + i - 1]
  <2>1. \A i \in m..(k + 1) : grown[i] \in Entry(S)
    BY <1>2, <1>6, <1>7, LenProperties
  <2> HIDE DEF m
  <2>2. m \in Int /\ k + 1 \in Int /\ m <= k + 1
    BY <1>2, <1>7
  <2>3. Len(kept) = (k + 1) - m + 1 /\ \A i \in 1..((k + 1) - m + 1) : kept[i] = grown[m + i - 1]
    BY <1>7, <2>1, <2>2, SubSeqProperties
  <2> QED
    BY <1>2, <2>2, <2>3
<1>9. \A i \in 1..(k - m + 1) : kept[i] = st.items[m + i - 1]
  <2> HIDE DEF m
  <2> QED
    BY <1>2, <1>6, <1>7, <1>8
<1>10. /\ Push(st, op, state).items = kept /\ Push(st, op, state).at = Len(kept)
  BY <1>3
<1> QED
  BY <1>8, <1>9, <1>10 DEF k

-----------------------------------------------------------------------------
\* The steps of the schematic's stack.

SchPast == States(UndoStack, 1, UndoStack.at - 1)
SchFuture == States(UndoStack, UndoStack.at + 1, Len(UndoStack.items))

LEMMA SchEdit ==
  ASSUME IInv, SchView, SchView', NEW new \in Sch, NEW op \in {"*", "m"},
         UndoStack' = Push(UndoStack, op, new), maxUndo' = maxUndo
  PROVE  SchematicTimeline!Next
<1>1. UndoStack' = Push(UndoStack, op, new) /\ maxUndo' = maxUndo
  OBVIOUS
<1>2. maxUndo \in Nat \ {0} /\ UndoStack \in Stack(Sch) /\ HasEntries(UndoStack)
  BY DepthPositive DEF IInv, TypeOK, StackOK
<1> DEFINE at == UndoStack.at
           k == IF op = "m" /\ Current(UndoStack).op = "m" THEN at - 1 ELSE at
<1>3. /\ Len(UndoStack'.items) = k - First(k, maxUndo) + 2
      /\ UndoStack'.at = k - First(k, maxUndo) + 2
      /\ \A i \in 1..(k - First(k, maxUndo) + 1) :
           UndoStack'.items[i] = UndoStack.items[First(k, maxUndo) + i - 1]
  BY <1>1, <1>2, PushShape
<1>4. k \in {at - 1, at} /\ at \in Nat /\ at \in 1..Len(UndoStack.items)
  BY <1>2 DEF HasEntries, Stack
<1> HIDE DEF k
<1>5. \A i \in 1..(k - First(k, maxUndo) + 1) :
        /\ i \in 1..Len(UndoStack'.items)
        /\ First(k, maxUndo) + i - 1 \in 1..Len(UndoStack.items)
  BY <1>2, <1>3, <1>4 DEF First
<1>6. \A i \in 1..(k - First(k, maxUndo) + 1) : SchV'[i] = SchV[First(k, maxUndo) + i - 1]
  BY <1>3, <1>5 DEF SchV
<1>7. /\ ViewOK(Sch, SchV, at, sch, SchPast, SchFuture)
      /\ ViewOK(Sch, SchV', UndoStack'.at, sch', SchPast', SchFuture')
      /\ Len(SchV') = Len(UndoStack'.items)
  BY DEF SchView, SchPast, SchFuture
<1>8. /\ sch' \in Sch /\ SchFuture' = <<>>
      /\ SchPast' = Newest(IF k = at THEN Append(SchPast, sch) ELSE SchPast, maxUndo)
  <2>1. CutOf(SchV, SchV', k, maxUndo) /\ UndoStack'.at = Len(SchV')
    BY <1>3, <1>6, <1>7 DEF CutOf
  <2> HIDE DEF at
  <2> QED
    BY <1>2, <1>4, <1>7, <2>1, ViewPush
<1>9. SchPast' = Newest(Append(SchPast, sch), maxUndo) \/ SchPast' = Newest(SchPast, maxUndo)
  BY <1>8
<1> QED
  BY <1>1, <1>8, <1>9 DEF SchematicTimeline!Next, SchematicTimeline!Edit,
     SchematicTimeline!Amend, SchematicTimeline!Newest, Newest, SchPast, SchFuture

LEMMA SchTravel ==
  ASSUME IInv, SchView, SchView', NEW step \in {-1, 1}, TravelSchematic(step)
  PROVE  SchematicTimeline!Next
<1>1. /\ CanStep(UndoStack, step) /\ UndoStack' = Stepped(UndoStack, step)
      /\ maxUndo' = maxUndo
  BY DEF TravelSchematic
<1>2. UndoStack'.items = UndoStack.items /\ UndoStack'.at = UndoStack.at + step
  BY <1>1 DEF Stepped, IInv, TypeOK, StackOK, Stack
<1>3. SchV' = SchV
  BY <1>2 DEF SchV
<1>4. /\ ViewOK(Sch, SchV, UndoStack.at, sch, SchPast, SchFuture)
      /\ ViewOK(Sch, SchV, UndoStack'.at, sch', SchPast', SchFuture')
  BY <1>2, <1>3 DEF SchView, SchPast, SchFuture
<1>5. CASE step = -1
  <2>1. UndoStack.at = UndoStack'.at + 1
    BY <1>2, <1>5 DEF IInv, TypeOK, StackOK, Stack
  <2>2. /\ SchPast # <<>> /\ sch' \in Sch
        /\ sch' = Latest(SchPast) /\ SchPast' = Before(SchPast)
        /\ SchFuture' = Behind(sch, SchFuture)
    BY <1>4, <2>1, ViewBack
  <2> QED
    BY <1>1, <2>2 DEF SchematicTimeline!Next, SchematicTimeline!Back,
       SchematicTimeline!Last, SchematicTimeline!Front, Latest, Before, Behind,
       SchPast, SchFuture
<1>6. CASE step = 1
  <2>1. /\ SchFuture # <<>> /\ sch' \in Sch
        /\ sch' = Head(SchFuture) /\ SchFuture' = Tail(SchFuture)
        /\ SchPast' = Append(SchPast, sch)
    BY <1>2, <1>4, <1>6, ViewOn
  <2> QED
    BY <1>1, <2>1 DEF SchematicTimeline!Next, SchematicTimeline!Forward, SchPast, SchFuture
<1> QED
  BY <1>5, <1>6

\* The same entries with other marks, and the same screen.
LEMMA SchSame ==
  ASSUME SchView, SchView', SchV' = SchV, UndoStack'.at = UndoStack.at, sch' = sch,
         maxUndo' = maxUndo
  PROVE  UNCHANGED SchematicTimeline!vars
<1>1. UNCHANGED <<SchPast, SchFuture>>
  BY DEF SchView, ViewOK, SchPast, SchFuture
<1> QED
  BY <1>1 DEF SchematicTimeline!vars, SchPast, SchFuture

\* A stack with one entry has no past and no future.
LEMMA SchFresh == IInv /\ SchView /\ UndoStack = Fresh(sch) => SchematicTimeline!Init
<1> SUFFICES ASSUME IInv, SchView, UndoStack = Fresh(sch) PROVE SchematicTimeline!Init
  OBVIOUS
<1>1. sch \in Sch /\ maxUndo \in Nat \ {0}
  BY DepthPositive DEF IInv, TypeOK
<1>2. UndoStack.at = 1 /\ Len(UndoStack.items) = 1
  BY <1>1, FreshProperties DEF Fresh
<1>3. SubSeq(SchV, 1, 0) = <<>> /\ SubSeq(SchV, 2, 1) = <<>>
  BY SubSeqEmpty
<1>4. SchPast = <<>> /\ SchFuture = <<>>
  <2>1. 1 - 1 = 0 /\ 1 + 1 = 2
    OBVIOUS
  <2> QED
    BY <1>2, <1>3, <2>1 DEF SchView, ViewOK, SchPast, SchFuture
<1> QED
  BY <1>1, <1>4 DEF SchematicTimeline!Init, SchPast, SchFuture

LEMMA SchFreshNext ==
  (IInv /\ SchView /\ UndoStack = Fresh(sch))' => SchematicTimeline!Init'
BY SchFresh, PTL

LEMMA SchReload ==
  ASSUME IInv, IInv', SchView', Reload
  PROVE  SchematicTimeline!Init'
<1>1. UndoStack' = Fresh(sch')
  BY DEF Reload, IInv, DepthsPositive, TypeOK
<1>2. (UndoStack = Fresh(sch))'
  BY <1>1 DEF Fresh
<1> QED
  BY <1>2, SchFreshNext

LEMMA SchStep ==
  ASSUME IInv, IInv', SchView, SchView', [Next]_vars
  PROVE  [\/ SchematicTimeline!Next
          \/ Reload /\ SchematicTimeline!Init']_SchematicTimeline!vars
<1>1. CASE EditSchematic \/ EditAstray
  <2>1. \E new \in Sch, op \in {"*", "m"} :
          UndoStack' = Push(UndoStack, op, new) /\ maxUndo' = maxUndo
    BY <1>1 DEF EditSchematic, EditAstray, IInv, TypeOK, HasEntries
  <2> QED
    BY <2>1, SchEdit
<1>2. ASSUME NEW step \in {-1, 1}, TravelSchematic(step)
      PROVE  SchematicTimeline!Next
  BY <1>2, SchTravel
<1>3. CASE ChangeMaxUndo
  <2>1. UNCHANGED <<sch, UndoStack>> /\ maxUndo' \in Nat \ {0}
    BY <1>3, DepthPositive, SizesAssumption DEF ChangeMaxUndo, IInv, DepthsPositive
  <2> QED
    BY <2>1 DEF SchematicTimeline!Next, SchematicTimeline!ChangeDepth, States
<1>4. CASE SaveSucceeds
  <2>1. UndoStack' = MarkSaved(UndoStack) /\ UNCHANGED <<sch, maxUndo>>
    BY <1>4 DEF SaveSucceeds, IInv, HasEntries
  <2>2. UndoStack \in Stack(Sch) /\ HasEntries(UndoStack)
    BY DEF IInv, TypeOK, StackOK
  <2>3. /\ UndoStack'.at = UndoStack.at /\ DOMAIN UndoStack'.items = DOMAIN UndoStack.items
        /\ \A i \in DOMAIN UndoStack'.items :
             UndoStack'.items[i].state = UndoStack.items[i].state
    BY <2>1, <2>2, MarkSavedProperties
  <2>4. /\ UndoStack.items \in Seq(Entry(Sch)) /\ UndoStack'.items \in Seq(Entry(Sch))
    BY DEF IInv, TypeOK, StackOK, Stack
  <2>5. /\ Len(UndoStack'.items) = Len(UndoStack.items)
        /\ DOMAIN UndoStack.items = 1..Len(UndoStack.items)
    BY <2>3, <2>4, LenProperties
  <2>6. SchV' = SchV
    BY <2>3, <2>5 DEF SchV
  <2> QED
    BY <2>1, <2>3, <2>6, SchSame
<1>5. CASE Reload
  BY <1>5, SchReload
<1>6. CASE UNCHANGED <<sch, UndoStack, maxUndo>>
  BY <1>6 DEF SchematicTimeline!vars, States
<1> QED
  BY <1>1, <1>2, <1>3, <1>4, <1>5, <1>6 DEF Next, vars, EditSymbol, ChangeSettings,
     SlotSymbolEdit, BecomeCurrent, Undo, Redo, Travel, TravelSymbol, SaveFails

-----------------------------------------------------------------------------
\* The steps of the symbol's stack.

SymArt == Art \union {NoArt}
SymPast == Arts(UndoSymbol, 1, UndoSymbol.at - 1)
SymFuture == Arts(UndoSymbol, UndoSymbol.at + 1, Len(UndoSymbol.items))

LEMMA SymEdit ==
  ASSUME IInv, SymView, SymView', NEW new \in Sym, UndoSymbol' = Push(UndoSymbol, "*", new),
         maxUndo' = maxUndo
  PROVE  SymbolTimeline!Next
<1>1. maxUndo \in Nat \ {0} /\ UndoSymbol \in Stack(Sym) /\ HasEntries(UndoSymbol)
  BY DepthPositive DEF IInv, TypeOK, StackOK
<1> DEFINE at == UndoSymbol.at
           k == at
<1>2. /\ Len(UndoSymbol'.items) = k - First(k, maxUndo) + 2
      /\ UndoSymbol'.at = k - First(k, maxUndo) + 2
      /\ \A i \in 1..(k - First(k, maxUndo) + 1) :
           UndoSymbol'.items[i] = UndoSymbol.items[First(k, maxUndo) + i - 1]
  BY <1>1, PushShape
<1>3. k = at /\ k \in {at - 1, at} /\ at \in Nat /\ at \in 1..Len(UndoSymbol.items)
  BY <1>1 DEF HasEntries, Stack
<1> HIDE DEF k
<1>4. \A i \in 1..(k - First(k, maxUndo) + 1) :
        /\ i \in 1..Len(UndoSymbol'.items)
        /\ First(k, maxUndo) + i - 1 \in 1..Len(UndoSymbol.items)
  <2>1. UndoSymbol.items \in Seq(Entry(Sym))
    BY <1>1 DEF Stack
  <2>2. Len(UndoSymbol.items) \in Nat
    BY <2>1, LenProperties
  <2>3. k \in Nat \ {0} /\ k <= Len(UndoSymbol.items)
    BY <1>3, <2>2
  <2>4. First(k, maxUndo) \in 1..(k + 1)
    BY <1>1, <2>3 DEF First
  <2>5. Len(UndoSymbol'.items) = k - First(k, maxUndo) + 2
    BY <1>2
  <2> DEFINE m == First(k, maxUndo)
  <2> HIDE DEF m
  <2>6. m \in 1..(k + 1) /\ Len(UndoSymbol'.items) = k - m + 2
    BY <2>4, <2>5 DEF m
  <2>7. \A i \in 1..(k - m + 1) : /\ i \in 1..Len(UndoSymbol'.items)
                                  /\ m + i - 1 \in 1..Len(UndoSymbol.items)
    BY <2>2, <2>3, <2>6
  <2> QED
    BY <2>7 DEF m
<1>5. \A i \in 1..(k - First(k, maxUndo) + 1) : SymV'[i] = SymV[First(k, maxUndo) + i - 1]
  BY <1>2, <1>4 DEF SymV
<1>6. /\ ViewOK(SymArt, SymV, at, sym.art, SymPast, SymFuture)
      /\ ViewOK(SymArt, SymV', UndoSymbol'.at, sym'.art, SymPast', SymFuture')
      /\ Len(SymV') = Len(UndoSymbol'.items)
  BY DEF SymView, SymPast, SymFuture, SymArt
<1>7. /\ sym'.art \in SymArt /\ SymFuture' = <<>>
      /\ SymPast' = Newest(IF k = at THEN Append(SymPast, sym.art) ELSE SymPast, maxUndo)
  <2>1. CutOf(SymV, SymV', k, maxUndo) /\ UndoSymbol'.at = Len(SymV')
    BY <1>2, <1>5, <1>6 DEF CutOf
  <2> HIDE DEF at
  <2> QED
    BY <1>1, <1>3, <1>6, <2>1, ViewPush
<1> QED
  BY <1>3, <1>7 DEF SymbolTimeline!Next, SymbolTimeline!Edit, SymbolTimeline!Newest, Newest,
     SymPast, SymFuture, SymArt

LEMMA SymTravel ==
  ASSUME IInv, SymView, SymView', NEW step \in {-1, 1}, TravelSymbol(step)
  PROVE  SymbolTimeline!Next
<1>1. /\ CanStep(UndoSymbol, step) /\ UndoSymbol' = Stepped(UndoSymbol, step)
      /\ maxUndo' = maxUndo
  BY DEF TravelSymbol
<1>2. UndoSymbol'.items = UndoSymbol.items /\ UndoSymbol'.at = UndoSymbol.at + step
  BY <1>1 DEF Stepped, IInv, TypeOK, StackOK, Stack
<1>3. SymV' = SymV
  BY <1>2 DEF SymV
<1>4. /\ ViewOK(SymArt, SymV, UndoSymbol.at, sym.art, SymPast, SymFuture)
      /\ ViewOK(SymArt, SymV, UndoSymbol'.at, sym'.art, SymPast', SymFuture')
  BY <1>2, <1>3 DEF SymView, SymPast, SymFuture, SymArt
<1>5. CASE step = -1
  <2>1. UndoSymbol.at = UndoSymbol'.at + 1
    BY <1>2, <1>5 DEF IInv, TypeOK, StackOK, Stack
  <2>2. /\ SymPast # <<>> /\ sym'.art \in SymArt
        /\ sym'.art = Latest(SymPast) /\ SymPast' = Before(SymPast)
        /\ SymFuture' = Behind(sym.art, SymFuture)
    BY <1>4, <2>1, ViewBack
  <2> QED
    BY <1>1, <2>2 DEF SymbolTimeline!Next, SymbolTimeline!Back,
       SymbolTimeline!Last, SymbolTimeline!Front, Latest, Before, Behind,
       SymPast, SymFuture
<1>6. CASE step = 1
  <2>1. /\ SymFuture # <<>> /\ sym'.art \in SymArt
        /\ sym'.art = Head(SymFuture) /\ SymFuture' = Tail(SymFuture)
        /\ SymPast' = Append(SymPast, sym.art)
    BY <1>2, <1>4, <1>6, ViewOn
  <2> QED
    BY <1>1, <2>1 DEF SymbolTimeline!Next, SymbolTimeline!Forward, SymPast, SymFuture
<1> QED
  BY <1>5, <1>6

LEMMA SymSame ==
  ASSUME SymView, SymView', SymV' = SymV, UndoSymbol'.at = UndoSymbol.at, sym'.art = sym.art,
         maxUndo' = maxUndo
  PROVE  UNCHANGED SymbolTimeline!vars
<1>1. UNCHANGED <<SymPast, SymFuture>>
  BY DEF SymView, ViewOK, SymPast, SymFuture
<1> QED
  BY <1>1 DEF SymbolTimeline!vars, SymPast, SymFuture

LEMMA SymEnter ==
  ASSUME IInv, SymView, SymView', EnterSymbol, maxUndo' = maxUndo
  PROVE  [SymbolTimeline!Next]_SymbolTimeline!vars
<1>1. CASE NeedsSymbol(sym)
  <2>1. UndoSymbol' = Push(UndoSymbol, "*", sym') /\ sym' \in Sym
    BY <1>1, CreateProperties DEF EnterSymbol
  <2> QED
    BY <2>1, SymEdit
<1>2. CASE ~NeedsSymbol(sym)
  <2>1. UNCHANGED UndoSymbol /\ sym'.art = sym.art
    BY <1>2, AdjustProperties DEF EnterSymbol, IInv, TypeOK
  <2>2. SymV' = SymV
    BY <2>1 DEF SymV
  <2> QED
    BY <2>1, <2>2, SymSame
<1> QED
  BY <1>1, <1>2

\* A stack with one entry has no past and no future.
LEMMA SymFresh == IInv /\ SymView /\ UndoSymbol = Fresh(sym) => SymbolTimeline!Init
<1> SUFFICES ASSUME IInv, SymView, UndoSymbol = Fresh(sym) PROVE SymbolTimeline!Init
  OBVIOUS
<1>1. sym \in Sym /\ maxUndo \in Nat \ {0}
  BY DepthPositive DEF IInv, TypeOK
<1>2. UndoSymbol.at = 1 /\ Len(UndoSymbol.items) = 1
  BY <1>1, FreshProperties DEF Fresh
<1>3. SubSeq(SymV, 1, 0) = <<>> /\ SubSeq(SymV, 2, 1) = <<>>
  BY SubSeqEmpty
<1>4. SymPast = <<>> /\ SymFuture = <<>>
  <2>1. 1 - 1 = 0 /\ 1 + 1 = 2
    OBVIOUS
  <2> QED
    BY <1>2, <1>3, <2>1 DEF SymView, ViewOK, SymPast, SymFuture
<1> QED
  BY <1>1, <1>4 DEF SymbolTimeline!Init, SymPast, SymFuture, SymArt, Sym

LEMMA SymFreshNext ==
  (IInv /\ SymView /\ UndoSymbol = Fresh(sym))' => SymbolTimeline!Init'
BY SymFresh, PTL

LEMMA SymReload ==
  ASSUME IInv, IInv', SymView', Reload
  PROVE  SymbolTimeline!Init'
<1>1. UndoSymbol' = Fresh(sym')
  BY DEF Reload, IInv, DepthsPositive, TypeOK
<1>2. (UndoSymbol = Fresh(sym))'
  BY <1>1 DEF Fresh
<1> QED
  BY <1>2, SymFreshNext

\* As long as no edit strays; one that has is forgotten by a reload only.
LEMMA SymStep ==
  ASSUME IInv, IInv', ~strayed => SymView, SymView', ~strayed', [Next]_vars
  PROVE  [\/ SymbolTimeline!Next
          \/ Reload /\ SymbolTimeline!Init']_SymbolTimeline!vars
<1>r. CASE Reload
  BY <1>r, SymReload
<1> SUFFICES ASSUME ~Reload
             PROVE  [\/ SymbolTimeline!Next
                     \/ Reload /\ SymbolTimeline!Init']_SymbolTimeline!vars
  BY <1>r
<1>0. ~EditAstray
  BY DEF EditAstray
<1>v. SymView
  <2>1. strayed' = strayed
    BY <1>0 DEF Next, vars, modes, EditSchematic, EditSymbol, ChangeSettings, SlotSymbolEdit,
       BecomeCurrent, ChangeMaxUndo, Undo, Redo, Travel, TravelSymbol, TravelSchematic,
       SaveSucceeds, SaveFails
  <2> QED
    BY <2>1
<1>1. CASE EditSymbol
  <2>1. \E new \in Sym : UndoSymbol' = Push(UndoSymbol, "*", new) /\ maxUndo' = maxUndo
    BY <1>1 DEF EditSymbol, Redrawn
  <2> QED
    BY <2>1, <1>v, SymEdit
<1>2. ASSUME NEW step \in {-1, 1}, TravelSymbol(step)
      PROVE  SymbolTimeline!Next
  BY <1>2, <1>v, SymTravel
<1>3. CASE ChangeMaxUndo
  <2>1. UNCHANGED <<sym, UndoSymbol>> /\ maxUndo' \in Nat \ {0}
    BY <1>3, DepthPositive, SizesAssumption DEF ChangeMaxUndo, IInv, DepthsPositive
  <2> QED
    BY <2>1 DEF SymbolTimeline!Next, SymbolTimeline!ChangeDepth, Arts
<1>4. CASE SaveSucceeds
  <2>1. /\ UndoSymbol' = MarkSaved(UndoSymbol) /\ UNCHANGED maxUndo
        /\ sym' = AdjustPortNumbers(sym, sch.ports)
    BY <1>4 DEF SaveSucceeds, PortsAdjusted, IInv, HasEntries
  <2>2. UndoSymbol \in Stack(Sym) /\ HasEntries(UndoSymbol) /\ sym'.art = sym.art
    BY <2>1, AdjustProperties DEF IInv, TypeOK, StackOK
  <2>3. /\ UndoSymbol'.at = UndoSymbol.at
        /\ DOMAIN UndoSymbol'.items = DOMAIN UndoSymbol.items
        /\ \A i \in DOMAIN UndoSymbol'.items :
             UndoSymbol'.items[i].state = UndoSymbol.items[i].state
    BY <2>1, <2>2, MarkSavedProperties
  <2>4. /\ UndoSymbol.items \in Seq(Entry(Sym)) /\ UndoSymbol'.items \in Seq(Entry(Sym))
    BY DEF IInv, TypeOK, StackOK, Stack
  <2>5. /\ Len(UndoSymbol'.items) = Len(UndoSymbol.items)
        /\ DOMAIN UndoSymbol.items = 1..Len(UndoSymbol.items)
    BY <2>3, <2>4, LenProperties
  <2>6. SymV' = SymV
    BY <2>3, <2>5 DEF SymV
  <2> QED
    BY <2>1, <2>2, <2>3, <2>6, <1>v, SymSame
<1>5. CASE SaveFails
  <2>1. UNCHANGED <<UndoSymbol, maxUndo>> /\ sym'.art = sym.art
    BY <1>5, AdjustProperties DEF SaveFails, PortsAdjusted, IInv, TypeOK
  <2>2. SymV' = SymV
    BY <2>1 DEF SymV
  <2> QED
    BY <2>1, <2>2, <1>v, SymSame
<1>6. CASE EnterSymbol /\ UNCHANGED maxUndo
  BY <1>6, <1>v, SymEnter
<1>7. CASE UNCHANGED <<sym, UndoSymbol, maxUndo>>
  BY <1>7 DEF SymbolTimeline!vars, Arts
<1> QED
  BY <1>0, <1>1, <1>2, <1>3, <1>4, <1>5, <1>6, <1>7 DEF Next, vars, EditSchematic, ChangeSettings,
     SlotSymbolEdit, BecomeCurrent, Undo, Redo, Travel, TravelSchematic

-----------------------------------------------------------------------------
\* Undo and redo keep their promise for the schematic and for the symbol (schematic.cpp
\* undo, redo, setChanged): undo leads back through exactly the states the user
\* saw, redo on to them again, and an edit forgets only the future and what lies
\* beyond the depth, whatever is saved, switched or resized in between; a reload
\* begins anew.  For the symbol until one of its edits goes to the other history.
THEOREM UndoImplementsTimeline ==
  ASSUME DepthsPositive
  PROVE  Spec => UndoIsTrue
<1>1. Spec => []IInv
  BY Inductive
<1>2. IInv => SchView /\ (~strayed => SymView)
  BY SchViewHolds, SymViewHolds
<1>3. Init /\ IInv /\ SchView /\ (~strayed => SymView) => SchematicTimeline!Init /\ SymbolTimeline!Init
  BY SchFresh, SymFresh DEF Init
<1>4. /\ IInv /\ IInv' /\ SchView /\ SchView' /\ [Next]_vars
           => [\/ SchematicTimeline!Next
               \/ Reload /\ SchematicTimeline!Init']_SchematicTimeline!vars
      /\ IInv /\ IInv' /\ (~strayed => SymView) /\ (~strayed => SymView)' /\ [Next]_vars
           => [\/ strayed'
               \/ SymbolTimeline!Next
               \/ Reload /\ SymbolTimeline!Init']_SymbolTimeline!vars
  BY SchStep, SymStep
<1> QED
  BY <1>1, <1>2, <1>3, <1>4, PTL DEF Spec, UndoIsTrue
=============================================================================
