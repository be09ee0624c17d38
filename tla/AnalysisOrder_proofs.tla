------------------------- MODULE AnalysisOrder_proofs -------------------------
(***************************************************************************)
(* Theorems about AnalysisOrder, for every netlist that the checker        *)
(* accepts.                                                                *)
(***************************************************************************)
EXTENDS AnalysisOrder, Selection_proofs, FiniteSetTheorems

FrameType == [parent : Sweep \union {Net}, point : Nat, k : Nat]
Values == [Analysis -> (Sweep \union {Net}) \X Nat]

\* The netlist is one that the checker accepts.
FileOK ==
  /\ file \in Seq(Analysis) /\ IsInjective(file)
  /\ sim \in [Sweep -> Analysis] /\ Accepted(file, sim)

\* The lists: what is listed is listed once; a sweep with children has taken what it
\* names out of the list; no list begins with an analysis that needs what
\* the DC analysis has to compute first.
ListsOK ==
  /\ actions \in Seq(Analysis) /\ IsInjective(actions) /\ Range(actions) \subseteq Present(file)
  /\ children \in [Sweep -> Seq(Analysis)] /\ applied \in BOOLEAN
  /\ pc = "order" => \A s \in Sweep : children[s] # <<>> => sim[s] \notin Range(actions)

\* Solving the list means to solve the DC analysis.
Reaches(list) == \E a \in Range(list) : a = DC \/ a \in ContainsDC

HeadsOK ==
  HasDC =>
    /\ \A s \in Sweep : children[s] # <<>> => children[s][1] \notin Plain
    /\ pc = "order" => Reaches(actions)
    /\ pc # "order" => actions # <<>> /\ actions[1] \notin Plain

\* The stack: the net, and in it sweeps, which have children.
CallsOK ==
  /\ pc \in {"order", "initialize", "solve", "done", "crashed"}
  /\ calls \in Seq(FrameType)
  /\ pc = "solve" => calls # <<>>
  /\ \A i \in 1..Len(calls) :
       /\ calls[i].k >= 1
       /\ i = 1 <=> calls[i].parent = Net
       /\ i # 1 => /\ calls[i].point <= Points[calls[i].parent]
                   /\ children[calls[i].parent] # <<>>

\* The results.
ResultsOK ==
  /\ value \in Values /\ dcValue \in Values
  /\ runs \in [Sweep -> Nat] /\ axis \in [Analysis -> Nat]
  /\ solved \in [Single -> Nat] /\ deps \in [Single -> SUBSET Analysis]

\* Behind the first child the operating point is up to date.
FreshPoint == HasDC /\ pc = "solve" /\ Top.k > 1 => dcValue = value

Inv == FileOK /\ ListsOK /\ HeadsOK /\ CallsOK /\ ResultsOK /\ FreshPoint

-----------------------------------------------------------------------------
\* Lists.

\* A list backwards holds the same.
LEMMA BackwardsIs ==
  ASSUME NEW S, NEW list \in Seq(S)
  PROVE  /\ Backwards(list) \in Seq(S) /\ Range(Backwards(list)) = Range(list)
         /\ IsInjective(list) => IsInjective(Backwards(list))
         /\ list # <<>> => Backwards(list) # <<>> /\ Backwards(list)[1] = list[Len(list)]
<1> DEFINE b == Backwards(list)
           n == Len(list)
<1>1. n \in Nat /\ DOMAIN list = 1..n /\ \A i \in 1..n : list[i] \in S
  OBVIOUS
<1>2. DOMAIN b = 1..n /\ \A i \in 1..n : n + 1 - i \in 1..n /\ b[i] = list[n + 1 - i]
  BY <1>1 DEF Backwards
<1>3. b \in Seq(S) /\ Len(b) = n
  <2>1. b = [i \in 1..n |-> list[n + 1 - i]]
    BY <1>1 DEF Backwards
  <2>2. \A i \in 1..n : list[n + 1 - i] \in S
    BY <1>1, <1>2
  <2> QED BY <1>1, <2>1, <2>2
<1>4. \A i \in 1..n : n + 1 - (n + 1 - i) = i
  BY <1>1
<1> HIDE DEF b
<1>5. Range(b) = Range(list)
  <2>1. \A i \in 1..n : b[i] \in Range(list)
    BY <1>1, <1>2 DEF Range
  <2>2. \A i \in 1..n : list[i] \in Range(b)
    <3> SUFFICES ASSUME NEW i \in 1..n PROVE list[i] \in Range(b)
      OBVIOUS
    <3>1. b[n + 1 - i] = list[i] /\ n + 1 - i \in DOMAIN b
      BY <1>2, <1>4
    <3> QED BY <3>1 DEF Range
  <2> QED BY <1>1, <1>2, <2>1, <2>2 DEF Range
<1>6. ASSUME IsInjective(list) PROVE IsInjective(b)
  <2> SUFFICES ASSUME NEW i \in 1..n, NEW j \in 1..n, b[i] = b[j] PROVE i = j
    BY <1>2 DEF IsInjective
  <2>1. n + 1 - i = n + 1 - j
    BY <1>1, <1>2, <1>6 DEF IsInjective
  <2> QED BY <1>1, <2>1
<1>7. ASSUME list # <<>> PROVE b # <<>> /\ b[1] = list[n]
  <2>1. n \in Nat \ {0} /\ 1 \in 1..n /\ n + 1 - 1 = n
    BY <1>1, <1>7
  <2> QED BY <1>2, <1>3, <2>1
<1> QED
  BY <1>3, <1>5, <1>6, <1>7 DEF b

\* What the selection of a list begins with, if the list begins with it.
LEMMA OnlyHead ==
  ASSUME NEW S, NEW list \in Seq(S), NEW T, list # <<>>, list[1] \in T
  PROVE  Only(list, T) # <<>> /\ Only(list, T)[1] = list[1]
<1> DEFINE x == list[1]
           e == <<>>
           h == Append(e, x)
           t == Tail(list)
<1>1. Len(list) \in Nat \ {0} /\ x \in S /\ t \in Seq(S) /\ e \in Seq(S) /\ h \in Seq(S)
  OBVIOUS
<1>2. list = h \o t
  BY HeadTailProperties
<1>3. Only(e, T) = e
  BY OnlyEmpty
<1>4. h = <<x>> /\ Append(Only(e, T), x) = h
  <2>1. Append(<<>>, x) = <<x>>
    BY <1>1
  <2> QED BY <1>3, <2>1
<1> HIDE DEF e, h, t
<1>5. Only(Append(e, x), T) = Append(Only(e, T), x)
  <2>1. e \in Seq(S) /\ x \in S
    BY <1>1
  <2>2. Only(Append(e, x), T) = IF x \in T THEN Append(Only(e, T), x) ELSE Only(e, T)
    <3> HIDE DEF x
    <3> QED BY <2>1, OnlyAppend
  <2> QED BY <2>2
<1>6. Only(h, T) = h
  BY <1>4, <1>5 DEF h
<1>7. Only(h \o t, T) = Only(h, T) \o Only(t, T)
  BY <1>1, OnlyConcat
<1>8. Only(t, T) \in Seq(S)
  BY <1>1, OnlyElements
<1>9. Only(list, T) = <<x>> \o Only(t, T)
  BY <1>2, <1>4, <1>6, <1>7
<1> HIDE DEF x
<1>10. <<x>> \o Only(t, T) # <<>> /\ (<<x>> \o Only(t, T))[1] = x
  BY <1>1, <1>8
<1> QED
  BY <1>9, <1>10 DEF x

\* A sorted list begins with what leads to a DC analysis, if it holds any.
LEMMA SortedIs ==
  ASSUME NEW list \in Seq(Analysis), IsInjective(list)
  PROVE  /\ Sorted(list) \in Seq(Analysis) /\ IsInjective(Sorted(list))
         /\ Range(Sorted(list)) = Range(list)
         /\ Reaches(list) => Sorted(list) # <<>> /\ Sorted(list)[1] \notin Plain
<1> DEFINE F == {DC} \union ContainsDC
           s == Only(list, F)
           b == Backwards(s)
           t == Only(list, Range(list) \ F)
<1>1. /\ s \in Seq(Analysis) /\ Range(s) = Range(list) \intersect F /\ IsInjective(s)
      /\ t \in Seq(Analysis) /\ Range(t) = Range(list) \intersect (Range(list) \ F)
      /\ IsInjective(t)
  BY OnlyOnce
<1>2. /\ b \in Seq(Analysis) /\ Range(b) = Range(s) /\ IsInjective(b)
      /\ s # <<>> => b # <<>> /\ b[1] = s[Len(s)]
  <2> HIDE DEF s
  <2> QED BY <1>1, BackwardsIs
<1>3. Range(b) \intersect Range(t) = {} /\ Range(b) \union Range(t) = Range(list)
  BY <1>1, <1>2
<1>4. Sorted(list) = b \o t
  BY DEF Sorted
<1> HIDE DEF b, t, s
<1>5. /\ b \o t \in Seq(Analysis) /\ Range(b \o t) = Range(list) /\ IsInjective(b \o t)
  <2>1. b \in Seq(Analysis) /\ t \in Seq(Analysis)
    BY <1>1, <1>2
  <2>2. /\ b \o t \in Seq(Analysis) /\ Range(b \o t) = Range(b) \union Range(t)
        /\ IsInjective(b) /\ IsInjective(t) /\ Range(b) \intersect Range(t) = {}
             => IsInjective(b \o t)
    BY <2>1, JoinedOnce
  <2> QED BY <1>1, <1>2, <1>3, <2>2
<1>6. ASSUME Reaches(list) PROVE b \o t # <<>> /\ (b \o t)[1] \notin Plain
  <2>1. Range(s) # {}
    BY <1>1, <1>6 DEF Reaches
  <2>2. s # <<>> /\ Len(s) \in Nat \ {0} /\ DOMAIN s = 1..Len(s)
    BY <1>1, <2>1 DEF Range
  <2>3. s[Len(s)] \in F
    <3>1. Len(s) \in DOMAIN s
      BY <2>2
    <3> QED BY <1>1, <3>1 DEF Range
  <2>4. b # <<>> /\ b[1] \in F
    BY <1>2, <2>2, <2>3
  <2>5. F \intersect Plain = {}
    BY KindsDiffer DEF ContainsDC
  <2>6. Len(b) \in Nat \ {0} /\ Len(t) \in Nat
    BY <1>1, <1>2, <2>4
  <2>7. b \o t # <<>> /\ (b \o t)[1] = b[1]
    BY <1>1, <1>2, <2>6
  <2> QED BY <2>4, <2>5, <2>7
<1> QED
  BY <1>4, <1>5, <1>6

-----------------------------------------------------------------------------
\* The order.

\* What is taken out of a list.
LEMMA WithoutIs ==
  ASSUME NEW list \in Seq(Analysis), IsInjective(list), NEW a
  PROVE  /\ Without(list, a) \in Seq(Analysis) /\ IsInjective(Without(list, a))
         /\ Range(Without(list, a)) = Range(list) \ {a}
<1>1. Range(list) \intersect (Range(list) \ {a}) = Range(list) \ {a}
  OBVIOUS
<1> QED
  BY <1>1, OnlyOnce DEF Without

LEMMA MinIs ==
  ASSUME NEW S, S \subseteq Nat, S # {}
  PROVE  Min(S) \in S /\ \A n \in S : Min(S) <= n
<1>1. \E n \in S : \A m \in S : n <= m
  BY LeastNumber
<1> QED
  BY <1>1 DEF Min

\* The parent is a sweep of the list and so is what it names, which is another one.
LEMMA ParentIs ==
  ASSUME FileOK, ListsOK, \E a \in Range(actions) : SecondOrder(a)
  PROVE  /\ Parent \in Sweep \intersect Range(actions)
         /\ sim[Parent] \in Range(actions) /\ sim[Parent] \in Analysis /\ sim[Parent] # Parent
         /\ ~ChildListed(sim[Parent])
<1> DEFINE S == {i \in DOMAIN actions : SecondOrder(actions[i])}
<1>1. DOMAIN actions = 1..Len(actions) /\ Len(actions) \in Nat
  BY DEF ListsOK
<1>2. S \subseteq Nat /\ S # {}
  BY <1>1 DEF Range
<1>3. Min(S) \in S
  <2> HIDE DEF S
  <2> QED BY <1>2, MinIs
<1>4. Parent \in Range(actions) /\ SecondOrder(Parent)
  BY <1>3 DEF Parent, Range
<1>5. Parent \in Sweep /\ sim[Parent] \in Range(actions) /\ ~ChildListed(sim[Parent])
  BY <1>4 DEF SecondOrder, ChildListed
<1>6. Parent \in Sweep \intersect Present(file)
  BY <1>4, <1>5 DEF ListsOK
<1>7. sim[Parent] # Parent
  <2> DEFINE P == {Parent}
  <2>1. P \in SUBSET (Sweep \intersect Present(file)) /\ P # {}
    BY <1>6
  <2>2. \E a \in P : sim[a] \notin P
    <3> HIDE DEF P
    <3> QED BY <2>1 DEF FileOK, Accepted
  <2> QED BY <2>2
<1> QED
  BY <1>4, <1>5, <1>7 DEF FileOK

\* Those that get the child are sweeps of the list that name it: all of them, but
\* for one that is skipped when the DC analysis leaves the list.
LEMMA HostsAre ==
  ASSUME FileOK, ListsOK, NEW child, NEW list \in Seq(Analysis), NEW p \in Range(list) \intersect Sweep,
         sim[p] = child
  PROVE  /\ \A s \in Parents(child, list) : s \in Sweep \intersect Range(list) /\ sim[s] = child
         /\ Parents(child, list) # {}
         /\ ~NeedsDC(child) => p \in Parents(child, list)
<1> DEFINE named == {i \in DOMAIN list : list[i] \in Sweep /\ sim[list[i]] = child}
           first == Min(named)
           moved == /\ NeedsDC(child) /\ ~applied /\ DC \in Range(list)
                    /\ Position(DC, list) < first
           skipped == IF moved THEN {first + 1} ELSE {}
<1>1. DOMAIN list = 1..Len(list) /\ Len(list) \in Nat
  OBVIOUS
<1>2. PICK q \in DOMAIN list : list[q] = p
  BY DEF Range
<1>3. q \in named /\ named \subseteq Nat
  BY <1>1, <1>2
<1>4. first \in named
  <2> HIDE DEF named
  <2> QED BY <1>3, MinIs
<1>5. Parents(child, list) = {list[i] : i \in named \ skipped}
  BY DEF Parents
<1>6. first \notin skipped
  <2> HIDE DEF moved
  <2>1. first # first + 1
    <3> HIDE DEF first
    <3> QED BY <1>3, <1>4
  <2> QED BY <2>1
<1>7. \A s \in Parents(child, list) : s \in Sweep \intersect Range(list) /\ sim[s] = child
  <2> HIDE DEF skipped
  <2> QED BY <1>5 DEF Range
<1>8. list[first] \in Parents(child, list)
  <2> HIDE DEF skipped, first, named
  <2> QED BY <1>4, <1>5, <1>6
<1>9. ASSUME ~NeedsDC(child) PROVE p \in Parents(child, list)
  <2>1. skipped = {}
    BY <1>9
  <2> HIDE DEF skipped, named
  <2> QED BY <1>2, <1>3, <1>5, <2>1
<1> QED
  BY <1>7, <1>8, <1>9

\* Whatever contained a DC analysis does so when others have got children.
LEMMA ContainsMore ==
  ASSUME \A s \in Sweep : children[s] # <<>> => children'[s] = children[s]
  PROVE  ContainsDC \subseteq ContainsDC'
<1> SUFFICES ASSUME NEW a \in ContainsDC PROVE a \in ContainsDC'
  OBVIOUS
<1> SUFFICES ASSUME NEW S \in SUBSET Sweep,
                    \A s \in Sweep : Telling(s)' # <<>> /\ Telling(s)'[1] \in S \union {DC} => s \in S
             PROVE  a \in S
  BY DEF ContainsDC
<1>1. ASSUME NEW s \in Sweep, Telling(s) # <<>>, Telling(s)[1] \in S \union {DC} PROVE s \in S
  <2>1. children[s] # <<>>
    BY <1>1, OnlyEmpty DEF Telling
  <2>2. Telling(s)' = Telling(s)
    BY <2>1 DEF Telling
  <2> QED BY <1>1, <2>2
<1> QED
  BY <1>1 DEF ContainsDC

\* What a sweep gets that names an analysis.
Group(child) == IF NeedsDC(child) THEN <<DC, child>> ELSE <<child>>

\* What a round does: the child leaves the list, and with it the DC analysis if it is
\* needed and still there; all or some of those that name the child get it.
Round(child, hosts) ==
  /\ pc = "order" /\ UNCHANGED <<file, sim, pc>>
  /\ Parent \in Sweep \intersect Range(actions) /\ child = sim[Parent]
  /\ child \in Range(actions) \intersect Analysis /\ ~ChildListed(child) /\ child # Parent
  /\ actions' \in Seq(Analysis) /\ IsInjective(actions')
  /\ Range(actions') = (Range(actions) \ {child})
                         \ (IF NeedsDC(child) /\ ~applied THEN {DC} ELSE {})
  /\ applied' = (applied \/ NeedsDC(child))
  /\ \A s \in hosts : s \in Sweep \intersect Range(actions) /\ s # child /\ sim[s] = child
  /\ hosts # {} /\ (~NeedsDC(child) => Parent \in hosts)
  /\ children' = [s \in Sweep |-> IF s \in hosts THEN Group(child) ELSE children[s]]

\* A group begins with the DC analysis if there is one and the child needs it.
LEMMA GroupIs ==
  ASSUME NEW child \in Analysis
  PROVE  /\ Group(child) \in Seq(Analysis) /\ IsInjective(Group(child)) /\ Group(child) # <<>>
         /\ Group(child)[1] = IF NeedsDC(child) THEN DC ELSE child
         /\ Range(Group(child)) = IF NeedsDC(child) THEN {DC, child} ELSE {child}
<1>1. DC \in Analysis /\ DC \notin Plain
  BY KindsDiffer DEF Analysis
<1>2. CASE NeedsDC(child)
  <2>1. Group(child) = <<DC, child>> /\ child # DC
    BY <1>1, <1>2 DEF Group, NeedsDC
  <2>2. DOMAIN <<DC, child>> = {1, 2}
    OBVIOUS
  <2> QED BY <1>1, <1>2, <2>1, <2>2 DEF IsInjective, Range
<1>3. CASE ~NeedsDC(child)
  <2>1. Group(child) = <<child>>
    BY <1>3 DEF Group
  <2>2. DOMAIN <<child>> = {1}
    OBVIOUS
  <2> QED BY <1>3, <2>1, <2>2 DEF IsInjective, Range
<1> QED
  BY <1>2, <1>3

\* A round of the loop is one.
LEMMA RoundIs ==
  ASSUME FileOK, ListsOK, OrderRound
  PROVE  \E hosts : Round(sim[Parent], hosts)
<1> DEFINE child == sim[Parent]
           list  == Without(actions, child)
           hosts == Parents(child, list)
           new   == Group(child)
<1>1. /\ pc = "order" /\ UNCHANGED <<file, sim, pc>>
      /\ children' = [s \in Sweep |-> IF s \in hosts THEN new \o children[s] ELSE children[s]]
      /\ actions' = IF NeedsDC(child) /\ ~applied THEN Without(list, DC) ELSE list
      /\ applied' = (applied \/ NeedsDC(child))
  BY DEF OrderRound, Group
<1>2. /\ Parent \in Sweep \intersect Range(actions)
      /\ child \in Range(actions) /\ child \in Analysis /\ child # Parent /\ ~ChildListed(child)
  BY ParentIs DEF OrderRound
<1>3. /\ actions \in Seq(Analysis) /\ IsInjective(actions) /\ Range(actions) \subseteq Present(file)
      /\ children \in [Sweep -> Seq(Analysis)] /\ applied \in BOOLEAN
      /\ \A s \in Sweep : children[s] # <<>> => sim[s] \notin Range(actions)
  BY <1>1 DEF ListsOK
<1>4. list \in Seq(Analysis) /\ IsInjective(list) /\ Range(list) = Range(actions) \ {child}
  BY <1>3, WithoutIs
<1> HIDE DEF list, child
<1>5. /\ \A s \in hosts : s \in Sweep \intersect Range(list) /\ sim[s] = child
      /\ hosts # {} /\ (~NeedsDC(child) => Parent \in hosts)
  BY <1>2, <1>4, HostsAre DEF child
<1> HIDE DEF hosts
<1>6. new \in Seq(Analysis)
  BY <1>2, GroupIs
<1> HIDE DEF new
<1>7. children' = [s \in Sweep |-> IF s \in hosts THEN new ELSE children[s]]
  <2> SUFFICES ASSUME NEW s \in Sweep
               PROVE  (IF s \in hosts THEN new \o children[s] ELSE children[s])
                        = IF s \in hosts THEN new ELSE children[s]
    BY <1>1
  <2>1. CASE s \in hosts
    <3>1. children[s] = <<>>
      BY <1>2, <1>3, <1>5, <2>1
    <3>2. new \o <<>> = new
      BY <1>6, ConcatEmptySeq
    <3> QED BY <1>1, <2>1, <3>1, <3>2
  <2>2. CASE s \notin hosts
    BY <1>1, <2>2
  <2> QED BY <2>1, <2>2
<1>8. /\ actions' \in Seq(Analysis) /\ IsInjective(actions')
      /\ Range(actions') = Range(list) \ (IF NeedsDC(child) /\ ~applied THEN {DC} ELSE {})
  <2>1. CASE NeedsDC(child) /\ ~applied
    BY <1>1, <1>4, <2>1, WithoutIs
  <2>2. CASE ~(NeedsDC(child) /\ ~applied)
    BY <1>1, <1>4, <2>2
  <2> QED BY <2>1, <2>2
<1>9. Round(child, hosts)
  BY <1>1, <1>2, <1>4, <1>5, <1>7, <1>8 DEF Round, new, child
<1> QED
  BY <1>9 DEF child

\* A round takes one child, or that and the DC analysis, out of the list.
LEMMA OrderRoundKeeps ==
  ASSUME FileOK, ListsOK, HeadsOK, OrderRound
  PROVE  ListsOK' /\ HeadsOK'
<1> DEFINE child == sim[Parent]
           new   == Group(child)
<1>1. PICK hosts : Round(child, hosts)
  BY RoundIs
<1> HIDE DEF child
<1>2. /\ pc = "order" /\ UNCHANGED <<file, sim, pc>>
      /\ Parent \in Sweep \intersect Range(actions)
      /\ child \in Range(actions) /\ child \in Analysis /\ child # Parent
      /\ actions' \in Seq(Analysis) /\ IsInjective(actions')
      /\ Range(actions') = (Range(actions) \ {child})
                             \ (IF NeedsDC(child) /\ ~applied THEN {DC} ELSE {})
      /\ applied' = (applied \/ NeedsDC(child))
      /\ \A s \in hosts : s \in Sweep \intersect Range(actions) /\ s # child /\ sim[s] = child
      /\ hosts # {} /\ (~NeedsDC(child) => Parent \in hosts)
      /\ \A s \in Sweep : children'[s] = IF s \in hosts THEN new ELSE children[s]
  BY <1>1 DEF Round
<1>3. /\ actions \in Seq(Analysis) /\ IsInjective(actions) /\ Range(actions) \subseteq Present(file)
      /\ children \in [Sweep -> Seq(Analysis)] /\ applied \in BOOLEAN
      /\ \A s \in Sweep : children[s] # <<>> => sim[s] \notin Range(actions)
  BY <1>2 DEF ListsOK
<1>4. DC \in Analysis /\ DC \notin Sweep /\ DC \notin Plain
  BY KindsDiffer DEF Analysis
<1>5. new \in Seq(Analysis) /\ new # <<>> /\ new[1] = IF NeedsDC(child) THEN DC ELSE child
  BY <1>2, GroupIs
<1> HIDE DEF new
<1>6. ListsOK'
  <2>1. children' \in [Sweep -> Seq(Analysis)]
    <3>1. \A s \in Sweep : children'[s] \in Seq(Analysis)
      BY <1>2, <1>3, <1>5
    <3> QED BY <1>1, <3>1 DEF Round
  <2>2. applied' \in BOOLEAN
    BY <1>2, <1>3 DEF NeedsDC
  <2>3. ASSUME NEW s \in Sweep, children'[s] # <<>> PROVE sim[s] \notin Range(actions')
    <3>1. CASE s \in hosts
      BY <1>2, <3>1
    <3>2. CASE s \notin hosts
      BY <1>2, <1>3, <2>3, <3>2
    <3> QED BY <3>1, <3>2
  <2>4. Range(actions') \subseteq Present(file')
    BY <1>2, <1>3
  <2> QED BY <1>2, <2>1, <2>2, <2>3, <2>4 DEF ListsOK
<1>7. ContainsDC \subseteq ContainsDC' /\ ContainsDC \subseteq Sweep
  <2>1. \A s \in Sweep : children[s] # <<>> => children'[s] = children[s]
    BY <1>2, <1>3
  <2> QED BY <2>1, ContainsMore DEF ContainsDC
<1>8. ASSUME NEW s \in hosts, new[1] \in ContainsDC' \union {DC}, new[1] \in Sweep \union {DC}
      PROVE  s \in ContainsDC'
  <2>1. s \in Sweep /\ children'[s] = new
    BY <1>2
  <2>2. Telling(s)' # <<>> /\ Telling(s)'[1] = new[1]
    <3>1. Only(new, {DC} \union Sweep) # <<>> /\ Only(new, {DC} \union Sweep)[1] = new[1]
      BY <1>5, <1>8, OnlyHead
    <3> QED BY <2>1, <3>1 DEF Telling
  <2> SUFFICES ASSUME NEW S \in SUBSET Sweep,
                      \A a \in Sweep : Telling(a)' # <<>> /\ Telling(a)'[1] \in S \union {DC} => a \in S
               PROVE  s \in S
    BY <2>1 DEF ContainsDC
  <2>3. ContainsDC' \subseteq S
    BY DEF ContainsDC
  <2> QED BY <1>8, <2>1, <2>2, <2>3
<1>9. ASSUME HasDC PROVE Reaches(actions)'
  <2>1. CASE NeedsDC(child)
    <3>1. PICK s \in hosts : TRUE
      BY <1>2
    <3>2. s \in ContainsDC'
      BY <1>5, <1>8, <2>1
    <3>3. s \in Range(actions')
      BY <1>2, <1>4
    <3> QED BY <3>2, <3>3 DEF Reaches
  <2>2. CASE ~NeedsDC(child)
    <3>1. child \notin Plain /\ child \in {DC} \union Sweep
      BY <1>2, <1>9, <2>2 DEF NeedsDC, Analysis
    <3>2. PICK a \in Range(actions) : a = DC \/ a \in ContainsDC
      BY <1>2, <1>9 DEF HeadsOK, Reaches
    <3>3. CASE a # child
      BY <1>2, <1>7, <2>2, <3>2, <3>3 DEF Reaches
    <3>4. CASE a = child
      <4>1. Parent \in ContainsDC'
        BY <1>2, <1>5, <1>7, <1>8, <2>2, <3>1, <3>2, <3>4
      <4>2. Parent \in Range(actions')
        BY <1>2, <2>2
      <4> QED BY <4>1, <4>2 DEF Reaches
    <3> QED BY <3>3, <3>4
  <2> QED BY <2>1, <2>2
<1>10. HeadsOK'
  <2>1. HasDC' <=> HasDC
    BY <1>2 DEF HasDC, Present
  <2>2. ASSUME HasDC, NEW s \in Sweep, children'[s] # <<>> PROVE children'[s][1] \notin Plain
    <3>1. CASE s \in hosts
      <4>1. new[1] \notin Plain
        BY <1>2, <1>4, <1>5, <2>2 DEF NeedsDC
      <4> QED BY <1>2, <3>1, <4>1
    <3>2. CASE s \notin hosts
      BY <1>2, <2>2, <3>2 DEF HeadsOK
    <3> QED BY <3>1, <3>2
  <2> QED BY <1>2, <1>9, <2>1, <2>2 DEF HeadsOK
<1> QED
  BY <1>6, <1>10

\* The end of the order.
LEMMA OrderDoneKeeps ==
  ASSUME FileOK, ListsOK, HeadsOK, OrderDone
  PROVE  ListsOK' /\ HeadsOK'
<1>1. /\ pc = "order" /\ pc' = "initialize" /\ UNCHANGED <<file, sim, children, applied>>
      /\ actions' = Sorted(actions)
  BY DEF OrderDone
<1>2. actions \in Seq(Analysis) /\ IsInjective(actions)
  BY DEF ListsOK
<1>3. /\ Sorted(actions) \in Seq(Analysis) /\ IsInjective(Sorted(actions))
      /\ Range(Sorted(actions)) = Range(actions)
      /\ Reaches(actions) => Sorted(actions) # <<>> /\ Sorted(actions)[1] \notin Plain
  BY <1>2, SortedIs
<1>4. ListsOK'
  BY <1>1, <1>3 DEF ListsOK
<1>5. HeadsOK'
  BY <1>1, <1>3 DEF HeadsOK, HasDC
<1> QED
  BY <1>4, <1>5

-----------------------------------------------------------------------------
\* The run.

\* The tree is not changed by the run.
LEMMA TreeStays ==
  ASSUME FileOK, ListsOK, HeadsOK, UNCHANGED tree, pc # "order", pc' # "order"
  PROVE  FileOK' /\ ListsOK' /\ HeadsOK'
BY DEF tree, FileOK, ListsOK, HeadsOK, HasDC

\* The list that is being solved.
LEMMA TopIs ==
  ASSUME ListsOK, CallsOK, pc = "solve"
  PROVE  /\ Len(calls) \in Nat \ {0} /\ Top \in FrameType /\ Top.k >= 1
         /\ Top.parent = Net <=> Len(calls) = 1
         /\ Top.parent # Net => /\ Top.parent \in Sweep /\ Top.point <= Points[Top.parent]
                                /\ children[Top.parent] # <<>>
         /\ ListOf(Top.parent) \in Seq(Analysis)
         /\ AnyDue => Top.k \in 1..Len(ListOf(Top.parent)) /\ Due \in Analysis
<1>1. Len(calls) \in Nat \ {0} /\ calls \in Seq(FrameType)
  BY DEF CallsOK
<1>2. Top = calls[Len(calls)] /\ Top \in FrameType
  BY <1>1 DEF Top
<1>3. Top.parent \in Sweep \union {Net} /\ Top.k \in Nat
  BY <1>2 DEF FrameType
<1>4. /\ Top.k >= 1 /\ (Top.parent = Net <=> Len(calls) = 1)
      /\ Top.parent # Net => Top.point <= Points[Top.parent] /\ children[Top.parent] # <<>>
  <2>1. Len(calls) \in 1..Len(calls)
    BY <1>1
  <2> QED BY <1>2, <2>1 DEF CallsOK
<1>5. ListOf(Top.parent) \in Seq(Analysis)
  BY <1>3 DEF ListOf, ListsOK
<1>6. ASSUME AnyDue PROVE Top.k \in 1..Len(ListOf(Top.parent)) /\ Due \in Analysis
  <2>1. Top.k \in 1..Len(ListOf(Top.parent))
    BY <1>3, <1>4, <1>5, <1>6 DEF AnyDue
  <2> QED BY <1>5, <2>1 DEF Due
<1> QED
  BY <1>1, <1>2, <1>3, <1>4, <1>5, <1>6

\* The frames but the last one are not changed.
LEMMA FramesAre ==
  ASSUME NEW c \in Seq(FrameType), Len(c) # 0, NEW f \in FrameType
  PROVE  LET d == [c EXCEPT ![Len(c)] = f]
         IN  /\ d \in Seq(FrameType) /\ Len(d) = Len(c) /\ d[Len(c)] = f
             /\ \A i \in 1..(Len(c) - 1) : d[i] = c[i]
OBVIOUS

\* The stack with another last frame of the same list.
LEMMA FrameMoves ==
  ASSUME ListsOK, CallsOK, pc = "solve", pc' = "solve", UNCHANGED tree,
         NEW f \in FrameType, f.parent = Top.parent, f.k >= 1,
         f.parent # Net => f.point <= Points[f.parent],
         calls' = [calls EXCEPT ![Len(calls)] = f]
  PROVE  CallsOK' /\ Top' = f
<1> DEFINE n == Len(calls)
<1>1. n \in Nat \ {0} /\ calls \in Seq(FrameType)
  BY TopIs DEF CallsOK
<1>2. /\ calls' \in Seq(FrameType) /\ Len(calls') = n /\ calls'[n] = f
      /\ \A i \in 1..(n - 1) : calls'[i] = calls[i]
  BY <1>1, FramesAre
<1>3. Top' = f
  BY <1>2 DEF Top
<1>4. UNCHANGED <<children, actions>>
  BY DEF tree
<1>5. ASSUME NEW i \in 1..n
      PROVE  /\ calls'[i].k >= 1
             /\ i = 1 <=> calls'[i].parent = Net
             /\ i # 1 => /\ calls'[i].point <= Points[calls'[i].parent]
                         /\ children'[calls'[i].parent] # <<>>
  <2>1. CASE i = n
    BY <1>1, <1>2, <1>4, <2>1, TopIs
  <2>2. CASE i # n
    <3>1. i \in 1..(n - 1)
      BY <1>1, <2>2
    <3> QED BY <1>2, <1>4, <3>1 DEF CallsOK
  <2> QED BY <2>1, <2>2
<1>6. calls' # <<>>
  BY <1>1, <1>2
<1> QED
  BY <1>2, <1>3, <1>5, <1>6 DEF CallsOK

LEMMA DueHead ==
  ASSUME ListsOK, HeadsOK, CallsOK, HasDC, AnyDue, Due \in Plain
  PROVE  Top.k > 1
<1>1. pc = "solve"
  BY DEF AnyDue
<1>2. Top.k >= 1 /\ Top.k \in Nat /\ Top.k \in 1..Len(ListOf(Top.parent))
      /\ (Top.parent # Net => Top.parent \in Sweep /\ children[Top.parent] # <<>>)
  BY <1>1, TopIs DEF FrameType
<1>3. ASSUME Top.k = 1 PROVE FALSE
  <2>1. CASE Top.parent = Net
    BY <1>1, <1>3, <2>1 DEF HeadsOK, Due, ListOf
  <2>2. CASE Top.parent # Net
    BY <1>2, <1>3, <2>2 DEF HeadsOK, Due, ListOf
  <2> QED BY <2>1, <2>2
<1> QED
  BY <1>2, <1>3

\* The initialisation.
LEMMA InitializeKeeps == Inv /\ Initialize => Inv'
<1> SUFFICES ASSUME Inv, Initialize PROVE Inv'
  OBVIOUS
<1>1. /\ pc = "initialize" /\ pc' = "solve" /\ UNCHANGED <<tree, results>>
      /\ calls' = <<Frame(Net)>>
  BY DEF Initialize
<1>2. FileOK' /\ ListsOK' /\ HeadsOK'
  BY <1>1, TreeStays DEF Inv
<1>3. Frame(Net) \in FrameType /\ Frame(Net).parent = Net /\ Frame(Net).k = 1
  BY DEF Frame, FrameType
<1>4. calls' \in Seq(FrameType) /\ Len(calls') = 1 /\ calls'[1] = Frame(Net)
  BY <1>1, <1>3
<1>5. CallsOK' /\ Top'.k = 1
  BY <1>1, <1>3, <1>4 DEF CallsOK, Top
<1>6. value' \in Values
  <2>1. \A p \in Analysis : value[p] \in (Sweep \union {Net}) \X Nat
    BY DEF Inv, ResultsOK, Values
  <2> QED BY <2>1 DEF Initialize, Values
<1>7. ResultsOK'
  BY <1>1, <1>6 DEF Inv, ResultsOK, results
<1>8. FreshPoint'
  BY <1>5 DEF FreshPoint
<1> QED
  BY <1>2, <1>5, <1>7, <1>8 DEF Inv

LEMMA AssignedType ==
  ASSUME ResultsOK, FileOK, NEW parent \in Sweep \union {Net}, NEW number
  PROVE  Assigned(parent, number) \in [Single -> SUBSET Analysis]
<1> SUFFICES ASSUME NEW a \in Single
             PROVE  (IF parent # Net /\ a \in LastOrder(parent) /\ number[a] > 0
                       THEN deps[a] \union {sim[parent]} ELSE deps[a]) \in SUBSET Analysis
  BY DEF Assigned
<1> QED
  BY DEF ResultsOK, FileOK

\* An analysis that is no sweep is solved, behind the DC analysis.
LEMMA SolveSingleKeeps == Inv /\ SolveSingle => Inv'
<1> SUFFICES ASSUME Inv, SolveSingle PROVE Inv'
  OBVIOUS
<1>1. /\ AnyDue /\ Due \in Single /\ pc = "solve" /\ pc' = "solve"
      /\ UNCHANGED <<tree, value, runs, axis>>
      /\ solved' = [solved EXCEPT ![Due] = @ + 1]
      /\ deps' = Assigned(Top.parent, solved')
      /\ dcValue' = IF Due = DC THEN value ELSE dcValue
      /\ calls' = [calls EXCEPT ![Len(calls)].k = @ + 1]
  BY DEF SolveSingle, AnyDue
<1>2. FileOK' /\ ListsOK' /\ HeadsOK'
  BY <1>1, TreeStays DEF Inv
<1> DEFINE f == [parent |-> Top.parent, point |-> Top.point, k |-> Top.k + 1]
<1>3. Top \in FrameType /\ Top.k >= 1 /\ Top.parent \in Sweep \union {Net}
      /\ (Top.parent # Net => Top.point <= Points[Top.parent])
  BY <1>1, TopIs DEF Inv, FrameType
<1>4. f \in FrameType /\ f.parent = Top.parent /\ f.k >= 1 /\ f.point = Top.point
  BY <1>3 DEF FrameType
<1>5. calls' = [calls EXCEPT ![Len(calls)] = f]
  <2>1. calls[Len(calls)] \in FrameType
    BY <1>3 DEF Top
  <2>2. [calls[Len(calls)] EXCEPT !.k = @ + 1] = f
    BY <2>1 DEF FrameType, Top
  <2> QED BY <1>1, <2>2
<1> HIDE DEF f
<1>6. CallsOK'
  BY <1>1, <1>3, <1>4, <1>5, FrameMoves DEF Inv
<1>7. ResultsOK'
  <2>1. solved' \in [Single -> Nat]
    BY <1>1 DEF Inv, ResultsOK
  <2>2. deps' \in [Single -> SUBSET Analysis]
    BY <1>1, <1>3, AssignedType DEF Inv
  <2> QED BY <1>1, <2>1, <2>2 DEF Inv, ResultsOK
<1>8. FreshPoint'
  <2>1. CASE Due = DC
    BY <1>1, <2>1 DEF FreshPoint
  <2>2. CASE Due # DC
    <3>1. Due \in Plain
      BY <1>1, <2>2 DEF Single
    <3>2. HasDC' <=> HasDC
      BY <1>1 DEF HasDC, tree
    <3>3. HasDC => dcValue = value
      BY <1>1, <3>1, DueHead DEF Inv, FreshPoint
    <3> QED BY <1>1, <2>2, <3>2, <3>3 DEF FreshPoint
  <2> QED BY <2>1, <2>2
<1> QED
  BY <1>2, <1>6, <1>7, <1>8 DEF Inv

\* A parameter is set.
LEMMA ComeToType ==
  ASSUME FileOK, ResultsOK, NEW s \in Sweep, NEW point \in Nat, NEW run, ComeTo(s, point, run)
  PROVE  value' \in Values /\ axis' \in [Analysis -> Nat]
<1>1. sim[s] \in Analysis
  BY DEF FileOK
<1>2. <<s, point>> \in (Sweep \union {Net}) \X Nat
  OBVIOUS
<1> QED
  BY <1>1, <1>2 DEF ComeTo, ResultsOK, Values

LEMMA EnterSweepKeeps == Inv /\ EnterSweep => Inv'
<1> SUFFICES ASSUME Inv, EnterSweep PROVE Inv'
  OBVIOUS
<1>1. /\ AnyDue /\ Due \in Sweep /\ children[Due] # <<>> /\ pc = "solve" /\ pc' = "solve"
      /\ UNCHANGED <<tree, solved, deps, dcValue>>
      /\ runs' = [runs EXCEPT ![Due] = @ + 1]
      /\ ComeTo(Due, 1, runs'[Due])
      /\ calls' = Append(calls, Frame(Due))
  BY DEF EnterSweep, AnyDue
<1>2. FileOK' /\ ListsOK' /\ HeadsOK'
  BY <1>1, TreeStays DEF Inv
<1> DEFINE n == Len(calls)
<1>3. Frame(Due) \in FrameType /\ Frame(Due).parent = Due /\ Frame(Due).k = 1 /\ Frame(Due).point = 1
  BY <1>1 DEF Frame, FrameType
<1>4. n \in Nat \ {0} /\ calls \in Seq(FrameType)
  BY <1>1, TopIs DEF Inv, CallsOK
<1>5. /\ calls' \in Seq(FrameType) /\ Len(calls') = n + 1 /\ calls'[n + 1] = Frame(Due)
      /\ \A i \in 1..n : calls'[i] = calls[i]
  BY <1>1, <1>3, <1>4
<1>6. Due # Net /\ Points[Due] \in Nat /\ 1 <= Points[Due]
  <2>1. Due # Net
    BY <1>1, KindsDiffer DEF Analysis
  <2>2. Points[Due] \in Nat \ {0}
    BY <1>1, PointsPositive
  <2> QED BY <2>1, <2>2
<1>7. CallsOK' /\ Top'.k = 1
  <2>1. Top' = Frame(Due)
    BY <1>5 DEF Top
  <2>2. UNCHANGED children
    BY <1>1 DEF tree
  <2>3. ASSUME NEW i \in 1..(n + 1)
        PROVE  /\ calls'[i].k >= 1
               /\ i = 1 <=> calls'[i].parent = Net
               /\ i # 1 => /\ calls'[i].point <= Points[calls'[i].parent]
                           /\ children'[calls'[i].parent] # <<>>
    <3>1. CASE i = n + 1
      BY <1>1, <1>3, <1>4, <1>5, <1>6, <2>2, <3>1
    <3>2. CASE i # n + 1
      <4>1. i \in 1..n
        BY <1>4, <3>2
      <4> QED BY <1>5, <2>2, <4>1 DEF Inv, CallsOK
    <3> QED BY <3>1, <3>2
  <2>4. calls' # <<>>
    BY <1>4, <1>5
  <2> QED BY <1>1, <1>3, <1>5, <2>1, <2>3, <2>4 DEF CallsOK
<1>8. ResultsOK'
  <2>1. value' \in Values /\ axis' \in [Analysis -> Nat]
    BY <1>1, ComeToType DEF Inv
  <2>2. runs' \in [Sweep -> Nat]
    BY <1>1 DEF Inv, ResultsOK
  <2> QED BY <1>1, <2>1, <2>2 DEF Inv, ResultsOK
<1>9. FreshPoint'
  BY <1>7 DEF FreshPoint
<1> QED
  BY <1>2, <1>7, <1>8, <1>9 DEF Inv

LEMMA SweepWithoutChildKeeps == Inv /\ SweepWithoutChild => Inv'
<1> SUFFICES ASSUME Inv, SweepWithoutChild PROVE Inv'
  OBVIOUS
<1>1. /\ Due \in Sweep /\ pc = "solve" /\ pc' = "crashed"
      /\ UNCHANGED <<tree, calls, solved, deps, dcValue>>
      /\ runs' = [runs EXCEPT ![Due] = @ + 1]
      /\ ComeTo(Due, 1, runs'[Due])
  BY DEF SweepWithoutChild, AnyDue
<1>2. FileOK' /\ ListsOK' /\ HeadsOK'
  BY <1>1, TreeStays DEF Inv
<1>3. CallsOK' /\ FreshPoint'
  BY <1>1 DEF Inv, CallsOK, FreshPoint, tree
<1>4. ResultsOK'
  <2>1. value' \in Values /\ axis' \in [Analysis -> Nat]
    BY <1>1, ComeToType DEF Inv
  <2>2. runs' \in [Sweep -> Nat]
    BY <1>1 DEF Inv, ResultsOK
  <2> QED BY <1>1, <2>1, <2>2 DEF Inv, ResultsOK
<1> QED
  BY <1>2, <1>3, <1>4 DEF Inv

\* The frame of the next point.
LEMMA NextFrame ==
  ASSUME ListsOK, CallsOK, NextPoint
  PROVE  calls' = [calls EXCEPT ![Len(calls)] =
                     [parent |-> Top.parent, point |-> Top.point + 1, k |-> 1]]
<1> DEFINE f == [parent |-> Top.parent, point |-> Top.point + 1, k |-> 1]
<1>1. /\ calls' = [calls EXCEPT ![Len(calls)].point = @ + 1, ![Len(calls)].k = 1]
      /\ Len(calls) \in Nat \ {0} /\ Top \in FrameType
  BY TopIs DEF NextPoint
<1>2. calls[Len(calls)] = Top /\ calls \in Seq(FrameType)
  BY DEF Top, CallsOK
<1>3. [Top EXCEPT !.point = @ + 1, !.k = 1] = f
  <2> DEFINE T == Top
             e == [T EXCEPT !.point = @ + 1, !.k = 1]
  <2>1. DOMAIN T = {"parent", "point", "k"}
    BY <1>1 DEF FrameType
  <2> HIDE DEF T
  <2>2. /\ DOMAIN e = {"parent", "point", "k"}
        /\ e["parent"] = T["parent"] /\ e["point"] = T["point"] + 1 /\ e["k"] = 1
    BY <2>1
  <2>3. e = [x \in {"parent", "point", "k"} |-> e[x]]
    BY <2>2
  <2> HIDE DEF e
  <2>4. e = f
    BY <2>2, <2>3 DEF T
  <2> QED BY <2>4 DEF e, T
<1>4. [calls EXCEPT ![Len(calls)].point = @ + 1, ![Len(calls)].k = 1]
        = [calls EXCEPT ![Len(calls)] = [Top EXCEPT !.point = @ + 1, !.k = 1]]
  BY <1>1, <1>2 DEF Top
<1> QED
  BY <1>1, <1>3, <1>4

LEMMA NextPointKeeps == Inv /\ NextPoint => Inv'
<1> SUFFICES ASSUME Inv, NextPoint PROVE Inv'
  OBVIOUS
<1>1. /\ pc = "solve" /\ pc' = "solve" /\ Top.parent # Net /\ Top.point < Points[Top.parent]
      /\ UNCHANGED <<tree, runs, solved, deps, dcValue>>
      /\ ComeTo(Top.parent, Top.point + 1, runs[Top.parent])
      /\ calls' = [calls EXCEPT ![Len(calls)].point = @ + 1, ![Len(calls)].k = 1]
  BY DEF NextPoint
<1>2. FileOK' /\ ListsOK' /\ HeadsOK'
  BY <1>1, TreeStays DEF Inv
<1> DEFINE f == [parent |-> Top.parent, point |-> Top.point + 1, k |-> 1]
<1>3. Len(calls) \in Nat \ {0} /\ Top \in FrameType /\ Top.parent \in Sweep /\ Top.point \in Nat
      /\ Points[Top.parent] \in Nat
  BY <1>1, TopIs, PointsPositive DEF Inv, FrameType
<1>4. f \in FrameType /\ f.parent = Top.parent /\ f.k = 1 /\ f.point <= Points[f.parent]
  BY <1>1, <1>3 DEF FrameType
<1>5. calls' = [calls EXCEPT ![Len(calls)] = f]
  BY NextFrame DEF Inv
<1> HIDE DEF f
<1>6. CallsOK' /\ Top'.k = 1
  <2>1. f.k >= 1 /\ f.point <= Points[f.parent]
    BY <1>4
  <2>2. CallsOK' /\ Top' = f
    BY <1>1, <1>4, <1>5, <2>1, FrameMoves DEF Inv
  <2> QED BY <1>4, <2>2
<1>7. ResultsOK'
  <2>1. value' \in Values /\ axis' \in [Analysis -> Nat]
    <3>1. Top.point + 1 \in Nat
      BY <1>3
    <3> QED BY <1>1, <1>3, <3>1, ComeToType DEF Inv
  <2> QED BY <1>1, <2>1 DEF Inv, ResultsOK
<1>8. FreshPoint'
  BY <1>6 DEF FreshPoint
<1> QED
  BY <1>2, <1>6, <1>7, <1>8 DEF Inv

\* The stack without its last frame.
LEMMA LeftFrames ==
  ASSUME ListsOK, CallsOK, LeaveSweep
  PROVE  \E o \in Nat \ {0} :
           /\ Len(calls) = o + 1 /\ calls[o] \in FrameType
           /\ calls' \in Seq(FrameType) /\ Len(calls') = o
           /\ \A i \in 1..(o - 1) : calls'[i] = calls[i]
           /\ calls'[o] = [parent |-> calls[o].parent, point |-> calls[o].point,
                           k |-> calls[o].k + 1]
           /\ deps' = Assigned(calls[o].parent, solved)
<1> DEFINE o == Len(calls) - 1
           front == SubSeq(calls, 1, o)
           f == [parent |-> front[o].parent, point |-> front[o].point, k |-> front[o].k + 1]
<1>1. calls' = [front EXCEPT ![o].k = @ + 1] /\ deps' = Assigned(calls[o].parent, solved)
  BY DEF LeaveSweep
<1>2. Len(calls) \in Nat \ {0} /\ calls \in Seq(FrameType) /\ Len(calls) # 1
  BY TopIs DEF LeaveSweep, CallsOK
<1>3. o \in Nat \ {0} /\ o \in 1..Len(calls) /\ Len(calls) = o + 1
  <2>1. \A m \in Nat \ {0} : m # 1 => m - 1 \in Nat \ {0} /\ m - 1 \in 1..m /\ m = (m - 1) + 1
    OBVIOUS
  <2> QED BY <1>2, <2>1
<1>4. front \in Seq(FrameType) /\ Len(front) = o /\ \A i \in 1..o : front[i] = calls[i]
  BY <1>2, <1>3
<1>5. front[o] \in FrameType /\ front[o] = calls[o]
  BY <1>3, <1>4
<1>6. f \in FrameType /\ [front[o] EXCEPT !.k = @ + 1] = f
  <2> HIDE DEF front, o
  <2> QED BY <1>5 DEF FrameType
<1>7. calls' = [front EXCEPT ![o] = f]
  BY <1>1, <1>6
<1>8. f = [parent |-> calls[o].parent, point |-> calls[o].point, k |-> calls[o].k + 1]
  BY <1>5
<1> HIDE DEF front, f, o
<1>9. /\ calls' \in Seq(FrameType) /\ Len(calls') = o /\ calls'[o] = f
      /\ \A i \in 1..(o - 1) : calls'[i] = front[i]
  BY <1>3, <1>4, <1>6, <1>7, FramesAre
<1>10. \A i \in 1..(o - 1) : i \in 1..o
  BY <1>3
<1> QED
  BY <1>1, <1>3, <1>4, <1>5, <1>8, <1>9, <1>10

\* A sweep that is left has solved its first child, and with it the DC analysis.
LEMMA LeaveSweepKeeps == Inv /\ LeaveSweep => Inv'
<1> SUFFICES ASSUME Inv, LeaveSweep PROVE Inv'
  OBVIOUS
<1>1. /\ pc = "solve" /\ pc' = "solve" /\ ~AnyDue /\ Top.parent # Net
      /\ UNCHANGED <<tree, value, runs, solved, axis, dcValue>>
  BY DEF LeaveSweep
<1>2. FileOK' /\ ListsOK' /\ HeadsOK'
  BY <1>1, TreeStays DEF Inv
<1>3. PICK o \in Nat \ {0} :
        /\ Len(calls) = o + 1 /\ calls[o] \in FrameType
        /\ calls' \in Seq(FrameType) /\ Len(calls') = o
        /\ \A i \in 1..(o - 1) : calls'[i] = calls[i]
        /\ calls'[o] = [parent |-> calls[o].parent, point |-> calls[o].point,
                        k |-> calls[o].k + 1]
        /\ deps' = Assigned(calls[o].parent, solved)
  BY LeftFrames DEF Inv
<1>4. Top \in FrameType /\ Top.k >= 1 /\ Top.parent \in Sweep /\ children[Top.parent] # <<>>
  BY <1>1, TopIs DEF Inv
<1>5. UNCHANGED children
  BY <1>1 DEF tree
<1>6. \A i \in 1..o : /\ calls[i].k >= 1
                      /\ i = 1 <=> calls[i].parent = Net
                      /\ i # 1 => /\ calls[i].point <= Points[calls[i].parent]
                                  /\ children[calls[i].parent] # <<>>
  <2>1. \A i \in 1..o : i \in 1..Len(calls)
    BY <1>3
  <2> QED BY <2>1 DEF Inv, CallsOK
<1>7. ASSUME NEW i \in 1..o
      PROVE  /\ calls'[i].k >= 1
             /\ i = 1 <=> calls'[i].parent = Net
             /\ i # 1 => /\ calls'[i].point <= Points[calls'[i].parent]
                         /\ children'[calls'[i].parent] # <<>>
  <2>1. CASE i = o
    <3>1. calls[o].k >= 1 /\ calls[o].k \in Nat
      BY <1>3, <1>6 DEF FrameType
    <3>2. calls'[i].k = calls[o].k + 1 /\ calls'[i].parent = calls[o].parent
          /\ calls'[i].point = calls[o].point
      BY <1>3, <2>1
    <3> QED BY <1>5, <1>6, <2>1, <3>1, <3>2
  <2>2. CASE i # o
    <3>1. i \in 1..(o - 1)
      BY <2>2
    <3> QED BY <1>3, <1>5, <1>6, <3>1
  <2> QED BY <2>1, <2>2
<1>8. CallsOK'
  <2>1. calls' # <<>>
    BY <1>3
  <2> QED BY <1>1, <1>3, <1>7, <2>1 DEF CallsOK
<1>9. ResultsOK'
  <2>1. calls[o].parent \in Sweep \union {Net}
    BY <1>3 DEF FrameType
  <2>2. deps' \in [Single -> SUBSET Analysis]
    BY <1>3, <2>1, AssignedType DEF Inv
  <2> QED BY <1>1, <2>2 DEF Inv, ResultsOK
<1>10. FreshPoint'
  <2>1. ListOf(Top.parent) = children[Top.parent] /\ children[Top.parent] \in Seq(Analysis)
    BY <1>1, <1>4 DEF ListOf, Inv, ListsOK
  <2>2. Top.k > 1
    BY <1>1, <1>4, <2>1 DEF AnyDue, FrameType
  <2>3. HasDC' <=> HasDC
    BY <1>1 DEF HasDC, tree
  <2> QED BY <1>1, <2>2, <2>3 DEF Inv, FreshPoint
<1> QED
  BY <1>2, <1>8, <1>9, <1>10 DEF Inv

LEMMA InitKeeps == Init => Inv
<1> SUFFICES ASSUME Init PROVE Inv
  OBVIOUS
<1>1. FileOK
  BY FilesAreLists DEF Init, FileOK, IsInjective
<1>2. /\ actions \in Seq(Analysis) /\ IsInjective(actions) /\ Range(actions) = Range(file)
  BY <1>1, BackwardsIs DEF Init, FileOK
<1>3. ListsOK
  <2>1. children \in [Sweep -> Seq(Analysis)] /\ \A s \in Sweep : children[s] = <<>>
    BY DEF Init
  <2> QED BY <1>2, <2>1 DEF Init, ListsOK, Present
<1>4. HeadsOK
  <2>1. \A s \in Sweep : children[s] = <<>>
    BY DEF Init
  <2>2. HasDC => Reaches(actions)
    BY <1>2 DEF HasDC, Present, Reaches
  <2> QED BY <2>1, <2>2 DEF Init, HeadsOK
<1>5. CallsOK /\ FreshPoint
  BY DEF Init, CallsOK, FreshPoint
<1>6. ResultsOK
  <2>1. <<Net, 0>> \in (Sweep \union {Net}) \X Nat
    OBVIOUS
  <2>2. value \in Values
    BY <2>1 DEF Init, Values
  <2> QED BY <2>2 DEF Init, ResultsOK
<1> QED
  BY <1>1, <1>3, <1>4, <1>5, <1>6 DEF Inv

LEMMA Invariant == Spec => []Inv
<1>1. Inv /\ [Next]_vars => Inv'
  <2> SUFFICES ASSUME Inv, [Next]_vars PROVE Inv'
    OBVIOUS
  <2>1. CASE OrderRound
    <3>1. ListsOK' /\ HeadsOK'
      BY <2>1, OrderRoundKeeps DEF Inv
    <3>2. FileOK' /\ ResultsOK' /\ FreshPoint'
      BY <2>1 DEF OrderRound, Inv, FileOK, ResultsOK, results, FreshPoint
    <3>3. CallsOK'
      <4>1. UNCHANGED <<pc, calls>> /\ pc = "order"
        BY <2>1 DEF OrderRound
      <4>2. \A s \in Sweep : children[s] # <<>> => children'[s] # <<>>
        <5>1. PICK hosts : Round(sim[Parent], hosts)
          BY <2>1, RoundIs DEF Inv
        <5>2. Group(sim[Parent]) # <<>>
          BY <5>1, GroupIs DEF Round
        <5> QED BY <5>1, <5>2 DEF Round
      <4>3. \A i \in 1..Len(calls) : calls[i].parent \in Sweep \union {Net}
        <5>1. \A f \in FrameType : f.parent \in Sweep \union {Net}
          BY DEF FrameType
        <5>2. calls \in Seq(FrameType)
          BY DEF Inv, CallsOK
        <5>3. \A i \in 1..Len(calls) : calls[i] \in FrameType
          BY <5>2
        <5> QED BY <5>1, <5>3
      <4> QED BY <4>1, <4>2, <4>3 DEF Inv, CallsOK
    <3> QED BY <3>1, <3>2, <3>3 DEF Inv
  <2>2. CASE OrderDone
    <3>1. ListsOK' /\ HeadsOK'
      BY <2>2, OrderDoneKeeps DEF Inv
    <3> QED BY <2>2, <3>1 DEF OrderDone, Inv, FileOK, CallsOK, ResultsOK, results, FreshPoint
  <2>3. CASE Finish
    <3>1. FileOK' /\ ListsOK' /\ HeadsOK'
      BY <2>3, TreeStays DEF Finish, Inv
    <3> QED BY <2>3, <3>1 DEF Finish, Inv, CallsOK, ResultsOK, results, FreshPoint, tree
  <2>4. CASE UNCHANGED vars
    BY <2>4 DEF vars, tree, results, Inv, FileOK, ListsOK, HeadsOK, HasDC, Reaches, ContainsDC, Telling,
                CallsOK, ResultsOK, FreshPoint, Top
  <2> QED BY <2>1, <2>2, <2>3, <2>4, InitializeKeeps, SolveSingleKeeps, EnterSweepKeeps,
             SweepWithoutChildKeeps, NextPointKeeps, LeaveSweepKeeps DEF Next
<1> QED
  BY <1>1, InitKeeps, PTL DEF Spec

\* The variables keep their types: no sweep goes beyond its last point.
THEOREM AnalysisTypes == Spec => []TypeOK
<1>1. Inv => TypeOK
  <2> SUFFICES ASSUME Inv PROVE TypeOK
    OBVIOUS
  <2>1. \A i \in 2..Len(calls) : i \in 1..Len(calls) /\ i # 1
    BY DEF Inv, CallsOK
  <2> QED BY <2>1 DEF Inv, TypeOK, FileOK, ListsOK, CallsOK, ResultsOK, FrameType, Values
<1> QED
  BY <1>1, Invariant, PTL

\* Whenever an analysis is solved that needs an operating point, the DC analysis has
\* been solved with the same values of the parameters.
THEOREM PointsAreOperated == Spec => StartsFromItsPoint
<1>1. Inv /\ [Next]_vars =>
        [\A a \in Plain : solved'[a] # solved[a] /\ HasDC => dcValue = value]_vars
  <2> SUFFICES ASSUME Inv, Next, NEW a \in Plain, solved'[a] # solved[a], HasDC
               PROVE  dcValue = value
    OBVIOUS
  <2>1. SolveSingle
    BY DEF Next, OrderRound, OrderDone, Initialize, EnterSweep, SweepWithoutChild, NextPoint,
           LeaveSweep, Finish, results
  <2>2. Due = a
    BY <2>1 DEF SolveSingle, Inv, ResultsOK, Single
  <2> QED BY <2>1, <2>2, DueHead DEF Inv, FreshPoint, SolveSingle, AnyDue
<1> QED
  BY <1>1, Invariant, PTL DEF Spec, StartsFromItsPoint

-----------------------------------------------------------------------------
\* The tree.

\* What has left the list is where it belongs.  A sweep has the group of what it names
\* or nothing; one that left has lost its child before; the child was named, the DC
\* analysis named or taken along.
TreeOK ==
  /\ \A s \in Sweep : children[s] \in {<<>>, Group(sim[s])}
  /\ \A s \in Sweep \ Present(file) : children[s] = <<>>
  /\ \A a \in Present(file) \ Range(actions) : a # DC => NamedBy(a) # {}
  /\ DC \in Present(file) \ Range(actions) => NamedBy(DC) # {} \/ applied
  /\ applied => Hosts # {} /\ HasDC /\ DC \notin Range(actions)
  /\ HasDC => \A c \in (Plain \intersect Present(file)) \ Range(actions) : applied
  /\ pc = "order" => \A s \in (Sweep \intersect Present(file)) \ Range(actions) :
                        sim[s] \notin Range(actions)
  /\ pc # "order" => \A a \in Range(actions) : NamedBy(a) = {}

LEMMA RoundGrows ==
  ASSUME FileOK, ListsOK, TreeOK, OrderRound
  PROVE  TreeOK'
<1> DEFINE child == sim[Parent]
<1>1. PICK hosts : Round(child, hosts)
  BY RoundIs
<1> HIDE DEF child
<1>2. /\ pc = "order" /\ pc' = "order" /\ UNCHANGED <<file, sim>>
      /\ Parent \in Sweep \intersect Present(file) /\ child = sim[Parent]
      /\ child \in Range(actions) \intersect Analysis /\ ~ChildListed(child)
      /\ Range(actions') = (Range(actions) \ {child})
                             \ (IF NeedsDC(child) /\ ~applied THEN {DC} ELSE {})
      /\ applied' = (applied \/ NeedsDC(child))
      /\ \A s \in hosts : s \in Sweep \intersect Present(file) /\ sim[s] = child
      /\ \A s \in Sweep : children'[s] = IF s \in hosts THEN Group(child) ELSE children[s]
  BY <1>1 DEF Round, ListsOK
<1>4. DC \notin Sweep /\ DC \notin Plain
  BY KindsDiffer
<1>5. Parent \in NamedBy(child) /\ (NeedsDC(child) => Parent \in Hosts /\ HasDC)
  BY <1>2 DEF NamedBy, Hosts, NeedsDC
<1>6. /\ \A s \in Sweep : children'[s] \in {<<>>, Group(sim[s])}
      /\ \A s \in Sweep \ Present(file) : children'[s] = <<>>
  BY <1>2 DEF TreeOK
<1>7. ASSUME NEW a \in Present(file) \ Range(actions'), a # DC PROVE NamedBy(a) # {}
  <2>1. a \notin Range(actions) \/ a = child
    BY <1>2, <1>7
  <2> QED BY <1>5, <1>7, <2>1 DEF TreeOK
<1>8. ASSUME DC \in Present(file) \ Range(actions') PROVE NamedBy(DC) # {} \/ applied'
  <2>1. DC \notin Range(actions) \/ DC = child \/ NeedsDC(child)
    BY <1>2, <1>8
  <2> QED BY <1>2, <1>5, <1>8, <2>1 DEF TreeOK
<1>9. ASSUME applied' PROVE Hosts # {} /\ HasDC /\ DC \notin Range(actions')
  <2>1. CASE applied
    BY <1>2, <2>1 DEF TreeOK
  <2>2. CASE ~applied
    BY <1>2, <1>5, <1>9, <2>2
  <2> QED BY <2>1, <2>2
<1>10. ASSUME HasDC, NEW c \in (Plain \intersect Present(file)) \ Range(actions') PROVE applied'
  <2>1. c \notin Range(actions) \/ c = child
    BY <1>2, <1>4, <1>10
  <2>2. c = child => NeedsDC(child)
    BY <1>10 DEF NeedsDC
  <2> QED BY <1>2, <1>10, <2>1, <2>2 DEF TreeOK
<1>11. ASSUME NEW s \in (Sweep \intersect Present(file)) \ Range(actions')
       PROVE  sim[s] \notin Range(actions')
  <2>1. s \notin Range(actions) \/ s = child
    BY <1>2, <1>4, <1>11
  <2>2. s = child => sim[s] \notin Range(actions)
    BY <1>2, <1>11 DEF ChildListed
  <2> QED BY <1>2, <1>11, <2>1, <2>2 DEF TreeOK
<1>12. (/\ \A s \in Sweep : children[s] \in {<<>>, Group(sim[s])}
        /\ \A s \in Sweep \ Present(file) : children[s] = <<>>)'
  BY <1>2, <1>6 DEF Group, NeedsDC, HasDC, Present
<1>13. (/\ \A a \in Present(file) \ Range(actions) : a # DC => NamedBy(a) # {}
        /\ DC \in Present(file) \ Range(actions) => NamedBy(DC) # {} \/ applied
        /\ pc # "order" => \A a \in Range(actions) : NamedBy(a) = {})'
  BY <1>2, <1>7, <1>8 DEF NamedBy, Present
<1>14. (/\ applied => Hosts # {} /\ HasDC /\ DC \notin Range(actions)
        /\ HasDC => \A c \in (Plain \intersect Present(file)) \ Range(actions) : applied
        /\ pc = "order" => \A s \in (Sweep \intersect Present(file)) \ Range(actions) :
                              sim[s] \notin Range(actions))'
  BY <1>2, <1>9, <1>10, <1>11 DEF Hosts, HasDC, Present
<1> QED
  BY <1>12, <1>13, <1>14 DEF TreeOK

\* At the end nothing is left in the list that a sweep names: what it would name in
\* turn would be in the list as well.
LEMMA DoneGrows ==
  ASSUME FileOK, ListsOK, TreeOK, OrderDone
  PROVE  TreeOK'
<1>1. /\ pc = "order" /\ pc' = "initialize" /\ UNCHANGED <<file, sim, children, applied>>
      /\ actions' = Sorted(actions) /\ \A a \in Range(actions) : ~SecondOrder(a)
  BY DEF OrderDone
<1>2. Range(actions') = Range(actions)
  BY <1>1, SortedIs DEF ListsOK
<1> DEFINE present == Sweep \intersect Present(file)
           S == {s \in present : sim[s] \in Range(actions)}
<1>4. ASSUME NEW s \in S PROVE sim[s] \in S
  <2>1. s \in Range(actions) /\ s \in Sweep
    BY <1>1, <1>4 DEF TreeOK
  <2>2. ChildListed(s) /\ ~SecondOrder(s)
    BY <1>1, <1>4, <2>1 DEF ChildListed
  <2>3. sim[s] \in Sweep /\ sim[sim[s]] \in Range(actions)
    BY <2>2 DEF SecondOrder, ChildListed
  <2> QED BY <1>4, <2>3 DEF ListsOK
<1>5. S = {}
  <2>1. S \in SUBSET present
    OBVIOUS
  <2>2. S # {} => \E s \in S : sim[s] \notin S
    <3> HIDE DEF S
    <3> QED BY <2>1 DEF FileOK, Accepted
  <2> QED BY <1>4, <2>2
<1>6. \A a \in Range(actions) : NamedBy(a) = {}
  BY <1>5 DEF NamedBy
<1>7. (/\ \A s \in Sweep : children[s] \in {<<>>, Group(sim[s])}
       /\ \A s \in Sweep \ Present(file) : children[s] = <<>>)'
  BY <1>1 DEF TreeOK, Group, NeedsDC, HasDC, Present
<1>8. (/\ \A a \in Present(file) \ Range(actions) : a # DC => NamedBy(a) # {}
       /\ DC \in Present(file) \ Range(actions) => NamedBy(DC) # {} \/ applied
       /\ pc # "order" => \A a \in Range(actions) : NamedBy(a) = {})'
  BY <1>1, <1>2, <1>6 DEF TreeOK, NamedBy, Present
<1>9. (/\ applied => Hosts # {} /\ HasDC /\ DC \notin Range(actions)
       /\ HasDC => \A c \in (Plain \intersect Present(file)) \ Range(actions) : applied)'
  BY <1>1, <1>2 DEF TreeOK, Hosts, HasDC, Present
<1>10. (pc = "order" => \A s \in (Sweep \intersect Present(file)) \ Range(actions) :
                           sim[s] \notin Range(actions))'
  BY <1>1
<1> QED
  BY <1>7, <1>8, <1>9, <1>10 DEF TreeOK

LEMMA TreeOKStays ==
  ASSUME TreeOK, UNCHANGED tree, pc # "order", pc' # "order"
  PROVE  TreeOK'
BY DEF tree, TreeOK, HasDC, Hosts, NamedBy, Group, NeedsDC

LEMMA TreeGrows == Spec => []TreeOK
<1>1. Init => TreeOK
  <2> SUFFICES ASSUME Init PROVE TreeOK
    OBVIOUS
  <2>1. file \in Seq(Analysis) /\ Range(actions) = Present(file)
    BY FilesAreLists, BackwardsIs DEF Init, Present
  <2>2. \A s \in Sweep : children[s] = <<>>
    BY DEF Init
  <2> QED BY <2>1, <2>2 DEF Init, TreeOK
<1>2. Inv /\ TreeOK /\ [Next]_vars => TreeOK'
  <2> SUFFICES ASSUME Inv, TreeOK, [Next]_vars PROVE TreeOK'
    OBVIOUS
  <2>1. CASE OrderRound
    BY <2>1, RoundGrows DEF Inv
  <2>2. CASE OrderDone
    BY <2>2, DoneGrows DEF Inv
  <2>3. CASE UNCHANGED vars
    BY <2>3 DEF vars, tree, TreeOK, HasDC, Hosts, NamedBy, Group, NeedsDC
  <2>4. CASE Next /\ ~OrderRound /\ ~OrderDone
    <3>1. UNCHANGED tree /\ pc # "order" /\ pc' # "order"
      BY <2>4 DEF Next, Initialize, SolveSingle, EnterSweep, SweepWithoutChild, NextPoint,
                  LeaveSweep, Finish, AnyDue
    <3> QED BY <3>1, TreeOKStays
  <2> QED BY <2>1, <2>2, <2>3, <2>4
<1> QED
  BY <1>1, <1>2, Invariant, PTL DEF Spec

-----------------------------------------------------------------------------
\* Totals.

\* The sums that Total runs through.
Sums(g, list, S, f) ==
  /\ g \in [0..Len(list) -> Int] /\ g[0] = 0
  /\ \A i \in 1..Len(list) : g[i] = IF list[i] \in S THEN g[i - 1] + f[list[i]] ELSE g[i - 1]

LEMMA TotalRuns ==
  ASSUME NEW list \in Seq(Analysis), NEW S, NEW f, \A a \in S \intersect Range(list) : f[a] \in Int
  PROVE  \E g : Sums(g, list, S, f) /\ Total(list, S, f) = g[Len(list)]
<1> DEFINE n == Len(list)
           V == Int
           first == 0
           Add(r, i) == IF list[i] \in S THEN r + f[list[i]] ELSE r
           step == [p \in (1..n) \X V |-> Add(p[2], p[1])]
           Body(g) == [i \in 0..n |-> IF i = 0 THEN first ELSE Add(g[i - 1], i)]
           h == CHOOSE g : g = Body(g)
<1>1. n \in Nat /\ first \in V
  OBVIOUS
<1>2. \A i \in 1..n, r \in V : Add(r, i) \in V
  <2> SUFFICES ASSUME NEW i \in 1..n, NEW r \in Int, list[i] \in S PROVE r + f[list[i]] \in Int
    OBVIOUS
  <2>1. list[i] \in Range(list)
    BY DEF Range
  <2> QED BY <2>1
<1>3. Total(list, S, f) = h[n]
  BY DEF Total, Rounds
<1> HIDE DEF n, V, first, Add
<1>4. step \in Steps(n, V)
  BY <1>2 DEF Steps
<1>5. PICK g : Run(g, n, V, first, step)
  <2> HIDE DEF step
  <2> QED BY <1>1, <1>4, RunOfRounds
<1>6. \A i \in 1..n : g[i] = Add(g[i - 1], i)
  BY <1>5 DEF Run
<1>7. g = Body(g)
  <2>1. \A i \in 0..n : i = 0 \/ i \in 1..n
    BY <1>1
  <2>2. \A i \in 0..n : g[i] = Body(g)[i]
    BY <1>5, <1>6, <2>1 DEF Run
  <2> QED BY <1>5, <2>2 DEF Run
<1>8. h = Body(h)
  <2> HIDE DEF Body
  <2> QED BY <1>7
<1>9. h[0] = first /\ \A i \in 1..n : h[i - 1] \in V => h[i] = step[<<i, h[i - 1]>>]
  <2> HIDE DEF h
  <2>1. 0 \in 0..n /\ \A i \in 1..n : i \in 0..n /\ i # 0
    BY <1>1
  <2> QED BY <1>8, <2>1
<1> HIDE DEF h, step
<1>10. h[n] = g[n]
  BY <1>1, <1>5, <1>9 DEF Run
<1> QED
  BY <1>3, <1>5, <1>6, <1>10 DEF Run, Sums, n, V, first, Add

\* A total is a number, and depends on nothing but the summands.
LEMMA TotalSame ==
  ASSUME NEW list \in Seq(Analysis), NEW S, NEW T, NEW f, NEW e,
         \A a \in Range(list) : a \in S <=> a \in T,
         \A a \in S \intersect Range(list) : f[a] \in Int /\ e[a] = f[a]
  PROVE  Total(list, S, f) \in Int /\ Total(list, T, e) = Total(list, S, f)
<1> DEFINE n == Len(list)
<1>1. n \in Nat /\ \A i \in 1..n : list[i] \in Range(list)
  BY DEF Range
<1>2. PICK g : Sums(g, list, S, f) /\ Total(list, S, f) = g[n]
  BY TotalRuns
<1>3. PICK h : Sums(h, list, T, e) /\ Total(list, T, e) = h[n]
  BY TotalRuns
<1> DEFINE E == {i \in 0..n : h[i] = g[i]}
<1>4. 0 \in E
  BY <1>1, <1>2, <1>3 DEF Sums
<1>5. ASSUME NEW m \in 0..(n - 1), m \in E PROVE m + 1 \in E
  <2>1. m + 1 \in 1..n /\ (m + 1) - 1 = m /\ m + 1 \in 0..n
    BY <1>1
  <2>2. g[m + 1] = IF list[m + 1] \in S THEN g[m] + f[list[m + 1]] ELSE g[m]
    BY <1>2, <2>1 DEF Sums
  <2>3. h[m + 1] = IF list[m + 1] \in T THEN h[m] + e[list[m + 1]] ELSE h[m]
    BY <1>3, <2>1 DEF Sums
  <2>4. list[m + 1] \in Range(list)
    BY <1>1, <2>1
  <2> QED BY <1>5, <2>1, <2>2, <2>3, <2>4
<1>6. 0..n \subseteq E
  <2> HIDE DEF E
  <2> QED BY <1>1, <1>4, <1>5, InductionUpTo
<1> QED
  BY <1>1, <1>2, <1>3, <1>6 DEF Sums

\* One summand more by one: so is the total.
LEMMA TotalMore ==
  ASSUME NEW list \in Seq(Analysis), IsInjective(list), NEW S, NEW f, NEW e,
         NEW x \in S \intersect Range(list),
         \A a \in S \intersect Range(list) : f[a] \in Int /\ e[a] = f[a] + (IF a = x THEN 1 ELSE 0)
  PROVE  Total(list, S, e) = Total(list, S, f) + 1
<1> DEFINE n == Len(list)
<1>1. n \in Nat /\ DOMAIN list = 1..n /\ \A i \in 1..n : list[i] \in Range(list)
  BY DEF Range
<1>2. PICK p \in 1..n : list[p] = x
  BY <1>1 DEF Range
<1>3. \A i \in 1..n : list[i] = x <=> i = p
  BY <1>1, <1>2 DEF IsInjective
<1>4. PICK g : Sums(g, list, S, f) /\ Total(list, S, f) = g[n]
  BY TotalRuns
<1>5. PICK h : Sums(h, list, S, e) /\ Total(list, S, e) = h[n]
  BY TotalRuns
<1> DEFINE E == {i \in 0..n : h[i] = g[i] + (IF i >= p THEN 1 ELSE 0)}
<1>6. 0 \in E
  BY <1>1, <1>2, <1>4, <1>5 DEF Sums
<1>7. ASSUME NEW m \in 0..(n - 1), m \in E PROVE m + 1 \in E
  <2>1. m + 1 \in 1..n /\ (m + 1) - 1 = m /\ m + 1 \in 0..n /\ m \in 0..n /\ m \in Int
    BY <1>1
  <2>2. /\ g[m] \in Int /\ h[m] = g[m] + (IF m >= p THEN 1 ELSE 0)
        /\ g[m + 1] = IF list[m + 1] \in S THEN g[m] + f[list[m + 1]] ELSE g[m]
        /\ h[m + 1] = IF list[m + 1] \in S THEN h[m] + e[list[m + 1]] ELSE h[m]
    BY <1>4, <1>5, <1>7, <2>1 DEF Sums
  <2>3. CASE m + 1 = p
    <3>1. list[m + 1] = x /\ x \in S /\ e[x] = f[x] + 1 /\ f[x] \in Int
      BY <1>2, <2>3
    <3>2. ~(m >= p) /\ m + 1 >= p
      BY <2>1, <2>3
    <3> QED BY <2>1, <2>2, <3>1, <3>2
  <2>4. CASE m + 1 # p
    <3>1. list[m + 1] # x /\ list[m + 1] \in Range(list)
      BY <1>1, <1>3, <2>1, <2>4
    <3>2. list[m + 1] \in S => e[list[m + 1]] = f[list[m + 1]] /\ f[list[m + 1]] \in Int
      BY <3>1
    <3>3. m >= p <=> m + 1 >= p
      BY <2>1, <2>4
    <3> QED BY <2>1, <2>2, <3>2, <3>3
  <2> QED BY <2>3, <2>4
<1>8. 0..n \subseteq E
  <2> HIDE DEF E
  <2> QED BY <1>1, <1>6, <1>7, InductionUpTo
<1>9. n \in 0..n /\ n >= p /\ g[n] \in Int
  BY <1>1, <1>2, <1>4 DEF Sums
<1> QED
  BY <1>4, <1>5, <1>8, <1>9

\* A total of natural numbers is at least each of them, and 0 without any.
LEMMA TotalAtLeast ==
  ASSUME NEW list \in Seq(Analysis), NEW S, NEW f,
         \A a \in S \intersect Range(list) : f[a] \in Nat
  PROVE  /\ Total(list, S, f) \in Nat
         /\ \A a \in S \intersect Range(list) : f[a] <= Total(list, S, f)
         /\ (\A a \in S \intersect Range(list) : f[a] = 0) => Total(list, S, f) = 0
<1> DEFINE n == Len(list)
<1>1. n \in Nat /\ DOMAIN list = 1..n /\ \A i \in 1..n : list[i] \in Range(list)
  BY DEF Range
<1>2. PICK g : Sums(g, list, S, f) /\ Total(list, S, f) = g[n]
  BY TotalRuns
<1> DEFINE E == {i \in 0..n : /\ g[i] \in Nat
                              /\ \A j \in 1..i : list[j] \in S => f[list[j]] <= g[i]
                              /\ (\A a \in S \intersect Range(list) : f[a] = 0) => g[i] = 0}
<1>3. 0 \in E
  BY <1>1, <1>2 DEF Sums
<1>4. ASSUME NEW m \in 0..(n - 1), m \in E PROVE m + 1 \in E
  <2>1. m + 1 \in 1..n /\ (m + 1) - 1 = m /\ m + 1 \in 0..n /\ m \in 0..n /\ m \in Int
    BY <1>1
  <2>2. /\ g[m] \in Nat /\ g[m + 1] = IF list[m + 1] \in S THEN g[m] + f[list[m + 1]] ELSE g[m]
        /\ list[m + 1] \in S => f[list[m + 1]] \in Nat
        /\ \A j \in 1..m : list[j] \in S => f[list[j]] <= g[m]
    BY <1>1, <1>2, <1>4, <2>1 DEF Sums
  <2>3. g[m + 1] \in Nat /\ g[m] <= g[m + 1] /\ (list[m + 1] \in S => f[list[m + 1]] <= g[m + 1])
    BY <2>2
  <2>4. ASSUME NEW j \in 1..(m + 1), list[j] \in S PROVE f[list[j]] <= g[m + 1]
    <3>1. CASE j = m + 1
      BY <2>3, <2>4, <3>1
    <3>2. CASE j # m + 1
      <4>1. j \in 1..m /\ j \in 1..n
        BY <2>1, <3>2
      <4>2. f[list[j]] \in Nat
        BY <1>1, <2>4, <4>1
      <4> QED BY <2>2, <2>3, <2>4, <4>1, <4>2
    <3> QED BY <3>1, <3>2
  <2>5. ASSUME \A a \in S \intersect Range(list) : f[a] = 0 PROVE g[m + 1] = 0
    BY <1>1, <1>4, <2>1, <2>2, <2>5
  <2> QED BY <2>1, <2>3, <2>4, <2>5
<1>5. n \in E
  <2> HIDE DEF E
  <2>1. 0..n \subseteq E
    BY <1>1, <1>3, <1>4, InductionUpTo
  <2> QED BY <1>1, <2>1
<1>6. \A a \in S \intersect Range(list) : \E j \in 1..n : list[j] = a
  BY <1>1 DEF Range
<1> QED
  BY <1>2, <1>5, <1>6

-----------------------------------------------------------------------------
\* The stack of calls.

\* Each sweep of the stack is the child that is due in the frame below it.
Chained(stack) ==
  \A i \in 1..(Len(stack) - 1) :
    /\ stack[i].k \in 1..Len(ListOf(stack[i].parent))
    /\ stack[i + 1].parent = ListOf(stack[i].parent)[stack[i].k]

\* No list is solved within itself.
Distinct(stack) ==
  \A i, j \in 1..Len(stack) : stack[i].parent = stack[j].parent => i = j

\* What is in a list.
LEMMA ListsAre ==
  ASSUME FileOK, ListsOK, TreeOK
  PROVE  /\ \A q \in Sweep \union {Net} : ListOf(q) \in Seq(Analysis) /\ IsInjective(ListOf(q))
                                          /\ Range(ListOf(q)) \subseteq Present(file)
         /\ \A s \in Sweep : children[s] # <<>> =>
              /\ s \in Present(file) /\ sim[s] \in Range(children[s])
              /\ \A c \in Range(children[s]) : c # DC => c = sim[s]
<1>1. Net \notin Sweep
  BY KindsDiffer DEF Analysis
<1>2. ASSUME NEW s \in Sweep, children[s] # <<>>
      PROVE  /\ s \in Present(file) /\ sim[s] \in Present(file)
             /\ children[s] = Group(sim[s]) /\ sim[s] \in Analysis
  BY <1>2 DEF TreeOK, FileOK, Accepted
<1>3. ASSUME NEW s \in Sweep, children[s] # <<>>
      PROVE  /\ children[s] \in Seq(Analysis) /\ IsInjective(children[s])
             /\ Range(children[s]) \subseteq Present(file)
             /\ sim[s] \in Range(children[s])
             /\ \A c \in Range(children[s]) : c # DC => c = sim[s]
  <2>1. NeedsDC(sim[s]) => DC \in Present(file)
    BY DEF NeedsDC, HasDC
  <2> QED BY <1>2, <1>3, <2>1, GroupIs
<1>4. ASSUME NEW s \in Sweep, children[s] = <<>>
      PROVE  /\ children[s] \in Seq(Analysis) /\ IsInjective(children[s])
             /\ Range(children[s]) \subseteq Present(file)
  BY <1>4 DEF IsInjective, Range
<1>5. ASSUME NEW q \in Sweep \union {Net}
      PROVE  ListOf(q) \in Seq(Analysis) /\ IsInjective(ListOf(q))
             /\ Range(ListOf(q)) \subseteq Present(file)
  <2>1. CASE q = Net
    BY <2>1 DEF ListOf, ListsOK
  <2>2. CASE q # Net
    BY <1>3, <1>4, <1>5, <2>2 DEF ListOf
  <2> QED BY <2>1, <2>2
<1> QED
  BY <1>2, <1>3, <1>5

\* A sweep that is due in a sweep is what that one names.
LEMMA ChainNames ==
  ASSUME FileOK, ListsOK, TreeOK, NEW stack \in Seq(FrameType), Chained(stack),
         \A i \in 1..Len(stack) : /\ i = 1 <=> stack[i].parent = Net
                                  /\ i # 1 => children[stack[i].parent] # <<>>
  PROVE  \A i \in 2..Len(stack) :
           /\ stack[i].parent \in Sweep \intersect Present(file)
           /\ i < Len(stack) => stack[i + 1].parent = sim[stack[i].parent]
<1> SUFFICES ASSUME NEW i \in 2..Len(stack)
             PROVE  /\ stack[i].parent \in Sweep \intersect Present(file)
                    /\ i < Len(stack) => stack[i + 1].parent = sim[stack[i].parent]
  OBVIOUS
<1>1. i \in 1..Len(stack) /\ i # 1 /\ Len(stack) \in Nat
  OBVIOUS
<1>2. \A j \in 1..Len(stack) : stack[j] \in FrameType
  OBVIOUS
<1>3. \A j \in 1..Len(stack) : j # 1 => stack[j].parent \in Sweep /\ children[stack[j].parent] # <<>>
  BY <1>2 DEF FrameType
<1>4. stack[i].parent \in Sweep \intersect Present(file)
  BY <1>1, <1>3, ListsAre
<1>5. ASSUME i < Len(stack) PROVE stack[i + 1].parent = sim[stack[i].parent]
  <2>1. i \in 1..(Len(stack) - 1) /\ i + 1 \in 1..Len(stack) /\ i + 1 # 1
    BY <1>1, <1>5
  <2> DEFINE s == stack[i].parent
             c == stack[i + 1].parent
  <2>2. s \in Sweep /\ s # Net /\ c \in Sweep /\ children[s] # <<>>
    BY <1>1, <1>3, <2>1
  <2>3. c \in Range(children[s])
    <3>1. c = children[s][stack[i].k] /\ stack[i].k \in 1..Len(children[s])
      BY <2>1, <2>2 DEF Chained, ListOf
    <3>2. children[s] \in Seq(Analysis)
      BY <2>2 DEF ListsOK
    <3> HIDE DEF s, c
    <3> QED BY <3>1, <3>2 DEF Range
  <2>4. c # DC
    BY <2>2, KindsDiffer
  <2> QED BY <2>2, <2>3, <2>4, ListsAre
<1> QED
  BY <1>4, <1>5

\* A sweep within itself would lead back to itself.
LEMMA ChainDistinct ==
  ASSUME FileOK, ListsOK, TreeOK, NEW stack \in Seq(FrameType), Chained(stack),
         \A i \in 1..Len(stack) : /\ i = 1 <=> stack[i].parent = Net
                                  /\ i # 1 => children[stack[i].parent] # <<>>
  PROVE  Distinct(stack)
<1>1. Len(stack) \in Nat
  OBVIOUS
<1>2. ASSUME NEW i \in 1..Len(stack), NEW j \in 1..Len(stack), i < j,
             stack[i].parent = stack[j].parent
      PROVE  FALSE
  <2>1. i # 1 /\ i \in 2..Len(stack)
    BY <1>1, <1>2
  <2> DEFINE S == {stack[m].parent : m \in i..(j - 1)}
  <2>2. \A m \in i..(j - 1) : /\ stack[m].parent \in Sweep \intersect Present(file)
                              /\ stack[m + 1].parent = sim[stack[m].parent]
    <3>1. \A m \in i..(j - 1) : m \in 2..Len(stack) /\ m < Len(stack)
      BY <1>1, <2>1
    <3> QED BY <3>1, ChainNames
  <2>3. S \in SUBSET (Sweep \intersect Present(file)) /\ stack[i].parent \in S
    BY <1>1, <1>2, <2>2
  <2>4. ASSUME NEW a \in S PROVE sim[a] \in S
    <3>1. PICK m \in i..(j - 1) : a = stack[m].parent
      OBVIOUS
    <3>2. sim[a] = stack[m + 1].parent
      BY <2>2, <3>1
    <3>3. CASE m + 1 = j
      BY <1>2, <2>3, <3>2, <3>3
    <3>4. CASE m + 1 # j
      <4>1. m + 1 \in i..(j - 1)
        BY <1>1, <3>1, <3>4
      <4> QED BY <3>2, <4>1
    <3> QED BY <3>3, <3>4
  <2>5. \E a \in S : sim[a] \notin S
    <3> HIDE DEF S
    <3> QED BY <2>3 DEF FileOK, Accepted
  <2> QED BY <2>4, <2>5
<1> SUFFICES ASSUME NEW i \in 1..Len(stack), NEW j \in 1..Len(stack),
                    stack[i].parent = stack[j].parent
             PROVE  i = j
  BY DEF Distinct
<1>3. ~(i < j) /\ ~(j < i)
  BY <1>2
<1> QED
  BY <1>1, <1>3

\* A list that holds nothing twice tells the place of each element.
LEMMA PositionIs ==
  ASSUME NEW list \in Seq(Analysis), IsInjective(list)
  PROVE  /\ \A k \in 1..Len(list) : Position(list[k], list) = k
         /\ \A c \in Range(list) : Position(c, list) \in 1..Len(list) /\ list[Position(c, list)] = c
<1>1. DOMAIN list = 1..Len(list)
  OBVIOUS
<1>2. ASSUME NEW c \in Range(list)
      PROVE  Position(c, list) \in 1..Len(list) /\ list[Position(c, list)] = c
  <2>1. \E i \in DOMAIN list : list[i] = c
    BY DEF Range
  <2> QED BY <1>1, <2>1 DEF Position
<1>3. ASSUME NEW k \in 1..Len(list) PROVE Position(list[k], list) = k
  <2>1. list[k] \in Range(list)
    BY <1>1 DEF Range
  <2> QED BY <1>1, <1>2, <2>1 DEF IsInjective
<1> QED
  BY <1>2, <1>3

-----------------------------------------------------------------------------
\* What has been done.

\* A list is being solved.
Open(stack, q) == \E i \in 1..Len(stack) : stack[i].parent = q

FrameOf(stack, q) == stack[CHOOSE i \in 1..Len(stack) : stack[i].parent = q]

\* How often the present run of a list has solved what stands at a place of it.
Progress(stack, q, place) ==
  IF Open(stack, q)
    THEN FrameOf(stack, q).point - 1 + (IF FrameOf(stack, q).k > place THEN 1 ELSE 0)
    ELSE 0

LEMMA ProgressOf ==
  ASSUME NEW stack \in Seq(FrameType), Distinct(stack), NEW i \in 1..Len(stack)
  PROVE  /\ Open(stack, stack[i].parent) /\ FrameOf(stack, stack[i].parent) = stack[i]
         /\ \A place \in Nat : Progress(stack, stack[i].parent, place)
                                 = stack[i].point - 1 + (IF stack[i].k > place THEN 1 ELSE 0)
<1> DEFINE q == stack[i].parent
<1>1. Open(stack, q)
  BY DEF Open
<1>2. (CHOOSE j \in 1..Len(stack) : stack[j].parent = q) = i
  BY DEF Distinct
<1>3. FrameOf(stack, q) = stack[i]
  BY <1>2 DEF FrameOf
<1> QED
  BY <1>1, <1>3 DEF Progress

LEMMA ProgressType ==
  ASSUME NEW stack \in Seq(FrameType), NEW q, NEW place \in Nat
  PROVE  Progress(stack, q, place) \in Int
<1>1. CASE Open(stack, q)
  <2>1. FrameOf(stack, q) \in FrameType
    <3>1. (CHOOSE i \in 1..Len(stack) : stack[i].parent = q) \in 1..Len(stack)
      BY <1>1 DEF Open
    <3> QED BY <3>1 DEF FrameOf
  <2>2. FrameOf(stack, q).point \in Nat
    BY <2>1 DEF FrameType
  <2> QED BY <1>1, <2>2 DEF Progress
<1>2. CASE ~Open(stack, q)
  BY <1>2 DEF Progress
<1> QED
  BY <1>1, <1>2

\* Two stacks with the same frame of a list agree on it.
LEMMA ProgressSame ==
  ASSUME NEW stack \in Seq(FrameType), NEW other \in Seq(FrameType), Distinct(stack),
         Distinct(other), NEW q,
         \A i \in 1..Len(stack) : stack[i].parent = q =>
           \E j \in 1..Len(other) : other[j] = stack[i],
         \A j \in 1..Len(other) : other[j].parent = q =>
           \E i \in 1..Len(stack) : stack[i] = other[j]
  PROVE  /\ Open(other, q) <=> Open(stack, q)
         /\ Open(stack, q) => FrameOf(other, q) = FrameOf(stack, q)
         /\ \A place \in Nat : Progress(other, q, place) = Progress(stack, q, place)
<1>1. CASE Open(stack, q)
  <2>1. PICK i \in 1..Len(stack) : stack[i].parent = q
    BY <1>1 DEF Open
  <2>2. \E j \in 1..Len(other) : other[j] = stack[i]
    BY <2>1
  <2>3. PICK j \in 1..Len(other) : other[j] = stack[i]
    BY <2>2
  <2>4. other[j].parent = q /\ other[j].point = stack[i].point /\ other[j].k = stack[i].k
    BY <2>1, <2>3
  <2>5. \A place \in Nat : Progress(stack, q, place)
                             = stack[i].point - 1 + (IF stack[i].k > place THEN 1 ELSE 0)
    BY <2>1, ProgressOf
  <2>6. Open(other, q) /\ \A place \in Nat : Progress(other, q, place)
                             = other[j].point - 1 + (IF other[j].k > place THEN 1 ELSE 0)
    BY <2>4, ProgressOf
  <2>7. FrameOf(stack, q) = stack[i]
    BY <2>1, ProgressOf
  <2>8. FrameOf(other, q) = other[j]
    BY <2>4, ProgressOf
  <2> QED BY <1>1, <2>3, <2>4, <2>5, <2>6, <2>7, <2>8
<1>2. CASE ~Open(stack, q)
  <2>1. ~Open(other, q)
    BY <1>2 DEF Open
  <2> QED BY <1>2, <2>1 DEF Progress
<1> QED
  BY <1>1, <1>2

\* How often an analysis was solved to its end.
Done(c) ==
  IF c \in Sweep THEN runs[c] - (IF Open(calls, c) THEN 1 ELSE 0) ELSE solved[c]

\* How often a list has solved one of its analyses: in its runs to the end and in the
\* present one.
Part(q, c) ==
  (IF q = Net THEN 0 ELSE Points[q] * Done(q)) + Progress(calls, q, Position(c, ListOf(q)))

Holders(c) == {s \in Sweep \intersect Present(file) : c \in Range(children[s])}

Owed(c) ==
  Total(file, Holders(c), [s \in Sweep |-> Part(s, c)])
    + (IF c \in Range(actions) THEN Part(Net, c) ELSE 0)

\* Whatever was solved was solved from a list.
Balanced == \A c \in Present(file) : Done(c) = Owed(c)

\* Each sweep on the stack is due in the frame below it; points count from 1, and the net
\* has one.
StackOK ==
  /\ Chained(calls)
  /\ \A i \in 1..Len(calls) : calls[i].point >= 1
  /\ calls # <<>> => calls[1].point = 1

\* What the counts are in each phase: nothing at first, then balanced.  A sweep that ran
\* has children, and a run that has come to its end has solved the whole list.
TallyOK ==
  /\ pc \in {"order", "initialize"} =>
       calls = <<>> /\ (\A s \in Sweep : runs[s] = 0) /\ (\A a \in Single : solved[a] = 0)
  /\ StackOK
  /\ pc # "crashed" => \A s \in Sweep : runs[s] > 0 => children[s] # <<>>
  /\ pc = "done" => Len(calls) = 1 /\ calls[1].k > Len(actions)
  /\ pc \in {"solve", "done"} => Balanced

\* On the stack each list stands once.
LEMMA StackDistinct ==
  ASSUME Inv, TreeOK, Chained(calls)
  PROVE  calls \in Seq(FrameType) /\ Distinct(calls)
<1>1. calls \in Seq(FrameType)
  BY DEF Inv, CallsOK
<1> QED
  BY <1>1, ChainDistinct DEF Inv, CallsOK

\* Where an element of a list stands.
LEMMA PartIs ==
  ASSUME ListsOK, NEW p \in Sweep \union {Net}, NEW c \in Range(ListOf(p))
  PROVE  /\ Position(c, ListOf(p)) \in Nat \ {0}
         /\ Position(c, ListOf(p)) <= Len(ListOf(p))
<1>1. ListOf(p) \in Seq(Analysis) /\ DOMAIN ListOf(p) = 1..Len(ListOf(p))
  BY DEF ListOf, ListsOK
<1>2. \E i \in DOMAIN ListOf(p) : ListOf(p)[i] = c
  BY DEF Range
<1>3. Position(c, ListOf(p)) \in DOMAIN ListOf(p)
  BY <1>2 DEF Position
<1> QED
  BY <1>1, <1>3

\* Numbers of solutions are numbers.
LEMMA DoneType ==
  ASSUME Inv
  PROVE  /\ \A c \in Analysis : Done(c) \in Int
         /\ \A p \in Sweep \union {Net} : \A c \in Range(ListOf(p)) : Part(p, c) \in Int
<1>1. ASSUME NEW c \in Analysis PROVE Done(c) \in Int
  BY DEF Inv, ResultsOK, Done, Analysis, Single
<1>2. ASSUME NEW p \in Sweep \union {Net}, NEW c \in Range(ListOf(p)) PROVE Part(p, c) \in Int
  <2>1. Position(c, ListOf(p)) \in Nat
    BY PartIs DEF Inv
  <2>2. calls \in Seq(FrameType)
    BY DEF Inv, CallsOK
  <2>3. Progress(calls, p, Position(c, ListOf(p))) \in Int
    BY <2>1, <2>2, ProgressType
  <2>4. p # Net => p \in Sweep /\ p \in Analysis /\ Points[p] \in Int
    BY PointsPositive DEF Analysis
  <2>5. p # Net => Points[p] * Done(p) \in Int
    BY <1>1, <2>4
  <2> QED BY <2>3, <2>5 DEF Part
<1> QED
  BY <1>1, <1>2

\* The points to which a sweep has come in its first run.
FirstRun(s) ==
  IF runs[s] = 0 THEN 0
  ELSE IF runs[s] = 1 /\ Open(calls, s) THEN FrameOf(calls, s).point ELSE Points[s]

LEMMA FirstRunType ==
  ASSUME Inv
  PROVE  \A s \in Sweep : FirstRun(s) \in Nat
<1> SUFFICES ASSUME NEW s \in Sweep PROVE FirstRun(s) \in Nat
  OBVIOUS
<1>1. calls \in Seq(FrameType) /\ Points[s] \in Nat
  BY PointsPositive DEF Inv, CallsOK
<1>2. ASSUME Open(calls, s) PROVE FrameOf(calls, s).point \in Nat
  <2>1. (CHOOSE i \in 1..Len(calls) : calls[i].parent = s) \in 1..Len(calls)
    BY <1>2 DEF Open
  <2>2. FrameOf(calls, s) \in FrameType
    BY <1>1, <2>1 DEF FrameOf
  <2> QED BY <2>2 DEF FrameType
<1> QED
  BY <1>1, <1>2 DEF FirstRun

\* The list q has solved the analysis d once more.
Moved(q, d) ==
  /\ q \in Sweep \union {Net} /\ d \in Range(ListOf(q))
  /\ q \in Sweep => q \in Present(file)
  /\ \A c \in Analysis : Done(c)' = Done(c) + (IF c = d THEN 1 ELSE 0)
  /\ \A p \in Sweep \union {Net} : \A c \in Range(ListOf(p)) :
       Part(p, c)' = Part(p, c) + (IF p = q /\ c = d THEN 1 ELSE 0)

\* No list has solved anything.
Unmoved ==
  /\ \A c \in Analysis : Done(c)' = Done(c)
  /\ \A p \in Sweep \union {Net} : \A c \in Range(ListOf(p)) : Part(p, c)' = Part(p, c)

\* One analysis is solved once more: it is in one list more often solved.
LEMMA BalanceMoves ==
  ASSUME Inv, Inv', Balanced, UNCHANGED tree, NEW q, NEW d, Moved(q, d)
  PROVE  Balanced'
<1>1. /\ q \in Sweep \union {Net} /\ d \in Range(ListOf(q))
      /\ q \in Sweep => q \in Present(file)
      /\ \A c \in Analysis : Done(c)' = Done(c) + (IF c = d THEN 1 ELSE 0)
      /\ \A p \in Sweep \union {Net} : \A c \in Range(ListOf(p)) :
           Part(p, c)' = Part(p, c) + (IF p = q /\ c = d THEN 1 ELSE 0)
  BY DEF Moved
<1>2. UNCHANGED <<file, actions, children>>
  BY DEF tree
<1>3. Net \notin Sweep
  BY KindsDiffer DEF Analysis
<1>4. file \in Seq(Analysis) /\ IsInjective(file) /\ Present(file) \subseteq Analysis
  BY DEF Inv, FileOK, Present, Range
<1> SUFFICES ASSUME NEW c \in Present(file) PROVE Done(c)' = Owed(c)'
  BY <1>2 DEF Balanced
<1> DEFINE H == Holders(c)
           f == [s \in Sweep |-> Part(s, c)]
           e == [s \in Sweep |-> Part(s, c)']
           x == IF c \in Range(actions) THEN Part(Net, c) ELSE 0
           y == IF c \in Range(actions) THEN Part(Net, c)' ELSE 0
<1>5. Done(c) = Total(file, H, f) + x /\ Done(c)' = Done(c) + (IF c = d THEN 1 ELSE 0)
  BY <1>4, <1>1 DEF Balanced, Owed
<1>6. Owed(c)' = Total(file, H, e) + y
  BY <1>2 DEF Owed, Holders, Present
<1>7. ASSUME NEW s \in H
      PROVE  f[s] \in Int /\ e[s] = f[s] + (IF s = q /\ c = d THEN 1 ELSE 0)
  BY <1>3, <1>1, DoneType DEF Holders, ListOf
<1>8. x \in Int /\ y = x + (IF q = Net /\ c = d THEN 1 ELSE 0)
  <2>1. ListOf(Net) = actions
    BY DEF ListOf
  <2>2. ASSUME c \in Range(actions)
        PROVE  Part(Net, c) \in Int /\ Part(Net, c)' = Part(Net, c) + (IF q = Net /\ c = d THEN 1 ELSE 0)
    BY <1>1, <2>1, <2>2, DoneType
  <2>3. c \notin Range(actions) => ~(q = Net /\ c = d)
    BY <1>1, <2>1
  <2> QED BY <2>2, <2>3
<1>9. H \subseteq Sweep /\ (q # Net /\ c = d => q \in H /\ q \in Range(file))
  BY <1>3, <1>1 DEF Holders, ListOf, Present
<1> HIDE DEF H, f, e, x, y
<1>10. CASE q # Net /\ c = d
  <2>1. Total(file, H, e) = Total(file, H, f) + 1
    BY <1>4, <1>7, <1>9, <1>10, TotalMore
  <2>2. Total(file, H, f) \in Int
    BY <1>4, <1>7, TotalSame
  <2> QED BY <1>5, <1>6, <1>8, <1>10, <2>1, <2>2
<1>11. CASE ~(q # Net /\ c = d)
  <2>1. \A s \in H \intersect Range(file) : f[s] \in Int /\ e[s] = f[s]
    BY <1>3, <1>7, <1>9, <1>11
  <2>2. Total(file, H, f) \in Int /\ Total(file, H, e) = Total(file, H, f)
    BY <1>4, <2>1, TotalSame
  <2> QED BY <1>5, <1>6, <1>8, <1>11, <2>2
<1> QED
  BY <1>10, <1>11

\* No analysis was solved.
LEMMA BalanceStays ==
  ASSUME Inv, Balanced, UNCHANGED tree, Unmoved
  PROVE  Balanced'
<1>1. UNCHANGED <<file, actions, children>>
  BY DEF tree
<1>2. Net \notin Sweep
  BY KindsDiffer DEF Analysis
<1>3. file \in Seq(Analysis) /\ Present(file) \subseteq Analysis
  BY DEF Inv, FileOK, Present, Range
<1> SUFFICES ASSUME NEW c \in Present(file) PROVE Done(c)' = Owed(c)'
  BY <1>1 DEF Balanced
<1> DEFINE H == Holders(c)
           f == [s \in Sweep |-> Part(s, c)]
           e == [s \in Sweep |-> Part(s, c)']
           x == IF c \in Range(actions) THEN Part(Net, c) ELSE 0
           y == IF c \in Range(actions) THEN Part(Net, c)' ELSE 0
<1>4. Done(c) = Total(file, H, f) + x /\ Done(c)' = Done(c)
  BY <1>3 DEF Balanced, Owed, Unmoved
<1>5. Owed(c)' = Total(file, H, e) + y
  BY <1>1 DEF Owed, Holders, Present
<1>6. ASSUME NEW s \in H PROVE f[s] \in Int /\ e[s] = f[s]
  BY <1>2, DoneType DEF Holders, ListOf, Unmoved
<1>7. x \in Int /\ y = x
  BY DoneType DEF ListOf, Unmoved
<1> HIDE DEF H, f, e, x, y
<1>8. Total(file, H, f) \in Int /\ Total(file, H, e) = Total(file, H, f)
  BY <1>3, <1>6, TotalSame
<1> QED
  BY <1>4, <1>5, <1>7, <1>8

\* A stack that is chained holds each list once, whatever lists were in it before.
LEMMA NextDistinct ==
  ASSUME Inv, Inv', TreeOK, UNCHANGED tree, Chained(calls')
  PROVE  calls' \in Seq(FrameType) /\ Distinct(calls')
<1>1. children' = children
  BY DEF tree
<1>2. /\ calls' \in Seq(FrameType)
      /\ \A i \in 1..Len(calls') : /\ i = 1 <=> calls'[i].parent = Net
                                   /\ i # 1 => children[calls'[i].parent] # <<>>
  BY <1>1 DEF Inv, CallsOK
<1> QED
  BY <1>2, ChainDistinct DEF Inv

LEMMA StackOKStays ==
  ASSUME UNCHANGED tree, Chained(calls'), \A i \in 1..Len(calls') : calls'[i].point >= 1,
         calls' # <<>> => calls'[1].point = 1
  PROVE  StackOK'
BY DEF tree, StackOK, Chained, ListOf

\* The last frame changes.
LEMMA LastChanges ==
  ASSUME Inv, Inv', TreeOK, StackOK, UNCHANGED tree, pc = "solve",
         NEW f \in FrameType, f.parent = Top.parent, f.point >= 1,
         f.parent = Net => f.point = 1,
         calls' = [calls EXCEPT ![Len(calls)] = f]
  PROVE  /\ StackOK'
         /\ \A p : Open(calls', p) <=> Open(calls, p)
         /\ FrameOf(calls', Top.parent) = f /\ FrameOf(calls, Top.parent) = Top
         /\ \A p : p # Top.parent /\ Open(calls, p) => FrameOf(calls', p) = FrameOf(calls, p)
         /\ \A p : \A place \in Nat : p # Top.parent =>
              Progress(calls', p, place) = Progress(calls, p, place)
         /\ \A place \in Nat :
              /\ Progress(calls', Top.parent, place) = f.point - 1 + (IF f.k > place THEN 1 ELSE 0)
              /\ Progress(calls, Top.parent, place)
                   = Top.point - 1 + (IF Top.k > place THEN 1 ELSE 0)
<1> DEFINE n == Len(calls)
<1>1. n \in Nat \ {0} /\ calls \in Seq(FrameType) /\ calls[n] = Top /\ Distinct(calls)
  BY TopIs, StackDistinct DEF Inv, Top, StackOK
<1>2. /\ calls' \in Seq(FrameType) /\ Len(calls') = n /\ calls'[n] = f
      /\ \A i \in 1..(n - 1) : calls'[i] = calls[i]
  BY <1>1, FramesAre
<1>3. \A i \in 1..n : i = n \/ i \in 1..(n - 1)
  BY <1>1
<1>4. \A i \in 1..n : calls'[i].parent = calls[i].parent
  BY <1>1, <1>2, <1>3
<1>5. Chained(calls')
  <2> SUFFICES ASSUME NEW i \in 1..(n - 1)
               PROVE  /\ calls'[i].k \in 1..Len(ListOf(calls'[i].parent))
                      /\ calls'[i + 1].parent = ListOf(calls'[i].parent)[calls'[i].k]
    BY <1>2 DEF Chained
  <2>1. i + 1 \in 1..n
    BY <1>1
  <2> QED BY <1>2, <1>4, <2>1 DEF StackOK, Chained
<1>6. \A i \in 1..n : calls'[i].point >= 1
  BY <1>2, <1>3 DEF StackOK
<1>7. calls'[1].point = 1
  <2>1. calls # <<>> /\ 1 \in 1..n
    BY <1>1
  <2>2. CASE n = 1
    BY <1>1, <1>2, <2>1, <2>2, TopIs DEF Inv
  <2>3. CASE n # 1
    BY <1>2, <1>3, <2>1, <2>3 DEF StackOK
  <2> QED BY <2>2, <2>3
<1>8. StackOK'
  BY <1>2, <1>5, <1>6, <1>7, StackOKStays
<1>9. Distinct(calls')
  BY <1>5, NextDistinct
<1>10. \A p : Open(calls', p) <=> Open(calls, p)
  BY <1>2, <1>4 DEF Open
<1>11. ASSUME NEW p, p # Top.parent
       PROVE  /\ \A place \in Nat : Progress(calls', p, place) = Progress(calls, p, place)
              /\ Open(calls, p) => FrameOf(calls', p) = FrameOf(calls, p)
  <2>1. \A i \in 1..Len(calls) : calls[i].parent = p => \E j \in 1..Len(calls') : calls'[j] = calls[i]
    BY <1>1, <1>2, <1>3, <1>11
  <2>2. \A j \in 1..Len(calls') : calls'[j].parent = p => \E i \in 1..Len(calls) : calls[i] = calls'[j]
    BY <1>2, <1>3, <1>11
  <2> QED BY <1>1, <1>2, <1>9, <2>1, <2>2, ProgressSame
<1>13. FrameOf(calls', Top.parent) = f /\ FrameOf(calls, Top.parent) = Top
  <2> DEFINE next == calls'
  <2>1. n \in 1..Len(calls) /\ n \in 1..Len(next) /\ next[n] = f /\ next[n].parent = Top.parent
        /\ next \in Seq(FrameType) /\ Distinct(next)
    <3>1. n \in 1..n
      BY <1>1
    <3> QED BY <1>2, <1>9, <3>1
  <2> HIDE DEF next
  <2>2. FrameOf(next, Top.parent) = f
    BY <2>1, ProgressOf
  <2>3. FrameOf(calls, Top.parent) = Top
    BY <1>1, <2>1, ProgressOf
  <2> QED BY <2>2, <2>3 DEF next
<1>12. ASSUME NEW place \in Nat
       PROVE  /\ Progress(calls', Top.parent, place) = f.point - 1 + (IF f.k > place THEN 1 ELSE 0)
              /\ Progress(calls, Top.parent, place)
                   = Top.point - 1 + (IF Top.k > place THEN 1 ELSE 0)
  <2> DEFINE next == calls'
  <2>1. n \in 1..Len(calls) /\ n \in 1..Len(next) /\ next[n] = f /\ next[n].parent = Top.parent
        /\ next \in Seq(FrameType) /\ Distinct(next)
    <3>1. n \in 1..n
      BY <1>1
    <3> QED BY <1>2, <1>9, <3>1
  <2> HIDE DEF next
  <2>4. Progress(next, Top.parent, place) = f.point - 1 + (IF f.k > place THEN 1 ELSE 0)
    BY <2>1, ProgressOf
  <2>2. Progress(calls', Top.parent, place) = f.point - 1 + (IF f.k > place THEN 1 ELSE 0)
    BY <2>4 DEF next
  <2>3. Progress(calls, Top.parent, place) = Top.point - 1 + (IF Top.k > place THEN 1 ELSE 0)
    BY <1>1, <2>1, ProgressOf
  <2> QED BY <2>2, <2>3
<1> QED
  BY <1>8, <1>10, <1>11, <1>12, <1>13

-----------------------------------------------------------------------------
\* The steps of the run.

\* The list that is being solved and what is due in it.
LEMMA DueIs ==
  ASSUME Inv, TreeOK, AnyDue
  PROVE  /\ Top.parent \in Sweep \union {Net} /\ Due \in Range(ListOf(Top.parent))
         /\ Top.parent \in Sweep => Top.parent \in Present(file)
         /\ \A c \in Range(ListOf(Top.parent)) : Position(c, ListOf(Top.parent)) = Top.k <=> c = Due
<1>1. pc = "solve"
  BY DEF AnyDue
<1>2. /\ Top \in FrameType /\ ListOf(Top.parent) \in Seq(Analysis)
      /\ Top.k \in 1..Len(ListOf(Top.parent))
      /\ Top.parent # Net => children[Top.parent] # <<>>
  BY <1>1, TopIs DEF Inv
<1>3. Top.parent \in Sweep \union {Net}
  BY <1>2 DEF FrameType
<1>4. IsInjective(ListOf(Top.parent)) /\ (Top.parent \in Sweep => Top.parent \in Present(file))
  <2>1. Top.parent \in Sweep => Top.parent # Net
    BY KindsDiffer DEF Analysis
  <2> QED BY <1>2, <1>3, <2>1, ListsAre DEF Inv
<1>5. Due \in Range(ListOf(Top.parent))
  BY <1>2 DEF Due, Range
<1>6. \A c \in Range(ListOf(Top.parent)) : Position(c, ListOf(Top.parent)) = Top.k <=> c = Due
  BY <1>2, <1>4, PositionIs DEF Due
<1> QED
  BY <1>3, <1>4, <1>5, <1>6

\* The conditions on the steps within the run.
LEMMA TallyOKStays ==
  ASSUME TallyOK, UNCHANGED tree, pc = "solve", pc' = "solve", StackOK', Balanced',
         \A s \in Sweep : runs'[s] > 0 => runs[s] > 0 \/ children[s] # <<>>
  PROVE  TallyOK'
BY DEF TallyOK, tree

LEMMA SolveSingleMoves ==
  ASSUME Inv, Inv', TreeOK, TallyOK, SolveSingle
  PROVE  /\ StackOK' /\ Moved(Top.parent, Due)
         /\ \A p : Open(calls', p) <=> Open(calls, p)
         /\ \A s \in Sweep : FirstRun(s)' = FirstRun(s)
<1>1. /\ AnyDue /\ Due \in Single /\ pc = "solve" /\ pc' = "solve"
      /\ UNCHANGED <<tree, runs>>
      /\ solved' = [solved EXCEPT ![Due] = @ + 1]
      /\ calls' = [calls EXCEPT ![Len(calls)].k = @ + 1]
  BY DEF SolveSingle, AnyDue
<1> DEFINE q == Top.parent
           f == [parent |-> q, point |-> Top.point, k |-> Top.k + 1]
<1>2. Top \in FrameType /\ calls[Len(calls)] = Top /\ Len(calls) \in Nat \ {0}
      /\ Top.k \in Nat /\ Top.point \in Nat
  BY <1>1, TopIs DEF Inv, FrameType, Top
<1>3. f \in FrameType /\ f.parent = q /\ f.k = Top.k + 1 /\ f.point = Top.point
  BY <1>2 DEF FrameType
<1>4. calls' = [calls EXCEPT ![Len(calls)] = f]
  <2>1. [calls[Len(calls)] EXCEPT !.k = @ + 1] = f
    BY <1>2 DEF FrameType
  <2> QED BY <1>1, <2>1
<1>5. Top.point >= 1 /\ (q = Net => Top.point = 1)
  <2>1. Len(calls) \in 1..Len(calls) /\ calls # <<>>
    BY <1>2
  <2>2. q = Net => Len(calls) = 1
    BY <1>1, TopIs DEF Inv
  <2> QED BY <1>2, <2>1, <2>2 DEF TallyOK, StackOK
<1> HIDE DEF f, q
<1>6. /\ StackOK'
      /\ \A p : Open(calls', p) <=> Open(calls, p)
      /\ \A p : \A place \in Nat : p # q => Progress(calls', p, place) = Progress(calls, p, place)
      /\ \A place \in Nat : Progress(calls', q, place) = f.point - 1 + (IF f.k > place THEN 1 ELSE 0)
      /\ \A place \in Nat : Progress(calls, q, place) = Top.point - 1 + (IF Top.k > place THEN 1 ELSE 0)
      /\ FrameOf(calls', q) = f /\ FrameOf(calls, q) = Top
      /\ \A p : p # q /\ Open(calls, p) => FrameOf(calls', p) = FrameOf(calls, p)
  BY <1>1, <1>3, <1>4, <1>5, LastChanges DEF TallyOK, q
<1>7. /\ q \in Sweep \union {Net} /\ Due \in Range(ListOf(q)) /\ (q \in Sweep => q \in Present(file))
      /\ \A c \in Range(ListOf(q)) : Position(c, ListOf(q)) = Top.k <=> c = Due
  BY <1>1, DueIs DEF q
<1> DEFINE d == Due
<1>8. d \notin Sweep /\ d \in Analysis
  BY <1>1, KindsDiffer DEF Single, Analysis
<1>9. \A c \in Analysis : Done(c)' = Done(c) + (IF c = d THEN 1 ELSE 0)
  <2> SUFFICES ASSUME NEW c \in Analysis PROVE Done(c)' = Done(c) + (IF c = d THEN 1 ELSE 0)
    OBVIOUS
  <2>1. CASE c \in Sweep
    <3>1. Open(calls, c)' <=> Open(calls, c)
      BY <1>6
    <3>2. Done(c)' = Done(c) /\ Done(c) \in Int /\ c # d
      BY <1>1, <1>8, <2>1, <3>1, DoneType DEF Done
    <3> QED BY <3>2
  <2>2. CASE c \notin Sweep
    <3>1. c \in Single
      BY <2>2 DEF Analysis, Single
    <3> QED BY <1>1, <2>2, <3>1 DEF Done, Inv, ResultsOK
  <2> QED BY <2>1, <2>2
<1>10. \A p \in Sweep \union {Net} : \A c \in Range(ListOf(p)) :
         Part(p, c)' = Part(p, c) + (IF p = q /\ c = d THEN 1 ELSE 0)
  <2> SUFFICES ASSUME NEW p \in Sweep \union {Net}, NEW c \in Range(ListOf(p))
               PROVE  Part(p, c)' = Part(p, c) + (IF p = q /\ c = d THEN 1 ELSE 0)
    OBVIOUS
  <2> DEFINE place == Position(c, ListOf(p))
             a == IF p = Net THEN 0 ELSE Points[p] * Done(p)
  <2>1. place \in Nat
    BY PartIs DEF Inv
  <2>2. UNCHANGED ListOf(p)
    BY <1>1 DEF tree, ListOf
  <2>3. p # Net => Done(p)' = Done(p)
    <3>1. p # Net => p \in Analysis /\ p # d /\ p \in Sweep
      BY <1>8 DEF Analysis
    <3> QED BY <1>9, <3>1, DoneType
  <2>4. Part(p, c) = a + Progress(calls, p, place) /\ Part(p, c)' = a + Progress(calls', p, place)
    BY <2>2, <2>3 DEF Part
  <2>5. Part(p, c) \in Int
    BY DoneType
  <2>6. Progress(calls', p, place) = Progress(calls, p, place) + (IF p = q /\ c = d THEN 1 ELSE 0)
        /\ Progress(calls, p, place) \in Int
    <3>1. CASE p # q
      <4>1. Progress(calls, p, place) \in Int
        <5>1. calls \in Seq(FrameType)
          BY DEF Inv, CallsOK
        <5> QED BY <2>1, <5>1, ProgressType
      <4> HIDE DEF place
      <4> QED BY <1>6, <2>1, <3>1, <4>1
    <3>2. CASE p = q
      <4>1. place = Top.k <=> c = d
        BY <1>7, <3>2
      <4> HIDE DEF place, d
      <4> QED BY <1>2, <1>3, <1>6, <2>1, <3>2, <4>1
    <3> QED BY <3>1, <3>2
  <2>7. a \in Int
    <3>1. p # Net => p \in Analysis /\ Points[p] \in Int
      BY PointsPositive DEF Analysis
    <3> QED BY <3>1, DoneType
  <2> HIDE DEF a, place
  <2> QED BY <2>4, <2>6, <2>7
<1>11. Moved(q, Due)
  <2> HIDE DEF d
  <2> QED BY <1>7, <1>9, <1>10 DEF Moved, d
<1>12. ASSUME NEW s \in Sweep PROVE FirstRun(s)' = FirstRun(s)
  <2>1. Open(calls, s)' <=> Open(calls, s)
    BY <1>6
  <2>2. Open(calls, s) => FrameOf(calls', s).point = FrameOf(calls, s).point
    BY <1>3, <1>6
  <2> QED BY <1>1, <2>1, <2>2 DEF FirstRun
<1> QED
  BY <1>6, <1>11, <1>12 DEF q

LEMMA SolveSingleTallies == Inv /\ Inv' /\ TreeOK /\ TallyOK /\ SolveSingle => TallyOK'
<1> SUFFICES ASSUME Inv, Inv', TreeOK, TallyOK, SolveSingle PROVE TallyOK'
  OBVIOUS
<1>1. pc = "solve" /\ pc' = "solve" /\ UNCHANGED <<tree, runs>>
  BY DEF SolveSingle, AnyDue
<1>2. StackOK' /\ Moved(Top.parent, Due)
  BY SolveSingleMoves
<1>3. Balanced'
  BY <1>1, <1>2, BalanceMoves DEF TallyOK
<1> QED
  BY <1>1, <1>2, <1>3, TallyOKStays

LEMMA NextPointMoves ==
  ASSUME Inv, Inv', TreeOK, TallyOK, NextPoint
  PROVE  /\ StackOK' /\ Unmoved
         /\ \A p : Open(calls', p) <=> Open(calls, p)
         /\ \A s \in Sweep :
              FirstRun(s)' = FirstRun(s) + (IF s = Top.parent /\ runs[s] = 1 THEN 1 ELSE 0)
<1> DEFINE q == Top.parent
           f == [parent |-> q, point |-> Top.point + 1, k |-> 1]
<1>1. /\ ~AnyDue /\ pc = "solve" /\ pc' = "solve" /\ q # Net
      /\ UNCHANGED <<tree, runs, solved>>
  BY DEF NextPoint
<1>2. /\ Top \in FrameType /\ q \in Sweep /\ Top.k \in Nat /\ Top.point \in Nat
      /\ ListOf(q) \in Seq(Analysis) /\ Len(ListOf(q)) < Top.k
  BY <1>1, TopIs DEF Inv, FrameType, AnyDue
<1>3. f \in FrameType /\ f.parent = q /\ f.k = 1 /\ f.point = Top.point + 1
  BY <1>2 DEF FrameType
<1>4. calls' = [calls EXCEPT ![Len(calls)] = f]
  BY NextFrame DEF Inv
<1> HIDE DEF f, q
<1>5. f.point >= 1
  BY <1>2, <1>3
<1>6. /\ StackOK'
      /\ \A p : Open(calls', p) <=> Open(calls, p)
      /\ \A p : \A place \in Nat : p # q => Progress(calls', p, place) = Progress(calls, p, place)
      /\ \A place \in Nat : Progress(calls', q, place) = f.point - 1 + (IF f.k > place THEN 1 ELSE 0)
      /\ \A place \in Nat : Progress(calls, q, place) = Top.point - 1 + (IF Top.k > place THEN 1 ELSE 0)
      /\ FrameOf(calls', q) = f /\ FrameOf(calls, q) = Top
      /\ \A p : p # q /\ Open(calls, p) => FrameOf(calls', p) = FrameOf(calls, p)
  BY <1>1, <1>3, <1>4, <1>5, LastChanges DEF TallyOK, q
<1>7. \A c \in Analysis : Done(c)' = Done(c)
  <2> SUFFICES ASSUME NEW c \in Analysis PROVE Done(c)' = Done(c)
    OBVIOUS
  <2>1. Open(calls, c)' <=> Open(calls, c)
    BY <1>6
  <2> QED BY <1>1, <2>1 DEF Done
<1>8. \A p \in Sweep \union {Net} : \A c \in Range(ListOf(p)) : Part(p, c)' = Part(p, c)
  <2> SUFFICES ASSUME NEW p \in Sweep \union {Net}, NEW c \in Range(ListOf(p))
               PROVE  Part(p, c)' = Part(p, c)
    OBVIOUS
  <2> DEFINE place == Position(c, ListOf(p))
  <2>1. place \in Nat /\ place >= 1 /\ place <= Len(ListOf(p))
    BY PartIs DEF Inv
  <2>2. UNCHANGED ListOf(p)
    BY <1>1 DEF tree, ListOf
  <2>3. p # Net => Done(p)' = Done(p)
    <3>1. p # Net => p \in Analysis
      BY DEF Analysis
    <3> QED BY <1>7, <3>1
  <2>4. Progress(calls', p, place) = Progress(calls, p, place)
    <3>1. CASE p # q
      <4> HIDE DEF place
      <4> QED BY <1>6, <2>1, <3>1
    <3>2. CASE p = q
      <4>1. Top.k > place
        BY <1>2, <2>1, <3>2
      <4> HIDE DEF place
      <4> QED BY <1>2, <1>3, <1>6, <2>1, <3>2, <4>1
    <3> QED BY <3>1, <3>2
  <2> QED BY <2>2, <2>3, <2>4 DEF Part
<1>9. Unmoved
  BY <1>7, <1>8 DEF Unmoved
<1>10. ASSUME NEW s \in Sweep
       PROVE  FirstRun(s)' = FirstRun(s) + (IF s = q /\ runs[s] = 1 THEN 1 ELSE 0)
  <2>1. Open(calls, s)' <=> Open(calls, s)
    BY <1>6
  <2>2. FirstRun(s) \in Nat
    BY FirstRunType
  <2>3. CASE s = q
    <3>1. Open(calls, q)
      <4>1. Len(calls) \in 1..Len(calls) /\ calls[Len(calls)].parent = q
        BY <1>1, TopIs DEF Inv, Top, q
      <4> QED BY <4>1 DEF Open
    <3>2. FrameOf(calls', q).point = FrameOf(calls, q).point + 1
      BY <1>3, <1>6
    <3> QED BY <1>1, <2>1, <2>2, <2>3, <3>1, <3>2 DEF FirstRun
  <2>4. CASE s # q
    <3>1. Open(calls, s) => FrameOf(calls', s) = FrameOf(calls, s)
      BY <1>6, <2>4
    <3>2. FirstRun(s)' = FirstRun(s)
      BY <1>1, <2>1, <3>1 DEF FirstRun
    <3> QED BY <2>2, <2>4, <3>2
  <2> QED BY <2>3, <2>4
<1> QED
  BY <1>6, <1>9, <1>10 DEF q

LEMMA NextPointTallies == Inv /\ Inv' /\ TreeOK /\ TallyOK /\ NextPoint => TallyOK'
<1> SUFFICES ASSUME Inv, Inv', TreeOK, TallyOK, NextPoint PROVE TallyOK'
  OBVIOUS
<1>1. pc = "solve" /\ pc' = "solve" /\ UNCHANGED <<tree, runs>>
  BY DEF NextPoint
<1>2. StackOK' /\ Unmoved
  BY NextPointMoves
<1>3. Balanced'
  BY <1>1, <1>2, BalanceStays DEF TallyOK
<1> QED
  BY <1>1, <1>2, <1>3, TallyOKStays

LEMMA EnterSweepMoves ==
  ASSUME Inv, Inv', TreeOK, TallyOK, EnterSweep
  PROVE  /\ StackOK' /\ Unmoved
         /\ \A p : Open(calls', p) <=> Open(calls, p) \/ p = Due
         /\ \A s \in Sweep :
              FirstRun(s)' = FirstRun(s) + (IF s = Due /\ runs'[s] = 1 THEN 1 ELSE 0)
<1> DEFINE d == Due
           n == Len(calls)
           next == calls'
<1>1. /\ AnyDue /\ d \in Sweep /\ children[d] # <<>> /\ pc = "solve" /\ pc' = "solve"
      /\ UNCHANGED <<tree, solved>>
      /\ runs' = [runs EXCEPT ![d] = @ + 1]
      /\ calls' = Append(calls, Frame(d))
  BY DEF EnterSweep, AnyDue
<1>2. /\ Top \in FrameType /\ calls[n] = Top /\ n \in Nat \ {0} /\ calls \in Seq(FrameType)
      /\ Top.k \in 1..Len(ListOf(Top.parent)) /\ d = ListOf(Top.parent)[Top.k]
  BY <1>1, TopIs DEF Inv, CallsOK, FrameType, Top, Due
<1> HIDE DEF d
<1>3. Frame(d) \in FrameType /\ Frame(d).parent = d /\ Frame(d).k = 1 /\ Frame(d).point = 1
  BY <1>1 DEF Frame, FrameType
<1>4. /\ next \in Seq(FrameType) /\ Len(next) = n + 1 /\ next[n + 1] = Frame(d)
      /\ \A i \in 1..n : next[i] = calls[i]
  BY <1>1, <1>2, <1>3
<1>5. \A i \in 1..(n + 1) : i = n + 1 \/ i \in 1..n
  BY <1>2
<1>6. Chained(calls')
  <2> SUFFICES ASSUME NEW i \in 1..n
               PROVE  /\ next[i].k \in 1..Len(ListOf(next[i].parent))
                      /\ next[i + 1].parent = ListOf(next[i].parent)[next[i].k]
    BY <1>2, <1>4 DEF Chained
  <2>1. CASE i = n
    BY <1>2, <1>3, <1>4, <2>1
  <2>2. CASE i # n
    <3>1. i \in 1..(n - 1) /\ i + 1 \in 1..n
      BY <1>2, <2>2
    <3> QED BY <1>4, <3>1 DEF TallyOK, StackOK, Chained
  <2> QED BY <2>1, <2>2
<1>7. StackOK'
  <2>1. \A i \in 1..Len(next) : next[i].point >= 1
    BY <1>3, <1>4, <1>5 DEF TallyOK, StackOK
  <2>2. next[1].point = 1
    <3>1. 1 \in 1..n /\ calls # <<>>
      BY <1>2
    <3> QED BY <1>4, <3>1 DEF TallyOK, StackOK
  <2> QED BY <1>1, <1>6, <2>1, <2>2, StackOKStays
<1>8. Distinct(calls) /\ Distinct(next)
  BY <1>1, <1>6, NextDistinct, StackDistinct DEF TallyOK, StackOK
<1> HIDE DEF next
<1>9. ~Open(calls, d) /\ Open(next, d) /\ FrameOf(next, d).point = 1
      /\ \A place \in Nat : place >= 1 => Progress(next, d, place) = 0 /\ Progress(calls, d, place) = 0
  <2>1. n + 1 \in 1..Len(next) /\ next[n + 1].parent = d /\ next[n + 1].point = 1 /\ next[n + 1].k = 1
    BY <1>2, <1>3, <1>4
  <2>2. /\ Open(next, d) /\ FrameOf(next, d) = next[n + 1]
        /\ \A place \in Nat : Progress(next, d, place)
                                = next[n + 1].point - 1 + (IF next[n + 1].k > place THEN 1 ELSE 0)
    BY <1>4, <1>8, <2>1, ProgressOf
  <2>3. ~Open(calls, d)
    <3> SUFFICES ASSUME NEW i \in 1..n, calls[i].parent = d PROVE FALSE
      BY DEF Open
    <3>1. i \in 1..Len(next) /\ next[i].parent = next[n + 1].parent /\ i # n + 1
      BY <1>2, <1>4, <2>1
    <3> QED BY <1>8, <2>1, <3>1 DEF Distinct
  <2> QED BY <2>1, <2>2, <2>3 DEF Progress
<1>10. ASSUME NEW p, p # d
       PROVE  /\ Open(next, p) <=> Open(calls, p)
              /\ Open(calls, p) => FrameOf(next, p) = FrameOf(calls, p)
              /\ \A place \in Nat : Progress(next, p, place) = Progress(calls, p, place)
  <2>1. \A i \in 1..Len(calls) : calls[i].parent = p => \E j \in 1..Len(next) : next[j] = calls[i]
    <3>1. \A i \in 1..n : i \in 1..Len(next)
      BY <1>2, <1>4
    <3> QED BY <1>4, <3>1
  <2>2. \A j \in 1..Len(next) : next[j].parent = p => \E i \in 1..Len(calls) : calls[i] = next[j]
    BY <1>3, <1>4, <1>5, <1>10
  <2> QED BY <1>2, <1>4, <1>8, <2>1, <2>2, ProgressSame
<1>11. \A c \in Analysis : Done(c)' = Done(c)
  <2> SUFFICES ASSUME NEW c \in Analysis PROVE Done(c)' = Done(c)
    OBVIOUS
  <2>1. Open(calls, c)' <=> Open(next, c)
    BY DEF next
  <2>2. CASE c = d
    BY <1>1, <1>9, <2>1, <2>2 DEF Done, Inv, ResultsOK
  <2>3. CASE c # d
    BY <1>1, <1>10, <2>1, <2>3 DEF Done, Inv, ResultsOK
  <2> QED BY <2>2, <2>3
<1>12. \A p \in Sweep \union {Net} : \A c \in Range(ListOf(p)) : Part(p, c)' = Part(p, c)
  <2> SUFFICES ASSUME NEW p \in Sweep \union {Net}, NEW c \in Range(ListOf(p))
               PROVE  Part(p, c)' = Part(p, c)
    OBVIOUS
  <2> DEFINE place == Position(c, ListOf(p))
  <2>1. place \in Nat /\ place >= 1
    BY PartIs DEF Inv
  <2>2. UNCHANGED ListOf(p)
    BY <1>1 DEF tree, ListOf
  <2>3. p # Net => Done(p)' = Done(p)
    <3>1. p # Net => p \in Analysis
      BY DEF Analysis
    <3> QED BY <1>11, <3>1
  <2>4. Progress(next, p, place) = Progress(calls, p, place)
    <3> HIDE DEF place
    <3> QED BY <1>9, <1>10, <2>1
  <2> QED BY <2>2, <2>3, <2>4 DEF Part, next
<1>13. Unmoved
  BY <1>11, <1>12 DEF Unmoved
<1>14. \A p : Open(next, p) <=> Open(calls, p) \/ p = d
  BY <1>9, <1>10
<1>15. ASSUME NEW s \in Sweep
       PROVE  FirstRun(s)' = FirstRun(s) + (IF s = d /\ runs'[s] = 1 THEN 1 ELSE 0)
  <2>1. /\ Open(calls, s)' <=> Open(next, s)
        /\ FrameOf(calls, s)' = FrameOf(next, s)
    BY DEF next
  <2>2. FirstRun(s) \in Nat /\ runs[s] \in Nat /\ runs[d] \in Nat
    BY <1>1, FirstRunType DEF Inv, ResultsOK
  <2>3. runs'[s] = IF s = d THEN runs[s] + 1 ELSE runs[s]
    BY <1>1 DEF Inv, ResultsOK
  <2>4. CASE s = d
    BY <1>9, <2>1, <2>2, <2>3, <2>4 DEF FirstRun
  <2>5. CASE s # d
    <3>1. FirstRun(s)' = FirstRun(s)
      BY <1>10, <2>1, <2>3, <2>5 DEF FirstRun
    <3> QED BY <2>2, <2>5, <3>1
  <2> QED BY <2>4, <2>5
<1> QED
  BY <1>7, <1>13, <1>14, <1>15 DEF next, d

LEMMA EnterSweepTallies == Inv /\ Inv' /\ TreeOK /\ TallyOK /\ EnterSweep => TallyOK'
<1> SUFFICES ASSUME Inv, Inv', TreeOK, TallyOK, EnterSweep PROVE TallyOK'
  OBVIOUS
<1>1. /\ pc = "solve" /\ pc' = "solve" /\ UNCHANGED tree
      /\ Due \in Sweep /\ children[Due] # <<>> /\ runs' = [runs EXCEPT ![Due] = @ + 1]
  BY DEF EnterSweep, AnyDue
<1>2. StackOK' /\ Unmoved
  BY EnterSweepMoves
<1>3. Balanced'
  BY <1>1, <1>2, BalanceStays DEF TallyOK
<1>4. \A s \in Sweep : runs'[s] > 0 => runs[s] > 0 \/ children[s] # <<>>
  BY <1>1 DEF Inv, ResultsOK
<1> QED
  BY <1>1, <1>2, <1>3, <1>4, TallyOKStays

LEMMA LeaveSweepMoves ==
  ASSUME Inv, Inv', TreeOK, TallyOK, LeaveSweep
  PROVE  /\ StackOK'
         /\ \E q : Moved(q, Top.parent) /\ deps' = Assigned(q, solved)
         /\ \A p : Open(calls', p) <=> Open(calls, p) /\ p # Top.parent
         /\ Open(calls, Top.parent) /\ Top.parent \in Sweep
         /\ \A c \in Range(ListOf(Top.parent)) :
              Progress(calls, Top.parent, Position(c, ListOf(Top.parent))) >= 1
         /\ \A s \in Sweep : FirstRun(s)' = FirstRun(s)
<1>1. PICK d : d = Top.parent
  OBVIOUS
<1> DEFINE next == calls'
<1>2. /\ ~AnyDue /\ pc = "solve" /\ pc' = "solve" /\ d # Net /\ Top.point = Points[d]
      /\ UNCHANGED <<tree, runs, solved>>
  BY <1>1 DEF LeaveSweep
<1>3. PICK o \in Nat \ {0} :
        /\ Len(calls) = o + 1 /\ calls[o] \in FrameType
        /\ next \in Seq(FrameType) /\ Len(next) = o
        /\ \A i \in 1..(o - 1) : next[i] = calls[i]
        /\ next[o] = [parent |-> calls[o].parent, point |-> calls[o].point, k |-> calls[o].k + 1]
        /\ deps' = Assigned(calls[o].parent, solved)
  BY LeftFrames DEF Inv
<1> DEFINE q == calls[o].parent
<1>4. /\ d \in Sweep /\ Top.k \in Nat /\ Top.point \in Nat /\ calls[o + 1] = Top
      /\ ListOf(d) \in Seq(Analysis) /\ Len(ListOf(d)) < Top.k
  BY <1>1, <1>2, <1>3, TopIs DEF Inv, FrameType, AnyDue, Top
<1>5. /\ next[o] \in FrameType /\ next[o].parent = q /\ next[o].point = calls[o].point
      /\ next[o].k = calls[o].k + 1 /\ calls[o].k \in Nat /\ calls[o].point \in Nat
      /\ q \in Sweep \union {Net} /\ calls \in Seq(FrameType)
  BY <1>3 DEF FrameType, Inv, CallsOK
<1>6. calls[o].k \in 1..Len(ListOf(q)) /\ d = ListOf(q)[calls[o].k]
  <2>1. o \in 1..(Len(calls) - 1)
    BY <1>3
  <2>2. calls[o + 1].parent = d
    BY <1>1, <1>4
  <2> QED BY <2>1, <2>2 DEF TallyOK, StackOK, Chained
<1>7. \A i \in 1..o : i = o \/ i \in 1..(o - 1)
  BY <1>3
<1>8. \A i \in 1..o : next[i].parent = calls[i].parent /\ next[i].point = calls[i].point
  BY <1>3, <1>5, <1>7
<1>9. Chained(calls')
  <2> SUFFICES ASSUME NEW i \in 1..(o - 1)
               PROVE  /\ next[i].k \in 1..Len(ListOf(next[i].parent))
                      /\ next[i + 1].parent = ListOf(next[i].parent)[next[i].k]
    BY <1>3 DEF Chained
  <2>1. i + 1 \in 1..o /\ i \in 1..(Len(calls) - 1)
    BY <1>3
  <2> QED BY <1>3, <1>8, <2>1 DEF TallyOK, StackOK, Chained
<1>10. StackOK'
  <2>1. \A i \in 1..o : i \in 1..Len(calls)
    BY <1>3
  <2>2. \A i \in 1..Len(next) : next[i].point >= 1
    BY <1>3, <1>8, <2>1 DEF TallyOK, StackOK
  <2>3. next[1].point = 1
    <3>1. 1 \in 1..o /\ calls # <<>>
      BY <1>3
    <3> QED BY <1>8, <3>1 DEF TallyOK, StackOK
  <2> QED BY <1>2, <1>9, <2>2, <2>3, StackOKStays
<1>11. Distinct(calls) /\ Distinct(next)
  BY <1>2, <1>9, NextDistinct, StackDistinct DEF TallyOK, StackOK
<1>12. o \in 1..Len(calls) /\ o + 1 \in 1..Len(calls) /\ o \in 1..Len(next)
  BY <1>3
<1>13. /\ Open(calls, d) /\ Open(calls, q)
       /\ FrameOf(calls, d).point = Points[d] /\ FrameOf(calls, q).point = calls[o].point
       /\ \A place \in Nat : Progress(calls, d, place)
                               = Points[d] - 1 + (IF Top.k > place THEN 1 ELSE 0)
       /\ \A place \in Nat : Progress(calls, q, place)
                               = calls[o].point - 1 + (IF calls[o].k > place THEN 1 ELSE 0)
  <2>1. calls[o + 1].parent = d /\ calls[o + 1].point = Points[d] /\ calls[o + 1].k = Top.k
    BY <1>1, <1>2, <1>4
  <2>2. /\ Open(calls, calls[o].parent) /\ FrameOf(calls, calls[o].parent) = calls[o]
        /\ \A place \in Nat : Progress(calls, calls[o].parent, place)
                                = calls[o].point - 1 + (IF calls[o].k > place THEN 1 ELSE 0)
    BY <1>5, <1>11, <1>12, ProgressOf
  <2>3. /\ Open(calls, calls[o + 1].parent) /\ FrameOf(calls, calls[o + 1].parent) = calls[o + 1]
        /\ \A place \in Nat : Progress(calls, calls[o + 1].parent, place)
                                = calls[o + 1].point - 1 + (IF calls[o + 1].k > place THEN 1 ELSE 0)
    BY <1>5, <1>11, <1>12, ProgressOf
  <2> QED BY <2>1, <2>2, <2>3
<1>14. d # q
  <2>1. calls[o + 1].parent = d /\ o # o + 1
    BY <1>1, <1>3, <1>4
  <2> QED BY <1>11, <1>12, <2>1 DEF Distinct
<1> HIDE DEF next
<1>15. /\ Open(next, q) /\ FrameOf(next, q).point = calls[o].point
       /\ \A place \in Nat : Progress(next, q, place)
                               = calls[o].point - 1 + (IF calls[o].k + 1 > place THEN 1 ELSE 0)
  <2>1. /\ Open(next, next[o].parent) /\ FrameOf(next, next[o].parent) = next[o]
        /\ \A place \in Nat : Progress(next, next[o].parent, place)
                                = next[o].point - 1 + (IF next[o].k > place THEN 1 ELSE 0)
    BY <1>3, <1>11, <1>12, ProgressOf
  <2> QED BY <1>5, <2>1
<1>16. ~Open(next, d) /\ \A place \in Nat : Progress(next, d, place) = 0
  <2>1. ASSUME NEW i \in 1..o, next[i].parent = d PROVE FALSE
    <3>1. i \in 1..Len(calls) /\ i # o + 1 /\ calls[i].parent = d /\ calls[o + 1].parent = d
      BY <1>1, <1>3, <1>4, <1>8, <2>1
    <3> QED BY <1>11, <1>12, <3>1 DEF Distinct
  <2>2. ~Open(next, d)
    BY <1>3, <2>1 DEF Open
  <2> QED BY <2>2 DEF Progress
<1>17. ASSUME NEW p, p # d, p # q
       PROVE  /\ Open(next, p) <=> Open(calls, p)
              /\ Open(calls, p) => FrameOf(next, p) = FrameOf(calls, p)
              /\ \A place \in Nat : Progress(next, p, place) = Progress(calls, p, place)
  <2>1. ASSUME NEW i \in 1..Len(calls), calls[i].parent = p
        PROVE  \E j \in 1..Len(next) : next[j] = calls[i]
    <3>1. i # o + 1 /\ i # o
      BY <1>1, <1>4, <1>17, <2>1
    <3>2. i \in 1..(o - 1) /\ i \in 1..Len(next)
      BY <1>3, <3>1
    <3> QED BY <1>3, <3>2
  <2>2. ASSUME NEW j \in 1..Len(next), next[j].parent = p
        PROVE  \E i \in 1..Len(calls) : calls[i] = next[j]
    <3>1. j # o
      BY <1>5, <1>17, <2>2
    <3>2. j \in 1..(o - 1) /\ j \in 1..Len(calls)
      BY <1>3, <3>1
    <3> QED BY <1>3, <3>2
  <2> QED BY <1>3, <1>5, <1>11, <2>1, <2>2, ProgressSame
<1> HIDE DEF q
<1>18. d \in Analysis /\ q # d
  BY <1>4, <1>14 DEF Analysis
<1>19. \A c \in Analysis : Done(c)' = Done(c) + (IF c = d THEN 1 ELSE 0)
  <2> SUFFICES ASSUME NEW c \in Analysis PROVE Done(c)' = Done(c) + (IF c = d THEN 1 ELSE 0)
    OBVIOUS
  <2>1. Open(calls, c)' <=> Open(next, c)
    BY DEF next
  <2>2. Done(c) \in Int
    BY DoneType
  <2>3. CASE c = d
    <3>1. runs[d] \in Int /\ Done(c) = runs[d] - 1 /\ Done(c)' = runs[d] - 0
      BY <1>2, <1>4, <1>13, <1>16, <2>1, <2>3 DEF Done, Inv, ResultsOK
    <3> QED BY <2>3, <3>1
  <2>4. CASE c # d
    <3>1. Open(next, c) <=> Open(calls, c)
      BY <1>13, <1>15, <1>17, <2>4
    <3>2. Done(c)' = Done(c)
      BY <1>2, <2>1, <3>1 DEF Done
    <3> QED BY <2>2, <2>4, <3>2
  <2> QED BY <2>3, <2>4
<1>20. /\ d \in Range(ListOf(q)) /\ (q \in Sweep => q \in Present(file))
       /\ \A c \in Range(ListOf(q)) : Position(c, ListOf(q)) = calls[o].k <=> c = d
  <2>1. ListOf(q) \in Seq(Analysis) /\ IsInjective(ListOf(q))
    BY <1>5, ListsAre DEF Inv, q
  <2>2. q \in Sweep => q # Net
    BY KindsDiffer DEF Analysis
  <2>3. q # Net => children[q] # <<>>
    BY <1>12 DEF Inv, CallsOK, q
  <2>4. q \in Sweep => q \in Present(file)
    BY <2>2, <2>3, ListsAre DEF Inv
  <2>5. calls[o].k \in 1..Len(ListOf(q)) /\ d = ListOf(q)[calls[o].k]
    BY <1>6 DEF q
  <2>6. d \in Range(ListOf(q))
    BY <2>1, <2>5 DEF Range
  <2> QED BY <2>1, <2>4, <2>5, <2>6, PositionIs
<1>21. \A p \in Sweep \union {Net} : \A c \in Range(ListOf(p)) :
         Part(p, c)' = Part(p, c) + (IF p = q /\ c = d THEN 1 ELSE 0)
  <2> SUFFICES ASSUME NEW p \in Sweep \union {Net}, NEW c \in Range(ListOf(p))
               PROVE  Part(p, c)' = Part(p, c) + (IF p = q /\ c = d THEN 1 ELSE 0)
    OBVIOUS
  <2> DEFINE place == Position(c, ListOf(p))
             a == IF p = Net THEN 0 ELSE Points[p] * Done(p)
             b == IF p = Net THEN 0 ELSE Points[p] * Done(p)'
  <2>1. place \in Nat /\ place <= Len(ListOf(p))
    BY PartIs DEF Inv
  <2>2. UNCHANGED ListOf(p)
    BY <1>2 DEF tree, ListOf
  <2>3. Part(p, c) = a + Progress(calls, p, place) /\ Part(p, c)' = b + Progress(next, p, place)
    BY <2>2 DEF Part, next
  <2>4. a \in Int /\ Progress(calls, p, place) \in Int
    <3>1. p # Net => p \in Analysis /\ Points[p] \in Int
      BY PointsPositive DEF Analysis
    <3>2. Progress(calls, p, place) \in Int
      BY <1>5, <2>1, ProgressType
    <3> QED BY <3>1, <3>2, DoneType
  <2>5. CASE p = d
    <3>1. d # Net /\ Points[d] \in Int /\ Done(d) \in Int /\ Done(d)' = Done(d) + 1
      <4>1. d # Net
        BY <1>4, KindsDiffer DEF Analysis
      <4>2. Points[d] \in Int
        BY <1>4, PointsPositive
      <4>3. Done(d) \in Int
        BY <1>18, DoneType
      <4>4. Done(d)' = Done(d) + 1
        BY <1>18, <1>19
      <4> QED BY <4>1, <4>2, <4>3, <4>4
    <3>2. \A x, y \in Int : x * (y + 1) = x * y + x
      OBVIOUS
    <3>3. b = a + Points[d]
      <4>1. Points[d] * (Done(d) + 1) = Points[d] * Done(d) + Points[d]
        BY <3>1, <3>2
      <4>2. b = Points[d] * Done(d)'
        BY <2>5, <3>1
      <4>3. a = Points[d] * Done(d)
        BY <2>5, <3>1
      <4> QED BY <3>1, <4>1, <4>2, <4>3
    <3>4. Progress(calls, p, place) = Points[d] /\ Progress(next, p, place) = 0
      <4>1. Top.k > place
        BY <1>4, <2>1, <2>5
      <4> HIDE DEF place
      <4> QED BY <1>13, <1>16, <2>1, <2>5, <3>1, <4>1
    <3> HIDE DEF a, b, place
    <3> QED BY <1>18, <2>3, <2>4, <2>5, <3>1, <3>3, <3>4
  <2>6. CASE p # d
    <3>1. b = a
      <4>1. p # Net => p \in Analysis
        BY DEF Analysis
      <4> QED BY <1>19, <2>6, <4>1, DoneType
    <3>2. Progress(next, p, place) = Progress(calls, p, place) + (IF p = q /\ c = d THEN 1 ELSE 0)
      <4>1. CASE p = q
        <5>1. place = calls[o].k <=> c = d
          BY <1>20, <4>1
        <5> HIDE DEF place
        <5> QED BY <1>5, <1>13, <1>15, <2>1, <4>1, <5>1
      <4>2. CASE p # q
        <5> HIDE DEF place
        <5> QED BY <1>17, <2>1, <2>4, <2>6, <4>2
      <4> QED BY <4>1, <4>2
    <3> HIDE DEF a, b, place
    <3> QED BY <2>3, <2>4, <3>1, <3>2
  <2> QED BY <2>5, <2>6
<1>22. Moved(q, d) /\ deps' = Assigned(q, solved)
  <2>1. q \in Sweep \union {Net}
    BY <1>5 DEF q
  <2>2. deps' = Assigned(q, solved)
    BY <1>3 DEF q
  <2> QED BY <1>19, <1>20, <1>21, <2>1, <2>2 DEF Moved
<1>23. \A p : Open(next, p) <=> Open(calls, p) /\ p # d
  BY <1>13, <1>15, <1>16, <1>17
<1>24. \A c \in Range(ListOf(d)) : Progress(calls, d, Position(c, ListOf(d))) >= 1
  <2> SUFFICES ASSUME NEW c \in Range(ListOf(d))
               PROVE  Progress(calls, d, Position(c, ListOf(d))) >= 1
    OBVIOUS
  <2> DEFINE place == Position(c, ListOf(d))
  <2>1. place \in Nat /\ place <= Len(ListOf(d))
    BY <1>4, PartIs DEF Inv
  <2>2. Top.k > place
    BY <1>4, <2>1
  <2>3. Points[d] \in Nat \ {0}
    BY <1>4, PointsPositive
  <2> HIDE DEF place
  <2> QED BY <1>13, <2>1, <2>2, <2>3 DEF place
<1>25. ASSUME NEW s \in Sweep PROVE FirstRun(s)' = FirstRun(s)
  <2>1. /\ Open(calls, s)' <=> Open(next, s)
        /\ FrameOf(calls, s)' = FrameOf(next, s)
    BY DEF next
  <2>2. CASE s = d
    BY <1>2, <1>13, <1>16, <2>1, <2>2 DEF FirstRun
  <2>3. CASE s # d
    <3>1. /\ Open(next, s) <=> Open(calls, s)
          /\ Open(calls, s) => FrameOf(next, s).point = FrameOf(calls, s).point
      BY <1>13, <1>15, <1>17, <2>3
    <3> QED BY <1>2, <2>1, <3>1 DEF FirstRun
  <2> QED BY <2>2, <2>3
<1> QED
  BY <1>1, <1>4, <1>10, <1>13, <1>22, <1>23, <1>24, <1>25 DEF next

LEMMA LeaveSweepTallies == Inv /\ Inv' /\ TreeOK /\ TallyOK /\ LeaveSweep => TallyOK'
<1> SUFFICES ASSUME Inv, Inv', TreeOK, TallyOK, LeaveSweep PROVE TallyOK'
  OBVIOUS
<1>1. pc = "solve" /\ pc' = "solve" /\ UNCHANGED <<tree, runs>>
  BY DEF LeaveSweep
<1>2. StackOK' /\ \E q : Moved(q, Top.parent)
  BY LeaveSweepMoves
<1>3. Balanced'
  BY <1>1, <1>2, BalanceMoves DEF TallyOK
<1> QED
  BY <1>1, <1>2, <1>3, TallyOKStays

LEMMA InitializeMoves ==
  ASSUME Inv, Inv', TreeOK, TallyOK, Initialize
  PROVE  /\ StackOK'
         /\ \A p : Open(calls', p) <=> p = Net
         /\ \A c \in Analysis : Done(c)' = 0
         /\ \A p \in Sweep \union {Net} : \A c \in Range(ListOf(p)) : Part(p, c)' = 0
<1> DEFINE next == calls'
<1>1. /\ pc = "initialize" /\ pc' = "solve" /\ UNCHANGED <<tree, runs, solved>>
      /\ next = <<Frame(Net)>>
  BY DEF Initialize, results
<1>2. (\A s \in Sweep : runs[s] = 0) /\ (\A a \in Single : solved[a] = 0)
  BY <1>1 DEF TallyOK
<1>3. Frame(Net) \in FrameType /\ Frame(Net).parent = Net /\ Frame(Net).k = 1 /\ Frame(Net).point = 1
  BY DEF Frame, FrameType
<1>4. next \in Seq(FrameType) /\ Len(next) = 1 /\ next[1] = Frame(Net)
  BY <1>1, <1>3
<1>5. Chained(calls')
  BY <1>4 DEF Chained
<1>6. StackOK'
  BY <1>1, <1>3, <1>4, <1>5, StackOKStays
<1> HIDE DEF next
<1>7. ASSUME NEW p
      PROVE  /\ Open(next, p) <=> p = Net
             /\ \A place \in Nat : place >= 1 => Progress(next, p, place) = 0
  <2>1. Open(next, p) <=> p = Net
    BY <1>3, <1>4 DEF Open
  <2>2. CASE p # Net
    BY <2>1, <2>2 DEF Progress
  <2>3. CASE p = Net
    <3>1. Distinct(next) /\ 1 \in 1..Len(next) /\ next[1].parent = Net
      BY <1>3, <1>4 DEF Distinct
    <3>2. \A place \in Nat : Progress(next, next[1].parent, place)
                               = next[1].point - 1 + (IF next[1].k > place THEN 1 ELSE 0)
      BY <1>4, <3>1, ProgressOf
    <3> QED BY <1>3, <1>4, <2>1, <2>3, <3>1, <3>2
  <2> QED BY <2>2, <2>3
<1>8. Net \notin Sweep
  BY KindsDiffer DEF Analysis
<1>9. \A c \in Analysis : Done(c)' = 0
  <2> SUFFICES ASSUME NEW c \in Analysis PROVE Done(c)' = 0
    OBVIOUS
  <2>1. Open(calls, c)' <=> Open(next, c)
    BY DEF next
  <2>2. c \in Sweep \/ c \in Single
    BY DEF Analysis, Single
  <2> QED BY <1>1, <1>2, <1>7, <1>8, <2>1, <2>2 DEF Done
<1>10. ASSUME NEW p \in Sweep \union {Net}, NEW c \in Range(ListOf(p)) PROVE Part(p, c)' = 0
  <2>1. Position(c, ListOf(p)) \in Nat /\ Position(c, ListOf(p)) >= 1
    BY PartIs DEF Inv
  <2>2. UNCHANGED ListOf(p)
    BY <1>1 DEF tree, ListOf
  <2>3. Progress(next, p, Position(c, ListOf(p))) = 0
    BY <1>7, <2>1
  <2>4. p # Net => Points[p] \in Nat /\ Done(p)' = 0
    <3>1. p # Net => p \in Analysis
      BY DEF Analysis
    <3> QED BY <1>9, <3>1, PointsPositive
  <2>5. (IF p = Net THEN 0 ELSE Points[p] * Done(p)') = 0
    BY <2>4
  <2> QED BY <2>2, <2>3, <2>5 DEF Part, next
<1> QED
  BY <1>6, <1>7, <1>9, <1>10 DEF next

LEMMA InitializeTallies == Inv /\ Inv' /\ TreeOK /\ TallyOK /\ Initialize => TallyOK'
<1> SUFFICES ASSUME Inv, Inv', TreeOK, TallyOK, Initialize PROVE TallyOK'
  OBVIOUS
<1>1. pc' = "solve" /\ UNCHANGED <<tree, runs>> /\ \A s \in Sweep : runs[s] = 0
  BY DEF Initialize, results, TallyOK
<1>2. /\ StackOK'
      /\ \A c \in Analysis : Done(c)' = 0
      /\ \A p \in Sweep \union {Net} : \A c \in Range(ListOf(p)) : Part(p, c)' = 0
  BY InitializeMoves
<1>3. Net \notin Sweep
  BY KindsDiffer DEF Analysis
<1>4. Balanced'
  <2>1. UNCHANGED <<file, actions, children>>
    BY <1>1 DEF tree
  <2> SUFFICES ASSUME NEW c \in Present(file) PROVE Done(c)' = Owed(c)'
    BY <2>1 DEF Balanced
  <2> DEFINE H == Holders(c)
             e == [s \in Sweep |-> Part(s, c)']
  <2>2. Owed(c)' = Total(file, H, e) + (IF c \in Range(actions) THEN Part(Net, c)' ELSE 0)
    BY <2>1 DEF Owed, Holders, Present
  <2>3. \A s \in H : e[s] = 0
    BY <1>2, <1>3 DEF Holders, ListOf
  <2>4. c \in Range(actions) => Part(Net, c)' = 0
    BY <1>2 DEF ListOf
  <2>5. file \in Seq(Analysis) /\ c \in Analysis
    BY DEF Inv, FileOK, Present, Range
  <2> HIDE DEF H, e
  <2>6. Total(file, H, e) = 0
    BY <2>3, <2>5, TotalAtLeast
  <2> QED BY <1>2, <2>2, <2>4, <2>5, <2>6
<1> QED
  BY <1>1, <1>2, <1>4 DEF TallyOK

LEMMA TalliesAdd == Spec => []TallyOK
<1>1. Init => TallyOK
  BY DEF Init, TallyOK, StackOK, Chained
<1>2. Inv /\ Inv' /\ TreeOK /\ TallyOK /\ [Next]_vars => TallyOK'
  <2> SUFFICES ASSUME Inv, Inv', TreeOK, TallyOK, [Next]_vars PROVE TallyOK'
    OBVIOUS
  <2>1. CASE OrderRound \/ OrderDone
    <3>1. /\ pc = "order" /\ pc' \in {"order", "initialize"} /\ UNCHANGED <<calls, runs, solved>>
      BY <2>1 DEF OrderRound, OrderDone, results
    <3>2. calls = <<>> /\ \A s \in Sweep : runs[s] = 0 /\ \A a \in Single : solved[a] = 0
      BY <3>1 DEF TallyOK
    <3> QED BY <3>1, <3>2 DEF TallyOK, StackOK, Chained
  <2>2. CASE SweepWithoutChild
    <3>1. UNCHANGED <<tree, calls>> /\ pc' = "crashed" /\ pc = "solve"
      BY <2>2 DEF SweepWithoutChild, AnyDue
    <3>2. StackOK'
      BY <3>1 DEF TallyOK, StackOK, Chained, ListOf, tree
    <3> QED BY <3>1, <3>2 DEF TallyOK
  <2>3. CASE Finish
    <3>1. /\ UNCHANGED <<tree, calls, runs, solved>> /\ pc' = "done" /\ pc = "solve"
          /\ ~AnyDue /\ Top.parent = Net
      BY <2>3 DEF Finish, results
    <3>2. StackOK'
      BY <3>1 DEF TallyOK, StackOK, Chained, ListOf, tree
    <3>3. Balanced'
      <4>1. \A c \in Analysis : Done(c)' = Done(c)
        BY <3>1 DEF Done
      <4>2. \A p \in Sweep \union {Net} : \A c \in Range(ListOf(p)) : Part(p, c)' = Part(p, c)
        BY <3>1 DEF Part, Done, ListOf, tree
      <4> QED BY <3>1, <4>1, <4>2, BalanceStays DEF TallyOK, Unmoved
    <3>4. Len(calls) = 1 /\ calls[1].k > Len(actions)
      <4>1. Len(calls) = 1 /\ Top.k \in Nat /\ ListOf(Top.parent) \in Seq(Analysis)
        BY <3>1, TopIs DEF Inv, FrameType
      <4>2. ListOf(Top.parent) = actions /\ Top = calls[1]
        BY <3>1, <4>1 DEF ListOf, Top
      <4> QED BY <3>1, <4>1, <4>2 DEF AnyDue
    <3> QED BY <3>1, <3>2, <3>3, <3>4 DEF TallyOK, tree
  <2>4. CASE UNCHANGED vars
    <3>1. UNCHANGED <<file, actions, children, pc, calls, runs, solved>>
      BY <2>4 DEF vars, tree, results
    <3>2. StackOK' <=> StackOK
      BY <3>1 DEF StackOK, Chained, ListOf
    <3>3. Balanced' <=> Balanced
      BY <3>1 DEF Balanced, Owed, Part, Done, Holders, ListOf, Present
    <3> QED BY <3>1, <3>2, <3>3 DEF TallyOK
  <2> QED BY <2>1, <2>2, <2>3, <2>4, InitializeTallies, SolveSingleTallies, EnterSweepTallies,
             NextPointTallies, LeaveSweepTallies DEF Next
<1> QED
  BY <1>1, <1>2, Invariant, TreeGrows, PTL DEF Spec

-----------------------------------------------------------------------------
\* From the tally to the number asked for.

LEMMA FileFinite ==
  ASSUME FileOK
  PROVE  /\ Present(file) \subseteq Analysis /\ IsFiniteSet(Present(file))
         /\ Len(file) \in Nat /\ Cardinality(Present(file)) <= Len(file)
<1> DEFINE n == Len(file)
<1>1. n \in Nat /\ DOMAIN file = 1..n /\ file \in Seq(Analysis)
  BY DEF FileOK
<1>2. Present(file) \subseteq Analysis
  BY <1>1 DEF Present, Range
<1>3. file \in Surjection(1..n, Present(file))
  BY <1>1 DEF Surjection, Present, Range
<1>4. IsFiniteSet(1..n) /\ Cardinality(1..n) = n
  BY <1>1, CountTo
<1> HIDE DEF n
<1>5. IsFiniteSet(Present(file)) /\ Cardinality(Present(file)) <= Cardinality(1..n)
  BY <1>3, <1>4, FS_Surjection
<1> QED
  BY <1>1, <1>2, <1>4, <1>5 DEF n

\* Among any analyses there is one that none of them names.
LEMMA FirstOfAny ==
  ASSUME FileOK, NEW S, S \subseteq Present(file), S # {}
  PROVE  \E t \in S : NamedBy(t) \intersect S = {}
<1> DEFINE U == S \intersect Sweep
           T == {sim[a] : a \in U}
           f == [a \in U |-> sim[a]]
<1>1. CASE U = {}
  BY <1>1 DEF NamedBy
<1>2. CASE U # {}
  <2> SUFFICES ASSUME \A t \in S : NamedBy(t) \intersect S # {} PROVE FALSE
    OBVIOUS
  <2>1. U \subseteq T
    BY DEF NamedBy
  <2>2. f \in Surjection(U, T)
    BY DEF Surjection
  <2>3. IsFiniteSet(U)
    BY FileFinite, FS_Subset
  <2>4. U \in SUBSET (Sweep \intersect Present(file))
    OBVIOUS
  <2> HIDE DEF f
  <2>5. IsFiniteSet(T) /\ Cardinality(T) <= Cardinality(U)
    <3> HIDE DEF U, T
    <3> QED BY <2>2, <2>3, FS_Surjection
  <2>6. Cardinality(U) <= Cardinality(T) /\ (Cardinality(T) = Cardinality(U) => T = U)
    <3> HIDE DEF U, T
    <3> QED BY <2>1, <2>5, FS_Subset
  <2>7. Cardinality(U) \in Nat /\ Cardinality(T) \in Nat
    <3> HIDE DEF U, T
    <3> QED BY <2>3, <2>5, FS_CardinalityType
  <2>8. T = U
    <3> HIDE DEF U, T
    <3> QED BY <2>5, <2>6, <2>7
  <2>9. PICK a \in U : sim[a] \notin U
    <3> HIDE DEF U, T
    <3> QED BY <1>2, <2>4 DEF FileOK, Accepted
  <2> QED BY <2>8, <2>9
<1> QED
  BY <1>1, <1>2

\* At the end each list has been solved as often as it was come to.
LEMMA DoneIs ==
  ASSUME Inv, TreeOK, TallyOK, pc = "done"
  PROVE  \A c \in Present(file) :
           Done(c) = Total(file, Holders(c), PointsOf(runs))
                       + (IF c \in Range(actions) THEN 1 ELSE 0)
<1>1. calls[1].k > Len(actions) /\ Balanced
  BY DEF TallyOK
<1>2. Len(calls) = 1 /\ calls \in Seq(FrameType)
  BY DEF Inv, CallsOK, TallyOK
<1>3. calls[1].parent = Net /\ calls[1].point = 1 /\ calls[1].k \in Nat
  <2>1. 1 \in 1..Len(calls) /\ calls[1] \in FrameType
    BY <1>2
  <2>2. calls # <<>>
    BY <1>2, EmptySeq
  <2> QED BY <2>1, <2>2 DEF Inv, CallsOK, TallyOK, StackOK, FrameType
<1>4. Net \notin Sweep
  BY KindsDiffer DEF Analysis
<1>5. \A s \in Sweep : ~Open(calls, s)
  BY <1>3, <1>4, <1>2 DEF Open
<1>6. ASSUME NEW s \in Sweep, NEW c PROVE Part(s, c) = Points[s] * runs[s]
  <2>1. Done(s) = runs[s] /\ Progress(calls, s, Position(c, ListOf(s))) = 0
    BY <1>5 DEF Done, Progress, Inv, ResultsOK
  <2>2. Points[s] * runs[s] \in Int
    BY PointsPositive DEF Inv, ResultsOK
  <2> QED BY <1>4, <2>1, <2>2 DEF Part
<1>7. ASSUME NEW c \in Range(actions) PROVE Part(Net, c) = 1
  <2>1. ListOf(Net) = actions
    BY DEF ListOf
  <2>2. Position(c, actions) \in Nat /\ Position(c, actions) <= Len(actions) /\ Len(actions) \in Nat
    BY <2>1, PartIs DEF Inv, ListsOK
  <2>3. Distinct(calls) /\ 1 \in 1..Len(calls)
    BY <1>2 DEF Distinct
  <2> DEFINE place == Position(c, actions)
  <2>4. calls[1].k > place /\ place \in Nat
    BY <1>1, <1>3, <2>2
  <2> HIDE DEF place
  <2>5. \A x \in Nat : Progress(calls, calls[1].parent, x)
                         = calls[1].point - 1 + (IF calls[1].k > x THEN 1 ELSE 0)
    BY <1>2, <2>3, ProgressOf
  <2>6. Progress(calls, Net, place) = 1
    BY <1>3, <2>4, <2>5
  <2> QED BY <2>1, <2>6 DEF Part, place
<1> SUFFICES ASSUME NEW c \in Present(file)
             PROVE  Done(c) = Total(file, Holders(c), PointsOf(runs))
                                + (IF c \in Range(actions) THEN 1 ELSE 0)
  OBVIOUS
<1>8. [s \in Sweep |-> Part(s, c)] = PointsOf(runs)
  BY <1>6 DEF PointsOf
<1>9. Done(c) = Total(file, Holders(c), PointsOf(runs))
                  + (IF c \in Range(actions) THEN Part(Net, c) ELSE 0)
  BY <1>1, <1>8 DEF Balanced, Owed
<1> QED
  BY <1>7, <1>9

\* Every sweep was solved, and so has got its children.
LEMMA SweepsRun ==
  ASSUME Inv, TreeOK, TallyOK, pc = "done"
  PROVE  \A s \in Sweep \intersect Present(file) :
           runs[s] \in Nat \ {0} /\ children[s] = Group(sim[s])
<1> DEFINE P == Sweep \intersect Present(file)
           Z == {s \in P : runs[s] = 0}
           f == PointsOf(runs)
<1>1. \A s \in Sweep : runs[s] \in Nat
  BY DEF Inv, ResultsOK
<1>2. \A s \in Sweep : f[s] \in Nat /\ (runs[s] > 0 => f[s] > 0)
  <2> SUFFICES ASSUME NEW s \in Sweep
               PROVE  Points[s] * runs[s] \in Nat /\ (runs[s] > 0 => Points[s] * runs[s] > 0)
    BY DEF PointsOf
  <2>1. Points[s] \in Nat /\ Points[s] > 0
    BY PointsPositive
  <2>2. \A x, y \in Nat : x * y \in Nat /\ (x > 0 /\ y > 0 => x * y > 0)
    OBVIOUS
  <2> QED BY <1>1, <2>1, <2>2
<1>3. file \in Seq(Analysis)
  BY DEF Inv, FileOK
<1>4. Z = {}
  <2> SUFFICES ASSUME Z # {} PROVE FALSE
    OBVIOUS
  <2>1. PICK t \in Z : NamedBy(t) \intersect Z = {}
    BY FirstOfAny DEF Inv
  <2>2. t \in Sweep /\ t \in Present(file) /\ runs[t] = 0 /\ t # DC
    BY KindsDiffer
  <2>3. Done(t) = 0
    <3>1. Len(calls) = 1 /\ calls[1].parent = Net
      <4>1. Len(calls) = 1
        BY DEF TallyOK
      <4>2. 1 \in 1..Len(calls)
        BY <4>1
      <4> QED BY <4>1, <4>2 DEF Inv, CallsOK
    <3>2. ~Open(calls, t)
      BY <2>2, <3>1, KindsDiffer DEF Open, Analysis
    <3>3. Done(t) = runs[t] - 0
      BY <2>2, <3>2 DEF Done
    <3> QED BY <2>2, <3>3
  <2>4. Holders(t) \subseteq Sweep
    BY DEF Holders
  <2> HIDE DEF f
  <2>5. /\ Total(file, Holders(t), f) \in Nat
        /\ \A a \in Holders(t) \intersect Range(file) : f[a] <= Total(file, Holders(t), f)
    BY <1>2, <1>3, <2>4, TotalAtLeast
  <2>6. Total(file, Holders(t), f) = 0 /\ t \notin Range(actions)
    <3>1. Done(t) = Total(file, Holders(t), f) + (IF t \in Range(actions) THEN 1 ELSE 0)
      BY <2>2, DoneIs DEF f
    <3> QED BY <2>3, <2>5, <3>1
  <2>7. PICK s \in NamedBy(t) : TRUE
    BY <2>2, <2>6 DEF TreeOK
  <2>8. s \in Sweep /\ s \in Present(file) /\ sim[s] = t /\ runs[s] > 0
    BY <1>1, <2>1, <2>7 DEF NamedBy
  <2>9. children[s] # <<>> /\ sim[s] \in Range(children[s])
    BY <2>8, ListsAre DEF Inv, TallyOK
  <2>10. s \in Holders(t) \intersect Range(file)
    BY <2>8, <2>9 DEF Holders, Present
  <2> QED BY <1>2, <2>5, <2>6, <2>8, <2>10
<1> SUFFICES ASSUME NEW s \in P PROVE runs[s] \in Nat \ {0} /\ children[s] = Group(sim[s])
  OBVIOUS
<1>5. runs[s] \in Nat /\ runs[s] # 0
  BY <1>1, <1>4
<1> QED
  BY <1>5 DEF TallyOK, TreeOK

\* What a number of solutions has to be: 1, or that of the points to which the sweeps
\* come that name the analysis.
Share(c, times) == IF NamedBy(c) = {} THEN 1 ELSE Total(file, NamedBy(c), PointsOf(times))

\* At the end everything but a DC analysis that goes with others has its share.
LEMMA SharesAreTaken ==
  ASSUME Inv, TreeOK, TallyOK, pc = "done"
  PROVE  /\ \A c \in Present(file) : c # DC \/ Hosts = {} => Done(c) = Share(c, runs)
         /\ HasDC /\ Hosts # {} => Done(DC) = Total(file, Hosts \union NamedBy(DC), PointsOf(runs))
<1>1. FileOK /\ file \in Seq(Analysis) /\ Present(file) \subseteq Analysis
  BY FileFinite DEF Inv, FileOK
<1>2. \A s \in Sweep \intersect Present(file) :
        children[s] = Group(sim[s]) /\ sim[s] \in Analysis /\ sim[s] \in Present(file)
  BY SweepsRun DEF Inv, FileOK, Accepted
<1>3. \A s \in Sweep \intersect Present(file) : \A c :
        c \in Range(children[s]) <=> c = sim[s] \/ (c = DC /\ NeedsDC(sim[s]))
  BY <1>2, GroupIs
<1>4. DC \notin Sweep /\ DC \notin Plain
  BY KindsDiffer
<1>5. \A c : c # DC => Holders(c) = NamedBy(c)
  BY <1>3 DEF Holders, NamedBy
<1>6. HasDC => Holders(DC) = Hosts \union NamedBy(DC)
  BY <1>3 DEF Holders, NamedBy, Hosts, NeedsDC
<1>7. \A c \in Present(file) : c # DC => (c \in Range(actions) <=> NamedBy(c) = {})
  BY DEF TreeOK
<1>8. HasDC => (DC \in Range(actions) <=> NamedBy(DC) = {} /\ Hosts = {})
  <2> SUFFICES ASSUME HasDC PROVE DC \in Range(actions) <=> NamedBy(DC) = {} /\ Hosts = {}
    OBVIOUS
  <2>1. ASSUME NEW s \in Hosts PROVE applied
    <3>1. s \in Sweep \intersect Present(file) /\ sim[s] \in Plain /\ sim[s] \in Present(file)
      BY <1>2 DEF Hosts
    <3>2. s \in NamedBy(sim[s])
      BY <3>1 DEF NamedBy
    <3>3. sim[s] \notin Range(actions)
      BY <1>4, <1>7, <3>1, <3>2
    <3> QED BY <3>1, <3>3 DEF TreeOK
  <2> QED BY <2>1 DEF TreeOK, HasDC
<1> DEFINE f == PointsOf(runs)
<1>9. \A a \in Sweep : f[a] \in Int
  BY PointsPositive DEF PointsOf, Inv, ResultsOK
<1>10. \A c \in Present(file) :
         Done(c) = Total(file, Holders(c), f) + (IF c \in Range(actions) THEN 1 ELSE 0)
  BY DoneIs
<1> HIDE DEF f
<1>11. Total(file, {}, f) = 0
  BY <1>1, TotalAtLeast
<1>12. \A S \in SUBSET Sweep : Total(file, S, f) \in Int
  <2> SUFFICES ASSUME NEW S \in SUBSET Sweep PROVE Total(file, S, f) \in Int
    OBVIOUS
  <2> QED BY <1>1, <1>9, TotalSame
<1>13. ASSUME NEW c \in Present(file), c # DC \/ Hosts = {} PROVE Done(c) = Share(c, runs)
  <2>1. Holders(c) = NamedBy(c) /\ (c \in Range(actions) <=> NamedBy(c) = {})
    BY <1>5, <1>6, <1>7, <1>8, <1>13 DEF HasDC
  <2>2. NamedBy(c) \in SUBSET Sweep
    BY DEF NamedBy
  <2> QED BY <1>10, <1>11, <1>12, <2>1, <2>2 DEF Share, f
<1>14. ASSUME HasDC, Hosts # {} PROVE Done(DC) = Total(file, Hosts \union NamedBy(DC), f)
  <2>1. Hosts \union NamedBy(DC) \in SUBSET Sweep
    BY DEF Hosts, NamedBy
  <2>2. Holders(DC) = Hosts \union NamedBy(DC) /\ DC \notin Range(actions) /\ DC \in Present(file)
    BY <1>6, <1>8, <1>14 DEF HasDC
  <2>3. Done(DC) = Total(file, Hosts \union NamedBy(DC), f) + 0
    BY <1>10, <2>2
  <2>4. Total(file, Hosts \union NamedBy(DC), f) \in Int
    BY <1>12, <2>1
  <2> QED BY <2>3, <2>4
<1> QED
  BY <1>13, <1>14 DEF f

\* What the rounds of Asked make of it.
Passes(A) ==
  /\ A \in [0..Len(file) -> [Analysis -> Int]]
  /\ \A i \in 1..Len(file) : A[i] = [a \in Analysis |-> Share(a, A[i - 1])]

LEMMA ShareType ==
  ASSUME FileOK, NEW times, \A s \in Sweep : times[s] \in Int
  PROVE  \A a : Share(a, times) \in Int
<1> SUFFICES ASSUME NEW a PROVE Share(a, times) \in Int
  OBVIOUS
<1>1. file \in Seq(Analysis)
  BY DEF FileOK
<1>2. \A s \in Sweep : PointsOf(times)[s] \in Int
  BY PointsPositive DEF PointsOf
<1>3. NamedBy(a) \subseteq Sweep
  BY DEF NamedBy
<1>4. Total(file, NamedBy(a), PointsOf(times)) \in Int
  BY <1>1, <1>2, <1>3, TotalSame
<1> QED
  BY <1>4 DEF Share

LEMMA AskedRuns ==
  ASSUME FileOK
  PROVE  \E A : Passes(A) /\ Asked = A[Len(file)]
<1> DEFINE n == Len(file)
           V == [Analysis -> Int]
           first == [a \in Analysis |-> 1]
           Pass(times, i) ==
             [a \in Analysis |-> IF NamedBy(a) = {} THEN 1
                                 ELSE Total(file, NamedBy(a), PointsOf(times))]
           step == [p \in (1..n) \X V |-> Pass(p[2], p[1])]
           Body(g) == [i \in 0..n |-> IF i = 0 THEN first ELSE Pass(g[i - 1], i)]
           h == CHOOSE g : g = Body(g)
<1>1. n \in Nat /\ first \in V
  BY DEF FileOK
<1>2. \A times, i : Pass(times, i) = [a \in Analysis |-> Share(a, times)]
  BY DEF Share
<1>3. Asked = h[n]
  BY DEF Asked, Rounds
<1> HIDE DEF Pass, first, n
<1>4. \A i \in 1..n, times \in V : Pass(times, i) \in V
  <2> SUFFICES ASSUME NEW times \in V PROVE [a \in Analysis |-> Share(a, times)] \in V
    BY <1>2
  <2>1. \A s \in Sweep : times[s] \in Int
    BY DEF Analysis
  <2> QED BY <2>1, ShareType
<1> HIDE DEF V
<1>5. step \in Steps(n, V)
  BY <1>4 DEF Steps
<1>6. PICK g : Run(g, n, V, first, step)
  <2> HIDE DEF step
  <2> QED BY <1>1, <1>5, RunOfRounds
<1>7. \A i \in 1..n : g[i] = Pass(g[i - 1], i)
  BY <1>6 DEF Run
<1>8. g = Body(g)
  <2>1. \A i \in 0..n : i = 0 \/ i \in 1..n
    BY <1>1
  <2>2. \A i \in 0..n : g[i] = Body(g)[i]
    BY <1>6, <1>7, <2>1 DEF Run
  <2> QED BY <1>6, <2>2 DEF Run
<1>9. h = Body(h)
  <2> HIDE DEF Body
  <2> QED BY <1>8
<1>10. h[0] = first /\ \A i \in 1..n : h[i - 1] \in V => h[i] = step[<<i, h[i - 1]>>]
  <2> HIDE DEF h
  <2>1. 0 \in 0..n /\ \A i \in 1..n : i \in 0..n /\ i # 0
    BY <1>1
  <2> QED BY <1>9, <2>1
<1> HIDE DEF h, step
<1>11. h[n] = g[n]
  BY <1>1, <1>6, <1>10 DEF Run
<1>12. g \in [0..n -> V] /\ \A i \in 1..n : g[i] = [a \in Analysis |-> Share(a, g[i - 1])]
  BY <1>2, <1>6, <1>7 DEF Run
<1>13. Passes(g)
  BY <1>12 DEF Passes, n, V
<1> QED
  BY <1>3, <1>11, <1>13 DEF n

\* Shares depend on nothing but the numbers of the sweeps that name the analysis.
LEMMA ShareSame ==
  ASSUME FileOK, NEW a, NEW times, NEW others,
         \A s \in NamedBy(a) : times[s] \in Int /\ others[s] = times[s]
  PROVE  Share(a, others) = Share(a, times)
<1> DEFINE f == PointsOf(times)
           e == PointsOf(others)
<1>1. file \in Seq(Analysis) /\ NamedBy(a) \subseteq Sweep
  BY DEF FileOK, NamedBy
<1>2. \A s \in NamedBy(a) : f[s] \in Int /\ e[s] = f[s]
  BY <1>1, PointsPositive DEF PointsOf
<1> HIDE DEF f, e
<1>3. Total(file, NamedBy(a), e) = Total(file, NamedBy(a), f)
  BY <1>1, <1>2, TotalSame
<1> QED
  BY <1>3 DEF Share, f, e

\* Numbers that are the shares of each other are those asked for: with each round they
\* are right for one analysis more, as there is always one that is named by none of
\* those for which they are not right yet.
LEMMA SharesAreAsked ==
  ASSUME FileOK, NEW number, NEW G \in SUBSET Present(file), Sweep \intersect Present(file) \subseteq G,
         \A c \in G : number[c] \in Int /\ number[c] = Share(c, number)
  PROVE  /\ \A c \in G : Asked[c] = number[c]
         /\ \A s \in Sweep \intersect Present(file) : Asked[s] = number[s]
<1> DEFINE n == Len(file)
<1>1. PICK A : Passes(A) /\ Asked = A[n]
  BY AskedRuns
<1>2. n \in Nat /\ IsFiniteSet(G) /\ Cardinality(G) \in Nat /\ Cardinality(G) <= n /\ G \subseteq Analysis
  <2>1. IsFiniteSet(G) /\ Cardinality(G) <= Cardinality(Present(file))
    BY FileFinite, FS_Subset
  <2>2. Cardinality(G) \in Nat /\ Cardinality(Present(file)) \in Nat
    BY <2>1, FileFinite, FS_CardinalityType
  <2> QED BY <2>1, <2>2, FileFinite
<1> HIDE DEF n
<1>3. /\ \A i \in 0..n : A[i] \in [Analysis -> Int]
      /\ \A i \in 1..n : \A a \in Analysis : A[i][a] = Share(a, A[i - 1])
  <2>1. \A i \in 1..n : \A a \in Analysis : [x \in Analysis |-> Share(x, A[i - 1])][a] = Share(a, A[i - 1])
    OBVIOUS
  <2> QED BY <1>1, <2>1 DEF Passes, n
<1> DEFINE Wrong(i) == {c \in G : \E j \in i..n : A[j][c] # number[c]}
           E == {i \in 0..n : Cardinality(Wrong(i)) <= n - i}
<1>4. \A i : Wrong(i) \subseteq G /\ IsFiniteSet(Wrong(i)) /\ Cardinality(Wrong(i)) \in Nat
  <2> SUFFICES ASSUME NEW i
               PROVE  Wrong(i) \subseteq G /\ IsFiniteSet(Wrong(i)) /\ Cardinality(Wrong(i)) \in Nat
    OBVIOUS
  <2>1. Wrong(i) \subseteq G
    OBVIOUS
  <2> HIDE DEF Wrong
  <2>2. IsFiniteSet(Wrong(i))
    BY <1>2, <2>1, FS_Subset
  <2> QED BY <2>1, <2>2, FS_CardinalityType
<1>5. 0 \in E
  <2>1. Cardinality(Wrong(0)) <= Cardinality(G)
    <3> HIDE DEF Wrong
    <3> QED BY <1>2, <1>4, FS_Subset
  <2> HIDE DEF Wrong
  <2> QED BY <1>2, <1>4, <2>1
<1>6. ASSUME NEW i \in 0..(n - 1), i \in E PROVE i + 1 \in E
  <2>1. i + 1 \in 0..n /\ i \in Int /\ i + 1 \in 1..n
    BY <1>2
  <2>2. Wrong(i + 1) \subseteq Wrong(i)
    <3>1. \A j \in (i + 1)..n : j \in i..n
      BY <1>2
    <3> QED BY <3>1
  <2>3. CASE Wrong(i) = {}
    <3>1. Wrong(i + 1) = {}
      BY <2>2, <2>3
    <3> HIDE DEF Wrong
    <3>2. Cardinality(Wrong(i + 1)) = 0
      BY <3>1, FS_EmptySet
    <3> QED BY <1>2, <2>1, <3>2
  <2>4. CASE Wrong(i) # {}
    <3>1. PICK t \in Wrong(i) : NamedBy(t) \intersect Wrong(i) = {}
      <4>1. Wrong(i) \subseteq Present(file)
        BY <1>4
      <4> HIDE DEF Wrong
      <4> QED BY <2>4, <4>1, FirstOfAny
    <3>2. t \in G /\ NamedBy(t) \subseteq G /\ NamedBy(t) \subseteq Analysis
      BY <1>2, <1>4, <3>1 DEF NamedBy
    <3>3. ASSUME NEW j \in (i + 1)..n PROVE A[j][t] = number[t]
      <4>1. j \in 1..n /\ j - 1 \in i..n /\ j - 1 \in 0..n
        BY <1>2, <2>1
      <4>2. \A s \in NamedBy(t) : A[j - 1][s] = number[s]
        BY <3>1, <3>2, <4>1
      <4>3. Share(t, A[j - 1]) = Share(t, number)
        BY <3>2, <4>2, ShareSame
      <4>4. t \in Analysis
        BY <1>2, <3>2
      <4> QED BY <1>3, <3>2, <4>1, <4>3, <4>4
    <3>4. Wrong(i + 1) \subseteq Wrong(i) \ {t}
      BY <2>2, <3>3
    <3> HIDE DEF Wrong
    <3>5. IsFiniteSet(Wrong(i) \ {t}) /\ Cardinality(Wrong(i) \ {t}) = Cardinality(Wrong(i)) - 1
      BY <1>4, <3>1, FS_RemoveElement
    <3>6. Cardinality(Wrong(i + 1)) <= Cardinality(Wrong(i) \ {t})
      BY <3>4, <3>5, FS_Subset
    <3> QED BY <1>2, <1>4, <1>6, <2>1, <3>5, <3>6
  <2> QED BY <2>3, <2>4
<1>7. n \in E
  <2> HIDE DEF E
  <2>1. 0..n \subseteq E
    BY <1>2, <1>5, <1>6, InductionUpTo
  <2> QED BY <1>2, <2>1
<1>8. Wrong(n) = {}
  <2> HIDE DEF Wrong
  <2>1. Cardinality(Wrong(n)) = 0
    BY <1>2, <1>4, <1>7
  <2> QED BY <1>4, <2>1, FS_EmptySet
<1>9. n \in n..n
  BY <1>2
<1>10. \A c \in G : A[n][c] = number[c]
  BY <1>8, <1>9
<1> QED
  BY <1>1, <1>10

\* In a run that comes to its end every analysis was solved at every point of the sweeps
\* that lead to it, neither less nor more often, and the DC analysis at each of those of
\* its hosts (orderAnalysis, net::runAnalysis, parasweep::solve).
THEOREM PointsAreSolved == Spec => []EveryPointIsSolved
<1>1. Inv /\ TreeOK /\ TallyOK => EveryPointIsSolved
  <2> SUFFICES ASSUME Inv, TreeOK, TallyOK, pc = "done"
               PROVE  /\ \A a \in Plain \intersect Present(file) : solved[a] = Asked[a]
                      /\ HasDC => solved[DC] = AskedOfDC
    BY DEF EveryPointIsSolved
  <2> DEFINE number == [a \in Analysis |-> Done(a)]
             G == {c \in Present(file) : c # DC \/ Hosts = {}}
  <2>1. FileOK /\ Present(file) \subseteq Analysis /\ DC \notin Sweep /\ DC \notin Plain
        /\ Plain \intersect Sweep = {}
    BY FileFinite, KindsDiffer DEF Inv
  <2>2. \A s \in Sweep : number[s] = runs[s] /\ runs[s] \in Int
    <3>1. Len(calls) = 1
      BY DEF TallyOK
    <3>2. 1 \in 1..Len(calls)
      BY <3>1
    <3>3. calls[1].parent = Net
      BY <3>2 DEF Inv, CallsOK
    <3>4. \A s \in Sweep : ~Open(calls, s)
      BY <3>1, <3>3, KindsDiffer DEF Open, Analysis
    <3> QED BY <3>4 DEF Done, Analysis, Inv, ResultsOK
  <2>3. \A a \in Analysis : number[a] \in Int
    BY DoneType
  <2>4. \A a : a \notin Sweep /\ a \in Analysis => number[a] = solved[a]
    BY DEF Done
  <2>5. G \in SUBSET Present(file) /\ Sweep \intersect Present(file) \subseteq G
    BY <2>1
  <2>6. \A c \in Present(file) : number[c] = Done(c)
    BY <2>1
  <2> HIDE DEF number
  <2>7. \A a : Share(a, number) = Share(a, runs)
    <3> SUFFICES ASSUME NEW a PROVE Share(a, number) = Share(a, runs)
      OBVIOUS
    <3>1. NamedBy(a) \subseteq Sweep
      BY DEF NamedBy
    <3>2. \A s \in NamedBy(a) : runs[s] \in Int /\ number[s] = runs[s]
      BY <2>2, <3>1
    <3> QED BY <2>1, <3>2, ShareSame
  <2>8. \A c \in G : number[c] \in Int /\ number[c] = Share(c, number)
    BY <2>1, <2>3, <2>6, <2>7, SharesAreTaken
  <2> HIDE DEF G
  <2>9. /\ \A c \in G : Asked[c] = number[c]
        /\ \A s \in Sweep \intersect Present(file) : Asked[s] = number[s]
    BY <2>1, <2>5, <2>8, SharesAreAsked
  <2>10. \A a \in Plain \intersect Present(file) : solved[a] = Asked[a]
    BY <2>1, <2>4, <2>9 DEF G
  <2>11. ASSUME HasDC PROVE solved[DC] = AskedOfDC
    <3>1. DC \in Present(file) /\ DC \in Analysis /\ number[DC] = solved[DC] /\ number[DC] = Done(DC)
      BY <2>1, <2>4, <2>6, <2>11 DEF HasDC
    <3>2. CASE Hosts = {}
      BY <2>9, <3>1, <3>2 DEF G, AskedOfDC
    <3>3. CASE Hosts # {}
      <4> DEFINE H == Hosts \union NamedBy(DC)
      <4>1. Done(DC) = Total(file, H, PointsOf(runs))
        BY <2>11, <3>3, SharesAreTaken
      <4>2. H \subseteq Sweep \intersect Present(file)
        BY DEF Hosts, NamedBy
      <4>3. \A s \in H : PointsOf(runs)[s] \in Int /\ PointsOf(Asked)[s] = PointsOf(runs)[s]
        BY <2>2, <2>9, <4>2, PointsPositive DEF PointsOf
      <4>4. Total(file, H, PointsOf(Asked)) = Total(file, H, PointsOf(runs))
        <5> DEFINE f == PointsOf(runs)
                   e == PointsOf(Asked)
        <5>1. file \in Seq(Analysis)
          BY <2>1 DEF FileOK
        <5> HIDE DEF f, e, H
        <5> QED BY <4>3, <5>1, TotalSame DEF f, e
      <4> QED BY <3>1, <3>3, <4>1, <4>4 DEF AskedOfDC
    <3> QED BY <3>2, <3>3
  <2> QED BY <2>10, <2>11
<1> QED
  BY <1>1, Invariant, TreeGrows, TalliesAdd, PTL

-----------------------------------------------------------------------------
\* What leads to an analysis.

\* The first child of a sweep leads on, or the analysis is among the children.
LeadsOn(s, a, S) ==
  /\ children[s] # <<>>
  /\ \/ children[s][1] \in S
     \/ children[s][1] \notin Sweep /\ a \in Range(children[s])

\* The last analyses of a sweep are those of its first child if this is a sweep, and its
\* children otherwise.
LEMMA LastOrderIs ==
  ASSUME NEW s \in Sweep, NEW a \in Analysis
  PROVE  a \in LastOrder(s) <=> LeadsOn(s, a, {t \in Sweep : a \in LastOrder(t)})
<1> DEFINE L == {t \in Sweep : a \in LastOrder(t)}
           S == {t \in Sweep : LeadsOn(t, a, L)}
<1>1. ASSUME NEW T \in SUBSET Sweep, \A t \in Sweep : LeadsOn(t, a, T) => t \in T PROVE L \subseteq T
  <2> SUFFICES ASSUME NEW t \in L PROVE t \in T
    OBVIOUS
  <2>1. \A S1 \in SUBSET Sweep :
          (\A u \in Sweep : LeadsOn(u, a, S1) => u \in S1) => t \in S1
    BY DEF LastOrder, LeadsOn
  <2> QED BY <1>1, <2>1
<1>2. ASSUME NEW t \in Sweep, LeadsOn(t, a, L) PROVE t \in L
  <2> SUFFICES ASSUME NEW T \in SUBSET Sweep, \A u \in Sweep : LeadsOn(u, a, T) => u \in T
               PROVE  t \in T
    BY DEF LastOrder, LeadsOn
  <2>1. L \subseteq T
    BY <1>1
  <2>2. LeadsOn(t, a, T)
    <3> HIDE DEF L
    <3> QED BY <1>2, <2>1 DEF LeadsOn
  <2> QED BY <2>2
<1>3. S \subseteq L
  BY <1>2
<1>4. \A t \in Sweep : LeadsOn(t, a, S) => t \in S
  <2> SUFFICES ASSUME NEW t \in Sweep, LeadsOn(t, a, S) PROVE LeadsOn(t, a, L)
    OBVIOUS
  <2> HIDE DEF S, L
  <2> QED BY <1>3 DEF LeadsOn
<1>5. L \subseteq S
  <2>1. S \in SUBSET Sweep
    OBVIOUS
  <2> HIDE DEF S, L
  <2> QED BY <1>1, <1>4, <2>1
<1> QED
  BY <1>3, <1>5

\* An analysis is the child of a sweep, or one of the last analyses of that child.
Leads(c, a) == IF c \in Sweep THEN a \in LastOrder(c) ELSE a = c

\* The last analyses of a sweep are those to which its children lead.
LEMMA LedIs ==
  ASSUME TreeOK, FileOK, NEW s \in Sweep, children[s] # <<>>, NEW a \in Single
  PROVE  a \in LastOrder(s) <=> \E c \in Range(children[s]) : Leads(c, a)
<1>1. a \in Analysis /\ a \notin Sweep /\ DC \notin Sweep
  BY KindsDiffer DEF Analysis, Single
<1>2. children[s] = Group(sim[s]) /\ sim[s] \in Analysis
  BY DEF TreeOK, FileOK
<1>3. /\ children[s][1] = IF NeedsDC(sim[s]) THEN DC ELSE sim[s]
      /\ Range(children[s]) = IF NeedsDC(sim[s]) THEN {DC, sim[s]} ELSE {sim[s]}
  BY <1>2, GroupIs
<1>4. NeedsDC(sim[s]) => sim[s] \notin Sweep
  BY KindsDiffer DEF NeedsDC
<1>5. a \in LastOrder(s) <=> LeadsOn(s, a, {t \in Sweep : a \in LastOrder(t)})
  BY <1>1, LastOrderIs
<1>6. CASE sim[s] \in Sweep
  <2>1. children[s][1] = sim[s] /\ Range(children[s]) = {sim[s]}
    BY <1>3, <1>4, <1>6
  <2> QED BY <1>5, <1>6, <2>1 DEF LeadsOn, Leads
<1>7. CASE sim[s] \notin Sweep
  <2>1. children[s][1] \notin Sweep /\ \A c \in Range(children[s]) : c \notin Sweep
    BY <1>1, <1>3, <1>7
  <2>2. a \in LastOrder(s) <=> a \in Range(children[s])
    BY <1>5, <2>1 DEF LeadsOn
  <2> QED BY <2>1, <2>2 DEF Leads
<1> QED
  BY <1>6, <1>7

\* The analysis whose grid another one shares: the DC analysis goes with the one that its
\* hosts name, if that is one.
Shared(a) == a = DC => HasDC /\ GoesWithOne
Target(a) == IF a = DC /\ Hosts # {} THEN CHOOSE c \in Plain : \E s \in Hosts : sim[s] = c ELSE a

LEMMA TargetIs ==
  ASSUME FileOK, NEW a \in Single, Shared(a)
  PROVE  /\ Target(a) \in Single
         /\ a \in Present(file) => Target(a) \in Present(file)
         /\ a = DC /\ Hosts # {} => Target(a) \in Plain /\ NamedBy(Target(a)) = Hosts \union NamedBy(DC)
         /\ \A s \in Sweep \intersect Present(file) :
              sim[s] = a \/ (a = DC /\ NeedsDC(sim[s])) <=> sim[s] = Target(a)
<1>1. DC \notin Plain /\ \A s \in Sweep \intersect Present(file) : sim[s] \in Present(file)
  BY KindsDiffer DEF FileOK, Accepted
<1>2. CASE a # DC
  BY <1>2 DEF Target
<1>3. CASE a = DC /\ Hosts = {}
  BY <1>1, <1>3 DEF Target, Hosts, NeedsDC
<1>4. CASE a = DC /\ Hosts # {}
  <2>1. PICK h \in Hosts : TRUE
    BY <1>4
  <2>2. h \in Sweep \intersect Present(file) /\ sim[h] \in Plain
    BY <2>1 DEF Hosts
  <2>3. Target(a) \in Plain /\ \E s \in Hosts : sim[s] = Target(a)
    BY <1>4, <2>1, <2>2 DEF Target
  <2>4. \A s \in Hosts \union NamedBy(DC) : sim[s] = Target(a)
    BY <1>4, <2>3 DEF Shared, GoesWithOne
  <2>5. HasDC
    BY <1>4 DEF Shared
  <2>6. Target(a) \in Single /\ Target(a) \in Present(file)
    BY <1>1, <2>1, <2>2, <2>3, <2>4 DEF Single
  <2>7. ASSUME NEW s \in Sweep \intersect Present(file)
        PROVE  /\ sim[s] = DC \/ NeedsDC(sim[s]) <=> sim[s] = Target(a)
               /\ s \in Hosts \union NamedBy(DC) <=> sim[s] = Target(a)
    <3>1. sim[s] = DC \/ NeedsDC(sim[s]) <=> s \in Hosts \union NamedBy(DC)
      BY <2>5 DEF NeedsDC, Hosts, NamedBy
    <3>2. s \in Hosts \union NamedBy(DC) <=> sim[s] = Target(a)
      BY <2>3, <2>4 DEF Hosts
    <3> QED BY <3>1, <3>2
  <2>8. NamedBy(Target(a)) = Hosts \union NamedBy(DC)
    BY <2>7 DEF NamedBy, Hosts
  <2> QED BY <1>4, <2>3, <2>6, <2>7, <2>8
<1> QED
  BY <1>2, <1>3, <1>4

\* What leads to an analysis: it, and the sweeps that name what does.
Leading(c) ==
  {b \in Analysis : \A S \in SUBSET Analysis :
     c \in S /\ (\A s \in Sweep \intersect Present(file) : sim[s] \in S => s \in S) => b \in S}

LEMMA LeadingIs ==
  ASSUME NEW c \in Analysis
  PROVE  /\ c \in Leading(c)
         /\ \A s \in Sweep \intersect Present(file) : sim[s] \in Leading(c) => s \in Leading(c)
         /\ \A b \in Leading(c) : b = c \/ (b \in Sweep \intersect Present(file) /\ sim[b] \in Leading(c))
<1>1. c \in Leading(c)
  BY DEF Leading
<1>2. ASSUME NEW s \in Sweep \intersect Present(file), sim[s] \in Leading(c) PROVE s \in Leading(c)
  <2>1. s \in Analysis
    BY DEF Analysis
  <2> QED BY <1>2, <2>1 DEF Leading
<1> DEFINE S == {b \in Leading(c) : b = c \/ (b \in Sweep \intersect Present(file) /\ sim[b] \in Leading(c))}
<1>3. S \in SUBSET Analysis
  BY DEF Leading
<1>4. c \in S
  BY <1>1
<1>5. \A s \in Sweep \intersect Present(file) : sim[s] \in S => s \in S
  BY <1>2
<1>6. Leading(c) \subseteq S
  <2> HIDE DEF S
  <2> QED BY <1>3, <1>4, <1>5 DEF Leading
<1> QED
  BY <1>1, <1>2, <1>6

\* A set that leads on holds whatever leads to one of its elements.
LEMMA LeadingWithin ==
  ASSUME NEW c, NEW S \in SUBSET Analysis, c \in S,
         \A s \in Sweep \intersect Present(file) : sim[s] \in S => s \in S
  PROVE  Leading(c) \subseteq S
BY DEF Leading

\* What leads to an analysis is it and whatever leads to a sweep that names it.
LEMMA LeadingSplits ==
  ASSUME FileOK, NEW c \in Present(file)
  PROVE  /\ \A s \in NamedBy(c) : Leading(s) \subseteq Leading(c) /\ c \notin Leading(s)
         /\ Leading(c) = {c} \union UNION {Leading(s) : s \in NamedBy(c)}
<1> DEFINE N == NamedBy(c)
           S == {c} \union UNION {Leading(s) : s \in N}
<1>1. c \in Analysis /\ Present(file) \subseteq Analysis
  BY FileFinite
<1>2. \A s \in N : s \in Sweep /\ s \in Present(file) /\ sim[s] = c /\ s \in Analysis
  BY <1>1 DEF NamedBy
<1>3. ASSUME NEW s \in N PROVE Leading(s) \subseteq Leading(c)
  <2>1. Leading(c) \in SUBSET Analysis
    BY DEF Leading
  <2>2. s \in Leading(c)
    BY <1>1, <1>2, LeadingIs
  <2> QED BY <1>1, <2>1, <2>2, LeadingIs, LeadingWithin
<1>4. ASSUME NEW s \in N, c \in Leading(s) PROVE FALSE
  <2> DEFINE T == Leading(s)
  <2>1. /\ s \in T /\ s \in Analysis /\ s \in Sweep \intersect Present(file) /\ sim[s] = c
        /\ \A b \in T : b = s \/ (b \in Sweep \intersect Present(file) /\ sim[b] \in T)
    BY <1>2, LeadingIs
  <2>2. T \in SUBSET (Sweep \intersect Present(file)) /\ T # {}
    BY <2>1
  <2>3. \A b \in T : sim[b] \in T
    BY <1>4, <2>1
  <2> HIDE DEF T
  <2> QED BY <2>2, <2>3 DEF FileOK, Accepted
<1>5. Leading(c) \subseteq S
  <2>1. S \in SUBSET Analysis
    BY <1>1 DEF Leading
  <2>2. ASSUME NEW t \in Sweep \intersect Present(file), sim[t] \in S PROVE t \in S
    <3>1. CASE sim[t] = c
      <4>1. t \in N /\ t \in Analysis
        BY <1>1, <3>1 DEF NamedBy
      <4>2. t \in Leading(t)
        BY <4>1, LeadingIs
      <4> QED BY <4>1, <4>2
    <3>2. CASE sim[t] # c
      <4>1. PICK s \in N : sim[t] \in Leading(s)
        BY <2>2, <3>2
      <4>2. t \in Leading(s)
        BY <1>2, <4>1, LeadingIs
      <4> QED BY <4>1, <4>2
    <3> QED BY <3>1, <3>2
  <2>3. c \in S
    OBVIOUS
  <2> HIDE DEF S
  <2> QED BY <2>1, <2>2, <2>3, LeadingWithin
<1>6. S \subseteq Leading(c)
  BY <1>1, <1>3, LeadingIs
<1> QED
  BY <1>3, <1>4, <1>5, <1>6

\* Where every sweep has its children, the last analyses of a sweep are those to which
\* it leads, by themselves or by the one they go with.
LEMMA LastOrderLeads ==
  ASSUME FileOK, TreeOK, NEW a \in Single, Shared(a),
         \A s \in Sweep \intersect Present(file) : children[s] # <<>>
  PROVE  \A s \in Sweep \intersect Present(file) : a \in LastOrder(s) <=> s \in Leading(Target(a))
<1> DEFINE P == Sweep \intersect Present(file)
           g == Target(a)
           S == {g} \union {b \in P : a \in LastOrder(b)}
           T == {t \in Sweep : t \in P => t \in Leading(g)}
<1>1. a \in Analysis /\ a \notin Sweep /\ g \in Analysis /\ g \notin Sweep /\ DC \notin Sweep
  <2>1. \A c \in Single : c \in Analysis /\ c \notin Sweep
    BY KindsDiffer DEF Analysis, Single
  <2> QED BY <2>1, TargetIs, KindsDiffer
<1>2. \A s \in P : sim[s] \in Analysis /\ sim[s] \in Present(file)
  BY DEF FileOK, Accepted
<1>3. ASSUME NEW t \in P
      PROVE  /\ children[t][1] = IF NeedsDC(sim[t]) THEN DC ELSE sim[t]
             /\ a \in Range(children[t]) <=> sim[t] = g
             /\ sim[t] \in Range(children[t])
  <2>1. children[t] = Group(sim[t]) /\ sim[t] \in Analysis
    BY <1>2 DEF TreeOK
  <2>2. /\ children[t][1] = IF NeedsDC(sim[t]) THEN DC ELSE sim[t]
        /\ Range(children[t]) = IF NeedsDC(sim[t]) THEN {DC, sim[t]} ELSE {sim[t]}
    BY <2>1, GroupIs
  <2>3. a \in Range(children[t]) <=> sim[t] = a \/ (a = DC /\ NeedsDC(sim[t]))
    BY <2>2
  <2>4. sim[t] = a \/ (a = DC /\ NeedsDC(sim[t])) <=> sim[t] = g
    BY TargetIs
  <2> QED BY <2>2, <2>3, <2>4
<1> HIDE DEF g
<1>4. Leading(g) \subseteq S
  <2>1. S \in SUBSET Analysis
    BY <1>1 DEF Analysis
  <2>2. ASSUME NEW t \in P, sim[t] \in S PROVE t \in S
    <3>1. \E c \in Range(children[t]) : Leads(c, a)
      BY <1>1, <1>3, <2>2 DEF Leads
    <3> QED BY <3>1, LedIs
  <2>3. g \in S
    OBVIOUS
  <2> HIDE DEF S
  <2> QED BY <2>1, <2>2, <2>3, LeadingWithin
<1>5. ASSUME NEW t \in Sweep, LeadsOn(t, a, T) PROVE t \in T
  <2> SUFFICES ASSUME t \in P PROVE t \in Leading(g)
    OBVIOUS
  <2>1. sim[t] \in Leading(g)
    <3>1. CASE children[t][1] \in T
      <4>1. children[t][1] = sim[t] /\ sim[t] \in Sweep
        BY <1>1, <1>3, <3>1
      <4> QED BY <1>2, <3>1, <4>1
    <3>2. CASE a \in Range(children[t])
      <4>1. sim[t] = g
        BY <1>3, <3>2
      <4> QED BY <1>1, <4>1, LeadingIs
    <3> QED BY <1>5, <3>1, <3>2 DEF LeadsOn
  <2> QED BY <1>1, <2>1, LeadingIs
<1> SUFFICES ASSUME NEW s \in P PROVE a \in LastOrder(s) <=> s \in Leading(g)
  BY DEF g
<1>6. ASSUME s \in Leading(g) PROVE a \in LastOrder(s)
  BY <1>1, <1>4, <1>6
<1>7. ASSUME a \in LastOrder(s) PROVE s \in Leading(g)
  <2>1. \A S1 \in SUBSET Sweep : (\A u \in Sweep : LeadsOn(u, a, S1) => u \in S1) => s \in S1
    BY <1>7 DEF LastOrder, LeadsOn
  <2>2. T \in SUBSET Sweep
    OBVIOUS
  <2>3. s \in T
    <3> HIDE DEF T
    <3> QED BY <1>5, <2>1, <2>2
  <2> QED BY <2>3
<1> QED
  BY <1>6, <1>7

-----------------------------------------------------------------------------
\* Products.

\* The products that Product runs through.
Products(g, list, S, f) ==
  /\ g \in [0..Len(list) -> Int] /\ g[0] = 1
  /\ \A i \in 1..Len(list) : g[i] = IF list[i] \in S THEN g[i - 1] * f[list[i]] ELSE g[i - 1]

LEMMA ProductRuns ==
  ASSUME NEW list \in Seq(Analysis), NEW S, NEW f, \A a \in S \intersect Range(list) : f[a] \in Int
  PROVE  \E g : Products(g, list, S, f) /\ Product(list, S, f) = g[Len(list)]
<1> DEFINE n == Len(list)
           V == Int
           first == 1
           Times(r, i) == IF list[i] \in S THEN r * f[list[i]] ELSE r
           step == [p \in (1..n) \X V |-> Times(p[2], p[1])]
           Body(g) == [i \in 0..n |-> IF i = 0 THEN first ELSE Times(g[i - 1], i)]
           h == CHOOSE g : g = Body(g)
<1>1. n \in Nat /\ first \in V
  OBVIOUS
<1>2. \A i \in 1..n, r \in V : Times(r, i) \in V
  <2> SUFFICES ASSUME NEW i \in 1..n, NEW r \in Int, list[i] \in S PROVE r * f[list[i]] \in Int
    OBVIOUS
  <2>1. f[list[i]] \in Int
    <3>1. list[i] \in Range(list)
      BY DEF Range
    <3> QED BY <3>1
  <2>2. \A x, y \in Int : x * y \in Int
    OBVIOUS
  <2> QED BY <2>1, <2>2
<1>3. Product(list, S, f) = h[n]
  BY DEF Product, Rounds
<1> HIDE DEF n, V, first, Times
<1>4. step \in Steps(n, V)
  BY <1>2 DEF Steps
<1>5. PICK g : Run(g, n, V, first, step)
  <2> HIDE DEF step
  <2> QED BY <1>1, <1>4, RunOfRounds
<1>6. \A i \in 1..n : g[i] = Times(g[i - 1], i)
  BY <1>5 DEF Run
<1>7. g = Body(g)
  <2>1. \A i \in 0..n : i = 0 \/ i \in 1..n
    BY <1>1
  <2>2. \A i \in 0..n : g[i] = Body(g)[i]
    BY <1>5, <1>6, <2>1 DEF Run
  <2> QED BY <1>5, <2>2 DEF Run
<1>8. h = Body(h)
  <2> HIDE DEF Body
  <2> QED BY <1>7
<1>9. h[0] = first /\ \A i \in 1..n : h[i - 1] \in V => h[i] = step[<<i, h[i - 1]>>]
  <2> HIDE DEF h
  <2>1. 0 \in 0..n /\ \A i \in 1..n : i \in 0..n /\ i # 0
    BY <1>1
  <2> QED BY <1>8, <2>1
<1> HIDE DEF h, step
<1>10. h[n] = g[n]
  BY <1>1, <1>5, <1>9 DEF Run
<1> QED
  BY <1>3, <1>5, <1>6, <1>10 DEF Run, Products, n, V, first, Times

\* The product of nothing is 1.
LEMMA ProductOfNone ==
  ASSUME NEW list \in Seq(Analysis), NEW f
  PROVE  Product(list, {}, f) = 1
<1> DEFINE n == Len(list)
<1>1. n \in Nat
  OBVIOUS
<1>2. PICK g : Products(g, list, {}, f) /\ Product(list, {}, f) = g[n]
  BY ProductRuns
<1> DEFINE E == {i \in 0..n : g[i] = 1}
<1>3. 0 \in E
  BY <1>1, <1>2 DEF Products
<1>4. ASSUME NEW m \in 0..(n - 1), m \in E PROVE m + 1 \in E
  <2>1. m + 1 \in 1..n /\ (m + 1) - 1 = m /\ m + 1 \in 0..n
    BY <1>1
  <2> QED BY <1>2, <1>4, <2>1 DEF Products
<1>5. 0..n \subseteq E
  <2> HIDE DEF E
  <2> QED BY <1>1, <1>3, <1>4, InductionUpTo
<1> QED
  BY <1>1, <1>2, <1>5

\* A further factor.
LEMMA ProductMore ==
  ASSUME NEW list \in Seq(Analysis), IsInjective(list), NEW S, NEW f,
         NEW x \in Range(list), x \notin S, \A a \in Range(list) : f[a] \in Int
  PROVE  /\ Product(list, S, f) \in Int
         /\ Product(list, {x} \union S, f) = f[x] * Product(list, S, f)
<1> DEFINE n == Len(list)
           T == {x} \union S
<1>1. n \in Nat /\ DOMAIN list = 1..n /\ \A i \in 1..n : list[i] \in Range(list)
  BY DEF Range
<1>2. PICK p \in 1..n : list[p] = x
  BY <1>1 DEF Range
<1>3. \A i \in 1..n : list[i] = x <=> i = p
  BY <1>1, <1>2 DEF IsInjective
<1>4. PICK g : Products(g, list, S, f) /\ Product(list, S, f) = g[n]
  BY ProductRuns
<1>5. PICK h : Products(h, list, T, f) /\ Product(list, T, f) = h[n]
  BY ProductRuns
<1> DEFINE E == {i \in 0..n : h[i] = IF i >= p THEN f[x] * g[i] ELSE g[i]}
<1>6. 0 \in E
  BY <1>1, <1>2, <1>4, <1>5 DEF Products
<1>7. ASSUME NEW m \in 0..(n - 1), m \in E PROVE m + 1 \in E
  <2>1. m + 1 \in 1..n /\ (m + 1) - 1 = m /\ m + 1 \in 0..n /\ m \in 0..n /\ m \in Int
    BY <1>1
  <2>2. /\ g[m] \in Int /\ h[m] = (IF m >= p THEN f[x] * g[m] ELSE g[m])
        /\ g[m + 1] = IF list[m + 1] \in S THEN g[m] * f[list[m + 1]] ELSE g[m]
        /\ h[m + 1] = IF list[m + 1] \in T THEN h[m] * f[list[m + 1]] ELSE h[m]
    BY <1>4, <1>5, <1>7, <2>1 DEF Products
  <2>3. f[x] \in Int /\ f[list[m + 1]] \in Int
    BY <1>1, <2>1
  <2>4. \A a, b, c \in Int : (a * b) * c = a * (b * c) /\ a * b = b * a
    OBVIOUS
  <2>5. CASE m + 1 = p
    <3>1. list[m + 1] = x /\ list[m + 1] \in T /\ list[m + 1] \notin S
      BY <1>2, <2>5
    <3>2. ~(m >= p) /\ m + 1 >= p
      BY <2>1, <2>5
    <3>3. h[m + 1] = g[m] * f[x] /\ g[m + 1] = g[m]
      BY <2>2, <3>1, <3>2
    <3>4. h[m + 1] = f[x] * g[m + 1]
      BY <2>2, <2>3, <2>4, <3>3
    <3> QED BY <2>1, <3>2, <3>4
  <2>6. CASE m + 1 # p
    <3>1. list[m + 1] # x /\ (list[m + 1] \in T <=> list[m + 1] \in S)
      BY <1>3, <2>1, <2>6
    <3>2. m >= p <=> m + 1 >= p
      BY <2>1, <2>6
    <3>3. CASE list[m + 1] \notin S
      BY <2>1, <2>2, <3>1, <3>2, <3>3
    <3>4. CASE list[m + 1] \in S
      <4>1. h[m + 1] = h[m] * f[list[m + 1]] /\ g[m + 1] = g[m] * f[list[m + 1]]
        BY <2>2, <3>1, <3>4
      <4>2. (f[x] * g[m]) * f[list[m + 1]] = f[x] * (g[m] * f[list[m + 1]])
        BY <2>2, <2>3, <2>4
      <4>3. h[m + 1] = IF m + 1 >= p THEN f[x] * g[m + 1] ELSE g[m + 1]
        BY <2>2, <3>2, <4>1, <4>2
      <4> QED BY <2>1, <4>3
    <3> QED BY <3>3, <3>4
  <2> QED BY <2>5, <2>6
<1>8. 0..n \subseteq E
  <2> HIDE DEF E
  <2> QED BY <1>1, <1>6, <1>7, InductionUpTo
<1>9. n \in 0..n /\ n >= p /\ g[n] \in Int
  BY <1>1, <1>2, <1>4 DEF Products
<1>10. h[n] = f[x] * g[n]
  BY <1>8, <1>9
<1> QED
  BY <1>4, <1>5, <1>9, <1>10

\* What all summands of a total share can be taken out of it.
LEMMA TotalTimes ==
  ASSUME NEW list \in Seq(Analysis), NEW S, NEW f, NEW e, NEW r \in Int,
         \A a \in S \intersect Range(list) : e[a] \in Int /\ f[a] = e[a] * r
  PROVE  Total(list, S, f) = Total(list, S, e) * r
<1> DEFINE n == Len(list)
<1>1. n \in Nat /\ \A i \in 1..n : list[i] \in Range(list)
  BY DEF Range
<1>2. \A x, y, z \in Int : x * z \in Int /\ (x + y) * z = x * z + y * z
  OBVIOUS
<1>3. \A a \in S \intersect Range(list) : f[a] \in Int
  BY <1>2
<1>4. PICK g : Sums(g, list, S, e) /\ Total(list, S, e) = g[n]
  BY TotalRuns
<1>5. PICK h : Sums(h, list, S, f) /\ Total(list, S, f) = h[n]
  BY <1>3, TotalRuns
<1> DEFINE E == {i \in 0..n : h[i] = g[i] * r}
<1>6. 0 \in E
  BY <1>1, <1>4, <1>5 DEF Sums
<1>7. ASSUME NEW m \in 0..(n - 1), m \in E PROVE m + 1 \in E
  <2>1. m + 1 \in 1..n /\ (m + 1) - 1 = m /\ m + 1 \in 0..n /\ m \in 0..n
    BY <1>1
  <2>2. /\ g[m] \in Int /\ h[m] = g[m] * r
        /\ g[m + 1] = IF list[m + 1] \in S THEN g[m] + e[list[m + 1]] ELSE g[m]
        /\ h[m + 1] = IF list[m + 1] \in S THEN h[m] + f[list[m + 1]] ELSE h[m]
    BY <1>4, <1>5, <1>7, <2>1 DEF Sums
  <2>3. CASE list[m + 1] \notin S
    BY <2>1, <2>2, <2>3
  <2>4. CASE list[m + 1] \in S
    <3>1. e[list[m + 1]] \in Int /\ f[list[m + 1]] = e[list[m + 1]] * r
      BY <1>1, <2>1, <2>4
    <3>2. (g[m] + e[list[m + 1]]) * r = g[m] * r + e[list[m + 1]] * r
      BY <1>2, <2>2, <3>1
    <3>3. h[m + 1] = g[m + 1] * r
      BY <2>2, <2>4, <3>1, <3>2
    <3> QED BY <2>1, <3>3
  <2> QED BY <2>3, <2>4
<1>8. 0..n \subseteq E
  <2> HIDE DEF E
  <2> QED BY <1>1, <1>6, <1>7, InductionUpTo
<1> QED
  BY <1>1, <1>4, <1>5, <1>8

-----------------------------------------------------------------------------
\* The grid of the results.

\* The values saved of a parameter are those of the first runs of its sweeps.
AxisOK ==
  pc # "crashed" =>
    \A p \in Analysis : axis[p] = Total(file, NamedBy(p), [s \in Sweep |-> FirstRun(s)])

\* The results of an analysis depend on parameters of sweeps of which it is one of the last,
\* and on all of those that have solved a child that leads to it.
DepsOK ==
  /\ pc \in {"order", "initialize"} =>
       (\A p \in Analysis : axis[p] = 0) /\ (\A a \in Single : deps[a] = {})
  /\ \A s \in Sweep : Open(calls, s) => runs[s] > 0
  /\ \A a \in Single : \A p \in deps[a] : \E s \in NamedBy(p) : a \in LastOrder(s)
  /\ pc \in {"solve", "done"} =>
       \A s \in Sweep : children[s] # <<>> =>
         \A c \in Range(children[s]) : Part(s, c) > 0 =>
           \A a \in Single : Leads(c, a) => solved[a] > 0 /\ sim[s] \in deps[a]

\* The parameters on which the results of an analysis should depend.
Params(c) == {p \in Leading(c) : NamedBy(p) # {}}

\* At the end nothing is being solved.
LEMMA AllClosed ==
  ASSUME Inv, TallyOK, pc = "done"
  PROVE  /\ \A s \in Sweep : ~Open(calls, s) /\ Done(s) = runs[s]
         /\ \A s \in Sweep : \A place : Progress(calls, s, place) = 0
<1>1. Len(calls) = 1
  BY DEF TallyOK
<1>2. 1 \in 1..Len(calls)
  BY <1>1
<1>3. calls[1].parent = Net
  BY <1>2 DEF Inv, CallsOK
<1>4. Net \notin Sweep
  BY KindsDiffer DEF Analysis
<1>5. \A s \in Sweep : ~Open(calls, s)
  BY <1>1, <1>3, <1>4 DEF Open
<1>6. \A s \in Sweep : runs[s] \in Int
  BY DEF Inv, ResultsOK
<1>7. \A s \in Sweep : Done(s) = runs[s] - 0
  BY <1>5 DEF Done
<1> QED
  BY <1>5, <1>6, <1>7 DEF Progress

\* At the end all points of the sweeps of a parameter are saved.
LEMMA AxisIs ==
  ASSUME Inv, TreeOK, TallyOK, AxisOK, pc = "done"
  PROVE  \A p \in Analysis : axis[p] = Total(file, NamedBy(p), Points) /\ axis[p] \in Int
<1> SUFFICES ASSUME NEW p \in Analysis
             PROVE  axis[p] = Total(file, NamedBy(p), Points) /\ axis[p] \in Int
  OBVIOUS
<1> DEFINE N == NamedBy(p)
           f == [s \in Sweep |-> FirstRun(s)]
<1>1. file \in Seq(Analysis) /\ N \subseteq Sweep \intersect Present(file)
  BY DEF Inv, FileOK, NamedBy
<1>2. \A s \in N : Points[s] \in Int /\ FirstRun(s) = Points[s]
  <2> SUFFICES ASSUME NEW s \in N PROVE Points[s] \in Int /\ FirstRun(s) = Points[s]
    OBVIOUS
  <2>1. s \in Sweep /\ s \in Present(file)
    BY <1>1
  <2>2. runs[s] \in Nat \ {0} /\ ~Open(calls, s)
    BY <2>1, AllClosed, SweepsRun
  <2> QED BY <2>1, <2>2, PointsPositive DEF FirstRun
<1>3. \A s \in N : Points[s] \in Int /\ f[s] = Points[s]
  BY <1>1, <1>2
<1>4. axis[p] = Total(file, N, f)
  BY DEF AxisOK
<1> HIDE DEF N, f
<1>5. Total(file, N, Points) \in Int /\ Total(file, N, f) = Total(file, N, Points)
  BY <1>1, <1>3, TotalSame
<1> QED
  BY <1>4, <1>5 DEF N

\* The parameters of an analysis are its own and those of one, thus of each, of the sweeps
\* that name it: where there are several, none of these is named.
LEMMA ParamsAre ==
  ASSUME FileOK, SameOrder, NEW c \in Present(file), NEW s \in NamedBy(c)
  PROVE  /\ Params(c) = {c} \union Params(s) /\ c \notin Params(s)
         /\ \A t \in NamedBy(c) : t # s => NamedBy(s) = {} /\ NamedBy(t) = {}
<1>1. Present(file) \subseteq Analysis
  BY FileFinite
<1>2. \A t \in NamedBy(c) : t \in Sweep \intersect Present(file) /\ sim[t] = c /\ t \in Analysis
  BY <1>1 DEF NamedBy
<1>3. ASSUME NEW t \in NamedBy(c), t # s PROVE NamedBy(s) = {} /\ NamedBy(t) = {}
  <2>1. NamedBy(s) = NamedBy(t)
    BY <1>2 DEF SameOrder
  <2> QED BY <1>3, <2>1 DEF NamedBy
<1>4. ASSUME NEW t \in NamedBy(c), NamedBy(t) = {} PROVE Params(t) = {}
  <2>1. Leading(t) = {t} \union UNION {Leading(u) : u \in NamedBy(t)}
    BY <1>2, LeadingSplits
  <2> QED BY <1>4, <2>1 DEF Params
<1>5. \A t \in NamedBy(c) : Params(t) \subseteq Params(s)
  BY <1>3, <1>4
<1>6. /\ Leading(c) = {c} \union UNION {Leading(t) : t \in NamedBy(c)}
      /\ c \notin Leading(s)
  BY LeadingSplits
<1>7. Params(c) = {c} \union UNION {Params(t) : t \in NamedBy(c)}
  BY <1>6 DEF Params
<1> QED
  BY <1>3, <1>5, <1>6, <1>7 DEF Params

\* Every analysis that is solved on its own account is so at each point of its grid: there
\* is always one that is named by none of those for which this is not known yet.
LEMMA GridIs ==
  ASSUME Inv, TreeOK, TallyOK, AxisOK, SameOrder, pc = "done"
  PROVE  \A c \in Present(file) : c # DC \/ Hosts = {} => Done(c) = Product(file, Params(c), axis)
<1> DEFINE G == {c \in Present(file) : c # DC \/ Hosts = {}}
           Wrong == {c \in G : Done(c) # Product(file, Params(c), axis)}
<1>1. FileOK /\ file \in Seq(Analysis) /\ IsInjective(file) /\ Present(file) \subseteq Analysis
  BY FileFinite DEF Inv, FileOK
<1>2. SUFFICES ASSUME Wrong # {} PROVE FALSE
  OBVIOUS
<1>3. PICK t \in Wrong : NamedBy(t) \intersect Wrong = {}
  <2>1. Wrong \subseteq Present(file)
    OBVIOUS
  <2> HIDE DEF Wrong
  <2> QED BY <1>1, <1>2, <2>1, FirstOfAny
<1>4. t \in Present(file) /\ t \in Analysis /\ (t # DC \/ Hosts = {})
      /\ Done(t) # Product(file, Params(t), axis)
  BY <1>1, <1>3
<1>5. \A s \in NamedBy(t) : /\ s \in Sweep /\ s \in Present(file) /\ sim[s] = t /\ s \in Analysis
                            /\ Done(s) = Product(file, Params(s), axis)
  <2>1. \A s \in NamedBy(t) : s \in Sweep /\ s \in Present(file) /\ sim[s] = t /\ s # DC
    BY KindsDiffer DEF NamedBy
  <2> QED BY <1>1, <1>3, <2>1
<1> HIDE DEF Wrong, G
<1>6. Done(t) = Share(t, runs)
  BY <1>4, SharesAreTaken
<1>7. \A a \in Range(file) : axis[a] \in Int
  BY <1>1, AxisIs DEF Present
<1>8. CASE NamedBy(t) = {}
  <2>1. Leading(t) = {t} \union UNION {Leading(s) : s \in NamedBy(t)}
    BY <1>1, <1>4, LeadingSplits
  <2>2. Params(t) = {}
    BY <1>8, <2>1 DEF Params
  <2> QED BY <1>1, <1>4, <1>6, <1>8, <2>2, ProductOfNone DEF Share
<1>9. CASE NamedBy(t) # {}
  <2>1. PICK s \in NamedBy(t) : TRUE
    BY <1>9
  <2> DEFINE N == NamedBy(t)
             f == PointsOf(runs)
             r == Done(s)
  <2>2. /\ Params(t) = {t} \union Params(s) /\ t \notin Params(s)
        /\ \A u \in N : u # s => NamedBy(s) = {} /\ NamedBy(u) = {}
    BY <1>1, <1>4, <2>1, ParamsAre
  <2>3. r \in Int /\ \A u \in N : u \in Sweep /\ Done(u) = runs[u]
    BY <1>5, <2>1, DoneType, AllClosed
  <2>4. ASSUME NEW u \in N PROVE Done(u) = r
    <3>1. CASE u = s
      BY <3>1
    <3>2. CASE u # s
      <4>1. NamedBy(s) = {} /\ NamedBy(u) = {}
        BY <2>2, <3>2
      <4>2. \A x \in N : x # DC /\ Done(x) = Share(x, runs)
        <5>1. \A x \in N : x # DC /\ x \in Present(file)
          BY <1>5, KindsDiffer
        <5> QED BY <5>1, SharesAreTaken
      <4> QED BY <2>1, <4>1, <4>2 DEF Share
    <3> QED BY <3>1, <3>2
  <2>5. \A u \in N : Points[u] \in Int /\ f[u] = Points[u] * r
    BY <2>3, <2>4, PointsPositive DEF PointsOf
  <2>6. Done(t) = Total(file, N, f)
    BY <1>6, <1>9 DEF Share
  <2> HIDE DEF N, f, r
  <2>7. Total(file, N, f) = Total(file, N, Points) * r
    BY <1>1, <2>3, <2>5, TotalTimes
  <2>8. axis[t] = Total(file, N, Points) /\ axis[t] \in Int
    BY <1>4, AxisIs DEF N
  <2>9. r = Product(file, Params(s), axis)
    BY <1>5, <2>1 DEF r
  <2>10. Product(file, {t} \union Params(s), axis) = axis[t] * Product(file, Params(s), axis)
    <3>1. t \in Range(file)
      BY <1>4 DEF Present
    <3> QED BY <1>1, <1>7, <2>2, <3>1, ProductMore
  <2> QED BY <1>4, <2>2, <2>6, <2>7, <2>8, <2>9, <2>10
<1> QED
  BY <1>8, <1>9

\* At the end the results depend on the parameters on which they should.
LEMMA DepsAre ==
  ASSUME Inv, TreeOK, TallyOK, DepsOK, pc = "done"
  PROVE  \A a \in Single : Shared(a) => deps[a] = Params(Target(a))
<1> SUFFICES ASSUME NEW a \in Single, Shared(a) PROVE deps[a] = Params(Target(a))
  OBVIOUS
<1> DEFINE P == Sweep \intersect Present(file)
           g == Target(a)
<1>1. FileOK /\ g \in Analysis /\ g \notin Sweep
  <2>1. \A c \in Single : c \in Analysis /\ c \notin Sweep
    BY KindsDiffer DEF Analysis, Single
  <2> QED BY <2>1, TargetIs DEF Inv
<1>2. \A s \in P : children[s] # <<>> /\ runs[s] \in Nat \ {0}
  <2> SUFFICES ASSUME NEW s \in P PROVE children[s] # <<>> /\ runs[s] \in Nat \ {0}
    OBVIOUS
  <2>1. runs[s] \in Nat \ {0}
    BY SweepsRun
  <2> QED BY <2>1 DEF TallyOK
<1>3. \A s \in P : a \in LastOrder(s) <=> s \in Leading(g)
  BY <1>1, <1>2, LastOrderLeads
<1> HIDE DEF g
<1>4. ASSUME NEW p \in deps[a] PROVE p \in Params(g)
  <2>1. PICK s \in NamedBy(p) : a \in LastOrder(s)
    BY DEF DepsOK
  <2>2. s \in P /\ sim[s] = p
    BY DEF NamedBy
  <2>3. s \in Leading(g) /\ s # g
    BY <1>1, <1>3, <2>1, <2>2
  <2>4. p \in Leading(g)
    BY <1>1, <2>2, <2>3, LeadingIs
  <2> QED BY <2>4 DEF Params
<1>5. ASSUME NEW p \in Params(g) PROVE p \in deps[a]
  <2>1. PICK s \in NamedBy(p) : TRUE
    BY DEF Params
  <2>2. s \in P /\ sim[s] = p /\ p \in Leading(g)
    BY DEF NamedBy, Params
  <2>3. a \in LastOrder(s)
    BY <1>1, <1>3, <2>2, LeadingIs
  <2>4. PICK c \in Range(children[s]) : Leads(c, a)
    BY <1>1, <1>2, <2>2, <2>3, LedIs
  <2>5. Part(s, c) > 0
    <3>1. Part(s, c) = Points[s] * Done(s) + 0
      BY <2>2, AllClosed, KindsDiffer DEF Part, Analysis
    <3>2. Points[s] \in Nat \ {0} /\ Done(s) \in Nat \ {0}
      BY <1>2, <2>2, AllClosed, PointsPositive
    <3>3. \A x, y \in Nat \ {0} : x * y + 0 > 0
      OBVIOUS
    <3> QED BY <3>1, <3>2, <3>3
  <2> QED BY <1>2, <2>2, <2>4, <2>5 DEF DepsOK
<1> QED
  BY <1>4, <1>5 DEF g

\* The DC analysis is solved as often as the one with which alone it goes.
LEMMA GoneWith ==
  ASSUME Inv, TreeOK, TallyOK, pc = "done", NEW a \in Single \intersect Present(file), Shared(a)
  PROVE  /\ Target(a) \in Present(file) /\ (Target(a) # DC \/ Hosts = {})
         /\ Done(a) = Done(Target(a))
<1>1. FileOK /\ DC \notin Plain
  BY KindsDiffer DEF Inv
<1>2. Target(a) \in Present(file)
  BY <1>1, TargetIs
<1>3. CASE ~(a = DC /\ Hosts # {})
  BY <1>2, <1>3 DEF Target
<1>4. CASE a = DC /\ Hosts # {}
  <2>1. Target(a) \in Plain /\ NamedBy(Target(a)) = Hosts \union NamedBy(DC)
    BY <1>1, <1>4, TargetIs
  <2>2. Done(DC) = Total(file, Hosts \union NamedBy(DC), PointsOf(runs))
    BY <1>4, SharesAreTaken DEF HasDC
  <2>3. Done(Target(a)) = Share(Target(a), runs)
    BY <1>1, <1>2, <2>1, SharesAreTaken
  <2> QED BY <1>1, <1>2, <1>4, <2>1, <2>2, <2>3 DEF Share
<1> QED
  BY <1>3, <1>4

\* The grid is filled.
LEMMA GridFills ==
  Inv /\ TreeOK /\ TallyOK /\ AxisOK /\ DepsOK => ResultsFillTheGrid
<1> SUFFICES ASSUME Inv, TreeOK, TallyOK, AxisOK, DepsOK, pc = "done", SameOrder,
                    NEW a \in Single \intersect Present(file), a = DC => GoesWithOne
             PROVE  solved[a] = Product(file, deps[a], axis)
  BY DEF ResultsFillTheGrid
<1>1. Shared(a) /\ a \notin Sweep
  BY KindsDiffer DEF Shared, Single, HasDC
<1>2. Done(a) = solved[a]
  BY <1>1 DEF Done
<1>3. /\ Target(a) \in Present(file) /\ (Target(a) # DC \/ Hosts = {})
      /\ Done(a) = Done(Target(a))
  BY <1>1, GoneWith
<1>4. Done(Target(a)) = Product(file, Params(Target(a)), axis)
  BY <1>3, GridIs
<1>5. deps[a] = Params(Target(a))
  BY <1>1, DepsAre
<1> QED
  BY <1>2, <1>3, <1>4, <1>5

-----------------------------------------------------------------------------
\* The values saved and the dependencies step by step.

\* The values saved stay those of the first runs, if none comes to a further point.
LEMMA AxisStays ==
  ASSUME Inv, AxisOK, pc # "crashed", UNCHANGED <<file, sim, axis>>,
         \A s \in Sweep : FirstRun(s)' = FirstRun(s)
  PROVE  AxisOK'
<1> SUFFICES ASSUME NEW p \in Analysis
             PROVE  axis'[p] = Total(file, NamedBy(p), [s \in Sweep |-> FirstRun(s)])'
  BY DEF AxisOK
<1> DEFINE N == NamedBy(p)
           f == [s \in Sweep |-> FirstRun(s)]
           e == [s \in Sweep |-> FirstRun(s)']
<1>1. file \in Seq(Analysis) /\ N \subseteq Sweep
  BY DEF Inv, FileOK, NamedBy
<1>2. \A s \in N : f[s] \in Int /\ e[s] = f[s]
  BY <1>1, FirstRunType
<1>3. axis[p] = Total(file, N, f) /\ axis'[p] = axis[p]
  BY DEF AxisOK
<1>4. Total(file, NamedBy(p), [s \in Sweep |-> FirstRun(s)])' = Total(file, N, e)
  BY DEF NamedBy, Present
<1> HIDE DEF N, f, e
<1>5. Total(file, N, e) = Total(file, N, f)
  BY <1>1, <1>2, TotalSame
<1> QED
  BY <1>3, <1>4, <1>5

\* A sweep comes to a point: in its first run that is one value more.
LEMMA AxisMoves ==
  ASSUME Inv, AxisOK, pc # "crashed", UNCHANGED <<file, sim>>,
         NEW d \in Sweep \intersect Present(file), NEW run \in BOOLEAN,
         axis' = IF run THEN [axis EXCEPT ![sim[d]] = @ + 1] ELSE axis,
         \A s \in Sweep : FirstRun(s)' = FirstRun(s) + (IF s = d /\ run THEN 1 ELSE 0)
  PROVE  AxisOK'
<1>1. CASE ~run
  <2>1. \A s \in Sweep : FirstRun(s)' = FirstRun(s)
    BY <1>1, FirstRunType
  <2> QED BY <1>1, <2>1, AxisStays
<1>2. CASE run
  <2> SUFFICES ASSUME NEW p \in Analysis
               PROVE  axis'[p] = Total(file, NamedBy(p), [s \in Sweep |-> FirstRun(s)])'
    BY DEF AxisOK
  <2> DEFINE N == NamedBy(p)
             f == [s \in Sweep |-> FirstRun(s)]
             e == [s \in Sweep |-> FirstRun(s)']
  <2>1. file \in Seq(Analysis) /\ IsInjective(file) /\ N \subseteq Sweep
    BY DEF Inv, FileOK, NamedBy
  <2>2. \A s \in N : f[s] \in Int /\ e[s] = f[s] + (IF s = d THEN 1 ELSE 0)
    BY <1>2, <2>1, FirstRunType
  <2>3. axis[p] = Total(file, N, f) /\ axis[p] \in Int
        /\ axis'[p] = axis[p] + (IF sim[d] = p THEN 1 ELSE 0)
    BY <1>2 DEF AxisOK, Inv, ResultsOK, FileOK
  <2>4. Total(file, NamedBy(p), [s \in Sweep |-> FirstRun(s)])' = Total(file, N, e)
    BY DEF NamedBy, Present
  <2>5. d \in N <=> sim[d] = p
    BY DEF NamedBy
  <2>6. d \in Range(file)
    BY DEF Present
  <2> HIDE DEF N, f, e
  <2>7. CASE d \in N
    <3>1. Total(file, N, e) = Total(file, N, f) + 1
      BY <2>1, <2>2, <2>6, <2>7, TotalMore
    <3> QED BY <2>3, <2>4, <2>5, <2>7, <3>1
  <2>8. CASE d \notin N
    <3>1. \A s \in N : f[s] \in Int /\ e[s] = f[s]
      BY <2>2, <2>8
    <3>2. Total(file, N, e) = Total(file, N, f)
      BY <2>1, <3>1, TotalSame
    <3> QED BY <2>3, <2>4, <2>5, <2>8, <3>2
  <2> QED BY <2>7, <2>8
<1> QED
  BY <1>1, <1>2

\* What an analysis depends on does not change where nothing has been solved.
LEMMA DepsStay ==
  ASSUME Inv, TreeOK, DepsOK, UNCHANGED <<tree, solved, deps>>, pc = "solve", pc' \in {"solve", "done"},
         \A s \in Sweep : Open(calls', s) => runs'[s] > 0, Unmoved
  PROVE  DepsOK'
<1>1. UNCHANGED <<file, sim, children>>
  BY DEF tree
<1>2. \A s : LastOrder(s)' = LastOrder(s) /\ NamedBy(s)' = NamedBy(s) /\ Present(file)' = Present(file)
  BY <1>1 DEF LastOrder, NamedBy, Present
<1>3. (\A s \in Sweep : Open(calls, s) => runs[s] > 0)'
  BY DEF Open
<1>4. (\A a \in Single : \A p \in deps[a] : \E s \in NamedBy(p) : a \in LastOrder(s))'
  BY <1>2 DEF DepsOK
<1>5. ASSUME NEW s \in Sweep, children[s] # <<>>, NEW c \in Range(children[s]), Part(s, c)' > 0,
             NEW a \in Single, Leads(c, a)
      PROVE  solved[a] > 0 /\ sim[s] \in deps[a]
  <2>1. c \in Range(ListOf(s))
    BY <1>5, KindsDiffer DEF ListOf, Analysis
  <2>2. Part(s, c)' = Part(s, c)
    BY <2>1 DEF Unmoved
  <2> QED BY <1>5, <2>2 DEF DepsOK
<1>6. (\A s \in Sweep : children[s] # <<>> =>
         \A c \in Range(children[s]) : Part(s, c) > 0 =>
           \A a \in Single : Leads(c, a) => solved[a] > 0 /\ sim[s] \in deps[a])'
  BY <1>1, <1>2, <1>5 DEF Leads
<1> QED
  BY <1>3, <1>4, <1>6 DEF DepsOK

\* A list solves an analysis once more: the results of those that are last now depend on
\* its parameter.
LEMMA DepsMove ==
  ASSUME Inv, TreeOK, DepsOK, UNCHANGED tree, pc = "solve", pc' = "solve",
         \A s \in Sweep : Open(calls', s) => runs'[s] > 0,
         NEW q, NEW d, Moved(q, d), NEW number, solved' = number, deps' = Assigned(q, number),
         \A a \in Single : number[a] \in Nat /\ number[a] >= solved[a],
         \A a \in Single : Leads(d, a) => number[a] > 0
  PROVE  DepsOK'
<1>1. UNCHANGED <<file, sim, children>>
  BY DEF tree
<1>2. \A s : LastOrder(s)' = LastOrder(s) /\ NamedBy(s)' = NamedBy(s)
  BY <1>1 DEF LastOrder, NamedBy, Present
<1>3. (\A s \in Sweep : Open(calls, s) => runs[s] > 0)'
  BY DEF Open
<1>4. /\ q \in Sweep \union {Net} /\ d \in Range(ListOf(q)) /\ (q \in Sweep => q \in Present(file))
      /\ \A p \in Sweep : \A c \in Range(ListOf(p)) :
           Part(p, c)' = Part(p, c) + (IF p = q /\ c = d THEN 1 ELSE 0)
  BY DEF Moved
<1>5. ASSUME NEW a \in Single
      PROVE  /\ deps'[a] = IF q # Net /\ a \in LastOrder(q) /\ number[a] > 0
                             THEN deps[a] \union {sim[q]} ELSE deps[a]
             /\ solved[a] \in Nat
  BY DEF Assigned, Inv, ResultsOK
<1>6. ASSUME NEW a \in Single, NEW p \in deps'[a] PROVE \E s \in NamedBy(p) : a \in LastOrder(s)
  <2>1. CASE p \in deps[a]
    BY <2>1 DEF DepsOK
  <2>2. CASE p \notin deps[a]
    <3>1. q # Net /\ a \in LastOrder(q) /\ p = sim[q]
      BY <1>5, <1>6, <2>2
    <3>2. q \in NamedBy(p)
      BY <1>4, <3>1 DEF NamedBy
    <3> QED BY <3>1, <3>2
  <2> QED BY <2>1, <2>2
<1>7. ASSUME NEW s \in Sweep, children[s] # <<>>, NEW c \in Range(children[s]), Part(s, c)' > 0,
             NEW a \in Single, Leads(c, a)
      PROVE  number[a] > 0 /\ sim[s] \in deps'[a]
  <2>1. s # Net /\ c \in Range(ListOf(s))
    BY <1>7, KindsDiffer DEF ListOf, Analysis
  <2>2. Part(s, c)' = Part(s, c) + (IF s = q /\ c = d THEN 1 ELSE 0) /\ Part(s, c) \in Int
    BY <1>4, <2>1, DoneType
  <2>3. CASE Part(s, c) > 0
    <3>1. solved[a] > 0 /\ sim[s] \in deps[a]
      BY <1>7, <2>3 DEF DepsOK
    <3>2. solved[a] \in Nat /\ number[a] \in Nat /\ number[a] >= solved[a]
      BY <1>5
    <3>3. number[a] > 0
      BY <3>1, <3>2
    <3>4. deps[a] \subseteq deps'[a]
      BY <1>5
    <3> QED BY <3>1, <3>3, <3>4
  <2>4. CASE ~(Part(s, c) > 0)
    <3>1. s = q /\ c = d
      BY <1>7, <2>2, <2>4
    <3>2. a \in LastOrder(s)
      BY <1>7, LedIs DEF Inv
    <3>3. number[a] > 0
      BY <1>7, <3>1
    <3> QED BY <1>5, <2>1, <3>1, <3>2, <3>3
  <2> QED BY <2>3, <2>4
<1>8. (\A a \in Single : \A p \in deps[a] : \E s \in NamedBy(p) : a \in LastOrder(s))'
  BY <1>2, <1>6
<1>9. (\A s \in Sweep : children[s] # <<>> =>
         \A c \in Range(children[s]) : Part(s, c) > 0 =>
           \A a \in Single : Leads(c, a) => solved[a] > 0 /\ sim[s] \in deps[a])'
  BY <1>1, <1>2, <1>7 DEF Leads
<1> QED
  BY <1>3, <1>8, <1>9 DEF DepsOK

\* The inductive invariant of the grid.
Grid == AxisOK /\ DepsOK

LEMMA InitGrid == Init /\ Inv => Grid
<1> SUFFICES ASSUME Init, Inv PROVE Grid
  OBVIOUS
<1>1. /\ pc = "order" /\ calls = <<>>
      /\ \A s \in Sweep : runs[s] = 0
      /\ \A p \in Analysis : axis[p] = 0
      /\ \A a \in Single : deps[a] = {}
  BY DEF Init
<1>2. AxisOK
  <2> SUFFICES ASSUME NEW p \in Analysis
               PROVE  axis[p] = Total(file, NamedBy(p), [s \in Sweep |-> FirstRun(s)])
    BY DEF AxisOK
  <2> DEFINE N == NamedBy(p)
             f == [s \in Sweep |-> FirstRun(s)]
  <2>1. file \in Seq(Analysis) /\ N \subseteq Sweep
    BY DEF Inv, FileOK, NamedBy
  <2>2. \A s \in N : f[s] = 0
    BY <1>1, <2>1 DEF FirstRun
  <2> HIDE DEF N, f
  <2>3. Total(file, N, f) = 0
    BY <2>1, <2>2, TotalAtLeast
  <2> QED BY <1>1, <2>3 DEF N, f
<1>3. \A s \in Sweep : ~Open(calls, s)
  BY <1>1 DEF Open
<1>4. DepsOK
  BY <1>1, <1>3 DEF DepsOK
<1> QED
  BY <1>2, <1>4 DEF Grid

\* Before the run nothing is saved and nothing depends on anything.
LEMMA OrderGrid ==
  ASSUME Inv, TallyOK, Grid, OrderRound \/ OrderDone
  PROVE  Grid'
<1>1. /\ pc = "order" /\ pc' \in {"order", "initialize"}
      /\ UNCHANGED <<file, sim, calls, runs, solved, deps, axis>>
  BY DEF OrderRound, OrderDone, results
<1>2. \A s \in Sweep : runs[s] = 0
  BY <1>1 DEF TallyOK
<1>3. AxisOK'
  <2>1. \A s \in Sweep : FirstRun(s)' = FirstRun(s)
    BY <1>1, <1>2 DEF FirstRun
  <2> QED BY <1>1, <2>1, AxisStays DEF Grid
<1>4. (\A p \in Analysis : axis[p] = 0) /\ (\A a \in Single : deps[a] = {})
  BY <1>1 DEF Grid, DepsOK
<1>5. (\A s \in Sweep : Open(calls, s) => runs[s] > 0)'
  BY <1>1 DEF Grid, DepsOK, Open
<1>6. DepsOK'
  BY <1>1, <1>4, <1>5 DEF DepsOK
<1> QED
  BY <1>3, <1>6 DEF Grid

LEMMA InitializeGrid ==
  ASSUME Inv, Inv', TreeOK, TallyOK, Grid, Initialize
  PROVE  Grid'
<1>1. /\ pc = "initialize" /\ pc' = "solve"
      /\ UNCHANGED <<tree, runs, solved, deps, axis>>
  BY DEF Initialize, results
<1>2. UNCHANGED <<file, sim, children>> /\ \A s \in Sweep : runs[s] = 0
  BY <1>1 DEF tree, TallyOK
<1>3. AxisOK'
  <2>1. \A s \in Sweep : FirstRun(s)' = FirstRun(s)
    BY <1>1, <1>2 DEF FirstRun
  <2> QED BY <1>1, <1>2, <2>1, AxisStays DEF Grid
<1>4. \A a \in Single : deps'[a] = {}
  BY <1>1 DEF Grid, DepsOK
<1>5. Net \notin Sweep
  BY KindsDiffer DEF Analysis
<1>6. /\ \A p : Open(calls', p) <=> p = Net
      /\ \A p \in Sweep \union {Net} : \A c \in Range(ListOf(p)) : Part(p, c)' = 0
  BY InitializeMoves
<1>7. (\A s \in Sweep : Open(calls, s) => runs[s] > 0)'
  BY <1>5, <1>6 DEF Open
<1>8. ASSUME NEW s \in Sweep, NEW c \in Range(children[s]) PROVE Part(s, c)' = 0
  <2>1. c \in Range(ListOf(s))
    BY <1>5 DEF ListOf
  <2> QED BY <1>6, <2>1
<1>9. (\A s \in Sweep : children[s] # <<>> =>
         \A c \in Range(children[s]) : Part(s, c) > 0 =>
           \A a \in Single : Leads(c, a) => solved[a] > 0 /\ sim[s] \in deps[a])'
  <2>1. ~(0 > 0)
    OBVIOUS
  <2> QED BY <1>2, <1>8, <2>1
<1>10. DepsOK'
  BY <1>1, <1>4, <1>7, <1>9 DEF DepsOK
<1> QED
  BY <1>3, <1>10 DEF Grid

LEMMA SolveSingleGrid ==
  ASSUME Inv, Inv', TreeOK, TallyOK, Grid, SolveSingle
  PROVE  Grid'
<1>1. /\ AnyDue /\ Due \in Single /\ pc = "solve" /\ pc' = "solve"
      /\ UNCHANGED <<tree, runs, axis>>
      /\ solved' = [solved EXCEPT ![Due] = @ + 1]
      /\ deps' = Assigned(Top.parent, solved')
  BY DEF SolveSingle, AnyDue
<1>2. UNCHANGED <<file, sim>>
  BY <1>1 DEF tree
<1>3. /\ Moved(Top.parent, Due)
      /\ \A p : Open(calls', p) <=> Open(calls, p)
      /\ \A s \in Sweep : FirstRun(s)' = FirstRun(s)
  BY SolveSingleMoves
<1>4. AxisOK'
  BY <1>1, <1>2, <1>3, AxisStays DEF Grid
<1>5. \A s \in Sweep : Open(calls', s) => runs'[s] > 0
  BY <1>1, <1>3 DEF Grid, DepsOK
<1>6. \A a \in Single : solved'[a] \in Nat /\ solved'[a] >= solved[a]
  BY <1>1 DEF Inv, ResultsOK
<1>7. Due \notin Sweep /\ solved'[Due] > 0
  <2>1. Due \notin Sweep
    BY <1>1, KindsDiffer DEF Single
  <2> QED BY <1>1, <2>1 DEF Inv, ResultsOK
<1>8. PICK n : n = solved'
  OBVIOUS
<1>9. /\ solved' = n /\ deps' = Assigned(Top.parent, n)
      /\ \A a \in Single : n[a] \in Nat /\ n[a] >= solved[a]
      /\ \A a \in Single : Leads(Due, a) => n[a] > 0
  BY <1>1, <1>6, <1>7, <1>8 DEF Leads
<1>10. DepsOK'
  BY <1>1, <1>3, <1>5, <1>9, DepsMove DEF Grid
<1> QED
  BY <1>4, <1>10 DEF Grid

LEMMA EnterSweepGrid ==
  ASSUME Inv, Inv', TreeOK, TallyOK, Grid, EnterSweep
  PROVE  Grid'
<1>1. /\ AnyDue /\ Due \in Sweep /\ children[Due] # <<>> /\ pc = "solve" /\ pc' = "solve"
      /\ UNCHANGED <<tree, solved, deps>>
      /\ runs' = [runs EXCEPT ![Due] = @ + 1]
      /\ axis' = IF runs'[Due] = 1 THEN [axis EXCEPT ![sim[Due]] = @ + 1] ELSE axis
  BY DEF EnterSweep, AnyDue, ComeTo
<1>2. UNCHANGED <<file, sim>> /\ Due \in Present(file)
  BY <1>1, ListsAre DEF tree, Inv
<1>3. /\ Unmoved
      /\ \A p : Open(calls', p) <=> Open(calls, p) \/ p = Due
      /\ \A s \in Sweep :
           FirstRun(s)' = FirstRun(s) + (IF s = Due /\ runs'[s] = 1 THEN 1 ELSE 0)
  BY EnterSweepMoves
<1>4. AxisOK'
  <2>1. PICK run \in BOOLEAN : run <=> runs'[Due] = 1
    OBVIOUS
  <2>2. PICK d : d = Due
    OBVIOUS
  <2>3. /\ d \in Sweep \intersect Present(file)
        /\ axis' = IF run THEN [axis EXCEPT ![sim[d]] = @ + 1] ELSE axis
        /\ \A s \in Sweep : FirstRun(s)' = FirstRun(s) + (IF s = d /\ run THEN 1 ELSE 0)
    BY <1>1, <1>2, <1>3, <2>1, <2>2
  <2> QED BY <1>1, <1>2, <2>3, AxisMoves DEF Grid
<1>5. \A s \in Sweep : Open(calls', s) => runs'[s] > 0
  BY <1>1, <1>3 DEF Grid, DepsOK, Inv, ResultsOK
<1>6. DepsOK'
  BY <1>1, <1>3, <1>5, DepsStay DEF Grid
<1> QED
  BY <1>4, <1>6 DEF Grid

LEMMA NextPointGrid ==
  ASSUME Inv, Inv', TreeOK, TallyOK, Grid, NextPoint
  PROVE  Grid'
<1>1. /\ pc = "solve" /\ pc' = "solve" /\ Top.parent # Net
      /\ UNCHANGED <<tree, runs, solved, deps>>
      /\ axis' = IF runs[Top.parent] = 1 THEN [axis EXCEPT ![sim[Top.parent]] = @ + 1] ELSE axis
  BY DEF NextPoint, ComeTo
<1>2. UNCHANGED <<file, sim>> /\ Top.parent \in Sweep \intersect Present(file)
  BY <1>1, TopIs, ListsAre DEF tree, Inv
<1>3. /\ Unmoved
      /\ \A p : Open(calls', p) <=> Open(calls, p)
      /\ \A s \in Sweep :
           FirstRun(s)' = FirstRun(s) + (IF s = Top.parent /\ runs[s] = 1 THEN 1 ELSE 0)
  BY NextPointMoves
<1>4. AxisOK'
  <2>1. PICK run \in BOOLEAN : run <=> runs[Top.parent] = 1
    OBVIOUS
  <2>2. PICK d : d = Top.parent
    OBVIOUS
  <2>3. /\ d \in Sweep \intersect Present(file)
        /\ axis' = IF run THEN [axis EXCEPT ![sim[d]] = @ + 1] ELSE axis
        /\ \A s \in Sweep : FirstRun(s)' = FirstRun(s) + (IF s = d /\ run THEN 1 ELSE 0)
    BY <1>1, <1>2, <1>3, <2>1, <2>2
  <2> QED BY <1>1, <1>2, <2>3, AxisMoves DEF Grid
<1>5. \A s \in Sweep : Open(calls', s) => runs'[s] > 0
  BY <1>1, <1>3 DEF Grid, DepsOK
<1>6. DepsOK'
  BY <1>1, <1>3, <1>5, DepsStay DEF Grid
<1> QED
  BY <1>4, <1>6 DEF Grid

\* A sweep that is left has solved what it names, so that the results of its last analyses
\* exist for the sweep around it.
LEMMA LeaveSweepGrid ==
  ASSUME Inv, Inv', TreeOK, TallyOK, Grid, LeaveSweep
  PROVE  Grid'
<1>1. pc = "solve" /\ pc' = "solve" /\ UNCHANGED <<tree, runs, solved, axis>> /\ Top.parent # Net
  BY DEF LeaveSweep
<1>2. PICK d : d = Top.parent
  OBVIOUS
<1>3. /\ \E q : Moved(q, d) /\ deps' = Assigned(q, solved)
      /\ \A p : Open(calls', p) <=> Open(calls, p) /\ p # d
      /\ Open(calls, d) /\ d \in Sweep
      /\ \A c \in Range(ListOf(d)) : Progress(calls, d, Position(c, ListOf(d))) >= 1
      /\ \A s \in Sweep : FirstRun(s)' = FirstRun(s)
  BY <1>2, LeaveSweepMoves
<1>4. PICK q : Moved(q, d) /\ deps' = Assigned(q, solved)
  BY <1>3
<1>5. UNCHANGED <<file, sim>>
  BY <1>1 DEF tree
<1>6. AxisOK'
  BY <1>1, <1>3, <1>5, AxisStays DEF Grid
<1>7. \A s \in Sweep : Open(calls', s) => runs'[s] > 0
  BY <1>1, <1>3 DEF Grid, DepsOK
<1>8. \A a \in Single : solved[a] \in Nat /\ solved[a] >= solved[a]
  BY DEF Inv, ResultsOK
<1>9. ASSUME NEW a \in Single, a \in LastOrder(d) PROVE solved[a] > 0
  <2>1. children[d] # <<>> /\ d # Net
    BY <1>1, <1>2, TopIs DEF Inv
  <2>2. PICK c \in Range(children[d]) : Leads(c, a)
    BY <1>3, <1>9, <2>1, LedIs DEF Inv
  <2>9. c \in Range(ListOf(d))
    BY <2>1 DEF ListOf
  <2> DEFINE place == Position(c, ListOf(d))
  <2>3. Progress(calls, d, place) >= 1 /\ Progress(calls, d, place) \in Int
    <3>1. place \in Nat
      BY <1>3, <2>9, PartIs DEF Inv
    <3>2. calls \in Seq(FrameType)
      BY DEF Inv, CallsOK
    <3>3. Progress(calls, d, place) \in Int
      BY <3>1, <3>2, ProgressType
    <3> QED BY <1>3, <2>9, <3>3
  <2>4. Done(d) \in Nat
    <3>1. runs[d] \in Nat /\ runs[d] > 0
      BY <1>3 DEF Grid, DepsOK, Inv, ResultsOK
    <3>2. Done(d) = runs[d] - 1
      BY <1>3 DEF Done
    <3> QED BY <3>1, <3>2
  <2>5. Part(d, c) = Points[d] * Done(d) + Progress(calls, d, place)
    BY <2>1 DEF Part
  <2>6. Points[d] * Done(d) \in Nat
    <3>1. Points[d] \in Nat
      BY <1>3, PointsPositive
    <3>2. \A x, y \in Nat : x * y \in Nat
      OBVIOUS
    <3> QED BY <2>4, <3>1, <3>2
  <2> HIDE DEF place
  <2>7. Part(d, c) > 0
    BY <2>3, <2>5, <2>6
  <2> QED BY <1>1, <1>3, <2>1, <2>2, <2>7 DEF Grid, DepsOK
<1>10. DepsOK'
  <2>1. PICK n : n = solved
    OBVIOUS
  <2>2. /\ solved' = n /\ deps' = Assigned(q, n)
        /\ \A a \in Single : n[a] \in Nat /\ n[a] >= solved[a]
        /\ \A a \in Single : Leads(d, a) => n[a] > 0
    BY <1>1, <1>3, <1>4, <1>8, <1>9, <2>1 DEF Leads
  <2> QED BY <1>1, <1>4, <1>7, <2>2, DepsMove DEF Grid
<1> QED
  BY <1>6, <1>10 DEF Grid

LEMMA FinishGrid ==
  ASSUME Inv, TreeOK, TallyOK, Grid, Finish
  PROVE  Grid'
<1>1. /\ UNCHANGED <<tree, calls, runs, solved, deps, axis>> /\ pc' = "done" /\ pc = "solve"
  BY DEF Finish, results
<1>2. UNCHANGED <<file, sim>> /\ \A s \in Sweep : FirstRun(s)' = FirstRun(s)
  BY <1>1 DEF tree, FirstRun
<1>3. AxisOK'
  BY <1>1, <1>2, AxisStays DEF Grid
<1>4. Unmoved
  <2>1. \A c \in Analysis : Done(c)' = Done(c)
    BY <1>1 DEF Done
  <2>2. \A p \in Sweep \union {Net} : \A c \in Range(ListOf(p)) : Part(p, c)' = Part(p, c)
    BY <1>1 DEF Part, Done, ListOf, tree
  <2> QED BY <2>1, <2>2 DEF Unmoved
<1>5. \A s \in Sweep : Open(calls', s) => runs'[s] > 0
  BY <1>1 DEF Grid, DepsOK
<1>6. DepsOK'
  BY <1>1, <1>4, <1>5, DepsStay DEF Grid
<1> QED
  BY <1>3, <1>6 DEF Grid

LEMMA CrashGrid ==
  ASSUME Inv, Grid, SweepWithoutChild
  PROVE  Grid'
<1>1. /\ UNCHANGED <<tree, calls, solved, deps>> /\ pc' = "crashed"
      /\ Due \in Sweep /\ runs' = [runs EXCEPT ![Due] = @ + 1]
  BY DEF SweepWithoutChild
<1>2. UNCHANGED <<file, sim, children>>
  BY <1>1 DEF tree
<1>3. \A s : LastOrder(s)' = LastOrder(s) /\ NamedBy(s)' = NamedBy(s)
  BY <1>2 DEF LastOrder, NamedBy, Present
<1>4. AxisOK'
  BY <1>1 DEF AxisOK
<1>5. (\A s \in Sweep : Open(calls, s) => runs[s] > 0)'
  <2>1. \A s \in Sweep : runs'[s] >= runs[s] /\ runs[s] \in Nat /\ runs'[s] \in Nat
    BY <1>1 DEF Inv, ResultsOK
  <2> QED BY <1>1, <2>1 DEF Grid, DepsOK, Open
<1>6. (\A a \in Single : \A p \in deps[a] : \E s \in NamedBy(p) : a \in LastOrder(s))'
  BY <1>1, <1>3 DEF Grid, DepsOK
<1>7. DepsOK'
  BY <1>1, <1>5, <1>6 DEF DepsOK
<1> QED
  BY <1>4, <1>7 DEF Grid

LEMMA GridGrows == Spec => []Grid
<1>1. Inv /\ Inv' /\ TreeOK /\ TallyOK /\ Grid /\ [Next]_vars => Grid'
  <2> SUFFICES ASSUME Inv, Inv', TreeOK, TallyOK, Grid, [Next]_vars PROVE Grid'
    OBVIOUS
  <2>1. CASE UNCHANGED vars
    <3>1. UNCHANGED <<file, sim, children, pc, calls, runs, solved, deps, axis, actions>>
      BY <2>1 DEF vars, tree, results
    <3>2. AxisOK'
      BY <3>1 DEF Grid, AxisOK, NamedBy, Present, FirstRun, Open, FrameOf
    <3>3. DepsOK'
      <4>1. \A s : LastOrder(s)' = LastOrder(s) /\ NamedBy(s)' = NamedBy(s)
        BY <3>1 DEF LastOrder, NamedBy, Present
      <4>2. \A s, p : Part(s, p)' = Part(s, p)
        BY <3>1 DEF Part, Done, ListOf
      <4>3. \A c, a : Leads(c, a)' <=> Leads(c, a)
        BY <4>1 DEF Leads
      <4> QED BY <3>1, <4>1, <4>2, <4>3 DEF Grid, DepsOK, Open
    <3> QED BY <3>2, <3>3 DEF Grid
  <2> QED BY <2>1, OrderGrid, InitializeGrid, SolveSingleGrid, EnterSweepGrid, NextPointGrid,
             LeaveSweepGrid, FinishGrid, CrashGrid DEF Next
<1> QED
  BY <1>1, InitGrid, Invariant, TreeGrows, TalliesAdd, PTL DEF Spec

\* In a run that comes to its end the results of an analysis fill the grid of the values
\* saved of the parameters on which they depend, if the sweeps that name one analysis are
\* named by the same sweeps; those of the DC analysis if it goes with one analysis at most
\* (parasweep::solve, findLastOrderChildren, net::runAnalysis).
THEOREM GridIsFilled == Spec => []ResultsFillTheGrid
BY GridGrows, GridFills, Invariant, TreeGrows, TalliesAdd, PTL DEF Grid

\* At the end the results of a plain analysis depend on the parameters of all sweeps that
\* lead to it, and on no other (net::findLastOrderChildren, parasweep::solve).
DependOnTheirSweeps == pc = "done" => \A a \in Plain : deps[a] = Params(a)

THEOREM DependenciesAreComplete == Spec => []DependOnTheirSweeps
<1>1. Inv /\ TreeOK /\ TallyOK /\ Grid => DependOnTheirSweeps
  <2> SUFFICES ASSUME Inv, TreeOK, TallyOK, Grid, pc = "done", NEW a \in Plain
               PROVE  deps[a] = Params(a)
    BY DEF DependOnTheirSweeps
  <2>1. a \in Single /\ a # DC
    BY KindsDiffer DEF Single
  <2>2. Shared(a) /\ Target(a) = a
    BY <2>1 DEF Shared, Target
  <2> QED BY <2>1, <2>2, DepsAre DEF Grid
<1> QED
  BY <1>1, GridGrows, Invariant, TreeGrows, TalliesAdd, PTL
=============================================================================
