---------------------------- MODULE Equations_proofs ----------------------------
(***************************************************************************)
(* Proofs about Equations: no check loses an equation, and the solver      *)
(* evaluates an equation behind all that it uses.                          *)
(***************************************************************************)
EXTENDS Equations, Selection_proofs, FiniteSetTheorems

-----------------------------------------------------------------------------
\* Sets and their sizes.

LEMMA NamesAreFinite ==
  ASSUME NEW S, S \subseteq Name
  PROVE  IsFiniteSet(S) /\ Cardinality(S) \in Nat
<1>1. IsFiniteSet(S)
  BY NamesAssumption, FS_Subset
<1> QED
  BY <1>1, FS_CardinalityType

\* Two different elements make two.
LEMMA TwoElements ==
  ASSUME NEW S, IsFiniteSet(S), NEW x \in S, NEW y \in S, x # y
  PROVE  Cardinality(S) > 1
<1>1. IsFiniteSet({x}) /\ Cardinality({x}) = 1
  BY FS_Singleton
<1>2. IsFiniteSet({x} \union {y}) /\ Cardinality({x} \union {y}) = 2
  <2> DEFINE X == {x}
  <2>1. IsFiniteSet(X) /\ Cardinality(X) = 1 /\ y \notin X
    BY <1>1
  <2>2. /\ IsFiniteSet(X \union {y})
        /\ Cardinality(X \union {y}) = IF y \in X THEN Cardinality(X) ELSE Cardinality(X) + 1
    <3> HIDE DEF X
    <3> QED BY <2>1, FS_AddElement
  <2> QED BY <2>1, <2>2
<1>3. {x} \union {y} \subseteq S
  OBVIOUS
<1>4. Cardinality({x} \union {y}) <= Cardinality(S)
  BY <1>3, FS_Subset
<1>5. Cardinality(S) \in Nat
  BY FS_CardinalityType
<1> QED
  BY <1>2, <1>4, <1>5

\* Counting what is in B and what is in G tells whether B and G cover a set.
LEMMA CountedCover ==
  ASSUME NEW A, IsFiniteSet(A), NEW B, NEW G, B \intersect G = {}
  PROVE  Cardinality(A \intersect B) = Cardinality(A) - Cardinality(A \intersect G)
           <=> A \ G \subseteq B
<1> DEFINE D == A \ G
           I == A \intersect G
           K == A \intersect B
<1>1. IsFiniteSet(D) /\ IsFiniteSet(I) /\ IsFiniteSet(K)
  BY FS_Subset
<1>2. Cardinality(D) \in Nat /\ Cardinality(I) \in Nat /\ Cardinality(K) \in Nat
  BY <1>1, FS_CardinalityType
<1>3. Cardinality(A) = Cardinality(D) + Cardinality(I)
  <2>1. D \union I = A /\ D \intersect I = {}
    OBVIOUS
  <2>2. Cardinality(D \union I) = Cardinality(D) + Cardinality(I) - Cardinality(D \intersect I)
    <3> HIDE DEF D, I
    <3> QED BY <1>1, FS_Union
  <2> HIDE DEF D, I
  <2> QED BY <1>2, <2>1, <2>2, FS_EmptySet
<1>4. K \subseteq D
  OBVIOUS
<1>5. Cardinality(K) = Cardinality(D) <=> K = D
  <2> HIDE DEF D, K
  <2> QED BY <1>1, <1>4, FS_Subset
<1>6. K = D <=> D \subseteq B
  OBVIOUS
<1>7. Cardinality(K) = Cardinality(A) - Cardinality(I) <=> Cardinality(K) = Cardinality(D)
  <2> HIDE DEF D, I, K
  <2> QED BY <1>2, <1>3
<1> QED
  BY <1>5, <1>6, <1>7

-----------------------------------------------------------------------------
\* Lists of equations.

Lists == Seq(Entry)

LEMMA ElementsOf ==
  ASSUME NEW s \in Lists
  PROVE  /\ Len(s) \in Nat /\ DOMAIN s = 1..Len(s)
         /\ \A i \in 1..Len(s) : s[i] \in Entry /\ s[i] \in Entries(s)
         /\ Entries(s) \subseteq Entry /\ Defined(s) \subseteq Name
         /\ (s = <<>> <=> Len(s) = 0)
         /\ (s = <<>> <=> Entries(s) = {})
<1>1. Len(s) \in Nat /\ DOMAIN s = 1..Len(s) /\ (s = <<>> <=> Len(s) = 0)
  BY DEF Lists
<1>2. \A i \in 1..Len(s) : s[i] \in Entry /\ s[i] \in Entries(s)
  BY <1>1 DEF Lists, Entries
<1>3. Entries(s) \subseteq Entry
  BY <1>1, <1>2 DEF Entries
<1>4. Defined(s) \subseteq Name
  BY <1>3 DEF Defined, Entry, Var
<1>5. s = <<>> <=> Entries(s) = {}
  <2>1. CASE s = <<>>
    BY <1>1, <2>1 DEF Entries
  <2>2. CASE s # <<>>
    <3>1. 1 \in 1..Len(s)
      BY <1>1, <2>2
    <3> QED BY <1>2, <2>2, <3>1
  <2> QED BY <2>1, <2>2
<1> QED
  BY <1>1, <1>2, <1>3, <1>4, <1>5

\* A finite set as a list.
LEMMA ListOfSet ==
  ASSUME NEW S, IsFiniteSet(S)
  PROVE  ListOf(S) \in Seq(S) /\ IsInjective(ListOf(S)) /\ Entries(ListOf(S)) = S
<1> DEFINE n == Cardinality(S)
<1>1. n \in Nat /\ ExistsBijection(1..n, S)
  BY FS_CardinalityType
<1>2. PICK f : f \in Bijection(1..n, S)
  BY <1>1 DEF ExistsBijection
<1>3. f \in [1..n -> S] /\ IsInjective(f)
  BY <1>2 DEF Bijection, Injection
<1>4. ListOf(S) \in [1..n -> S] /\ IsInjective(ListOf(S))
  BY <1>3 DEF ListOf
<1> DEFINE l == ListOf(S)
<1>5. l \in Seq(S) /\ DOMAIN l = 1..n
  BY <1>1, <1>4
<1>6. l \in Injection(1..n, S)
  BY <1>4 DEF Injection
<1>7. IsFiniteSet(1..n) /\ Cardinality(1..n) = n
  BY <1>1, CountTo
<1>8. l \in Surjection(1..n, S)
  <2> HIDE DEF l
  <2> QED BY <1>6, <1>7, FS_Injection
<1>9. Entries(l) = S
  BY <1>5, <1>8 DEF Surjection, Entries
<1> QED
  BY <1>4, <1>5, <1>9

\* A list without the element at a position.
LEMMA WithoutList ==
  ASSUME NEW s \in Lists, NEW i \in 1..Len(s)
  PROVE  /\ Without(s, i) \in Lists /\ Len(Without(s, i)) = Len(s) - 1
         /\ \A k \in 1..(Len(s) - 1) :
              Without(s, i)[k] = IF k < i THEN s[k] ELSE s[k + 1]
<1> DEFINE a == SubSeq(s, 1, i - 1)
           b == SubSeq(s, i + 1, Len(s))
<1>1. Len(s) \in Nat /\ \A k \in 1..Len(s) : s[k] \in Entry
  BY ElementsOf
<1>2. /\ a \in Seq(Entry) /\ Len(a) = i - 1 /\ \A k \in 1..(i - 1) : a[k] = s[k]
  <2>1. \A k \in 1..(i - 1) : s[k] \in Entry
    BY <1>1
  <2>2. /\ a \in Seq(Entry) /\ Len(a) = (IF 1 <= i - 1 THEN (i - 1) - 1 + 1 ELSE 0)
        /\ \A k \in 1..((i - 1) - 1 + 1) : a[k] = s[1 + k - 1]
    BY <2>1, SubSeqProperties
  <2> HIDE DEF a
  <2> QED BY <2>2
<1>3. /\ b \in Seq(Entry) /\ Len(b) = Len(s) - i
      /\ \A k \in 1..(Len(s) - i) : b[k] = s[i + k]
  <2>1. \A k \in (i + 1)..Len(s) : s[k] \in Entry
    BY <1>1
  <2>2. /\ b \in Seq(Entry)
        /\ Len(b) = (IF i + 1 <= Len(s) THEN Len(s) - (i + 1) + 1 ELSE 0)
        /\ \A k \in 1..(Len(s) - (i + 1) + 1) : b[k] = s[i + 1 + k - 1]
    BY <1>1, <2>1, SubSeqProperties
  <2> HIDE DEF b
  <2> QED BY <1>1, <2>2
<1> DEFINE w == a \o b
<1>4. /\ w \in Seq(Entry) /\ Len(w) = Len(a) + Len(b)
      /\ \A k \in 1..(Len(a) + Len(b)) : w[k] = IF k <= Len(a) THEN a[k] ELSE b[k - Len(a)]
  <2> HIDE DEF a, b
  <2> QED BY <1>2, <1>3, ConcatProperties
<1>5. Len(w) = Len(s) - 1
  <2> HIDE DEF a, b, w
  <2> QED BY <1>1, <1>2, <1>3, <1>4
<1>6. ASSUME NEW k \in 1..(Len(s) - 1) PROVE w[k] = IF k < i THEN s[k] ELSE s[k + 1]
  <2>1. w[k] = IF k <= i - 1 THEN a[k] ELSE b[k - (i - 1)]
    <3> HIDE DEF a, b, w
    <3> QED BY <1>1, <1>2, <1>3, <1>4
  <2>2. CASE k < i
    <3> HIDE DEF a, b, w
    <3> QED BY <1>2, <2>1, <2>2
  <2>3. CASE ~(k < i)
    <3>1. k - (i - 1) \in 1..(Len(s) - i) /\ i + (k - (i - 1)) = k + 1
      BY <1>1, <2>3
    <3> HIDE DEF a, b, w
    <3> QED BY <1>3, <2>1, <2>3, <3>1
  <2> QED BY <2>2, <2>3
<1> QED
  BY <1>4, <1>5, <1>6 DEF Without, Lists

\* If the list has no element twice, all others are left.
LEMMA WithoutRest ==
  ASSUME NEW s \in Lists, NEW i \in 1..Len(s), IsInjective(s)
  PROVE  IsInjective(Without(s, i)) /\ Entries(Without(s, i)) = Entries(s) \ {s[i]}
<1> DEFINE w == Without(s, i)
           src(k) == IF k < i THEN k ELSE k + 1
<1>1. /\ w \in Lists /\ Len(w) = Len(s) - 1 /\ Len(s) \in Nat
      /\ DOMAIN w = 1..(Len(s) - 1) /\ DOMAIN s = 1..Len(s)
      /\ \A k \in 1..(Len(s) - 1) : w[k] = IF k < i THEN s[k] ELSE s[k + 1]
  BY WithoutList, ElementsOf
<1> HIDE DEF w
<1>2. \A k \in 1..(Len(s) - 1) : src(k) \in 1..Len(s) /\ src(k) # i /\ w[k] = s[src(k)]
  BY <1>1
<1>3. IsInjective(w)
  <2> SUFFICES ASSUME NEW k \in 1..(Len(s) - 1), NEW m \in 1..(Len(s) - 1), w[k] = w[m]
               PROVE  k = m
    BY <1>1 DEF IsInjective
  <2>1. src(k) = src(m)
    BY <1>1, <1>2 DEF IsInjective
  <2> QED BY <1>1, <2>1
<1>4. ASSUME NEW e \in Entries(w) PROVE e \in Entries(s) /\ e # s[i]
  <2>1. PICK k \in 1..(Len(s) - 1) : e = w[k]
    BY <1>1 DEF Entries
  <2> QED BY <1>1, <1>2, <2>1 DEF Entries, IsInjective
<1>5. ASSUME NEW e \in Entries(s), e # s[i] PROVE e \in Entries(w)
  <2>1. PICK k \in 1..Len(s) : e = s[k]
    BY <1>1 DEF Entries
  <2>2. CASE k < i
    <3>1. k \in 1..(Len(s) - 1) /\ w[k] = e
      BY <1>1, <2>1, <2>2
    <3> QED BY <1>1, <3>1 DEF Entries
  <2>3. CASE k > i
    <3>1. k - 1 \in 1..(Len(s) - 1) /\ w[k - 1] = e
      BY <1>1, <2>1, <2>3
    <3> QED BY <1>1, <3>1 DEF Entries
  <2> QED BY <1>1, <1>5, <2>1, <2>2, <2>3
<1> QED
  BY <1>3, <1>4, <1>5 DEF w

\* Two lists behind each other.
LEMMA Together ==
  ASSUME NEW s \in Lists, NEW t \in Lists
  PROVE  /\ s \o t \in Lists /\ Len(s \o t) = Len(s) + Len(t)
         /\ \A i \in 1..Len(s) : (s \o t)[i] = s[i]
         /\ \A i \in 1..Len(t) : (s \o t)[Len(s) + i] = t[i]
         /\ \A i \in 1..(Len(s) + Len(t)) :
              (s \o t)[i] = IF i <= Len(s) THEN s[i] ELSE t[i - Len(s)]
         /\ Entries(s \o t) = Entries(s) \union Entries(t)
         /\ Defined(s \o t) = Defined(s) \union Defined(t)
         /\ (IsInjective(s) /\ IsInjective(t) /\ Entries(s) \intersect Entries(t) = {}
               => IsInjective(s \o t))
<1> DEFINE l == s \o t
<1>1. /\ l \in Lists /\ Len(l) = Len(s) + Len(t)
      /\ \A i \in 1..(Len(s) + Len(t)) : l[i] = IF i <= Len(s) THEN s[i] ELSE t[i - Len(s)]
  BY ConcatProperties DEF Lists
<1>2. /\ Len(s) \in Nat /\ Len(t) \in Nat /\ DOMAIN s = 1..Len(s) /\ DOMAIN t = 1..Len(t)
      /\ DOMAIN l = 1..(Len(s) + Len(t))
      /\ \A i \in 1..Len(s) : s[i] \in Entries(s)
      /\ \A i \in 1..Len(t) : t[i] \in Entries(t)
  <2> HIDE DEF l
  <2> QED BY <1>1, ElementsOf
<1> HIDE DEF l
<1>3. \A i \in 1..Len(s) : l[i] = s[i] /\ i \in DOMAIN l
  BY <1>1, <1>2
<1>4. \A i \in 1..Len(t) : l[Len(s) + i] = t[i] /\ Len(s) + i \in DOMAIN l
  BY <1>1, <1>2
<1>5. Entries(l) = Entries(s) \union Entries(t)
  <2>1. ASSUME NEW e \in Entries(l) PROVE e \in Entries(s) \union Entries(t)
    <3>1. PICK i \in 1..(Len(s) + Len(t)) : e = l[i]
      BY <1>2, <2>1 DEF Entries
    <3>2. CASE i <= Len(s)
      BY <1>1, <1>2, <3>1, <3>2
    <3>3. CASE ~(i <= Len(s))
      <4>1. i - Len(s) \in 1..Len(t)
        BY <1>2, <3>3
      <4> QED BY <1>1, <1>2, <3>1, <3>3, <4>1
    <3> QED BY <3>2, <3>3
  <2>2. Entries(s) \subseteq Entries(l)
    BY <1>2, <1>3 DEF Entries
  <2>3. Entries(t) \subseteq Entries(l)
    BY <1>2, <1>4 DEF Entries
  <2> QED BY <2>1, <2>2, <2>3
<1>6. Defined(l) = Defined(s) \union Defined(t)
  BY <1>5 DEF Defined
<1>7. ASSUME IsInjective(s), IsInjective(t), Entries(s) \intersect Entries(t) = {}
      PROVE  IsInjective(l)
  <2> SUFFICES ASSUME NEW i \in 1..(Len(s) + Len(t)), NEW j \in 1..(Len(s) + Len(t)),
                      l[i] = l[j]
               PROVE  i = j
    BY <1>2 DEF IsInjective
  <2>1. CASE i <= Len(s) /\ j <= Len(s)
    BY <1>1, <1>2, <1>7, <2>1 DEF IsInjective
  <2>2. CASE i > Len(s) /\ j > Len(s)
    <3>1. i - Len(s) \in 1..Len(t) /\ j - Len(s) \in 1..Len(t)
      BY <1>2, <2>2
    <3>2. t[i - Len(s)] = t[j - Len(s)]
      BY <1>1, <1>2, <2>2
    <3>3. i - Len(s) = j - Len(s)
      BY <1>2, <1>7, <3>1, <3>2 DEF IsInjective
    <3> QED BY <1>2, <3>3
  <2>3. CASE i <= Len(s) /\ j > Len(s)
    <3>1. i \in 1..Len(s) /\ j - Len(s) \in 1..Len(t)
      BY <1>2, <2>3
    <3>2. s[i] = t[j - Len(s)]
      BY <1>1, <1>2, <2>3
    <3> QED BY <1>2, <1>7, <3>1, <3>2
  <2>4. CASE i > Len(s) /\ j <= Len(s)
    <3>1. j \in 1..Len(s) /\ i - Len(s) \in 1..Len(t)
      BY <1>2, <2>4
    <3>2. s[j] = t[i - Len(s)]
      BY <1>1, <1>2, <2>4
    <3> QED BY <1>2, <1>7, <3>1, <3>2
  <2> QED BY <1>2, <2>1, <2>2, <2>3, <2>4
<1> QED
  BY <1>1, <1>3, <1>4, <1>5, <1>6, <1>7 DEF l

\* The loop that takes the sweeps out keeps each other equation once.
LEMMA EntriesOnce ==
  ASSUME NEW s \in Lists, NEW T, IsInjective(s)
  PROVE  /\ Only(s, T) \in Lists /\ IsInjective(Only(s, T))
         /\ Entries(Only(s, T)) = Entries(s) \intersect T
<1>1. \A l : Entries(l) = Range(l)
  BY DEF Entries, Range
<1> QED
  BY <1>1, OnlyOnce DEF Lists

\* If there is nothing to take out, the list stays as it is.
LEMMA OnlyAll ==
  ASSUME NEW s \in Lists, NEW T, Entries(s) \subseteq T
  PROVE  Only(s, T) = s
<1> DEFINE P == {r \in Seq(Entry) : Range(r) \subseteq T => Only(r, T) = r}
<1>1. <<>> \in P
  BY OnlyEmpty
<1>2. ASSUME NEW r \in Seq(Entry), NEW x \in Entry, r \in P PROVE Append(r, x) \in P
  <2> SUFFICES ASSUME Range(Append(r, x)) \subseteq T PROVE Only(Append(r, x), T) = Append(r, x)
    OBVIOUS
  <2>1. /\ Len(r) \in Nat /\ DOMAIN Append(r, x) = 1..(Len(r) + 1) /\ DOMAIN r = 1..Len(r)
        /\ Append(r, x)[Len(r) + 1] = x /\ \A i \in 1..Len(r) : Append(r, x)[i] = r[i]
    OBVIOUS
  <2>2. x \in T
    BY <2>1 DEF Range
  <2>3. Range(r) \subseteq Range(Append(r, x))
    BY <2>1 DEF Range
  <2>4. Only(r, T) = r
    BY <1>2, <2>3
  <2> QED BY <2>2, <2>4, OnlyAppend
<1>3. Seq(Entry) \subseteq P
  <2> HIDE DEF P
  <2> QED BY <1>1, <1>2, ListInduction
<1>4. Range(s) = Entries(s)
  BY DEF Range, Entries
<1> QED
  BY <1>3, <1>4 DEF Lists

-----------------------------------------------------------------------------
\* The invariant.  Its parts take the variables as parameters, so that the facts
\* about them are facts about sets and lists.

Used(u, e) == IF e[2] \in {"user", "property"} THEN u[Var(e)] ELSE {}

\* An equation that needs no other.
Free(u, e) == Used(u, e) \subseteq Generated

\* If there is such an equation, the first one is.
FreeFirst(u, s) == \A e \in Entries(s) : Free(u, e) => Free(u, s[1])

\* All the dependencies of an equation are in the list.
Fits(d, e, s) == d[e] \ Generated \subseteq Defined(s)

\* No variable has two equations.
Unique(E) == \A e, f \in E : Var(e) = Var(f) => e = f

\* The first of several equations of a variable has not been counted.
DoublesAreNew(k, s) ==
  \A i, j \in DOMAIN s : i < j /\ Var(s[i]) = Var(s[j]) => k[s[i]] = 0

\* What all sets hold that hold S and, with a variable, what its equation uses.
Closed(u, E, T) == \A e \in E : Var(e) \in T => Used(u, e) \subseteq T
LeadsTo(u, E, S, D) ==
  \A T \in SUBSET Name : Closed(u, E, T) /\ S \subseteq T => D \subseteq T

\* The equations with a value: they are marked, or given.
Sure(E, m) == {e \in E : e \in m \/ e[2] \in {"sweep", "data"}}

\* The variables of these equations follow from generated ones, one by one.
Derives(u, M, T) ==
  Generated \subseteq T /\ \A c \in M : Used(u, c) \subseteq T => Var(c) \in T
Grounded(u, M) ==
  \A T \in SUBSET Name : Derives(u, M, T) => \A c \in M : Var(c) \in T

\* The variables in front of a position of a list.
Above(s, i) == {Var(s[j]) : j \in 1..(i - 1)}

\* The new list: its equations are marked, each behind its dependencies.
Sorted(d, m, s) ==
  \A i \in DOMAIN s : s[i] \in m /\ d[s[i]] \ Generated \subseteq Above(s, i)

\* A marked equation uses marked ones in front of it.
MarkedAbove(m, s, i) == {Var(s[j]) : j \in {k \in 1..(i - 1) : s[k] \in m}}
InOrder(u, m, s) ==
  \A i \in DOMAIN s : s[i] \in m => Used(u, s[i]) \ Generated \subseteq MarkedAbove(m, s, i)

\* An equation that uses marked ones only is marked.
VarsOf(S) == {Var(e) : e \in S}
NoneLeft(u, m, E) ==
  \A c \in E : Used(u, c) \ Generated \subseteq VarsOf(E \intersect m) => c \in m

All == Entries(root) \union Entries(equations)

ListsOK ==
  /\ root = <<>> \/ pc = "reorder"
  /\ IsInjective(root) /\ IsInjective(equations)
  /\ Entries(root) \intersect Entries(equations) = {}
  /\ \A e \in All : Var(e) \notin Generated
  /\ (swept \union dataset) \intersect Generated = {}

KindsOK ==
  /\ \A e \in All : e[2] = "sweep" => Var(e) \in swept
  /\ stage # "dataset" => /\ \A e \in All : e[2] # "data"
                          /\ \A e \in Entry : e[2] = "data" => counted[e] = 0
  /\ stage = "netlist" /\ pc = "collect" =>
       marked = {} /\ \A e \in Entry : counted[e] = 0

Begin(s) == SubSeq(s, 1, IF s = <<>> THEN 0 ELSE 1)

Checking == pc \in {"collect", "cycles", "reorder"}

HeadOK ==
  /\ stage # "netlist" /\ Checking => head = Begin(root \o equations)
  /\ (stage # "netlist" /\ Checking /\ root = <<>>) \/ pc \in {"evaluate", "checked"} =>
       FreeFirst(uses, equations)
  /\ root # <<>> => Free(uses, root[1])

UniqueOK ==
  /\ \/ stage = "run"
     \/ pc \in {"cycles", "reorder"} /\ ~errors
     \/ pc = "evaluate"
     \/ pc = "checked" /\ stage = "netlist"
     => Unique(All)
  /\ pc = "evaluate" => stage # "netlist" /\ ~errors
  /\ pc = "checked" /\ stage = "netlist" => swept \intersect Defined(equations) = {}
  /\ pc = "collect" => DoublesAreNew(counted, equations)

DepsOK ==
  /\ pc \in {"cycles", "reorder"} =>
       \A e \in All : /\ Used(uses, e) \subseteq deps[e]
                      /\ LeadsTo(uses, All, Used(uses, e), deps[e])
  /\ pc = "cycles" /\ at <= Len(equations) =>
       LeadsTo(uses, All, Used(uses, equations[at]), asked)

OrderOK ==
  /\ pc = "reorder" => \A i \in 1..(at - 1) : ~Fits(deps, equations[i], root)
  /\ Sorted(deps, marked, root)

GroundedOK == Grounded(uses, Sure(All, marked))

ValuesOK ==
  pc = "evaluate" =>
    /\ InOrder(uses, marked, equations)
    /\ NoneLeft(uses, marked, Entries(equations))
    /\ evaluated = {equations[j] : j \in 1..(at - 1)} \intersect marked

IInv ==
  /\ TypeOK /\ ListsOK /\ KindsOK /\ HeadOK /\ UniqueOK /\ DepsOK /\ OrderOK
  /\ GroundedOK /\ ValuesOK

-----------------------------------------------------------------------------
\* The operators of the model in these terms.

LEMMA UsesIsUsed ==
  ASSUME NEW e PROVE Uses(e) = Used(uses, e)
BY DEF Uses, Used

LEMMA UsedIsNames ==
  ASSUME NEW u \in [Name -> SUBSET Name], NEW e \in Entry
  PROVE  Used(u, e) \subseteq Name
BY DEF Used, Entry, Var

LEMMA EvaluableIsFits ==
  ASSUME deps \in [Entry -> SUBSET Name], NEW e \in Entry, NEW s \in Lists,
         Defined(s) \intersect Generated = {}
  PROVE  Evaluable(e, s) <=> Fits(deps, e, s)
<1>1. IsFiniteSet(deps[e])
  BY NamesAreFinite
<1>2. Cardinality(deps[e] \intersect Defined(s))
        = Cardinality(deps[e]) - Cardinality(deps[e] \intersect Generated)
        <=> deps[e] \ Generated \subseteq Defined(s)
  BY <1>1, CountedCover
<1> QED
  BY <1>2 DEF Evaluable, Fits

LEMMA FirstIsDefined ==
  ASSUME equations \in Lists, NEW v \in Defined(equations)
  PROVE  First(v) \in Entries(equations) /\ Var(First(v)) = v
<1> DEFINE T == {i \in DOMAIN equations : Var(equations[i]) = v}
<1>1. DOMAIN equations = 1..Len(equations) /\ Len(equations) \in Nat
  BY ElementsOf
<1>2. T \subseteq Nat /\ T # {}
  BY <1>1 DEF Defined, Entries
<1>3. PICK n \in T : \A m \in T : n <= m
  <2> HIDE DEF T
  <2> QED BY <1>2, LeastNumber
<1> DEFINE Q(i) == /\ Var(equations[i]) = v
                   /\ \A j \in 1..(i - 1) : Var(equations[j]) # v
<1>4. n \in DOMAIN equations /\ Q(n)
  BY <1>1, <1>3
<1>5. (CHOOSE i \in DOMAIN equations : Q(i)) \in DOMAIN equations
      /\ Q(CHOOSE i \in DOMAIN equations : Q(i))
  <2> HIDE DEF Q
  <2> QED BY <1>4
<1>6. First(v) = equations[CHOOSE i \in DOMAIN equations : Q(i)]
  BY DEF First
<1> QED
  BY <1>5, <1>6 DEF Entries

LEMMA ChildrenAreDefined ==
  ASSUME equations \in Lists, NEW S, NEW c \in Children(S)
  PROVE  c \in Entries(equations) /\ Var(c) \in S
BY FirstIsDefined DEF Children

LEMMA CountIsNumber ==
  ASSUME NEW s \in Lists, NEW v
  PROVE  /\ Count(s, v) \in Nat
         /\ \A i, j \in DOMAIN s : i # j /\ Var(s[i]) = v /\ Var(s[j]) = v => Count(s, v) > 1
<1> DEFINE P == {i \in DOMAIN s : Var(s[i]) = v}
<1>1. P \subseteq 1..Len(s) /\ Len(s) \in Nat
  BY ElementsOf
<1>2. IsFiniteSet(P)
  <2>1. IsFiniteSet(1..Len(s))
    BY <1>1, CountTo
  <2> HIDE DEF P
  <2> QED BY <1>1, <2>1, FS_Subset
<1>3. Cardinality(P) \in Nat /\ Count(s, v) = Cardinality(P)
  BY <1>2, FS_CardinalityType DEF Count
<1>4. \A i, j \in P : i # j => Cardinality(P) > 1
  <2> HIDE DEF P
  <2> QED BY <1>2, TwoElements
<1> QED
  BY <1>3, <1>4

LEMMA CountOnce ==
  ASSUME NEW s \in Lists, IsInjective(s), Unique(Entries(s)), NEW v \in Defined(s)
  PROVE  Count(s, v) = 1
<1>1. PICK i \in DOMAIN s : Var(s[i]) = v
  BY DEF Defined, Entries
<1>2. {k \in DOMAIN s : Var(s[k]) = v} = {i}
  BY <1>1 DEF IsInjective, Unique, Entries
<1> QED
  BY <1>2, FS_Singleton DEF Count

-----------------------------------------------------------------------------
\* What the reordering achieves.

\* The equations that need no other are those that fit an empty list.
LEMMA FreeIsFirst ==
  ASSUME NEW u \in [Name -> SUBSET Name], NEW d, NEW E, NEW e \in E,
         \A x \in E : Var(x) \notin Generated,
         Used(u, e) \subseteq d[e], LeadsTo(u, E, Used(u, e), d[e])
  PROVE  Free(u, e) <=> d[e] \ Generated = {}
<1>1. Generated \in SUBSET Name /\ Closed(u, E, Generated)
  BY NamesAssumption DEF Closed
<1> QED
  BY <1>1 DEF Free, LeadsTo

\* At its end every equation that uses nothing but generated variables and those
\* of the new list is in that list, and so is every equation with a value.
EndOfReordering(u, d, m, r, q, E) ==
  /\ E = Entries(r) \union Entries(q)
  /\ \A e \in E : Var(e) \notin Generated
  /\ Unique(E)
  /\ \A e \in E : Used(u, e) \subseteq d[e] /\ LeadsTo(u, E, Used(u, e), d[e])
  /\ Sorted(d, m, r)
  /\ \A i \in DOMAIN q : ~Fits(d, q[i], r)
  /\ Grounded(u, Sure(E, m))

LEMMA ReorderingIsComplete ==
  ASSUME NEW u, NEW d, NEW m, NEW r \in Lists, NEW q \in Lists,
         NEW E, EndOfReordering(u, d, m, r, q, E)
  PROVE  /\ \A c \in E : Used(u, c) \ Generated \subseteq Defined(r) => c \in Entries(r)
         /\ Sure(E, m) \subseteq Entries(r)
         /\ Entries(r) \subseteq m
<1> USE DEF EndOfReordering
<1> DEFINE T == Generated \union Defined(r)
<1>1. /\ T \in SUBSET Name /\ DOMAIN r = 1..Len(r) /\ Len(r) \in Nat
      /\ DOMAIN q = 1..Len(q)
  BY NamesAssumption, ElementsOf
<1>2. \A c \in E : Var(c) \in T => c \in Entries(r)
  BY DEF Unique, Defined
<1>3. \A i \in DOMAIN r : Above(r, i) \subseteq Defined(r)
  BY <1>1 DEF Above, Defined, Entries
<1>4. \A c \in Entries(r) : Used(u, c) \subseteq T
  BY <1>3 DEF Entries, Sorted
<1>5. Closed(u, E, T)
  BY <1>2, <1>4 DEF Closed
<1>6. ASSUME NEW c \in E, Used(u, c) \subseteq T PROVE c \in Entries(r)
  <2>1. d[c] \subseteq T
    BY <1>1, <1>5, <1>6 DEF LeadsTo
  <2>2. Fits(d, c, r)
    BY <2>1 DEF Fits
  <2> QED BY <2>2 DEF Entries
<1>7. Derives(u, Sure(E, m), T)
  <2>1. \A c \in Sure(E, m) : Used(u, c) \subseteq T => Var(c) \in T
    BY <1>6 DEF Sure, Defined
  <2> QED BY <2>1 DEF Derives
<1>8. Sure(E, m) \subseteq Entries(r)
  <2>1. \A c \in Sure(E, m) : Var(c) \in T
    <3> HIDE DEF T
    <3> QED BY <1>1, <1>7 DEF Grounded
  <2> QED BY <1>2, <2>1 DEF Sure
<1>9. Entries(r) \subseteq m
  BY DEF Entries, Sorted
<1> QED
  BY <1>6, <1>8, <1>9

\* Hence the whole list can be evaluated step by step.
LEMMA ReorderingIsRight ==
  ASSUME NEW u \in [Name -> SUBSET Name], NEW d, NEW m, NEW r \in Lists, NEW q \in Lists,
         NEW E, E = Entries(r) \union Entries(q),
         \A e \in E : Used(u, e) \subseteq d[e],
         Sorted(d, m, r),
         Entries(r) \intersect Entries(q) = {},
         \A c \in E : Used(u, c) \ Generated \subseteq Defined(r) => c \in Entries(r),
         Sure(E, m) \subseteq Entries(r), Entries(r) \subseteq m
  PROVE  InOrder(u, m, r \o q) /\ NoneLeft(u, m, Entries(r \o q))
<1> DEFINE l == r \o q
<1>1. /\ l \in Lists /\ Entries(l) = E /\ DOMAIN r = 1..Len(r) /\ Len(r) \in Nat
      /\ DOMAIN q = 1..Len(q) /\ Len(q) \in Nat
      /\ \A i \in 1..Len(r) : l[i] = r[i]
      /\ \A i \in 1..(Len(r) + Len(q)) : l[i] = IF i <= Len(r) THEN r[i] ELSE q[i - Len(r)]
      /\ DOMAIN l = 1..(Len(r) + Len(q))
  <2>1. l \in Lists /\ Len(l) = Len(r) + Len(q)
    BY Together
  <2> HIDE DEF l
  <2> QED BY <2>1, ElementsOf, Together DEF l
<1> HIDE DEF l
<1>2. E \intersect m = Entries(r)
  BY DEF Sure
<1>3. NoneLeft(u, m, Entries(l))
  BY <1>1, <1>2 DEF NoneLeft, VarsOf, Defined
<1>4. ASSUME NEW i \in DOMAIN l, l[i] \in m
      PROVE  Used(u, l[i]) \ Generated \subseteq MarkedAbove(m, l, i)
  <2>1. l[i] \in Entries(r)
    BY <1>1, <1>2, <1>4 DEF Entries
  <2>2. i <= Len(r)
    <3> SUFFICES ASSUME i > Len(r) PROVE FALSE
      BY <1>1
    <3>1. i - Len(r) \in DOMAIN q /\ l[i] = q[i - Len(r)]
      BY <1>1
    <3> QED BY <2>1, <3>1 DEF Entries
  <2>3. i \in DOMAIN r /\ l[i] = r[i]
    BY <1>1, <2>2
  <2>4. \A j \in 1..(i - 1) : j \in DOMAIN r /\ l[j] = r[j] /\ r[j] \in m
    BY <1>1, <2>3 DEF Sorted
  <2>5. Above(r, i) \subseteq MarkedAbove(m, l, i)
    BY <2>4 DEF Above, MarkedAbove
  <2>6. Used(u, r[i]) \subseteq d[r[i]] /\ d[r[i]] \ Generated \subseteq Above(r, i)
    BY <2>3 DEF Entries, Sorted
  <2> QED BY <2>3, <2>5, <2>6
<1> QED
  BY <1>3, <1>4 DEF InOrder, l

\* An equation that moves to the new list is grounded in those that are there.
LEMMA MoveIsGrounded ==
  ASSUME NEW u \in [Name -> SUBSET Name], NEW d, NEW m, NEW r \in Lists, NEW E, NEW x \in E,
         Entries(r) \subseteq E, Entries(r) \subseteq m,
         Used(u, x) \subseteq d[x], Fits(d, x, r),
         Grounded(u, Sure(E, m))
  PROVE  Grounded(u, Sure(E, m \union {x}))
<1> SUFFICES ASSUME NEW T \in SUBSET Name, Derives(u, Sure(E, m \union {x}), T),
                    NEW c \in Sure(E, m \union {x})
             PROVE  Var(c) \in T
  BY DEF Grounded
<1>1. Sure(E, m \union {x}) = Sure(E, m) \union {x}
  BY DEF Sure
<1>2. Derives(u, Sure(E, m), T)
  BY <1>1 DEF Derives
<1>3. \A e \in Sure(E, m) : Var(e) \in T
  BY <1>2 DEF Grounded
<1>4. Defined(r) \subseteq T
  BY <1>3 DEF Sure, Defined
<1>5. Used(u, x) \subseteq T
  BY <1>4 DEF Fits, Derives
<1> QED
  BY <1>1, <1>3, <1>5 DEF Derives

-----------------------------------------------------------------------------
\* Small lists.

LEMMA EmptyList ==
  /\ <<>> \in Lists /\ Len(<<>>) = 0 /\ DOMAIN <<>> = {} /\ IsInjective(<<>>)
  /\ Entries(<<>>) = {} /\ Defined(<<>>) = {}
  /\ \A d, m : Sorted(d, m, <<>>)
  /\ \A s \in Lists : <<>> \o s = s
<1>1. <<>> \in Lists /\ Len(<<>>) = 0 /\ DOMAIN <<>> = {}
  BY DEF Lists
<1>2. IsInjective(<<>>) /\ Entries(<<>>) = {} /\ Defined(<<>>) = {}
  BY <1>1 DEF IsInjective, Entries, Defined
<1>3. \A d, m : Sorted(d, m, <<>>)
  BY <1>1 DEF Sorted
<1>4. \A s \in Lists : <<>> \o s = s
  BY ConcatEmptySeq DEF Lists
<1> QED
  BY <1>1, <1>2, <1>3, <1>4

LEMMA BeginIsFirst ==
  ASSUME NEW s \in Lists
  PROVE  /\ Begin(s) \in Lists
         /\ (Begin(s) = <<>> <=> s = <<>>)
         /\ (s # <<>> => Begin(s) = <<s[1]>>)
<1>1. CASE s = <<>>
  <2>1. SubSeq(s, 1, 0) = <<>>
    BY SubSeqEmpty
  <2> QED BY <1>1, <2>1, EmptyList DEF Begin
<1>2. CASE s # <<>>
  <2>1. s[1] \in Entry
    BY <1>2, ElementsOf
  <2>2. /\ SubSeq(s, 1, 1) \in Seq(Entry) /\ Len(SubSeq(s, 1, 1)) = 1
        /\ SubSeq(s, 1, 1)[1] = s[1]
    BY <2>1, SubSeqProperties
  <2>3. SubSeq(s, 1, 1) = <<s[1]>>
    <3> DEFINE g == SubSeq(s, 1, 1)
               h == <<s[1]>>
    <3>1. h \in Seq(Entry) /\ Len(h) = 1 /\ h[1] = s[1]
      BY <2>1
    <3>2. Len(g) = Len(h) /\ \A i \in 1..Len(g) : g[i] = h[i]
      <4> HIDE DEF g, h
      <4> QED BY <2>2, <3>1 DEF g
    <3>3. g = h
      <4> HIDE DEF g, h
      <4> QED BY <2>2, <3>1, <3>2, SeqEqual DEF g
    <3> QED BY <3>3
  <2>4. <<s[1]>> # <<>>
    OBVIOUS
  <2> QED BY <1>2, <2>2, <2>3, <2>4 DEF Begin, Lists
<1> QED
  BY <1>1, <1>2

LEMMA AppendToList ==
  ASSUME NEW r \in Lists, NEW x \in Entry
  PROVE  /\ Append(r, x) \in Lists /\ Len(Append(r, x)) = Len(r) + 1
         /\ Append(r, x)[Len(r) + 1] = x
         /\ \A i \in 1..Len(r) : Append(r, x)[i] = r[i]
         /\ Entries(Append(r, x)) = Entries(r) \union {x}
         /\ (IsInjective(r) /\ x \notin Entries(r) => IsInjective(Append(r, x)))
<1> DEFINE o == <<x>>
<1>1. o \in Lists /\ Len(o) = 1 /\ o[1] = x /\ DOMAIN o = {1}
  BY DEF Lists
<1>2. Entries(o) = {x} /\ IsInjective(o)
  BY <1>1 DEF Entries, IsInjective
<1>3. Append(r, x) = r \o o
  BY AppendIsConcat DEF Lists
<1>4. /\ r \o o \in Lists /\ Len(r \o o) = Len(r) + 1
      /\ Entries(r \o o) = Entries(r) \union {x}
      /\ (IsInjective(r) /\ x \notin Entries(r) => IsInjective(r \o o))
  <2> HIDE DEF o
  <2>1. /\ r \o o \in Lists /\ Len(r \o o) = Len(r) + Len(o)
        /\ Entries(r \o o) = Entries(r) \union Entries(o)
        /\ (IsInjective(r) /\ IsInjective(o) /\ Entries(r) \intersect Entries(o) = {}
              => IsInjective(r \o o))
    BY <1>1, Together
  <2> QED BY <1>1, <1>2, <2>1
<1>5. Append(r, x)[Len(r) + 1] = x /\ \A i \in 1..Len(r) : Append(r, x)[i] = r[i]
  BY AppendProperties DEF Lists
<1> QED
  BY <1>3, <1>4, <1>5

LEMMA SortedAppend ==
  ASSUME NEW r \in Lists, NEW x \in Entry, NEW d, NEW m, Sorted(d, m, r), Fits(d, x, r)
  PROVE  Sorted(d, m \union {x}, Append(r, x))
<1> DEFINE a == Append(r, x)
<1>1. /\ Len(r) \in Nat /\ DOMAIN r = 1..Len(r) /\ DOMAIN a = 1..(Len(r) + 1)
      /\ a[Len(r) + 1] = x /\ \A i \in 1..Len(r) : a[i] = r[i]
  <2>1. /\ a \in Lists /\ Len(a) = Len(r) + 1
        /\ a[Len(r) + 1] = x /\ \A i \in 1..Len(r) : a[i] = r[i]
    BY AppendToList
  <2> HIDE DEF a
  <2> QED BY <2>1, ElementsOf
<1> HIDE DEF a
<1>2. ASSUME NEW i \in 1..Len(r)
      PROVE  a[i] \in m \union {x} /\ d[a[i]] \ Generated \subseteq Above(a, i)
  <2>1. a[i] = r[i] /\ \A j \in 1..(i - 1) : a[j] = r[j]
    BY <1>1
  <2>2. Above(a, i) = Above(r, i)
    BY <2>1 DEF Above
  <2> QED BY <1>1, <2>1, <2>2 DEF Sorted
<1>3. d[x] \ Generated \subseteq Above(a, Len(r) + 1)
  <2>1. Defined(r) \subseteq Above(a, Len(r) + 1)
    BY <1>1 DEF Above, Defined, Entries
  <2> QED BY <2>1 DEF Fits
<1>4. ASSUME NEW i \in DOMAIN a
      PROVE  a[i] \in m \union {x} /\ d[a[i]] \ Generated \subseteq Above(a, i)
  <2>1. CASE i \in 1..Len(r)
    BY <1>2, <2>1
  <2>2. CASE i = Len(r) + 1
    BY <1>1, <1>3, <2>2
  <2> QED BY <1>1, <2>1, <2>2
<1> QED
  BY <1>4 DEF Sorted, a

-----------------------------------------------------------------------------
\* The steps that leave the lists as they are.

LEMMA InitIsOK == Init => IInv
<1> SUFFICES ASSUME Init PROVE IInv
  OBVIOUS
<1> USE DEF Init
<1> DEFINE K == {"user", "again"}
<1>1. equations \in Seq((Name \ Generated) \X K) /\ IsInjective(equations)
  BY NetlistsAssumption
<1>2. /\ Len(equations) \in Nat /\ DOMAIN equations = 1..Len(equations)
      /\ \A i \in 1..Len(equations) : equations[i] \in (Name \ Generated) \X K
  BY <1>1
<1>3. \A e \in (Name \ Generated) \X K : /\ e \in Entry /\ Var(e) \notin Generated
                                         /\ e[2] # "sweep" /\ e[2] # "data"
  BY DEF Entry, Kind, Var
<1>4. equations \in Lists
  BY <1>1, <1>2, <1>3 DEF Lists
<1>5. /\ All = Entries(equations)
      /\ \A e \in All : Var(e) \notin Generated /\ e[2] # "sweep" /\ e[2] # "data"
  <2>1. All = Entries(equations)
    BY EmptyList DEF All
  <2> HIDE DEF Init
  <2> QED BY <1>2, <1>3, <2>1 DEF Entries
<1>6. uses \in [Name -> SUBSET Name] /\ swept \in SUBSET Name /\ dataset \in SUBSET Name
      /\ (swept \union dataset) \intersect Generated = {}
  BY UseTablesAssumption, VariablesAssumption
<1>7. TypeOK
  <2>1. 0 \in 0..Runs /\ <<>> \in Seq(Entry) /\ 1 \in 1..(Len(equations) + 1)
    BY <1>2, RunsAssumption
  <2>2. /\ [e \in Entry |-> {}] \in [Entry -> SUBSET Name]
        /\ [e \in Entry |-> 0] \in [Entry -> Nat]
    OBVIOUS
  <2> QED BY <1>4, <1>6, <2>1, <2>2 DEF TypeOK, Lists
<1>8. ListsOK
  BY <1>1, <1>5, <1>6, EmptyList DEF ListsOK
<1>9. KindsOK
  BY <1>5 DEF KindsOK
<1>10. HeadOK /\ DepsOK /\ OrderOK /\ ValuesOK
  BY EmptyList DEF HeadOK, DepsOK, OrderOK, ValuesOK
<1>11. UniqueOK
  BY <1>2, <1>4, ElementsOf DEF UniqueOK, DoublesAreNew
<1>12. GroundedOK
  BY <1>5 DEF GroundedOK, Grounded, Sure
<1> QED
  BY <1>7, <1>8, <1>9, <1>10, <1>11, <1>12 DEF IInv

LEMMA StutterIsOK == IInv /\ UNCHANGED vars => IInv'
<1> SUFFICES ASSUME IInv, UNCHANGED vars PROVE IInv'
  OBVIOUS
<1>1. All' = All
  BY DEF vars, All
<1>2. TypeOK'
  BY DEF IInv, vars, input, flags, TypeOK
<1>3. ListsOK' /\ KindsOK' /\ UniqueOK'
  BY <1>1 DEF IInv, vars, input, flags, ListsOK, KindsOK, UniqueOK
<1>4. HeadOK' /\ GroundedOK' /\ OrderOK' /\ DepsOK' /\ ValuesOK'
  BY <1>1 DEF IInv, vars, input, flags, HeadOK, Checking, GroundedOK, OrderOK, DepsOK, ValuesOK
<1> QED
  BY <1>2, <1>3, <1>4 DEF IInv

\* What is asked for follows from what the equation at hand uses.
LEMMA BelowFollows ==
  ASSUME IInv, Turn
  PROVE  /\ This \in Entries(equations) /\ This \in Entry /\ Below \subseteq Name
         /\ LeadsTo(uses, All, Used(uses, This), Below)
<1>1. equations \in Lists /\ deps \in [Entry -> SUBSET Name] /\ at \in 1..Len(equations)
      /\ pc = "cycles" /\ at <= Len(equations)
  BY ElementsOf DEF IInv, TypeOK, Turn, Lists
<1>2. This \in Entries(equations) /\ This \in Entry
  BY <1>1, ElementsOf DEF This
<1>3. \A S : \A c \in Children(S) : c \in Entries(equations) /\ Var(c) \in S
  BY <1>1, ChildrenAreDefined
<1>4. Below \subseteq Name
  <2>1. \A c \in Children(Asking) : deps[c] \subseteq Name
    BY <1>1, <1>3, ElementsOf
  <2> QED BY <2>1 DEF Below
<1>5. ASSUME NEW T \in SUBSET Name, Closed(uses, All, T), Used(uses, This) \subseteq T
      PROVE  Below \subseteq T
  <2>1. deps[This] \subseteq T
    BY <1>1, <1>2, <1>5 DEF IInv, DepsOK, LeadsTo, All
  <2>2. asked \subseteq T
    BY <1>1, <1>5 DEF IInv, DepsOK, LeadsTo, This
  <2>3. Asking \subseteq T
    BY <2>1, <2>2 DEF Asking
  <2>4. ASSUME NEW c \in Children(Asking) PROVE deps[c] \subseteq T
    <3>1. c \in All /\ Var(c) \in T
      BY <1>3, <2>3 DEF All
    <3>2. Used(uses, c) \subseteq T
      BY <1>5, <3>1 DEF Closed
    <3> QED BY <1>1, <1>5, <3>1, <3>2 DEF IInv, DepsOK, LeadsTo
  <2> QED BY <2>4 DEF Below
<1> QED
  BY <1>2, <1>4, <1>5 DEF LeadsTo

LEMMA RecurseDeeperIsOK == IInv /\ RecurseDeeper => IInv'
<1> SUFFICES ASSUME IInv, RecurseDeeper PROVE IInv'
  OBVIOUS
<1>1. Turn /\ pc = "cycles"
  BY DEF RecurseDeeper, Turn
<1>2. /\ This \in Entry /\ Below \subseteq Name
      /\ LeadsTo(uses, All, Used(uses, equations[at]), Below)
  BY <1>1, BelowFollows DEF This
<1>3. /\ cyclic' = cyclic \union {This} /\ asked' = Below
      /\ UNCHANGED <<input, stage, run, pc, equations, root, head, at, deps, counted, marked,
                     errors, evaluated>>
  BY DEF RecurseDeeper
<1>4. All' = All
  BY <1>3 DEF All
<1>5. TypeOK'
  BY <1>2, <1>3 DEF IInv, TypeOK, input
<1>6. ListsOK' /\ KindsOK' /\ UniqueOK'
  BY <1>3, <1>4 DEF IInv, ListsOK, KindsOK, UniqueOK, input
<1>7. HeadOK' /\ OrderOK' /\ GroundedOK' /\ ValuesOK'
  BY <1>3, <1>4 DEF IInv, HeadOK, Checking, OrderOK, GroundedOK, ValuesOK, input
<1>8. DepsOK'
  BY <1>2, <1>3, <1>4 DEF IInv, DepsOK, input
<1> QED
  BY <1>5, <1>6, <1>7, <1>8 DEF IInv

LEMMA CycleFoundIsOK == IInv /\ CycleFound => IInv'
<1> SUFFICES ASSUME IInv, CycleFound PROVE IInv'
  OBVIOUS
<1>1. Turn /\ pc = "cycles" /\ at <= Len(equations)
  BY DEF CycleFound, Turn
<1>2. This \in Entry
  BY <1>1, BelowFollows
<1>3. /\ cyclic' \subseteq cyclic \union {This} /\ errors' = TRUE /\ at' = at + 1 /\ asked' = {}
      /\ UNCHANGED <<input, stage, run, pc, equations, root, head, deps, counted, marked,
                     evaluated>>
  BY DEF CycleFound
<1>4. All' = All
  BY <1>3 DEF All
<1>5. TypeOK'
  BY <1>1, <1>2, <1>3, ElementsOf DEF IInv, TypeOK, input, Lists
<1>6. ListsOK' /\ KindsOK' /\ UniqueOK'
  BY <1>1, <1>3, <1>4 DEF IInv, ListsOK, KindsOK, UniqueOK, input
<1>7. HeadOK' /\ OrderOK' /\ GroundedOK' /\ ValuesOK'
  BY <1>1, <1>3, <1>4 DEF IInv, HeadOK, Checking, OrderOK, GroundedOK, ValuesOK, input
<1>8. DepsOK'
  BY <1>1, <1>3, <1>4 DEF IInv, DepsOK, LeadsTo, input
<1> QED
  BY <1>5, <1>6, <1>7, <1>8 DEF IInv

LEMMA NoCycleFoundIsOK == IInv /\ NoCycleFound => IInv'
<1> SUFFICES ASSUME IInv, NoCycleFound PROVE IInv'
  OBVIOUS
<1>1. Turn /\ pc = "cycles" /\ at <= Len(equations)
  BY DEF NoCycleFound, Turn
<1>2. /\ This \in Entry /\ Below \subseteq Name
      /\ LeadsTo(uses, All, Used(uses, This), Below)
  BY <1>1, BelowFollows
<1>3. /\ deps' = [deps EXCEPT ![This] = deps[This] \union Below] /\ at' = at + 1 /\ asked' = {}
      /\ UNCHANGED <<input, stage, run, pc, equations, root, head, cyclic, counted, marked,
                     errors, evaluated>>
  BY DEF NoCycleFound
<1>4. All' = All /\ All \subseteq Entry
  BY <1>3, ElementsOf DEF All, IInv, TypeOK, Lists
<1>5. TypeOK'
  BY <1>1, <1>2, <1>3, ElementsOf DEF IInv, TypeOK, input, Lists
<1>6. ListsOK' /\ KindsOK' /\ UniqueOK'
  BY <1>1, <1>3, <1>4 DEF IInv, ListsOK, KindsOK, UniqueOK, input
<1>7. HeadOK' /\ GroundedOK' /\ ValuesOK'
  BY <1>1, <1>3, <1>4 DEF IInv, HeadOK, Checking, GroundedOK, ValuesOK, input
<1>8. OrderOK'
  BY <1>1, <1>3, EmptyList DEF IInv, ListsOK, OrderOK
<1>9. ASSUME NEW e \in All
      PROVE  Used(uses, e) \subseteq deps'[e] /\ LeadsTo(uses, All, Used(uses, e), deps'[e])
  <2>1. deps \in [Entry -> SUBSET Name] /\ e \in Entry
    BY <1>4 DEF IInv, TypeOK
  <2>2. Used(uses, e) \subseteq deps[e] /\ LeadsTo(uses, All, Used(uses, e), deps[e])
    BY <1>1 DEF IInv, DepsOK
  <2>3. CASE e # This
    BY <1>3, <2>1, <2>2, <2>3
  <2>4. CASE e = This
    <3>1. deps'[e] = deps[e] \union Below
      BY <1>3, <2>1, <2>4
    <3> QED BY <1>2, <2>2, <2>4, <3>1 DEF LeadsTo
  <2> QED BY <2>3, <2>4
<1>10. DepsOK'
  BY <1>1, <1>3, <1>4, <1>9 DEF DepsOK, LeadsTo, input
<1> QED
  BY <1>5, <1>6, <1>7, <1>8, <1>10 DEF IInv

LEMMA CyclesDoneIsOK == IInv /\ CyclesDone => IInv'
<1> SUFFICES ASSUME IInv, CyclesDone PROVE IInv'
  OBVIOUS
<1>1. /\ pc = "cycles" /\ root = <<>> /\ pc' = "reorder" /\ at' = 1 /\ root' = <<>>
      /\ UNCHANGED <<input, stage, run, equations, head, asked, flags, errors, evaluated>>
  BY DEF CyclesDone, IInv, ListsOK
<1>2. All' = All
  BY <1>1 DEF All
<1>3. TypeOK'
  BY <1>1, ElementsOf DEF IInv, TypeOK, input, flags, Lists
<1>4. ListsOK' /\ KindsOK' /\ UniqueOK'
  BY <1>1, <1>2 DEF IInv, ListsOK, KindsOK, UniqueOK, input, flags
<1>5. HeadOK' /\ GroundedOK' /\ ValuesOK' /\ DepsOK'
  BY <1>1, <1>2 DEF IInv, HeadOK, Checking, GroundedOK, ValuesOK, DepsOK, input, flags
<1>6. OrderOK'
  BY <1>1, EmptyList DEF OrderOK
<1> QED
  BY <1>3, <1>4, <1>5, <1>6 DEF IInv

LEMMA PassIsOK == IInv /\ Pass => IInv'
<1> SUFFICES ASSUME IInv, Pass PROVE IInv'
  OBVIOUS
<1>1. /\ pc = "reorder" /\ at <= Len(equations) /\ ~Evaluable(equations[at], root) /\ at' = at + 1
      /\ UNCHANGED <<input, stage, run, pc, equations, root, head, asked, flags, errors,
                     evaluated>>
  BY DEF Pass
<1>2. All' = All
  BY <1>1 DEF All
<1>3. /\ at \in 1..Len(equations) /\ equations \in Lists /\ root \in Lists
      /\ deps \in [Entry -> SUBSET Name] /\ Len(equations) \in Nat
  BY <1>1, ElementsOf DEF IInv, TypeOK, Lists
<1>4. Defined(root) \intersect Generated = {}
  BY DEF IInv, ListsOK, All, Defined
<1>5. ~Fits(deps, equations[at], root)
  BY <1>1, <1>3, <1>4, ElementsOf, EvaluableIsFits
<1>6. TypeOK'
  BY <1>1, <1>3 DEF IInv, TypeOK, input, flags
<1>7. ListsOK' /\ KindsOK' /\ UniqueOK'
  BY <1>1, <1>2 DEF IInv, ListsOK, KindsOK, UniqueOK, input, flags
<1>8. HeadOK' /\ GroundedOK' /\ ValuesOK' /\ DepsOK'
  BY <1>1, <1>2 DEF IInv, HeadOK, Checking, GroundedOK, ValuesOK, DepsOK, input, flags
<1>9. OrderOK'
  <2>1. \A i \in 1..((at + 1) - 1) : i \in 1..(at - 1) \/ i = at
    BY <1>3
  <2> QED BY <1>1, <1>5, <2>1 DEF IInv, OrderOK, flags
<1> QED
  BY <1>6, <1>7, <1>8, <1>9 DEF IInv

LEMMA EvaluateIsOK == IInv /\ Evaluate => IInv'
<1> SUFFICES ASSUME IInv, Evaluate PROVE IInv'
  OBVIOUS
<1>1. /\ pc = "evaluate" /\ at <= Len(equations) /\ at' = at + 1
      /\ evaluated' = evaluated \union ({equations[at]} \intersect marked)
      /\ UNCHANGED <<input, stage, run, pc, equations, root, head, asked, flags, errors>>
  BY DEF Evaluate
<1>2. All' = All
  BY <1>1 DEF All
<1>3. at \in 1..Len(equations) /\ equations \in Lists /\ Len(equations) \in Nat
  BY <1>1, ElementsOf DEF IInv, TypeOK, Lists
<1>4. TypeOK'
  <2>1. at' \in Nat /\ at' \in 1..(Len(equations) + 1)
    BY <1>1, <1>3
  <2> QED
    BY <1>1, <2>1 DEF IInv, TypeOK, input, flags
<1>5. ListsOK' /\ KindsOK' /\ UniqueOK'
  BY <1>1, <1>2 DEF IInv, ListsOK, KindsOK, UniqueOK, input, flags
<1>6. HeadOK' /\ GroundedOK' /\ OrderOK' /\ DepsOK'
  BY <1>1, <1>2 DEF IInv, HeadOK, Checking, GroundedOK, OrderOK, DepsOK, input, flags
<1>7. ValuesOK'
  <2>1. 1..((at + 1) - 1) = 1..(at - 1) \union {at}
    BY <1>3
  <2>2. {equations[j] : j \in 1..((at + 1) - 1)}
          = {equations[j] : j \in 1..(at - 1)} \union {equations[at]}
    BY <2>1
  <2> QED BY <1>1, <2>2 DEF IInv, ValuesOK, input, flags
<1> QED
  BY <1>4, <1>5, <1>6, <1>7 DEF IInv

LEMMA EvaluatedIsOK == IInv /\ Evaluated => IInv'
<1> SUFFICES ASSUME IInv, Evaluated PROVE IInv'
  OBVIOUS
<1>1. /\ pc = "evaluate" /\ pc' = "checked"
      /\ UNCHANGED <<input, stage, run, equations, root, head, at, asked, flags, errors, evaluated>>
  BY DEF Evaluated
<1>2. All' = All
  BY <1>1 DEF All
<1>3. TypeOK'
  BY <1>1 DEF IInv, TypeOK, input, flags
<1>4. ListsOK' /\ KindsOK'
  BY <1>1, <1>2 DEF IInv, ListsOK, KindsOK, input, flags
<1>5. HeadOK' /\ GroundedOK' /\ OrderOK' /\ DepsOK' /\ ValuesOK'
  BY <1>1, <1>2 DEF IInv, HeadOK, Checking, GroundedOK, OrderOK, DepsOK, ValuesOK, input, flags
<1>6. UniqueOK'
  BY <1>1, <1>2 DEF IInv, UniqueOK, input, flags
<1> QED
  BY <1>3, <1>4, <1>5, <1>6 DEF IInv

LEMMA FinishIsOK == IInv /\ Finish => IInv'
<1> SUFFICES ASSUME IInv, Finish PROVE IInv'
  OBVIOUS
<1>1. /\ pc = "checked" /\ stage = "dataset" /\ pc' = "done"
      /\ UNCHANGED <<input, stage, run, equations, root, head, at, asked, flags, errors, evaluated>>
  BY DEF Finish
<1>2. All' = All
  BY <1>1 DEF All
<1>3. TypeOK'
  BY <1>1 DEF IInv, TypeOK, input, flags
<1>4. ListsOK' /\ KindsOK' /\ UniqueOK'
  BY <1>1, <1>2 DEF IInv, ListsOK, KindsOK, UniqueOK, input, flags
<1>5. HeadOK' /\ GroundedOK' /\ OrderOK' /\ DepsOK' /\ ValuesOK'
  BY <1>1, <1>2 DEF IInv, HeadOK, Checking, GroundedOK, OrderOK, DepsOK, ValuesOK, input, flags
<1> QED
  BY <1>3, <1>4, <1>5 DEF IInv

-----------------------------------------------------------------------------
\* The steps of the reordering.

\* What an action of the reordering knows.
LEMMA WhileReordering ==
  ASSUME IInv, pc = "reorder"
  PROVE  /\ equations \in Lists /\ root \in Lists /\ root \o equations \in Lists
         /\ Entries(root \o equations) = All /\ IsInjective(root \o equations)
         /\ Len(equations) \in Nat /\ at \in 1..(Len(equations) + 1)
         /\ uses \in [Name -> SUBSET Name] /\ deps \in [Entry -> SUBSET Name]
         /\ \A e \in All : /\ e \in Entry /\ Var(e) \notin Generated
                           /\ Used(uses, e) \subseteq deps[e]
                           /\ LeadsTo(uses, All, Used(uses, e), deps[e])
                           /\ (Free(uses, e) <=> Fits(deps, e, <<>>))
         /\ \A e \in All : Evaluable(e, root) <=> Fits(deps, e, root)
         /\ Entries(root) \subseteq marked
<1>1. /\ equations \in Lists /\ root \in Lists /\ Len(equations) \in Nat
      /\ at \in 1..(Len(equations) + 1)
      /\ uses \in [Name -> SUBSET Name] /\ deps \in [Entry -> SUBSET Name]
  BY ElementsOf DEF IInv, TypeOK, Lists
<1>2. /\ root \o equations \in Lists /\ Entries(root \o equations) = All
      /\ IsInjective(root \o equations)
  BY <1>1, Together DEF IInv, ListsOK, All
<1>3. \A e \in All : /\ e \in Entry /\ Var(e) \notin Generated
                     /\ Used(uses, e) \subseteq deps[e]
                     /\ LeadsTo(uses, All, Used(uses, e), deps[e])
  BY <1>1, ElementsOf DEF IInv, ListsOK, DepsOK, All
<1>4. \A e \in All : Free(uses, e) <=> Fits(deps, e, <<>>)
  BY <1>1, <1>3, FreeIsFirst, EmptyList DEF Fits
<1>5. \A e \in All : Evaluable(e, root) <=> Fits(deps, e, root)
  <2>1. Defined(root) \intersect Generated = {}
    BY <1>3 DEF Defined, All
  <2> QED BY <1>1, <1>3, <2>1, EvaluableIsFits
<1>6. Entries(root) \subseteq marked
  BY DEF IInv, OrderOK, Sorted, Entries
<1> QED
  BY <1>1, <1>2, <1>3, <1>4, <1>5, <1>6

LEMMA MoveIsOK == IInv /\ Move => IInv'
<1> SUFFICES ASSUME IInv, Move PROVE IInv'
  OBVIOUS
<1> DEFINE x == equations[at]
           r == Append(root, x)
           q == Without(equations, at)
<1>1. /\ pc = "reorder" /\ at <= Len(equations) /\ Evaluable(x, root)
      /\ root' = r /\ marked' = marked \union {x} /\ equations' = q /\ at' = 1
      /\ UNCHANGED <<input, stage, run, pc, head, asked, deps, cyclic, counted, errors, evaluated>>
  BY DEF Move
<1>2. /\ at \in 1..Len(equations) /\ equations \in Lists /\ root \in Lists
      /\ deps \in [Entry -> SUBSET Name] /\ uses \in [Name -> SUBSET Name]
      /\ Len(equations) \in Nat /\ x \in Entries(equations) /\ x \in Entry /\ x \in All
      /\ IsInjective(root) /\ IsInjective(equations)
      /\ Entries(root) \intersect Entries(equations) = {}
  BY <1>1, WhileReordering, ElementsOf DEF IInv, ListsOK, All
<1>3. Fits(deps, x, root)
  BY <1>1, <1>2, WhileReordering
<1>4. /\ q \in Lists /\ Len(q) = Len(equations) - 1 /\ IsInjective(q)
      /\ Entries(q) = Entries(equations) \ {x}
      /\ \A k \in 1..(Len(equations) - 1) :
           q[k] = IF k < at THEN equations[k] ELSE equations[k + 1]
  BY <1>2, WithoutList, WithoutRest
<1>5. /\ r \in Lists /\ Entries(r) = Entries(root) \union {x} /\ IsInjective(r)
      /\ Len(r) = Len(root) + 1 /\ r[Len(root) + 1] = x /\ \A i \in 1..Len(root) : r[i] = root[i]
  BY <1>2, AppendToList
<1> HIDE DEF x, r, q
<1>6. All' = All
  BY <1>1, <1>2, <1>4, <1>5 DEF All
<1>7. TypeOK'
  <2>1. 1 \in 1..(Len(q) + 1)
    BY <1>2, <1>4
  <2> QED BY <1>1, <1>2, <1>4, <1>5, <2>1 DEF IInv, TypeOK, input, Lists
<1>8. ListsOK'
  <2>1. Entries(r) \intersect Entries(q) = {}
    BY <1>2, <1>4, <1>5
  <2> QED BY <1>1, <1>4, <1>5, <1>6, <2>1 DEF IInv, ListsOK, input
<1>9. KindsOK' /\ UniqueOK'
  BY <1>1, <1>6 DEF IInv, KindsOK, UniqueOK, input
<1>10. Free(uses, r[1]) /\ r # <<>>
  <2>1. r # <<>> /\ Len(root) \in Nat
    BY <1>2, <1>5, ElementsOf
  <2>2. CASE root = <<>>
    <3>1. r[1] = x
      BY <1>5, <2>2
    <3> QED BY <1>1, <1>2, <1>3, <2>1, <2>2, <3>1, WhileReordering
  <2>3. CASE root # <<>>
    <3>1. r[1] = root[1]
      BY <1>2, <1>5, <2>1, <2>3, ElementsOf
    <3> QED BY <2>1, <2>3, <3>1 DEF IInv, HeadOK
  <2> QED BY <2>2, <2>3
\* The first equation stays the first: if the new list is empty, it is moved.
<1>11. ASSUME stage # "netlist" PROVE (r \o q) \in Lists /\ Begin(r \o q) = Begin(root \o equations)
  <2> DEFINE a == r \o q
             b == root \o equations
  <2>1. a \in Lists /\ b \in Lists /\ Len(root) \in Nat /\ Len(r) \in Nat
    BY <1>1, <1>2, <1>4, <1>5, Together, ElementsOf
  <2>2. a # <<>> /\ a[1] = r[1]
    <3>1. /\ Len(r \o q) = Len(r) + Len(q) /\ Len(q) \in Nat
          /\ \A i \in 1..Len(r) : (r \o q)[i] = r[i]
      <4>1. Len(q) \in Nat
        BY <1>4, ElementsOf
      <4>2. /\ Len(r \o q) = Len(r) + Len(q) /\ \A i \in 1..Len(r) : (r \o q)[i] = r[i]
        BY <1>4, <1>5, Together
      <4> QED BY <4>1, <4>2
    <3>2. 1 \in 1..Len(r) /\ Len(a) # 0
      BY <1>5, <2>1, <3>1
    <3>3. Len(a) # 0 /\ a[1] = r[1]
      BY <3>1, <3>2
    <3> HIDE DEF a
    <3> QED BY <3>3, EmptyList
  <2>3. b # <<>> /\ b[1] = r[1]
    <3>1. CASE root = <<>>
      <4>1. b = equations /\ r[1] = x
        BY <1>2, <1>5, <3>1, EmptyList
      <4>2. FreeFirst(uses, equations)
        BY <1>1, <1>11, <3>1 DEF IInv, HeadOK, Checking
      <4>3. Free(uses, x)
        BY <1>1, <1>2, <1>3, <3>1, WhileReordering
      <4>4. Free(uses, equations[1]) /\ equations # <<>> /\ equations[1] \in All
        BY <1>2, <4>2, <4>3, ElementsOf DEF FreeFirst, All
      <4>5. Fits(deps, equations[1], root)
        BY <1>1, <3>1, <4>4, WhileReordering
      <4>6. ~(1 \in 1..(at - 1))
        BY <1>1, <4>5 DEF IInv, OrderOK
      <4>7. at = 1
        BY <1>2, <4>6
      <4> QED BY <4>1, <4>4, <4>7 DEF x
    <3>2. CASE root # <<>>
      <4>1. 1 \in 1..Len(root)
        BY <1>2, <2>1, <3>2, ElementsOf
      <4>2. b[1] = root[1] /\ Len(b) = Len(root) + Len(equations)
        BY <1>2, <4>1, Together
      <4>3. Len(b) # 0
        BY <1>2, <4>1, <4>2
      <4> HIDE DEF b
      <4> QED BY <1>5, <4>1, <4>2, <4>3, EmptyList
    <3> QED BY <3>1, <3>2
  <2> HIDE DEF a, b
  <2>4. Begin(a) = Begin(b)
    BY <2>1, <2>2, <2>3, BeginIsFirst
  <2> QED BY <2>1, <2>4 DEF a, b
<1>12. HeadOK'
  <2>1. stage # "netlist" => head = Begin(root \o equations)
    BY <1>1 DEF IInv, HeadOK, Checking
  <2> QED BY <1>1, <1>10, <1>11, <2>1 DEF HeadOK, Checking, input
<1>13. DepsOK'
  BY <1>1, <1>6 DEF IInv, DepsOK, input
<1>14. OrderOK'
  <2>1. Sorted(deps, marked \union {x}, r)
    BY <1>2, <1>3, SortedAppend DEF IInv, OrderOK, r
  <2> QED BY <1>1, <2>1 DEF OrderOK
<1>15. GroundedOK'
  <2>1. /\ Used(uses, x) \subseteq deps[x] /\ Entries(root) \subseteq All
        /\ Entries(root) \subseteq marked
    BY <1>1, <1>2, WhileReordering DEF All
  <2>2. Grounded(uses, Sure(All, marked))
    BY DEF IInv, GroundedOK
  <2>3. Grounded(uses, Sure(All, marked \union {x}))
    BY <1>2, <1>3, <2>1, <2>2, MoveIsGrounded
  <2> QED BY <1>1, <1>6, <2>3 DEF GroundedOK, input
<1>16. ValuesOK'
  BY <1>1 DEF ValuesOK
<1> QED
  BY <1>7, <1>8, <1>9, <1>12, <1>13, <1>14, <1>15, <1>16 DEF IInv

\* A solver whose check failed hands back the whole list, too.
LEMMA FromHeadIsAll ==
  ASSUME NEW s \in Lists, IsInjective(s), head = Begin(s)
  PROVE  FromHead(s) = s
<1>1. CASE s = <<>>
  BY <1>1, BeginIsFirst DEF FromHead
<1>2. CASE s # <<>>
  <2>1. head # <<>> /\ head[1] = s[1]
    <3>1. <<s[1]>>[1] = s[1]
      OBVIOUS
    <3> QED BY <1>2, <3>1, BeginIsFirst
  <2>2. Len(s) \in Nat /\ 1 \in DOMAIN s /\ \A i \in 1..Len(s) : s[i] \in Entry
    BY <1>2, ElementsOf
  <2>3. (CHOOSE i \in DOMAIN s : s[i] = head[1]) = 1
    BY <2>1, <2>2 DEF IsInjective
  <2>4. FromHead(s) = SubSeq(s, 1, Len(s))
    BY <2>1, <2>3 DEF FromHead
  <2> DEFINE t == SubSeq(s, 1, Len(s))
  <2>5. /\ t \in Seq(Entry) /\ Len(t) = (IF 1 <= Len(s) THEN Len(s) - 1 + 1 ELSE 0)
        /\ \A i \in 1..(Len(s) - 1 + 1) : t[i] = s[1 + i - 1]
    BY <2>2, SubSeqProperties
  <2>6. Len(t) = Len(s) /\ \A i \in 1..Len(t) : t[i] = s[i]
    <3> HIDE DEF t
    <3> QED BY <2>2, <2>5
  <2>7. t = s
    <3> HIDE DEF t
    <3> QED BY <2>5, <2>6, SeqEqual DEF Lists
  <2> QED BY <2>4, <2>7
<1> QED
  BY <1>1, <1>2

\* So no check loses an equation.
LEMMA ReorderedIsWhole ==
  ASSUME IInv, Reordered
  PROVE  equations' = root \o equations
<1>1. CASE stage = "netlist"
  BY <1>1 DEF Reordered
<1>2. CASE stage # "netlist"
  <2>1. pc = "reorder" /\ head = Begin(root \o equations)
    BY <1>2 DEF Reordered, IInv, HeadOK, Checking
  <2>2. FromHead(root \o equations) = root \o equations
    BY <2>1, WhileReordering, FromHeadIsAll
  <2> QED BY <2>2 DEF Reordered
<1> QED
  BY <1>1, <1>2

LEMMA ReorderedIsOK == IInv /\ Reordered => IInv'
<1> SUFFICES ASSUME IInv, Reordered PROVE IInv'
  OBVIOUS
<1> DEFINE l == root \o equations
<1>1. /\ pc = "reorder" /\ at > Len(equations)
      /\ equations' = l /\ root' = <<>> /\ at' = 1 /\ evaluated' = {}
      /\ pc' \in {"refused", "checked", "evaluate"}
      /\ (pc' = "evaluate" => stage # "netlist" /\ ~errors)
      /\ (pc' = "checked" /\ stage = "netlist" =>
            ~errors /\ swept \intersect Defined(l) = {})
      /\ UNCHANGED <<input, stage, run, head, asked, flags, errors>>
  BY ReorderedIsWhole DEF Reordered
<1>2. /\ l \in Lists /\ Entries(l) = All /\ IsInjective(l)
      /\ equations \in Lists /\ root \in Lists /\ DOMAIN equations = 1..Len(equations)
      /\ Len(equations) \in Nat /\ at = Len(equations) + 1
      /\ uses \in [Name -> SUBSET Name]
  BY <1>1, WhileReordering, ElementsOf
<1>3. \A i \in DOMAIN equations : ~Fits(deps, equations[i], root)
  BY <1>1, <1>2 DEF IInv, OrderOK
<1> HIDE DEF l
<1>4. All' = All
  BY <1>1, <1>2, EmptyList DEF All
<1>5. TypeOK'
  <2>1. Len(l) \in Nat
    BY <1>2, ElementsOf
  <2>2. 1 \in 1..(Len(l) + 1)
    BY <2>1
  <2> QED BY <1>1, <1>2, <2>2, EmptyList DEF IInv, TypeOK, input, flags, Lists
<1>6. ListsOK'
  BY <1>1, <1>2, <1>4, EmptyList DEF IInv, ListsOK, input
<1>7. KindsOK'
  BY <1>1, <1>4 DEF IInv, KindsOK, input, flags
<1>8. HeadOK'
  <2>1. FreeFirst(uses, l)
    <3>1. CASE root = <<>>
      <4>1. l = equations /\ Entries(equations) \subseteq All
        BY <1>2, <3>1, EmptyList DEF l, All
      <4>2. \A e \in Entries(equations) : ~Free(uses, e)
        BY <1>1, <1>3, <3>1, <4>1, WhileReordering DEF Entries
      <4> QED BY <4>1, <4>2 DEF FreeFirst
    <3>2. CASE root # <<>>
      <4>1. 1 \in 1..Len(root)
        BY <1>2, <3>2, ElementsOf
      <4>2. l[1] = root[1]
        BY <1>2, <4>1, Together DEF l
      <4> QED BY <3>2, <4>2 DEF IInv, HeadOK, FreeFirst
    <3> QED BY <3>1, <3>2
  <2> QED BY <1>1, <2>1 DEF HeadOK, Checking, input
<1>9. UniqueOK'
  BY <1>1, <1>4 DEF IInv, UniqueOK, input
<1>10. DepsOK' /\ OrderOK'
  BY <1>1, EmptyList DEF DepsOK, OrderOK
<1>11. GroundedOK'
  BY <1>1, <1>4 DEF IInv, GroundedOK, input, flags
<1>12. ValuesOK'
  <2> SUFFICES ASSUME pc' = "evaluate" PROVE ValuesOK'
    BY DEF ValuesOK
  <2>1. Unique(All)
    BY <1>1 DEF IInv, UniqueOK
  <2>2. /\ \A e \in All : Var(e) \notin Generated
        /\ \A e \in All : Used(uses, e) \subseteq deps[e]
                          /\ LeadsTo(uses, All, Used(uses, e), deps[e])
    BY <1>1, WhileReordering
  <2>3. /\ Sorted(deps, marked, root) /\ Grounded(uses, Sure(All, marked))
        /\ Entries(root) \intersect Entries(equations) = {}
        /\ All = Entries(root) \union Entries(equations)
    BY DEF IInv, OrderOK, GroundedOK, ListsOK, All
  <2>4. /\ \A c \in All : Used(uses, c) \ Generated \subseteq Defined(root) => c \in Entries(root)
        /\ Sure(All, marked) \subseteq Entries(root)
        /\ Entries(root) \subseteq marked
    <3>1. EndOfReordering(uses, deps, marked, root, equations, All)
      BY <1>3, <2>1, <2>2, <2>3 DEF EndOfReordering
    <3>2. root \in Lists /\ equations \in Lists
      BY <1>2
    <3> QED BY ONLY <3>1, <3>2, ReorderingIsComplete, Zenon
  <2>5. InOrder(uses, marked, l) /\ NoneLeft(uses, marked, Entries(l))
    BY <1>2, <2>2, <2>3, <2>4, ReorderingIsRight DEF l
  <2> QED BY <1>1, <2>5 DEF ValuesOK, input, flags
<1> QED
  BY <1>5, <1>6, <1>7, <1>8, <1>9, <1>10, <1>11, <1>12 DEF IInv

-----------------------------------------------------------------------------
\* The start of a check.

LEMMA EntriesOfKind ==
  ASSUME NEW S, S \subseteq Name, NEW kind \in Kind
  PROVE  LET w == ListOf(EntryOf(kind, S))
         IN  /\ w \in Lists /\ IsInjective(w) /\ Entries(w) = EntryOf(kind, S)
             /\ \A e \in Entries(w) : e[2] = kind /\ Var(e) \in S /\ e \in Entry
             /\ Unique(Entries(w)) /\ \A v \in S : <<v, kind>> \in Entries(w)
             /\ (w = <<>> <=> S = {})
<1> DEFINE E == EntryOf(kind, S)
           f == [v \in S |-> <<v, kind>>]
           w == ListOf(E)
<1>1. \A e \in E : e[2] = kind /\ Var(e) \in S /\ e \in Entry /\ e = <<Var(e), kind>>
  BY DEF EntryOf, Entry, Var
<1>2. IsFiniteSet(E)
  <2>1. f \in Surjection(S, E)
    BY DEF Surjection, EntryOf
  <2> HIDE DEF f, E
  <2> QED BY <2>1, NamesAreFinite, FS_Surjection
<1>3. \A v \in S : <<v, kind>> \in E
  BY DEF EntryOf
<1> HIDE DEF E, f
<1>4. w \in Seq(E) /\ IsInjective(w) /\ Entries(w) = E
  BY <1>2, ListOfSet
<1> HIDE DEF w
<1>5. w \in Lists
  BY <1>1, <1>4 DEF Lists
<1>6. Unique(E)
  BY <1>1 DEF Unique
<1>7. w = <<>> <=> S = {}
  BY <1>1, <1>3, <1>4, <1>5, ElementsOf
<1> QED
  BY <1>1, <1>3, <1>4, <1>5, <1>6, <1>7 DEF w, E

LEMMA UniqueIsSingle ==
  ASSUME NEW s \in Lists, IsInjective(s), Unique(Entries(s)), NEW i \in DOMAIN s, NEW j \in DOMAIN s,
         Var(s[i]) = Var(s[j])
  PROVE  i = j
BY DEF Unique, IsInjective, Entries

\* Equations of a property are found for variables that have none, and only in
\* the netlist.
LEMMA FoundIsNew ==
  ASSUME equations \in Lists
  PROVE  \E X : /\ X \subseteq Property /\ X \intersect Defined(equations) = {}
                /\ (stage # "netlist" => X = {})
                /\ Found = EntryOf("property", X)
<1>1. CASE stage # "netlist"
  <2>1. Found = EntryOf("property", {})
    BY <1>1 DEF Found, EntryOf
  <2> QED BY <1>1, <2>1
<1>2. CASE stage = "netlist"
  <2> DEFINE X == {v \in Property \ Defined(equations) :
                     \A S \in SUBSET Property : UsedWith(S) \subseteq S => v \in S}
  <2>1. Found = EntryOf("property", X)
    BY <1>2 DEF Found
  <2>2. X \subseteq Property /\ X \intersect Defined(equations) = {}
    OBVIOUS
  <2> HIDE DEF X
  <2> QED BY <1>2, <2>1, <2>2
<1> QED
  BY <1>1, <1>2

\* A check whose counts show no second equation of a variable has none.
LEMMA DoublesAreSeen ==
  ASSUME NEW s \in Lists, IsInjective(s), DoublesAreNew(counted, s),
         \A e \in Entries(s) : ~(Counts(s)[e] > 1)
  PROVE  Unique(Entries(s))
<1> SUFFICES ASSUME NEW i \in DOMAIN s, NEW j \in DOMAIN s, Var(s[i]) = Var(s[j]), i # j
             PROVE  FALSE
  BY DEF Unique, Entries
<1> DEFINE v == Var(s[i])
           T == {k \in DOMAIN s : Var(s[k]) = v}
<1>1. Len(s) \in Nat /\ DOMAIN s = 1..Len(s) /\ \A k \in 1..Len(s) : s[k] \in Entry /\ s[k] \in Entries(s)
  BY ElementsOf
<1>2. T \subseteq Nat /\ T # {}
  BY <1>1
<1>3. PICK n \in T : \A k \in T : n <= k
  <2> HIDE DEF T
  <2> QED BY <1>2, LeastNumber
<1>4. PICK k \in T : n < k
  <2>1. i \in T /\ j \in T /\ (i # n \/ j # n)
    BY <1>1
  <2>2. n \in Nat /\ i \in Nat /\ j \in Nat
    BY <1>1
  <2> HIDE DEF T
  <2> QED BY <1>3, <2>1, <2>2
<1>5. n \in DOMAIN s /\ k \in DOMAIN s /\ Var(s[n]) = v /\ Var(s[k]) = v
  OBVIOUS
<1>6. counted[s[n]] = 0
  BY <1>4, <1>5 DEF DoublesAreNew
<1>7. IsFirst(s, n)
  <2>1. \A m \in 1..(n - 1) : m \notin T /\ m \in DOMAIN s
    <3> HIDE DEF T
    <3>1. n \in 1..Len(s)
      BY <1>1, <1>5
    <3> QED BY <1>1, <1>3, <3>1
  <2> QED BY <1>5, <2>1 DEF IsFirst
<1>8. (CHOOSE m \in DOMAIN s : s[m] = s[n]) = n
  BY <1>5 DEF IsInjective
<1>9. Counts(s)[s[n]] = Count(s, Var(s[n]))
  BY <1>1, <1>5, <1>6, <1>7, <1>8 DEF Counts
<1>10. Count(s, v) > 1
  <2>1. n # k
    BY <1>1, <1>4, <1>5
  <2> QED BY <1>5, <2>1, CountIsNumber
<1> QED
  BY <1>1, <1>5, <1>9, <1>10

LEMMA CollectIsOK == IInv /\ Collect => IInv'
<1> SUFFICES ASSUME IInv, Collect PROVE IInv'
  OBVIOUS
<1>1. /\ equations \in Lists /\ IsInjective(equations) /\ root = <<>> /\ pc = "collect"
      /\ uses \in [Name -> SUBSET Name] /\ counted \in [Entry -> Nat]
      /\ Entries(equations) = All /\ Entries(equations) \subseteq Entry
  BY EmptyList, ElementsOf DEF IInv, TypeOK, ListsOK, Collect, Lists, All
<1>2. PICK X : /\ X \subseteq Property /\ X \intersect Defined(equations) = {}
               /\ (stage # "netlist" => X = {})
               /\ Found = EntryOf("property", X)
  BY <1>1, FoundIsNew
<1> DEFINE w == ListOf(Found)
           l == equations \o w
<1>3. X \subseteq Name /\ X \intersect Generated = {}
  BY <1>2, NamesAssumption, VariablesAssumption
<1>4. /\ w \in Lists /\ IsInjective(w) /\ Unique(Entries(w)) /\ (w = <<>> <=> X = {})
      /\ \A e \in Entries(w) : e[2] = "property" /\ Var(e) \in X /\ e \in Entry
  <2>1. "property" \in Kind
    BY DEF Kind
  <2> QED BY <1>2, <1>3, <2>1, EntriesOfKind
<1> HIDE DEF w
<1>5. Entries(equations) \intersect Entries(w) = {}
  BY <1>2, <1>4 DEF Defined
<1>6. /\ l \in Lists /\ IsInjective(l) /\ Entries(l) = All \union Entries(w)
      /\ Len(equations) \in Nat /\ DOMAIN equations = 1..Len(equations)
      /\ Len(w) \in Nat /\ DOMAIN w = 1..Len(w)
      /\ Len(l) = Len(equations) + Len(w)
      /\ \A i \in 1..(Len(equations) + Len(w)) :
           l[i] = IF i <= Len(equations) THEN equations[i] ELSE w[i - Len(equations)]
  BY <1>1, <1>4, <1>5, Together, ElementsOf
<1>7. stage # "netlist" => l = equations /\ Entries(w) = {}
  BY <1>1, <1>2, <1>4, ConcatEmptySeq, EmptyList DEF Lists
<1>8. DOMAIN l = 1..Len(l) /\ Len(l) \in Nat
  <2> HIDE DEF l
  <2> QED BY <1>6, ElementsOf
<1>9. /\ equations' = l /\ counted' = Counts(l)
      /\ errors' = (Undefined(l) \/ \E e \in Entries(l) : Counts(l)[e] > 1)
      /\ deps' = [e \in Entry |-> Uses(e)]
      /\ pc' = "cycles" /\ at' = 1 /\ asked' = {}
      /\ UNCHANGED <<input, stage, run, root, head, cyclic, marked, evaluated>>
  <2>1. /\ equations' = l /\ counted' = Counts(l)
        /\ errors' = (Undefined(l) \/ \E e \in Entries(l) : counted'[e] > 1)
        /\ deps' = [e \in Entry |-> Uses(e)]
        /\ pc' = "cycles" /\ at' = 1 /\ asked' = {}
        /\ UNCHANGED <<input, stage, run, root, head, cyclic, marked, evaluated>>
    BY DEF Collect, w
  <2> HIDE DEF l
  <2> QED BY <2>1
\* A property has no other equation, hence the doubles are those of the old list.
<1>10. DoublesAreNew(counted, l)
  <2> SUFFICES ASSUME NEW i \in 1..Len(l), NEW j \in 1..Len(l), i < j, Var(l[i]) = Var(l[j])
               PROVE  counted[l[i]] = 0
    BY <1>8 DEF DoublesAreNew
  <2>1. CASE j <= Len(equations)
    <3>1. i \in DOMAIN equations /\ j \in DOMAIN equations
      BY <1>6, <2>1
    <3>2. l[i] = equations[i] /\ l[j] = equations[j]
      BY <1>6, <2>1
    <3> HIDE DEF l
    <3> QED BY <1>1, <3>1, <3>2 DEF IInv, UniqueOK, DoublesAreNew
  <2>2. CASE j > Len(equations)
    <3>1. j - Len(equations) \in DOMAIN w /\ l[j] = w[j - Len(equations)]
      BY <1>6, <2>2
    <3>2. Var(l[j]) \in X
      BY <1>4, <3>1 DEF Entries
    <3>3. CASE i <= Len(equations)
      <4>1. i \in DOMAIN equations /\ l[i] = equations[i]
        BY <1>6, <3>3
      <4>2. Var(l[i]) \in Defined(equations)
        BY <4>1 DEF Defined, Entries
      <4> QED BY <1>2, <3>2, <4>2
    <3>4. CASE i > Len(equations)
      <4>1. i - Len(equations) \in DOMAIN w /\ l[i] = w[i - Len(equations)]
        BY <1>6, <3>4
      <4>2. Var(w[i - Len(equations)]) = Var(w[j - Len(equations)])
        BY <3>1, <4>1
      <4>3. i - Len(equations) = j - Len(equations)
        BY <1>4, <3>1, <4>1, <4>2, UniqueIsSingle
      <4> QED BY <1>6, <4>3
    <3> QED BY <1>6, <3>3, <3>4
  <2> QED BY <1>6, <2>1, <2>2
<1> HIDE DEF l
<1>11. All' = Entries(l)
  BY <1>1, <1>9, EmptyList DEF All
<1>12. \A v : Count(l, v) \in Nat
  BY <1>6, CountIsNumber
<1>13. Counts(l) \in [Entry -> Nat]
  BY <1>1, <1>12 DEF Counts
<1>14. TypeOK'
  <2>1. [e \in Entry |-> Uses(e)] \in [Entry -> SUBSET Name]
    BY <1>1, UsedIsNames, UsesIsUsed
  <2>2. 1 \in 1..(Len(l) + 1)
    BY <1>8
  <2>3. (Undefined(l) \/ \E e \in Entries(l) : Counts(l)[e] > 1) \in BOOLEAN
    OBVIOUS
  <2> QED BY <1>6, <1>9, <1>13, <2>1, <2>2, <2>3 DEF IInv, TypeOK, input, Lists
<1>15. ListsOK'
  <2>1. \A e \in Entries(l) : Var(e) \notin Generated
    BY <1>3, <1>4, <1>6 DEF IInv, ListsOK
  <2> QED BY <1>1, <1>6, <1>9, <1>11, <2>1, EmptyList DEF IInv, ListsOK, input
<1>16. KindsOK'
  <2>1. \A e \in Entries(l) : /\ e[2] = "sweep" => Var(e) \in swept
                              /\ stage # "dataset" => e[2] # "data"
    BY <1>4, <1>6 DEF IInv, KindsOK
  <2>2. ASSUME stage # "dataset", NEW e \in Entry, e[2] = "data" PROVE Counts(l)[e] = 0
    <3>1. e \notin Entries(l) /\ counted[e] = 0
      BY <2>1, <2>2 DEF IInv, KindsOK
    <3> QED BY <3>1 DEF Counts
  <2> QED BY <1>9, <1>11, <2>1, <2>2 DEF KindsOK, input
<1>17. HeadOK'
  <2>1. stage # "netlist" => head = Begin(root \o equations) /\ FreeFirst(uses, equations)
    BY <1>1 DEF IInv, HeadOK, Checking
  <2> QED BY <1>1, <1>7, <1>9, <2>1 DEF HeadOK, Checking, input
<1>18. UniqueOK'
  <2>1. stage = "run" => Unique(Entries(l))
    BY <1>6, <1>7 DEF IInv, UniqueOK
  <2>2. ~errors' => Unique(Entries(l))
    BY <1>6, <1>9, <1>10, DoublesAreSeen
  <2> QED BY <1>9, <1>11, <2>1, <2>2 DEF UniqueOK, input
<1>19. DepsOK'
  <2>1. \A e \in Entries(l) : deps'[e] = Used(uses, e)
    BY <1>6, <1>9, UsesIsUsed, ElementsOf
  <2> QED BY <1>9, <1>11, <2>1 DEF DepsOK, LeadsTo, input
<1>20. OrderOK' /\ ValuesOK'
  BY <1>1, <1>9, EmptyList DEF OrderOK, ValuesOK
<1>21. GroundedOK'
  <2>1. Sure(Entries(l), marked) = Sure(All, marked)
    <3>1. CASE stage # "netlist"
      BY <1>6, <1>7, <3>1
    <3>2. CASE stage = "netlist"
      <4>1. marked = {}
        BY <1>1, <3>2 DEF IInv, KindsOK
      <4> QED BY <1>4, <1>6, <4>1 DEF Sure
    <3> QED BY <3>1, <3>2
  <2> QED BY <1>9, <1>11, <2>1 DEF IInv, GroundedOK, input
<1> QED
  BY <1>14, <1>15, <1>16, <1>17, <1>18, <1>19, <1>20, <1>21 DEF IInv

LEMMA UniqueHasNoDoubles ==
  ASSUME NEW s \in Lists, IsInjective(s), Unique(Entries(s)), NEW k
  PROVE  DoublesAreNew(k, s)
<1>1. DOMAIN s \subseteq Nat
  BY ElementsOf
<1> QED
  BY <1>1, UniqueIsSingle DEF DoublesAreNew

LEMMA StartIsOK ==
  ASSUME IInv, pc = "checked", NEW c \in {"run", "dataset"}, NEW l \in Lists,
         StartCheck(c, l), run' \in 0..Runs, IsInjective(l),
         \A e \in Entries(l) : Var(e) \notin Generated /\ (e[2] = "sweep" => Var(e) \in swept),
         c = "run" => /\ stage # "dataset" /\ Unique(Entries(l))
                      /\ \A e \in Entries(l) : e[2] # "data",
         FreeFirst(uses, l), DoublesAreNew(counted, l), Grounded(uses, Sure(Entries(l), marked))
  PROVE  IInv'
<1>1. /\ stage' = c /\ equations' = l /\ pc' = "collect" /\ at' = 1 /\ errors' = FALSE
      /\ head' = Begin(l) /\ UNCHANGED <<input, root, asked, flags, evaluated>>
  BY DEF StartCheck, Begin
<1>2. root = <<>>
  BY DEF IInv, ListsOK
<1>3. Begin(l) \in Lists /\ Len(l) \in Nat
  BY BeginIsFirst, ElementsOf
<1>4. All' = Entries(l)
  BY <1>1, <1>2, EmptyList DEF All
<1>5. TypeOK'
  <2>1. 1 \in 1..(Len(l) + 1)
    BY <1>3
  <2> QED BY <1>1, <1>3, <2>1 DEF IInv, TypeOK, input, flags, Lists
<1>6. ListsOK'
  BY <1>1, <1>2, <1>4, EmptyList DEF IInv, ListsOK, input
<1>7. KindsOK'
  BY <1>1, <1>4 DEF IInv, KindsOK, input, flags
<1>8. HeadOK'
  BY <1>1, <1>2, EmptyList DEF HeadOK, Checking, input
<1>9. UniqueOK'
  BY <1>1, <1>4 DEF UniqueOK, flags
<1>10. DepsOK' /\ ValuesOK'
  BY <1>1 DEF DepsOK, ValuesOK
<1>11. OrderOK'
  BY <1>1, <1>2, EmptyList DEF OrderOK
<1>12. GroundedOK'
  BY <1>1, <1>4 DEF GroundedOK, input, flags
<1> QED
  BY <1>5, <1>6, <1>7, <1>8, <1>9, <1>10, <1>11, <1>12 DEF IInv

\* What is known between two checks.
LEMMA WhenChecked ==
  ASSUME IInv, pc = "checked"
  PROVE  /\ equations \in Lists /\ IsInjective(equations) /\ Entries(equations) = All
         /\ \A e \in All : /\ e \in Entry /\ Var(e) \notin Generated
                           /\ (e[2] = "sweep" => Var(e) \in swept)
         /\ FreeFirst(uses, equations) /\ Grounded(uses, Sure(All, marked))
         /\ swept \subseteq Name /\ dataset \subseteq Name
         /\ (swept \union dataset) \intersect Generated = {}
         /\ (stage # "dataset" => Unique(All) /\ \A e \in All : e[2] # "data")
<1>1. equations \in Lists /\ Entries(equations) = All
  BY EmptyList DEF IInv, TypeOK, ListsOK, All, Lists
<1>2. \A e \in All : e \in Entry
  BY <1>1, ElementsOf
<1>3. stage # "dataset" => Unique(All)
  BY DEF IInv, TypeOK, UniqueOK
<1> QED
  BY <1>1, <1>2, <1>3 DEF IInv, TypeOK, ListsOK, KindsOK, HeadOK, GroundedOK

\* Equations of given values in front of a list.
LEMMA GivenInFront ==
  ASSUME NEW u, NEW w \in Lists, NEW q \in Lists,
         \A e \in Entries(w) : e[2] \in {"sweep", "data"},
         w = <<>> => FreeFirst(u, q)
  PROVE  FreeFirst(u, w \o q)
<1>1. CASE w = <<>>
  BY <1>1, EmptyList
<1>2. CASE w # <<>>
  <2>1. Len(w) \in Nat /\ 1 \in 1..Len(w) /\ w[1] \in Entries(w)
    BY <1>2, ElementsOf
  <2>2. (w \o q)[1] = w[1]
    BY <2>1, Together
  <2>3. Used(u, w[1]) = {}
    BY <2>1 DEF Used
  <2> QED BY <2>2, <2>3 DEF FreeFirst, Free
<1> QED
  BY <1>1, <1>2

\* Given values may replace other ones of the same variables.
LEMMA GivenIsGrounded ==
  ASSUME NEW u, NEW m, NEW E, NEW W, NEW Q, Grounded(u, Sure(E, m)),
         \A e \in W : e[2] \in {"sweep", "data"},
         Q \subseteq E, \A e \in E \ Q : \E c \in W : Var(c) = Var(e)
  PROVE  Grounded(u, Sure(W \union Q, m))
<1> SUFFICES ASSUME NEW T \in SUBSET Name, Derives(u, Sure(W \union Q, m), T)
             PROVE  \A c \in Sure(W \union Q, m) : Var(c) \in T
  BY DEF Grounded
<1>1. \A c \in W : Var(c) \in T
  <2>1. \A c \in W : Used(u, c) = {} /\ c \in Sure(W \union Q, m)
    BY DEF Used, Sure
  <2> QED BY <2>1 DEF Derives
<1>2. ASSUME NEW c \in Sure(E, m), Used(u, c) \subseteq T PROVE Var(c) \in T
  <2>1. CASE c \in Q
    BY <1>2, <2>1 DEF Sure, Derives
  <2>2. CASE c \notin Q
    BY <1>1, <2>2 DEF Sure
  <2> QED BY <2>1, <2>2
<1>3. Derives(u, Sure(E, m), T)
  BY <1>2 DEF Derives
<1>4. \A c \in Sure(E, m) : Var(c) \in T
  BY <1>3 DEF Grounded
<1> QED
  BY <1>1, <1>4 DEF Sure

LEMMA RunGoesOnIsOK == IInv /\ RunGoesOn => IInv'
<1> SUFFICES ASSUME IInv, RunGoesOn PROVE IInv'
  OBVIOUS
<1>1. /\ pc = "checked" /\ stage = "run" /\ StartCheck("run", equations) /\ run' \in 0..Runs
  BY RunsAssumption DEF RunGoesOn, IInv, TypeOK
<1>2. /\ equations \in Lists /\ IsInjective(equations) /\ Entries(equations) = All
      /\ \A e \in All : /\ e \in Entry /\ Var(e) \notin Generated
                        /\ (e[2] = "sweep" => Var(e) \in swept)
      /\ FreeFirst(uses, equations) /\ Grounded(uses, Sure(All, marked))
      /\ Unique(All) /\ \A e \in All : e[2] # "data"
  BY <1>1, WhenChecked
<1>3. DoublesAreNew(counted, equations)
  BY <1>2, UniqueHasNoDoubles
<1> QED
  BY <1>1, <1>2, <1>3, StartIsOK

LEMMA RunStartsIsOK == IInv /\ RunStarts => IInv'
<1> SUFFICES ASSUME IInv, RunStarts PROVE IInv'
  OBVIOUS
<1> DEFINE w == ListOf(EntryOf("sweep", swept))
           l == w \o equations
<1>1. pc = "checked" /\ stage = "netlist" /\ StartCheck("run", l) /\ run' \in 0..Runs
  BY RunsAssumption DEF RunStarts
<1>2. /\ equations \in Lists /\ IsInjective(equations) /\ Entries(equations) = All
      /\ \A e \in All : /\ e \in Entry /\ Var(e) \notin Generated
                        /\ (e[2] = "sweep" => Var(e) \in swept)
      /\ FreeFirst(uses, equations) /\ Grounded(uses, Sure(All, marked))
      /\ Unique(All) /\ \A e \in All : e[2] # "data"
      /\ swept \subseteq Name /\ swept \intersect Generated = {}
  <2> HIDE DEF l
  <2> QED BY <1>1, WhenChecked
<1>3. /\ w \in Lists /\ IsInjective(w) /\ Unique(Entries(w)) /\ (w = <<>> <=> swept = {})
      /\ \A e \in Entries(w) : e[2] = "sweep" /\ Var(e) \in swept
  <2>1. "sweep" \in Kind
    BY DEF Kind
  <2> QED BY <1>2, <2>1, EntriesOfKind
<1>4. swept \intersect Defined(equations) = {}
  BY <1>1 DEF IInv, UniqueOK
<1> HIDE DEF w
<1>5. \A e \in Entries(w), f \in All : Var(e) # Var(f)
  BY <1>2, <1>3, <1>4 DEF Defined
<1>6. l \in Lists /\ IsInjective(l) /\ Entries(l) = Entries(w) \union All
  <2>1. Entries(w) \intersect Entries(equations) = {}
    BY <1>2, <1>5
  <2> QED BY <1>2, <1>3, <2>1, Together
<1>7. FreeFirst(uses, l)
  BY <1>2, <1>3, GivenInFront
<1> HIDE DEF l
<1>8. Unique(Entries(l))
  BY <1>2, <1>3, <1>5, <1>6 DEF Unique
<1>9. DoublesAreNew(counted, l)
  BY <1>6, <1>8, UniqueHasNoDoubles
<1>10. Grounded(uses, Sure(Entries(l), marked))
  <2>1. \A e \in Entries(w) : e[2] \in {"sweep", "data"}
    BY <1>3
  <2>2. All \subseteq All /\ \A e \in All \ All : \E c \in Entries(w) : Var(c) = Var(e)
    OBVIOUS
  <2>3. Grounded(uses, Sure(Entries(w) \union All, marked))
    BY <1>2, <2>1, <2>2, GivenIsGrounded
  <2> QED BY <1>6, <2>3
<1>11. \A e \in Entries(l) : /\ Var(e) \notin Generated /\ (e[2] = "sweep" => Var(e) \in swept)
                             /\ e[2] # "data"
  BY <1>2, <1>3, <1>6
<1> QED
  BY <1>1, <1>6, <1>7, <1>8, <1>9, <1>10, <1>11, StartIsOK

LEMMA DatasetIsReadIsOK == IInv /\ DatasetIsRead => IInv'
<1> SUFFICES ASSUME IInv, DatasetIsRead PROVE IInv'
  OBVIOUS
<1> DEFINE D == dataset \union swept
           w == ListOf(EntryOf("data", D))
           q == Kept
           l == w \o q
<1>1. pc = "checked" /\ stage = "run" /\ StartCheck("dataset", l) /\ run' \in 0..Runs
  BY DEF DatasetIsRead, IInv, TypeOK
<1>2. /\ equations \in Lists /\ IsInjective(equations) /\ Entries(equations) = All
      /\ \A e \in All : /\ e \in Entry /\ Var(e) \notin Generated
                        /\ (e[2] = "sweep" => Var(e) \in swept)
      /\ FreeFirst(uses, equations) /\ Grounded(uses, Sure(All, marked))
      /\ Unique(All) /\ \A e \in All : e[2] # "data"
      /\ D \subseteq Name /\ D \intersect Generated = {}
  <2> HIDE DEF l
  <2> QED BY <1>1, WhenChecked
<1>3. /\ w \in Lists /\ IsInjective(w) /\ (w = <<>> <=> D = {})
      /\ \A e \in Entries(w) : e[2] = "data" /\ Var(e) \in D /\ e \in Entry
      /\ \A v \in D : <<v, "data">> \in Entries(w)
  <2>1. "data" \in Kind
    BY DEF Kind
  <2> HIDE DEF D
  <2> QED BY <1>2, <2>1, EntriesOfKind
<1>4. /\ q \in Lists /\ IsInjective(q)
      /\ Entries(q) = {e \in All : e[2] # "sweep"}
      /\ (swept = {} => q = equations)
  <2> DEFINE T == {e \in Entry : e[2] # "sweep"}
  <2>1. q = Only(equations, T)
    BY DEF Kept
  <2>2. q \in Lists /\ IsInjective(q) /\ Entries(q) = All \intersect T
    <3> HIDE DEF q, T
    <3> QED BY <1>2, <2>1, EntriesOnce
  <2>3. ASSUME swept = {} PROVE q = equations
    <3>1. Entries(equations) \subseteq T
      BY <1>2, <2>3
    <3> HIDE DEF q, T
    <3> QED BY <1>2, <2>1, <3>1, OnlyAll
  <2>4. All \intersect T = {e \in All : e[2] # "sweep"}
    BY <1>2
  <2> HIDE DEF q, T
  <2> QED BY <2>2, <2>3, <2>4
<1> HIDE DEF w, q
<1>5. Entries(w) \intersect Entries(q) = {}
  BY <1>2, <1>3, <1>4
<1>6. /\ l \in Lists /\ IsInjective(l) /\ Entries(l) = Entries(w) \union Entries(q)
      /\ Len(w) \in Nat /\ DOMAIN w = 1..Len(w) /\ Len(q) \in Nat /\ DOMAIN q = 1..Len(q)
      /\ Len(l) = Len(w) + Len(q)
      /\ \A i \in 1..(Len(w) + Len(q)) : l[i] = IF i <= Len(w) THEN w[i] ELSE q[i - Len(w)]
  <2>1. w \in Lists /\ q \in Lists /\ IsInjective(w) /\ IsInjective(q)
    BY <1>3, <1>4
  <2>2. /\ Len(w) \in Nat /\ DOMAIN w = 1..Len(w)
        /\ Len(q) \in Nat /\ DOMAIN q = 1..Len(q)
    BY <2>1, ElementsOf
  <2> QED BY <1>5, <2>1, <2>2, Together
<1>7. FreeFirst(uses, l)
  <2>1. w = <<>> => FreeFirst(uses, q)
    BY <1>2, <1>3, <1>4
  <2>2. \A e \in Entries(w) : e[2] \in {"sweep", "data"}
    BY <1>3
  <2> QED BY <1>3, <1>4, <2>1, <2>2, GivenInFront
<1> HIDE DEF l
<1>8. DoublesAreNew(counted, l)
  <2>1. DOMAIN l = 1..(Len(w) + Len(q))
    BY <1>6, ElementsOf
  <2> SUFFICES ASSUME NEW i \in 1..(Len(w) + Len(q)), NEW j \in 1..(Len(w) + Len(q)),
                      i < j, Var(l[i]) = Var(l[j])
               PROVE  counted[l[i]] = 0
    BY <2>1 DEF DoublesAreNew
  <2>2. CASE i <= Len(w)
    <3>1. i \in DOMAIN w /\ l[i] = w[i]
      BY <1>6, <2>2
    <3>2. l[i] \in Entry /\ l[i][2] = "data"
      BY <1>3, <3>1 DEF Entries
    <3> QED BY <1>1, <3>2 DEF IInv, KindsOK
  <2>3. CASE i > Len(w)
    <3>1. /\ i - Len(w) \in DOMAIN q /\ l[i] = q[i - Len(w)]
          /\ j - Len(w) \in DOMAIN q /\ l[j] = q[j - Len(w)]
      BY <1>6, <2>3
    <3>2. Unique(Entries(q))
      BY <1>2, <1>4 DEF Unique
    <3>3. Var(q[i - Len(w)]) = Var(q[j - Len(w)])
      BY <3>1
    <3>4. i - Len(w) = j - Len(w)
      BY <1>4, <3>1, <3>2, <3>3, UniqueIsSingle
    <3> QED BY <1>6, <3>4
  <2> QED BY <1>6, <2>2, <2>3
<1>9. Grounded(uses, Sure(Entries(l), marked))
  <2>1. \A e \in Entries(w) : e[2] \in {"sweep", "data"}
    BY <1>3
  <2>2. Entries(q) \subseteq All
    BY <1>4
  <2>3. ASSUME NEW e \in All \ Entries(q) PROVE \E c \in Entries(w) : Var(c) = Var(e)
    <3>1. e[2] = "sweep" /\ Var(e) \in D
      BY <1>2, <1>4
    <3>2. <<Var(e), "data">> \in Entries(w) /\ Var(<<Var(e), "data">>) = Var(e)
      BY <1>3, <3>1 DEF Var
    <3> QED BY <3>2
  <2>4. Grounded(uses, Sure(Entries(w) \union Entries(q), marked))
    BY <1>2, <2>1, <2>2, <2>3, GivenIsGrounded
  <2> QED BY <1>6, <2>4
<1>10. \A e \in Entries(l) : Var(e) \notin Generated /\ (e[2] = "sweep" => Var(e) \in swept)
  <2>1. \A e \in Entries(w) : e[2] # "sweep" /\ Var(e) \notin Generated
    BY <1>2, <1>3
  <2>2. \A e \in Entries(q) : e[2] # "sweep" /\ Var(e) \notin Generated
    BY <1>2, <1>4
  <2> QED BY <1>6, <2>1, <2>2
<1>11. "dataset" # "run"
  OBVIOUS
<1> QED
  BY <1>1, <1>6, <1>7, <1>8, <1>9, <1>10, <1>11, StartIsOK

-----------------------------------------------------------------------------
\* The theorems.

LEMMA Invariance == Spec => []IInv
<1>1. Init => IInv
  BY InitIsOK
<1>2. IInv /\ [Next]_vars => IInv'
  BY CollectIsOK, RecurseDeeperIsOK, CycleFoundIsOK, NoCycleFoundIsOK, CyclesDoneIsOK,
     MoveIsOK, PassIsOK, ReorderedIsOK, EvaluateIsOK, EvaluatedIsOK, RunStartsIsOK,
     RunGoesOnIsOK, DatasetIsReadIsOK, FinishIsOK, StutterIsOK
     DEF Next
<1> QED
  BY <1>1, <1>2, PTL DEF Spec

\* The variables have their types: the lists stay lists of equations whatever is
\* found, moved, put in front and handed back.
THEOREM EquationTypes == Spec => []TypeOK
<1>1. IInv => TypeOK
  BY DEF IInv
<1> QED
  BY <1>1, Invariance, PTL

\* No check loses an equation, for all netlists: a solver whose check failed hands
\* back what follows the old first equation (solver::solve), and that equation is
\* still the first one, since it is one that needs no other if there is any.
THEOREM NoEquationIsLost == Spec => NothingForgotten
<1> DEFINE A == pc = "reorder" /\ pc' # "reorder" =>
                  Entries(equations') = Entries(root) \union Entries(equations)
<1>1. IInv /\ [Next]_vars => [A]_vars
  <2> SUFFICES ASSUME IInv, Next, pc = "reorder", pc' # "reorder"
               PROVE  Entries(equations') = Entries(root) \union Entries(equations)
    OBVIOUS
  <2>1. Reordered
    BY DEF Next, Collect, RecurseDeeper, CycleFound, NoCycleFound, Turn, CyclesDone, Move, Pass,
           Evaluate, Evaluated, RunStarts, RunGoesOn, DatasetIsRead, Finish
  <2>2. equations' = root \o equations
    BY <2>1, ReorderedIsWhole
  <2> QED BY <2>2, WhileReordering DEF All
<1> QED
  BY <1>1, Invariance, PTL DEF Spec, NothingForgotten

\* An equation is evaluated behind all that it uses, in the same pass of the
\* solver, for all netlists, sweeps and datasets: a mark of an earlier check is
\* never out of date.
THEOREM ValuesAreThere == Spec => EvaluatedInOrder
<1> DEFINE A == \A e \in evaluated' \ evaluated :
                  Uses(e) \ Generated \subseteq {Var(c) : c \in evaluated}
<1>1. IInv /\ [Next]_vars => [A]_vars
  <2> SUFFICES ASSUME IInv, Next, NEW e \in evaluated' \ evaluated
               PROVE  Uses(e) \ Generated \subseteq {Var(c) : c \in evaluated}
    OBVIOUS
  <2>1. Evaluate
    BY DEF Next, Collect, RecurseDeeper, CycleFound, NoCycleFound, CyclesDone, Move, Pass,
           Reordered, Evaluated, RunStarts, RunGoesOn, DatasetIsRead, Finish, StartCheck
  <2>2. /\ e = equations[at] /\ e \in marked /\ at \in DOMAIN equations
        /\ InOrder(uses, marked, equations) /\ pc = "evaluate"
        /\ evaluated = {equations[j] : j \in 1..(at - 1)} \intersect marked
    <3>1. equations \in Lists /\ at \in 1..(Len(equations) + 1) /\ at <= Len(equations)
      BY <2>1 DEF IInv, TypeOK, Evaluate, Lists
    <3>2. at \in DOMAIN equations
      BY <3>1, ElementsOf
    <3> QED BY <2>1, <3>2 DEF IInv, ValuesOK, Evaluate
  <2>3. Used(uses, e) \ Generated \subseteq MarkedAbove(marked, equations, at)
    BY <2>2 DEF InOrder
  <2>4. MarkedAbove(marked, equations, at) \subseteq {Var(c) : c \in evaluated}
    BY <2>2 DEF MarkedAbove
  <2> QED BY <2>3, <2>4, UsesIsUsed
<1> QED
  BY <1>1, Invariance, PTL DEF Spec, EvaluatedInOrder

-----------------------------------------------------------------------------
\* What is marked.

\* A set of finite sets has a least one.
LEMMA LeastSet ==
  ASSUME NEW F, F \subseteq SUBSET Name, F # {}
  PROVE  \E S \in F : \A R \in F : R \subseteq S => R = S
<1>1. F \subseteq FiniteSubsetsOf(Name)
  BY NamesAreFinite DEF FiniteSubsetsOf
<1>2. PICK S \in F : \A R \in F : <<R, S>> \notin StrictSubsetOrdering(Name)
  BY <1>1, FS_StrictSubsetOrderingWellFounded, WFMin
<1>3. \A R \in F : R \subseteq S /\ R # S => <<R, S>> \in StrictSubsetOrdering(Name)
  BY DEF StrictSubsetOrdering
<1>4. ASSUME NEW R \in F, R \subseteq S PROVE R = S
  <2>1. <<R, S>> \notin StrictSubsetOrdering(Name)
    BY <1>2
  <2> QED BY <1>3, <1>4, <2>1, Zenon
<1> QED
  BY <1>4, Zenon

LEMMA ClosureIsLeast ==
  ASSUME uses \in [Name -> SUBSET Name], equations \in Lists, NEW S, S \subseteq Name
  PROVE  /\ S \subseteq Closure(S) /\ Closure(S) \subseteq Name /\ IsClosed(Closure(S))
         /\ \A T \in SUBSET Name : S \subseteq T /\ IsClosed(T) => Closure(S) \subseteq T
<1>1. AllUsed \subseteq Name /\ \A e \in Entries(equations) : Uses(e) \subseteq AllUsed
  BY UsedIsNames, UsesIsUsed, ElementsOf DEF AllUsed
<1>2. S \subseteq Closure(S) /\ Closure(S) \subseteq Name
  BY <1>1 DEF Closure
<1>3. ASSUME NEW T \in SUBSET Name, S \subseteq T, IsClosed(T)
      PROVE  Closure(S) \subseteq T
  <2> DEFINE R == T \intersect AllUsed
  <2>1. IsClosed(S \union R)
    BY <1>1, <1>3 DEF IsClosed
  <2>2. R \in SUBSET AllUsed
    OBVIOUS
  <2> QED BY <1>3, <2>1, <2>2 DEF Closure
<1>4. IsClosed(Closure(S))
  <2> SUFFICES ASSUME NEW e \in Entries(equations), Var(e) \in Closure(S), NEW v \in Uses(e),
                      NEW T \in SUBSET AllUsed, IsClosed(S \union T), v \notin S
               PROVE  v \in T
    BY <1>1 DEF IsClosed, Closure
  <2>1. Var(e) \in S \union T
    BY DEF Closure
  <2>2. v \in S \union T
    BY <2>1 DEF IsClosed
  <2> QED BY <2>2
<1> QED
  BY <1>2, <1>3, <1>4

\* What is known when the solver begins to evaluate.
LEMMA WhenEvaluating ==
  ASSUME IInv, pc = "evaluate"
  PROVE  /\ equations \in Lists /\ IsInjective(equations) /\ Unique(Entries(equations))
         /\ uses \in [Name -> SUBSET Name]
         /\ \A e \in Entries(equations) : Var(e) \notin Generated /\ Uses(e) \subseteq Name
         /\ InOrder(uses, marked, equations) /\ NoneLeft(uses, marked, Entries(equations))
<1>1. equations \in Lists /\ Entries(equations) = All /\ uses \in [Name -> SUBSET Name]
  BY EmptyList DEF IInv, TypeOK, ListsOK, All, Lists
<1>2. \A e \in Entries(equations) : Uses(e) \subseteq Name
  BY <1>1, UsedIsNames, UsesIsUsed, ElementsOf
<1> QED
  BY <1>1, <1>2 DEF IInv, ListsOK, UniqueOK, ValuesOK

\* A marked equation leads to marked ones in front of it only.
LEMMA MarkedLeadsUp ==
  ASSUME IInv, pc = "evaluate", NEW i \in DOMAIN equations, equations[i] \in marked
  PROVE  /\ Closure(Uses(equations[i])) \ Generated \subseteq MarkedAbove(marked, equations, i)
         /\ ~LeadsBack(equations[i])
         /\ \A c \in Entries(equations) :
              Var(c) \in MarkedAbove(marked, equations, i) => c \in marked
<1> DEFINE A == MarkedAbove(marked, equations, i)
           T == Generated \union A
<1>1. /\ equations \in Lists /\ IsInjective(equations) /\ Unique(Entries(equations))
      /\ uses \in [Name -> SUBSET Name]
      /\ \A e \in Entries(equations) : Var(e) \notin Generated /\ Uses(e) \subseteq Name
      /\ InOrder(uses, marked, equations)
      /\ Len(equations) \in Nat /\ DOMAIN equations = 1..Len(equations)
      /\ \A j \in 1..Len(equations) : equations[j] \in Entry /\ equations[j] \in Entries(equations)
  BY WhenEvaluating, ElementsOf
<1>2. ASSUME NEW v \in A
      PROVE  \E j \in 1..(i - 1) : j \in DOMAIN equations /\ equations[j] \in marked
                                   /\ Var(equations[j]) = v
  BY <1>1 DEF MarkedAbove
<1>3. T \in SUBSET Name
  <2>1. \A v \in A : v \in Name
    BY <1>1, <1>2 DEF Entry, Var
  <2> QED BY <2>1, NamesAssumption
<1>4. Uses(equations[i]) \subseteq T
  BY <1>1, UsesIsUsed DEF InOrder
<1>5. ASSUME NEW c \in Entries(equations), Var(c) \in A
      PROVE  c \in marked /\ Uses(c) \subseteq T
  <2>1. PICK j \in 1..(i - 1) : j \in DOMAIN equations /\ equations[j] \in marked
                                /\ Var(equations[j]) = Var(c)
    BY <1>2, <1>5
  <2>2. c = equations[j]
    BY <1>1, <2>1 DEF Unique
  <2>3. Used(uses, c) \ Generated \subseteq MarkedAbove(marked, equations, j)
    BY <1>1, <2>1, <2>2 DEF InOrder
  <2>4. MarkedAbove(marked, equations, j) \subseteq A
    <3>1. \A k \in 1..(j - 1) : k \in 1..(i - 1)
      BY <1>1, <2>1
    <3> QED BY <3>1 DEF MarkedAbove
  <2> QED BY <2>1, <2>2, <2>3, <2>4, UsesIsUsed
<1>6. IsClosed(T)
  BY <1>1, <1>5 DEF IsClosed
<1> HIDE DEF A
<1>7. Closure(Uses(equations[i])) \subseteq T
  BY <1>1, <1>3, <1>4, <1>6, ClosureIsLeast
<1>8. Var(equations[i]) \notin A
  <2> SUFFICES ASSUME Var(equations[i]) \in A PROVE FALSE
    OBVIOUS
  <2>1. PICK j \in 1..(i - 1) : j \in DOMAIN equations /\ Var(equations[j]) = Var(equations[i])
    BY <1>2
  <2>2. j = i
    BY <1>1, <2>1, UniqueIsSingle
  <2> QED BY <1>1, <2>1, <2>2
<1>9. ~LeadsBack(equations[i])
  BY <1>1, <1>7, <1>8 DEF LeadsBack
<1> QED
  BY <1>5, <1>7, <1>9 DEF A

LEMMA MarkedIsSolvable ==
  ASSUME IInv, pc = "evaluate", NEW e \in Entries(equations), e \in marked
  PROVE  Solvable(e)
<1>1. PICK i \in DOMAIN equations : e = equations[i]
  BY DEF Entries
<1> DEFINE reached == Closure(Uses(e)) \ Generated
<1>2. reached \subseteq MarkedAbove(marked, equations, i)
  BY <1>1, MarkedLeadsUp
<1>3. reached \subseteq Defined(equations)
  <2>1. DOMAIN equations = 1..Len(equations) /\ Len(equations) \in Nat
    BY WhenEvaluating, ElementsOf
  <2>2. \A j \in 1..(i - 1) : j \in DOMAIN equations
    BY <2>1
  <2>3. MarkedAbove(marked, equations, i) \subseteq Defined(equations)
    BY <2>2 DEF MarkedAbove, Defined, Entries
  <2> QED BY <1>2, <2>3
<1>4. \A c \in Entries(equations) : c \in marked => ~LeadsBack(c)
  BY MarkedLeadsUp DEF Entries
<1>5. \A c \in Entries(equations) : c = e \/ Var(c) \in reached => ~LeadsBack(c)
  BY <1>1, <1>2, <1>4, MarkedLeadsUp
<1> QED
  BY <1>3, <1>5 DEF Solvable

\* If an equation that can be evaluated had no mark, it would lead to another one
\* without a mark, and that one to fewer variables.
LEMMA SolvableIsReached ==
  ASSUME IInv, pc = "evaluate", NEW e \in Entries(equations), Solvable(e), e \notin marked
  PROVE  FALSE
<1> DEFINE reached == Closure(Uses(e)) \ Generated
           X == {c \in Entries(equations) : c \notin marked /\ (c = e \/ Var(c) \in reached)}
           F == {Closure(Uses(c)) : c \in X}
<1>1. /\ equations \in Lists /\ uses \in [Name -> SUBSET Name]
      /\ \A c \in Entries(equations) : Var(c) \notin Generated /\ Uses(c) \subseteq Name
      /\ NoneLeft(uses, marked, Entries(equations)) /\ Unique(Entries(equations))
  BY WhenEvaluating
<1>2. \A c \in Entries(equations) :
        /\ Uses(c) \subseteq Closure(Uses(c)) /\ Closure(Uses(c)) \subseteq Name
        /\ IsClosed(Closure(Uses(c)))
        /\ \A T \in SUBSET Name : Uses(c) \subseteq T /\ IsClosed(T) => Closure(Uses(c)) \subseteq T
  BY <1>1, ClosureIsLeast
<1>3. e \in X /\ F \subseteq SUBSET Name /\ F # {}
  BY <1>2
<1>4. PICK c \in X : \A d \in X : Closure(Uses(d)) \subseteq Closure(Uses(c))
                                    => Closure(Uses(d)) = Closure(Uses(c))
  <2>1. PICK S \in F : \A R \in F : R \subseteq S => R = S
    <3> HIDE DEF F
    <3> QED BY <1>3, LeastSet
  <2> QED BY <2>1
<1>5. PICK v \in Uses(c) \ Generated : v \notin VarsOf(Entries(equations) \intersect marked)
  BY <1>1, UsesIsUsed DEF NoneLeft
<1>6. v \in reached
  <2>1. CASE c = e
    BY <1>2, <1>5, <2>1
  <2>2. CASE Var(c) \in reached
    <3>1. Uses(c) \subseteq Closure(Uses(e))
      BY <1>2, <2>2 DEF IsClosed
    <3> QED BY <1>5, <3>1
  <2> QED BY <2>1, <2>2
<1>7. PICK d \in Entries(equations) : Var(d) = v
  BY <1>6 DEF Solvable, Defined
<1>8. d \in X
  BY <1>5, <1>6, <1>7 DEF VarsOf
<1>9. v \in Closure(Uses(c))
  BY <1>2, <1>5
<1>10. Closure(Uses(d)) \subseteq Closure(Uses(c))
  <2>1. Uses(d) \subseteq Closure(Uses(c))
    BY <1>2, <1>7, <1>9 DEF IsClosed
  <2> QED BY <1>2, <2>1
<1>11. Closure(Uses(d)) = Closure(Uses(c))
  <2> HIDE DEF X
  <2> QED BY <1>4, <1>8, <1>10
<1>12. ~LeadsBack(d)
  BY <1>6, <1>7 DEF Solvable
<1> QED
  BY <1>7, <1>9, <1>11, <1>12 DEF LeadsBack

\* For all netlists, sweeps and datasets a check without errors marks exactly the
\* equations whose values can be computed: all they lead to is defined and no
\* cycle is on the way.  Every variable then has one equation.
THEOREM MarksAreRight == Spec => []SolvableIsMarked
<1>1. ASSUME IInv PROVE SolvableIsMarked
  <2> SUFFICES ASSUME pc = "evaluate"
               PROVE  /\ \A e \in Entries(equations) : e \in marked <=> Solvable(e)
                      /\ \A v \in Defined(equations) : Count(equations, v) = 1
    BY DEF SolvableIsMarked
  <2>1. \A e \in Entries(equations) : e \in marked <=> Solvable(e)
    BY <1>1, MarkedIsSolvable, SolvableIsReached
  <2>2. \A v \in Defined(equations) : Count(equations, v) = 1
    BY <1>1, WhenEvaluating, CountOnce
  <2> QED BY <2>1, <2>2
<1> QED
  BY <1>1, Invariance, PTL
=============================================================================
