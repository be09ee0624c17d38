---------------------------- MODULE Selection_proofs ----------------------------
(***************************************************************************)
(* Induction over the natural numbers and over lists, stated with sets in  *)
(* the place of predicates; definitions by recursion; and what is known of *)
(* Only.                                                                   *)
(***************************************************************************)
EXTENDS Selection, SequenceTheorems, FiniteSetTheorems, WellFoundedInduction, TLAPS

-----------------------------------------------------------------------------
\* The numbers up to n are n numbers.
LEMMA CountTo ==
  ASSUME NEW n \in Nat
  PROVE  IsFiniteSet(1..n) /\ Cardinality(1..n) = n
<1> DEFINE a == 1
<1>1. a \in Int /\ n \in Int
  OBVIOUS
<1>2. (IF a > n THEN 0 ELSE n - a + 1) = n
  OBVIOUS
<1> HIDE DEF a
<1>3. IsFiniteSet(a..n) /\ Cardinality(a..n) = IF a > n THEN 0 ELSE n - a + 1
  BY <1>1, FS_Interval
<1> QED
  BY <1>2, <1>3 DEF a

-----------------------------------------------------------------------------
\* Induction.

Less == {p \in Nat \X Nat : p[1] < p[2]}

LEMMA LessIsWellFounded == IsWellFoundedOn(Less, Nat)
<1>1. OpToRel(<, Nat) = Less
  BY DEF OpToRel, Less
<1> QED
  BY <1>1, NatLessThanWellFounded

\* A set of natural numbers that is not empty has a least element.
LEMMA LeastNumber ==
  ASSUME NEW T, T \subseteq Nat, T # {}
  PROVE  \E n \in T : \A m \in T : n <= m
<1>1. PICK x \in T : \A y \in T : <<y, x>> \notin Less
  BY LessIsWellFounded, WFMin
<1>2. \A y \in T : ~(y < x)
  BY <1>1 DEF Less
<1> QED
  BY <1>2

\* A set with 0 that holds the successor of each of its numbers holds all numbers.
LEMMA Induction ==
  ASSUME NEW S, 0 \in S, \A n \in Nat : n \in S => n + 1 \in S
  PROVE  Nat \subseteq S
<1> DEFINE T == Nat \ S
<1>1. SUFFICES ASSUME T # {} PROVE FALSE
  OBVIOUS
<1>2. T \subseteq Nat
  OBVIOUS
<1>3. PICK n \in T : \A m \in T : n <= m
  <2> HIDE DEF T
  <2> QED BY <1>1, <1>2, LeastNumber
<1>4. n # 0 /\ n - 1 \in Nat /\ n - 1 \notin T
  BY <1>3
<1> QED
  BY <1>3, <1>4

\* The same up to a number.
LEMMA InductionUpTo ==
  ASSUME NEW m \in Nat, NEW S, 0 \in S, \A n \in 0..(m - 1) : n \in S => n + 1 \in S
  PROVE  0..m \subseteq S
<1> DEFINE T == {n \in Nat : n <= m => n \in S}
<1>1. 0 \in T
  OBVIOUS
<1>2. \A n \in Nat : n \in T => n + 1 \in T
  OBVIOUS
<1>3. Nat \subseteq T
  <2> HIDE DEF T
  <2> QED BY <1>1, <1>2, Induction
<1> QED
  BY <1>3

-----------------------------------------------------------------------------
\* Recursion.

\* What leads from one of the first m numbers to the next, with values in V.
Steps(m, V) == [(1..m) \X V -> V]

\* A function of the numbers up to m that begins with first and takes these steps.
Follows(f, m, first, step) ==
  f[0] = first /\ \A i \in 1..m : f[i] = step[<<i, f[i - 1]>>]

\* There is such a function.
LEMMA Recursion ==
  ASSUME NEW m \in Nat, NEW V, NEW first \in V, NEW step \in Steps(m, V)
  PROVE  \E f : f \in [0..m -> V] /\ Follows(f, m, first, step)
<1> DEFINE Good(n, f) == f \in [0..n -> V] /\ Follows(f, n, first, step)
           S == {n \in 0..m : \E f : Good(n, f)}
<1>1. 0 \in S
  <2>1. Good(0, [i \in 0..0 |-> first])
    BY DEF Follows
  <2> HIDE DEF Good
  <2> QED BY <2>1
<1>2. ASSUME NEW n \in 0..(m - 1), n \in S PROVE n + 1 \in S
  <2>1. PICK f : Good(n, f)
    BY <1>2
  <2> DEFINE g == [i \in 0..(n + 1) |-> IF i <= n THEN f[i] ELSE step[<<n + 1, f[n]>>]]
  <2>2. f[n] \in V /\ <<n + 1, f[n]>> \in (1..m) \X V
    BY <2>1
  <2>3. step[<<n + 1, f[n]>>] \in V
    BY <2>2 DEF Steps
  <2>4. g \in [0..(n + 1) -> V] /\ g[0] = first
    BY <2>1, <2>3 DEF Follows
  <2>5. ASSUME NEW i \in 1..(n + 1) PROVE g[i] = step[<<i, g[i - 1]>>]
    <3>1. CASE i <= n
      BY <2>1, <3>1 DEF Follows
    <3>2. CASE i = n + 1
      BY <2>1, <3>2
    <3> QED BY <3>1, <3>2
  <2>6. Good(n + 1, g)
    <3> HIDE DEF g
    <3> QED BY <2>4, <2>5 DEF Follows
  <2> HIDE DEF Good
  <2> QED BY <2>6
<1>3. m \in S
  <2> HIDE DEF S
  <2> QED BY <1>1, <1>2, InductionUpTo
<1> QED
  BY <1>3

\* It is the only one, even among functions with values outside of V.
LEMMA RecursionIsUnique ==
  ASSUME NEW m \in Nat, NEW V, NEW first \in V, NEW step \in Steps(m, V), NEW f, NEW g,
         Follows(f, m, first, step),
         g[0] = first,
         \A i \in 1..m : g[i - 1] \in V => g[i] = step[<<i, g[i - 1]>>]
  PROVE  \A i \in 0..m : f[i] = g[i] /\ g[i] \in V
<1> DEFINE S == {i \in 0..m : f[i] = g[i] /\ f[i] \in V}
<1>1. 0 \in S
  BY DEF Follows
<1>2. ASSUME NEW n \in 0..(m - 1), n \in S PROVE n + 1 \in S
  <2>1. n + 1 \in 1..m /\ (n + 1) - 1 = n
    OBVIOUS
  <2>2. f[n] = g[n] /\ f[n] \in V
    BY <1>2
  <2>3. f[n + 1] = step[<<n + 1, f[n]>>] /\ g[n + 1] = step[<<n + 1, f[n]>>]
    BY <2>1, <2>2 DEF Follows
  <2>4. <<n + 1, f[n]>> \in (1..m) \X V
    BY <2>1, <2>2
  <2>5. step[<<n + 1, f[n]>>] \in V
    BY <2>4 DEF Steps
  <2> QED BY <2>1, <2>3, <2>5
<1>3. 0..m \subseteq S
  <2> HIDE DEF S
  <2> QED BY <1>1, <1>2, InductionUpTo
<1> QED
  BY <1>3

\* Both together: the run of the rounds, which is what takes the same steps.
Run(f, n, V, first, step) ==
  /\ f \in [0..n -> V] /\ f[0] = first
  /\ \A i \in 1..n : f[i - 1] \in V /\ f[i] = step[<<i, f[i - 1]>>]
  /\ \A g : g[0] = first /\ (\A i \in 1..n : g[i - 1] \in V => g[i] = step[<<i, g[i - 1]>>])
       => \A i \in 0..n : g[i] = f[i]

LEMMA RunIsUnique ==
  ASSUME NEW n \in Nat, NEW V, NEW first, NEW step, NEW f, Run(f, n, V, first, step),
         NEW g, g[0] = first, \A i \in 1..n : g[i - 1] \in V => g[i] = step[<<i, g[i - 1]>>]
  PROVE  g[n] = f[n]
<1>1. \A i \in 0..n : g[i] = f[i]
  BY DEF Run
<1> QED
  BY <1>1

LEMMA RunOfRounds ==
  ASSUME NEW n \in Nat, NEW V, NEW first \in V, NEW step \in Steps(n, V)
  PROVE  \E f : Run(f, n, V, first, step)
<1>1. PICK f : f \in [0..n -> V] /\ Follows(f, n, first, step)
  BY Recursion
<1>2. \A i \in 1..n : i - 1 \in 0..n
  OBVIOUS
<1>3. f[0] = first /\ \A i \in 1..n : f[i - 1] \in V /\ f[i] = step[<<i, f[i - 1]>>]
  BY <1>1, <1>2 DEF Follows
<1>4. ASSUME NEW g, g[0] = first, \A i \in 1..n : g[i - 1] \in V => g[i] = step[<<i, g[i - 1]>>]
      PROVE  \A i \in 0..n : g[i] = f[i]
  BY <1>1, <1>4, RecursionIsUnique
<1> QED
  BY <1>1, <1>3, <1>4 DEF Run

-----------------------------------------------------------------------------
\* The elements of a list that are in a set.

\* One element more.
Taken(s, T, i, list) == IF s[i] \in T THEN Append(list, s[i]) ELSE list

\* What the loop has kept behind each element.
Keeps(kept, s, T, S) ==
  /\ kept \in [0..Len(s) -> Seq(S)]
  /\ kept[0] = <<>>
  /\ \A i \in 1..Len(s) : kept[i] = Taken(s, T, i, kept[i - 1])

LEMMA OnlyDef ==
  ASSUME NEW S, NEW s \in Seq(S), NEW T
  PROVE  \E kept : Keeps(kept, s, T, S) /\ Only(s, T) = kept[Len(s)]
<1> DEFINE m == Len(s)
           V == Seq(S)
           step == [p \in (1..m) \X V |-> Taken(s, T, p[1], p[2])]
<1>1. m \in Nat /\ <<>> \in V
  OBVIOUS
<1>2. \A i \in 1..m, v \in V : Taken(s, T, i, v) \in V
  BY DEF Taken
<1>3. step \in Steps(m, V)
  BY <1>2 DEF Steps
<1>4. PICK f : f \in [0..m -> V] /\ Follows(f, m, <<>>, step)
  <2> HIDE DEF m, V, step
  <2> QED BY <1>1, <1>3, Recursion
<1>5. f[0] = <<>> /\ \A i \in 1..m : f[i] = Taken(s, T, i, f[i - 1])
  <2>1. ASSUME NEW i \in 1..m PROVE f[i] = Taken(s, T, i, f[i - 1])
    <3>1. i - 1 \in 0..m
      OBVIOUS
    <3>2. f[i - 1] \in V /\ f[i] = step[<<i, f[i - 1]>>]
      BY <1>4, <3>1 DEF Follows
    <3> HIDE DEF V, m
    <3> QED BY <3>2
  <2> QED BY <1>4, <2>1 DEF Follows
<1> DEFINE Body(g) == [i \in 0..m |-> IF i = 0 THEN <<>>
                          ELSE IF s[i] \in T THEN Append(g[i - 1], s[i]) ELSE g[i - 1]]
           h == CHOOSE g : g = Body(g)
<1>6. f = Body(f)
  <2>1. ASSUME NEW i \in 0..m PROVE f[i] = Body(f)[i]
    <3>1. CASE i = 0
      BY <1>5, <3>1
    <3>2. CASE i # 0
      <4>1. f[i] = Taken(s, T, i, f[i - 1])
        BY <1>5, <3>2
      <4> QED BY <4>1, <3>2 DEF Taken
    <3> QED BY <3>1, <3>2
  <2> QED BY <1>4, <2>1
<1>7. h = Body(h)
  <2> HIDE DEF Body
  <2> QED BY <1>6
<1>8. h[0] = <<>> /\ \A i \in 1..m : h[i] = Taken(s, T, i, h[i - 1])
  <2> HIDE DEF h
  <2>1. h[0] = Body(h)[0] /\ 0 \in 0..m
    BY <1>1, <1>7
  <2>2. ASSUME NEW i \in 1..m PROVE h[i] = Taken(s, T, i, h[i - 1])
    <3>1. i \in 0..m /\ i # 0
      OBVIOUS
    <3>2. h[i] = Body(h)[i]
      <4> HIDE DEF Body
      <4> QED BY <1>7
    <3> QED BY <3>1, <3>2 DEF Taken
  <2> QED BY <2>1, <2>2
<1>9. \A i \in 1..m : h[i - 1] \in V => h[i] = step[<<i, h[i - 1]>>]
  <2> HIDE DEF h
  <2> QED BY <1>8
<1>10. \A i \in 0..m : h[i] \in V
  <2> HIDE DEF h, m, V, step
  <2> QED BY <1>1, <1>3, <1>4, <1>8, <1>9, RecursionIsUnique
<1>11. h \in [0..m -> V]
  <2> HIDE DEF h, V
  <2>1. h = [i \in 0..m |-> h[i]]
    BY <1>7
  <2> QED BY <1>10, <2>1
<1>12. Only(s, T) = h[Len(s)]
  BY DEF Only
<1> HIDE DEF h
<1>13. Keeps(h, s, T, S)
  BY <1>8, <1>11 DEF Keeps
<1> QED
  BY <1>12, <1>13

\* A list longer by one element.
LEMMA OnlyAppend ==
  ASSUME NEW S, NEW s \in Seq(S), NEW x \in S, NEW T
  PROVE  Only(Append(s, x), T) = IF x \in T THEN Append(Only(s, T), x) ELSE Only(s, T)
<1> DEFINE m == Len(s)
           l == Append(s, x)
<1>1. /\ l \in Seq(S) /\ Len(l) = m + 1 /\ l[m + 1] = x /\ m \in Nat
      /\ \A i \in 1..m : l[i] = s[i]
  OBVIOUS
<1>2. PICK f : Keeps(f, l, T, S) /\ Only(l, T) = f[m + 1]
  <2> HIDE DEF l
  <2> QED BY <1>1, OnlyDef
<1>3. PICK g : Keeps(g, s, T, S) /\ Only(s, T) = g[m]
  BY OnlyDef
<1> DEFINE E == {i \in 0..m : f[i] = g[i]}
<1>4. 0..m \subseteq E
  <2>1. 0 \in E
    BY <1>2, <1>3 DEF Keeps
  <2>2. ASSUME NEW n \in 0..(m - 1), n \in E PROVE n + 1 \in E
    <3>1. n + 1 \in 1..m /\ (n + 1) - 1 = n /\ n + 1 \in 1..(m + 1)
      BY <1>1
    <3>2. f[n + 1] = Taken(l, T, n + 1, f[n]) /\ g[n + 1] = Taken(s, T, n + 1, g[n])
      <4> HIDE DEF l
      <4> QED BY <1>1, <1>2, <1>3, <3>1 DEF Keeps
    <3>3. l[n + 1] = s[n + 1] /\ f[n] = g[n]
      BY <1>1, <2>2, <3>1
    <3> QED BY <3>1, <3>2, <3>3 DEF Taken
  <2> HIDE DEF E
  <2> QED BY <1>1, <2>1, <2>2, InductionUpTo
<1>5. f[m] = Only(s, T)
  BY <1>1, <1>3, <1>4
<1>6. m + 1 \in 1..(m + 1) /\ (m + 1) - 1 = m
  BY <1>1
<1>7. Only(l, T) = Taken(l, T, m + 1, f[m])
  <2> HIDE DEF l
  <2> QED BY <1>1, <1>2, <1>6 DEF Keeps
<1> QED
  BY <1>1, <1>5, <1>7 DEF Taken

LEMMA OnlyEmpty ==
  ASSUME NEW T PROVE Only(<<>>, T) = <<>>
<1> DEFINE e == <<>>
<1>1. e \in Seq({}) /\ Len(e) = 0
  OBVIOUS
<1>2. PICK f : Keeps(f, e, T, {}) /\ Only(e, T) = f[Len(e)]
  <2> HIDE DEF e
  <2> QED BY <1>1, OnlyDef
<1> QED
  BY <1>1, <1>2 DEF Keeps

\* Induction over lists.
LEMMA ListInduction ==
  ASSUME NEW S, NEW P, <<>> \in P, \A s \in Seq(S), x \in S : s \in P => Append(s, x) \in P
  PROVE  Seq(S) \subseteq P
<1> DEFINE N == {n \in Nat : \A s \in Seq(S) : Len(s) = n => s \in P}
<1>1. 0 \in N
  OBVIOUS
<1>2. ASSUME NEW n \in Nat, n \in N PROVE n + 1 \in N
  <2> SUFFICES ASSUME NEW s \in Seq(S), Len(s) = n + 1 PROVE s \in P
    OBVIOUS
  <2>1. s # <<>>
    OBVIOUS
  <2>2. PICK r \in Seq(S), x \in S : s = Append(r, x)
    BY <2>1, SequenceEmptyOrAppend
  <2>3. Len(r) = n
    BY <2>2
  <2> QED BY <1>2, <2>2, <2>3
<1>3. Nat \subseteq N
  <2> HIDE DEF N
  <2> QED BY <1>1, <1>2, Induction
<1> QED
  BY <1>3

\* The elements, their type and their order.
LEMMA OnlyElements ==
  ASSUME NEW S, NEW T, NEW s \in Seq(S)
  PROVE  /\ Only(s, T) \in Seq(S)
         /\ Range(Only(s, T)) = Range(s) \intersect T
         /\ \A i, j \in DOMAIN Only(s, T) : i < j =>
              \E k, l \in DOMAIN s : k < l /\ s[k] = Only(s, T)[i] /\ s[l] = Only(s, T)[j]
<1> DEFINE Claim(r) == /\ Only(r, T) \in Seq(S)
                       /\ Range(Only(r, T)) = Range(r) \intersect T
                       /\ \A i, j \in DOMAIN Only(r, T) : i < j =>
                            \E k, l \in DOMAIN r : k < l /\ r[k] = Only(r, T)[i]
                                                         /\ r[l] = Only(r, T)[j]
           P == {r \in Seq(S) : Claim(r)}
<1>1. <<>> \in P
  <2>1. Only(<<>>, T) = <<>>
    BY OnlyEmpty
  <2>2. /\ <<>> \in Seq(S) /\ Range(<<>>) = {} /\ DOMAIN <<>> = {}
    BY DEF Range
  <2> QED BY <2>1, <2>2
<1>2. ASSUME NEW r \in Seq(S), NEW x \in S, r \in P PROVE Append(r, x) \in P
  <2> DEFINE a == Append(r, x)
             o == Only(r, T)
  <2>1. /\ a \in Seq(S) /\ DOMAIN a = 1..(Len(r) + 1) /\ Len(r) \in Nat
        /\ a[Len(r) + 1] = x /\ DOMAIN r = 1..Len(r)
        /\ \A i \in 1..Len(r) : a[i] = r[i]
    OBVIOUS
  <2>2. Range(a) = Range(r) \union {x}
    <3> HIDE DEF a
    <3> QED BY <2>1 DEF Range
  <2>3. o \in Seq(S) /\ Claim(r)
    BY <1>2
  <2>4. CASE x \notin T
    <3>1. Only(a, T) = o
      BY <2>4, OnlyAppend
    <3>2. Claim(a)
      <4>1. ASSUME NEW i \in DOMAIN o, NEW j \in DOMAIN o, i < j
            PROVE  \E k, l \in DOMAIN a : k < l /\ a[k] = o[i] /\ a[l] = o[j]
        <5>1. PICK k \in DOMAIN r, l \in DOMAIN r : k < l /\ r[k] = o[i] /\ r[l] = o[j]
          BY <2>3, <4>1
        <5>2. k \in DOMAIN a /\ l \in DOMAIN a /\ a[k] = r[k] /\ a[l] = r[l]
          BY <2>1
        <5> HIDE DEF a
        <5> QED BY <5>1, <5>2
      <4> HIDE DEF a, o
      <4> QED BY <2>2, <2>3, <2>4, <3>1, <4>1 DEF o
    <3> QED BY <2>1, <3>2
  <2>5. CASE x \in T
    <3>1. Only(a, T) = Append(o, x)
      BY <2>5, OnlyAppend
    <3> DEFINE b == Append(o, x)
    <3>2. /\ b \in Seq(S) /\ DOMAIN b = 1..(Len(o) + 1) /\ Len(o) \in Nat
          /\ b[Len(o) + 1] = x /\ DOMAIN o = 1..Len(o)
          /\ \A i \in 1..Len(o) : b[i] = o[i]
      BY <2>3
    <3>3. Range(b) = Range(o) \union {x}
      <4> HIDE DEF b, o
      <4> QED BY <3>2 DEF Range
    <3>4. Range(b) = Range(a) \intersect T
      <4> HIDE DEF a, b
      <4> QED BY <2>2, <2>3, <2>5, <3>3
    <3>5. ASSUME NEW i \in DOMAIN b, NEW j \in DOMAIN b, i < j
          PROVE  \E k, l \in DOMAIN a : k < l /\ a[k] = b[i] /\ a[l] = b[j]
      <4> HIDE DEF a, b, o
      <4>1. CASE j = Len(o) + 1
        <5>1. i \in DOMAIN o /\ b[i] = o[i] /\ b[j] = x
          BY <3>2, <3>5, <4>1
        <5>2. b[i] \in Range(r)
          <6>1. o[i] \in Range(o)
            BY <5>1 DEF Range
          <6> QED BY <2>3, <5>1, <6>1 DEF o
        <5>3. PICK k \in DOMAIN r : r[k] = b[i]
          BY <5>2 DEF Range
        <5>4. k \in DOMAIN a /\ a[k] = b[i] /\ Len(r) + 1 \in DOMAIN a /\ k < Len(r) + 1
          BY <2>1, <5>3
        <5> QED BY <2>1, <5>1, <5>4
      <4>2. CASE j # Len(o) + 1
        <5>1. i \in DOMAIN o /\ j \in DOMAIN o /\ b[i] = o[i] /\ b[j] = o[j]
          BY <3>2, <3>5, <4>2
        <5>2. PICK k \in DOMAIN r, l \in DOMAIN r : k < l /\ r[k] = o[i] /\ r[l] = o[j]
          BY <2>3, <3>5, <5>1 DEF o
        <5>3. k \in DOMAIN a /\ l \in DOMAIN a /\ a[k] = r[k] /\ a[l] = r[l]
          BY <2>1
        <5> QED BY <5>1, <5>2, <5>3
      <4> QED BY <4>1, <4>2
    <3>6. Claim(a)
      <4> HIDE DEF a, b
      <4> QED BY <3>1, <3>2, <3>4, <3>5 DEF b
    <3> QED BY <2>1, <3>6
  <2> QED BY <2>4, <2>5
<1>3. Seq(S) \subseteq P
  <2> HIDE DEF P
  <2> QED BY <1>1, <1>2, ListInduction
<1> QED
  BY <1>3

\* Two lists behind each other.
LEMMA OnlyConcat ==
  ASSUME NEW S, NEW T, NEW s \in Seq(S), NEW t \in Seq(S)
  PROVE  Only(s \o t, T) = Only(s, T) \o Only(t, T)
<1> DEFINE P == {r \in Seq(S) : Only(s \o r, T) = Only(s, T) \o Only(r, T)}
<1>1. <<>> \in P
  <2>1. s \o <<>> = s
    BY ConcatEmptySeq
  <2>2. Only(s, T) \o <<>> = Only(s, T)
    BY OnlyElements, ConcatEmptySeq
  <2>3. Only(<<>>, T) = <<>> /\ <<>> \in Seq(S)
    BY OnlyEmpty
  <2> QED BY <2>1, <2>2, <2>3
<1>2. ASSUME NEW r \in Seq(S), NEW x \in S, r \in P PROVE Append(r, x) \in P
  <2>1. Only(s \o r, T) = Only(s, T) \o Only(r, T)
    BY <1>2
  <2>2. /\ Only(s, T) \in Seq(S) /\ Only(r, T) \in Seq(S) /\ s \o r \in Seq(S)
        /\ Append(r, x) \in Seq(S)
    BY OnlyElements
  <2>3. s \o Append(r, x) = Append(s \o r, x)
    OBVIOUS
  <2>4. Only(Append(s \o r, x), T) = IF x \in T THEN Append(Only(s \o r, T), x) ELSE Only(s \o r, T)
    BY <2>2, OnlyAppend
  <2>5. Only(Append(r, x), T) = IF x \in T THEN Append(Only(r, T), x) ELSE Only(r, T)
    BY OnlyAppend
  <2>6. Only(s, T) \o Append(Only(r, T), x) = Append(Only(s, T) \o Only(r, T), x)
    BY <2>2
  <2> QED BY <2>1, <2>2, <2>3, <2>4, <2>5, <2>6
<1>3. Seq(S) \subseteq P
  <2> HIDE DEF P
  <2> QED BY <1>1, <1>2, ListInduction
<1> QED
  BY <1>3

\* Nothing is kept of a list without such elements.
LEMMA OnlyNone ==
  ASSUME NEW S, NEW T, NEW s \in Seq(S), \A i \in 1..Len(s) : s[i] \notin T
  PROVE  Only(s, T) = <<>>
<1>1. Range(Only(s, T)) = {} /\ Only(s, T) \in Seq(S)
  BY OnlyElements DEF Range
<1>2. DOMAIN Only(s, T) = {}
  BY <1>1 DEF Range
<1> QED
  BY <1>1, <1>2

\* What is taken from a list that holds nothing twice does not either.
LEMMA OnlyOnce ==
  ASSUME NEW S, NEW list \in Seq(S), NEW T
  PROVE  /\ Only(list, T) \in Seq(S) /\ Range(Only(list, T)) = Range(list) \intersect T
         /\ IsInjective(list) => IsInjective(Only(list, T))
<1> DEFINE o == Only(list, T)
<1>1. /\ o \in Seq(S) /\ Range(o) = Range(list) \intersect T
      /\ \A i, j \in DOMAIN o : i < j =>
           \E k, l \in DOMAIN list : k < l /\ list[k] = o[i] /\ list[l] = o[j]
  BY OnlyElements
<1> HIDE DEF o
<1>2. DOMAIN o = 1..Len(o) /\ Len(o) \in Nat /\ DOMAIN list = 1..Len(list) /\ Len(list) \in Nat
  BY <1>1
<1>3. ASSUME IsInjective(list), NEW i \in DOMAIN o, NEW j \in DOMAIN o, i < j PROVE o[i] # o[j]
  <2>1. PICK k \in DOMAIN list, l \in DOMAIN list : k < l /\ list[k] = o[i] /\ list[l] = o[j]
    BY <1>1, <1>3
  <2>2. k # l
    BY <1>2, <2>1
  <2> QED BY <1>3, <2>1, <2>2 DEF IsInjective
<1>4. ASSUME IsInjective(list) PROVE IsInjective(o)
  <2> SUFFICES ASSUME NEW i \in DOMAIN o, NEW j \in DOMAIN o, o[i] = o[j] PROVE i = j
    BY DEF IsInjective
  <2>1. ~(i < j) /\ ~(j < i)
    BY <1>3, <1>4
  <2> QED BY <1>2, <2>1
<1> QED
  BY <1>1, <1>4 DEF o

\* Nor do two such lists behind each other, if they have nothing in common.
LEMMA JoinedOnce ==
  ASSUME NEW S, NEW s \in Seq(S), NEW t \in Seq(S)
  PROVE  /\ s \o t \in Seq(S) /\ Range(s \o t) = Range(s) \union Range(t)
         /\ IsInjective(s) /\ IsInjective(t) /\ Range(s) \intersect Range(t) = {}
              => IsInjective(s \o t)
<1> DEFINE a == s \o t
           m == Len(s)
           n == Len(t)
<1>1. /\ a \in Seq(S) /\ m \in Nat /\ n \in Nat /\ DOMAIN s = 1..m /\ DOMAIN t = 1..n
      /\ DOMAIN a = 1..(m + n)
      /\ \A i \in 1..m : a[i] = s[i]
      /\ \A i \in (m + 1)..(m + n) : a[i] = t[i - m]
  OBVIOUS
<1> HIDE DEF a, m, n
<1>2. \A i \in 1..(m + n) : i \in 1..m \/ (i \in (m + 1)..(m + n) /\ i - m \in 1..n)
  BY <1>1
<1>3. Range(a) = Range(s) \union Range(t)
  <2>1. ASSUME NEW i \in 1..(m + n) PROVE a[i] \in Range(s) \union Range(t)
    BY <1>1, <1>2 DEF Range
  <2>2. ASSUME NEW i \in 1..m PROVE s[i] \in Range(a)
    <3>1. i \in 1..(m + n)
      BY <1>1
    <3> QED BY <1>1, <3>1 DEF Range
  <2>3. ASSUME NEW i \in 1..n PROVE t[i] \in Range(a)
    <3>1. i + m \in 1..(m + n) /\ i + m \in (m + 1)..(m + n) /\ (i + m) - m = i
      BY <1>1
    <3>2. a[i + m] = t[i]
      BY <1>1, <3>1
    <3> QED BY <1>1, <3>1, <3>2 DEF Range
  <2>4. Range(a) \subseteq Range(s) \union Range(t)
    BY <1>1, <2>1 DEF Range
  <2>5. Range(s) \subseteq Range(a)
    BY <1>1, <2>2 DEF Range
  <2>6. Range(t) \subseteq Range(a)
    BY <1>1, <2>3 DEF Range
  <2> QED BY <2>4, <2>5, <2>6
<1>4. ASSUME IsInjective(s), IsInjective(t), Range(s) \intersect Range(t) = {}
      PROVE  IsInjective(a)
  <2> SUFFICES ASSUME NEW i \in 1..(m + n), NEW j \in 1..(m + n), a[i] = a[j] PROVE i = j
    BY <1>1 DEF IsInjective
  <2>1. \A k \in 1..m, l \in 1..n : s[k] # t[l]
    BY <1>1, <1>4 DEF Range
  <2>2. CASE i \in 1..m /\ j \in 1..m
    BY <1>1, <1>4, <2>2 DEF IsInjective
  <2>3. CASE i \notin 1..m /\ j \notin 1..m
    <3>1. i - m \in 1..n /\ j - m \in 1..n /\ t[i - m] = t[j - m]
      BY <1>1, <1>2, <2>3
    <3>2. i - m = j - m
      BY <1>1, <1>4, <3>1 DEF IsInjective
    <3> QED BY <1>1, <3>2
  <2>4. CASE i \in 1..m /\ j \notin 1..m
    BY <1>1, <1>2, <2>1, <2>4
  <2>5. CASE i \notin 1..m /\ j \in 1..m
    BY <1>1, <1>2, <2>1, <2>5
  <2> QED BY <2>2, <2>3, <2>4, <2>5
<1> QED
  BY <1>1, <1>3, <1>4 DEF a
=============================================================================
