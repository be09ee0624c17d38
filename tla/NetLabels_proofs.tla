-------------------------- MODULE NetLabels_proofs --------------------------
(***************************************************************************)
(* Proofs about NetLabels: the netlist gives two nodes one name exactly if *)
(* they belong together, it has each initial voltage once, and a change of *)
(* the schematic leaves no net with a label too many.                      *)
(***************************************************************************)
EXTENDS NetLabels, Selection_proofs, FiniteSetTheorems

-----------------------------------------------------------------------------
\* Wires and their ends.

Lists == Seq(Wire \union Ground)
WiresOf(list) == Range(list) \intersect Wire
Joins(w, m, n) == {Port1[w], Port2[w]} = {m, n}
Neighbours(list, m) == {n \in Node : \E w \in WiresOf(list) : Joins(w, m, n)}

\* There are as many nodes as the list of nodes is long.
LEMMA NodesFinite ==
  /\ Len(Nodes) \in Nat /\ DOMAIN Nodes = 1..Len(Nodes)
  /\ \A i \in 1..Len(Nodes) : Nodes[i] \in Node
  /\ \A n \in Node : \E i \in 1..Len(Nodes) : Nodes[i] = n
  /\ IsFiniteSet(Node) /\ Cardinality(Node) = Len(Nodes)
<1>1. Len(Nodes) \in Nat /\ DOMAIN Nodes = 1..Len(Nodes) /\ Nodes \in [1..Len(Nodes) -> Node]
  BY NodesAssumption
<1>2. \A n \in Node : \E i \in 1..Len(Nodes) : Nodes[i] = n
  BY <1>1 DEF Node, Range
<1>3. Nodes \in Bijection(1..Len(Nodes), Node)
  BY <1>1, <1>2, NodesAssumption DEF Bijection, Injection, Surjection, IsInjective
<1>4. IsFiniteSet(1..Len(Nodes)) /\ Cardinality(1..Len(Nodes)) = Len(Nodes)
  BY <1>1, CountTo
<1>5. IsFiniteSet(Node) /\ Cardinality(Node) = Len(Nodes)
  <2> DEFINE I == 1..Len(Nodes)
  <2> HIDE DEF I
  <2> QED BY <1>3, <1>4, FS_Bijection DEF ExistsBijection, I
<1> QED
  BY <1>1, <1>2, <1>5

\* A wire touches two nodes, its ports.
LEMMA Ends ==
  ASSUME NEW w \in Wire
  PROVE  /\ Port1[w] \in Node /\ Port2[w] \in Node /\ Port1[w] # Port2[w] /\ w \notin Ground
         /\ \A n : Touches(w, n) <=> n = Port1[w] \/ n = Port2[w]
         /\ \A m, n \in Node : Joins(w, m, n) <=> Touches(w, m) /\ n = FarEnd(w, m)
  BY PortsAssumption, PartsAssumption DEF Touches, Joins, FarEnd

\* The far end of a wire is the node it leads to.
LEMMA FarEnds ==
  ASSUME NEW w \in Wire, NEW m, Touches(w, m)
  PROVE  m \in Node /\ FarEnd(w, m) \in Node /\ FarEnd(w, m) # m /\ Joins(w, m, FarEnd(w, m))
  BY Ends, PortsAssumption DEF FarEnd, Joins

\* Two nodes are joined by one wire at most.
LEMMA OneWireEach ==
  ASSUME NEW v \in Wire, NEW w \in Wire, NEW m, NEW n, Joins(v, m, n), Joins(w, m, n)
  PROVE  v = w
  BY PortsAssumption DEF Joins

\* Connections lists what touches the node.
LEMMA ConnectionsAre ==
  ASSUME NEW list \in Lists, NEW m
  PROVE  /\ Connections(list, m) \in Lists
         /\ Range(Connections(list, m)) = {part \in Range(list) : Touches(part, m)}
         /\ \A i \in 1..Len(Connections(list, m)) :
              LET part == Connections(list, m)[i]
              IN  part \in Range(list) /\ Touches(part, m) /\ part \in Wire \union Ground
  <1>1. Range(list) \subseteq Wire \union Ground
    BY DEF Lists, Range
  <1>2. /\ Connections(list, m) \in Lists
        /\ Range(Connections(list, m)) = Range(list) \intersect {part \in Range(list) : Touches(part, m)}
    BY OnlyElements DEF Connections, Lists
  <1>3. \A i \in 1..Len(Connections(list, m)) : Connections(list, m)[i] \in Range(Connections(list, m))
    BY <1>2 DEF Range, Lists
  <1> QED
    BY <1>1, <1>2, <1>3

\* Lists that only grow at their end.
LEMMA NodeLists ==
  ASSUME NEW c \in Seq(Node), NEW n \in Node
  PROVE  /\ Append(c, n) \in Seq(Node) /\ Len(Append(c, n)) = Len(c) + 1
         /\ \A i \in 1..Len(c) : Append(c, n)[i] = c[i]
         /\ Append(c, n)[Len(c) + 1] = n
         /\ Range(Append(c, n)) = Range(c) \union {n}
         /\ IsInjective(c) /\ n \notin Range(c) => IsInjective(Append(c, n))
<1> DEFINE a == Append(c, n)
<1>1. /\ a \in Seq(Node) /\ Len(a) = Len(c) + 1 /\ Len(c) \in Nat
      /\ \A i \in 1..Len(c) : a[i] = c[i]
      /\ a[Len(c) + 1] = n /\ DOMAIN a = 1..(Len(c) + 1) /\ DOMAIN c = 1..Len(c)
  OBVIOUS
<1> HIDE DEF a
<1>2. Range(a) = Range(c) \union {n}
  BY <1>1 DEF Range
<1>3. ASSUME IsInjective(c), n \notin Range(c) PROVE IsInjective(a)
  <2>1. \A i \in 1..Len(c) : c[i] # n
    BY <1>1, <1>3 DEF Range
  <2> QED BY <1>1, <1>3, <2>1 DEF IsInjective
<1> QED
  BY <1>1, <1>2, <1>3 DEF a

\* A list of different nodes is no longer than the list of all.
LEMMA NotTooLong ==
  ASSUME NEW c \in Seq(Node), IsInjective(c)
  PROVE  /\ Len(c) <= Len(Nodes) /\ IsFiniteSet(Range(c)) /\ Cardinality(Range(c)) = Len(c)
<1>1. c \in Bijection(1..Len(c), Range(c))
  BY DEF Bijection, Injection, Surjection, IsInjective, Range
<1> DEFINE I == 1..Len(c)
<1>2. IsFiniteSet(I) /\ Cardinality(I) = Len(c)
  <2>1. Len(c) \in Nat
    OBVIOUS
  <2> QED BY <2>1, CountTo
<1>3. IsFiniteSet(Range(c)) /\ Cardinality(Range(c)) = Len(c)
  <2> HIDE DEF I
  <2> QED BY <1>1, <1>2, FS_Bijection DEF ExistsBijection, I
<1>4. Range(c) \subseteq Node
  BY DEF Range
<1>5. Cardinality(Range(c)) <= Cardinality(Node)
  BY <1>4, NodesFinite, FS_Subset
<1> QED
  BY <1>3, <1>5, NodesFinite

-----------------------------------------------------------------------------
\* Nets.

\* The nodes that wires join to a node.
NetOf(W, n) == {m \in Node : \A S \in SUBSET Node : n \in S /\ Joined(W, S) => m \in S}

\* NetOf is the smallest set with the node that no wire leaves.
LEMMA NetIsJoined ==
  ASSUME NEW W, W \subseteq Wire, NEW n \in Node
  PROVE  /\ n \in NetOf(W, n) /\ NetOf(W, n) \subseteq Node /\ Joined(W, NetOf(W, n))
         /\ \A S \in SUBSET Node : n \in S /\ Joined(W, S) => NetOf(W, n) \subseteq S
<1>1. \A w \in W : Port1[w] \in Node /\ Port2[w] \in Node
  BY Ends
<1> QED
  BY <1>1 DEF NetOf, Joined

\* Wires lead both ways.
LEMMA NetIsShared ==
  ASSUME NEW W, W \subseteq Wire, NEW n \in Node, NEW m \in NetOf(W, n)
  PROVE  NetOf(W, m) = NetOf(W, n)
<1> DEFINE S == NetOf(W, m)
           N == NetOf(W, n)
<1>1. m \in Node /\ S \subseteq Node /\ N \subseteq Node /\ Joined(W, S) /\ Joined(W, N)
  <2>1. m \in Node
    BY DEF NetOf
  <2> QED BY <2>1, NetIsJoined
<1>2. S \subseteq N
  BY <1>1, NetIsJoined
<1>3. \A w \in W : Port1[w] \in Node /\ Port2[w] \in Node
  BY Ends
<1>4. Joined(W, Node \ S)
  BY <1>1, <1>3 DEF Joined
<1>5. n \in S
  <2> SUFFICES ASSUME n \notin S PROVE FALSE
    OBVIOUS
  <2>1. N \subseteq Node \ S
    BY <1>4, NetIsJoined
  <2> QED BY <1>1, <2>1, NetIsJoined
<1>6. N \subseteq S
  BY <1>1, <1>5, NetIsJoined
<1> QED
  BY <1>2, <1>6

\* The nets are the sets of nodes that wires join.
LEMMA NetsAre ==
  ASSUME NEW W, W \subseteq Wire
  PROVE  Nets(W) = {NetOf(W, n) : n \in Node}
<1>1. ASSUME NEW n \in Node PROVE NetOf(W, n) \in Nets(W)
  <2>1. ASSUME NEW S \in SUBSET Node, S # {}, Joined(W, S), S \subseteq NetOf(W, n)
        PROVE  S = NetOf(W, n)
    <3>1. PICK m \in S : TRUE
      BY <2>1
    <3>2. NetOf(W, m) \subseteq S /\ NetOf(W, m) = NetOf(W, n)
      BY <2>1, NetIsJoined, NetIsShared
    <3> QED BY <2>1, <3>2
  <2> QED BY <2>1, NetIsJoined DEF Nets
<1>2. ASSUME NEW N \in Nets(W) PROVE \E n \in Node : N = NetOf(W, n)
  <2>1. N \in SUBSET Node /\ N # {} /\ Joined(W, N)
    BY DEF Nets
  <2>2. PICK n \in N : n \in Node
    BY <2>1
  <2>3. NetOf(W, n) \subseteq N /\ NetOf(W, n) # {} /\ NetOf(W, n) \in SUBSET Node
        /\ Joined(W, NetOf(W, n))
    BY <2>1, <2>2, NetIsJoined
  <2> QED BY <2>2, <2>3 DEF Nets
<1> QED
  BY <1>1, <1>2

\* Each node is in one net.
LEMMA OneNetEach ==
  ASSUME NEW W, W \subseteq Wire
  PROVE  /\ \A N \in Nets(W) : N \subseteq Node /\ N # {} /\ Joined(W, N)
         /\ \A N \in Nets(W) : \A n \in N : N = NetOf(W, n)
         /\ \A N, M \in Nets(W) : N \intersect M # {} => N = M
         /\ \A n \in Node : n \in NetOf(W, n) /\ NetOf(W, n) \in Nets(W)
  BY NetsAre, NetIsShared, NetIsJoined

-----------------------------------------------------------------------------
\* What a walk meets, if it may enter the nodes of U only.

\* A list of nodes becomes longer by all neighbours of a node that it had not.
Grows(c, d, list, m, U) ==
  /\ Len(c) <= Len(d) /\ \A i \in 1..Len(c) : d[i] = c[i]
  /\ IsInjective(c) => IsInjective(d)
  /\ Range(d) = Range(c) \union (Neighbours(list, m) \intersect U)

Entered(c, part, m, U) ==
  IF part \in Wire /\ FarEnd(part, m) \in U /\ FarEnd(part, m) \notin Range(c)
    THEN Append(c, FarEnd(part, m)) ELSE c

\* Over all its connections a node's neighbours are entered, if they may be.
LEMMA EnteredGrows ==
  ASSUME NEW list \in Lists, NEW m \in Node, NEW U,
         NEW d \in [0..Len(Connections(list, m)) -> Seq(Node)], IsInjective(d[0]),
         \A i \in 1..Len(Connections(list, m)) :
            d[i] = Entered(d[i - 1], Connections(list, m)[i], m, U)
  PROVE  Grows(d[0], d[Len(Connections(list, m))], list, m, U)
<1> DEFINE parts == Connections(list, m)
           k == Len(parts)
           Far(i) == {FarEnd(parts[j], m) : j \in {l \in 1..i : parts[l] \in Wire}}
           Good(i) == /\ Len(d[0]) <= Len(d[i]) /\ \A l \in 1..Len(d[0]) : d[i][l] = d[0][l]
                      /\ IsInjective(d[i])
                      /\ Range(d[i]) = Range(d[0]) \union (Far(i) \intersect U)
           G == {i \in 0..k : Good(i)}
<1>1. k \in Nat /\ parts \in Lists
      /\ Range(parts) = {part \in Range(list) : Touches(part, m)}
      /\ \A i \in 1..k : Touches(parts[i], m)
  <2>1. /\ parts \in Lists /\ Range(parts) = {part \in Range(list) : Touches(part, m)}
        /\ \A i \in 1..k : Touches(parts[i], m)
    BY ConnectionsAre
  <2>2. Len(parts) \in Nat
    BY <2>1 DEF Lists
  <2> QED BY <2>1, <2>2
<1>2. 0 \in G
  <2>1. Far(0) = {}
    OBVIOUS
  <2>2. 0 \in 0..k /\ Len(d[0]) \in Nat
    BY <1>1
  <2> QED BY <2>1, <2>2
<1>3. ASSUME NEW i \in 0..(k - 1), i \in G PROVE i + 1 \in G
  <2> DEFINE part == parts[i + 1]
             far == FarEnd(part, m)
  <2>1. i + 1 \in 1..k /\ (i + 1) - 1 = i /\ i \in 0..k /\ i + 1 \in 0..k
    BY <1>1
  <2>2. d[i + 1] = Entered(d[i], part, m, U) /\ d[i] \in Seq(Node) /\ Good(i)
    BY <1>3, <2>1
  <2>3. Far(i + 1) = Far(i) \union IF part \in Wire THEN {far} ELSE {}
    <3>1. 1..(i + 1) = (1..i) \union {i + 1}
      BY <2>1
    <3> HIDE DEF parts
    <3> QED BY <3>1
  <2>4. part \in Wire => far \in Node
    BY <1>1, <2>1, FarEnds
  <2> HIDE DEF Far, far, part
  <2>5. CASE part \in Wire /\ far \in U /\ far \notin Range(d[i])
    <3>1. d[i + 1] = Append(d[i], far)
      BY <2>2, <2>5 DEF Entered, far
    <3>2. /\ Len(d[i + 1]) = Len(d[i]) + 1
          /\ \A l \in 1..Len(d[i]) : d[i + 1][l] = d[i][l]
          /\ Range(d[i + 1]) = Range(d[i]) \union {far}
          /\ IsInjective(d[i + 1])
      BY <2>2, <2>4, <2>5, <3>1, NodeLists
    <3>3. Len(d[0]) \in Nat /\ Len(d[i]) \in Nat
      BY <1>1, <2>1
    <3>4. Len(d[0]) <= Len(d[i + 1]) /\ \A l \in 1..Len(d[0]) : d[i + 1][l] = d[0][l]
      BY <2>2, <3>2, <3>3
    <3>5. Range(d[i + 1]) = Range(d[0]) \union (Far(i + 1) \intersect U)
      BY <2>2, <2>3, <2>5, <3>2
    <3> QED BY <2>1, <3>2, <3>4, <3>5
  <2>6. CASE ~(part \in Wire /\ far \in U /\ far \notin Range(d[i]))
    <3>1. d[i + 1] = d[i]
      BY <2>2, <2>6 DEF Entered, far
    <3>2. Range(d[i + 1]) = Range(d[0]) \union (Far(i + 1) \intersect U)
      BY <2>2, <2>3, <2>6, <3>1
    <3> QED BY <2>1, <2>2, <3>1, <3>2
  <2> QED BY <2>5, <2>6
<1>4. k \in G
  <2> HIDE DEF G, k
  <2>1. 0..k \subseteq G
    BY <1>1, <1>2, <1>3, InductionUpTo
  <2> QED BY <1>1, <2>1
<1>5. Far(k) = Neighbours(list, m)
  <2>1. ASSUME NEW n \in Neighbours(list, m) PROVE n \in Far(k)
    <3>1. PICK w \in WiresOf(list) : Joins(w, m, n)
      BY DEF Neighbours
    <3>2. w \in Wire /\ w \in Range(list) /\ Touches(w, m) /\ n = FarEnd(w, m)
      BY <2>1, <3>1, Ends DEF WiresOf, Neighbours
    <3>3. PICK j \in DOMAIN parts : parts[j] = w
      BY <1>1, <3>2 DEF Range
    <3>4. j \in 1..k
      BY <1>1, <3>3 DEF Lists
    <3> QED BY <3>2, <3>3, <3>4
  <2>2. ASSUME NEW j \in 1..k, parts[j] \in Wire PROVE FarEnd(parts[j], m) \in Neighbours(list, m)
    <3>1. Touches(parts[j], m) /\ parts[j] \in Range(list)
      BY ConnectionsAre
    <3> QED BY <2>2, <3>1, FarEnds DEF Neighbours, WiresOf
  <2> QED BY <2>1, <2>2
<1> QED
  BY <1>4, <1>5 DEF Grows

\* The rounds of a walk and what is met in them.
WalkSteps(list, U, start, c) ==
  /\ c \in [0..Len(Nodes) -> Seq(Node)] /\ c[0] = <<start>>
  /\ \A i \in 1..Len(Nodes) :
       IF i > Len(c[i - 1]) THEN c[i] = c[i - 1]
       ELSE Grows(c[i - 1], c[i], list, c[i - 1][i], U)

MetFrom(list, U, start, met) ==
  /\ IsInjective(met) /\ met[1] = start /\ Len(met) >= 1
  /\ \A S \in SUBSET Node : start \in S /\ Joined(WiresOf(list), S) => Range(met) \subseteq S
  /\ \A m \in Range(met) : Neighbours(list, m) \intersect U \subseteq Range(met)

\* The list of nodes of a walk, round by round.
LEMMA WalkMeets ==
  ASSUME NEW list \in Lists, NEW U, NEW start \in Node, NEW c, WalkSteps(list, U, start, c)
  PROVE  MetFrom(list, U, start, c[Len(Nodes)])
<1> DEFINE k == Len(Nodes)
           Good(i) ==
             /\ IsInjective(c[i]) /\ c[i][1] = start /\ Len(c[i]) >= 1
             /\ \A S \in SUBSET Node : start \in S /\ Joined(WiresOf(list), S) => Range(c[i]) \subseteq S
             /\ \A j \in 1..Len(c[i]) : j <= i => Neighbours(list, c[i][j]) \intersect U \subseteq Range(c[i])
           G == {i \in 0..k : Good(i)}
<1>1. /\ k \in Nat
      /\ c \in [0..k -> Seq(Node)] /\ c[0] = <<start>>
      /\ \A i \in 1..k : IF i > Len(c[i - 1]) THEN c[i] = c[i - 1]
                        ELSE Grows(c[i - 1], c[i], list, c[i - 1][i], U)
  BY NodesFinite DEF WalkSteps
<1>2. 0 \in G
  <2> DEFINE a == <<start>>
  <2>1. /\ a \in Seq(Node) /\ Len(a) = 1 /\ a[1] = start /\ DOMAIN a = 1..1
    OBVIOUS
  <2>2. IsInjective(a) /\ Range(a) = {start}
    <3> HIDE DEF a
    <3> QED BY <2>1 DEF IsInjective, Range
  <2> HIDE DEF a
  <2>3. c[0] = a /\ 0 \in 0..k
    BY <1>1 DEF a
  <2> QED BY <2>1, <2>2, <2>3
<1>3. ASSUME NEW i \in 0..(k - 1), i \in G PROVE i + 1 \in G
  <2>1. i + 1 \in 1..k /\ (i + 1) - 1 = i /\ i \in 0..k /\ i + 1 \in 0..k
    BY <1>1
  <2>2. Good(i) /\ c[i] \in Seq(Node) /\ c[i + 1] \in Seq(Node)
    BY <1>1, <1>3, <2>1
  <2>3. IF i + 1 > Len(c[i]) THEN c[i + 1] = c[i] ELSE Grows(c[i], c[i + 1], list, c[i][i + 1], U)
    BY <1>1, <2>1
  <2>4. CASE i + 1 > Len(c[i])
    <3>1. c[i + 1] = c[i] /\ Len(c[i]) \in Nat
      BY <2>2, <2>3, <2>4
    <3>2. \A j \in 1..Len(c[i]) : j <= i
      BY <2>1, <2>4, <3>1
    <3> QED BY <2>1, <2>2, <3>1, <3>2
  <2>5. CASE ~(i + 1 > Len(c[i]))
    <3> DEFINE m == c[i][i + 1]
    <3>1. /\ Len(c[i]) <= Len(c[i + 1]) /\ \A l \in 1..Len(c[i]) : c[i + 1][l] = c[i][l]
          /\ IsInjective(c[i + 1])
          /\ Range(c[i + 1]) = Range(c[i]) \union (Neighbours(list, m) \intersect U)
          /\ Len(c[i]) \in Nat /\ Len(c[i + 1]) \in Nat
      <4>1. Grows(c[i], c[i + 1], list, m, U) /\ IsInjective(c[i])
        BY <2>2, <2>3, <2>5
      <4>2. Len(c[i]) \in Nat /\ Len(c[i + 1]) \in Nat
        BY <2>2
      <4> QED BY <4>1, <4>2 DEF Grows
    <3>2. i + 1 \in 1..Len(c[i]) /\ m \in Range(c[i]) /\ m \in Node /\ m = c[i + 1][i + 1]
      <4>1. i + 1 \in 1..Len(c[i])
        BY <2>1, <2>5, <3>1
      <4> QED BY <2>2, <3>1, <4>1 DEF Range
    <3>3. ASSUME NEW S \in SUBSET Node, start \in S, Joined(WiresOf(list), S)
          PROVE  Range(c[i + 1]) \subseteq S
      <4>1. m \in S
        BY <2>2, <3>2, <3>3
      <4>2. ASSUME NEW n \in Neighbours(list, m) PROVE n \in S
        <5>1. PICK w \in WiresOf(list) : Joins(w, m, n)
          BY DEF Neighbours
        <5>2. (m = Port1[w] /\ n = Port2[w]) \/ (m = Port2[w] /\ n = Port1[w])
          <6>1. w \in Wire /\ n \in Node
            BY <5>1 DEF WiresOf, Neighbours
          <6>2. Touches(w, m) /\ n = FarEnd(w, m)
            BY <3>2, <5>1, <6>1, Ends
          <6> QED BY <6>1, <6>2, Ends DEF FarEnd
        <5> QED BY <3>3, <4>1, <5>1, <5>2 DEF Joined
      <4> QED BY <2>2, <3>1, <3>3, <4>2
    <3>4. ASSUME NEW j \in 1..Len(c[i + 1]), j <= i + 1
          PROVE  Neighbours(list, c[i + 1][j]) \intersect U \subseteq Range(c[i + 1])
      <4>1. CASE j <= i
        <5>1. i \in Nat /\ i + 1 <= Len(c[i]) /\ Len(c[i]) \in Nat /\ j \in Nat /\ j >= 1
          BY <2>1, <2>5, <3>1, <3>4
        <5>2. j \in 1..Len(c[i]) /\ c[i + 1][j] = c[i][j]
          BY <3>1, <4>1, <5>1
        <5> QED BY <2>2, <3>1, <4>1, <5>2
      <4>2. CASE j = i + 1
        BY <3>1, <3>2, <4>2
      <4> QED BY <2>1, <3>1, <3>4, <4>1, <4>2
    <3>5. c[i + 1][1] = start /\ Len(c[i + 1]) >= 1
      <4>1. c[i][1] = start /\ Len(c[i]) >= 1
        BY <2>2
      <4>2. 1 \in 1..Len(c[i])
        BY <3>1, <4>1
      <4> QED BY <3>1, <4>1, <4>2
    <3> QED BY <2>1, <3>1, <3>3, <3>4, <3>5
  <2> QED BY <2>4, <2>5
<1>4. Good(k) /\ c[k] \in Seq(Node)
  <2> HIDE DEF Good
  <2>1. 0..k \subseteq G
    <3> HIDE DEF G, k
    <3> QED BY <1>1, <1>2, <1>3, InductionUpTo
  <2> QED BY <1>1, <2>1
<1>5. Len(c[k]) <= k /\ Len(c[k]) \in Nat
  BY <1>1, <1>4, NotTooLong
<1>6. ASSUME NEW m \in Range(c[k]) PROVE Neighbours(list, m) \intersect U \subseteq Range(c[k])
  <2>1. PICK j \in 1..Len(c[k]) : m = c[k][j]
    BY <1>4 DEF Range
  <2>2. j <= k
    BY <1>1, <1>5
  <2> QED BY <1>4, <2>1, <2>2
<1>7. MetFrom(list, U, start, c[k])
  BY <1>4, <1>6 DEF MetFrom
<1> QED
  BY <1>7

-----------------------------------------------------------------------------
\* The names given to nodes.

Names == {NoName, Gnd} \union {NameOf(t) : t \in LabelText} \union {Numbered(k) : k \in Nat}

\* The variables of giveNodeNames.
Naming ==
  [name : [Node -> Names], done : SUBSET Node, sets : Seq(Names), cons : Seq(Node), z : Nat]

SchematicOK ==
  /\ drawn \in Lists
  /\ active \subseteq Range(drawn) \intersect Ground
  /\ label \in [Conductor -> LabelText \union {Nothing}]
  /\ Labelled \subseteq Node \union Wires

HasVoltage(c) == label[c] # Nothing /\ label[c][2]

\* createNodeSet adds a line if the label has an initial voltage.
LEMMA NodeSetIs ==
  ASSUME SchematicOK, NEW s \in Naming, NEW c \in Conductor, NEW n \in Node
  PROVE  /\ NodeSet(s, c, n) \in Naming
         /\ NodeSet(s, c, n) =
              IF HasVoltage(c) THEN [s EXCEPT !.sets = Append(s.sets, s.name[n])] ELSE s
<1>1. NodeSet(s, c, n) = IF HasVoltage(c) THEN [s EXCEPT !.sets = Append(s.sets, s.name[n])] ELSE s
  BY DEF NodeSet, HasVoltage
<1>2. s.name[n] \in Names /\ s.sets \in Seq(Names)
  BY DEF Naming
<1> DEFINE sets == Append(s.sets, s.name[n])
<1>3. [s EXCEPT !.sets = sets] \in Naming
  <2>1. sets \in Seq(Names)
    BY <1>2
  <2> HIDE DEF sets
  <2> QED BY <2>1 DEF Naming
<1> QED
  BY <1>1, <1>3

\* One connection: the far end of a wire gets the name if it has none.
Passed(first, s, m, part, t) ==
  IF part \notin Wire \/ s.name[FarEnd(part, m)] # NoName THEN t = s
  ELSE /\ t.name = [s.name EXCEPT ![FarEnd(part, m)] = s.name[first]]
       /\ t.done = s.done \union {FarEnd(part, m)}
       /\ t.cons = Append(s.cons, FarEnd(part, m))
       /\ t.z = s.z
       /\ t.sets = IF HasVoltage(part) THEN Append(s.sets, t.name[first]) ELSE s.sets

\* One connection of propagateNode keeps the types.
LEMMA PropagateLookIs ==
  ASSUME SchematicOK, NEW first \in Node, NEW s \in Naming, NEW m \in Node,
         NEW part \in Wire \union Ground, Touches(part, m)
  PROVE  /\ PropagateLook(first, s, m, part) \in Naming
         /\ Passed(first, s, m, part, PropagateLook(first, s, m, part))
<1> DEFINE far == FarEnd(part, m)
           named == [s.name EXCEPT ![far] = s.name[first]]
           cons == Append(s.cons, far)
           done == s.done \union {far}
           r == [s EXCEPT !.name = named, !.cons = cons, !.done = done]
<1>1. CASE part \notin Wire
  BY <1>1 DEF PropagateLook, Passed
<1>2. CASE part \in Wire /\ s.name[far] # NoName
  BY <1>2, Ends DEF PropagateLook, Passed
<1>3. CASE part \in Wire /\ s.name[far] = NoName
  <2>1. far \in Node /\ part \in Conductor /\ part \notin Ground
    BY <1>3, FarEnds, Ends DEF Conductor
  <2>2. PropagateLook(first, s, m, part) = NodeSet(r, part, first)
    BY <1>3, <2>1 DEF PropagateLook, Naming
  <2>3. named \in [Node -> Names] /\ cons \in Seq(Node) /\ done \in SUBSET Node
    BY <2>1 DEF Naming
  <2> HIDE DEF named, cons, done
  <2>4. /\ r \in Naming /\ r.name = named /\ r.cons = cons /\ r.done = done
        /\ r.sets = s.sets /\ r.z = s.z
    BY <2>3 DEF Naming
  <2> HIDE DEF r
  <2>5. /\ NodeSet(r, part, first) \in Naming
        /\ NodeSet(r, part, first)
             = IF HasVoltage(part) THEN [r EXCEPT !.sets = Append(r.sets, r.name[first])] ELSE r
    BY <2>1, <2>4, NodeSetIs
  <2> DEFINE t == NodeSet(r, part, first)
  <2>6. /\ t.name = named /\ t.cons = cons /\ t.done = done /\ t.z = s.z
        /\ t.sets = IF HasVoltage(part) THEN Append(s.sets, named[first]) ELSE s.sets
    BY <2>4, <2>5 DEF Naming
  <2> HIDE DEF t
  <2>7. Passed(first, s, m, part, t)
    BY <1>3, <2>6 DEF Passed, named, cons, done
  <2> QED BY <2>2, <2>5, <2>7 DEF t
<1> QED
  BY <1>1, <1>2, <1>3

\* All connections of a node, one after the other.
PropagateAll(first, s, m) ==
  Rounds(Len(Connections(drawn, m)), s,
         LAMBDA t, i : PropagateLook(first, t, m, Connections(drawn, m)[i]))

Looked(d, n, s, m) ==
  /\ d \in [0..Len(Connections(drawn, m)) -> Naming] /\ d[0] = s
  /\ \A i \in 1..Len(Connections(drawn, m)) :
       d[i] = PropagateLook(n, d[i - 1], m, Connections(drawn, m)[i])

\* The connections of a node are looked at one after the other.
LEMMA PropagateAllRuns ==
  ASSUME SchematicOK, NEW s \in Naming, NEW n0 \in Node, NEW m \in Node
  PROVE  \E d : Looked(d, n0, s, m) /\ PropagateAll(n0, s, m) = d[Len(Connections(drawn, m))]
<1> DEFINE n == Len(Connections(drawn, m))
           V == Naming
           first == s
           Round(r, i) == PropagateLook(n0, r, m, Connections(drawn, m)[i])
           step == [p \in (1..n) \X V |-> Round(p[2], p[1])]
           Body(g) == [i \in 0..n |-> IF i = 0 THEN first ELSE Round(g[i - 1], i)]
           h == CHOOSE g : g = Body(g)
<1>1. n \in Nat /\ first \in V
  BY ConnectionsAre DEF Lists, SchematicOK
<1>2. \A i \in 1..n, r \in V : Round(r, i) \in V
  <2> SUFFICES ASSUME NEW i \in 1..n, NEW r \in Naming
               PROVE  PropagateLook(n0, r, m, Connections(drawn, m)[i]) \in Naming
    OBVIOUS
  <2>1. /\ Connections(drawn, m)[i] \in Wire \union Ground
        /\ Touches(Connections(drawn, m)[i], m)
    BY ConnectionsAre DEF SchematicOK
  <2> QED BY <2>1, PropagateLookIs
<1>3. PropagateAll(n0, s, m) = h[n]
  BY DEF PropagateAll, Rounds
<1> HIDE DEF n, V, first, Round
<1>4. step \in Steps(n, V)
  BY <1>2 DEF Steps
<1>5. PICK f : Run(f, n, V, first, step)
  <2> HIDE DEF step
  <2> QED BY <1>1, <1>4, RunOfRounds
<1>6. \A i \in 1..n : f[i] = Round(f[i - 1], i)
  BY <1>5 DEF Run
<1>7. f = Body(f)
  <2>1. \A i \in 0..n : i = 0 \/ i \in 1..n
    BY <1>1
  <2>2. \A i \in 0..n : f[i] = Body(f)[i]
    BY <1>5, <1>6, <2>1 DEF Run
  <2> QED BY <1>5, <2>2 DEF Run
<1>8. h = Body(h)
  <2> HIDE DEF Body
  <2> QED BY <1>7
<1>9. h[0] = first /\ \A i \in 1..n : h[i - 1] \in V => h[i] = step[<<i, h[i - 1]>>]
  <2> HIDE DEF h
  <2>1. 0 \in 0..n /\ \A i \in 1..n : i \in 0..n /\ i # 0
    BY <1>1
  <2> QED BY <1>8, <2>1
<1> HIDE DEF h, step
<1>10. h[n] = f[n]
  BY <1>1, <1>5, <1>9 DEF Run
<1> QED
  BY <1>3, <1>5, <1>6, <1>10 DEF Run, Looked, n, V, first, Round

\* The whole walk.
Propagated(c, s, n) ==
  /\ c \in [0..Len(Nodes) -> Naming] /\ c[0] = [s EXCEPT !.cons = <<n>>]
  /\ \A i \in 1..Len(Nodes) :
       c[i] = IF i > Len(c[i - 1].cons) THEN c[i - 1]
              ELSE PropagateAll(n, c[i - 1], c[i - 1].cons[i])

\* The nodes of the walk are taken one after the other.
LEMMA PropagateNodeRuns ==
  ASSUME SchematicOK, NEW s \in Naming, NEW n0 \in Node
  PROVE  \E c : Propagated(c, s, n0) /\ PropagateNode(s, n0) = c[Len(Nodes)]
<1> DEFINE n == Len(Nodes)
           V == Naming
           first == [s EXCEPT !.cons = <<n0>>]
           Round(r, i) == IF i > Len(r.cons) THEN r ELSE PropagateAll(n0, r, r.cons[i])
           step == [p \in (1..n) \X V |-> Round(p[2], p[1])]
           Body(g) == [i \in 0..n |-> IF i = 0 THEN first ELSE Round(g[i - 1], i)]
           h == CHOOSE g : g = Body(g)
<1>1. n \in Nat /\ first \in V
  <2>1. Len(Nodes) \in Nat /\ <<n0>> \in Seq(Node)
    BY NodesFinite
  <2> DEFINE a == <<n0>>
  <2> HIDE DEF a
  <2>2. a \in Seq(Node) => [s EXCEPT !.cons = a] \in Naming
    BY DEF Naming
  <2> QED BY <2>1, <2>2 DEF a
<1>2. \A i \in 1..n, r \in V : Round(r, i) \in V
  <2> SUFFICES ASSUME NEW i \in 1..n, NEW r \in Naming, ~(i > Len(r.cons))
               PROVE  PropagateAll(n0, r, r.cons[i]) \in Naming
    BY DEF Naming
  <2>1. r.cons[i] \in Node
    BY NodesFinite DEF Naming
  <2> QED
    <3>1. PICK d : Looked(d, n0, r, r.cons[i])
                  /\ PropagateAll(n0, r, r.cons[i]) = d[Len(Connections(drawn, r.cons[i]))]
      BY <2>1, PropagateAllRuns
    <3>2. Len(Connections(drawn, r.cons[i])) \in 0..Len(Connections(drawn, r.cons[i]))
      BY <2>1, ConnectionsAre DEF Lists, SchematicOK
    <3> QED BY <3>1, <3>2 DEF Looked
<1>3. PropagateNode(s, n0) = h[n]
  BY DEF PropagateNode, Walk, Rounds, PropagateAll
<1> HIDE DEF n, V, first, Round
<1>4. step \in Steps(n, V)
  BY <1>2 DEF Steps
<1>5. PICK f : Run(f, n, V, first, step)
  <2> HIDE DEF step
  <2> QED BY <1>1, <1>4, RunOfRounds
<1>6. \A i \in 1..n : f[i] = Round(f[i - 1], i)
  BY <1>5 DEF Run
<1>7. f = Body(f)
  <2>1. \A i \in 0..n : i = 0 \/ i \in 1..n
    BY <1>1
  <2>2. \A i \in 0..n : f[i] = Body(f)[i]
    BY <1>5, <1>6, <2>1 DEF Run
  <2> QED BY <1>5, <2>2 DEF Run
<1>8. h = Body(h)
  <2> HIDE DEF Body
  <2> QED BY <1>7
<1>9. h[0] = first /\ \A i \in 1..n : h[i - 1] \in V => h[i] = step[<<i, h[i - 1]>>]
  <2> HIDE DEF h
  <2>1. 0 \in 0..n /\ \A i \in 1..n : i \in 0..n /\ i # 0
    BY <1>1
  <2> QED BY <1>8, <2>1
<1> HIDE DEF h, step
<1>10. h[n] = f[n]
  BY <1>1, <1>5, <1>9 DEF Run
<1> QED
  BY <1>3, <1>5, <1>6, <1>10 DEF Run, Propagated, n, V, first, Round

\* The names after a walk from n that began with s: all nodes that it entered
\* have the name of n now.
Unnamed(s) == {m \in Node : s.name[m] = NoName}

Spread(s, n, t) ==
  /\ Range(t.cons) \subseteq Unnamed(s) \union {n} /\ n \in Range(t.cons)
  /\ \A m \in Node : t.name[m] = IF m \in Range(t.cons) THEN s.name[n] ELSE s.name[m]
  /\ t.done = s.done \union (Range(t.cons) \ {n})
  /\ t.z = s.z

\* The NodeSet lines are those of the conductors C.
Recorded(t, C) ==
  \E f \in Seq(Conductor) :
     /\ IsInjective(f) /\ Range(f) = C /\ Len(f) = Len(t.sets)
     /\ \A i \in 1..Len(f) : HasVoltage(f[i]) /\ t.sets[i] = t.name[Start(f[i])]
     /\ \A c \in C : /\ t.name[Start(c)] # NoName
                     /\ c \in Wire => t.name[Port2[c]] # NoName
                     /\ c \in Node => c \in t.done

\* Names that have been given are not changed.
Later(t, r) ==
  /\ \A m \in Node : t.name[m] # NoName => r.name[m] = t.name[m]
  /\ t.done \subseteq r.done

\* A label belongs to a node.
LEMMA Starts == \A c \in Conductor : Start(c) \in Node
  BY PortsAssumption DEF Start, Conductor

\* More names do not change which voltages are recorded.
LEMMA RecordedStays ==
  ASSUME NEW t \in Naming, NEW r \in Naming, NEW C, Recorded(t, C), Later(t, r), r.sets = t.sets
  PROVE  Recorded(r, C)
<1>1. PICK f \in Seq(Conductor) :
        /\ IsInjective(f) /\ Range(f) = C /\ Len(f) = Len(t.sets)
        /\ \A i \in 1..Len(f) : HasVoltage(f[i]) /\ t.sets[i] = t.name[Start(f[i])]
        /\ \A c \in C : /\ t.name[Start(c)] # NoName
                        /\ c \in Wire => t.name[Port2[c]] # NoName
                        /\ c \in Node => c \in t.done
  BY DEF Recorded
<1>2. C \subseteq Conductor /\ \A i \in 1..Len(f) : f[i] \in C
  BY <1>1 DEF Range
<1>3. \A c \in C : /\ Start(c) \in Node /\ r.name[Start(c)] = t.name[Start(c)]
                   /\ c \in Wire => r.name[Port2[c]] = t.name[Port2[c]]
  BY <1>1, <1>2, Starts, PortsAssumption DEF Later
<1>4. \A i \in 1..Len(f) : r.sets[i] = r.name[Start(f[i])]
  BY <1>1, <1>2, <1>3
<1> QED
  <2>1. t.done \subseteq r.done
    BY DEF Later
  <2>2. \A c \in C : /\ r.name[Start(c)] # NoName
                     /\ c \in Wire => r.name[Port2[c]] # NoName
                     /\ c \in Node => c \in r.done
    BY <1>1, <1>3, <2>1
  <2>3. \A i \in 1..Len(f) : HasVoltage(f[i]) /\ r.sets[i] = r.name[Start(f[i])]
    BY <1>1, <1>4
  <2>4. f \in Seq(Conductor) /\ IsInjective(f) /\ Range(f) = C /\ Len(f) = Len(r.sets)
    BY <1>1
  <2> QED BY <2>2, <2>3, <2>4, Zenon DEF Recorded

\* A line more for a conductor that had none.
LEMMA RecordedMore ==
  ASSUME NEW t \in Naming, NEW r \in Naming, NEW C, Recorded(t, C), Later(t, r),
         NEW c \in Conductor, c \notin C, HasVoltage(c),
         r.sets = Append(t.sets, r.name[Start(c)]), r.name[Start(c)] # NoName,
         c \in Wire => r.name[Port2[c]] # NoName,
         c \in Node => c \in r.done
  PROVE  Recorded(r, C \union {c})
<1>1. PICK f \in Seq(Conductor) :
        /\ IsInjective(f) /\ Range(f) = C /\ Len(f) = Len(t.sets)
        /\ \A i \in 1..Len(f) : HasVoltage(f[i]) /\ t.sets[i] = t.name[Start(f[i])]
        /\ \A b \in C : /\ t.name[Start(b)] # NoName
                        /\ b \in Wire => t.name[Port2[b]] # NoName
                        /\ b \in Node => b \in t.done
  BY DEF Recorded
<1>2. C \subseteq Conductor /\ \A i \in 1..Len(f) : f[i] \in C
  BY <1>1 DEF Range
<1>3. \A b \in C : /\ Start(b) \in Node /\ r.name[Start(b)] = t.name[Start(b)]
                   /\ b \in Wire => r.name[Port2[b]] = t.name[Port2[b]]
  BY <1>1, <1>2, Starts, PortsAssumption DEF Later
<1> DEFINE g == Append(f, c)
<1>4. /\ g \in Seq(Conductor) /\ Len(g) = Len(f) + 1 /\ Len(f) \in Nat
      /\ \A i \in 1..Len(f) : g[i] = f[i]
      /\ g[Len(f) + 1] = c /\ DOMAIN g = 1..(Len(f) + 1) /\ DOMAIN f = 1..Len(f)
  OBVIOUS
<1>5. /\ r.sets \in Seq(Names) /\ Len(r.sets) = Len(t.sets) + 1
      /\ \A i \in 1..Len(t.sets) : r.sets[i] = t.sets[i]
      /\ r.sets[Len(t.sets) + 1] = r.name[Start(c)]
  <2>1. t.sets \in Seq(Names) /\ r.sets \in Seq(Names)
    BY DEF Naming
  <2> QED BY <2>1
<1> HIDE DEF g
<1>6. Range(g) = C \union {c}
  <2>1. \A i \in 1..(Len(f) + 1) : i \in 1..Len(f) \/ i = Len(f) + 1
    BY <1>4
  <2>2. \A b \in Range(g) : b \in C \union {c}
    BY <1>1, <1>4, <2>1 DEF Range
  <2>3. \A i \in 1..Len(f) : i \in 1..(Len(f) + 1)
    BY <1>4
  <2>4. \A b \in C : b \in Range(g)
    BY <1>1, <1>4, <2>3 DEF Range
  <2>5. c \in Range(g)
    BY <1>4 DEF Range
  <2> QED BY <2>2, <2>4, <2>5
<1>7. IsInjective(g)
  BY <1>1, <1>2, <1>4 DEF IsInjective
<1>8. \A i \in 1..Len(g) : HasVoltage(g[i]) /\ r.sets[i] = r.name[Start(g[i])]
  <2> SUFFICES ASSUME NEW i \in 1..Len(g) PROVE HasVoltage(g[i]) /\ r.sets[i] = r.name[Start(g[i])]
    OBVIOUS
  <2>1. CASE i \in 1..Len(f)
    BY <1>1, <1>2, <1>3, <1>4, <1>5, <2>1
  <2>2. CASE i = Len(f) + 1
    <3>1. g[i] = c /\ i = Len(t.sets) + 1
      BY <1>1, <1>4, <2>2
    <3>2. r.sets[i] = r.name[Start(c)]
      BY <1>5, <3>1
    <3> QED BY <3>1, <3>2
  <2>3. i \in 1..Len(f) \/ i = Len(f) + 1
    BY <1>4
  <2> QED BY <2>1, <2>2, <2>3
<1>9. \A b \in C \union {c} : /\ r.name[Start(b)] # NoName
                              /\ b \in Wire => r.name[Port2[b]] # NoName
                              /\ b \in Node => b \in r.done
  BY <1>1, <1>3 DEF Later
<1>10. g \in Seq(Conductor) /\ Len(g) = Len(r.sets)
  BY <1>1, <1>4, <1>5, LenProperties DEF Naming
<1> QED
  BY <1>6, <1>7, <1>8, <1>9, <1>10 DEF Recorded

\* The wire over which the name goes and that has an initial voltage.
Crossed(t, m, part) ==
  IF part \in Wire /\ t.name[FarEnd(part, m)] = NoName /\ HasVoltage(part) THEN {part} ELSE {}

\* One connection of propagateNode spreads the name and records a voltage.
LEMMA SpreadStep ==
  ASSUME SchematicOK, NEW s \in Naming, NEW n \in Node, s.name[n] # NoName,
         NEW t \in Naming, Spread(s, n, t), NEW C, Recorded(t, C),
         NEW m \in Node, m \in Range(t.cons), NEW part \in Wire \union Ground, Touches(part, m)
  PROVE  LET r == PropagateLook(n, t, m, part)
         IN  /\ r \in Naming /\ Spread(s, n, r)
             /\ r.cons = Entered(t.cons, part, m, Unnamed(s))
             /\ Recorded(r, C \union Crossed(t, m, part))
<1> DEFINE r == PropagateLook(n, t, m, part)
           far == FarEnd(part, m)
<1>1. r \in Naming /\ Passed(n, t, m, part, r)
  BY PropagateLookIs
<1> HIDE DEF r
<1>2. ASSUME part \in Wire
      PROVE  /\ far \in Node
             /\ t.name[far] # NoName <=> far \notin Unnamed(s) \/ far \in Range(t.cons)
  <2>1. far \in Node
    BY <1>2, FarEnds
  <2> QED BY <2>1 DEF Spread, Unnamed
<1>3. CASE part \notin Wire \/ t.name[far] # NoName
  <2>1. r = t /\ Crossed(t, m, part) = {}
    BY <1>1, <1>3 DEF Passed, Crossed
  <2>2. t.cons = Entered(t.cons, part, m, Unnamed(s))
    BY <1>2, <1>3 DEF Entered
  <2>3. C \union Crossed(t, m, part) = C
    BY <2>1
  <2> QED BY <1>1, <2>1, <2>2, <2>3 DEF r
<1>4. CASE part \in Wire /\ t.name[far] = NoName
  <2>1. /\ r.name = [t.name EXCEPT ![far] = t.name[n]] /\ r.done = t.done \union {far}
        /\ r.cons = Append(t.cons, far) /\ r.z = t.z
        /\ r.sets = IF HasVoltage(part) THEN Append(t.sets, r.name[n]) ELSE t.sets
    BY <1>1, <1>4 DEF Passed
  <2>2. /\ far \in Node /\ far \in Unnamed(s) /\ far \notin Range(t.cons) /\ far # n /\ far # m
        /\ t.cons \in Seq(Node) /\ t.name \in [Node -> Names]
    BY <1>2, <1>4, FarEnds DEF Spread, Naming
  <2>3. Range(r.cons) = Range(t.cons) \union {far}
    BY <2>1, <2>2, NodeLists
  <2>4. t.name[n] = s.name[n] /\ t.name[m] = s.name[n]
    BY DEF Spread
  <2>5. \A k \in Node : r.name[k] = IF k = far THEN s.name[n] ELSE t.name[k]
    BY <2>1, <2>2, <2>4
  <2>6. Spread(s, n, r)
    BY <2>1, <2>2, <2>3, <2>5 DEF Spread
  <2>7. r.cons = Entered(t.cons, part, m, Unnamed(s))
    BY <1>4, <2>1, <2>2 DEF Entered
  <2>8. Later(t, r)
    BY <1>4, <2>1, <2>5 DEF Later
  <2>9. Recorded(r, C \union Crossed(t, m, part))
    <3>1. CASE ~HasVoltage(part)
      <4>1. C \union Crossed(t, m, part) = C
        BY <3>1 DEF Crossed
      <4> QED BY <1>1, <2>1, <2>8, <3>1, <4>1, RecordedStays
    <3>2. CASE HasVoltage(part)
      <4>1. C \union Crossed(t, m, part) = C \union {part}
        BY <1>4, <3>2 DEF Crossed
      <4>2. /\ part \in Conductor /\ part \notin Node /\ Start(part) = Port1[part]
            /\ {Port1[part], Port2[part]} = {m, far}
        BY <1>4, PartsAssumption, FarEnds DEF Conductor, Start, Joins
      <4>3. part \notin C
        BY <1>4, <4>2 DEF Recorded
      <4>4. r.name[Port1[part]] = s.name[n] /\ r.name[Port2[part]] = s.name[n] /\ r.name[n] = s.name[n]
        BY <2>2, <2>4, <2>5, <4>2
      <4>5. r.sets = Append(t.sets, r.name[Start(part)]) /\ r.name[Start(part)] # NoName
        BY <2>1, <3>2, <4>2, <4>4
      <4> QED BY <1>1, <2>8, <3>2, <4>1, <4>2, <4>3, <4>4, <4>5, RecordedMore
    <3> QED BY <3>1, <3>2
  <2> QED BY <1>1, <2>6, <2>7, <2>9 DEF r
<1> QED
  BY <1>3, <1>4

\* What Entered does to the list.
LEMMA EnteredIs ==
  ASSUME NEW c \in Seq(Node), NEW m \in Node, NEW part \in Wire \union Ground, Touches(part, m), NEW U
  PROVE  /\ Entered(c, part, m, U) \in Seq(Node) /\ Range(c) \subseteq Range(Entered(c, part, m, U))
         /\ \A x \in Range(Entered(c, part, m, U)) \ Range(c) : part \in Wire /\ x = FarEnd(part, m)
<1>1. CASE part \in Wire /\ FarEnd(part, m) \in U /\ FarEnd(part, m) \notin Range(c)
  <2>1. Entered(c, part, m, U) = Append(c, FarEnd(part, m)) /\ FarEnd(part, m) \in Node
    BY <1>1, FarEnds DEF Entered
  <2>2. Append(c, FarEnd(part, m)) \in Seq(Node)
        /\ Range(Append(c, FarEnd(part, m))) = Range(c) \union {FarEnd(part, m)}
    BY <2>1, NodeLists
  <2> QED BY <1>1, <2>1, <2>2
<1>2. CASE ~(part \in Wire /\ FarEnd(part, m) \in U /\ FarEnd(part, m) \notin Range(c))
  <2>1. Entered(c, part, m, U) = c
    BY <1>2 DEF Entered
  <2> QED BY <2>1
<1> QED
  BY <1>1, <1>2

\* After all connections of a node m: the wires to unnamed nodes were crossed.
LEMMA SpreadAll ==
  ASSUME SchematicOK, NEW s \in Naming, NEW n \in Node, s.name[n] # NoName,
         NEW t \in Naming, Spread(s, n, t), IsInjective(t.cons), NEW C, Recorded(t, C),
         NEW m \in Node, m \in Range(t.cons)
  PROVE  LET r == PropagateAll(n, t, m)
         IN  /\ r \in Naming /\ Spread(s, n, r)
             /\ Grows(t.cons, r.cons, drawn, m, Unnamed(s))
             /\ \E D : /\ Recorded(r, D) /\ C \subseteq D
                       /\ \A w \in Wires : Touches(w, m) => Crossed(t, m, w) \subseteq D
<1> DEFINE parts == Connections(drawn, m)
           k == Len(parts)
<1>1. /\ parts \in Lists /\ k \in Nat /\ DOMAIN parts = 1..k
      /\ Range(parts) = {part \in Range(drawn) : Touches(part, m)}
      /\ \A i \in 1..k : parts[i] \in Wire \union Ground /\ Touches(parts[i], m)
  <2>1. parts \in Lists /\ Range(parts) = {part \in Range(drawn) : Touches(part, m)}
        /\ \A i \in 1..k : parts[i] \in Wire \union Ground /\ Touches(parts[i], m)
    BY ConnectionsAre DEF SchematicOK
  <2> HIDE DEF parts
  <2> QED BY <2>1 DEF Lists
<1>2. PICK d : Looked(d, n, t, m) /\ PropagateAll(n, t, m) = d[k]
  BY PropagateAllRuns
<1>3. /\ d \in [0..k -> Naming] /\ d[0] = t
      /\ \A i \in 1..k : d[i] = PropagateLook(n, d[i - 1], m, parts[i])
  BY <1>2 DEF Looked
<1> HIDE DEF parts, k
<1> DEFINE Reached(i) == {x \in Node : \E j \in 1..i : parts[j] \in Wire /\ FarEnd(parts[j], m) = x}
           Good(i) ==
             /\ Spread(s, n, d[i]) /\ m \in Range(d[i].cons)
             /\ \A x \in Node : d[i].name[x] # NoName => t.name[x] # NoName \/ x \in Reached(i)
             /\ \E D : /\ Recorded(d[i], D) /\ C \subseteq D
                       /\ \A j \in 1..i : Crossed(t, m, parts[j]) \subseteq D
           G == {i \in 0..k : Good(i)}
<1>4. 0 \in G
  BY <1>1, <1>3
<1>5. ASSUME NEW i \in 0..(k - 1), i \in G
      PROVE  /\ i + 1 \in G
             /\ d[i + 1].cons = Entered(d[i].cons, parts[i + 1], m, Unnamed(s))
  <2> DEFINE part == parts[i + 1]
             far == FarEnd(part, m)
  <2>1. i + 1 \in 1..k /\ (i + 1) - 1 = i /\ i \in 0..k /\ i + 1 \in 0..k
    BY <1>1
  <2>2. d[i + 1] = PropagateLook(n, d[i], m, part) /\ d[i] \in Naming /\ Good(i)
        /\ part \in Wire \union Ground /\ Touches(part, m)
    BY <1>1, <1>3, <1>5, <2>1
  <2>3. PICK D : /\ Recorded(d[i], D) /\ C \subseteq D
                 /\ \A j \in 1..i : Crossed(t, m, parts[j]) \subseteq D
    BY <2>2
  <2> HIDE DEF part
  <2>4. /\ d[i + 1] \in Naming /\ Spread(s, n, d[i + 1])
        /\ d[i + 1].cons = Entered(d[i].cons, part, m, Unnamed(s))
        /\ Recorded(d[i + 1], D \union Crossed(d[i], m, part))
    <3>1. Spread(s, n, d[i]) /\ m \in Range(d[i].cons)
      BY <2>2
    <3> HIDE DEF Good, G, Reached
    <3> DEFINE q == d[i]
    <3>2. q \in Naming /\ Spread(s, n, q) /\ Recorded(q, D) /\ m \in Range(q.cons)
      BY <2>2, <2>3, <3>1
    <3> HIDE DEF q
    <3>3. LET r == PropagateLook(n, q, m, part)
          IN  /\ r \in Naming /\ Spread(s, n, r)
              /\ r.cons = Entered(q.cons, part, m, Unnamed(s))
              /\ Recorded(r, D \union Crossed(q, m, part))
      BY <2>2, <3>2, SpreadStep
    <3> QED BY <2>2, <3>3 DEF q
  <2>5. d[i].cons \in Seq(Node)
    BY <2>2 DEF Naming
  <2>6. /\ Range(d[i].cons) \subseteq Range(d[i + 1].cons)
        /\ \A x \in Range(d[i + 1].cons) \ Range(d[i].cons) : part \in Wire /\ x = far
    BY <2>2, <2>4, <2>5, EnteredIs
  <2>7. \A j \in 1..i : j \in 1..(i + 1)
    BY <2>1
  <2>8. ASSUME NEW x \in Node, d[i + 1].name[x] # NoName
        PROVE  t.name[x] # NoName \/ x \in Reached(i + 1)
    <3>1. CASE x \in Range(d[i + 1].cons) \ Range(d[i].cons)
      <4>1. parts[i + 1] \in Wire /\ FarEnd(parts[i + 1], m) = x
        BY <2>6, <3>1 DEF part
      <4> QED BY <2>1, <4>1
    <3>2. CASE x \notin Range(d[i + 1].cons) \ Range(d[i].cons)
      <4>1. d[i].name[x] # NoName
        BY <2>2, <2>4, <2>6, <2>8, <3>2 DEF Spread
      <4>2. t.name[x] # NoName \/ x \in Reached(i)
        BY <2>2, <4>1
      <4> QED BY <2>7, <4>2
    <3> QED BY <3>1, <3>2
  <2>9. Crossed(t, m, part) \subseteq D \union Crossed(d[i], m, part)
    <3> SUFFICES ASSUME part \in Wire, t.name[far] = NoName, HasVoltage(part), d[i].name[far] # NoName
                 PROVE  part \in D
      BY DEF Crossed
    <3>1. far \in Node /\ Joins(part, m, far)
      BY <2>2, FarEnds
    <3>2. far \in Reached(i)
      BY <2>2, <3>1
    <3>3. PICK j \in 1..i : parts[j] \in Wire /\ FarEnd(parts[j], m) = far
      BY <3>2
    <3>4. Joins(parts[j], m, far)
      <4>1. j \in 1..k
        BY <1>1, <2>1
      <4> QED BY <1>1, <3>3, <4>1, FarEnds
    <3>5. parts[j] = part
      BY <3>1, <3>3, <3>4, OneWireEach
    <3>6. part \in Crossed(t, m, parts[j])
      BY <3>5 DEF Crossed
    <3> QED BY <2>3, <3>6
  <2>10. \A j \in 1..(i + 1) : Crossed(t, m, parts[j]) \subseteq D \union Crossed(d[i], m, part)
    <3>1. \A j \in 1..(i + 1) : j \in 1..i \/ j = i + 1
      BY <2>1
    <3> QED BY <2>3, <2>9, <3>1 DEF part
  <2>11. Good(i + 1)
    <3> HIDE DEF Reached
    <3>1. C \subseteq D \union Crossed(d[i], m, part)
      BY <2>3
    <3>2. m \in Range(d[i + 1].cons)
      BY <2>2, <2>6
    <3> QED BY <2>4, <2>8, <2>10, <3>1, <3>2
  <2> QED BY <2>1, <2>4, <2>11 DEF part
<1>6. k \in G
  <2> HIDE DEF G
  <2>1. 0..k \subseteq G
    BY <1>1, <1>4, <1>5, InductionUpTo
  <2> QED BY <1>1, <2>1
<1>7. Grows(t.cons, d[k].cons, drawn, m, Unnamed(s))
  <2> DEFINE e == [i \in 0..k |-> d[i].cons]
  <2>1. e \in [0..k -> Seq(Node)] /\ e[0] = t.cons /\ e[k] = d[k].cons
    BY <1>1, <1>3 DEF Naming
  <2>2. \A i \in 1..k : e[i] = Entered(e[i - 1], parts[i], m, Unnamed(s))
    <3> SUFFICES ASSUME NEW i \in 1..k PROVE d[i].cons = Entered(d[i - 1].cons, parts[i], m, Unnamed(s))
      BY <1>1
    <3>1. i - 1 \in 0..(k - 1) /\ (i - 1) + 1 = i /\ i - 1 \in 0..k
      BY <1>1
    <3>2. i - 1 \in G
      <4> HIDE DEF G
      <4>1. 0..k \subseteq G
        BY <1>1, <1>4, <1>5, InductionUpTo
      <4> QED BY <3>1, <4>1
    <3>3. d[(i - 1) + 1].cons = Entered(d[i - 1].cons, parts[(i - 1) + 1], m, Unnamed(s))
      <4> HIDE DEF G
      <4> QED BY <1>5, <3>1, <3>2
    <3> QED BY <3>1, <3>3
  <2> HIDE DEF e
  <2> QED BY <2>1, <2>2, EnteredGrows DEF parts, k, SchematicOK
<1>8. ASSUME NEW D, \A j \in 1..k : Crossed(t, m, parts[j]) \subseteq D
      PROVE  \A w \in Wires : Touches(w, m) => Crossed(t, m, w) \subseteq D
  <2> SUFFICES ASSUME NEW w \in Wires, Touches(w, m) PROVE Crossed(t, m, w) \subseteq D
    OBVIOUS
  <2>1. w \in Range(parts)
    BY <1>1 DEF Wires
  <2>2. PICK j \in 1..k : parts[j] = w
    BY <1>1, <2>1 DEF Range
  <2> QED BY <1>8, <2>2
<1>9. k \in 0..k /\ d[k] \in Naming
  BY <1>1, <1>3
<1>10. PICK D : /\ Recorded(d[k], D) /\ C \subseteq D
                /\ \A j \in 1..k : Crossed(t, m, parts[j]) \subseteq D
  BY <1>6
<1>11. \A w \in Wires : Touches(w, m) => Crossed(t, m, w) \subseteq D
  BY <1>8, <1>10
<1>12. Spread(s, n, d[k])
  BY <1>6
<1> QED
  BY <1>2, <1>7, <1>9, <1>10, <1>11, <1>12

\* After the walk.
LEMMA SpreadNode ==
  ASSUME SchematicOK, NEW s \in Naming, NEW n \in Node, s.name[n] # NoName, NEW C, Recorded(s, C)
  PROVE  LET t == PropagateNode(s, n)
         IN  /\ t \in Naming /\ Spread(s, n, t)
             /\ \A S \in SUBSET Node : n \in S /\ Joined(Wires, S) => Range(t.cons) \subseteq S
             /\ \A m \in Range(t.cons) : Neighbours(drawn, m) \intersect Unnamed(s) \subseteq Range(t.cons)
             /\ \E D : /\ Recorded(t, D) /\ C \subseteq D
                       /\ \A w \in Wires : Touches(w, n) => Crossed(s, n, w) \subseteq D
<1> DEFINE k == Len(Nodes)
           U == Unnamed(s)
<1>1. k \in Nat /\ k >= 1
  BY NodesFinite
<1>2. PICK c : Propagated(c, s, n) /\ PropagateNode(s, n) = c[k]
  BY PropagateNodeRuns
<1>3. /\ c \in [0..k -> Naming]
      /\ \A i \in 1..k : c[i] = IF i > Len(c[i - 1].cons) THEN c[i - 1]
                                ELSE PropagateAll(n, c[i - 1], c[i - 1].cons[i])
  BY <1>2 DEF Propagated
<1>4. /\ c[0].cons = <<n>> /\ c[0].name = s.name /\ c[0].done = s.done /\ c[0].z = s.z
      /\ c[0].sets = s.sets /\ c[0] \in Naming
  <2> DEFINE a == <<n>>
  <2> HIDE DEF a
  <2>1. c[0] = [s EXCEPT !.cons = a]
    BY <1>2 DEF Propagated, a
  <2>2. c[0] \in Naming
    BY <1>1, <1>3
  <2>3. c[0].cons = a
    BY <2>1 DEF Naming
  <2> QED BY <2>1, <2>2, <2>3 DEF Naming, a
<1> HIDE DEF k
<1> DEFINE Covers(D) == \A w \in Wires : Touches(w, n) => Crossed(s, n, w) \subseteq D
           Good(i) == /\ Spread(s, n, c[i]) /\ IsInjective(c[i].cons)
                      /\ \E D : Recorded(c[i], D) /\ C \subseteq D /\ (i >= 1 => Covers(D))
           G == {i \in 0..k : Good(i)}
           Next1(i) == IF i > Len(c[i - 1].cons) THEN c[i].cons = c[i - 1].cons
                       ELSE Grows(c[i - 1].cons, c[i].cons, drawn, c[i - 1].cons[i], U)
<1>5. 0 \in G
  <2> DEFINE a == <<n>>
  <2>1. a \in Seq(Node) /\ Len(a) = 1 /\ a[1] = n /\ DOMAIN a = 1..1
    OBVIOUS
  <2>2. IsInjective(a) /\ Range(a) = {n}
    <3> HIDE DEF a
    <3> QED BY <2>1 DEF IsInjective, Range
  <2> HIDE DEF a
  <2>3. c[0].cons = a
    BY <1>4 DEF a
  <2>4. Spread(s, n, c[0])
    BY <1>4, <2>2, <2>3 DEF Spread
  <2>5. Recorded(c[0], C)
    <3>1. Later(s, c[0])
      BY <1>4 DEF Later
    <3> QED BY <1>4, <3>1, RecordedStays
  <2>6. 0 \in 0..k /\ ~(0 >= 1)
    BY <1>1
  <2> HIDE DEF Covers
  <2> QED BY <2>2, <2>3, <2>4, <2>5, <2>6
<1>6. ASSUME NEW i \in 0..(k - 1), i \in G PROVE i + 1 \in G /\ Next1(i + 1)
  <2>1. i + 1 \in 1..k /\ (i + 1) - 1 = i /\ i \in 0..k /\ i + 1 \in 0..k
    BY <1>1
  <2>2. c[i] \in Naming /\ Spread(s, n, c[i]) /\ IsInjective(c[i].cons)
    BY <1>3, <1>6, <2>1
  <2>3. PICK D : Recorded(c[i], D) /\ C \subseteq D /\ (i >= 1 => Covers(D))
    <3> HIDE DEF Covers
    <3> QED BY <1>6
  <2>4. c[i].cons \in Seq(Node)
    BY <2>2 DEF Naming
  <2>5. c[i + 1] = IF i + 1 > Len(c[i].cons) THEN c[i] ELSE PropagateAll(n, c[i], c[i].cons[i + 1])
    BY <1>3, <2>1
  <2>6. CASE i + 1 > Len(c[i].cons)
    <3>1. c[i + 1] = c[i]
      BY <2>5, <2>6
    <3>2. i >= 1
      <4>1. i # 0
        <5> SUFFICES ASSUME i = 0 PROVE FALSE
          OBVIOUS
        <5>1. Len(<<n>>) = 1
          OBVIOUS
        <5> QED BY <1>4, <2>6, <5>1
      <4> QED BY <2>1, <4>1
    <3>3. Next1(i + 1)
      BY <2>1, <2>6, <3>1
    <3> HIDE DEF Covers, Next1
    <3> QED BY <2>1, <2>2, <2>3, <3>1, <3>2, <3>3
  <2>7. CASE ~(i + 1 > Len(c[i].cons))
    <3> DEFINE m == c[i].cons[i + 1]
               t == c[i]
               r == PropagateAll(n, t, m)
    <3>1. m \in Node /\ m \in Range(c[i].cons)
      BY <2>1, <2>4, <2>7 DEF Range
    <3>2. c[i + 1] = r
      BY <2>5, <2>7
    <3> HIDE DEF m
    <3>3. t \in Naming /\ Spread(s, n, t) /\ IsInjective(t.cons) /\ Recorded(t, D) /\ m \in Range(t.cons)
      BY <2>2, <2>3, <3>1
    <3> HIDE DEF t
    <3>4. /\ r \in Naming /\ Spread(s, n, r) /\ Grows(t.cons, r.cons, drawn, m, Unnamed(s))
          /\ \E E : /\ Recorded(r, E) /\ D \subseteq E
                    /\ \A w \in Wires : Touches(w, m) => Crossed(t, m, w) \subseteq E
      BY <3>1, <3>3, SpreadAll
    <3> HIDE DEF r
    <3>5. PICK E : /\ Recorded(r, E) /\ D \subseteq E
                   /\ \A w \in Wires : Touches(w, m) => Crossed(t, m, w) \subseteq E
      BY <3>4
    <3>6. Covers(E)
      <4>1. CASE i >= 1
        BY <2>3, <3>5, <4>1
      <4>2. CASE i = 0
        <5>1. t.name = s.name
          BY <1>4, <4>2 DEF t
        <5>2. m = n
          <6> DEFINE a == <<n>>
          <6>1. a[1] = n
            OBVIOUS
          <6> HIDE DEF a
          <6>2. c[i].cons = a /\ i + 1 = 1
            BY <1>4, <4>2 DEF a
          <6> QED BY <6>1, <6>2 DEF m
        <5>3. \A w \in Wires : Crossed(t, m, w) = Crossed(s, n, w)
          BY <5>1, <5>2 DEF Crossed
        <5> QED BY <3>5, <5>2, <5>3
      <4> QED BY <2>1, <4>1, <4>2
    <3>7. IsInjective(r.cons)
      BY <3>3, <3>4 DEF Grows
    <3>8. Next1(i + 1)
      BY <2>1, <2>7, <3>2, <3>4 DEF t, m
    <3>9. C \subseteq E
      BY <2>3, <3>5
    <3> HIDE DEF Covers, Next1
    <3>10. Good(i + 1)
      BY <3>2, <3>4, <3>5, <3>6, <3>7, <3>9
    <3> QED BY <2>1, <3>8, <3>10
  <2> QED BY <2>6, <2>7
<1>7. 0..k \subseteq G
  <2> HIDE DEF G
  <2> QED BY <1>1, <1>5, <1>6, InductionUpTo
<1>8. \A i \in 1..k : Next1(i)
  <2> SUFFICES ASSUME NEW i \in 1..k PROVE Next1(i)
    OBVIOUS
  <2>1. i - 1 \in 0..(k - 1) /\ (i - 1) + 1 = i /\ i - 1 \in 0..k
    BY <1>1
  <2>2. i - 1 \in G
    <3> HIDE DEF G
    <3> QED BY <1>7, <2>1
  <2>3. Next1((i - 1) + 1)
    <3> HIDE DEF G, Next1
    <3> QED BY <1>6, <2>1, <2>2
  <2> QED BY <2>1, <2>3
<1> DEFINE e == [i \in 0..k |-> c[i].cons]
<1>9. /\ IsInjective(e[k])
      /\ \A S \in SUBSET Node : n \in S /\ Joined(WiresOf(drawn), S) => Range(e[k]) \subseteq S
      /\ \A m \in Range(e[k]) : Neighbours(drawn, m) \intersect U \subseteq Range(e[k])
  <2>1. e \in [0..k -> Seq(Node)] /\ e[0] = <<n>>
    <3>1. \A i \in 0..k : c[i].cons \in Seq(Node)
      BY <1>3 DEF Naming
    <3>2. 0 \in 0..k /\ c[0].cons = <<n>>
      BY <1>1, <1>3, <1>4
    <3> QED BY <3>1, <3>2
  <2>2. \A i \in 1..k : IF i > Len(e[i - 1]) THEN e[i] = e[i - 1]
                        ELSE Grows(e[i - 1], e[i], drawn, e[i - 1][i], U)
    <3> SUFFICES ASSUME NEW i \in 1..k
                 PROVE  IF i > Len(e[i - 1]) THEN e[i] = e[i - 1]
                        ELSE Grows(e[i - 1], e[i], drawn, e[i - 1][i], U)
      OBVIOUS
    <3>1. e[i - 1] = c[i - 1].cons /\ e[i] = c[i].cons
      BY <1>1
    <3>2. Next1(i)
      BY <1>8
    <3> QED BY <3>1, <3>2
  <2>3. drawn \in Lists
    BY DEF SchematicOK
  <2> HIDE DEF e, U
  <2>4. WalkSteps(drawn, U, n, e)
    BY <2>1, <2>2 DEF WalkSteps, k
  <2>5. MetFrom(drawn, U, n, e[k])
    BY <2>3, <2>4, WalkMeets DEF k
  <2> QED BY <2>5 DEF MetFrom
<1>10. e[k] = c[k].cons /\ c[k] \in Naming /\ k \in G
  BY <1>1, <1>3, <1>7
<1>11. Good(k) /\ k >= 1
  BY <1>1, <1>10
<1>12. WiresOf(drawn) = Wires
  BY DEF WiresOf, Wires
<1> QED
  BY <1>2, <1>9, <1>10, <1>11, <1>12

\* What From does: the nodes X get the name of n.
Fills(s, n, t, X) ==
  /\ X \subseteq NetOf(Wires, n) /\ X \subseteq Unnamed(s)
  /\ \A m \in Node : t.name[m] = IF m \in X THEN s.name[n] ELSE s.name[m]
  /\ t.done = s.done \union X \union {n}
  /\ t.z = s.z
  /\ \A m \in X \union {n} : Neighbours(drawn, m) \intersect Unnamed(s) \subseteq X

\* A node that is propagated gives its name to all it is joined to.
LEMMA FromFills ==
  ASSUME SchematicOK, NEW s \in Naming, NEW n \in Node, s.name[n] # NoName, n \notin s.done,
         NEW C, Recorded(s, C)
  PROVE  LET t == From(s, n)
         IN  /\ t \in Naming
             /\ \E X : Fills(s, n, t, X)
             /\ \E D : /\ Recorded(t, D) /\ C \subseteq D
                       /\ HasVoltage(n) => n \in D
                       /\ \A w \in Wires : Touches(w, n) => Crossed(s, n, w) \subseteq D
<1> DEFINE p == [s EXCEPT !.done = @ \union {n}]
           q == NodeSet(p, n, n)
           t == PropagateNode(q, n)
           D0 == C \union IF HasVoltage(n) THEN {n} ELSE {}
<1>1. /\ p \in Naming /\ p.name = s.name /\ p.done = s.done \union {n} /\ p.z = s.z
      /\ p.sets = s.sets
  BY DEF Naming
<1>2. n \in Conductor
  BY DEF Conductor
<1>3. /\ q \in Naming /\ q.name = s.name /\ q.done = s.done \union {n} /\ q.z = s.z
      /\ q.sets = IF HasVoltage(n) THEN Append(s.sets, s.name[n]) ELSE s.sets
  <2> HIDE DEF p
  <2>1. /\ q \in Naming
        /\ q = IF HasVoltage(n) THEN [p EXCEPT !.sets = Append(p.sets, p.name[n])] ELSE p
    BY <1>1, <1>2, NodeSetIs
  <2> HIDE DEF q
  <2> QED BY <1>1, <2>1 DEF Naming
<1>4. From(s, n) = t
  BY DEF From
<1> HIDE DEF p, q
<1>5. Later(s, q)
  BY <1>3 DEF Later
<1>6. Recorded(q, D0)
  <2>1. CASE HasVoltage(n)
    <3>1. n \notin C
      BY DEF Recorded
    <3>2. Start(n) = n /\ n \notin Wire
      BY PartsAssumption DEF Start
    <3> QED BY <1>2, <1>3, <1>5, <2>1, <3>1, <3>2, RecordedMore
  <2>2. CASE ~HasVoltage(n)
    <3>1. Recorded(q, C)
      BY <1>3, <1>5, <2>2, RecordedStays
    <3>2. D0 = C
      BY <2>2
    <3> QED BY <3>1, <3>2
  <2> QED BY <2>1, <2>2
<1> HIDE DEF D0
<1>7. /\ t \in Naming /\ Spread(q, n, t)
      /\ \A S \in SUBSET Node : n \in S /\ Joined(Wires, S) => Range(t.cons) \subseteq S
      /\ \A m \in Range(t.cons) : Neighbours(drawn, m) \intersect Unnamed(q) \subseteq Range(t.cons)
      /\ \E D : /\ Recorded(t, D) /\ D0 \subseteq D
                /\ \A w \in Wires : Touches(w, n) => Crossed(q, n, w) \subseteq D
  BY <1>3, <1>6, SpreadNode
<1> HIDE DEF t
<1>8. Unnamed(q) = Unnamed(s) /\ \A w : Crossed(q, n, w) = Crossed(s, n, w)
  BY <1>3 DEF Unnamed, Crossed
<1> DEFINE X == Range(t.cons) \ {n}
<1>9. Fills(s, n, t, X)
  <2>1. NetOf(Wires, n) \in SUBSET Node /\ n \in NetOf(Wires, n) /\ Joined(Wires, NetOf(Wires, n))
    <3>1. Wires \subseteq Wire
      BY DEF Wires
    <3> QED BY <3>1, NetIsJoined
  <2>2. Range(t.cons) \subseteq NetOf(Wires, n)
    BY <1>7, <2>1
  <2>3. X \subseteq Unnamed(s) /\ n \in Range(t.cons)
    BY <1>7, <1>8 DEF Spread
  <2>4. \A m \in X \union {n} : Neighbours(drawn, m) \intersect Unnamed(s) \subseteq X
    <3>1. n \notin Unnamed(s)
      BY DEF Unnamed
    <3> QED BY <1>7, <1>8, <2>3, <3>1
  <2>5. \A m \in Node : t.name[m] = IF m \in X THEN s.name[n] ELSE s.name[m]
    BY <1>3, <1>7 DEF Spread
  <2>6. t.done = s.done \union X \union {n} /\ t.z = s.z
    BY <1>3, <1>7 DEF Spread
  <2> QED BY <2>2, <2>3, <2>4, <2>5, <2>6 DEF Fills
<1>10. PICK D : /\ Recorded(t, D) /\ D0 \subseteq D
                /\ \A w \in Wires : Touches(w, n) => Crossed(s, n, w) \subseteq D
  BY <1>7, <1>8
<1>11. C \subseteq D /\ (HasVoltage(n) => n \in D)
  BY <1>10 DEF D0
<1> QED
  BY <1>4, <1>7, <1>9, <1>10, <1>11

-----------------------------------------------------------------------------
\* Through all nodes, twice.

\* Propagating a node keeps the types.
LEMMA FromType ==
  ASSUME SchematicOK, NEW s \in Naming, NEW n \in Node
  PROVE  From(s, n) \in Naming
<1> DEFINE p == [s EXCEPT !.done = @ \union {n}]
           q == NodeSet(p, n, n)
<1>1. p \in Naming
  BY DEF Naming
<1>2. q \in Naming
  <2> HIDE DEF p
  <2> QED BY <1>1, NodeSetIs DEF Conductor
<1>3. From(s, n) = PropagateNode(q, n)
  BY DEF From
<1>4. PICK c : Propagated(c, q, n) /\ PropagateNode(q, n) = c[Len(Nodes)]
  <2> HIDE DEF q
  <2> QED BY <1>2, PropagateNodeRuns
<1> QED
  BY <1>3, <1>4, NodesFinite DEF Propagated

\* So does a round of the first pass.
LEMMA ThroughNamedType ==
  ASSUME SchematicOK, NEW s \in Naming, NEW n \in Node
  PROVE  ThroughNamed(s, n) \in Naming
  BY FromType DEF ThroughNamed

\* And one of the second pass.
LEMMA ThroughUnnamedType ==
  ASSUME SchematicOK, NEW s \in Naming, NEW n \in Node
  PROVE  ThroughUnnamed(s, n) \in Naming
<1> DEFINE p == [s EXCEPT !.name[n] = Numbered(s.z), !.z = @ + 1]
<1>1. Numbered(s.z) \in Names
  BY DEF Naming, Names
<1>2. p \in Naming
  <2> DEFINE given == [s.name EXCEPT ![n] = Numbered(s.z)]
             next == s.z + 1
  <2>1. given \in [Node -> Names] /\ next \in Nat
    BY <1>1 DEF Naming
  <2>2. p = [s EXCEPT !.name = given, !.z = next]
    BY DEF Naming
  <2> HIDE DEF given, next
  <2> QED BY <2>1, <2>2 DEF Naming
<1> HIDE DEF p
<1>3. From(p, n) \in Naming
  BY <1>2, FromType
<1> QED
  BY <1>3 DEF ThroughUnnamed, p

ThroughNamedAll(s) == Rounds(Len(Nodes), s, LAMBDA t, i : ThroughNamed(t, Nodes[i]))

ThroughUnnamedAll(s) == Rounds(Len(Nodes), s, LAMBDA t, i : ThroughUnnamed(t, Nodes[i]))

NamedPass(c, s) ==
  /\ c \in [0..Len(Nodes) -> Naming] /\ c[0] = s
  /\ \A i \in 1..Len(Nodes) : c[i] = ThroughNamed(c[i - 1], Nodes[i])

UnnamedPass(c, s) ==
  /\ c \in [0..Len(Nodes) -> Naming] /\ c[0] = s
  /\ \A i \in 1..Len(Nodes) : c[i] = ThroughUnnamed(c[i - 1], Nodes[i])

\* The first pass, node by node.
LEMMA ThroughNamedRuns ==
  ASSUME SchematicOK, NEW s \in Naming
  PROVE  \E c : NamedPass(c, s) /\ ThroughNamedAll(s) = c[Len(Nodes)]
<1> DEFINE n == Len(Nodes)
           V == Naming
           first == s
           Round(r, i) == ThroughNamed(r, Nodes[i])
           step == [p \in (1..n) \X V |-> Round(p[2], p[1])]
           Body(g) == [i \in 0..n |-> IF i = 0 THEN first ELSE Round(g[i - 1], i)]
           h == CHOOSE g : g = Body(g)
<1>1. n \in Nat /\ first \in V
  BY NodesFinite
<1>2. \A i \in 1..n, r \in V : Round(r, i) \in V
  <2> SUFFICES ASSUME NEW i \in 1..n, NEW r \in Naming
               PROVE  ThroughNamed(r, Nodes[i]) \in Naming
    OBVIOUS
  <2> QED BY NodesFinite, ThroughNamedType
<1>3. ThroughNamedAll(s) = h[n]
  BY DEF ThroughNamedAll, Rounds
<1> HIDE DEF n, V, first, Round
<1>4. step \in Steps(n, V)
  BY <1>2 DEF Steps
<1>5. PICK f : Run(f, n, V, first, step)
  <2> HIDE DEF step
  <2> QED BY <1>1, <1>4, RunOfRounds
<1>6. \A i \in 1..n : f[i] = Round(f[i - 1], i)
  BY <1>5 DEF Run
<1>7. f = Body(f)
  <2>1. \A i \in 0..n : i = 0 \/ i \in 1..n
    BY <1>1
  <2>2. \A i \in 0..n : f[i] = Body(f)[i]
    BY <1>5, <1>6, <2>1 DEF Run
  <2> QED BY <1>5, <2>2 DEF Run
<1>8. h = Body(h)
  <2> HIDE DEF Body
  <2> QED BY <1>7
<1>9. h[0] = first /\ \A i \in 1..n : h[i - 1] \in V => h[i] = step[<<i, h[i - 1]>>]
  <2> HIDE DEF h
  <2>1. 0 \in 0..n /\ \A i \in 1..n : i \in 0..n /\ i # 0
    BY <1>1
  <2> QED BY <1>8, <2>1
<1> HIDE DEF h, step
<1>10. h[n] = f[n]
  BY <1>1, <1>5, <1>9 DEF Run
<1> QED
  BY <1>3, <1>5, <1>6, <1>10 DEF Run, NamedPass, n, V, first, Round

\* The second pass, node by node.
LEMMA ThroughUnnamedRuns ==
  ASSUME SchematicOK, NEW s \in Naming
  PROVE  \E c : UnnamedPass(c, s) /\ ThroughUnnamedAll(s) = c[Len(Nodes)]
<1> DEFINE n == Len(Nodes)
           V == Naming
           first == s
           Round(r, i) == ThroughUnnamed(r, Nodes[i])
           step == [p \in (1..n) \X V |-> Round(p[2], p[1])]
           Body(g) == [i \in 0..n |-> IF i = 0 THEN first ELSE Round(g[i - 1], i)]
           h == CHOOSE g : g = Body(g)
<1>1. n \in Nat /\ first \in V
  BY NodesFinite
<1>2. \A i \in 1..n, r \in V : Round(r, i) \in V
  <2> SUFFICES ASSUME NEW i \in 1..n, NEW r \in Naming
               PROVE  ThroughUnnamed(r, Nodes[i]) \in Naming
    OBVIOUS
  <2> QED BY NodesFinite, ThroughUnnamedType
<1>3. ThroughUnnamedAll(s) = h[n]
  BY DEF ThroughUnnamedAll, Rounds
<1> HIDE DEF n, V, first, Round
<1>4. step \in Steps(n, V)
  BY <1>2 DEF Steps
<1>5. PICK f : Run(f, n, V, first, step)
  <2> HIDE DEF step
  <2> QED BY <1>1, <1>4, RunOfRounds
<1>6. \A i \in 1..n : f[i] = Round(f[i - 1], i)
  BY <1>5 DEF Run
<1>7. f = Body(f)
  <2>1. \A i \in 0..n : i = 0 \/ i \in 1..n
    BY <1>1
  <2>2. \A i \in 0..n : f[i] = Body(f)[i]
    BY <1>5, <1>6, <2>1 DEF Run
  <2> QED BY <1>5, <2>2 DEF Run
<1>8. h = Body(h)
  <2> HIDE DEF Body
  <2> QED BY <1>7
<1>9. h[0] = first /\ \A i \in 1..n : h[i - 1] \in V => h[i] = step[<<i, h[i - 1]>>]
  <2> HIDE DEF h
  <2>1. 0 \in 0..n /\ \A i \in 1..n : i \in 0..n /\ i # 0
    BY <1>1
  <2> QED BY <1>8, <2>1
<1> HIDE DEF h, step
<1>10. h[n] = f[n]
  BY <1>1, <1>5, <1>9 DEF Run
<1> QED
  BY <1>3, <1>5, <1>6, <1>10 DEF Run, UnnamedPass, n, V, first, Round

\* The names and wires from which giveNodeNames begins.
LEMMA GivenIs ==
  ASSUME SchematicOK
  PROVE  /\ GivenNames \in [Node -> Names]
         /\ \A n \in Node : NamingWires(n) \in Seq(Wire \union Ground)
              /\ Range(NamingWires(n)) = {w \in Wires : label[w] # Nothing /\ Port1[w] = n}
<1>1. \A n \in Node : NamingWires(n) \in Seq(Wire \union Ground)
        /\ Range(NamingWires(n)) = {w \in Wires : label[w] # Nothing /\ Port1[w] = n}
  <2> SUFFICES ASSUME NEW n \in Node
               PROVE  /\ NamingWires(n) \in Seq(Wire \union Ground)
                      /\ Range(NamingWires(n)) = {w \in Wires : label[w] # Nothing /\ Port1[w] = n}
    OBVIOUS
  <2> DEFINE T == {w \in Wire : label[w] # Nothing /\ Port1[w] = n}
  <2>1. NamingWires(n) \in Seq(Wire \union Ground) /\ Range(NamingWires(n)) = Range(drawn) \intersect T
    BY OnlyElements DEF NamingWires, SchematicOK, Lists
  <2> QED BY <2>1 DEF Wires
<1>2. \A c \in Conductor : label[c] # Nothing => NameOf(label[c]) \in Names
  BY DEF SchematicOK, Names
<1>3. ASSUME NEW n \in Node, NamingWires(n) # <<>>
      PROVE  NamingWires(n)[Len(NamingWires(n))] \in Range(NamingWires(n))
  BY <1>1, <1>3 DEF Range
<1>4. ASSUME NEW n \in Node, NamingWires(n) # <<>>
      PROVE  NameOf(label[NamingWires(n)[Len(NamingWires(n))]]) \in Names
  <2>1. NamingWires(n)[Len(NamingWires(n))] \in {w \in Wires : label[w] # Nothing /\ Port1[w] = n}
    BY <1>1, <1>3, <1>4
  <2> QED BY <1>2, <2>1 DEF Wires, Conductor
<1>5. NoName \in Names /\ Gnd \in Names
  BY DEF Names
<1>6. \A n \in Node : n \in Conductor
  BY DEF Conductor
<1> QED
  BY <1>1, <1>2, <1>4, <1>5, <1>6 DEF GivenNames

\* The nodes whose turn has come.
Turns(i) == {Nodes[j] : j \in 1..i}

HasName(m) == GivenNames[m] # NoName

\* The initial voltages that are kept for certain: that of a named node, and that
\* of a wire if no other node of the net has a name of its own.
Needed(c) ==
  /\ c \in Node \union Wires /\ HasVoltage(c) /\ HasName(Start(c))
  /\ c \in Wire => \A m \in NetOf(Wires, Start(c)) : HasName(m) => m = Start(c)

\* The name of m is the given name of a node of the same net.
FromAName(s, m) ==
  \E k \in Node : /\ HasName(k) /\ s.name[m] = GivenNames[k]
                  /\ m \in NetOf(Wires, k) /\ k \in s.done

FirstPass(s, i) ==
  /\ \A m \in Node : HasName(m) => s.name[m] = GivenNames[m] /\ (m \in s.done <=> m \in Turns(i))
  /\ \A m \in Node : ~HasName(m) /\ s.name[m] # NoName => m \in s.done /\ FromAName(s, m)
  /\ \A m \in s.done : s.name[m] # NoName /\ \A x \in Neighbours(drawn, m) : s.name[x] # NoName
  /\ \E D : Recorded(s, D) /\ \A c : Needed(c) /\ Start(c) \in Turns(i) => c \in D

\* The nodes that have had their turn after one round more.
LEMMA TurnsAre ==
  ASSUME NEW i \in 0..(Len(Nodes) - 1)
  PROVE  /\ Nodes[i + 1] \in Node /\ Nodes[i + 1] \notin Turns(i)
         /\ Turns(i + 1) = Turns(i) \union {Nodes[i + 1]}
<1>1. /\ i + 1 \in 1..Len(Nodes) /\ Len(Nodes) \in Nat /\ DOMAIN Nodes = 1..Len(Nodes)
      /\ Nodes[i + 1] \in Node
  BY NodesFinite
<1>2. 1..(i + 1) = (1..i) \union {i + 1} /\ i + 1 \notin 1..i /\ 1..i \subseteq 1..Len(Nodes)
  BY <1>1
<1>3. \A j \in 1..i : Nodes[j] # Nodes[i + 1]
  BY <1>1, <1>2, NodesAssumption DEF IsInjective
<1>4. Turns(i + 1) = Turns(i) \union {Nodes[i + 1]}
  <2> DEFINE I == 1..i
             J == 1..(i + 1)
  <2>1. J = I \union {i + 1}
    BY <1>2
  <2>2. {Nodes[j] : j \in J} = {Nodes[j] : j \in I} \union {Nodes[i + 1]}
    <3> HIDE DEF I, J
    <3> QED BY <2>1
  <2> QED BY <2>2 DEF Turns
<1> QED
  BY <1>1, <1>3, <1>4 DEF Turns

\* A round of the first pass keeps what is known of the pass.
LEMMA FirstPassStep ==
  ASSUME SchematicOK, NEW i \in 0..(Len(Nodes) - 1), NEW s \in Naming, FirstPass(s, i)
  PROVE  FirstPass(ThroughNamed(s, Nodes[i + 1]), i + 1)
<1> DEFINE n == Nodes[i + 1]
           t == ThroughNamed(s, n)
<1>1. n \in Node /\ n \notin Turns(i) /\ Turns(i + 1) = Turns(i) \union {n}
  BY TurnsAre
<1> HIDE DEF n
<1>2. CASE s.name[n] = NoName \/ n \in s.done
  <2>1. t = s
    BY <1>2 DEF ThroughNamed
  <2>2. ~HasName(n)
    BY <1>1, <1>2 DEF FirstPass, HasName
  <2>3. \A c : Needed(c) => Start(c) # n
    BY <2>2 DEF Needed
  <2>4. FirstPass(s, i + 1)
    BY <1>1, <2>2, <2>3 DEF FirstPass
  <2> QED BY <2>1, <2>4 DEF n
<1>3. CASE s.name[n] # NoName /\ n \notin s.done
  <2>1. HasName(n)
    BY <1>1, <1>3 DEF FirstPass
  <2>2. PICK C : Recorded(s, C) /\ \A c : Needed(c) /\ Start(c) \in Turns(i) => c \in C
    BY DEF FirstPass
  <2>3. t = From(s, n)
    BY <1>3 DEF ThroughNamed
  <2>4. /\ t \in Naming /\ \E X : Fills(s, n, t, X)
        /\ \E D : /\ Recorded(t, D) /\ C \subseteq D
                  /\ HasVoltage(n) => n \in D
                  /\ \A w \in Wires : Touches(w, n) => Crossed(s, n, w) \subseteq D
    BY <1>1, <1>3, <2>2, <2>3, FromFills
  <2> HIDE DEF t
  <2>5. PICK X : Fills(s, n, t, X)
    BY <2>4
  <2>6. PICK D : /\ Recorded(t, D) /\ C \subseteq D
                 /\ HasVoltage(n) => n \in D
                 /\ \A w \in Wires : Touches(w, n) => Crossed(s, n, w) \subseteq D
    BY <2>4
  <2>7. /\ X \subseteq NetOf(Wires, n) /\ X \subseteq Node
        /\ \A m \in X : s.name[m] = NoName /\ ~HasName(m)
        /\ n \notin X /\ s.name[n] = GivenNames[n] /\ t.name[n] = GivenNames[n]
        /\ \A m \in Node : t.name[m] = IF m \in X THEN GivenNames[n] ELSE s.name[m]
        /\ t.done = s.done \union X \union {n}
    BY <1>1, <1>3, <2>1, <2>5 DEF Fills, Unnamed, FirstPass, HasName
  <2>8. ASSUME NEW m \in Node, HasName(m)
        PROVE  t.name[m] = GivenNames[m] /\ (m \in t.done <=> m \in Turns(i + 1))
    BY <1>1, <2>7, <2>8 DEF FirstPass
  <2>9. ASSUME NEW m \in Node, ~HasName(m), t.name[m] # NoName PROVE m \in t.done /\ FromAName(t, m)
    <3>1. CASE m \in X
      BY <1>1, <2>1, <2>7, <3>1 DEF FromAName
    <3>2. CASE m \notin X
      <4>1. m \in s.done /\ FromAName(s, m) /\ t.name[m] = s.name[m]
        BY <2>7, <2>9, <3>2 DEF FirstPass
      <4> QED BY <2>7, <4>1 DEF FromAName
    <3> QED BY <3>1, <3>2
  <2>10. ASSUME NEW m \in t.done
         PROVE  t.name[m] # NoName /\ \A x \in Neighbours(drawn, m) : t.name[x] # NoName
    <3>1. GivenNames[n] # NoName
      BY <2>1 DEF HasName
    <3>2. \A x \in Node : s.name[x] # NoName => t.name[x] # NoName
      BY <2>7, <3>1
    <3>3. Neighbours(drawn, m) \subseteq Node
      BY DEF Neighbours
    <3>4. CASE m \in s.done
      <4>1. s.done \subseteq Node
        BY DEF Naming
      <4> QED BY <3>2, <3>3, <3>4, <4>1 DEF FirstPass
    <3>5. CASE m \in X \union {n}
      <4>1. t.name[m] # NoName
        BY <1>1, <2>7, <3>1, <3>5
      <4>2. Neighbours(drawn, m) \intersect Unnamed(s) \subseteq X
        BY <2>5, <3>5 DEF Fills
      <4>3. ASSUME NEW x \in Neighbours(drawn, m) PROVE t.name[x] # NoName
        BY <2>7, <3>1, <3>2, <3>3, <4>2 DEF Unnamed
      <4> QED BY <4>1, <4>3
    <3> QED BY <2>7, <3>4, <3>5
  <2>11. ASSUME NEW c, Needed(c), Start(c) \in Turns(i + 1) PROVE c \in D
    <3>1. CASE Start(c) \in Turns(i)
      BY <2>2, <2>6, <2>11, <3>1
    <3>2. CASE Start(c) = n /\ c \notin Wire
      BY <2>6, <2>11, <3>2 DEF Needed, Start
    <3>3. CASE Start(c) = n /\ c \in Wire
      <4>1. /\ c \in Wires /\ Port1[c] = n /\ HasVoltage(c)
            /\ \A m \in NetOf(Wires, n) : HasName(m) => m = n
        BY <2>11, <3>3, PartsAssumption DEF Needed, Start
      <4>2. /\ Touches(c, n) /\ FarEnd(c, n) = Port2[c] /\ Port2[c] \in Node
            /\ Port2[c] # n
        BY <3>3, <4>1, Ends DEF FarEnd
      <4>3. Wires \subseteq Wire
        BY DEF Wires
      <4>4. Port2[c] \in NetOf(Wires, n) /\ n \in NetOf(Wires, n)
        BY <1>1, <4>1, <4>3, NetIsJoined DEF Joined
      <4>5. ~HasName(Port2[c])
        BY <4>1, <4>2, <4>4
      <4>6. s.name[Port2[c]] = NoName
        <5> SUFFICES ASSUME s.name[Port2[c]] # NoName PROVE FALSE
          OBVIOUS
        <5>1. FromAName(s, Port2[c])
          BY <4>2, <4>5 DEF FirstPass
        <5>2. PICK k \in Node : HasName(k) /\ Port2[c] \in NetOf(Wires, k) /\ k \in s.done
          BY <5>1 DEF FromAName
        <5>3. NetOf(Wires, Port2[c]) = NetOf(Wires, k) /\ NetOf(Wires, Port2[c]) = NetOf(Wires, n)
          BY <1>1, <4>3, <4>4, <5>2, NetIsShared
        <5>4. k \in NetOf(Wires, n)
          BY <4>3, <5>2, <5>3, NetIsJoined
        <5>5. k = n
          BY <4>1, <5>2, <5>4
        <5> QED BY <1>3, <5>2, <5>5
      <4>7. c \in Crossed(s, n, c)
        BY <3>3, <4>1, <4>2, <4>6 DEF Crossed
      <4> QED BY <2>6, <4>1, <4>2, <4>7
    <3> QED BY <1>1, <2>11, <3>1, <3>2, <3>3
  <2>12. FirstPass(t, i + 1)
    BY <2>6, <2>8, <2>9, <2>10, <2>11 DEF FirstPass
  <2> QED BY <2>12 DEF t, n
<1> QED
  BY <1>2, <1>3

\* Nodes whose neighbours have a name all have one, with the rest of the net.
LEMMA JoinedIfClosed ==
  ASSUME SchematicOK, NEW S \in SUBSET Node, \A m \in S : Neighbours(drawn, m) \subseteq S
  PROVE  Joined(Wires, S)
<1> SUFFICES ASSUME NEW w \in Wires PROVE Port1[w] \in S <=> Port2[w] \in S
  BY DEF Joined
<1>1. w \in WiresOf(drawn) /\ w \in Wire
  BY DEF Wires, WiresOf
<1>2. /\ Port1[w] \in Node /\ Port2[w] \in Node
      /\ Joins(w, Port1[w], Port2[w]) /\ Joins(w, Port2[w], Port1[w])
  BY <1>1, Ends DEF Joins
<1>3. Port2[w] \in Neighbours(drawn, Port1[w]) /\ Port1[w] \in Neighbours(drawn, Port2[w])
  BY <1>1, <1>2 DEF Neighbours
<1> QED
  BY <1>3

\* Whole nets have names.
Closed(s) == \A m \in Node : s.name[m] # NoName => \A x \in Neighbours(drawn, m) : s.name[x] # NoName

\* After the first pass a net is named as a whole or not at all.
LEMMA NamedTogether ==
  ASSUME SchematicOK, NEW s, Closed(s), NEW m \in Node, NEW x \in NetOf(Wires, m)
  PROVE  s.name[m] # NoName <=> s.name[x] # NoName
<1> DEFINE S == {k \in Node : s.name[k] # NoName}
<1>1. Joined(Wires, S)
  <2>1. \A k \in S : Neighbours(drawn, k) \subseteq S
    BY DEF Closed, Neighbours
  <2> QED BY <2>1, JoinedIfClosed
<1>2. Wires \subseteq Wire
  BY DEF Wires
<1>3. x \in Node /\ NetOf(Wires, x) = NetOf(Wires, m) /\ x \in NetOf(Wires, x) /\ m \in NetOf(Wires, m)
  BY <1>2, NetIsShared, NetIsJoined
<1> QED
  BY <1>1, <1>2, <1>3, NetIsJoined

\* After the named nodes.
LEMMA FirstPassEnds ==
  ASSUME SchematicOK, NEW s \in Naming, FirstPass(s, Len(Nodes))
  PROVE  /\ Closed(s) /\ \A m \in s.done : s.name[m] # NoName
         /\ \A m \in Node : s.name[m] # NoName =>
              \E k \in NetOf(Wires, m) : HasName(k) /\ s.name[m] = GivenNames[k]
         /\ \A m \in Node : \A k \in NetOf(Wires, m) : HasName(k) => s.name[m] # NoName
         /\ \E D : Recorded(s, D) /\ \A c : Needed(c) => c \in D
<1>1. \A n \in Node : n \in Turns(Len(Nodes))
  BY NodesFinite DEF Turns
<1>2. Closed(s)
  BY <1>1 DEF FirstPass, Closed
<1>3. Wires \subseteq Wire
  BY DEF Wires
<1>4. ASSUME NEW m \in Node, s.name[m] # NoName
      PROVE  \E k \in NetOf(Wires, m) : HasName(k) /\ s.name[m] = GivenNames[k]
  <2>1. CASE HasName(m)
    <3>1. m \in NetOf(Wires, m)
      BY <1>3, NetIsJoined
    <3> QED BY <2>1, <3>1 DEF FirstPass
  <2>2. CASE ~HasName(m)
    <3>1. PICK k \in Node : HasName(k) /\ s.name[m] = GivenNames[k] /\ m \in NetOf(Wires, k)
      BY <1>4, <2>2 DEF FirstPass, FromAName
    <3>2. k \in NetOf(Wires, m)
      BY <1>3, <3>1, NetIsShared, NetIsJoined
    <3> QED BY <3>1, <3>2
  <2> QED BY <2>1, <2>2
<1>5. ASSUME NEW m \in Node, NEW k \in NetOf(Wires, m), HasName(k) PROVE s.name[m] # NoName
  <2>1. k \in Node
    BY DEF NetOf
  <2>2. s.name[k] # NoName
    BY <1>5, <2>1 DEF FirstPass, HasName
  <2> QED BY <1>2, <2>2, NamedTogether
<1>6. \A c : Needed(c) => Start(c) \in Turns(Len(Nodes))
  BY <1>1, PortsAssumption DEF Needed, Start, Wires
<1> QED
  BY <1>2, <1>4, <1>5, <1>6 DEF FirstPass

\* After each turn of the second round; s0 is what the first one leaves.
SecondPass(s0, s, i) ==
  /\ \A m \in Node : s0.name[m] # NoName => s.name[m] = s0.name[m]
  /\ \A m \in Unnamed(s0) : s.name[m] # NoName => \E z \in Nat : z < s.z /\ s.name[m] = Numbered(z)
  /\ \A m, x \in Unnamed(s0) : s.name[m] # NoName /\ s.name[x] # NoName =>
       (s.name[m] = s.name[x] <=> x \in NetOf(Wires, m))
  /\ Closed(s) /\ \A m \in s.done : s.name[m] # NoName
  /\ \A m \in Turns(i) : s.name[m] # NoName
  /\ \E D : Recorded(s, D) /\ \A c : Needed(c) => c \in D

\* The numbers differ from one another and from what is entered.
LEMMA Numbers ==
  ASSUME NEW i \in Nat, NEW j \in Nat
  PROVE  /\ Numbered(i) = Numbered(j) <=> i = j
         /\ Numbered(i) # NoName /\ Numbered(i) # Gnd
         /\ \A t : Numbered(i) # NameOf(t)
         /\ \A word : Numbered(i) # <<word>>
<1>1. Len(Numbered(i)) = 2 /\ Len(NoName) = 0 /\ Len(Gnd) = 1
  BY DEF Numbered, NoName, Gnd
<1>2. (\A t : Len(NameOf(t)) # 2) /\ \A word : Len(<<word>>) # 2
  BY DEF NameOf, NoName
<1>3. Numbered(i)[2] = i /\ Numbered(j)[2] = j
  BY DEF Numbered
<1>4. Numbered(i) = Numbered(j) <=> i = j
  BY <1>3
<1>5. Numbered(i) # NoName /\ Numbered(i) # Gnd
  BY <1>1
<1>6. (\A t : Numbered(i) # NameOf(t)) /\ \A word : Numbered(i) # <<word>>
  BY <1>1, <1>2
<1> QED
  BY <1>4, <1>5, <1>6

\* A round of the second pass keeps what is known of the pass.
LEMMA SecondPassStep ==
  ASSUME SchematicOK, NEW i \in 0..(Len(Nodes) - 1), NEW s0 \in Naming, Closed(s0),
         NEW s \in Naming, SecondPass(s0, s, i)
  PROVE  SecondPass(s0, ThroughUnnamed(s, Nodes[i + 1]), i + 1)
<1> DEFINE n == Nodes[i + 1]
           t == ThroughUnnamed(s, n)
<1>1. n \in Node /\ n \notin Turns(i) /\ Turns(i + 1) = Turns(i) \union {n}
  BY TurnsAre
<1> HIDE DEF n
<1>2. CASE s.name[n] # NoName
  <2>1. t = s
    BY <1>2 DEF ThroughUnnamed
  <2>2. SecondPass(s0, s, i + 1)
    BY <1>1, <1>2 DEF SecondPass
  <2> QED BY <2>1, <2>2 DEF n
<1>3. CASE s.name[n] = NoName
  <2> DEFINE p == [s EXCEPT !.name[n] = Numbered(s.z), !.z = @ + 1]
  <2>1. s.z \in Nat /\ Numbered(s.z) \in Names /\ Numbered(s.z) # NoName
    BY Numbers DEF Naming, Names
  <2>2. /\ p \in Naming /\ p.name = [s.name EXCEPT ![n] = Numbered(s.z)] /\ p.z = s.z + 1
        /\ p.done = s.done /\ p.sets = s.sets
    <3> DEFINE given == [s.name EXCEPT ![n] = Numbered(s.z)]
               next == s.z + 1
    <3>1. given \in [Node -> Names] /\ next \in Nat
      <4>1. s.name \in [Node -> Names]
        BY DEF Naming
      <4>2. given \in [Node -> Names]
        BY <2>1, <4>1
      <4> QED BY <2>1, <4>2
    <3>2. p = [s EXCEPT !.name = given, !.z = next]
      BY DEF Naming
    <3> HIDE DEF given, next, p
    <3>3. p \in Naming /\ p.name = given /\ p.z = next /\ p.done = s.done /\ p.sets = s.sets
      BY <3>1, <3>2 DEF Naming
    <3> QED BY <3>3 DEF given, next
  <2>3. t = From(p, n)
    BY <1>3 DEF ThroughUnnamed
  <2> HIDE DEF p
  <2>4. \A m \in Node : p.name[m] = IF m = n THEN Numbered(s.z) ELSE s.name[m]
    BY <1>1, <2>2 DEF Naming
  <2>5. PICK C : Recorded(s, C) /\ \A c : Needed(c) => c \in C
    BY DEF SecondPass
  <2>6. Recorded(p, C)
    <3>1. Later(s, p)
      BY <1>3, <2>2, <2>4 DEF Later
    <3> QED BY <2>2, <2>5, <3>1, RecordedStays
  <2>7. n \notin p.done /\ p.name[n] # NoName
    BY <1>1, <1>3, <2>1, <2>2, <2>4 DEF SecondPass
  <2>8. /\ t \in Naming /\ \E X : Fills(p, n, t, X)
        /\ \E D : Recorded(t, D) /\ C \subseteq D
    <3> DEFINE r == From(p, n)
    <3>1. /\ r \in Naming /\ \E X : Fills(p, n, r, X)
          /\ \E D : /\ Recorded(r, D) /\ C \subseteq D
                    /\ HasVoltage(n) => n \in D
                    /\ \A w \in Wires : Touches(w, n) => Crossed(p, n, w) \subseteq D
      BY <1>1, <2>2, <2>6, <2>7, FromFills
    <3> HIDE DEF r
    <3>2. t = r
      BY <2>3 DEF r
    <3> QED BY <3>1, <3>2
  <2> HIDE DEF t
  <2>9. PICK X : Fills(p, n, t, X)
    BY <2>8
  <2> DEFINE new == X \union {n}
  <2>10. /\ new \subseteq NetOf(Wires, n) /\ new \subseteq Node
         /\ \A m \in new : s.name[m] = NoName
         /\ \A m \in Node : t.name[m] = IF m \in new THEN Numbered(s.z) ELSE s.name[m]
         /\ t.done = s.done \union new /\ t.z = s.z + 1
         /\ \A m \in new : Neighbours(drawn, m) \intersect Unnamed(s) \subseteq new
    <3>1. n \in NetOf(Wires, n)
      BY <1>1, NetIsJoined DEF Wires
    <3>2. X \subseteq Unnamed(p) /\ X \subseteq NetOf(Wires, n)
      BY <2>9 DEF Fills
    <3>3. new \subseteq Node /\ \A m \in new : s.name[m] = NoName
      BY <1>1, <1>3, <2>4, <3>2 DEF Unnamed
    <3>4. \A m \in Node : t.name[m] = IF m \in new THEN Numbered(s.z) ELSE s.name[m]
      BY <1>1, <2>4, <2>9 DEF Fills
    <3>5. t.done = s.done \union new /\ t.z = s.z + 1
      BY <2>2, <2>9 DEF Fills
    <3>6. \A m \in new : Neighbours(drawn, m) \intersect Unnamed(s) \subseteq new
      <4>1. Unnamed(s) \subseteq Unnamed(p) \union {n}
        BY <2>4 DEF Unnamed
      <4>2. \A m \in new : Neighbours(drawn, m) \intersect Unnamed(p) \subseteq X
        BY <2>9 DEF Fills
      <4> QED BY <4>1, <4>2
    <3> QED BY <3>1, <3>2, <3>3, <3>4, <3>5, <3>6
  <2> HIDE DEF new
  <2>11. n \in new
    BY DEF new
  <2>12. \A m \in Node : t.name[m] # NoName <=> s.name[m] # NoName \/ m \in new
    BY <2>1, <2>10
  <2>13. \A m \in new : m \in Unnamed(s0)
    BY <2>10 DEF SecondPass, Unnamed
  <2>14. \A m \in Node : s0.name[m] # NoName => t.name[m] = s0.name[m]
    BY <2>10, <2>13 DEF SecondPass, Unnamed
  <2>15. ASSUME NEW m \in Unnamed(s0), t.name[m] # NoName
         PROVE  \E z \in Nat : z < t.z /\ t.name[m] = Numbered(z)
    <3>1. m \in Node
      BY DEF Unnamed
    <3>2. CASE m \in new
      BY <2>1, <2>10, <3>1, <3>2
    <3>3. CASE m \notin new
      <4>1. PICK z \in Nat : z < s.z /\ s.name[m] = Numbered(z)
        BY <2>10, <2>15, <3>1, <3>3 DEF SecondPass
      <4>2. z < t.z
        BY <2>1, <2>10, <4>1
      <4> QED BY <2>10, <3>1, <3>3, <4>1, <4>2
    <3> QED BY <3>2, <3>3
  <2>16. ASSUME NEW m \in new, NEW x \in Unnamed(s0), s.name[x] # NoName
         PROVE  t.name[m] # t.name[x] /\ x \notin NetOf(Wires, m) /\ m \notin NetOf(Wires, x)
    <3>1. m \in Node /\ x \in Node /\ x \notin new
      BY <2>10, <2>16 DEF Unnamed
    <3>2. PICK z \in Nat : z < s.z /\ s.name[x] = Numbered(z)
      BY <2>16 DEF SecondPass
    <3>3. t.name[m] = Numbered(s.z) /\ t.name[x] = Numbered(z) /\ z # s.z
      BY <2>1, <2>10, <3>1, <3>2
    <3>4. t.name[m] # t.name[x]
      BY <2>1, <3>2, <3>3, Numbers
    <3>5. Closed(s) /\ s.name[m] = NoName
      BY <2>10 DEF SecondPass
    <3> QED BY <2>16, <3>1, <3>4, <3>5, NamedTogether
  <2>17. ASSUME NEW m \in Unnamed(s0), NEW x \in Unnamed(s0), t.name[m] # NoName, t.name[x] # NoName
         PROVE  t.name[m] = t.name[x] <=> x \in NetOf(Wires, m)
    <3>1. m \in Node /\ x \in Node
      BY DEF Unnamed
    <3>2. CASE m \in new /\ x \in new
      <4>1. x \in NetOf(Wires, m)
        <5>1. Wires \subseteq Wire /\ m \in NetOf(Wires, n) /\ x \in NetOf(Wires, n)
          BY <2>10, <3>2 DEF Wires
        <5> QED BY <1>1, <5>1, NetIsShared
      <4> QED BY <2>10, <3>1, <3>2, <4>1
    <3>3. CASE m \in new /\ x \notin new
      BY <2>12, <2>16, <2>17, <3>1, <3>3
    <3>4. CASE m \notin new /\ x \in new
      BY <2>12, <2>16, <2>17, <3>1, <3>4
    <3>5. CASE m \notin new /\ x \notin new
      <4>1. t.name[m] = s.name[m] /\ t.name[x] = s.name[x]
        BY <2>10, <3>1, <3>5
      <4> QED BY <2>17, <4>1 DEF SecondPass
    <3> QED BY <3>2, <3>3, <3>4, <3>5
  <2>18. Closed(t)
    <3> SUFFICES ASSUME NEW m \in Node, t.name[m] # NoName, NEW x \in Neighbours(drawn, m)
                 PROVE  t.name[x] # NoName
      BY DEF Closed
    <3>1. x \in Node
      BY DEF Neighbours
    <3>2. CASE m \in new
      BY <2>10, <2>12, <3>1, <3>2 DEF Unnamed
    <3>3. CASE m \notin new
      BY <2>12, <3>1, <3>3 DEF SecondPass, Closed
    <3> QED BY <3>2, <3>3
  <2>19. \A m \in t.done : t.name[m] # NoName
    <3>1. s.done \subseteq Node
      BY DEF Naming
    <3> QED BY <2>10, <2>12, <3>1 DEF SecondPass
  <2>20. \A m \in Turns(i + 1) : t.name[m] # NoName
    <3>1. Turns(i) \subseteq Node
      BY NodesFinite DEF Turns
    <3> QED BY <1>1, <2>11, <2>12, <3>1 DEF SecondPass
  <2>21. \E D : Recorded(t, D) /\ \A c : Needed(c) => c \in D
    BY <2>5, <2>8
  <2>22. SecondPass(s0, t, i + 1)
    BY <2>14, <2>15, <2>17, <2>18, <2>19, <2>20, <2>21 DEF SecondPass
  <2> QED BY <2>22 DEF t, n
<1> QED
  BY <1>2, <1>3

\* What the netlist has in the end.
NamesGiven(names) ==
  \A m \in Node :
    IF \E k \in NetOf(Wires, m) : HasName(k)
    THEN \E k \in NetOf(Wires, m) : HasName(k) /\ names[m] = GivenNames[k]
    ELSE /\ \E z \in Nat : names[m] = Numbered(z)
         /\ \A x \in Node : (\A k \in NetOf(Wires, x) : ~HasName(k)) =>
              (names[m] = names[x] <=> x \in NetOf(Wires, m))

Result(t) == NamesGiven(t.name) /\ \E D : Recorded(t, D) /\ \A c : Needed(c) => c \in D

\* What giveNodeNames does, in terms of nets.
LEMMA BothPasses ==
  ASSUME SchematicOK, GiveNodeNames
  PROVE  \E t \in Naming : name' = t.name /\ nodeSets' = t.sets /\ Result(t)
<1> DEFINE start == [name |-> GivenNames, done |-> {}, sets |-> <<>>, cons |-> <<>>, z |-> 0]
           k == Len(Nodes)
<1>1. k \in Nat
  BY NodesFinite
<1>2. start \in Naming
  <2>1. <<>> \in Seq(Names) /\ <<>> \in Seq(Node) /\ 0 \in Nat /\ {} \in SUBSET Node
    OBVIOUS
  <2> QED BY <2>1, GivenIs DEF Naming
<1>3. FirstPass(start, 0)
  <2>1. Recorded(start, {})
    <3> DEFINE f == <<>>
    <3>1. f \in Seq(Conductor) /\ Len(f) = 0 /\ DOMAIN f = {} /\ Len(start.sets) = 0
      OBVIOUS
    <3> HIDE DEF f, start
    <3>2. IsInjective(f) /\ Range(f) = {} /\ 1..Len(f) = {}
      BY <3>1 DEF IsInjective, Range
    <3> QED BY <3>1, <3>2 DEF Recorded
  <2>2. Turns(0) = {}
    BY DEF Turns
  <2>3. start.name = GivenNames /\ start.done = {}
    OBVIOUS
  <2> HIDE DEF start
  <2> QED BY <2>1, <2>2, <2>3 DEF FirstPass, HasName
<1>4. PICK c : NamedPass(c, start) /\ ThroughNamedAll(start) = c[k]
  <2> HIDE DEF start
  <2> QED BY <1>2, ThroughNamedRuns
<1>5. PICK d : UnnamedPass(d, c[k]) /\ ThroughUnnamedAll(c[k]) = d[k]
  <2>1. c[k] \in Naming
    BY <1>1, <1>4 DEF NamedPass
  <2> HIDE DEF start
  <2> QED BY <2>1, ThroughUnnamedRuns
<1>6. name' = d[k].name /\ nodeSets' = d[k].sets
  <2>1. LET named == ThroughNamedAll(start)
            all == ThroughUnnamedAll(named)
        IN  name' = all.name /\ nodeSets' = all.sets
    BY DEF GiveNodeNames, ThroughNamedAll, ThroughUnnamedAll
  <2> HIDE DEF start
  <2> QED BY <1>4, <1>5, <2>1
<1> HIDE DEF start
<1>7. \A i \in 0..k : c[i] \in Naming /\ d[i] \in Naming
  BY <1>4, <1>5 DEF NamedPass, UnnamedPass
<1>8. FirstPass(c[k], k)
  <2> DEFINE G == {i \in 0..k : FirstPass(c[i], i)}
  <2>1. 0 \in G
    BY <1>1, <1>3, <1>4 DEF NamedPass
  <2>2. ASSUME NEW i \in 0..(k - 1), i \in G PROVE i + 1 \in G
    <3>1. i + 1 \in 1..k /\ (i + 1) - 1 = i /\ i \in 0..k /\ i + 1 \in 0..k
      BY <1>1
    <3>2. c[i] \in Naming /\ FirstPass(c[i], i) /\ c[i + 1] = ThroughNamed(c[i], Nodes[i + 1])
      BY <1>4, <1>7, <2>2, <3>1 DEF NamedPass
    <3>3. FirstPass(ThroughNamed(c[i], Nodes[i + 1]), i + 1)
      BY <3>2, FirstPassStep
    <3> QED BY <3>1, <3>2, <3>3
  <2> HIDE DEF G, k
  <2>3. 0..k \subseteq G
    BY <1>1, <2>1, <2>2, InductionUpTo
  <2>4. k \in G
    BY <1>1, <2>3
  <2> QED BY <2>4 DEF G
<1> DEFINE s0 == c[k]
<1>9. s0 \in Naming
  BY <1>1, <1>7
<1>10. /\ Closed(s0) /\ \A m \in s0.done : s0.name[m] # NoName
       /\ \A m \in Node : s0.name[m] # NoName =>
            \E x \in NetOf(Wires, m) : HasName(x) /\ s0.name[m] = GivenNames[x]
       /\ \A m \in Node : \A x \in NetOf(Wires, m) : HasName(x) => s0.name[m] # NoName
       /\ \E D : Recorded(s0, D) /\ \A b : Needed(b) => b \in D
  BY <1>8, <1>9, FirstPassEnds
<1>11. d[0] = s0 /\ \A i \in 1..k : d[i] = ThroughUnnamed(d[i - 1], Nodes[i])
  BY <1>5 DEF UnnamedPass
<1> HIDE DEF s0
<1>12. SecondPass(s0, s0, 0)
  <2>1. Turns(0) = {}
    BY DEF Turns
  <2> QED BY <1>10, <2>1 DEF SecondPass, Unnamed
<1>13. SecondPass(s0, d[k], k)
  <2> DEFINE G == {i \in 0..k : SecondPass(s0, d[i], i)}
  <2>1. 0 \in G
    BY <1>1, <1>11, <1>12
  <2>2. ASSUME NEW i \in 0..(k - 1), i \in G PROVE i + 1 \in G
    <3>1. i + 1 \in 1..k /\ (i + 1) - 1 = i /\ i \in 0..k /\ i + 1 \in 0..k
      BY <1>1
    <3>2. d[i] \in Naming /\ SecondPass(s0, d[i], i) /\ d[i + 1] = ThroughUnnamed(d[i], Nodes[i + 1])
      BY <1>7, <1>11, <2>2, <3>1
    <3>3. SecondPass(s0, ThroughUnnamed(d[i], Nodes[i + 1]), i + 1)
      BY <1>9, <1>10, <3>2, SecondPassStep
    <3> QED BY <3>1, <3>2, <3>3
  <2> HIDE DEF G, k
  <2>3. 0..k \subseteq G
    BY <1>1, <2>1, <2>2, InductionUpTo
  <2>4. k \in G
    BY <1>1, <2>3
  <2> QED BY <2>4 DEF G
<1> DEFINE t == d[k]
<1>14. t \in Naming
  BY <1>1, <1>7
<1> HIDE DEF t
<1>15. SecondPass(s0, t, k)
  BY <1>13 DEF t
<1>16. \A m \in Node : t.name[m] # NoName
  BY <1>15, NodesFinite DEF SecondPass, Turns
<1>17. \A m \in Node : m \in Unnamed(s0) <=> \A x \in NetOf(Wires, m) : ~HasName(x)
  BY <1>10 DEF Unnamed
<1>18. NamesGiven(t.name)
  <2> SUFFICES ASSUME NEW m \in Node
               PROVE  IF \E x \in NetOf(Wires, m) : HasName(x)
                      THEN \E x \in NetOf(Wires, m) : HasName(x) /\ t.name[m] = GivenNames[x]
                      ELSE /\ \E z \in Nat : t.name[m] = Numbered(z)
                           /\ \A x \in Node : (\A y \in NetOf(Wires, x) : ~HasName(y)) =>
                                (t.name[m] = t.name[x] <=> x \in NetOf(Wires, m))
    BY DEF NamesGiven
  <2>1. CASE \E x \in NetOf(Wires, m) : HasName(x)
    <3>1. s0.name[m] # NoName /\ t.name[m] = s0.name[m]
      BY <1>10, <1>15, <2>1 DEF SecondPass
    <3> QED BY <1>10, <2>1, <3>1
  <2>2. CASE ~(\E x \in NetOf(Wires, m) : HasName(x))
    <3>1. m \in Unnamed(s0)
      BY <1>17, <2>2
    <3>2. \E z \in Nat : t.name[m] = Numbered(z)
      BY <1>15, <1>16, <3>1 DEF SecondPass
    <3>3. ASSUME NEW x \in Node, \A y \in NetOf(Wires, x) : ~HasName(y)
          PROVE  t.name[m] = t.name[x] <=> x \in NetOf(Wires, m)
      <4>1. x \in Unnamed(s0)
        BY <1>17, <3>3
      <4> QED BY <1>15, <1>16, <3>1, <4>1 DEF SecondPass
    <3> QED BY <2>2, <3>2, <3>3
  <2> QED BY <2>1, <2>2
<1>19. Result(t)
  BY <1>15, <1>18 DEF Result, SecondPass
<1> QED
  BY <1>6, <1>14, <1>19 DEF t

-----------------------------------------------------------------------------
\* The names of nets.

\* A name that was entered.
Entry(word) == word # ""

\* The kinds of names differ.
LEMMA NamesDiffer ==
  /\ Gnd # NoName
  /\ \A word : <<word>> # NoName
  /\ \A t : NameOf(t) # NoName => NameOf(t) = <<t[1]>>
  /\ \A t : Entry(t[1]) => NameOf(t) = <<t[1]>>
<1>1. Len(Gnd) = 1 /\ Len(NoName) = 0
  BY DEF Gnd, NoName
<1>2. \A word : Len(<<word>>) = 1
  OBVIOUS
<1>3. \A word : <<word>> # NoName
  BY <1>1, <1>2
<1>4. \A t : NameOf(t) = IF Entry(t[1]) THEN <<t[1]>> ELSE NoName
  BY DEF NameOf, Entry
<1>5. Gnd # NoName
  BY <1>1
<1> QED
  BY <1>3, <1>4, <1>5

\* The only names given in a tidy net are its own.
LEMMA GivenInTidyNet ==
  ASSUME SchematicOK, NEW N \in TidyNets
  PROVE  /\ \A k \in N : HasName(k) => GivenNames[k] = NetName(N)
         /\ NetName(N) # NoName => \E k \in N : HasName(k)
         /\ Grounded(active, N) \/ LabelsOf(label, N) = {} \/ \E c \in Node \union Wires :
              /\ LabelsOf(label, N) = {c} /\ Start(c) \in N /\ label[c] # Nothing
              /\ NetName(N) = NameOf(label[c]) /\ GivenNames[Start(c)] = NameOf(label[c])
              /\ \A k \in N : HasName(k) => k = Start(c)
         /\ Grounded(active, N) => LabelsOf(label, N) = {}
<1> DEFINE L == LabelsOf(label, N)
<1>1. N \subseteq Node /\ N \in Nets(Wires) /\ Tidy(active, label, N)
  BY DEF TidyNets, Nets
<1>2. L \subseteq Node \union Wires /\ L \subseteq Conductor /\ IsFiniteSet(L)
  <2>1. L \subseteq Labelled /\ L \subseteq Conductor
    BY DEF LabelsOf, Labelled
  <2>2. Labelled \subseteq Node \union Wires
    BY DEF SchematicOK
  <2>3. IsFiniteSet(Wires)
    <3>1. IsFiniteSet(Range(drawn))
      <4>1. drawn \in Seq(Wire \union Ground)
        BY DEF SchematicOK, Lists
      <4>2. IsFiniteSet(1..Len(drawn)) /\ DOMAIN drawn = 1..Len(drawn)
        BY <4>1, CountTo
      <4>3. Range(drawn) = {drawn[i] : i \in 1..Len(drawn)}
        BY <4>2 DEF Range
      <4> DEFINE I == 1..Len(drawn)
      <4>4. drawn \in Surjection(I, Range(drawn))
        BY <4>1, <4>2 DEF Surjection, Range
      <4> HIDE DEF I
      <4> QED BY <4>2, <4>4, FS_Surjection DEF I
    <3> QED BY <3>1, FS_Subset DEF Wires
  <2>4. IsFiniteSet(Node \union Wires)
    BY <2>3, NodesFinite, FS_Union
  <2> QED BY <2>1, <2>2, <2>4, FS_Subset
<1>3. ASSUME NEW k \in Node, ~(\E g \in active : Place[g] = k), HasName(k)
      PROVE  \E c \in Node \union Wires :
               label[c] # Nothing /\ Start(c) = k /\ GivenNames[k] = NameOf(label[c])
  <2>1. CASE NamingWires(k) # <<>>
    <3> DEFINE w == NamingWires(k)[Len(NamingWires(k))]
    <3>1. w \in Range(NamingWires(k))
      BY <2>1, GivenIs DEF Range
    <3>2. w \in Wires /\ label[w] # Nothing /\ Port1[w] = k
      BY <3>1, GivenIs
    <3>3. GivenNames[k] = NameOf(label[w])
      BY <1>3, <2>1 DEF GivenNames
    <3> HIDE DEF w
    <3> QED BY <3>2, <3>3 DEF Start, Wires
  <2>2. CASE NamingWires(k) = <<>>
    <3>1. label[k] # Nothing /\ GivenNames[k] = NameOf(label[k])
      BY <1>3, <2>2 DEF GivenNames, HasName
    <3>2. Start(k) = k
      BY PartsAssumption DEF Start
    <3> QED BY <3>1, <3>2
  <2> QED BY <2>1, <2>2
<1>4. CASE Grounded(active, N)
  <2>1. L = {}
    <3>1. Cardinality(L) <= 0
      BY <1>1, <1>4 DEF Tidy
    <3>2. Cardinality(L) \in Nat
      BY <1>2, FS_CardinalityType
    <3>3. Cardinality(L) = 0
      BY <3>1, <3>2
    <3> QED BY <1>2, <3>3, FS_EmptySet
  <2>2. NetName(N) = Gnd
    BY <1>4 DEF NetName
  <2>3. ASSUME NEW k \in N, HasName(k) PROVE GivenNames[k] = Gnd
    <3>1. CASE \E g \in active : Place[g] = k
      BY <1>1, <3>1 DEF GivenNames
    <3>2. CASE ~(\E g \in active : Place[g] = k)
      <4>1. PICK c \in Node \union Wires : label[c] # Nothing /\ Start(c) = k
        BY <1>1, <1>3, <2>3, <3>2
      <4>2. c \in L
        BY <4>1 DEF LabelsOf, Conductor, Wires
      <4> QED BY <2>1, <4>2
    <3> QED BY <3>1, <3>2
  <2>4. \E k \in N : HasName(k)
    <3>1. PICK g \in active : Place[g] \in N
      BY <1>4 DEF Grounded
    <3>2. GivenNames[Place[g]] = Gnd
      BY <1>1, <3>1 DEF GivenNames
    <3> QED BY <3>1, <3>2, NamesDiffer DEF HasName
  <2> QED BY <1>4, <2>1, <2>2, <2>3, <2>4
<1>5. ASSUME ~Grounded(active, N), NEW k \in N PROVE ~(\E g \in active : Place[g] = k)
  BY <1>5 DEF Grounded
<1>6. CASE ~Grounded(active, N) /\ L = {}
  <2>1. NetName(N) = NoName
    BY <1>6 DEF NetName
  <2>2. \A k \in N : ~HasName(k)
    <3> SUFFICES ASSUME NEW k \in N, HasName(k) PROVE FALSE
      OBVIOUS
    <3>1. PICK c \in Node \union Wires : label[c] # Nothing /\ Start(c) = k
      BY <1>1, <1>3, <1>5, <1>6
    <3>2. c \in L
      BY <3>1 DEF LabelsOf, Conductor, Wires
    <3> QED BY <1>6, <3>2
  <2> QED BY <1>6, <2>1, <2>2
<1>7. CASE ~Grounded(active, N) /\ L # {}
  <2>1. PICK c : L = {c}
    <3>1. Cardinality(L) <= 1 /\ Cardinality(L) \in Nat
      BY <1>1, <1>2, <1>7, FS_CardinalityType DEF Tidy
    <3>2. Cardinality(L) # 0
      BY <1>2, <1>7, FS_EmptySet
    <3>3. Cardinality(L) = 1
      BY <3>1, <3>2
    <3> HIDE DEF L
    <3> QED BY <1>2, <3>3, FS_Singleton
  <2>2. c \in Node \union Wires /\ Start(c) \in N /\ label[c] # Nothing /\ c \in L
    BY <1>2, <2>1 DEF LabelsOf
  <2>3. NetName(N) = NameOf(label[c])
    <3>1. \A b \in L : b = c
      BY <2>1
    <3>2. (CHOOSE b \in L : TRUE) \in L
      BY <2>2
    <3>3. (CHOOSE b \in L : TRUE) = c
      BY <3>1, <3>2
    <3>4. NetName(N) = NameOf(label[CHOOSE b \in L : TRUE])
      BY <1>7 DEF NetName
    <3> QED BY <3>3, <3>4
  <2>4. \A b \in Node \union Wires : label[b] # Nothing /\ Start(b) \in N => b = c
    <3>1. \A b \in Node \union Wires : label[b] # Nothing /\ Start(b) \in N => b \in L
      BY DEF LabelsOf, Conductor, Wires
    <3> QED BY <2>1, <3>1
  <2>5. \A k \in N : HasName(k) => GivenNames[k] = NetName(N) /\ k = Start(c)
    <3> SUFFICES ASSUME NEW k \in N, HasName(k) PROVE GivenNames[k] = NetName(N) /\ k = Start(c)
      OBVIOUS
    <3>1. PICK b \in Node \union Wires :
            label[b] # Nothing /\ Start(b) = k /\ GivenNames[k] = NameOf(label[b])
      BY <1>1, <1>3, <1>5, <1>7
    <3>2. b = c
      BY <2>4, <3>1
    <3> QED BY <2>3, <3>1, <3>2
  <2>6. GivenNames[Start(c)] = NameOf(label[c])
    <3> DEFINE k == Start(c)
    <3>1. k \in Node /\ ~(\E g \in active : Place[g] = k)
      BY <1>1, <1>5, <1>7, <2>2
    <3>2. CASE NamingWires(k) # <<>>
      <4> DEFINE w == NamingWires(k)[Len(NamingWires(k))]
      <4>1. w \in Range(NamingWires(k))
        BY <3>1, <3>2, GivenIs DEF Range
      <4>2. w \in Wires /\ label[w] # Nothing /\ Port1[w] = k
        BY <3>1, <4>1, GivenIs
      <4>3. w = c
        <5>1. Start(w) = k
          BY <4>2 DEF Start, Wires
        <5> HIDE DEF w
        <5> QED BY <2>2, <2>4, <4>2, <5>1
      <4>4. GivenNames[k] = NameOf(label[w])
        BY <3>1, <3>2 DEF GivenNames
      <4> QED BY <4>3, <4>4
    <3>3. CASE NamingWires(k) = <<>>
      <4>1. c \notin Wires
        <5> SUFFICES ASSUME c \in Wires PROVE FALSE
          OBVIOUS
        <5>1. Port1[c] = k
          BY DEF Start, Wires
        <5>2. c \in Range(NamingWires(k))
          BY <2>2, <3>1, <5>1, GivenIs
        <5>3. Range(NamingWires(k)) = {}
          BY <3>3 DEF Range
        <5> QED BY <5>2, <5>3
      <4>2. k = c
        BY <2>2, <4>1, PartsAssumption DEF Start
      <4> QED BY <2>2, <3>1, <3>3, <4>2 DEF GivenNames
    <3> QED BY <3>2, <3>3
  <2>7. NetName(N) # NoName => HasName(Start(c))
    BY <2>3, <2>6 DEF HasName
  <2> QED BY <1>7, <2>1, <2>2, <2>3, <2>5, <2>6, <2>7
<1> QED
  BY <1>4, <1>6, <1>7

\* The name of a tidy net is that of all its nodes, or they have a number.
LEMMA NamesFollow ==
  ASSUME SchematicOK, NEW names, NamesGiven(names), NEW N \in TidyNets, NEW n \in N
  PROVE  /\ NetName(N) # NoName => names[n] = NetName(N)
         /\ NetName(N) = NoName => \E z \in Nat : names[n] = Numbered(z)
         /\ NetName(N) = NoName => \A k \in N : ~HasName(k)
         /\ \A z \in Nat : NetName(N) # Numbered(z)
<1>1. N \subseteq Node /\ n \in Node /\ N = NetOf(Wires, n)
  <2>1. Wires \subseteq Wire /\ N \in Nets(Wires)
    BY DEF Wires, TidyNets
  <2> QED BY <2>1, OneNetEach
<1>2. \A k \in N : HasName(k) => GivenNames[k] = NetName(N)
  BY GivenInTidyNet
<1>3. NetName(N) # NoName => \E k \in N : HasName(k)
  BY GivenInTidyNet
<1>4. NetName(N) = NoName => \A k \in N : ~HasName(k)
  BY <1>2 DEF HasName
<1>5. \A z \in Nat : NetName(N) # Numbered(z)
  <2>1. NetName(N) \in {Gnd, NoName} \/ \E t : NetName(N) = NameOf(t)
    BY DEF NetName
  <2> QED BY <2>1, Numbers
<1> QED
  BY <1>1, <1>2, <1>3, <1>4, <1>5 DEF NamesGiven

NetlistOK ==
  /\ name \in [Node -> Names]
  /\ \/ (\A n \in Node : name[n] = NoName) /\ nodeSets = <<>>
     \/ \E t \in Naming : t.name = name /\ t.sets = nodeSets /\ Result(t)

\* The names of a netlist that giveNodeNames made are those of the nets.
LEMMA NamesAreNetsFollows ==
  ASSUME SchematicOK, NetlistOK
  PROVE  NamesAreNets
<1> SUFFICES ASSUME \E n \in Node : name[n] # NoName,
                    NEW N \in TidyNets, NEW M \in TidyNets, NEW n \in N, NEW m \in M
             PROVE  /\ NetName(N) # NoName => name[n] = NetName(N)
                    /\ name[n] = name[m]
                         <=> N = M \/ (NetName(N) = NetName(M) /\ NetName(N) # NoName)
  BY DEF NamesAreNets
<1>1. NamesGiven(name)
  BY DEF NetlistOK, Result
<1>2. /\ NetName(N) # NoName => name[n] = NetName(N)
      /\ NetName(N) = NoName => \E z \in Nat : name[n] = Numbered(z)
      /\ NetName(N) = NoName => \A k \in N : ~HasName(k)
      /\ \A z \in Nat : NetName(N) # Numbered(z)
  BY <1>1, NamesFollow
<1>3. /\ NetName(M) # NoName => name[m] = NetName(M)
      /\ NetName(M) = NoName => \E z \in Nat : name[m] = Numbered(z)
      /\ NetName(M) = NoName => \A k \in M : ~HasName(k)
      /\ \A z \in Nat : NetName(M) # Numbered(z)
  BY <1>1, NamesFollow
<1>4. n \in Node /\ m \in Node /\ N = NetOf(Wires, n) /\ M = NetOf(Wires, m)
  <2>1. Wires \subseteq Wire /\ N \in Nets(Wires) /\ M \in Nets(Wires)
    BY DEF Wires, TidyNets
  <2> QED BY <2>1, OneNetEach
<1>5. m \in N <=> N = M
  <2>1. Wires \subseteq Wire
    BY DEF Wires
  <2> QED BY <1>4, <2>1, OneNetEach
<1>6. CASE NetName(N) = NoName /\ NetName(M) = NoName
  <2>1. (\A k \in NetOf(Wires, n) : ~HasName(k)) /\ \A k \in NetOf(Wires, m) : ~HasName(k)
    BY <1>2, <1>3, <1>4, <1>6
  <2>2. name[n] = name[m] <=> m \in NetOf(Wires, n)
    BY <1>1, <1>4, <2>1 DEF NamesGiven
  <2> QED BY <1>4, <1>5, <1>6, <2>2
<1>7. CASE NetName(N) = NoName /\ NetName(M) # NoName
  BY <1>2, <1>3, <1>7
<1>8. CASE NetName(N) # NoName /\ NetName(M) = NoName
  BY <1>2, <1>3, <1>8
<1>9. CASE NetName(N) # NoName /\ NetName(M) # NoName
  BY <1>2, <1>3, <1>9
<1> QED
  BY <1>6, <1>7, <1>8, <1>9

\* And its initial voltages are those of the labels.
LEMMA VoltagesAreKeptFollows ==
  ASSUME SchematicOK, NetlistOK
  PROVE  VoltagesAreKept
<1> SUFFICES ASSUME \E n \in Node : name[n] # NoName, TidyNets = Nets(Wires),
                    NEW word, Entry(word)
             PROVE  Cardinality({i \in DOMAIN nodeSets : nodeSets[i] = <<word>>})
                      = Cardinality({c \in Labelled : label[c] = <<word, TRUE>>})
  BY NamesDiffer DEF VoltagesAreKept, Entry
<1> DEFINE A == {i \in DOMAIN nodeSets : nodeSets[i] = <<word>>}
           B == {c \in Labelled : label[c] = <<word, TRUE>>}
<1>1. PICK t \in Naming : t.name = name /\ t.sets = nodeSets /\ Result(t)
  BY DEF NetlistOK
<1>2. NamesGiven(name)
  BY <1>1 DEF Result
<1>3. PICK D : Recorded(t, D) /\ \A c : Needed(c) => c \in D
  BY <1>1 DEF Result
<1>4. PICK f \in Seq(Conductor) :
        /\ IsInjective(f) /\ Range(f) = D /\ Len(f) = Len(nodeSets)
        /\ \A i \in 1..Len(f) : HasVoltage(f[i]) /\ nodeSets[i] = name[Start(f[i])]
  BY <1>1, <1>3 DEF Recorded
<1>5. /\ DOMAIN nodeSets = 1..Len(f) /\ DOMAIN f = 1..Len(f) /\ Len(f) \in Nat
      /\ \A i \in 1..Len(f) : f[i] \in Conductor
  <2>1. nodeSets \in Seq(Names)
    BY <1>1 DEF Naming
  <2>2. DOMAIN nodeSets = 1..Len(nodeSets)
    BY <2>1
  <2> QED BY <1>4, <2>2
<1>6. <<word>> # NoName /\ \A z \in Nat : Numbered(z) # <<word>>
  BY Numbers, NamesDiffer
<1>7. ASSUME NEW c \in Conductor, label[c] # Nothing
      PROVE  /\ label[c] = <<label[c][1], label[c][2]>> /\ label[c][2] \in BOOLEAN
             /\ Start(c) \in Node /\ c \in Node \union Wires
             /\ NameOf(label[c]) # NoName =>
                  /\ name[Start(c)] = NameOf(label[c]) /\ HasName(Start(c))
                  /\ \A k \in NetOf(Wires, Start(c)) : HasName(k) => k = Start(c)
             /\ NameOf(label[c]) = NoName => name[Start(c)] # <<word>>
  <2>1. label[c] \in STRING \X BOOLEAN
    BY <1>7, LabelTextAssumption DEF SchematicOK
  <2>2. Start(c) \in Node /\ c \in Node \union Wires
    BY <1>7, Starts DEF SchematicOK, Labelled
  <2> DEFINE N == NetOf(Wires, Start(c))
  <2>3. N \in TidyNets /\ Start(c) \in N
    <3>1. Wires \subseteq Wire
      BY DEF Wires
    <3> QED BY <2>2, <3>1, OneNetEach
  <2>4. c \in LabelsOf(label, N)
    BY <1>7, <2>3 DEF LabelsOf
  <2> HIDE DEF N
  <2>5. /\ NetName(N) = NameOf(label[c]) /\ GivenNames[Start(c)] = NameOf(label[c])
        /\ \A k \in N : HasName(k) => k = Start(c)
    <3>1. PICK b \in Node \union Wires :
                 /\ LabelsOf(label, N) = {b}
                 /\ NetName(N) = NameOf(label[b]) /\ GivenNames[Start(b)] = NameOf(label[b])
                 /\ \A k \in N : HasName(k) => k = Start(b)
      BY <2>3, <2>4, GivenInTidyNet
    <3>2. b = c
      BY <2>4, <3>1
    <3> QED BY <3>1, <3>2
  <2>6. /\ NetName(N) # NoName => name[Start(c)] = NetName(N)
        /\ NetName(N) = NoName => \E z \in Nat : name[Start(c)] = Numbered(z)
    <3> DEFINE k == Start(c)
    <3> HIDE DEF k
    <3>1. N \in TidyNets /\ k \in N
      BY <2>3 DEF k
    <3>2. /\ NetName(N) # NoName => name[k] = NetName(N)
          /\ NetName(N) = NoName => \E z \in Nat : name[k] = Numbered(z)
      BY <1>2, <3>1, NamesFollow
    <3> QED BY <3>2 DEF k
  <2>8. label[c] = <<label[c][1], label[c][2]>> /\ label[c][2] \in BOOLEAN
    BY <2>1
  <2>9. NameOf(label[c]) = NoName => name[Start(c)] # <<word>>
    BY <1>6, <2>5, <2>6
  <2>10. NameOf(label[c]) # NoName => name[Start(c)] = NameOf(label[c]) /\ HasName(Start(c))
    BY <2>5, <2>6 DEF HasName
  <2> QED BY <2>2, <2>5, <2>8, <2>9, <2>10 DEF N
<1>8. ASSUME NEW i \in A PROVE f[i] \in B
  <2> DEFINE c == f[i]
  <2>1. c \in Conductor /\ HasVoltage(c) /\ name[Start(c)] = <<word>>
    BY <1>4, <1>5
  <2> HIDE DEF c
  <2>2. label[c] # Nothing /\ label[c][2]
    BY <2>1 DEF HasVoltage
  <2>3. NameOf(label[c]) = <<word>> /\ NameOf(label[c]) # NoName
    BY <1>6, <1>7, <2>1, <2>2
  <2>4. <<label[c][1]>> = <<word>>
    BY <1>6, <2>3, NamesDiffer
  <2>5. label[c][1] = word
    BY <2>4
  <2>6. label[c][2] = TRUE
    <3>1. label[c][2] \in BOOLEAN
      BY <1>7, <2>1, <2>2
    <3> QED BY <2>2, <3>1
  <2>7. label[c] = <<word, TRUE>>
    <3>1. label[c] = <<label[c][1], label[c][2]>>
      BY <1>7, <2>1, <2>2
    <3> QED BY <2>5, <2>6, <3>1
  <2> QED BY <2>1, <2>2, <2>7 DEF Labelled, c
<1>9. ASSUME NEW c \in B PROVE \E i \in A : f[i] = c
  <2>1. c \in Conductor /\ label[c] # Nothing /\ label[c] = <<word, TRUE>>
    BY DEF Labelled
  <2>2. label[c][1] = word /\ label[c][2] = TRUE
    <3>1. <<word, TRUE>>[1] = word /\ <<word, TRUE>>[2] = TRUE
      OBVIOUS
    <3> QED BY <2>1, <3>1
  <2>3. HasVoltage(c)
    BY <2>1, <2>2 DEF HasVoltage
  <2>4. NameOf(label[c]) = <<word>>
    <3>1. Entry(label[c][1])
      BY <2>2
    <3>2. NameOf(label[c]) = <<label[c][1]>>
      BY <3>1, NamesDiffer
    <3> QED BY <2>2, <3>2
  <2>5. name[Start(c)] = <<word>> /\ Needed(c)
    BY <1>6, <1>7, <2>1, <2>3, <2>4 DEF Needed
  <2>6. c \in Range(f)
    BY <1>3, <1>4, <2>5
  <2>7. PICK i \in 1..Len(f) : f[i] = c
    BY <1>5, <2>6 DEF Range
  <2> QED BY <1>4, <1>5, <2>5, <2>7
<1> DEFINE g == [i \in A |-> f[i]]
<1>10. g \in Bijection(A, B)
  <2>1. g \in [A -> B]
    BY <1>8
  <2>2. \A i, j \in A : g[i] = g[j] => i = j
    BY <1>4, <1>5 DEF IsInjective
  <2>3. \A c \in B : \E i \in A : g[i] = c
    BY <1>9
  <2> HIDE DEF A, B, g
  <2> QED BY <2>1, <2>2, <2>3 DEF Bijection, Injection, Surjection, IsInjective
<1>11. IsFiniteSet(A)
  <2> DEFINE I == 1..Len(f)
  <2>1. A \subseteq I
    BY <1>5
  <2>2. IsFiniteSet(I)
    <3>1. Len(f) \in Nat
      BY <1>5
    <3> QED BY <3>1, CountTo
  <2> HIDE DEF I, A
  <2> QED BY <2>1, <2>2, FS_Subset
<1> HIDE DEF A, B, g
<1>12. Cardinality(A) = Cardinality(B)
  BY <1>10, <1>11, FS_Bijection DEF ExistsBijection
<1> QED
  BY <1>12 DEF A, B

-----------------------------------------------------------------------------
\* The walk that leaves one label.

Labelling == [Conductor -> LabelText \union {Nothing}]

Marks == [cons : Seq(Node), label : Labelling, named : BOOLEAN, kept : SUBSET Conductor]

\* Meet keeps the first label and deletes the others.
LEMMA MeetIs ==
  ASSUME NEW s \in Marks, NEW c \in Conductor
  PROVE  LET r == Meet(s, c)
         IN  /\ r \in Marks /\ r.cons = s.cons
             /\ s.label[c] = Nothing => r = s
             /\ s.label[c] # Nothing /\ s.named =>
                  r.label = [s.label EXCEPT ![c] = Nothing] /\ r.named /\ r.kept = s.kept
             /\ s.label[c] # Nothing /\ ~s.named =>
                  r.label = s.label /\ r.named /\ r.kept = {c}
<1> DEFINE r == Meet(s, c)
           unlabelled == [s.label EXCEPT ![c] = Nothing]
<1>1. CASE s.label[c] = Nothing
  <2>1. r = s
    BY <1>1 DEF Meet
  <2> QED BY <1>1, <2>1
<1>2. CASE s.label[c] # Nothing /\ s.named
  <2>1. r = [s EXCEPT !.label = unlabelled]
    BY <1>2 DEF Meet, Marks
  <2>2. unlabelled \in Labelling
    <3>1. s.label \in Labelling
      BY DEF Marks
    <3> QED BY <3>1 DEF Labelling
  <2> HIDE DEF unlabelled, r
  <2>3. r \in Marks /\ r.cons = s.cons /\ r.label = unlabelled /\ r.named = s.named /\ r.kept = s.kept
    BY <2>1, <2>2 DEF Marks
  <2> QED BY <1>2, <2>3 DEF unlabelled, r
<1>3. CASE s.label[c] # Nothing /\ ~s.named
  <2> DEFINE kept == {c}
  <2>1. r = [s EXCEPT !.named = TRUE, !.kept = kept]
    BY <1>3 DEF Meet
  <2>2. kept \in SUBSET Conductor
    OBVIOUS
  <2> HIDE DEF kept, r
  <2>3. r \in Marks /\ r.cons = s.cons /\ r.label = s.label /\ r.named = TRUE /\ r.kept = kept
    BY <2>1, <2>2 DEF Marks
  <2> QED BY <1>3, <2>3 DEF kept, r
<1> QED
  BY <1>1, <1>2, <1>3

\* A ground deletes the label that was kept.
LEMMA MeetGroundIs ==
  ASSUME NEW s \in Marks
  PROVE  LET r == MeetGround(s)
         IN  /\ r \in Marks /\ r.cons = s.cons /\ r.named /\ r.kept = {}
             /\ r.label = [c \in Conductor |-> IF c \in s.kept THEN Nothing ELSE s.label[c]]
<1> DEFINE r == MeetGround(s)
           unlabelled == [c \in Conductor |-> IF c \in s.kept THEN Nothing ELSE s.label[c]]
<1>1. r = [s EXCEPT !.named = TRUE, !.kept = {}, !.label = unlabelled]
  BY DEF MeetGround
<1>2. unlabelled \in Labelling
  BY DEF Marks, Labelling
<1> HIDE DEF unlabelled, r
<1>3. r \in Marks /\ r.cons = s.cons /\ r.named = TRUE /\ r.kept = {} /\ r.label = unlabelled
  BY <1>1, <1>2 DEF Marks
<1> QED
  BY <1>3 DEF unlabelled, r

\* One connection: a ground, or a wire that leads to a node not yet met.
LooksAt(on, s, m, part, r) ==
  /\ r.cons = Entered(s.cons, part, m, Node)
  /\ part \in Ground /\ part \in on => r = MeetGround(s)
  /\ part \in Ground /\ part \notin on => r = s
  /\ part \in Wire /\ FarEnd(part, m) \in Range(s.cons) => r = s
  /\ part \in Wire /\ FarEnd(part, m) \notin Range(s.cons) =>
       \E p \in Marks : /\ r = Meet(p, part) /\ p.cons = Append(s.cons, FarEnd(part, m))
                        /\ p.label = s.label /\ p.named = s.named /\ p.kept = s.kept

\* One connection of oneLabel keeps the types.
LEMMA OneLabelLookIs ==
  ASSUME NEW on, NEW s \in Marks, NEW m \in Node, NEW part \in Wire \union Ground, Touches(part, m)
  PROVE  /\ OneLabelLook(on, s, m, part) \in Marks
         /\ LooksAt(on, s, m, part, OneLabelLook(on, s, m, part))
<1> DEFINE r == OneLabelLook(on, s, m, part)
           far == FarEnd(part, m)
           cons == Append(s.cons, far)
           p == [s EXCEPT !.cons = cons]
<1>1. CASE part \in Ground
  <2>1. part \notin Wire
    BY <1>1, PartsAssumption
  <2>2. Entered(s.cons, part, m, Node) = s.cons
    BY <2>1 DEF Entered
  <2>3. r = IF part \in on THEN MeetGround(s) ELSE s
    BY <1>1 DEF OneLabelLook
  <2>4. MeetGround(s) \in Marks /\ MeetGround(s).cons = s.cons
    BY MeetGroundIs
  <2> HIDE DEF r
  <2> QED BY <2>1, <2>2, <2>3, <2>4 DEF r, LooksAt
<1>2. CASE part \in Wire /\ far \in Range(s.cons)
  <2>1. part \notin Ground
    BY <1>2, PartsAssumption
  <2>2. Entered(s.cons, part, m, Node) = s.cons
    BY <1>2 DEF Entered
  <2>3. r = s
    BY <1>2, <2>1 DEF OneLabelLook
  <2> HIDE DEF r
  <2> QED BY <1>2, <2>1, <2>2, <2>3 DEF r, LooksAt
<1>3. CASE part \in Wire /\ far \notin Range(s.cons)
  <2>1. part \notin Ground /\ far \in Node /\ part \in Conductor
    BY <1>3, PartsAssumption, FarEnds DEF Conductor
  <2>2. Entered(s.cons, part, m, Node) = cons
    BY <1>3, <2>1 DEF Entered
  <2>3. r = Meet(p, part)
    BY <1>3, <2>1 DEF OneLabelLook
  <2>4. cons \in Seq(Node)
    BY <2>1 DEF Marks
  <2> HIDE DEF cons, r
  <2>5. p \in Marks /\ p.cons = cons /\ p.label = s.label /\ p.named = s.named /\ p.kept = s.kept
    BY <2>4 DEF Marks
  <2> HIDE DEF p
  <2>6. r \in Marks /\ r.cons = cons
    BY <2>1, <2>3, <2>5, MeetIs
  <2> QED BY <1>3, <2>1, <2>2, <2>3, <2>5, <2>6 DEF r, cons, LooksAt
<1> QED
  BY <1>1, <1>2, <1>3

OneLabelAll(list, on, s, m) ==
  Rounds(Len(Connections(list, m)), s,
         LAMBDA t, i : OneLabelLook(on, t, m, Connections(list, m)[i]))

Marked(d, list, on, s, m) ==
  /\ d \in [0..Len(Connections(list, m)) -> Marks] /\ d[0] = s
  /\ \A i \in 1..Len(Connections(list, m)) :
       d[i] = OneLabelLook(on, d[i - 1], m, Connections(list, m)[i])

\* The connections of a node, one after the other.
LEMMA OneLabelAllRuns ==
  ASSUME NEW list \in Lists, NEW on, NEW s0 \in Marks, NEW m \in Node
  PROVE  \E d : /\ Marked(d, list, on, s0, m)
                /\ OneLabelAll(list, on, s0, m) = d[Len(Connections(list, m))]
<1> DEFINE n == Len(Connections(list, m))
           V == Marks
           first == s0
           Round(r, i) == OneLabelLook(on, r, m, Connections(list, m)[i])
           step == [p \in (1..n) \X V |-> Round(p[2], p[1])]
           Body(g) == [i \in 0..n |-> IF i = 0 THEN first ELSE Round(g[i - 1], i)]
           h == CHOOSE g : g = Body(g)
<1>1. n \in Nat /\ first \in V
  BY ConnectionsAre DEF Lists
<1>2. \A i \in 1..n, r \in V : Round(r, i) \in V
  <2> SUFFICES ASSUME NEW i \in 1..n, NEW r \in Marks
               PROVE  OneLabelLook(on, r, m, Connections(list, m)[i]) \in Marks
    OBVIOUS
  <2>1. /\ Connections(list, m)[i] \in Wire \union Ground
        /\ Touches(Connections(list, m)[i], m)
    BY ConnectionsAre
  <2> QED BY <2>1, OneLabelLookIs
<1>3. OneLabelAll(list, on, s0, m) = h[n]
  BY DEF OneLabelAll, Rounds
<1> HIDE DEF n, V, first, Round
<1>4. step \in Steps(n, V)
  BY <1>2 DEF Steps
<1>5. PICK f : Run(f, n, V, first, step)
  <2> HIDE DEF step
  <2> QED BY <1>1, <1>4, RunOfRounds
<1>6. \A i \in 1..n : f[i] = Round(f[i - 1], i)
  BY <1>5 DEF Run
<1>7. f = Body(f)
  <2>1. \A i \in 0..n : i = 0 \/ i \in 1..n
    BY <1>1
  <2>2. \A i \in 0..n : f[i] = Body(f)[i]
    BY <1>5, <1>6, <2>1 DEF Run
  <2> QED BY <1>5, <2>2 DEF Run
<1>8. h = Body(h)
  <2> HIDE DEF Body
  <2> QED BY <1>7
<1>9. h[0] = first /\ \A i \in 1..n : h[i - 1] \in V => h[i] = step[<<i, h[i - 1]>>]
  <2> HIDE DEF h
  <2>1. 0 \in 0..n /\ \A i \in 1..n : i \in 0..n /\ i # 0
    BY <1>1
  <2> QED BY <1>8, <2>1
<1> HIDE DEF h, step
<1>10. h[n] = f[n]
  BY <1>1, <1>5, <1>9 DEF Run
<1> QED
  BY <1>3, <1>5, <1>6, <1>10 DEF Run, Marked, n, V, first, Round

Unmarked(lab, start) ==
  [[cons |-> <<>>, label |-> lab, named |-> FALSE, kept |-> {}] EXCEPT !.cons = <<start>>]

\* The state in which oneLabel begins.
LEMMA UnmarkedIs ==
  ASSUME NEW lab \in Labelling, NEW start \in Node
  PROVE  Unmarked(lab, start) \in Marks
<1>1. <<start>> \in Seq(Node) /\ {} \in SUBSET Conductor
  OBVIOUS
<1> QED
  BY <1>1 DEF Unmarked, Marks

OneLabelWalk(list, on, lab, start) ==
  Walk(list, start, [cons |-> <<>>, label |-> lab, named |-> FALSE, kept |-> {}],
       Meet, LAMBDA s, n, part : OneLabelLook(on, s, n, part))

MarkedAll(c, list, on, lab, start) ==
  /\ c \in [0..Len(Nodes) -> Marks] /\ c[0] = Unmarked(lab, start)
  /\ \A i \in 1..Len(Nodes) :
       c[i] = IF i > Len(c[i - 1].cons) THEN c[i - 1]
              ELSE OneLabelAll(list, on, Meet(c[i - 1], c[i - 1].cons[i]), c[i - 1].cons[i])

\* The nodes of oneLabel's walk, one after the other.
LEMMA OneLabelRuns ==
  ASSUME NEW list \in Lists, NEW on, NEW lab \in Labelling, NEW start \in Node
  PROVE  \E c : MarkedAll(c, list, on, lab, start) /\ OneLabel(list, on, lab, start) = c[Len(Nodes)].label
<1> DEFINE n == Len(Nodes)
           V == Marks
           first == Unmarked(lab, start)
           Round(r, i) == IF i > Len(r.cons) THEN r
                          ELSE OneLabelAll(list, on, Meet(r, r.cons[i]), r.cons[i])
           step == [p \in (1..n) \X V |-> Round(p[2], p[1])]
           Body(g) == [i \in 0..n |-> IF i = 0 THEN first ELSE Round(g[i - 1], i)]
           h == CHOOSE g : g = Body(g)
<1>1. n \in Nat /\ first \in V
  BY NodesFinite, UnmarkedIs
<1>2. \A i \in 1..n, r \in V : Round(r, i) \in V
  <2> SUFFICES ASSUME NEW i \in 1..n, NEW r \in Marks, ~(i > Len(r.cons))
               PROVE  OneLabelAll(list, on, Meet(r, r.cons[i]), r.cons[i]) \in Marks
    BY DEF Marks
  <2> DEFINE m == r.cons[i]
             q == Meet(r, m)
  <2>1. m \in Node
    BY NodesFinite DEF Marks
  <2> HIDE DEF m
  <2>2. q \in Marks
    BY <2>1, MeetIs DEF Conductor
  <2> HIDE DEF q
  <2>3. PICK d : Marked(d, list, on, q, m) /\ OneLabelAll(list, on, q, m) = d[Len(Connections(list, m))]
    BY <2>1, <2>2, OneLabelAllRuns
  <2>4. Len(Connections(list, m)) \in 0..Len(Connections(list, m))
    BY <2>1, ConnectionsAre DEF Lists
  <2> QED BY <2>3, <2>4 DEF Marked, m, q
<1>3. OneLabelWalk(list, on, lab, start) = h[n]
  BY DEF OneLabelWalk, Walk, Rounds, OneLabelAll, Unmarked
<1> HIDE DEF n, V, first, Round
<1>4. step \in Steps(n, V)
  BY <1>2 DEF Steps
<1>5. PICK f : Run(f, n, V, first, step)
  <2> HIDE DEF step
  <2> QED BY <1>1, <1>4, RunOfRounds
<1>6. \A i \in 1..n : f[i] = Round(f[i - 1], i)
  BY <1>5 DEF Run
<1>7. f = Body(f)
  <2>1. \A i \in 0..n : i = 0 \/ i \in 1..n
    BY <1>1
  <2>2. \A i \in 0..n : f[i] = Body(f)[i]
    BY <1>5, <1>6, <2>1 DEF Run
  <2> QED BY <1>5, <2>2 DEF Run
<1>8. h = Body(h)
  <2> HIDE DEF Body
  <2> QED BY <1>7
<1>9. h[0] = first /\ \A i \in 1..n : h[i - 1] \in V => h[i] = step[<<i, h[i - 1]>>]
  <2> HIDE DEF h
  <2>1. 0 \in 0..n /\ \A i \in 1..n : i \in 0..n /\ i # 0
    BY <1>1
  <2> QED BY <1>8, <2>1
<1> HIDE DEF h, step
<1>10. h[n] = f[n]
  BY <1>1, <1>5, <1>9 DEF Run
<1>11. OneLabel(list, on, lab, start) = OneLabelWalk(list, on, lab, start).label
  BY DEF OneLabel, OneLabelWalk
<1> QED
  BY <1>11, <1>3, <1>5, <1>6, <1>10 DEF Run, MarkedAll, n, V, first, Round

\* Of the conductors S the walk has looked at, kept alone has its label still; Q
\* are the active grounds it came across.
Seen(lab, s, S, Q) ==
  /\ S \subseteq Conductor /\ s.kept \subseteq S
  /\ \A c \in Conductor : s.label[c] = IF c \in S \ s.kept THEN Nothing ELSE lab[c]
  /\ s.kept = {} \/ \E c : s.kept = {c}
  /\ \A c \in s.kept : lab[c] # Nothing
  /\ Q # {} => s.named /\ s.kept = {}
  /\ Q = {} /\ s.named => s.kept # {}
  /\ ~s.named => s.kept = {} /\ \A c \in S : lab[c] = Nothing

\* Each node but the first was entered over one of the wires.
Traced(list, on, s, S, Q) ==
  /\ \A w \in S \intersect Wire : /\ w \in WiresOf(list)
                                  /\ Port1[w] \in Range(s.cons) /\ Port2[w] \in Range(s.cons)
  /\ S \intersect Node \subseteq Range(s.cons)
  /\ IsFiniteSet(S \intersect Wire) /\ Cardinality(S \intersect Wire) + 1 = Len(s.cons)
  /\ Q \subseteq on /\ \A g \in Q : Place[g] \in Range(s.cons)

\* A conductor more is looked at.
LEMMA SeenMore ==
  ASSUME NEW lab, NEW s \in Marks, NEW S, NEW Q, Seen(lab, s, S, Q), NEW c \in Conductor, c \notin S
  PROVE  Seen(lab, Meet(s, c), S \union {c}, Q)
<1> DEFINE r == Meet(s, c)
<1>1. /\ r \in Marks
      /\ s.label[c] = Nothing => r = s
      /\ s.label[c] # Nothing /\ s.named =>
           r.label = [s.label EXCEPT ![c] = Nothing] /\ r.named /\ r.kept = s.kept
      /\ s.label[c] # Nothing /\ ~s.named => r.label = s.label /\ r.named /\ r.kept = {c}
  BY MeetIs
<1> HIDE DEF r
<1>2. s.label[c] = lab[c] /\ c \notin s.kept /\ S \union {c} \subseteq Conductor
  BY DEF Seen
<1>3. CASE s.label[c] = Nothing
  <2>1. r = s
    BY <1>1, <1>3
  <2>2. \A b \in Conductor : s.label[b] = IF b \in (S \union {c}) \ s.kept THEN Nothing ELSE lab[b]
    BY <1>2, <1>3 DEF Seen
  <2>3. ~s.named => \A b \in S \union {c} : lab[b] = Nothing
    BY <1>2, <1>3 DEF Seen
  <2>4. Seen(lab, s, S \union {c}, Q)
    BY <1>2, <2>2, <2>3 DEF Seen
  <2> QED BY <2>1, <2>4 DEF r
<1>4. CASE s.label[c] # Nothing /\ s.named
  <2>1. r.label = [s.label EXCEPT ![c] = Nothing] /\ r.named /\ r.kept = s.kept
    BY <1>1, <1>4
  <2>2. \A b \in Conductor : r.label[b] = IF b \in (S \union {c}) \ r.kept THEN Nothing ELSE lab[b]
    <3>1. \A b \in Conductor : r.label[b] = IF b = c THEN Nothing ELSE s.label[b]
      BY <2>1 DEF Marks, Labelling
    <3> QED BY <1>2, <2>1, <3>1 DEF Seen
  <2>3. Seen(lab, r, S \union {c}, Q)
    BY <1>2, <1>4, <2>1, <2>2 DEF Seen
  <2> QED BY <2>3 DEF r
<1>5. CASE s.label[c] # Nothing /\ ~s.named
  <2>1. r.label = s.label /\ r.named /\ r.kept = {c}
    BY <1>1, <1>5
  <2>2. s.kept = {} /\ Q = {} /\ \A b \in S : lab[b] = Nothing
    BY <1>5 DEF Seen
  <2>3. \A b \in Conductor : r.label[b] = IF b \in (S \union {c}) \ r.kept THEN Nothing ELSE lab[b]
    BY <1>2, <2>1, <2>2 DEF Seen
  <2>4. Seen(lab, r, S \union {c}, Q)
    BY <1>2, <1>5, <2>1, <2>2, <2>3 DEF Seen
  <2> QED BY <2>4 DEF r
<1> QED
  BY <1>3, <1>4, <1>5

\* An active ground is met.
LEMMA SeenGround ==
  ASSUME NEW lab, NEW s \in Marks, NEW S, NEW Q, Seen(lab, s, S, Q), NEW g
  PROVE  Seen(lab, MeetGround(s), S, Q \union {g})
<1> DEFINE r == MeetGround(s)
<1>1. /\ r \in Marks /\ r.named /\ r.kept = {}
      /\ r.label = [c \in Conductor |-> IF c \in s.kept THEN Nothing ELSE s.label[c]]
  BY MeetGroundIs
<1> HIDE DEF r
<1>2. \A b \in Conductor : r.label[b] = IF b \in S \ r.kept THEN Nothing ELSE lab[b]
  BY <1>1 DEF Seen
<1>3. Seen(lab, r, S, Q \union {g})
  BY <1>1, <1>2 DEF Seen
<1> QED
  BY <1>3 DEF r

\* One connection of a node.
SeenWith(list, on, lab, r, S, Q, part) ==
  \E S2, Q2 : /\ Seen(lab, r, S2, Q2) /\ Traced(list, on, r, S2, Q2)
              /\ S2 \intersect Node = S \intersect Node /\ Q \subseteq Q2
              /\ part \in Ground /\ part \in on => part \in Q2

\* One connection of oneLabel keeps what is known of the labels seen.
LEMMA SeenStep ==
  ASSUME NEW list \in Lists, NEW on, NEW lab, NEW s \in Marks, NEW S, NEW Q,
         Seen(lab, s, S, Q), Traced(list, on, s, S, Q),
         NEW m \in Node, m \in Range(s.cons), NEW part \in Range(list), Touches(part, m)
  PROVE  LET r == OneLabelLook(on, s, m, part)
         IN  /\ r \in Marks /\ r.cons = Entered(s.cons, part, m, Node)
             /\ SeenWith(list, on, lab, r, S, Q, part)
<1> DEFINE r == OneLabelLook(on, s, m, part)
           far == FarEnd(part, m)
<1>1. part \in Wire \union Ground
  BY DEF Lists, Range
<1>2. /\ r \in Marks /\ r.cons = Entered(s.cons, part, m, Node)
      /\ part \in Ground /\ part \in on => r = MeetGround(s)
      /\ part \in Ground /\ part \notin on => r = s
      /\ part \in Wire /\ far \in Range(s.cons) => r = s
      /\ part \in Wire /\ far \notin Range(s.cons) =>
           \E p \in Marks : /\ r = Meet(p, part) /\ p.cons = Append(s.cons, far)
                            /\ p.label = s.label /\ p.named = s.named /\ p.kept = s.kept
  <2>1. r \in Marks /\ LooksAt(on, s, m, part, r)
    BY <1>1, OneLabelLookIs
  <2> HIDE DEF r
  <2> QED BY <2>1 DEF LooksAt
<1> HIDE DEF r
<1>3. CASE part \in Ground /\ part \in on
  <2>1. r = MeetGround(s) /\ r.cons = s.cons
    BY <1>2, <1>3, MeetGroundIs
  <2>2. Seen(lab, r, S, Q \union {part})
    BY <2>1, SeenGround
  <2>3. Place[part] = m
    BY <1>3, PartsAssumption DEF Touches
  <2>4. Traced(list, on, r, S, Q \union {part})
    BY <1>3, <2>1, <2>3 DEF Traced
  <2> QED BY <1>2, <2>2, <2>4 DEF r, SeenWith
<1>4. CASE (part \in Ground /\ part \notin on) \/ (part \in Wire /\ far \in Range(s.cons))
  <2>1. r = s /\ ~(part \in Ground /\ part \in on)
    BY <1>2, <1>4, PartsAssumption
  <2> QED BY <1>2, <2>1 DEF r, SeenWith
<1>5. CASE part \in Wire /\ far \notin Range(s.cons)
  <2>1. PICK p \in Marks : /\ r = Meet(p, part) /\ p.cons = Append(s.cons, far)
                           /\ p.label = s.label /\ p.named = s.named /\ p.kept = s.kept
    BY <1>2, <1>5
  <2>2. Seen(lab, p, S, Q)
    BY <2>1 DEF Seen
  <2>3. /\ part \in Conductor /\ part \notin Node /\ part \notin Ground
        /\ {Port1[part], Port2[part]} = {m, far} /\ far \in Node
    BY <1>5, PartsAssumption, FarEnds DEF Conductor, Joins
  <2>4. part \notin S
    BY <1>5, <2>3 DEF Traced
  <2>5. Seen(lab, r, S \union {part}, Q)
    BY <2>1, <2>2, <2>3, <2>4, SeenMore
  <2>6. r.cons = Append(s.cons, far)
    BY <2>1, <2>3, MeetIs
  <2>7. /\ Range(r.cons) = Range(s.cons) \union {far} /\ Len(r.cons) = Len(s.cons) + 1
    <3>1. s.cons \in Seq(Node)
      BY DEF Marks
    <3> QED BY <2>3, <2>6, <3>1, NodeLists
  <2>8. part \in WiresOf(list)
    BY <1>5 DEF WiresOf
  <2>9. /\ IsFiniteSet((S \union {part}) \intersect Wire)
        /\ Cardinality((S \union {part}) \intersect Wire) = Cardinality(S \intersect Wire) + 1
    <3> DEFINE V == S \intersect Wire
    <3>1. (S \union {part}) \intersect Wire = V \union {part} /\ part \notin V
      BY <1>5, <2>4
    <3>2. IsFiniteSet(V)
      BY DEF Traced
    <3> HIDE DEF V
    <3>3. IsFiniteSet(V \union {part}) /\ Cardinality(V \union {part}) = Cardinality(V) + 1
      BY <3>1, <3>2, FS_AddElement
    <3> QED BY <3>1, <3>3 DEF V
  <2>10. Traced(list, on, r, S \union {part}, Q)
    <3>1. \A w \in (S \union {part}) \intersect Wire :
             w \in WiresOf(list) /\ Port1[w] \in Range(r.cons) /\ Port2[w] \in Range(r.cons)
      BY <2>3, <2>7, <2>8 DEF Traced
    <3>2. (S \union {part}) \intersect Node \subseteq Range(r.cons)
      BY <2>3, <2>7 DEF Traced
    <3>3. Cardinality((S \union {part}) \intersect Wire) + 1 = Len(r.cons)
      BY <2>7, <2>9 DEF Traced
    <3>4. Q \subseteq on /\ \A g \in Q : Place[g] \in Range(r.cons)
      BY <2>7 DEF Traced
    <3> QED BY <2>9, <3>1, <3>2, <3>3, <3>4 DEF Traced
  <2>11. (S \union {part}) \intersect Node = S \intersect Node
    BY <2>3
  <2>12. ~(part \in Ground /\ part \in on)
    BY <2>3
  <2> QED BY <1>2, <2>5, <2>10, <2>11, <2>12 DEF r, SeenWith
<1> QED
  BY <1>1, <1>3, <1>4, <1>5

\* All connections of a node.
SeenAt(list, on, lab, r, S, Q, m) ==
  \E S2, Q2 : /\ Seen(lab, r, S2, Q2) /\ Traced(list, on, r, S2, Q2)
              /\ S2 \intersect Node = (S \intersect Node) \union {m} /\ Q \subseteq Q2
              /\ \A g \in on \intersect Range(list) : g \in Ground /\ Place[g] = m => g \in Q2

\* And so do a node and all its connections.
LEMMA SeenAll ==
  ASSUME NEW list \in Lists, NEW on, NEW lab, NEW s \in Marks, NEW S, NEW Q,
         Seen(lab, s, S, Q), Traced(list, on, s, S, Q), IsInjective(s.cons),
         NEW m \in Node, m \in Range(s.cons), m \notin S
  PROVE  LET r == OneLabelAll(list, on, Meet(s, m), m)
         IN  /\ r \in Marks /\ Grows(s.cons, r.cons, list, m, Node)
             /\ SeenAt(list, on, lab, r, S, Q, m)
<1> DEFINE q == Meet(s, m)
           parts == Connections(list, m)
           k == Len(parts)
           V == S \union {m}
<1>1. m \in Conductor /\ m \notin Wire
  BY PartsAssumption DEF Conductor
<1>2. q \in Marks /\ q.cons = s.cons /\ Seen(lab, q, V, Q)
  BY <1>1, MeetIs, SeenMore
<1> HIDE DEF q
<1>3. Traced(list, on, q, V, Q)
  <2>1. V \intersect Wire = S \intersect Wire
    BY <1>1
  <2>2. V \intersect Node = (S \intersect Node) \union {m}
    OBVIOUS
  <2> HIDE DEF V
  <2> QED BY <1>2, <2>1, <2>2 DEF Traced
<1>4. /\ parts \in Lists /\ k \in Nat /\ DOMAIN parts = 1..k
      /\ Range(parts) = {part \in Range(list) : Touches(part, m)}
      /\ \A i \in 1..k : parts[i] \in Range(list) /\ Touches(parts[i], m)
  <2>1. parts \in Lists /\ Range(parts) = {part \in Range(list) : Touches(part, m)}
        /\ \A i \in 1..k : parts[i] \in Range(list) /\ Touches(parts[i], m)
    BY ConnectionsAre
  <2> HIDE DEF parts
  <2> QED BY <2>1 DEF Lists
<1>5. PICK d : Marked(d, list, on, q, m) /\ OneLabelAll(list, on, q, m) = d[k]
  BY <1>2, OneLabelAllRuns
<1>6. /\ d \in [0..k -> Marks] /\ d[0] = q
      /\ \A i \in 1..k : d[i] = OneLabelLook(on, d[i - 1], m, parts[i])
  BY <1>5 DEF Marked
<1> HIDE DEF parts, k, V
<1> DEFINE Met(i, S2, Q2) ==
             /\ Seen(lab, d[i], S2, Q2) /\ Traced(list, on, d[i], S2, Q2)
             /\ S2 \intersect Node = V \intersect Node /\ Q \subseteq Q2
             /\ \A j \in 1..i : parts[j] \in Ground /\ parts[j] \in on => parts[j] \in Q2
           Good(i) == m \in Range(d[i].cons) /\ \E S2, Q2 : Met(i, S2, Q2)
           G == {i \in 0..k : Good(i)}
<1>7. 0 \in G
  <2>1. Met(0, V, Q)
    BY <1>2, <1>3, <1>6
  <2>2. m \in Range(d[0].cons) /\ 0 \in 0..k
    BY <1>2, <1>4, <1>6
  <2> HIDE DEF Met
  <2> QED BY <2>1, <2>2
<1>8. ASSUME NEW i \in 0..(k - 1), i \in G
      PROVE  /\ i + 1 \in G
             /\ d[i + 1].cons = Entered(d[i].cons, parts[i + 1], m, Node)
  <2> DEFINE part == parts[i + 1]
             t == d[i]
             r == OneLabelLook(on, t, m, part)
  <2>1. i + 1 \in 1..k /\ (i + 1) - 1 = i /\ i \in 0..k /\ i + 1 \in 0..k
    BY <1>4
  <2>2. d[i + 1] = r /\ t \in Marks /\ Good(i) /\ part \in Range(list) /\ Touches(part, m)
    BY <1>4, <1>6, <1>8, <2>1
  <2>3. PICK S2, Q2 : Met(i, S2, Q2)
    <3> HIDE DEF Met
    <3> QED BY <2>2
  <2>4. Seen(lab, t, S2, Q2) /\ Traced(list, on, t, S2, Q2) /\ m \in Range(t.cons)
    BY <2>2, <2>3
  <2> HIDE DEF part, t
  <2>5. /\ r \in Marks /\ r.cons = Entered(t.cons, part, m, Node)
        /\ SeenWith(list, on, lab, r, S2, Q2, part)
    BY <2>2, <2>4, SeenStep
  <2> HIDE DEF r
  <2>6. PICK S3, Q3 : /\ Seen(lab, r, S3, Q3) /\ Traced(list, on, r, S3, Q3)
                      /\ S3 \intersect Node = S2 \intersect Node /\ Q2 \subseteq Q3
                      /\ part \in Ground /\ part \in on => part \in Q3
    BY <2>5 DEF SeenWith
  <2>7. Met(i + 1, S3, Q3)
    <3>1. \A j \in 1..(i + 1) : j \in 1..i \/ j = i + 1
      BY <2>1
    <3>2. \A j \in 1..(i + 1) : parts[j] \in Ground /\ parts[j] \in on => parts[j] \in Q3
      BY <2>3, <2>6, <3>1 DEF part
    <3> QED BY <2>2, <2>3, <2>6, <3>2
  <2>8. m \in Range(d[i + 1].cons)
    <3>1. t.cons \in Seq(Node) /\ part \in Wire \union Ground
      BY <2>2 DEF Marks, Lists, Range
    <3> QED BY <2>2, <2>4, <2>5, <3>1, EnteredIs
  <2> HIDE DEF Met
  <2> QED BY <2>1, <2>2, <2>5, <2>7, <2>8 DEF part, t
<1>9. 0..k \subseteq G
  <2> HIDE DEF G
  <2> QED BY <1>4, <1>7, <1>8, InductionUpTo
<1>10. Grows(s.cons, d[k].cons, list, m, Node)
  <2> DEFINE e == [i \in 0..k |-> d[i].cons]
  <2>1. e \in [0..k -> Seq(Node)] /\ e[0] = s.cons /\ e[k] = d[k].cons
    BY <1>2, <1>4, <1>6 DEF Marks
  <2>2. \A i \in 1..k : e[i] = Entered(e[i - 1], parts[i], m, Node)
    <3> SUFFICES ASSUME NEW i \in 1..k PROVE d[i].cons = Entered(d[i - 1].cons, parts[i], m, Node)
      BY <1>4
    <3>1. i - 1 \in 0..(k - 1) /\ (i - 1) + 1 = i /\ i - 1 \in 0..k
      BY <1>4
    <3>2. i - 1 \in G
      <4> HIDE DEF G
      <4> QED BY <1>9, <3>1
    <3>3. d[(i - 1) + 1].cons = Entered(d[i - 1].cons, parts[(i - 1) + 1], m, Node)
      <4> HIDE DEF G
      <4> QED BY <1>8, <3>1, <3>2
    <3> QED BY <3>1, <3>3
  <2> HIDE DEF e
  <2> QED BY <2>1, <2>2, EnteredGrows DEF parts, k
<1>11. k \in 0..k /\ d[k] \in Marks
  BY <1>4, <1>6
<1>12. PICK S2, Q2 : Met(k, S2, Q2)
  <2> HIDE DEF Met
  <2> QED BY <1>9, <1>11
<1>13. \A g \in on \intersect Range(list) : g \in Ground /\ Place[g] = m => g \in Q2
  <2> SUFFICES ASSUME NEW g \in on \intersect Range(list), g \in Ground, Place[g] = m
               PROVE  g \in Q2
    OBVIOUS
  <2>1. Touches(g, m)
    BY PartsAssumption DEF Touches
  <2>2. g \in Range(parts)
    BY <1>4, <2>1
  <2>3. PICK j \in 1..k : parts[j] = g
    BY <1>4, <2>2 DEF Range
  <2> QED BY <1>12, <2>3
<1>14. S2 \intersect Node = (S \intersect Node) \union {m}
  BY <1>12 DEF V
<1>15. Seen(lab, d[k], S2, Q2) /\ Traced(list, on, d[k], S2, Q2) /\ Q \subseteq Q2
  BY <1>12
<1> HIDE DEF Met, Good, G
<1> QED
  BY <1>5, <1>10, <1>11, <1>13, <1>14, <1>15 DEF q, SeenAt

\* A set that has the neighbours of its nodes is left by no wire.
LEMMA ClosedIsJoined ==
  ASSUME NEW list \in Lists, NEW S \in SUBSET Node, \A m \in S : Neighbours(list, m) \subseteq S
  PROVE  Joined(WiresOf(list), S)
<1> SUFFICES ASSUME NEW w \in WiresOf(list) PROVE Port1[w] \in S <=> Port2[w] \in S
  BY DEF Joined
<1>1. w \in Wire
  BY DEF WiresOf
<1>2. /\ Port1[w] \in Node /\ Port2[w] \in Node
      /\ Joins(w, Port1[w], Port2[w]) /\ Joins(w, Port2[w], Port1[w])
  BY <1>1, Ends DEF Joins
<1>3. Port2[w] \in Neighbours(list, Port1[w]) /\ Port1[w] \in Neighbours(list, Port2[w])
  BY <1>2 DEF Neighbours
<1> QED
  BY <1>3

\* A walk that may enter all nodes meets the net.
LEMMA MeetsTheNet ==
  ASSUME NEW list \in Lists, NEW start \in Node, NEW met \in Seq(Node), NEW U, Node \subseteq U,
         IsInjective(met), met[1] = start, Len(met) >= 1,
         \A S \in SUBSET Node : start \in S /\ Joined(WiresOf(list), S) => Range(met) \subseteq S,
         \A m \in Range(met) : Neighbours(list, m) \intersect U \subseteq Range(met)
  PROVE  /\ Range(met) = NetOf(WiresOf(list), start)
         /\ Cardinality(NetOf(WiresOf(list), start)) = Len(met) /\ Len(met) <= Len(Nodes)
<1> DEFINE N == NetOf(WiresOf(list), start)
<1>1. /\ start \in N /\ N \in SUBSET Node /\ Joined(WiresOf(list), N)
      /\ \A S \in SUBSET Node : start \in S /\ Joined(WiresOf(list), S) => N \subseteq S
  BY NetIsJoined DEF WiresOf
<1> HIDE DEF N
<1>2. Range(met) \subseteq N
  BY <1>1
<1>3. Range(met) \in SUBSET Node /\ start \in Range(met)
  BY DEF Range
<1>4. \A m \in Range(met) : Neighbours(list, m) \subseteq Range(met)
  BY DEF Neighbours
<1>5. N \subseteq Range(met)
  BY <1>1, <1>3, <1>4, ClosedIsJoined
<1>6. Cardinality(Range(met)) = Len(met) /\ Len(met) <= Len(Nodes)
  BY NotTooLong
<1> QED
  BY <1>2, <1>5, <1>6 DEF N

\* What oneLabel leaves: of the conductors S it has looked at, K are labelled.
OneLeft(list, on, lab, start, S, K, r) ==
  LET N == NetOf(WiresOf(list), start)
  IN  /\ S \subseteq Conductor /\ K \subseteq S /\ (K = {} \/ \E c : K = {c})
      /\ \A c \in Conductor : r[c] = IF c \in S \ K THEN Nothing ELSE lab[c]
      /\ N \subseteq S /\ \A c \in S : Start(c) \in N
      /\ S \intersect Wire \subseteq WiresOf(list) /\ IsFiniteSet(S \intersect Wire)
      /\ Cardinality(S \intersect Wire) = Cardinality(N) - 1
      /\ \A c \in K : lab[c] # Nothing
      /\ Grounded(on, N) => K = {}
      /\ ~Grounded(on, N) => K # {} \/ \A c \in S : lab[c] = Nothing

\* When oneLabel ends it has looked at the whole net.
LEMMA OneLabelLeaves ==
  ASSUME NEW list \in Lists, NEW on, on \subseteq Range(list) \intersect Ground,
         NEW lab \in Labelling, NEW start \in Node
  PROVE  LET r == OneLabel(list, on, lab, start)
         IN  r \in Labelling /\ \E S, K : OneLeft(list, on, lab, start, S, K, r)
<1> DEFINE k == Len(Nodes)
<1>1. k \in Nat /\ k >= 1
  BY NodesFinite
<1>2. PICK c : MarkedAll(c, list, on, lab, start) /\ OneLabel(list, on, lab, start) = c[k].label
  BY OneLabelRuns
<1>3. /\ c \in [0..k -> Marks] /\ c[0] = Unmarked(lab, start)
      /\ \A i \in 1..k : c[i] = IF i > Len(c[i - 1].cons) THEN c[i - 1]
                                ELSE OneLabelAll(list, on, Meet(c[i - 1], c[i - 1].cons[i]), c[i - 1].cons[i])
  BY <1>2 DEF MarkedAll
<1> HIDE DEF k
<1> DEFINE Past(i, S, Q) ==
             /\ Seen(lab, c[i], S, Q) /\ Traced(list, on, c[i], S, Q)
             /\ \A j \in 1..Len(c[i].cons) : c[i].cons[j] \in S <=> j <= i
             /\ \A g \in on \intersect Range(list), j \in 1..Len(c[i].cons) :
                  g \in Ground /\ Place[g] = c[i].cons[j] /\ j <= i => g \in Q
           Good(i) == IsInjective(c[i].cons) /\ \E S, Q : Past(i, S, Q)
           G == {i \in 0..k : Good(i)}
           Next1(i) == IF i > Len(c[i - 1].cons) THEN c[i].cons = c[i - 1].cons
                       ELSE Grows(c[i - 1].cons, c[i].cons, list, c[i - 1].cons[i], Node)
<1>4. 0 \in G
  <2> DEFINE a == <<start>>
             s == c[0]
  <2>1. a \in Seq(Node) /\ Len(a) = 1 /\ a[1] = start /\ DOMAIN a = 1..1
    OBVIOUS
  <2>2. IsInjective(a)
    <3> HIDE DEF a
    <3> QED BY <2>1 DEF IsInjective
  <2>3. /\ s.cons = a /\ s.label = lab /\ s.named = FALSE /\ s.kept = {}
    BY <1>3 DEF Unmarked
  <2> HIDE DEF a, s
  <2>4. Seen(lab, s, {}, {})
    BY <2>3 DEF Seen
  <2>5. Traced(list, on, s, {}, {})
    <3>1. {} \intersect Wire = {} /\ IsFiniteSet({}) /\ Cardinality({}) = 0
      BY FS_EmptySet
    <3>2. {} \intersect Node = {}
      OBVIOUS
    <3> QED BY <2>1, <2>3, <3>1, <3>2 DEF Traced
  <2>6. /\ \A j \in 1..Len(s.cons) : s.cons[j] \in {} <=> j <= 0
        /\ \A g \in on \intersect Range(list), j \in 1..Len(s.cons) :
             g \in Ground /\ Place[g] = s.cons[j] /\ j <= 0 => g \in {}
    BY <2>1, <2>3
  <2>7. Past(0, {}, {})
    BY <2>4, <2>5, <2>6 DEF s
  <2>8. IsInjective(c[0].cons) /\ 0 \in 0..k
    BY <1>1, <2>2, <2>3 DEF s
  <2> HIDE DEF Past
  <2> QED BY <2>7, <2>8
<1>5. ASSUME NEW i \in 0..(k - 1), i \in G PROVE i + 1 \in G /\ Next1(i + 1)
  <2> DEFINE t == c[i]
             m == t.cons[i + 1]
             r == OneLabelAll(list, on, Meet(t, m), m)
  <2>1. i + 1 \in 1..k /\ (i + 1) - 1 = i /\ i \in 0..k /\ i + 1 \in 0..k
    BY <1>1
  <2>2. PICK S, Q : Past(i, S, Q)
    <3> HIDE DEF Past
    <3> QED BY <1>5
  <2>3. t \in Marks /\ IsInjective(t.cons)
    BY <1>3, <1>5, <2>1
  <2>4. /\ Seen(lab, t, S, Q) /\ Traced(list, on, t, S, Q)
        /\ \A j \in 1..Len(t.cons) : t.cons[j] \in S <=> j <= i
        /\ \A g \in on \intersect Range(list), j \in 1..Len(t.cons) :
             g \in Ground /\ Place[g] = t.cons[j] /\ j <= i => g \in Q
    BY <2>2
  <2>5. c[i + 1] = IF i + 1 > Len(t.cons) THEN t ELSE r
    BY <1>3, <2>1
  <2> HIDE DEF t
  <2>6. t.cons \in Seq(Node) /\ Len(t.cons) \in Nat /\ DOMAIN t.cons = 1..Len(t.cons)
    BY <2>3 DEF Marks
  <2>7. CASE i + 1 > Len(t.cons)
    <3>1. c[i + 1] = t
      BY <2>5, <2>7
    <3>2. \A j \in 1..Len(t.cons) : j <= i + 1 <=> j <= i
      BY <2>1, <2>6, <2>7
    <3>3. /\ \A j \in 1..Len(t.cons) : t.cons[j] \in S <=> j <= i + 1
          /\ \A g \in on \intersect Range(list), j \in 1..Len(t.cons) :
               g \in Ground /\ Place[g] = t.cons[j] /\ j <= i + 1 => g \in Q
      BY <2>4, <3>2
    <3>4. Past(i + 1, S, Q)
      BY <2>4, <3>1, <3>3
    <3>5. Next1(i + 1)
      BY <2>1, <2>7, <3>1 DEF t
    <3> HIDE DEF Past, Next1
    <3> QED BY <2>1, <2>3, <3>1, <3>4, <3>5
  <2>8. CASE ~(i + 1 > Len(t.cons))
    <3>1. m \in Node /\ m \in Range(t.cons) /\ m \notin S /\ i + 1 \in 1..Len(t.cons)
      BY <2>1, <2>4, <2>6, <2>8 DEF Range
    <3> DEFINE x == m
    <3> HIDE DEF x
    <3>2. x \in Node /\ x \in Range(t.cons) /\ x \notin S /\ x = t.cons[i + 1]
      BY <3>1 DEF x
    <3> DEFINE p == OneLabelAll(list, on, Meet(t, x), x)
    <3>3. p \in Marks /\ Grows(t.cons, p.cons, list, x, Node) /\ SeenAt(list, on, lab, p, S, Q, x)
      BY <2>3, <2>4, <3>2, SeenAll
    <3>4. c[i + 1] = p
      BY <2>5, <2>8 DEF x
    <3> HIDE DEF p, m, r
    <3>5. PICK S2, Q2 : /\ Seen(lab, p, S2, Q2) /\ Traced(list, on, p, S2, Q2)
                        /\ S2 \intersect Node = (S \intersect Node) \union {x} /\ Q \subseteq Q2
                        /\ \A g \in on \intersect Range(list) : g \in Ground /\ Place[g] = x => g \in Q2
      BY <3>3 DEF SeenAt
    <3>6. p.cons \in Seq(Node) /\ Len(p.cons) \in Nat /\ DOMAIN p.cons = 1..Len(p.cons)
      BY <3>3 DEF Marks
    <3>7. /\ Len(t.cons) <= Len(p.cons) /\ \A j \in 1..Len(t.cons) : p.cons[j] = t.cons[j]
          /\ IsInjective(p.cons)
      BY <2>3, <3>3 DEF Grows
    <3>8. \A j \in 1..Len(p.cons) : p.cons[j] \in Node
      BY <3>6
    <3>9. ASSUME NEW j \in 1..Len(p.cons) PROVE p.cons[j] \in S2 <=> j <= i + 1
      <4>1. p.cons[j] \in S2 <=> p.cons[j] \in S \/ p.cons[j] = x
        BY <3>5, <3>8
      <4>2. CASE j \in 1..Len(t.cons)
        <5>1. p.cons[j] = t.cons[j] /\ (t.cons[j] \in S <=> j <= i)
          BY <2>4, <3>7, <4>2
        <5>2. t.cons[j] = x <=> j = i + 1
          BY <2>3, <2>6, <3>1, <3>2, <4>2 DEF IsInjective
        <5> QED BY <2>1, <4>1, <4>2, <5>1, <5>2
      <4>3. CASE j \notin 1..Len(t.cons)
        <5>1. p.cons[j] \notin Range(t.cons)
          <6> SUFFICES ASSUME NEW l \in 1..Len(t.cons), p.cons[j] = t.cons[l] PROVE FALSE
            BY <2>6 DEF Range
          <6>1. p.cons[l] = p.cons[j] /\ l \in 1..Len(p.cons)
            BY <2>6, <3>6, <3>7
          <6>2. l = j
            BY <3>6, <3>7, <6>1 DEF IsInjective
          <6> QED BY <4>3, <6>2
        <5>2. p.cons[j] \notin S /\ p.cons[j] # x
          BY <2>4, <3>2, <3>8, <5>1 DEF Traced
        <5>3. ~(j <= i + 1)
          BY <2>1, <2>6, <3>1, <3>6, <4>3
        <5> QED BY <4>1, <5>2, <5>3
      <4> QED BY <4>2, <4>3
    <3>10. ASSUME NEW g \in on \intersect Range(list), NEW j \in 1..Len(p.cons),
                  g \in Ground, Place[g] = p.cons[j], j <= i + 1
           PROVE  g \in Q2
      <4>1. j \in 1..Len(t.cons)
        BY <2>1, <2>6, <3>1, <3>6, <3>10
      <4>2. p.cons[j] = t.cons[j]
        BY <3>7, <4>1
      <4>3. CASE j <= i
        BY <2>4, <3>5, <3>10, <4>1, <4>2, <4>3
      <4>4. CASE j = i + 1
        BY <3>2, <3>5, <3>10, <4>2, <4>4
      <4> QED BY <2>1, <3>6, <3>10, <4>3, <4>4
    <3>11. Past(i + 1, S2, Q2)
      BY <3>4, <3>5, <3>9, <3>10
    <3>12. Next1(i + 1)
      BY <2>1, <2>8, <3>2, <3>3, <3>4 DEF t
    <3> HIDE DEF Past, Next1
    <3> QED BY <2>1, <3>4, <3>7, <3>11, <3>12
  <2> QED BY <2>7, <2>8
<1>6. 0..k \subseteq G
  <2> HIDE DEF G
  <2> QED BY <1>1, <1>4, <1>5, InductionUpTo
<1>7. \A i \in 1..k : Next1(i)
  <2> SUFFICES ASSUME NEW i \in 1..k PROVE Next1(i)
    OBVIOUS
  <2>1. i - 1 \in 0..(k - 1) /\ (i - 1) + 1 = i /\ i - 1 \in 0..k
    BY <1>1
  <2>2. i - 1 \in G
    <3> HIDE DEF G
    <3> QED BY <1>6, <2>1
  <2>3. Next1((i - 1) + 1)
    <3> HIDE DEF G, Next1
    <3> QED BY <1>5, <2>1, <2>2
  <2> QED BY <2>1, <2>3
<1> DEFINE e == [i \in 0..k |-> c[i].cons]
           met == e[k]
           N == NetOf(WiresOf(list), start)
<1>8. Range(met) = N /\ Cardinality(N) = Len(met) /\ Len(met) <= k /\ met \in Seq(Node)
  <2>1. e \in [0..k -> Seq(Node)] /\ e[0] = <<start>>
    BY <1>1, <1>3 DEF Marks, Unmarked
  <2>2. \A i \in 1..k : IF i > Len(e[i - 1]) THEN e[i] = e[i - 1]
                        ELSE Grows(e[i - 1], e[i], list, e[i - 1][i], Node)
    <3> SUFFICES ASSUME NEW i \in 1..k
                 PROVE  IF i > Len(e[i - 1]) THEN e[i] = e[i - 1]
                        ELSE Grows(e[i - 1], e[i], list, e[i - 1][i], Node)
      OBVIOUS
    <3>1. e[i - 1] = c[i - 1].cons /\ e[i] = c[i].cons
      BY <1>1
    <3>2. Next1(i)
      BY <1>7
    <3> QED BY <3>1, <3>2
  <2> DEFINE U == Node
  <2> HIDE DEF e, U
  <2>5. list \in Lists /\ start \in Node
    OBVIOUS
  <2>6. \A i \in 1..k : IF i > Len(e[i - 1]) THEN e[i] = e[i - 1]
                        ELSE Grows(e[i - 1], e[i], list, e[i - 1][i], U)
    BY <2>2 DEF U
  <2>8. MetFrom(list, U, start, met)
    <3>1. WalkSteps(list, U, start, e)
      BY <2>1, <2>6 DEF WalkSteps, k
    <3> QED BY <2>5, <3>1, WalkMeets DEF k
  <2>3. /\ IsInjective(met) /\ met[1] = start /\ Len(met) >= 1
        /\ \A S \in SUBSET Node : start \in S /\ Joined(WiresOf(list), S) => Range(met) \subseteq S
        /\ \A m \in Range(met) : Neighbours(list, m) \intersect U \subseteq Range(met)
    BY <2>8 DEF MetFrom
  <2>7. Node \subseteq U
    BY DEF U
  <2>4. met \in Seq(Node)
    BY <1>1, <2>1
  <2> HIDE DEF met
  <2> QED BY <2>3, <2>4, <2>7, MeetsTheNet DEF k
<1> DEFINE t == c[k]
<1>9. t \in Marks /\ met = t.cons /\ k \in 0..k
  BY <1>1, <1>3
<1>10. PICK S, Q : Past(k, S, Q)
  <2>1. Good(k)
    <3> HIDE DEF Good
    <3> QED BY <1>6, <1>9
  <2> HIDE DEF Past
  <2> QED BY <2>1
<1> HIDE DEF e, met
<1>11. /\ Seen(lab, t, S, Q) /\ Traced(list, on, t, S, Q)
       /\ \A j \in 1..Len(met) : met[j] \in S
       /\ \A g \in on \intersect Range(list), j \in 1..Len(met) :
            g \in Ground /\ Place[g] = met[j] => g \in Q
  <2>1. \A j \in 1..Len(met) : j <= k
    BY <1>1, <1>8
  <2> QED BY <1>9, <1>10, <2>1
<1> HIDE DEF t, Past, N
<1>12. N \subseteq S
  BY <1>8, <1>11 DEF Range
<1>13. \A b \in S : Start(b) \in N
  <2> SUFFICES ASSUME NEW b \in S PROVE Start(b) \in N
    OBVIOUS
  <2>1. CASE b \in Wire
    BY <1>8, <1>9, <1>11, <2>1 DEF Traced, Start
  <2>2. CASE b \notin Wire
    <3>1. b \in Node
      BY <1>11, <2>2 DEF Seen, Conductor
    <3> QED BY <1>8, <1>9, <1>11, <2>2, <3>1 DEF Traced, Start
  <2> QED BY <2>1, <2>2
<1>14. S \intersect Wire \subseteq WiresOf(list) /\ IsFiniteSet(S \intersect Wire)
  BY <1>11 DEF Traced
<1>15. Cardinality(S \intersect Wire) = Cardinality(N) - 1
  <2>1. Cardinality(S \intersect Wire) \in Nat
    BY <1>14, FS_CardinalityType
  <2>2. Cardinality(S \intersect Wire) + 1 = Len(met)
    BY <1>9, <1>11 DEF Traced
  <2> QED BY <1>8, <2>1, <2>2
<1>16. Grounded(on, N) => Q # {}
  <2> SUFFICES ASSUME Grounded(on, N) PROVE Q # {}
    OBVIOUS
  <2>1. PICK g \in on : Place[g] \in N
    BY DEF Grounded
  <2>2. PICK j \in 1..Len(met) : met[j] = Place[g]
    BY <1>8, <2>1 DEF Range
  <2> QED BY <1>11, <2>2
<1>17. ~Grounded(on, N) => Q = {}
  BY <1>8, <1>9, <1>11 DEF Traced, Grounded
<1>18. t.kept = {} \/ t.named
  BY <1>11 DEF Seen
<1>19. OneLeft(list, on, lab, start, S, t.kept, t.label)
  <2>1. /\ S \subseteq Conductor /\ t.kept \subseteq S /\ (t.kept = {} \/ \E b : t.kept = {b})
        /\ \A b \in Conductor : t.label[b] = IF b \in S \ t.kept THEN Nothing ELSE lab[b]
        /\ \A b \in t.kept : lab[b] # Nothing
    BY <1>11 DEF Seen
  <2>2. Grounded(on, N) => t.kept = {}
    BY <1>11, <1>16 DEF Seen
  <2>3. ~Grounded(on, N) => t.kept # {} \/ \A b \in S : lab[b] = Nothing
    BY <1>11, <1>17 DEF Seen
  <2> QED BY <1>12, <1>13, <1>14, <1>15, <2>1, <2>2, <2>3 DEF OneLeft, N
<1>20. OneLabel(list, on, lab, start) = t.label /\ t.label \in Labelling
  BY <1>2, <1>9 DEF t, Marks
<1> QED
  BY <1>19, <1>20

\* A list has finitely many parts.
LEMMA FiniteRange ==
  ASSUME NEW list \in Lists PROVE IsFiniteSet(Range(list)) /\ IsFiniteSet(WiresOf(list))
<1>1. list \in Seq(Wire \union Ground)
  BY DEF Lists
<1>2. IsFiniteSet(1..Len(list)) /\ DOMAIN list = 1..Len(list)
  BY <1>1, CountTo
<1> DEFINE I == 1..Len(list)
<1>3. list \in Surjection(I, Range(list))
  BY <1>1, <1>2 DEF Surjection, Range
<1> HIDE DEF I
<1>4. IsFiniteSet(Range(list))
  BY <1>2, <1>3, FS_Surjection DEF I
<1> QED
  BY <1>4, FS_Subset DEF WiresOf

\* Labels are where they can be seen.
OnlyDrawn(list, lab) == {c \in Conductor : lab[c] # Nothing} \subseteq Node \union WiresOf(list)

\* oneLabel keeps one label of the net or none, and does not touch other nets.
LeftTidy(list, on, lab, start, r) ==
  LET W == WiresOf(list)
      N == NetOf(W, start)
  IN  /\ \A c \in Conductor : r[c] = Nothing \/ r[c] = lab[c]
      /\ LoopFree(W, N) => Tidy(on, r, N)
      /\ ~Grounded(on, N) /\ LabelsOf(lab, N) # {} => LabelsOf(r, N) # {}
      /\ \A M \in SUBSET Node : M \intersect N = {} => LabelsOf(r, M) = LabelsOf(lab, M)

\* Without a loop it has looked at all wires of the net, too.
LEMMA OneLabelTidies ==
  ASSUME NEW list \in Lists, NEW on, NEW lab, NEW start \in Node, OnlyDrawn(list, lab),
         NEW S, NEW K, NEW r, OneLeft(list, on, lab, start, S, K, r)
  PROVE  LeftTidy(list, on, lab, start, r)
<1> DEFINE W == WiresOf(list)
           N == NetOf(W, start)
<1>1. N \subseteq Node /\ start \in N /\ W \subseteq Wire
  BY NetIsJoined DEF WiresOf
<1>2. /\ S \subseteq Conductor /\ K \subseteq S /\ (K = {} \/ \E c : K = {c})
      /\ \A c \in Conductor : r[c] = IF c \in S \ K THEN Nothing ELSE lab[c]
      /\ N \subseteq S /\ \A c \in S : Start(c) \in N
      /\ S \intersect Wire \subseteq W /\ IsFiniteSet(S \intersect Wire)
      /\ Cardinality(S \intersect Wire) = Cardinality(N) - 1
      /\ \A c \in K : lab[c] # Nothing
      /\ Grounded(on, N) => K = {}
      /\ ~Grounded(on, N) => K # {} \/ \A c \in S : lab[c] = Nothing
  BY DEF OneLeft
<1> HIDE DEF N, W
<1>3. \A c \in Conductor : r[c] = Nothing \/ r[c] = lab[c]
  BY <1>2
<1>4. ASSUME NEW M \in SUBSET Node, M \intersect N = {}
      PROVE  LabelsOf(r, M) = LabelsOf(lab, M)
  <2>1. \A c \in Conductor : Start(c) \in M => r[c] = lab[c]
    BY <1>2, <1>4
  <2> QED BY <2>1 DEF LabelsOf
<1>5. ASSUME ~Grounded(on, N), LabelsOf(lab, N) # {} PROVE LabelsOf(r, N) # {}
  <2>1. PICK b \in Conductor : lab[b] # Nothing /\ Start(b) \in N
    BY <1>5 DEF LabelsOf
  <2>2. CASE K # {}
    <3>1. PICK c \in K : c \in Conductor /\ r[c] = lab[c] /\ lab[c] # Nothing /\ Start(c) \in N
      BY <1>2, <2>2
    <3> QED BY <3>1 DEF LabelsOf
  <2>3. CASE K = {}
    <3>1. b \notin S
      BY <1>2, <1>5, <2>1, <2>3
    <3>2. r[b] = lab[b]
      BY <1>2, <2>1, <3>1
    <3> QED BY <2>1, <3>2 DEF LabelsOf
  <2> QED BY <2>2, <2>3
<1>6. ASSUME LoopFree(W, N) PROVE Tidy(on, r, N)
  <2> DEFINE X == {w \in W : Port1[w] \in N}
  <2>1. IsFiniteSet(X) /\ Cardinality(X) = Cardinality(N) - 1
    <3>1. IsFiniteSet(W)
      BY FiniteRange DEF W
    <3>2. X \subseteq W
      OBVIOUS
    <3> QED BY <1>6, <3>1, <3>2, FS_Subset DEF LoopFree
  <2>2. S \intersect Wire \subseteq X
    BY <1>2 DEF Start
  <2>3. S \intersect Wire = X
    <3> HIDE DEF X
    <3> DEFINE Y == S \intersect Wire
    <3>1. Y \in SUBSET X /\ Cardinality(X) = Cardinality(Y)
      BY <1>2, <2>1, <2>2
    <3> HIDE DEF Y
    <3>2. X = Y
      BY <2>1, <3>1, FS_Subset
    <3> QED BY <3>2 DEF Y
  <2>4. LabelsOf(r, N) \subseteq K
    <3> SUFFICES ASSUME NEW c \in Conductor, r[c] # Nothing, Start(c) \in N PROVE c \in K
      BY DEF LabelsOf
    <3>1. lab[c] # Nothing
      BY <1>2
    <3>2. c \in Node \union W
      BY <3>1 DEF OnlyDrawn, W
    <3>3. c \in S
      <4>1. CASE c \in W
        <5>1. c \in Wire /\ Port1[c] \in N
          BY <1>1, <4>1 DEF Start
        <5> QED BY <2>3, <4>1, <5>1
      <4>2. CASE c \in Node
        <5>1. c \notin Wire
          BY <4>2, PartsAssumption
        <5>2. c \in N
          BY <5>1 DEF Start
        <5> QED BY <1>2, <5>2
      <4> QED BY <3>2, <4>1, <4>2
    <3> QED BY <1>2, <3>3
  <2>5. LabelsOf(r, N) = {} \/ \E c : LabelsOf(r, N) = {c}
    <3> DEFINE L == LabelsOf(r, N)
    <3> HIDE DEF L
    <3>1. L \subseteq K
      BY <2>4 DEF L
    <3>2. L = {} \/ \E c : L = {c}
      BY <1>2, <3>1
    <3> QED BY <3>2 DEF L
  <2>6. Grounded(on, N) => LabelsOf(r, N) = {}
    BY <1>2, <2>4
  <2>7. Cardinality(LabelsOf(r, N)) <= 1 /\ (Grounded(on, N) => Cardinality(LabelsOf(r, N)) = 0)
    <3> DEFINE L == LabelsOf(r, N)
    <3> HIDE DEF L
    <3>1. (L = {} \/ \E c : L = {c}) /\ (Grounded(on, N) => L = {})
      BY <2>5, <2>6 DEF L
    <3>2. CASE L = {}
      <4>1. Cardinality(L) = 0
        BY <3>2, FS_EmptySet
      <4> QED BY <4>1 DEF L
    <3>3. CASE L # {}
      <4>1. PICK c : L = {c}
        BY <3>1, <3>3
      <4>2. Cardinality(L) = 1
        BY <4>1, FS_Singleton
      <4> QED BY <3>1, <3>3, <4>2 DEF L
    <3> QED BY <3>2, <3>3
  <2>8. Cardinality(LabelsOf(r, N)) <= (IF Grounded(on, N) THEN 0 ELSE 1)
    BY <2>7
  <2> QED BY <2>8 DEF Tidy
<1> QED
  BY <1>3, <1>4, <1>5, <1>6 DEF LeftTidy, W, N

\* What oneLabel does to the labels of a schematic.
LEMMA OneLabelDoes ==
  ASSUME NEW list \in Lists, NEW on, on \subseteq Range(list) \intersect Ground,
         NEW lab \in Labelling, NEW start \in Node, OnlyDrawn(list, lab)
  PROVE  /\ OneLabel(list, on, lab, start) \in Labelling
         /\ LeftTidy(list, on, lab, start, OneLabel(list, on, lab, start))
<1>1. PICK S, K : OneLeft(list, on, lab, start, S, K, OneLabel(list, on, lab, start))
  BY OneLabelLeaves
<1>2. OneLabel(list, on, lab, start) \in Labelling
  BY OneLabelLeaves
<1> QED
  BY <1>1, <1>2, OneLabelTidies

-----------------------------------------------------------------------------
\* The search for the label of a net.

\* What can be found: labels, and active grounds.
Targets(on, lab, N) == LabelsOf(lab, N) \union {g \in on \intersect Ground : Place[g] \in N}

Searches(on, lab, N) ==
  [cons : Seq(N), found : {{}} \union {{p} : p \in Targets(on, lab, N)}]

Found(s, part) == IF s.found = {} THEN [s EXCEPT !.found = {part}] ELSE s

SearchVisit(lab, s, n) == IF lab[n] # Nothing THEN Found(s, n) ELSE s

SearchLook(on, lab, s, n, part) ==
  IF part \in Ground
  THEN IF part \in on THEN Found(s, part) ELSE s
  ELSE IF lab[part] # Nothing THEN Found(s, part)
  ELSE LET far == FarEnd(part, n)
       IN  IF far \in Range(s.cons) THEN s ELSE [s EXCEPT !.cons = Append(@, far)]

\* Finding a target keeps the types, and something is found.
LEMMA FoundIs ==
  ASSUME NEW on, NEW lab, NEW N, NEW s \in Searches(on, lab, N), NEW part \in Targets(on, lab, N)
  PROVE  Found(s, part) \in Searches(on, lab, N) /\ Found(s, part).found # {}
<1> DEFINE found == {part}
<1>1. found \in {{p} : p \in Targets(on, lab, N)} /\ found # {}
  OBVIOUS
<1>2. Found(s, part) = IF s.found = {} THEN [s EXCEPT !.found = found] ELSE s
  BY DEF Found
<1> HIDE DEF found
<1> QED
  BY <1>1, <1>2 DEF Searches

\* A node is looked at.
LEMMA SearchVisitIs ==
  ASSUME NEW on, NEW lab, NEW N, N \subseteq Node, NEW s \in Searches(on, lab, N), NEW m \in N
  PROVE  /\ SearchVisit(lab, s, m) \in Searches(on, lab, N)
         /\ s.found # {} => SearchVisit(lab, s, m).found # {}
         /\ SearchVisit(lab, s, m).found = {} => SearchVisit(lab, s, m) = s /\ lab[m] = Nothing
<1>1. lab[m] # Nothing => m \in Targets(on, lab, N)
  BY PartsAssumption DEF Targets, LabelsOf, Conductor, Start
<1> QED
  BY <1>1, FoundIs DEF SearchVisit

\* As long as nothing is found, the walk goes on.
Searching(on, lab, s, m, part, r) ==
  /\ s.found # {} => r.found # {}
  /\ r.found = {} => /\ r.cons = Entered(s.cons, part, m, Node)
                     /\ part \in Wire => lab[part] = Nothing
                     /\ part \in Ground => part \notin on

\* One connection of getWireLabel keeps the types.
LEMMA SearchLookIs ==
  ASSUME NEW list \in Lists, NEW on, NEW lab, NEW N, N \subseteq Node, Joined(WiresOf(list), N),
         NEW m \in N, NEW s \in Searches(on, lab, N), NEW part \in Range(list), Touches(part, m)
  PROVE  /\ SearchLook(on, lab, s, m, part) \in Searches(on, lab, N)
         /\ Searching(on, lab, s, m, part, SearchLook(on, lab, s, m, part))
<1> DEFINE r == SearchLook(on, lab, s, m, part)
           far == FarEnd(part, m)
           cons == Append(s.cons, far)
<1>1. part \in Wire \union Ground
  BY DEF Lists, Range
<1>2. CASE part \in Ground
  <2>1. part \notin Wire
    BY <1>2, PartsAssumption
  <2>2. Entered(s.cons, part, m, Node) = s.cons
    BY <2>1 DEF Entered
  <2>3. r = IF part \in on THEN Found(s, part) ELSE s
    BY <1>2 DEF SearchLook
  <2>4. part \in on => part \in Targets(on, lab, N)
    BY <1>2, <2>1 DEF Targets, Touches
  <2>5. part \in on => Found(s, part) \in Searches(on, lab, N) /\ Found(s, part).found # {}
    BY <2>4, FoundIs
  <2> HIDE DEF r
  <2> QED BY <2>1, <2>2, <2>3, <2>5 DEF Searching, r
<1>3. CASE part \in Wire
  <2>1. part \notin Ground /\ part \in Conductor /\ part \in WiresOf(list)
    BY <1>3, PartsAssumption DEF Conductor, WiresOf
  <2>2. Port1[part] \in N /\ Port2[part] \in N /\ far \in N
    BY <1>3, <2>1, Ends DEF Joined, FarEnd
  <2>3. CASE lab[part] # Nothing
    <3>1. part \in Targets(on, lab, N)
      BY <1>3, <2>1, <2>2, <2>3 DEF Targets, LabelsOf, Start
    <3>2. r = Found(s, part)
      BY <2>1, <2>3 DEF SearchLook
    <3>3. r \in Searches(on, lab, N) /\ r.found # {}
      BY <3>1, <3>2, FoundIs
    <3> QED BY <3>3 DEF Searching
  <2>4. CASE lab[part] = Nothing
    <3>1. r = IF far \in Range(s.cons) THEN s ELSE [s EXCEPT !.cons = cons]
      BY <2>1, <2>4 DEF SearchLook
    <3>2. cons \in Seq(N)
      BY <2>2 DEF Searches
    <3>3. Entered(s.cons, part, m, Node) = IF far \in Range(s.cons) THEN s.cons ELSE cons
      BY <1>3, <2>2 DEF Entered
    <3> HIDE DEF cons, r
    <3>4. r \in Searches(on, lab, N) /\ r.found = s.found /\ r.cons = Entered(s.cons, part, m, Node)
      BY <3>1, <3>2, <3>3 DEF Searches
    <3> QED BY <2>1, <2>4, <3>4 DEF Searching, r
  <2> QED BY <2>3, <2>4
<1> QED
  BY <1>1, <1>2, <1>3

SearchAll(list, on, lab, s, m) ==
  Rounds(Len(Connections(list, m)), s,
         LAMBDA t, i : SearchLook(on, lab, t, m, Connections(list, m)[i]))

Searched(d, list, on, lab, N, s, m) ==
  /\ d \in [0..Len(Connections(list, m)) -> Searches(on, lab, N)] /\ d[0] = s
  /\ \A i \in 1..Len(Connections(list, m)) :
       d[i] = SearchLook(on, lab, d[i - 1], m, Connections(list, m)[i])

\* The connections of a node, one after the other.
LEMMA SearchAllRuns ==
  ASSUME NEW list \in Lists, NEW on, NEW lab, NEW N, N \subseteq Node, Joined(WiresOf(list), N),
         NEW m \in N, NEW s0 \in Searches(on, lab, N)
  PROVE  \E d : /\ Searched(d, list, on, lab, N, s0, m)
                /\ SearchAll(list, on, lab, s0, m) = d[Len(Connections(list, m))]
<1> DEFINE n == Len(Connections(list, m))
           V == Searches(on, lab, N)
           first == s0
           Round(r, i) == SearchLook(on, lab, r, m, Connections(list, m)[i])
           step == [p \in (1..n) \X V |-> Round(p[2], p[1])]
           Body(g) == [i \in 0..n |-> IF i = 0 THEN first ELSE Round(g[i - 1], i)]
           h == CHOOSE g : g = Body(g)
<1>1. n \in Nat /\ first \in V
  BY ConnectionsAre DEF Lists
<1>2. \A i \in 1..n, r \in V : Round(r, i) \in V
  <2> SUFFICES ASSUME NEW i \in 1..n, NEW r \in Searches(on, lab, N)
               PROVE  SearchLook(on, lab, r, m, Connections(list, m)[i]) \in Searches(on, lab, N)
    OBVIOUS
  <2>1. /\ Connections(list, m)[i] \in Range(list)
        /\ Touches(Connections(list, m)[i], m)
    BY ConnectionsAre
  <2> QED BY <2>1, SearchLookIs
<1>3. SearchAll(list, on, lab, s0, m) = h[n]
  BY DEF SearchAll, Rounds
<1> HIDE DEF n, V, first, Round
<1>4. step \in Steps(n, V)
  BY <1>2 DEF Steps
<1>5. PICK f : Run(f, n, V, first, step)
  <2> HIDE DEF step
  <2> QED BY <1>1, <1>4, RunOfRounds
<1>6. \A i \in 1..n : f[i] = Round(f[i - 1], i)
  BY <1>5 DEF Run
<1>7. f = Body(f)
  <2>1. \A i \in 0..n : i = 0 \/ i \in 1..n
    BY <1>1
  <2>2. \A i \in 0..n : f[i] = Body(f)[i]
    BY <1>5, <1>6, <2>1 DEF Run
  <2> QED BY <1>5, <2>2 DEF Run
<1>8. h = Body(h)
  <2> HIDE DEF Body
  <2> QED BY <1>7
<1>9. h[0] = first /\ \A i \in 1..n : h[i - 1] \in V => h[i] = step[<<i, h[i - 1]>>]
  <2> HIDE DEF h
  <2>1. 0 \in 0..n /\ \A i \in 1..n : i \in 0..n /\ i # 0
    BY <1>1
  <2> QED BY <1>8, <2>1
<1> HIDE DEF h, step
<1>10. h[n] = f[n]
  BY <1>1, <1>5, <1>9 DEF Run
<1> QED
  BY <1>3, <1>5, <1>6, <1>10 DEF Run, Searched, n, V, first, Round

Unsearched(start) == [[cons |-> <<>>, found |-> {}] EXCEPT !.cons = <<start>>]

\* The state in which getWireLabel begins.
LEMMA UnsearchedIs ==
  ASSUME NEW on, NEW lab, NEW N, NEW start \in N
  PROVE  Unsearched(start) \in Searches(on, lab, N)
<1>1. <<start>> \in Seq(N)
  OBVIOUS
<1> QED
  BY <1>1 DEF Unsearched, Searches

SearchWalk(list, on, lab, start) ==
  Walk(list, start, [cons |-> <<>>, found |-> {}],
       LAMBDA s, n : SearchVisit(lab, s, n),
       LAMBDA s, n, part : SearchLook(on, lab, s, n, part))

SearchedAll(c, list, on, lab, N, start) ==
  /\ c \in [0..Len(Nodes) -> Searches(on, lab, N)] /\ c[0] = Unsearched(start)
  /\ \A i \in 1..Len(Nodes) :
       c[i] = IF i > Len(c[i - 1].cons) THEN c[i - 1]
              ELSE SearchAll(list, on, lab, SearchVisit(lab, c[i - 1], c[i - 1].cons[i]), c[i - 1].cons[i])

\* The nodes of getWireLabel's walk, one after the other.
LEMMA GetWireLabelRuns ==
  ASSUME NEW list \in Lists, NEW on, NEW lab, NEW N, N \subseteq Node, Joined(WiresOf(list), N),
         NEW start \in N
  PROVE  \E c : /\ SearchedAll(c, list, on, lab, N, start)
                /\ GetWireLabel(list, on, lab, start) = c[Len(Nodes)].found
<1> DEFINE n == Len(Nodes)
           V == Searches(on, lab, N)
           first == Unsearched(start)
           Round(r, i) == IF i > Len(r.cons) THEN r
                          ELSE SearchAll(list, on, lab, SearchVisit(lab, r, r.cons[i]), r.cons[i])
           step == [p \in (1..n) \X V |-> Round(p[2], p[1])]
           Body(g) == [i \in 0..n |-> IF i = 0 THEN first ELSE Round(g[i - 1], i)]
           h == CHOOSE g : g = Body(g)
<1>1. n \in Nat /\ first \in V
  BY NodesFinite, UnsearchedIs
<1>2. \A i \in 1..n, r \in V : Round(r, i) \in V
  <2> SUFFICES ASSUME NEW i \in 1..n, NEW r \in Searches(on, lab, N), ~(i > Len(r.cons))
               PROVE  SearchAll(list, on, lab, SearchVisit(lab, r, r.cons[i]), r.cons[i])
                        \in Searches(on, lab, N)
    BY DEF Searches
  <2> DEFINE m == r.cons[i]
             q == SearchVisit(lab, r, m)
  <2>1. m \in N
    BY NodesFinite DEF Searches
  <2> HIDE DEF m
  <2>2. q \in Searches(on, lab, N)
    BY <2>1, SearchVisitIs
  <2> HIDE DEF q
  <2>3. PICK d : Searched(d, list, on, lab, N, q, m)
                 /\ SearchAll(list, on, lab, q, m) = d[Len(Connections(list, m))]
    BY <2>1, <2>2, SearchAllRuns
  <2>4. Len(Connections(list, m)) \in 0..Len(Connections(list, m))
    BY <2>1, ConnectionsAre DEF Lists
  <2> QED BY <2>3, <2>4 DEF Searched, m, q
<1>3. SearchWalk(list, on, lab, start) = h[n]
  BY DEF SearchWalk, Walk, Rounds, SearchAll, Unsearched
<1> HIDE DEF n, V, first, Round
<1>4. step \in Steps(n, V)
  BY <1>2 DEF Steps
<1>5. PICK f : Run(f, n, V, first, step)
  <2> HIDE DEF step
  <2> QED BY <1>1, <1>4, RunOfRounds
<1>6. \A i \in 1..n : f[i] = Round(f[i - 1], i)
  BY <1>5 DEF Run
<1>7. f = Body(f)
  <2>1. \A i \in 0..n : i = 0 \/ i \in 1..n
    BY <1>1
  <2>2. \A i \in 0..n : f[i] = Body(f)[i]
    BY <1>5, <1>6, <2>1 DEF Run
  <2> QED BY <1>5, <2>2 DEF Run
<1>8. h = Body(h)
  <2> HIDE DEF Body
  <2> QED BY <1>7
<1>9. h[0] = first /\ \A i \in 1..n : h[i - 1] \in V => h[i] = step[<<i, h[i - 1]>>]
  <2> HIDE DEF h
  <2>1. 0 \in 0..n /\ \A i \in 1..n : i \in 0..n /\ i # 0
    BY <1>1
  <2> QED BY <1>8, <2>1
<1> HIDE DEF h, step
<1>10. h[n] = f[n]
  BY <1>1, <1>5, <1>9 DEF Run
<1>11. GetWireLabel(list, on, lab, start) = SearchWalk(list, on, lab, start).found
  BY DEF GetWireLabel, SearchWalk, SearchVisit, SearchLook, Found
<1> QED
  BY <1>11, <1>3, <1>5, <1>6, <1>10 DEF Run, SearchedAll, n, V, first, Round

\* What is never undone has not been done before, if it is not done in the end.
LEMMA NoneBefore ==
  ASSUME NEW n \in Nat, NEW f, \A i \in 1..n : f[i - 1] # {} => f[i] # {}, f[n] = {}
  PROVE  \A i \in 0..n : f[i] = {}
<1> DEFINE G == {i \in 0..n : f[n - i] = {}}
<1>1. 0 \in G
  OBVIOUS
<1>2. ASSUME NEW i \in 0..(n - 1), i \in G PROVE i + 1 \in G
  <2>1. n - i \in 1..n /\ (n - i) - 1 = n - (i + 1) /\ i + 1 \in 0..n
    OBVIOUS
  <2>2. f[n - i] = {}
    BY <1>2
  <2>3. f[(n - i) - 1] = {}
    BY <2>1, <2>2
  <2> QED BY <2>1, <2>3
<1>3. 0..n \subseteq G
  <2> HIDE DEF G
  <2> QED BY <1>1, <1>2, InductionUpTo
<1>4. ASSUME NEW i \in 0..n PROVE f[i] = {}
  <2>1. n - i \in 0..n /\ n - (n - i) = i
    OBVIOUS
  <2>2. n - i \in G
    <3> HIDE DEF G
    <3> QED BY <1>3, <2>1
  <2> QED BY <2>1, <2>2
<1> QED
  BY <1>4

\* Nothing is found at a node or at its connections.
CleanAt(list, on, lab, m) ==
  /\ lab[m] = Nothing
  /\ \A part \in Range(list) : Touches(part, m) =>
       /\ part \in Wire => lab[part] = Nothing
       /\ part \in Ground => part \notin on

\* If a node and its connections have nothing, the list grows by its neighbours.
LEMMA SearchAllIs ==
  ASSUME NEW list \in Lists, NEW on, NEW lab, NEW N, N \subseteq Node, Joined(WiresOf(list), N),
         NEW m \in N, NEW s \in Searches(on, lab, N)
  PROVE  LET r == SearchAll(list, on, lab, SearchVisit(lab, s, m), m)
         IN  /\ r \in Searches(on, lab, N)
             /\ s.found # {} => r.found # {}
             /\ r.found = {} => CleanAt(list, on, lab, m)
             /\ r.found = {} /\ IsInjective(s.cons) => Grows(s.cons, r.cons, list, m, Node)
<1> DEFINE q == SearchVisit(lab, s, m)
           k == Len(Connections(list, m))
           r == SearchAll(list, on, lab, q, m)
<1>1. /\ q \in Searches(on, lab, N) /\ (s.found # {} => q.found # {})
      /\ (q.found = {} => q = s /\ lab[m] = Nothing)
  BY SearchVisitIs
<1> HIDE DEF q
<1>2. PICK d : Searched(d, list, on, lab, N, q, m) /\ r = d[k]
  BY <1>1, SearchAllRuns
<1>3. /\ d \in [0..k -> Searches(on, lab, N)] /\ d[0] = q
      /\ \A i \in 1..k : d[i] = SearchLook(on, lab, d[i - 1], m, Connections(list, m)[i])
  BY <1>2 DEF Searched
<1>4. k \in Nat /\ m \in Node
  BY ConnectionsAre DEF Lists
<1>5. \A i \in 1..k : /\ Connections(list, m)[i] \in Range(list)
                      /\ Touches(Connections(list, m)[i], m)
  BY <1>4, ConnectionsAre
<1>6. \A part \in Range(list) : Touches(part, m) => \E i \in 1..k : Connections(list, m)[i] = part
  <2> SUFFICES ASSUME NEW part \in Range(list), Touches(part, m)
               PROVE  \E i \in 1..k : Connections(list, m)[i] = part
    OBVIOUS
  <2>1. part \in Range(Connections(list, m)) /\ Connections(list, m) \in Lists
    BY <1>4, ConnectionsAre
  <2> QED BY <2>1 DEF Range, Lists
<1> HIDE DEF k, r
<1>7. ASSUME NEW i \in 1..k
      PROVE  Searching(on, lab, d[i - 1], m, Connections(list, m)[i], d[i])
  <2>1. d[i - 1] \in Searches(on, lab, N)
    BY <1>3, <1>4
  <2>2. d[i] = SearchLook(on, lab, d[i - 1], m, Connections(list, m)[i])
    BY <1>3
  <2> DEFINE part == Connections(list, m)[i]
  <2>3. part \in Range(list) /\ Touches(part, m)
    BY <1>5
  <2> HIDE DEF part
  <2> DEFINE t == d[i - 1]
  <2> HIDE DEF t
  <2>4. t \in Searches(on, lab, N) /\ d[i] = SearchLook(on, lab, t, m, part)
    BY <2>1, <2>2 DEF t, part
  <2>5. Searching(on, lab, t, m, part, SearchLook(on, lab, t, m, part))
    BY <2>3, <2>4, SearchLookIs
  <2> QED BY <2>4, <2>5 DEF t, part
<1> DEFINE f == [i \in 0..k |-> d[i].found]
<1>8. \A i \in 1..k : f[i - 1] # {} => f[i] # {}
  <2> SUFFICES ASSUME NEW i \in 1..k PROVE f[i - 1] # {} => f[i] # {}
    OBVIOUS
  <2>1. f[i - 1] = d[i - 1].found /\ f[i] = d[i].found
    BY <1>4
  <2> QED BY <1>7, <2>1 DEF Searching
<1>9. f[k] = r.found /\ f[0] = q.found /\ r \in Searches(on, lab, N)
  BY <1>2, <1>3, <1>4
<1>10. r.found = {} => \A i \in 0..k : f[i] = {}
  <2> HIDE DEF f
  <2> QED BY <1>4, <1>8, <1>9, NoneBefore
<1>11. ASSUME r.found = {} PROVE CleanAt(list, on, lab, m) /\ q = s
  <2>1. f[0] = {}
    <3> HIDE DEF f
    <3> QED BY <1>4, <1>10, <1>11
  <2>2. q = s /\ lab[m] = Nothing
    BY <1>1, <1>9, <2>1
  <2>3. ASSUME NEW part \in Range(list), Touches(part, m)
        PROVE  (part \in Wire => lab[part] = Nothing) /\ (part \in Ground => part \notin on)
    <3>1. PICK i \in 1..k : Connections(list, m)[i] = part
      BY <1>6, <2>3
    <3>2. i \in 0..k
      BY <1>4
    <3>3. d[i].found = {}
      BY <1>10, <1>11, <3>2
    <3> QED BY <1>7, <3>1, <3>3 DEF Searching
  <2> QED BY <2>2, <2>3 DEF CleanAt
<1>12. ASSUME r.found = {}, IsInjective(s.cons) PROVE Grows(s.cons, r.cons, list, m, Node)
  <2> DEFINE e == [i \in 0..k |-> d[i].cons]
             U == Node
  <2>1. e \in [0..k -> Seq(Node)]
    BY <1>3 DEF Searches
  <2>2. e[0] = s.cons /\ e[k] = r.cons
    BY <1>2, <1>3, <1>4, <1>11, <1>12
  <2>3. \A i \in 1..k : e[i] = Entered(e[i - 1], Connections(list, m)[i], m, U)
    <3> SUFFICES ASSUME NEW i \in 1..k
                 PROVE  e[i] = Entered(e[i - 1], Connections(list, m)[i], m, U)
      OBVIOUS
    <3>1. e[i - 1] = d[i - 1].cons /\ e[i] = d[i].cons /\ i \in 0..k
      BY <1>4
    <3>2. d[i].found = {}
      BY <1>10, <1>12, <3>1
    <3> QED BY <1>7, <3>1, <3>2 DEF Searching
  <2> HIDE DEF e, U
  <2>4. Grows(e[0], e[k], list, m, U)
    BY <1>4, <1>12, <2>1, <2>2, <2>3, EnteredGrows DEF k
  <2> QED BY <2>2, <2>4 DEF U
<1>13. s.found # {} => r.found # {}
  BY <1>1, <1>4, <1>9, <1>10
<1> QED
  BY <1>9, <1>11, <1>12, <1>13 DEF q, r

\* A label or an active ground of the net is found, unless there is none.
LEMMA GetWireLabelFinds ==
  ASSUME NEW list \in Lists, NEW on, on \subseteq Range(list) \intersect Ground,
         NEW lab, OnlyDrawn(list, lab), NEW start \in Node
  PROVE  LET N == NetOf(WiresOf(list), start)
             r == GetWireLabel(list, on, lab, start)
         IN  \/ \E p \in Targets(on, lab, N) : r = {p}
             \/ r = {} /\ LabelsOf(lab, N) = {} /\ ~Grounded(on, N)
<1> DEFINE N == NetOf(WiresOf(list), start)
           r == GetWireLabel(list, on, lab, start)
           k == Len(Nodes)
<1>1. start \in N /\ N \subseteq Node /\ Joined(WiresOf(list), N)
  BY NetIsJoined DEF WiresOf
<1> HIDE DEF N
<1>2. PICK c : SearchedAll(c, list, on, lab, N, start) /\ r = c[k].found
  BY <1>1, GetWireLabelRuns
<1>3. /\ c \in [0..k -> Searches(on, lab, N)] /\ c[0] = Unsearched(start)
      /\ \A i \in 1..k :
           c[i] = IF i > Len(c[i - 1].cons) THEN c[i - 1]
                  ELSE SearchAll(list, on, lab, SearchVisit(lab, c[i - 1], c[i - 1].cons[i]),
                                 c[i - 1].cons[i])
  BY <1>2 DEF SearchedAll
<1>4. k \in Nat
  BY NodesFinite
<1> HIDE DEF k
<1>18. c[k] \in Searches(on, lab, N) /\ r = c[k].found
  BY <1>2, <1>3, <1>4 DEF k
<1> HIDE DEF r
<1>5. r \in {{}} \union {{p} : p \in Targets(on, lab, N)}
  BY <1>18 DEF Searches
<1>6. SUFFICES ASSUME r = {} PROVE LabelsOf(lab, N) = {} /\ ~Grounded(on, N)
  BY <1>5 DEF N, r
<1> DEFINE Round(i) ==
             /\ c[i - 1].found # {} => c[i].found # {}
             /\ c[i].found = {} /\ i > Len(c[i - 1].cons) => c[i] = c[i - 1]
             /\ c[i].found = {} /\ ~(i > Len(c[i - 1].cons)) =>
                  /\ CleanAt(list, on, lab, c[i - 1].cons[i])
                  /\ IsInjective(c[i - 1].cons) =>
                       Grows(c[i - 1].cons, c[i].cons, list, c[i - 1].cons[i], Node)
<1>7. ASSUME NEW i \in 1..k PROVE Round(i)
  <2>1. c[i - 1] \in Searches(on, lab, N) /\ i \in Nat /\ i >= 1
    BY <1>3, <1>4
  <2>2. CASE i > Len(c[i - 1].cons)
    BY <1>3, <2>2
  <2>3. CASE ~(i > Len(c[i - 1].cons))
    <3> DEFINE t == c[i - 1]
               m == t.cons[i]
    <3>1. t \in Searches(on, lab, N) /\ m \in N
      BY <2>1, <2>3 DEF Searches
    <3>2. c[i] = SearchAll(list, on, lab, SearchVisit(lab, t, m), m)
      BY <1>3, <2>3
    <3> HIDE DEF t, m
    <3>3. /\ t.found # {} => c[i].found # {}
          /\ c[i].found = {} => CleanAt(list, on, lab, m)
          /\ c[i].found = {} /\ IsInjective(t.cons) => Grows(t.cons, c[i].cons, list, m, Node)
      BY <1>1, <3>1, <3>2, SearchAllIs
    <3> QED BY <2>3, <3>3 DEF t, m
  <2> QED BY <2>2, <2>3
<1> HIDE DEF Round
<1> DEFINE f == [i \in 0..k |-> c[i].found]
<1>8. \A i \in 0..k : f[i] = {}
  <2>1. \A i \in 1..k : f[i - 1] # {} => f[i] # {}
    <3> SUFFICES ASSUME NEW i \in 1..k PROVE f[i - 1] # {} => f[i] # {}
      OBVIOUS
    <3>1. f[i - 1] = c[i - 1].found /\ f[i] = c[i].found
      BY <1>4
    <3> QED BY <1>7, <3>1 DEF Round
  <2>2. f[k] = {}
    BY <1>4, <1>6, <1>18
  <2> HIDE DEF f
  <2> QED BY <1>4, <2>1, <2>2, NoneBefore
<1>9. \A i \in 0..k : c[i].found = {}
  BY <1>8
<1> DEFINE Good(i) == /\ IsInjective(c[i].cons)
                      /\ \A j \in 1..Len(c[i].cons) : j <= i => CleanAt(list, on, lab, c[i].cons[j])
           G == {i \in 0..k : Good(i)}
<1>10. 0 \in G
  <2> DEFINE a == <<start>>
  <2>1. Len(a) = 1 /\ DOMAIN a = 1..1
    OBVIOUS
  <2> HIDE DEF a
  <2>2. IsInjective(a)
    BY <2>1 DEF IsInjective
  <2>3. c[0].cons = a
    BY <1>3 DEF Unsearched, a
  <2> QED BY <1>4, <2>1, <2>2, <2>3
<1>11. ASSUME NEW i \in 0..(k - 1), i \in G PROVE i + 1 \in G
  <2> DEFINE s == c[i].cons
             t == c[i + 1].cons
  <2>1. i + 1 \in 1..k /\ (i + 1) - 1 = i /\ i \in 0..k /\ i + 1 \in 0..k
    BY <1>4
  <2>2. /\ IsInjective(s)
        /\ \A j \in 1..Len(s) : j <= i => CleanAt(list, on, lab, s[j])
    BY <1>11
  <2>3. s \in Seq(N) /\ t \in Seq(N)
    BY <1>3, <2>1 DEF Searches
  <2>4. /\ i + 1 > Len(s) => t = s
        /\ ~(i + 1 > Len(s)) => CleanAt(list, on, lab, s[i + 1]) /\ Grows(s, t, list, s[i + 1], Node)
    <3>1. Round(i + 1) /\ c[i + 1].found = {}
      BY <1>7, <1>9, <2>1
    <3> QED BY <2>1, <2>2, <3>1 DEF Round
  <2> HIDE DEF s, t
  <2>5. IsInjective(t) /\ \A j \in 1..Len(t) : j <= i + 1 => CleanAt(list, on, lab, t[j])
    <3>1. CASE i + 1 > Len(s)
      BY <2>1, <2>2, <2>3, <2>4, <3>1
    <3>2. CASE ~(i + 1 > Len(s))
      <4>1. Len(s) <= Len(t) /\ (\A l \in 1..Len(s) : t[l] = s[l]) /\ IsInjective(t)
        BY <2>2, <2>4, <3>2 DEF Grows
      <4>2. ASSUME NEW j \in 1..Len(t), j <= i + 1 PROVE CleanAt(list, on, lab, t[j])
        <5>1. j \in 1..Len(s) /\ t[j] = s[j]
          BY <2>1, <2>3, <3>2, <4>1, <4>2
        <5>2. j <= i \/ j = i + 1
          BY <2>1, <4>2, <5>1
        <5> QED BY <2>2, <2>4, <3>2, <5>1, <5>2
      <4> QED BY <4>1, <4>2
    <3> QED BY <3>1, <3>2
  <2> QED BY <2>1, <2>5 DEF t
<1>12. 0..k \subseteq G
  <2> HIDE DEF G
  <2> QED BY <1>4, <1>10, <1>11, InductionUpTo
<1>13. \A i \in 0..k : Good(i)
  <2> HIDE DEF Good
  <2> QED BY <1>12
<1> DEFINE e == [i \in 0..k |-> c[i].cons]
           met == e[k]
           U == Node
<1>14. Range(met) = N /\ Len(met) <= k /\ met \in Seq(Node)
  <2>1. e \in [0..k -> Seq(Node)] /\ e[0] = <<start>>
    BY <1>1, <1>3, <1>4 DEF Searches, Unsearched
  <2>2. \A i \in 1..k : IF i > Len(e[i - 1]) THEN e[i] = e[i - 1]
                        ELSE Grows(e[i - 1], e[i], list, e[i - 1][i], U)
    <3> SUFFICES ASSUME NEW i \in 1..k
                 PROVE  IF i > Len(e[i - 1]) THEN e[i] = e[i - 1]
                        ELSE Grows(e[i - 1], e[i], list, e[i - 1][i], U)
      OBVIOUS
    <3>1. e[i - 1] = c[i - 1].cons /\ e[i] = c[i].cons /\ i - 1 \in 0..k /\ i \in 0..k
      BY <1>4
    <3>2. IsInjective(c[i - 1].cons) /\ c[i].found = {}
      BY <1>9, <1>13, <3>1
    <3> QED BY <1>7, <3>1, <3>2 DEF Round
  <2>3. met \in Seq(Node)
    BY <1>4, <2>1
  <2>4. Node \subseteq U
    OBVIOUS
  <2> HIDE DEF e, U
  <2>5. MetFrom(list, U, start, met)
    <3>1. WalkSteps(list, U, start, e)
      BY <2>1, <2>2 DEF WalkSteps, k
    <3> QED BY <3>1, WalkMeets DEF k
  <2>6. /\ IsInjective(met) /\ met[1] = start /\ Len(met) >= 1
        /\ \A S \in SUBSET Node : start \in S /\ Joined(WiresOf(list), S) => Range(met) \subseteq S
        /\ \A m \in Range(met) : Neighbours(list, m) \intersect U \subseteq Range(met)
    BY <2>5 DEF MetFrom
  <2> HIDE DEF met
  <2> QED BY <2>3, <2>4, <2>6, MeetsTheNet DEF k, N
<1>15. ASSUME NEW m \in N PROVE CleanAt(list, on, lab, m)
  <2>1. PICK j \in 1..Len(met) : met[j] = m
    <3> HIDE DEF met
    <3> QED BY <1>14 DEF Range
  <2>2. met = c[k].cons /\ k \in 0..k
    BY <1>4
  <2>3. Len(met) \in Nat /\ j <= k
    <3> HIDE DEF met
    <3> QED BY <1>4, <1>14
  <2> HIDE DEF met
  <2> QED BY <1>13, <2>1, <2>2, <2>3
<1> HIDE DEF e, met, G, Good, f
<1>16. LabelsOf(lab, N) = {}
  <2> SUFFICES ASSUME NEW b \in Conductor, lab[b] # Nothing, Start(b) \in N PROVE FALSE
    BY DEF LabelsOf
  <2>1. b \in Node \union WiresOf(list)
    BY DEF OnlyDrawn
  <2>2. CASE b \in WiresOf(list)
    <3>1. b \in Wire /\ b \in Range(list) /\ Port1[b] \in N /\ Touches(b, Port1[b])
      BY <2>2, Ends DEF WiresOf, Start
    <3> QED BY <1>15, <3>1 DEF CleanAt
  <2>3. CASE b \in Node
    <3>1. b \notin Wire
      BY <2>3, PartsAssumption
    <3>2. Start(b) = b
      BY <3>1 DEF Start
    <3> QED BY <1>15, <3>2 DEF CleanAt
  <2> QED BY <2>1, <2>2, <2>3
<1>17. ~Grounded(on, N)
  <2> SUFFICES ASSUME NEW g \in on, Place[g] \in N PROVE FALSE
    BY DEF Grounded
  <2>1. g \in Range(list) /\ g \in Ground /\ g \notin Wire
    BY PartsAssumption
  <2>2. Touches(g, Place[g])
    BY <2>1 DEF Touches
  <2> QED BY <1>15, <2>1, <2>2 DEF CleanAt
<1> QED
  BY <1>16, <1>17

-----------------------------------------------------------------------------
\* The same schematic has the same netlist.

\* Nets, labels and the names to be given depend on the schematic only.
LEMMA SameSchematic ==
  ASSUME UNCHANGED schematic
  PROVE  /\ Wires' = Wires /\ Labelled' = Labelled /\ (SchematicOK => SchematicOK')
         /\ \A t : Result(t) => Result(t)'
<1>1. drawn' = drawn /\ active' = active /\ label' = label
  BY DEF schematic
<1>2. Wires' = Wires /\ Labelled' = Labelled
  BY <1>1 DEF Wires, Labelled
<1>3. SchematicOK => SchematicOK'
  BY <1>1, <1>2 DEF SchematicOK
<1>4. \A n : NamingWires(n)' = NamingWires(n)
  BY <1>1 DEF NamingWires
<1>5. GivenNames' = GivenNames
  BY <1>1, <1>4 DEF GivenNames
<1>6. \A m : HasName(m)' <=> HasName(m)
  BY <1>5 DEF HasName
<1>7. \A c : HasVoltage(c)' <=> HasVoltage(c)
  BY <1>1 DEF HasVoltage
<1>8. \A c : Needed(c)' <=> Needed(c)
  BY <1>2, <1>6, <1>7 DEF Needed
<1>9. \A t, D : Recorded(t, D) => Recorded(t, D)'
  BY <1>7 DEF Recorded
<1>10. \A t : NamesGiven(t.name) => NamesGiven(t.name)'
  BY <1>2, <1>5, <1>6 DEF NamesGiven
<1>11. \A t : Result(t) => Result(t)'
  BY <1>8, <1>9, <1>10 DEF Result
<1> QED
  BY <1>2, <1>3, <1>11

-----------------------------------------------------------------------------
\* The lists of connections.

\* Nor does a new part at the end.
LEMMA AppendedOnce ==
  ASSUME NEW list \in Lists, NEW part \in Wire \union Ground
  PROVE  /\ Append(list, part) \in Lists /\ Range(Append(list, part)) = Range(list) \union {part}
         /\ IsInjective(list) /\ part \notin Range(list) => IsInjective(Append(list, part))
<1> DEFINE a == Append(list, part)
           c == list
<1>1. /\ a \in Lists /\ Len(a) = Len(c) + 1 /\ Len(c) \in Nat
      /\ \A i \in 1..Len(c) : a[i] = c[i]
      /\ a[Len(c) + 1] = part /\ DOMAIN a = 1..(Len(c) + 1) /\ DOMAIN c = 1..Len(c)
  BY DEF Lists
<1> HIDE DEF a, c
<1>2. Range(a) = Range(c) \union {part}
  BY <1>1 DEF Range
<1>3. ASSUME IsInjective(c), part \notin Range(c) PROVE IsInjective(a)
  <2>1. \A i \in 1..Len(c) : c[i] # part
    BY <1>1, <1>3 DEF Range
  <2> QED BY <1>1, <1>3, <2>1 DEF IsInjective
<1> QED
  BY <1>1, <1>2, <1>3 DEF a, c

-----------------------------------------------------------------------------
\* What the editor preserves.

SchematicInv == SchematicOK /\ IsInjective(drawn) /\ Cardinality(Labelled) <= MaxLabels

\* A step leaves no net with labels too many, as OneLabelIsLeft says.
OneLabelStep ==
  \A N \in Nets(Wires') :
    LET before == {M \in Nets(Wires) : M \intersect N # {}}
    IN  /\ ~Tidy(active', label', N) /\ LoopFree(Wires', N) =>
             \E M \in before : ~Tidy(active, label, M)
        /\ /\ ~Grounded(active', N)
           /\ LabelsOf(label, N) # {} /\ LabelsOf(label', N) = {}
           => Cardinality(before) = 1

\* There are finitely many labels, and so there are in each net.
LEMMA FiniteLabels ==
  ASSUME NEW list \in Lists, NEW lab, OnlyDrawn(list, lab)
  PROVE  /\ IsFiniteSet({c \in Conductor : lab[c] # Nothing})
         /\ \A N : IsFiniteSet(LabelsOf(lab, N))
<1> DEFINE L == {c \in Conductor : lab[c] # Nothing}
<1>1. IsFiniteSet(Node \union WiresOf(list))
  BY FiniteRange, NodesFinite, FS_Union
<1>2. L \subseteq Node \union WiresOf(list)
  BY DEF OnlyDrawn
<1>3. \A N : LabelsOf(lab, N) \subseteq L
  BY DEF LabelsOf
<1> HIDE DEF L
<1>4. IsFiniteSet(L)
  BY <1>1, <1>2, FS_Subset
<1>5. \A N : IsFiniteSet(LabelsOf(lab, N))
  BY <1>3, <1>4, FS_Subset
<1> QED
  BY <1>4, <1>5 DEF L

\* Tidy without counting.
LEMMA TidyIs ==
  ASSUME NEW on, NEW lab, NEW N, IsFiniteSet(LabelsOf(lab, N))
  PROVE  Tidy(on, lab, N) <=> \/ LabelsOf(lab, N) = {}
                              \/ ~Grounded(on, N) /\ \E c : LabelsOf(lab, N) = {c}
<1> DEFINE L == LabelsOf(lab, N)
<1>1. Tidy(on, lab, N) <=> Cardinality(L) <= (IF Grounded(on, N) THEN 0 ELSE 1)
  BY DEF Tidy
<1> HIDE DEF L
<1>2. IsFiniteSet(L)
  BY DEF L
<1>3. /\ Cardinality(L) \in Nat
      /\ Cardinality(L) = 0 <=> L = {}
  BY <1>2, FS_CardinalityType, FS_EmptySet
<1>4. Cardinality(L) = 1 <=> \E c : L = {c}
  BY <1>2, FS_Singleton
<1>5. Tidy(on, lab, N) <=> Cardinality(L) = 0 \/ (~Grounded(on, N) /\ Cardinality(L) = 1)
  BY <1>1, <1>3
<1> QED
  BY <1>3, <1>4, <1>5 DEF L

\* A tidy net that loses labels or its ground is tidy.
LEMMA TidyShrinks ==
  ASSUME NEW on, NEW lab, NEW on2, NEW lab2, NEW N, NEW M, IsFiniteSet(LabelsOf(lab, M)),
         LabelsOf(lab2, N) \subseteq LabelsOf(lab, M), Grounded(on2, N) => Grounded(on, M),
         Tidy(on, lab, M)
  PROVE  Tidy(on2, lab2, N)
<1> DEFINE L == LabelsOf(lab, M)
           K == LabelsOf(lab2, N)
<1>1. L = {} \/ (~Grounded(on, M) /\ \E c : L = {c})
  BY TidyIs
<1>2. IsFiniteSet(K) /\ K \subseteq L
  BY FS_Subset
<1>3. Tidy(on2, lab2, N) <=> K = {} \/ (~Grounded(on2, N) /\ \E c : K = {c})
  BY <1>2, TidyIs
<1> HIDE DEF K, L
<1> QED
  BY <1>1, <1>2, <1>3

\* Where the wires are the same, each net is compared with itself.
LEMMA SameNets ==
  ASSUME Wires' = Wires,
         \A N \in Nets(Wires) :
           Tidy(active, label, N) /\ LoopFree(Wires, N) => Tidy(active', label', N)
  PROVE  OneLabelStep
<1> SUFFICES ASSUME NEW N \in Nets(Wires)
             PROVE  LET before == {M \in Nets(Wires) : M \intersect N # {}}
                    IN  /\ ~Tidy(active', label', N) /\ LoopFree(Wires, N) =>
                             \E M \in before : ~Tidy(active, label, M)
                        /\ Cardinality(before) = 1
  BY DEF OneLabelStep
<1> DEFINE before == {M \in Nets(Wires) : M \intersect N # {}}
<1>1. before = {N}
  <2>1. Wires \subseteq Wire
    BY DEF Wires
  <2> QED BY <2>1, OneNetEach
<1>2. Cardinality(before) = 1
  BY <1>1, FS_Singleton
<1> HIDE DEF before
<1>3. ~Tidy(active', label', N) /\ LoopFree(Wires, N) => \E M \in before : ~Tidy(active, label, M)
  BY <1>1
<1> QED
  BY <1>2, <1>3 DEF before

\* The state of the schematic as the lemmas on the walks have it.
LEMMA StateIs ==
  ASSUME SchematicInv
  PROVE  /\ drawn \in Lists /\ IsInjective(drawn) /\ Wires = WiresOf(drawn) /\ Wires \subseteq Wire
         /\ active \subseteq Range(drawn) \intersect Ground /\ label \in Labelling
         /\ OnlyDrawn(drawn, label) /\ Labelled = {c \in Conductor : label[c] # Nothing}
         /\ IsFiniteSet(Labelled) /\ Cardinality(Labelled) <= MaxLabels /\ MaxLabels \in Nat
         /\ \A N : IsFiniteSet(LabelsOf(label, N))
<1>1. /\ drawn \in Lists /\ IsInjective(drawn) /\ Wires = WiresOf(drawn) /\ Wires \subseteq Wire
      /\ active \subseteq Range(drawn) \intersect Ground /\ label \in Labelling
      /\ OnlyDrawn(drawn, label) /\ Labelled = {c \in Conductor : label[c] # Nothing}
      /\ Cardinality(Labelled) <= MaxLabels /\ MaxLabels \in Nat
  BY MaxLabelsAssumption DEF SchematicInv, SchematicOK, Wires, WiresOf, Labelling, OnlyDrawn, Labelled
<1>2. IsFiniteSet(Labelled) /\ \A N : IsFiniteSet(LabelsOf(label, N))
  BY <1>1, FiniteLabels
<1> QED
  BY <1>1, <1>2

\* A list that has what is active and labelled, and no label that was not there.
LEMMA FewerLabels ==
  ASSUME SchematicInv, drawn' \in Lists, IsInjective(drawn'),
         active' \subseteq Range(drawn') \intersect Ground, label' \in Labelling,
         \A c \in Conductor : label'[c] # Nothing => label[c] # Nothing /\ c \in Node \union Wires'
  PROVE  SchematicInv'
<1>1. IsFiniteSet(Labelled) /\ Cardinality(Labelled) <= MaxLabels /\ MaxLabels \in Nat
  BY StateIs
<1>2. Labelled' \subseteq Labelled /\ Labelled' \subseteq Node \union Wires'
  BY DEF Labelled
<1>3. Cardinality(Labelled') <= MaxLabels
  <2> DEFINE L == Labelled'
  <2>1. L \subseteq Labelled
    BY <1>2
  <2> HIDE DEF L
  <2>2. IsFiniteSet(L) /\ Cardinality(L) <= Cardinality(Labelled)
    BY <1>1, <2>1, FS_Subset
  <2>3. Cardinality(L) \in Nat /\ Cardinality(Labelled) \in Nat
    BY <1>1, <2>2, FS_CardinalityType
  <2>4. Cardinality(L) <= MaxLabels
    BY <1>1, <2>2, <2>3
  <2> QED BY <2>4 DEF L
<1> QED
  BY <1>2, <1>3 DEF SchematicInv, SchematicOK, Labelling

\* A new wire joins nets: oneLabel tidies the one it is in, the others stay.
LEMMA InsertWireKeeps ==
  ASSUME SchematicInv, NEW w \in Wire, InsertWire(w)
  PROVE  SchematicInv' /\ OneLabelStep
<1> DEFINE list == Append(drawn, w)
           start == Port1[w]
           r == OneLabel(list, active, label, start)
           V == Wires
           W == Wires'
           N0 == NetOf(WiresOf(list), start)
<1>1. /\ drawn' = list /\ active' = active /\ label' = r /\ w \notin Wires
  BY DEF InsertWire
<1>2. /\ drawn \in Lists /\ IsInjective(drawn) /\ Wires = WiresOf(drawn) /\ Wires \subseteq Wire
      /\ active \subseteq Range(drawn) \intersect Ground /\ label \in Labelling
      /\ OnlyDrawn(drawn, label) /\ \A N : IsFiniteSet(LabelsOf(label, N))
  BY StateIs
<1>3. w \notin Range(drawn) /\ start \in Node /\ Port2[w] \in Node
  BY <1>1, Ends DEF Wires
<1>4. list \in Lists /\ Range(list) = Range(drawn) \union {w} /\ IsInjective(list)
  BY <1>2, <1>3, AppendedOnce
<1>5. Wires' = WiresOf(list) /\ WiresOf(list) = Wires \union {w} /\ WiresOf(list) \subseteq Wire
  BY <1>1, <1>4 DEF Wires, WiresOf
<1>6. active \subseteq Range(list) \intersect Ground /\ OnlyDrawn(list, label)
  BY <1>2, <1>4, <1>5 DEF OnlyDrawn
<1> HIDE DEF list, r
<1>7. r \in Labelling /\ LeftTidy(list, active, label, start, r)
  BY <1>2, <1>3, <1>4, <1>6, OneLabelDoes DEF r
<1>8. /\ \A c \in Conductor : r[c] = Nothing \/ r[c] = label[c]
      /\ LoopFree(WiresOf(list), N0) => Tidy(active, r, N0)
      /\ ~Grounded(active, N0) /\ LabelsOf(label, N0) # {} => LabelsOf(r, N0) # {}
      /\ \A M \in SUBSET Node : M \intersect N0 = {} => LabelsOf(r, M) = LabelsOf(label, M)
  BY <1>7 DEF LeftTidy
<1>9. SchematicInv'
  <2>1. \A c \in Conductor : label'[c] # Nothing => label[c] # Nothing /\ c \in Node \union Wires'
    BY <1>1, <1>2, <1>5, <1>8 DEF OnlyDrawn
  <2> QED BY <1>1, <1>4, <1>6, <1>7, <2>1, FewerLabels
<1>10. OneLabelStep
  <2> SUFFICES ASSUME NEW N \in Nets(Wires')
               PROVE  LET before == {M \in Nets(Wires) : M \intersect N # {}}
                      IN  /\ ~Tidy(active', label', N) /\ LoopFree(Wires', N) =>
                               \E M \in before : ~Tidy(active, label, M)
                          /\ /\ ~Grounded(active', N)
                             /\ LabelsOf(label, N) # {} /\ LabelsOf(label', N) = {}
                             => Cardinality(before) = 1
    BY DEF OneLabelStep
  <2>1. N0 \in Nets(Wires') /\ start \in N0 /\ N0 \subseteq Node
    BY <1>3, <1>5, OneNetEach
  <2>2. N \subseteq Node /\ N # {} /\ Joined(Wires', N) /\ Joined(Wires', N0) /\ w \in Wires'
    BY <1>5, <2>1, OneNetEach
  <2>3. CASE N = N0
    BY <1>1, <1>5, <1>8, <2>3
  <2>4. CASE N # N0
    <3>1. N \intersect N0 = {}
      BY <1>5, <2>1, <2>4, OneNetEach
    <3>2. Port1[w] \notin N /\ Port2[w] \notin N
      BY <2>1, <2>2, <3>1 DEF Joined
    <3>3. N \in Nets(Wires)
      <4>1. N # {} /\ N \in SUBSET Node /\ Joined(Wires, N)
        BY <1>5, <2>2 DEF Joined
      <4>2. ASSUME NEW S \in SUBSET Node, S # {}, Joined(Wires, S), S \subseteq N PROVE S = N
        <5>1. Joined(Wires', S)
          BY <1>5, <3>2, <4>2 DEF Joined
        <5> QED BY <4>2, <5>1 DEF Nets
      <4> QED BY <4>1, <4>2 DEF Nets
    <3> DEFINE before == {M \in Nets(Wires) : M \intersect N # {}}
    <3>4. before = {N}
      BY <1>2, <2>2, <3>3, OneNetEach
    <3>5. Cardinality(before) = 1
      BY <3>4, FS_Singleton
    <3>6. Tidy(active, label, N) => Tidy(active', label', N)
      BY <1>1, <1>8, <2>2, <3>1 DEF Tidy
    <3> HIDE DEF before
    <3>7. ~Tidy(active', label', N) => \E M \in before : ~Tidy(active, label, M)
      BY <3>4, <3>6
    <3> QED BY <3>5, <3>7 DEF before
  <2> QED BY <2>3, <2>4
<1> QED
  BY <1>9, <1>10

\* Without a wire a net is part of one that was there.
LEMMA DeleteWireKeeps ==
  ASSUME SchematicInv, NEW w \in Wire, DeleteWire(w)
  PROVE  SchematicInv' /\ OneLabelStep
<1> DEFINE list == Only(drawn, Range(drawn) \ {w})
<1>1. /\ drawn' = list /\ active' = active /\ label' = Unlabel(label, {w}) /\ w \in Wires
  BY DEF DeleteWire
<1>2. /\ drawn \in Lists /\ IsInjective(drawn) /\ Wires = WiresOf(drawn) /\ Wires \subseteq Wire
      /\ active \subseteq Range(drawn) \intersect Ground /\ label \in Labelling
      /\ OnlyDrawn(drawn, label) /\ \A N : IsFiniteSet(LabelsOf(label, N))
  BY StateIs
<1>3. list \in Lists /\ Range(list) = Range(drawn) \ {w} /\ IsInjective(list)
  BY <1>2, OnlyOnce DEF Lists
<1>4. Wires' = Wires \ {w} /\ active' \subseteq Range(list) \intersect Ground
  BY <1>1, <1>2, <1>3, PartsAssumption DEF Wires
<1> HIDE DEF list
<1>5. label' \in Labelling /\ \A c \in Conductor : label'[c] = IF c = w THEN Nothing ELSE label[c]
  BY <1>1, <1>2 DEF Unlabel, Labelling
<1>6. SchematicInv'
  <2>1. \A c \in Conductor : label'[c] # Nothing => label[c] # Nothing /\ c \in Node \union Wires'
    BY <1>2, <1>4, <1>5 DEF OnlyDrawn
  <2> QED BY <1>1, <1>3, <1>4, <1>5, <2>1, FewerLabels
<1>7. OneLabelStep
  <2> SUFFICES ASSUME NEW N \in Nets(Wires')
               PROVE  LET before == {M \in Nets(Wires) : M \intersect N # {}}
                      IN  /\ ~Tidy(active', label', N) => \E M \in before : ~Tidy(active, label, M)
                          /\ Cardinality(before) = 1
    BY DEF OneLabelStep
  <2> DEFINE before == {M \in Nets(Wires) : M \intersect N # {}}
  <2>1. Wires' \subseteq Wire
    BY <1>2, <1>4
  <2>2. N \subseteq Node /\ N # {}
    BY <2>1, OneNetEach
  <2>3. PICK n \in N : n \in Node
    BY <2>2
  <2> DEFINE M == NetOf(Wires, n)
  <2>4. M \in Nets(Wires) /\ n \in M /\ M \subseteq Node /\ Joined(Wires, M)
    BY <1>2, <2>3, OneNetEach
  <2>5. N \subseteq M
    <3>1. N = NetOf(Wires', n)
      BY <2>1, <2>3, OneNetEach
    <3>2. Joined(Wires', M)
      BY <1>4, <2>4 DEF Joined
    <3> HIDE DEF M
    <3> QED BY <2>1, <2>3, <2>4, <3>1, <3>2, NetIsJoined
  <2> HIDE DEF M
  <2>6. before = {M}
    BY <1>2, <2>3, <2>4, <2>5, OneNetEach
  <2>7. Cardinality(before) = 1
    BY <2>6, FS_Singleton
  <2>8. LabelsOf(label', N) \subseteq LabelsOf(label, M)
    BY <1>5, <2>5 DEF LabelsOf
  <2>9. Grounded(active', N) => Grounded(active, M)
    BY <1>1, <2>5 DEF Grounded
  <2>10. Tidy(active, label, M) => Tidy(active', label', N)
    <3> DEFINE on2 == active'
               lab2 == label'
    <3>1. LabelsOf(lab2, N) \subseteq LabelsOf(label, M) /\ (Grounded(on2, N) => Grounded(active, M))
      BY <2>8, <2>9
    <3> HIDE DEF on2, lab2
    <3>2. Tidy(active, label, M) => Tidy(on2, lab2, N)
      BY <1>2, <3>1, TidyShrinks
    <3> QED BY <3>2 DEF on2, lab2
  <2> HIDE DEF before
  <2>11. ~Tidy(active', label', N) => \E K \in before : ~Tidy(active, label, K)
    BY <2>6, <2>10
  <2> QED BY <2>7, <2>11 DEF before
<1> QED
  BY <1>6, <1>7

\* The wires and what else is drawn stay, labels and active grounds may go.
LEMMA FewerKeeps ==
  ASSUME SchematicInv, drawn' \in Lists, IsInjective(drawn'), Wires' = Wires,
         active' \subseteq Range(drawn') \intersect Ground, active' \subseteq active,
         label' \in Labelling,
         \A c \in Conductor : label'[c] # Nothing => label[c] # Nothing
  PROVE  SchematicInv' /\ OneLabelStep
<1>1. /\ OnlyDrawn(drawn, label) /\ Wires = WiresOf(drawn)
      /\ \A N : IsFiniteSet(LabelsOf(label, N))
  BY StateIs
<1>2. SchematicInv'
  <2>1. \A c \in Conductor : label'[c] # Nothing => label[c] # Nothing /\ c \in Node \union Wires'
    BY <1>1 DEF OnlyDrawn
  <2> QED BY <2>1, FewerLabels
<1>3. ASSUME NEW N \in Nets(Wires), Tidy(active, label, N) PROVE Tidy(active', label', N)
  <2> DEFINE on2 == active'
             lab2 == label'
  <2>1. LabelsOf(lab2, N) \subseteq LabelsOf(label, N) /\ (Grounded(on2, N) => Grounded(active, N))
    BY DEF LabelsOf, Grounded
  <2> HIDE DEF on2, lab2
  <2>2. Tidy(on2, lab2, N)
    BY <1>1, <1>3, <2>1, TidyShrinks
  <2> QED BY <2>2 DEF on2, lab2
<1> QED
  BY <1>2, <1>3, SameNets

\* A ground is deleted.
LEMMA DeleteGroundKeeps ==
  ASSUME SchematicInv, NEW g \in Ground, DeleteGround(g)
  PROVE  SchematicInv' /\ OneLabelStep
<1> DEFINE list == Only(drawn, Range(drawn) \ {g})
<1>1. drawn' = list /\ active' = active \ {g} /\ label' = label
  BY DEF DeleteGround
<1>2. /\ drawn \in Lists /\ IsInjective(drawn) /\ label \in Labelling
      /\ active \subseteq Range(drawn) \intersect Ground
  BY StateIs
<1>3. list \in Lists /\ Range(list) = Range(drawn) \ {g} /\ IsInjective(list)
  BY <1>2, OnlyOnce DEF Lists
<1>4. Wires' = Wires
  BY <1>1, <1>3, PartsAssumption DEF Wires
<1> HIDE DEF list
<1> QED
  BY <1>1, <1>2, <1>3, <1>4, FewerKeeps

\* A ground is deactivated.
LEMMA DeactivateKeeps ==
  ASSUME SchematicInv, NEW g \in Ground, Deactivate(g)
  PROVE  SchematicInv' /\ OneLabelStep
<1>1. drawn' = drawn /\ active' = active \ {g} /\ label' = label
  BY DEF Deactivate
<1>2. /\ drawn \in Lists /\ IsInjective(drawn) /\ label \in Labelling
      /\ active \subseteq Range(drawn) \intersect Ground
  BY StateIs
<1>3. Wires' = Wires
  BY <1>1 DEF Wires
<1> QED
  BY <1>1, <1>2, <1>3, FewerKeeps

\* A label is changed or deleted.
LEMMA EditLabelKeeps ==
  ASSUME SchematicInv, NEW c \in Conductor, NEW text \in LabelText \union {Nothing},
         EditLabel(c, text)
  PROVE  SchematicInv' /\ OneLabelStep
<1>1. /\ drawn' = drawn /\ active' = active /\ label[c] # Nothing
      /\ label' = [label EXCEPT ![c] = text]
  BY DEF EditLabel
<1>2. /\ drawn \in Lists /\ IsInjective(drawn) /\ label \in Labelling
      /\ active \subseteq Range(drawn) \intersect Ground
  BY StateIs
<1>3. Wires' = Wires
  BY <1>1 DEF Wires
<1>4. label' \in Labelling /\ \A b \in Conductor : label'[b] # Nothing => label[b] # Nothing
  BY <1>1, <1>2 DEF Labelling
<1> QED
  BY <1>1, <1>2, <1>3, <1>4, FewerKeeps

\* The schematic is loaded again.
LEMMA ReloadKeeps ==
  ASSUME SchematicInv, Reload
  PROVE  SchematicInv' /\ OneLabelStep
<1> DEFINE S == {c \in Labelled : label[c][1] = ""}
           list == Only(drawn, Ground) \o Only(drawn, Wire)
<1>1. drawn' = list /\ active' = active /\ label' = Unlabel(label, S)
  BY DEF Reload
<1>2. /\ drawn \in Lists /\ IsInjective(drawn) /\ label \in Labelling
      /\ active \subseteq Range(drawn) \intersect Ground
  BY StateIs
<1> HIDE DEF S
<1>3. /\ list \in Lists /\ IsInjective(list)
      /\ Range(list) = (Range(drawn) \intersect Ground) \union (Range(drawn) \intersect Wire)
  <2> DEFINE s == Only(drawn, Ground)
             t == Only(drawn, Wire)
  <2>1. /\ s \in Lists /\ t \in Lists /\ IsInjective(s) /\ IsInjective(t)
        /\ Range(s) = Range(drawn) \intersect Ground /\ Range(t) = Range(drawn) \intersect Wire
    BY <1>2, OnlyOnce DEF Lists
  <2>2. Range(s) \intersect Range(t) = {}
    BY <2>1, PartsAssumption
  <2> HIDE DEF s, t
  <2> QED BY <2>1, <2>2, JoinedOnce DEF s, t, Lists
<1> HIDE DEF list
<1>4. Wires' = Wires /\ active' \subseteq Range(list) \intersect Ground
  BY <1>1, <1>2, <1>3, PartsAssumption DEF Wires
<1>5. label' \in Labelling /\ \A c \in Conductor : label'[c] # Nothing => label[c] # Nothing
  BY <1>1, <1>2 DEF Unlabel, Labelling
<1> QED
  BY <1>1, <1>2, <1>3, <1>4, <1>5, FewerKeeps

\* A ground is activated: oneLabel clears its net.
LEMMA ActivateKeeps ==
  ASSUME SchematicInv, NEW g \in Ground, Activate(g)
  PROVE  SchematicInv' /\ OneLabelStep
<1> DEFINE on == active \union {g}
           start == Place[g]
           r == OneLabel(drawn, on, label, start)
           N0 == NetOf(Wires, start)
<1>1. drawn' = drawn /\ active' = on /\ label' = r /\ g \in Range(drawn)
  BY DEF Activate
<1>2. /\ drawn \in Lists /\ IsInjective(drawn) /\ label \in Labelling /\ OnlyDrawn(drawn, label)
      /\ Wires = WiresOf(drawn) /\ Wires \subseteq Wire
      /\ active \subseteq Range(drawn) \intersect Ground /\ \A N : IsFiniteSet(LabelsOf(label, N))
  BY StateIs
<1>3. start \in Node /\ on \subseteq Range(drawn) \intersect Ground
  BY <1>1, <1>2, PortsAssumption
<1>4. Wires' = Wires
  BY <1>1 DEF Wires
<1>5. \A N : start \notin N => (Grounded(on, N) => Grounded(active, N))
  BY DEF Grounded
<1> HIDE DEF on, r, start
<1>6. r \in Labelling /\ LeftTidy(drawn, on, label, start, r)
  BY <1>2, <1>3, OneLabelDoes DEF r
<1>7. /\ \A c \in Conductor : r[c] = Nothing \/ r[c] = label[c]
      /\ LoopFree(Wires, N0) => Tidy(on, r, N0)
      /\ \A M \in SUBSET Node : M \intersect N0 = {} => LabelsOf(r, M) = LabelsOf(label, M)
  BY <1>2, <1>6 DEF LeftTidy
<1>8. N0 \in Nets(Wires) /\ start \in N0
  BY <1>2, <1>3, OneNetEach
<1> HIDE DEF N0
<1>9. SchematicInv'
  <2>1. \A c \in Conductor : label'[c] # Nothing => label[c] # Nothing /\ c \in Node \union Wires'
    BY <1>1, <1>2, <1>4, <1>7 DEF OnlyDrawn
  <2> QED BY <1>1, <1>2, <1>3, <1>6, <2>1, FewerLabels
<1>10. ASSUME NEW N \in Nets(Wires), Tidy(active, label, N), LoopFree(Wires, N)
       PROVE  Tidy(active', label', N)
  <2>1. CASE N = N0
    BY <1>1, <1>7, <1>10, <2>1
  <2>2. CASE N # N0
    <3>1. N \subseteq Node /\ N \intersect N0 = {}
      BY <1>2, <1>8, <2>2, OneNetEach
    <3>2. LabelsOf(r, N) \subseteq LabelsOf(label, N) /\ (Grounded(on, N) => Grounded(active, N))
      BY <1>5, <1>7, <1>8, <3>1
    <3> QED BY <1>1, <1>2, <1>10, <3>2, TidyShrinks
  <2> QED BY <2>1, <2>2
<1> QED
  BY <1>4, <1>9, <1>10, SameNets

\* In a tidy net the search finds the only label.
LEMMA TheLabelIsFound ==
  ASSUME SchematicInv, NEW start \in Node, Tidy(active, label, NetOf(Wires, start))
  PROVE  LET N == NetOf(Wires, start)
             found == GetWireLabel(drawn, active, label, start)
         IN  /\ LabelsOf(label, N) \subseteq found
             /\ found \intersect Ground = {} => ~Grounded(active, N)
<1> DEFINE N == NetOf(Wires, start)
           found == GetWireLabel(drawn, active, label, start)
           L == LabelsOf(label, N)
<1>1. /\ drawn \in Lists /\ Wires = WiresOf(drawn) /\ OnlyDrawn(drawn, label)
      /\ active \subseteq Range(drawn) \intersect Ground /\ \A M : IsFiniteSet(LabelsOf(label, M))
  BY StateIs
<1>2. L = {} \/ (~Grounded(active, N) /\ \E c : L = {c})
  BY <1>1, TidyIs
<1>3. \/ \E p \in Targets(active, label, N) : found = {p}
      \/ found = {} /\ L = {} /\ ~Grounded(active, N)
  BY <1>1, GetWireLabelFinds
<1>4. /\ L \subseteq Conductor
      /\ Targets(active, label, N) = L \union {g \in active \intersect Ground : Place[g] \in N}
  BY DEF LabelsOf, Targets
<1> HIDE DEF N, found, L
<1>5. CASE found = {} /\ L = {} /\ ~Grounded(active, N)
  BY <1>5 DEF N, found, L
<1>6. ASSUME NEW p \in Targets(active, label, N), found = {p}
      PROVE  L \subseteq found /\ (found \intersect Ground = {} => ~Grounded(active, N))
  <2>1. CASE p \in L
    BY <1>2, <1>6, <2>1
  <2>2. CASE p \in active \intersect Ground /\ Place[p] \in N
    <3>1. Grounded(active, N)
      BY <2>2 DEF Grounded
    <3> QED BY <1>2, <1>6, <2>2, <3>1
  <2> QED BY <1>4, <2>1, <2>2
<1> QED
  BY <1>3, <1>5, <1>6 DEF N, found, L

\* A ground is inserted: the label that is found is deleted.
LEMMA InsertGroundKeeps ==
  ASSUME SchematicInv, NEW g \in Ground, InsertGround(g)
  PROVE  SchematicInv' /\ OneLabelStep
<1> DEFINE on == active \union {g}
           list == Append(drawn, g)
           start == Place[g]
           found == GetWireLabel(drawn, active, label, start)
           r == Unlabel(label, found)
           N0 == NetOf(Wires, start)
<1>1. drawn' = list /\ active' = on /\ label' = r /\ g \notin Range(drawn)
  BY DEF InsertGround
<1>2. /\ drawn \in Lists /\ IsInjective(drawn) /\ label \in Labelling /\ OnlyDrawn(drawn, label)
      /\ Wires = WiresOf(drawn) /\ Wires \subseteq Wire
      /\ active \subseteq Range(drawn) \intersect Ground /\ \A N : IsFiniteSet(LabelsOf(label, N))
  BY StateIs
<1>3. list \in Lists /\ Range(list) = Range(drawn) \union {g} /\ IsInjective(list)
  BY <1>1, <1>2, AppendedOnce
<1>4. start \in Node /\ on \subseteq Range(list) \intersect Ground
  BY <1>2, <1>3, PortsAssumption
<1>5. Wires' = Wires
  BY <1>1, <1>3, PartsAssumption DEF Wires
<1>6. \A N : start \notin N => (Grounded(on, N) => Grounded(active, N))
  BY DEF Grounded
<1>7. N0 \in Nets(Wires) /\ start \in N0
  BY <1>2, <1>4, OneNetEach
<1>8. Tidy(active, label, N0) => LabelsOf(label, N0) \subseteq found
  BY <1>4, TheLabelIsFound
<1> HIDE DEF found
<1>9. r \in Labelling /\ \A c \in Conductor : r[c] = IF c \in found THEN Nothing ELSE label[c]
  BY <1>2 DEF Unlabel, Labelling
<1> HIDE DEF on, list, start, r, N0
<1>10. SchematicInv'
  <2>1. \A c \in Conductor : label'[c] # Nothing => label[c] # Nothing /\ c \in Node \union Wires'
    BY <1>1, <1>2, <1>5, <1>9 DEF OnlyDrawn
  <2> QED BY <1>1, <1>3, <1>4, <1>9, <2>1, FewerLabels
<1>11. \A N : LabelsOf(r, N) \subseteq LabelsOf(label, N)
  BY <1>9 DEF LabelsOf
<1>12. ASSUME NEW N \in Nets(Wires), Tidy(active, label, N)
       PROVE  Tidy(active', label', N)
  <2>1. CASE N = N0
    <3>1. LabelsOf(r, N) = {}
      BY <1>8, <1>9, <1>12, <2>1 DEF LabelsOf
    <3>2. IsFiniteSet(LabelsOf(r, N))
      BY <3>1, FS_EmptySet
    <3>3. Tidy(on, r, N)
      BY <3>1, <3>2, TidyIs
    <3> QED BY <1>1, <3>3
  <2>2. CASE N # N0
    <3>1. start \notin N
      BY <1>2, <1>7, <2>2, OneNetEach
    <3>2. Grounded(on, N) => Grounded(active, N)
      BY <1>6, <3>1
    <3> QED BY <1>1, <1>2, <1>11, <1>12, <3>2, TidyShrinks
  <2> QED BY <2>1, <2>2
<1> QED
  BY <1>5, <1>10, <1>12, SameNets

\* A label is set: the one that is found is deleted, and a ground prevents it.
LEMMA SetLabelKeeps ==
  ASSUME SchematicInv, NEW c \in Node \union Wires, NEW text \in LabelText \union {Nothing},
         SetLabel(c, text)
  PROVE  SchematicInv' /\ OneLabelStep
<1> DEFINE start == Start(c)
           found == GetWireLabel(drawn, active, label, start)
           r == [Unlabel(label, found) EXCEPT ![c] = text]
           N0 == NetOf(Wires, start)
<1>1. /\ drawn' = drawn /\ active' = active /\ label' = r
      /\ found \intersect Ground = {} /\ Cardinality(Labelled \ found) < MaxLabels
  BY DEF SetLabel
<1>2. /\ drawn \in Lists /\ IsInjective(drawn) /\ label \in Labelling /\ OnlyDrawn(drawn, label)
      /\ Wires = WiresOf(drawn) /\ Wires \subseteq Wire
      /\ active \subseteq Range(drawn) \intersect Ground /\ \A N : IsFiniteSet(LabelsOf(label, N))
      /\ IsFiniteSet(Labelled) /\ Cardinality(Labelled) <= MaxLabels /\ MaxLabels \in Nat
  BY StateIs
<1>3. c \in Conductor /\ start \in Node
  BY <1>2, Starts DEF Conductor
<1>4. Wires' = Wires
  BY <1>1 DEF Wires
<1>5. N0 \in Nets(Wires) /\ start \in N0
  BY <1>2, <1>3, OneNetEach
<1>6. Tidy(active, label, N0) => LabelsOf(label, N0) \subseteq found /\ ~Grounded(active, N0)
  BY <1>1, <1>3, TheLabelIsFound
<1> HIDE DEF found
<1>7. /\ r \in Labelling
      /\ \A b \in Conductor : r[b] = IF b = c THEN text ELSE IF b \in found THEN Nothing ELSE label[b]
  BY <1>2, <1>3 DEF Unlabel, Labelling
<1> HIDE DEF r, N0
<1>8. SchematicInv'
  <2> DEFINE L == {b \in Conductor : r[b] # Nothing}
             K == Labelled \ found
  <2>1. L \subseteq K \union {c} /\ L \subseteq Node \union Wires
    BY <1>2, <1>7 DEF Labelled, OnlyDrawn
  <2>2. Labelled' = L /\ Cardinality(K) < MaxLabels
    BY <1>1 DEF Labelled
  <2>3. IsFiniteSet(K)
    BY <1>2, FS_Subset
  <2> HIDE DEF L, K
  <2>4. /\ IsFiniteSet(K \union {c})
        /\ Cardinality(K \union {c}) = IF c \in K THEN Cardinality(K) ELSE Cardinality(K) + 1
    BY <2>3, FS_AddElement
  <2>5. IsFiniteSet(L) /\ Cardinality(L) <= Cardinality(K \union {c})
    BY <2>1, <2>4, FS_Subset
  <2>6. Cardinality(L) \in Nat /\ Cardinality(K) \in Nat
    BY <2>3, <2>5, FS_CardinalityType
  <2>7. Cardinality(L) <= MaxLabels
    BY <1>2, <2>2, <2>4, <2>5, <2>6
  <2> QED BY <1>1, <1>2, <1>4, <1>7, <2>1, <2>2, <2>7 DEF SchematicInv, SchematicOK, Labelling
<1>9. ASSUME NEW N \in Nets(Wires), Tidy(active, label, N)
      PROVE  Tidy(active', label', N)
  <2>1. CASE N = N0
    <3>1. LabelsOf(r, N) \subseteq {c} /\ ~Grounded(active, N)
      BY <1>6, <1>7, <1>9, <2>1 DEF LabelsOf
    <3> DEFINE L == LabelsOf(r, N)
    <3> HIDE DEF L
    <3>2. L = {} \/ L = {c}
      BY <3>1 DEF L
    <3>3. IsFiniteSet(L)
      <4>1. IsFiniteSet({}) /\ IsFiniteSet({c})
        BY FS_EmptySet, FS_Singleton
      <4> QED BY <3>2, <4>1
    <3>4. Tidy(active, r, N)
      BY <3>1, <3>2, <3>3, TidyIs DEF L
    <3> QED BY <1>1, <3>4
  <2>2. CASE N # N0
    <3>1. start \notin N
      BY <1>2, <1>5, <2>2, OneNetEach
    <3>2. LabelsOf(r, N) \subseteq LabelsOf(label, N)
      BY <1>7, <3>1 DEF LabelsOf
    <3>3. Tidy(active, r, N)
      BY <1>2, <1>9, <3>2, TidyShrinks
    <3> QED BY <1>1, <3>3
  <2> QED BY <2>1, <2>2
<1> QED
  BY <1>4, <1>8, <1>9, SameNets

-----------------------------------------------------------------------------
\* The theorems.

\* All steps together.
LEMMA SchematicKeeps ==
  ASSUME SchematicInv, [Next]_vars
  PROVE  SchematicInv' /\ (OneLabelStep \/ UNCHANGED schematic)
<1>1. ASSUME UNCHANGED schematic PROVE SchematicInv'
  <2>1. Labelled' = Labelled /\ (SchematicOK => SchematicOK') /\ drawn' = drawn
    BY <1>1, SameSchematic DEF schematic
  <2> QED BY <2>1 DEF SchematicInv
<1>2. CASE UNCHANGED vars
  BY <1>1, <1>2 DEF vars
<1>3. CASE Next
  <2>1. CASE \E w \in Wire : InsertWire(w) \/ DeleteWire(w)
    BY <2>1, InsertWireKeeps, DeleteWireKeeps
  <2>2. CASE \E g \in Ground : InsertGround(g) \/ DeleteGround(g) \/ Activate(g) \/ Deactivate(g)
    BY <2>2, InsertGroundKeeps, DeleteGroundKeeps, ActivateKeeps, DeactivateKeeps
  <2>3. CASE \E c \in Node \union Wires, text \in LabelText \union {Nothing} :
               SetLabel(c, text) \/ EditLabel(c, text)
    <3>1. PICK c \in Node \union Wires, text \in LabelText \union {Nothing} :
                 SetLabel(c, text) \/ EditLabel(c, text)
      BY <2>3
    <3>2. c \in Conductor
      BY DEF Wires, Conductor
    <3> QED BY <3>1, <3>2, SetLabelKeeps, EditLabelKeeps
  <2>4. CASE Reload
    BY <2>4, ReloadKeeps
  <2>5. CASE GiveNodeNames
    <3>1. UNCHANGED schematic
      BY <2>5 DEF GiveNodeNames
    <3> QED BY <1>1, <3>1
  <2> QED BY <1>3, <2>1, <2>2, <2>3, <2>4, <2>5 DEF Next
<1> QED
  BY <1>2, <1>3

\* A change of the schematic forgets the names.
LEMMA NetlistKeeps ==
  ASSUME SchematicInv, NetlistOK, [Next]_vars
  PROVE  NetlistOK'
<1>1. ASSUME Edited PROVE NetlistOK'
  <2>1. name' \in [Node -> Names] /\ \A n \in Node : name'[n] = NoName
    BY <1>1 DEF Edited, Names
  <2>2. nodeSets' = <<>>
    BY <1>1 DEF Edited
  <2> QED BY <2>1, <2>2 DEF NetlistOK
<1>2. CASE UNCHANGED vars
  <2>1. UNCHANGED schematic /\ name' = name /\ nodeSets' = nodeSets
    BY <1>2 DEF vars, netlist
  <2>2. \A t : Result(t) => Result(t)'
    BY <2>1, SameSchematic
  <2> QED BY <2>1, <2>2 DEF NetlistOK
<1>3. CASE GiveNodeNames
  <2>1. PICK t \in Naming : name' = t.name /\ nodeSets' = t.sets /\ Result(t)
    BY <1>3, BothPasses DEF SchematicInv
  <2>2. UNCHANGED schematic
    BY <1>3 DEF GiveNodeNames
  <2>3. Result(t)'
    BY <2>1, <2>2, SameSchematic
  <2>4. name' \in [Node -> Names]
    BY <2>1 DEF Naming
  <2> QED BY <2>1, <2>3, <2>4 DEF NetlistOK
<1>4. CASE Next /\ ~GiveNodeNames
  <2>1. Edited
    BY <1>4 DEF Next, InsertWire, DeleteWire, InsertGround, DeleteGround, Activate, Deactivate,
                SetLabel, EditLabel, Reload
  <2> QED BY <1>1, <2>1
<1> QED
  BY <1>2, <1>3, <1>4

\* The invariant holds at the start.
LEMMA InitOK == Init => SchematicInv /\ NetlistOK
<1> SUFFICES ASSUME Init PROVE SchematicInv /\ NetlistOK
  OBVIOUS
<1>1. drawn \in Lists /\ IsInjective(drawn) /\ Range(drawn) = {}
  <2> DEFINE e == <<>>
  <2>1. e \in Lists /\ DOMAIN e = {}
    BY DEF Lists
  <2>2. drawn = e
    BY DEF Init
  <2> HIDE DEF e
  <2> QED BY <2>1, <2>2 DEF IsInjective, Range
<1>2. active = {} /\ label \in [Conductor -> LabelText \union {Nothing}] /\ Labelled = {}
  BY DEF Init, Labelled
<1>3. Cardinality(Labelled) <= MaxLabels
  BY <1>2, MaxLabelsAssumption, FS_EmptySet
<1>4. NetlistOK
  <2>1. name \in [Node -> Names] /\ \A n \in Node : name[n] = NoName
    BY DEF Init, Names
  <2>2. nodeSets = <<>>
    BY DEF Init
  <2> QED BY <2>1, <2>2 DEF NetlistOK
<1> QED
  BY <1>1, <1>2, <1>3, <1>4 DEF SchematicInv, SchematicOK

Inv == SchematicInv /\ NetlistOK

\* The inductive invariant: the types, and a netlist that is forgotten or was made
\* by giveNodeNames for this schematic.
LEMMA Invariant == Spec => []Inv
<1>1. Init => Inv
  BY InitOK DEF Inv
<1>2. Inv /\ [Next]_vars => Inv'
  BY SchematicKeeps, NetlistKeeps DEF Inv
<1> QED
  BY <1>1, <1>2, PTL DEF Spec

\* The variables keep their types: no part is connected twice, and only what is
\* drawn is active or labelled.
THEOREM LabelTypes == Spec => []TypeOK
<1>1. Inv => TypeOK
  <2> SUFFICES ASSUME Inv PROVE TypeOK
    OBVIOUS
  <2>1. SchematicOK /\ IsInjective(drawn) /\ Cardinality(Labelled) <= MaxLabels /\ NetlistOK
    BY DEF Inv, SchematicInv
  <2>2. name \in [Node -> Names]
    BY <2>1 DEF NetlistOK
  <2>3. nodeSets \in Seq(Range(name))
    <3>1. CASE nodeSets = <<>>
      <4>1. <<>> \in Seq(Range(name))
        OBVIOUS
      <4> QED BY <3>1, <4>1
    <3>2. CASE \E t \in Naming : t.name = name /\ t.sets = nodeSets /\ Result(t)
      <4>1. PICK t \in Naming : t.name = name /\ t.sets = nodeSets /\ Result(t)
        BY <3>2
      <4>2. PICK D : Recorded(t, D)
        BY <4>1 DEF Result
      <4>3. PICK f \in Seq(Conductor) :
              Len(f) = Len(nodeSets) /\ \A i \in 1..Len(f) : nodeSets[i] = name[Start(f[i])]
        BY <4>1, <4>2 DEF Recorded
      <4>4. nodeSets \in Seq(Names)
        BY <4>1 DEF Naming
      <4>5. \A i \in 1..Len(nodeSets) : nodeSets[i] \in Range(name)
        BY <2>2, <4>3, Starts DEF Range
      <4>6. Len(nodeSets) \in Nat /\ nodeSets = [i \in 1..Len(nodeSets) |-> nodeSets[i]]
        BY <4>4
      <4> QED BY <4>5, <4>6
    <3> QED BY <2>1, <3>1, <3>2 DEF NetlistOK
  <2> QED BY <2>1, <2>2, <2>3 DEF TypeOK, SchematicOK, Lists
<1> QED
  BY <1>1, Invariant, PTL

\* In the netlist the nodes of two tidy nets have one name exactly if wires or
\* equal labels connect them or both are grounded, and it is the name entered.
THEOREM NodesAreNamed == Spec => []NamesAreNets
<1>1. Inv => NamesAreNets
  BY NamesAreNetsFollows DEF Inv, SchematicInv
<1> QED
  BY <1>1, Invariant, PTL

\* The initial voltage of each label is in the netlist exactly once, under its name.
THEOREM VoltagesAreGiven == Spec => []VoltagesAreKept
<1>1. Inv => VoltagesAreKept
  BY VoltagesAreKeptFollows DEF Inv, SchematicInv
<1> QED
  BY <1>1, Invariant, PTL

\* No change of the schematic leaves a net without loops with a label too many, or
\* takes the last name of nets that are joined.
THEOREM LabelsStayOne == Spec => OneLabelIsLeft
<1>1. Inv /\ [Next]_vars =>
        [\A N \in Nets(Wires') :
           LET before == {M \in Nets(Wires) : M \intersect N # {}}
           IN  /\ ~Tidy(active', label', N) /\ LoopFree(Wires', N) =>
                    \E M \in before : ~Tidy(active, label, M)
               /\ /\ ~Grounded(active', N)
                  /\ LabelsOf(label, N) # {} /\ LabelsOf(label', N) = {}
                  => Cardinality(before) = 1]_schematic
  BY SchematicKeeps DEF Inv, OneLabelStep
<1> QED
  BY <1>1, Invariant, PTL DEF Spec, OneLabelIsLeft
=============================================================================
