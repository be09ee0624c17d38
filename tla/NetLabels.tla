----------------------------- MODULE NetLabels -----------------------------
(***************************************************************************)
(* Wires, labels and ground symbols of a schematic and the node names of   *)
(* its netlist (schematic_element.cpp, mouseactions.cpp,                   *)
(* schematic_file.cpp).                                                    *)
(*                                                                         *)
(* A label names the whole net its node or wire belongs to.  The editor    *)
(* keeps one label for each net, and none for a grounded one, by following *)
(* the wires at each change; the netlist gives the name of the label, gnd  *)
(* or a number to all nodes of the net.                                    *)
(*                                                                         *)
(* The geometry is left out: every node holds a port of a component, and a *)
(* wire runs between two neighbouring nodes, so that no wire is split,     *)
(* joined with another or covered.                                         *)
(***************************************************************************)
EXTENDS Naturals, Sequences, FiniteSets, Functions, Selection

CONSTANTS
  Nodes,      \* the nodes, in the order of DocNodes
  Wire,       \* the wires that can be drawn
  Port1,      \* the node at the left or upper end of each wire
  Port2,      \* the node at its other end
  Ground,     \* ground symbols
  Place,      \* the node at which each of them is inserted
  LabelText,  \* what can be entered: names, "" for none, with an initial voltage or not
  MaxLabels   \* bounds the labels of the schematic

Node == Range(Nodes)
Conductor == Node \cup Wire
Nothing == <<>>
NoName == <<>>
Gnd == <<"gnd">>

ASSUME NodesAssumption == Nodes \in Seq(Node) /\ IsInjective(Nodes)

\* Wires are straight, and two that lie on each other are made one.
ASSUME PortsAssumption ==
  /\ Port1 \in [Wire -> Node] /\ Port2 \in [Wire -> Node]
  /\ \A w \in Wire : Port1[w] # Port2[w]
  /\ \A v, w \in Wire : {Port1[v], Port2[v]} = {Port1[w], Port2[w]} => v = w
  /\ Place \in [Ground -> Node]
ASSUME PartsAssumption == Wire \intersect (Ground \cup Node) = {} /\ Ground \intersect Node = {}
ASSUME MaxLabelsAssumption == MaxLabels \in Nat
ASSUME LabelTextAssumption ==
  LabelText \subseteq {t \in STRING \X BOOLEAN : t # <<"", FALSE>>}

VARIABLES
  drawn,     \* wires and ground symbols in the order in which they were connected
  active,    \* the ground symbols that are active
  label,     \* the label of each node and wire
  name,      \* the name of each node in the last netlist
  nodeSets   \* the node names for which the last netlist has a NodeSet line

schematic == <<drawn, active, label>>
netlist == <<name, nodeSets>>
vars == <<schematic, netlist>>

Wires == Range(drawn) \intersect Wire

Labelled == {c \in Conductor : label[c] # Nothing}

-----------------------------------------------------------------------------
\* The walk along the wires.

Touches(part, n) ==
  IF part \in Wire THEN n \in {Port1[part], Port2[part]} ELSE Place[part] = n

\* Connections of a node; wires and grounds are appended as they are drawn.
Connections(list, n) == Only(list, {part \in Range(list) : Touches(part, n)})

FarEnd(w, n) == IF n # Port1[w] THEN Port1[w] ELSE Port2[w]

\* The breadth first walk from a node over Cons, the list of nodes met.  Visit
\* looks at a node, Look at one of its connections; either may extend the list.
Walk(list, start, state, Visit(_, _), Look(_, _, _)) ==
  LET Work(s, n) ==
        LET parts == Connections(list, n)
        IN  Rounds(Len(parts), Visit(s, n), LAMBDA t, i : Look(t, n, parts[i]))
  IN  Rounds(Len(Nodes), [state EXCEPT !.cons = <<start>>],
             LAMBDA s, i : IF i > Len(s.cons) THEN s ELSE Work(s, s.cons[i]))

\* A conductor is met: the first label is kept, every other one is deleted.
Meet(s, c) ==
  IF s.label[c] = Nothing THEN s
  ELSE IF s.named THEN [s EXCEPT !.label[c] = Nothing]
  ELSE [s EXCEPT !.named = TRUE, !.kept = {c}]

\* An active ground deletes the label that was kept.
MeetGround(s) ==
  [s EXCEPT !.named = TRUE,
            !.kept = {},
            !.label = [c \in Conductor |-> IF c \in s.kept THEN Nothing ELSE s.label[c]]]

\* A plausible slip: the walk does not look at the labels of the wires.
OneLabelLookNodes(on, s, n, part) ==
  IF part \in Ground
  THEN IF part \in on THEN MeetGround(s) ELSE s
  ELSE LET far == FarEnd(part, n)
       IN  IF far \in Range(s.cons) THEN s ELSE [s EXCEPT !.cons = Append(@, far)]

\* One connection of oneLabel: a wire to a node not yet met is looked at with it.
OneLabelLook(on, s, n, part) ==
  IF part \in Ground
  THEN IF part \in on THEN MeetGround(s) ELSE s
  ELSE LET far == FarEnd(part, n)
       IN  IF far \in Range(s.cons) THEN s
           ELSE Meet([s EXCEPT !.cons = Append(@, far)], part)

\* oneLabel: what is left of the labels lab after the walk from start.
OneLabel(list, on, lab, start) ==
  Walk(list, start, [cons |-> <<>>, label |-> lab, named |-> FALSE, kept |-> {}],
       Meet, LAMBDA s, n, part : OneLabelLook(on, s, n, part)).label

\* getWireLabel: the labelled conductor or the active ground found first, if any.
GetWireLabel(list, on, lab, start) ==
  LET Find(s, part) == IF s.found = {} THEN [s EXCEPT !.found = {part}] ELSE s
      Visit(s, n) == IF lab[n] # Nothing THEN Find(s, n) ELSE s
      Look(s, n, part) ==
        IF part \in Ground
        THEN IF part \in on THEN Find(s, part) ELSE s
        ELSE IF lab[part] # Nothing THEN Find(s, part)
        ELSE LET far == FarEnd(part, n)
             IN  IF far \in Range(s.cons) THEN s ELSE [s EXCEPT !.cons = Append(@, far)]
  IN  Walk(list, start, [cons |-> <<>>, found |-> {}], Visit, Look).found

Unlabel(lab, S) == [c \in Conductor |-> IF c \in S THEN Nothing ELSE lab[c]]

-----------------------------------------------------------------------------
\* Editing the schematic.

\* The names serve only the netlist they were made for, and are forgotten.
Edited ==
  /\ name' = [n \in Node |-> NoName]
  /\ nodeSets' = <<>>

\* insertWire between two nodes that both exist.
InsertWire(w) ==
  /\ w \notin Wires
  /\ drawn' = Append(drawn, w)
  /\ label' = OneLabel(drawn', active, label, Port1[w])
  /\ Edited /\ UNCHANGED active

\* A plausible slip: the label of the wire stays.
DeleteWireOnly(w) ==
  /\ w \in Wires
  /\ drawn' = Only(drawn, Range(drawn) \ {w})
  /\ Edited /\ UNCHANGED <<active, label>>

\* deleteWire: the label of the wire goes with it.
DeleteWire(w) ==
  /\ w \in Wires
  /\ drawn' = Only(drawn, Range(drawn) \ {w})
  /\ label' = Unlabel(label, {w})
  /\ Edited /\ UNCHANGED active

\* insertComponent: a ground symbol deletes the label that is found; it is not yet
\* a ground itself when the search is made.
InsertGround(g) ==
  /\ g \notin Range(drawn)
  /\ drawn' = Append(drawn, g)
  /\ active' = active \cup {g}
  /\ label' = Unlabel(label, GetWireLabel(drawn, active, label, Place[g]))
  /\ Edited

\* deleteComp
DeleteGround(g) ==
  /\ g \in Range(drawn)
  /\ drawn' = Only(drawn, Range(drawn) \ {g})
  /\ active' = active \ {g}
  /\ Edited /\ UNCHANGED label

\* activateSpecifiedComponent and its kin.
Deactivate(g) ==
  /\ g \in active
  /\ active' = active \ {g}
  /\ Edited /\ UNCHANGED <<drawn, label>>

Activate(g) ==
  /\ g \in Range(drawn) \ active
  /\ active' = active \cup {g}
  /\ label' = OneLabel(drawn, active', label, Place[g])
  /\ Edited /\ UNCHANGED drawn

Start(c) == IF c \in Wire THEN Port1[c] ELSE c

\* MPressLabel on a node or wire: the label of the net is replaced, wherever it
\* is, or deleted if nothing is entered; a grounded net cannot be labelled.
SetLabel(c, text) ==
  LET found == GetWireLabel(drawn, active, label, Start(c))
  IN  /\ found \intersect Ground = {}
      /\ Cardinality(Labelled \ found) < MaxLabels
      /\ label' = [Unlabel(label, found) EXCEPT ![c] = text]
      /\ Edited /\ UNCHANGED <<drawn, active>>

\* editLabel on an existing label, and its deletion.
EditLabel(c, text) ==
  /\ label[c] # Nothing
  /\ label' = [label EXCEPT ![c] = text]
  /\ Edited /\ UNCHANGED <<drawn, active>>

\* Loading what was saved, as undo does: the components come first, then the
\* wires, and a label without a name is not read.
Reload ==
  /\ drawn' = Only(drawn, Ground) \o Only(drawn, Wire)
  /\ label' = Unlabel(label, {c \in Labelled : label[c][1] = ""})
  /\ Edited /\ UNCHANGED active

-----------------------------------------------------------------------------
\* giveNodeNames: the names of the nodes of the netlist.

NameOf(text) == IF text[1] = "" THEN NoName ELSE <<text[1]>>
Numbered(z) == <<"_net", z>>

\* The wire that gives its label to a node, the last one of Wires.
NamingWires(n) ==
  Only(drawn, {w \in Wire : label[w] # Nothing /\ Port1[w] = n})

\* A node has the name of its label or of the wire that begins at it; an active
\* ground goes over both.
GivenNames ==
  [n \in Node |->
     IF \E g \in active : Place[g] = n THEN Gnd
     ELSE IF NamingWires(n) # <<>> THEN NameOf(label[NamingWires(n)[Len(NamingWires(n))]])
     ELSE IF label[n] # Nothing THEN NameOf(label[n])
     ELSE NoName]

\* createNodeSet
NodeSet(s, c, n) ==
  IF label[c] = Nothing THEN s
  ELSE IF label[c][2] THEN [s EXCEPT !.sets = Append(@, s.name[n])] ELSE s

\* A plausible slip: wires are followed from their first port only.
PropagateLookForward(first, s, n, part) ==
  IF part \in Ground THEN s
  ELSE IF n # Port1[part] \/ s.name[Port2[part]] # NoName THEN s
  ELSE NodeSet([s EXCEPT !.name[Port2[part]] = s.name[first],
                         !.cons = Append(@, Port2[part]),
                         !.done = @ \cup {Port2[part]}], part, first)

\* A plausible slip: initial voltages are taken from the labels of nodes only.
PropagateLookNodes(first, s, n, part) ==
  IF part \in Ground THEN s
  ELSE LET far == FarEnd(part, n)
       IN  IF s.name[far] # NoName THEN s
           ELSE [s EXCEPT !.name[far] = s.name[first],
                          !.cons = Append(@, far),
                          !.done = @ \cup {far}]

\* One connection: a node without a name gets the name of the first one.
PropagateLook(first, s, n, part) ==
  IF part \in Ground THEN s
  ELSE LET far == FarEnd(part, n)
       IN  IF s.name[far] # NoName THEN s
           ELSE NodeSet([s EXCEPT !.name[far] = s.name[first],
                                  !.cons = Append(@, far),
                                  !.done = @ \cup {far}], part, first)

PropagateNode(s, n) ==
  Walk(drawn, n, s, LAMBDA t, m : t, LAMBDA t, m, part : PropagateLook(n, t, m, part))

From(s, n) ==
  PropagateNode(NodeSet([s EXCEPT !.done = @ \cup {n}], n, n), n)

\* throughAllNodes for the named nodes, then for the others.
ThroughNamed(s, n) ==
  IF s.name[n] = NoName \/ n \in s.done THEN s ELSE From(s, n)

ThroughUnnamed(s, n) ==
  IF s.name[n] # NoName THEN s
  ELSE From([s EXCEPT !.name[n] = Numbered(s.z), !.z = @ + 1], n)

GiveNodeNames ==
  LET start == [name |-> GivenNames, done |-> {}, sets |-> <<>>, cons |-> <<>>, z |-> 0]
      named == Rounds(Len(Nodes), start, LAMBDA s, i : ThroughNamed(s, Nodes[i]))
      all == Rounds(Len(Nodes), named, LAMBDA s, i : ThroughUnnamed(s, Nodes[i]))
  IN  /\ name' = all.name
      /\ nodeSets' = all.sets
      /\ UNCHANGED schematic

-----------------------------------------------------------------------------
Init ==
  /\ drawn = <<>>
  /\ active = {}
  /\ label = [c \in Conductor |-> Nothing]
  /\ name = [n \in Node |-> NoName]
  /\ nodeSets = <<>>

Next ==
  \/ \E w \in Wire : InsertWire(w) \/ DeleteWire(w)
  \/ \E g \in Ground : \/ InsertGround(g) \/ DeleteGround(g)
                       \/ Activate(g) \/ Deactivate(g)
  \/ \E c \in Node \cup Wires, text \in LabelText \cup {Nothing} :
       SetLabel(c, text) \/ EditLabel(c, text)
  \/ Reload
  \/ GiveNodeNames

Spec == Init /\ [][Next]_vars

-----------------------------------------------------------------------------
\* Nets, as sets of nodes, for the wires W, active grounds on and labels lab.

\* No wire leads out of the set.
Joined(W, S) == \A w \in W : Port1[w] \in S <=> Port2[w] \in S

Nets(W) ==
  LET joined == {S \in SUBSET Node : S # {} /\ Joined(W, S)}
  IN  {N \in joined : \A S \in joined : S \subseteq N => S = N}

LoopFree(W, N) == Cardinality({w \in W : Port1[w] \in N}) = Cardinality(N) - 1

LabelsOf(lab, N) == {c \in Conductor : lab[c] # Nothing /\ Start(c) \in N}
Grounded(on, N) == \E g \in on : Place[g] \in N

\* A net has one label at most, and none if it is grounded.
Tidy(on, lab, N) ==
  Cardinality(LabelsOf(lab, N)) <= (IF Grounded(on, N) THEN 0 ELSE 1)

NetName(N) ==
  IF Grounded(active, N) THEN Gnd
  ELSE IF LabelsOf(label, N) = {} THEN NoName
  ELSE NameOf(label[CHOOSE c \in LabelsOf(label, N) : TRUE])

TidyNets == {N \in Nets(Wires) : Tidy(active, label, N)}

-----------------------------------------------------------------------------
\* The variables have their types, the list of connections has no part twice,
\* only what is drawn is active or labelled, and the labels are within bounds.
TypeOK ==
  /\ drawn \in Seq(Wire \cup Ground) /\ IsInjective(drawn)
  /\ active \subseteq Range(drawn) \intersect Ground
  /\ label \in [Conductor -> LabelText \cup {Nothing}]
  /\ Labelled \subseteq Node \cup Wires
  /\ Cardinality(Labelled) <= MaxLabels
  /\ DOMAIN name = Node
  /\ nodeSets \in Seq(Range(name))

\* A net with more labels than it should have, and no loop, comes from one that had
\* them before: a wire that joins two labelled nets, a label that is set where
\* another one is, a ground that is inserted or activated leave one label, or none.
\* And a wire that joins nets does not delete their last name.
OneLabelIsLeft ==
  [][\A N \in Nets(Wires') :
       LET before == {M \in Nets(Wires) : M \intersect N # {}}
       IN  /\ ~Tidy(active', label', N) /\ LoopFree(Wires', N) =>
                \E M \in before : ~Tidy(active, label, M)
           /\ /\ ~Grounded(active', N)
              /\ LabelsOf(label, N) # {} /\ LabelsOf(label', N) = {}
              => Cardinality(before) = 1]_schematic

\* In the netlist two nodes have the same name exactly if wires connect them or
\* their nets have the same label or are both grounded; a name the user gave is
\* preserved.  Nets that have kept two labels are left out.
NamesAreNets ==
  (\E n \in Node : name[n] # NoName) =>
     \A N, M \in TidyNets : \A n \in N, m \in M :
       /\ NetName(N) # NoName => name[n] = NetName(N)
       /\ name[n] = name[m] <=> N = M \/ (NetName(N) = NetName(M) /\ NetName(N) # NoName)

\* The initial voltage of a named net is in the netlist exactly once for each of
\* its labels, under that name, whichever node or wire has the label; provided
\* that no net has kept two labels.
VoltagesAreKept ==
  (\E n \in Node : name[n] # NoName) /\ TidyNets = Nets(Wires) =>
     \A text \in {t \in LabelText : t[1] # ""} :
       Cardinality({i \in DOMAIN nodeSets : nodeSets[i] = NameOf(text)})
         = Cardinality({c \in Labelled : label[c] = <<text[1], TRUE>>})

\* Every net has one label at most, and none if it is grounded, as the comment on
\* oneLabel says; with a loop of wires it is not so.
EachNetOneLabel == TidyNets = Nets(Wires)
=============================================================================
