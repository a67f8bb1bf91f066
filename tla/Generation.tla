----------------------------- MODULE Generation -----------------------------
(***************************************************************************)
(* Design::Generate (vhdl/design.cc): insert signals, then write the       *)
(* architecture of the component.  A statement of the text says that one   *)
(* node drives another: a line of the port map of an instance              *)
(* (vhdl/instantiation.cc) or an assignment (vhdl/architecture.cc).  This  *)
(* is about which nodes are in the statements, and in which statements at  *)
(* all; the lines and slices of one are in PortMaps.                       *)
(***************************************************************************)
EXTENDS Signalize

VARIABLE text   \* what the last call returned, until the client does more

genVars == <<store, dir, rebind, bound, user, walks, calls, walk, text>>

Statement == [dst : Node, src : Node, edge : EdgeId]
NoText    == [state |-> "none", written |-> {}]
Text      == [state : {"none", "threw", "written"}, written : SUBSET Statement]

-----------------------------------------------------------------------------
(* The array a node is in and its place: a client's array, or the signal   *)
(* array that the k-th walk made for one.                                  *)
MadeFor(s) == CHOOSE x \in DOMAIN NewSignal : NewSignal[x] = s
Member == Element \cup {NewSignal[x] : x \in (Element \cap Resolvable) \X (1..MaxWalks)}
Home(n) == IF n \in Element THEN [of |-> ArrayOf(n), walk |-> 0]
                            ELSE [of |-> ArrayOf(MadeFor(n)[1]), walk |-> MadeFor(n)[2]]
At(n)   == IF n \in Element THEN Place(n) ELSE Place(MadeFor(n)[1])

(* What stands opposite the i-th element when q, or all its array, is      *)
(* connected as a whole.                                                   *)
Opposite(q, i) ==
  IF q \in Member THEN {r \in Member : Home(r) = Home(q) /\ At(r) = i} ELSE {q}

-----------------------------------------------------------------------------
(* GeneratePortMaps: an input is associated with its driver, an output     *)
(* with everything it drives.                                              *)
Connections(p) == IF dir[p] = "in" THEN Sources(store, p) ELSE Sinks(store, p)

Associate(p, q, e) ==
  IF dir[p] = "in" THEN [dst |-> p, src |-> q, edge |-> e.id]
                   ELSE [dst |-> q, src |-> p, edge |-> e.id]

PortMap(p) == {Associate(p, OtherEnd(e, p), e) : e \in Connections(p)}

(* GeneratePortArrayMaps: when all arrays at the other ends of the edges   *)
(* of an array are one, the map of its first element stands for the whole. *)
InstanceArray == {a \in Array : Elements[a] # << >> /\ Range(Elements[a]) \subseteq InstancePort}

EndsOf(a) == UNION {{OtherEnd(e, p) : e \in EdgesAt(p)} : p \in Range(Elements[a])}
FullArray(a) == Cardinality({Home(n) : n \in EndsOf(a) \cap Member}) = 1

WholeMap(a) ==
  LET first == Elements[a][1]
      Line(e, i) == {Associate(Elements[a][i], r, e) : r \in Opposite(OtherEnd(e, first), i)}
  IN  UNION {Line(e, i) : e \in Connections(first), i \in DOMAIN Elements[a]}

PortArrayMap(a) ==
  IF FullArray(a) THEN WholeMap(a) ELSE UNION {PortMap(p) : p \in Range(Elements[a])}

(* The ports whose map asks for a type mapper.                             *)
MappedPort ==
  (InstancePort \ Element) \cup
  UNION {IF FullArray(a) THEN {Elements[a][1]} ELSE Range(Elements[a]) : a \in InstanceArray}

PortMaps == (UNION {PortMap(p) : p \in InstancePort \ Element}) \cup
            (UNION {PortArrayMap(a) : a \in InstanceArray})

(* Arch::Generate: the component's ports, but not its port arrays, and all *)
(* its signals, unless a port map drives them.                             *)
ComponentPort == {n \in Port \ Element : OnComponent(n)}
Signal        == {n \in Node : Kind[n] = "signal" /\ OnComponent(n)}

(* Mutant of AssignedSignal: signals driven by a port are left to others.  *)
AssignedSignalNoPort ==
  {n \in Signal : Driven(store, n) /\ Kind[store.input[n].src] # "port"}

AssignedSignal == {n \in Signal : Driven(store, n) /\ store.input[n].src \notin InstancePort}
AssignedPort   == {n \in ComponentPort : Driven(store, n)}

Assignments ==
  {[dst |-> n, src |-> store.input[n].src, edge |-> store.input[n].id] :
     n \in AssignedPort \cup AssignedSignal}

(* A component port that is not driven by a signal, or no mapper when the  *)
(* left hand side of a statement is asked for one.                         *)
Refused ==
  \/ \E n \in AssignedPort : Kind[store.input[n].src] # "signal"
  \/ \E p \in MappedPort : \E e \in Connections(p) : <<p, OtherEnd(e, p)>> \notin Mappable
  \/ \E n \in AssignedPort \cup AssignedSignal : <<n, store.input[n].src>> \notin Mappable

-----------------------------------------------------------------------------
(* Generate is a walk and then, in one step, the text.                     *)
WriteText ==
  /\ WalkDone
  /\ text' = IF Refused THEN [state |-> "threw", written |-> {}]
             ELSE [state |-> "written", written |-> PortMaps \cup Assignments]

(* An exception of the walk is one of Generate.                            *)
StopsWithoutText == WalkThrows /\ text' = [state |-> "threw", written |-> {}]

GenerateStep == (RerouteStep /\ UNCHANGED text) \/ StopsWithoutText \/ WriteText

GenInit == SigInit /\ text = NoText

GenNext ==
  \/ (\E dst, src \in Wires : UserConnect(dst, src)) /\ text' = NoText
  \/ (\E x \in Item, b \in Binding : UserBinds(x, b)) /\ text' = NoText
  \/ BeginWalk /\ text' = NoText
  \/ GenerateStep

(* The one thread that called Generate runs it to its end.  Nothing makes  *)
(* the client call anything.                                               *)
GenSpec == GenInit /\ [][GenNext]_genVars /\ WF_genVars(GenerateStep)

-----------------------------------------------------------------------------
GenTypeOK == SigTypeOK /\ text \in Text

(* A call of Generate ends, with a text or with an exception: the loops    *)
(* over the edges of a port do, though their body connects that port       *)
(* again, and no Connect in them throws, which would leave an edge taken   *)
(* off and nothing in its place.  What the client could connect, its       *)
(* signal can be connected to.                                             *)
GenerateEnds == walk # Idle ~> text.state # "none"

(* The client's nodes that drive n by the text, through inserted signals.  *)
TextOrigins(n) ==
  LET back[d \in Node, k \in Nat] ==
        UNION {IF t.src \notin Signals THEN {t.src}
               ELSE IF k = 0 THEN {} ELSE back[t.src, k - 1] :
               t \in {u \in text.written : u.dst = d}}
  IN  back[n, Cardinality(Signals)]

(* The arrays that are connected as a whole although only some of their    *)
(* connections say so: with no connection at the first element or, where   *)
(* no signal array is in between, out of order or in part.                 *)
InOrder(a) ==
  FullArray(a) =>
    /\ EdgesAt(Elements[a][1]) # {}
    /\ Range(Elements[a]) \subseteq NoInsert =>
         \A p \in Range(Elements[a]) :
           /\ EdgesAt(p) # {}
           /\ \A e \in EdgesAt(p) : OtherEnd(e, p) \in Member /\ At(OtherEnd(e, p)) = Place(p)
ArraysInOrder == \A a \in InstanceArray : InOrder(a)

(* No node is assigned or associated twice, save a signal of a port with   *)
(* several sinks, which has an edge for each of them.                      *)
SaidOnce ==
  \A t, u \in text.written : t.dst = u.dst /\ t # u => t.src = u.src /\ t.src \notin Element

(* The text of a design says what its graph says, and says it once, after  *)
(* any number of generations: each node the client made is driven by what  *)
(* the client drove it with and nothing else, port arrays of the component *)
(* aside, which have no assignments.                                       *)
TextKeepsNetlist ==
  text.state = "written" =>
    /\ SaidOnce
    /\ ArraysInOrder => \A n \in Wires \ {p \in Element : OnComponent(p)} :
                         TextOrigins(n) = {Origin(n)} \ {NoNode}

(* Generate throws for the designs it cannot write and for no others: a    *)
(* port of the component driven by a port that gets no signal, "if we      *)
(* properly resolved VHDL issues, and didn't do weird stuff like loop a    *)
(* port back up" (architecture.cc:209), or a driver with no mapper from    *)
(* the driven node's type; or a port or array with no type or size to give *)
(* to its signals.  One whose size is connected to a parameter of the      *)
(* component is written once, and never again: its signal array is the     *)
(* "single NodeArray" (array.cc:66) that uses the parameter from then on.  *)
Loops(n) ==
  n \in ComponentPort /\ Kind[Origin(n)] = "port" /\ Origin(n) \notin Resolvable
LacksMapper(n) ==
  /\ n \notin {p \in Element : OnComponent(p)}
  /\ Origin(n) \in NoInsert => n \in NoInsert
  /\ <<n, Origin(n)>> \notin Mappable
Unbindable(x) ==
  \/ bound[x] \in {"foreign", "literal"}
  \/ bound[x] \in Generic /\ user[bound[x]] \notin {{}, {<<x, walks>>}}
ThrowsOnlyUnwritable ==
  text.state # "none" /\ ArraysInOrder =>
    (text.state = "threw" <=>
       \/ \E x \in Item : Unbindable(x)
       \/ \E n \in Wires : Origin(n) # NoNode /\ (Loops(n) \/ LacksMapper(n)))

(* "Generate relevant VHDL signal assignments of all Cerata nodes"         *)
(* (architecture.h:55): a port of the component that is driven is in a     *)
(* statement, also when it is in an array.                                 *)
AllPortsAssigned ==
  text.state = "written" =>
    \A n \in Port : OnComponent(n) /\ Driven(store, n) => \E t \in text.written : t.dst = n
=============================================================================
