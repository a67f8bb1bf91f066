------------------------------ MODULE Signalize ------------------------------
(***************************************************************************)
(* Resolve::SignalizePorts (vhdl/resolve.cc): before a component is        *)
(* written as VHDL, every port of its child instances gets a signal of its *)
(* own and all edges of the port are rerouted through it.  Ports go        *)
(* through AttachSignalToNode and the elements of port arrays through      *)
(* AttachSignalArrayToNodeArray (edge.cc), which take the edges off and    *)
(* put the new ones on in different orders.  One step per edge.  A signal  *)
(* has the type of its port, and a signal array the size of its array, as  *)
(* they are on the component, and where there is no such thing the walk    *)
(* ends with an exception.  The client connects nodes before, between and  *)
(* after such walks, since the component is changed in place and can be    *)
(* generated again.                                                        *)
(***************************************************************************)
EXTENDS Edges, FiniteSets, Sequences, Functions

CONSTANTS
  Array,       \* names of port arrays, on components and on instances
  Elements,    \* the sequence of ports each consists of
  NoInsert,    \* instance ports marked meta::NO_INSERT_SIGNAL
  ResolvableArray,  \* the arrays on instances that are not marked so
  NewSignal,   \* <<p, k>>: the signal the k-th walk makes for port p
  Generic,     \* parameters of components the size of an array can refer to
  InUse,       \* the array of the component each is the size of, if any
  Bindings,    \* what the type or the size of a port or array can refer to
  Reconnect,   \* whether the client connects a node that is driven already
  MaxWalks,    \* bound on the calls of SignalizePorts
  MaxCalls,    \* bound on the client's connections, those of parameters among them
  Idle         \* no walk is under way

VARIABLES
  bound,   \* what the type of each port and the size of each array refer to
  user,    \* Parameter::node_array_parent: {}, or {<<a, k>>} for what the
           \* k-th walk made for a, and {<<a, 0>>} for a itself
  walks,   \* calls of SignalizePorts so far
  calls,   \* connections the client has made
  walk     \* SignalizePorts: ports to do, and the state of the two loops

sigVars == <<store, dir, rebind, bound, user, walks, calls, walk>>

InstancePort == {n \in Port : OnInstance(n)}
Resolvable   == InstancePort \ NoInsert
Signals      == {NewSignal[x] : x \in Resolvable \X (1..MaxWalks)}
Wires        == Node \ Signals

(* The ports in arrays, and the array and place of each.                   *)
Element    == UNION {Range(Elements[a]) : a \in Array}
ArrayOf(p) == CHOOSE a \in Array : p \in Range(Elements[a])
Place(p)   == CHOOSE i \in DOMAIN Elements[ArrayOf(p)] : Elements[ArrayOf(p)][i] = p

(* What is given a signal or a signal array.  Its type and size are the    *)
(* component's own when they stand for a literal, an expression or, but    *)
(* for sizes, a parameter there.  A size can be a Generic there, or a      *)
(* literal from the outset.  They are foreign when they refer to a         *)
(* parameter of an instance, which parameters can be connected to.         *)
Item    == (Resolvable \ Element) \cup ResolvableArray
Binding == Generic \cup {"own", "foreign", "literal"}
Use     == Array \X (0..MaxWalks)

Phases == {"next", "sinks", "sources"}
Walk == [ports : SUBSET Resolvable, arrays : SUBSET ResolvableArray, phase : Phases, node : Node, sig : Node,
         todo : SUBSET Edge, sank : BOOLEAN, sourced : BOOLEAN]

ASSUME SignalizeAssumption ==
  /\ Elements \in [Array -> Seq(Port)]
  /\ \A a, b \in Array : \A i \in DOMAIN Elements[a], j \in DOMAIN Elements[b] :
       Elements[a][i] = Elements[b][j] => a = b /\ i = j
  /\ NoInsert \subseteq InstancePort /\ IsFiniteSet(InstancePort)
  /\ ResolvableArray \subseteq Array /\ IsFiniteSet(ResolvableArray)
  /\ ResolvableArray \cap Node = {}
  /\ \A a \in ResolvableArray : Range(Elements[a]) \subseteq Resolvable
  /\ \A a \in Array \ ResolvableArray : Range(Elements[a]) \cap Resolvable = {}
  /\ Generic \cap {"own", "foreign", "literal"} = {}
  /\ InUse \in [Generic -> SUBSET (Array \X {0})]
  /\ Bindings \in [Item -> SUBSET Binding]
  /\ \A x \in Item : "own" \in Bindings[x]
  /\ \A p \in Resolvable \ Element : Bindings[p] \subseteq {"own", "foreign"}
  /\ NewSignal \in [Resolvable \X (1..MaxWalks) ->
                      {n \in Node : Kind[n] = "signal" /\ OnComponent(n)}]
  /\ \A x, y \in DOMAIN NewSignal : NewSignal[x] = NewSignal[y] => x = y
  /\ Reconnect \in BOOLEAN
  /\ MaxCalls \in Nat /\ MaxWalks \in Nat
  /\ Idle \notin Walk

-----------------------------------------------------------------------------
SigInit ==
  /\ Init
  /\ bound = [x \in Item |-> "own"] /\ user = InUse
  /\ walks = 0 /\ calls = 0 /\ walk = Idle

(* What the client made depend on more than the component's own.           *)
Bound == {x \in Item : bound[x] # "own"}

UserConnect(dst, src) ==
  /\ walk = Idle /\ calls + Cardinality(Bound) < MaxCalls
  /\ Reconnect \/ ~ Driven(store, dst)
  /\ ConnectNodes(dst, src)
  /\ calls' = calls + 1
  /\ UNCHANGED <<bound, user, walks, walk>>

(* The client connects the parameter of an instance that x depends on, or  *)
(* sets the size of x.                                                     *)
UserBinds(x, b) ==
  /\ walk = Idle
  /\ b \in Bindings[x] /\ bound' = [bound EXCEPT ![x] = b]
  /\ calls + Cardinality(Bound') <= MaxCalls
  /\ UNCHANGED <<store, dir, rebind, user, walks, calls, walk>>

(* A walk visits all ports of all children.                                *)
BeginWalk ==
  /\ walk = Idle /\ walks < MaxWalks
  /\ walks' = walks + 1
  /\ \E n \in Resolvable :
       walk' = [ports |-> Resolvable, arrays |-> ResolvableArray, phase |-> "next",
                node |-> n, sig |-> n, todo |-> {}, sank |-> FALSE, sourced |-> FALSE]
  /\ UNCHANGED <<store, dir, rebind, bound, user, calls>>

In(phase) == walk # Idle /\ walk.phase = phase

(* The ports of an instance are done before its port arrays, and an array  *)
(* from its first element to its last.                                     *)
Before(q, p) ==
  /\ Parent[q] = Parent[p] /\ p \in Element
  /\ q \in Element => ArrayOf(q) = ArrayOf(p) /\ Place(q) < Place(p)

PortNext(p) ==
  /\ In("next")
  /\ p \in walk.ports /\ ~ \E q \in walk.ports : Before(q, p)
  /\ p \in Element => ArrayOf(p) \notin walk.arrays

ArrayNext(a) ==
  /\ In("next") /\ a \in walk.arrays
  /\ \A p \in walk.ports :
       IF p \in Element THEN ArrayOf(p) \in walk.arrays
                        ELSE Parent[p] \notin {Parent[q] : q \in Range(Elements[a])}

(* Mutant of CanBind: a parameter can be the size of several arrays.       *)
CanBindShared(x) == bound[x] \in Generic \cup {"own"}

(* There is a type or a size for the signals of x: SetSize takes no        *)
(* parameter that another array uses, Graph::Add takes nothing that refers *)
(* to another graph, and a literal is never in the map the size is taken   *)
(* from.                                                                   *)
CanBind(x) == IF bound[x] \in Generic THEN user[bound[x]] = {} ELSE bound[x] = "own"

(* Make the signal array and put it on the component.                      *)
AttachArray(a) ==
  /\ ArrayNext(a) /\ CanBind(a)
  /\ user' = IF bound[a] \in Generic THEN [user EXCEPT ![bound[a]] = @ \cup {<<a, walks>>}] ELSE user
  /\ walk' = [walk EXCEPT !.arrays = @ \ {a}]
  /\ UNCHANGED <<store, dir, rebind, bound, walks, calls>>

(* The ports before this one have their signals, the others never get any. *)
WalkThrows ==
  /\ \/ \E p \in Resolvable \ Element : PortNext(p) /\ ~ CanBind(p)
     \/ \E a \in ResolvableArray : ArrayNext(a) /\ ~ CanBind(a)
  /\ walk' = Idle
  /\ UNCHANGED <<store, dir, rebind, bound, user, walks, calls>>

(* Make the signal and put it on the component, or append an element to    *)
(* the signal array, and take the list of sinks.                           *)
Attach(p) ==
  /\ PortNext(p)
  /\ p \notin Element => CanBind(p)
  /\ walk' = [ports |-> walk.ports \ {p}, arrays |-> walk.arrays, phase |-> "sinks", node |-> p,
              sig |-> NewSignal[<<p, walks>>],
              todo |-> Sinks(store, p), sank |-> FALSE, sourced |-> FALSE]
  /\ UNCHANGED <<store, dir, rebind, bound, user, walks, calls>>

(* Mutant of SourceCalls: the port itself is left as it was.               *)
SourceCallsBypass(e) == << <<walk.sig, e.src>> >>

(* The calls Connect(dst, src) made for one edge and, for an array, after  *)
(* both loops.                                                             *)
SinkCalls(e) ==
  IF walk.node \in Element THEN << <<e.dst, walk.sig>> >>
                           ELSE << <<e.dst, walk.sig>>, <<walk.sig, walk.node>> >>
SourceCalls(e) ==
  IF walk.node \in Element THEN << <<walk.sig, e.src>> >>
                           ELSE << <<walk.sig, e.src>>, <<walk.node, walk.sig>> >>
CloseCalls ==
  (IF walk.sank THEN << <<walk.sig, walk.node>> >> ELSE << >>) \o
  (IF walk.sourced THEN << <<walk.node, walk.sig>> >> ELSE << >>)

(* The effect of the i-th of some calls of Connect, if there is one; there *)
(* are two at most.                                                        *)
LinkNth(s, c, i)     == IF i \in DOMAIN c THEN Link(s, c[i][1], c[i][2]) ELSE s
RememberNth(r, c, i) == IF i \in DOMAIN c THEN Remember(r, c[i][1], c[i][2]) ELSE r
RememberAll(r, c)    == RememberNth(RememberNth(r, c, 1), c, 2)

CallsAllowed(c) == \A i \in DOMAIN c : Allowed(dir, c[i][1], c[i][2])

(* Move one edge: a port loses it before the new edges are made, an array  *)
(* element after.                                                          *)
Reroute(e, other, c) ==
  LET late == walk.node \in Element
  IN  /\ CallsAllowed(c)
      /\ \E before \in {IF late THEN store ELSE Unlink(store, e, walk.node, other)} :
           /\ Cardinality(FreshIds(before)) >= Len(c)
           /\ \E once \in {LinkNth(before, c, 1)} : \E after \in {LinkNth(once, c, 2)} :
                store' = IF late THEN Unlink(after, e, walk.node, other) ELSE after
      /\ rebind' = RememberAll(rebind, c)
      /\ UNCHANGED <<dir, bound, user, walks, calls>>

(* Mutant of AttachSink: the loop is over the sinks as they are, not as    *)
(* they were when it began.                                                *)
AttachSinkLive ==
  /\ In("sinks")
  /\ \E e \in walk.todo :
       /\ Reroute(e, e.dst, SinkCalls(e))
       /\ walk' = [walk EXCEPT !.todo = Sinks(store', walk.node), !.sank = TRUE]

AttachSink ==
  /\ In("sinks")
  /\ \E e \in walk.todo :
       /\ Reroute(e, e.dst, SinkCalls(e))
       /\ walk' = [walk EXCEPT !.todo = @ \ {e}, !.sank = TRUE]

SinksDone ==
  /\ In("sinks") /\ walk.todo = {}
  /\ walk' = [walk EXCEPT !.phase = "sources", !.todo = Sources(store, walk.node)]
  /\ UNCHANGED <<store, dir, rebind, bound, user, walks, calls>>

AttachSource ==
  /\ In("sources")
  /\ \E e \in walk.todo :
       /\ Reroute(e, e.src, SourceCalls(e))
       /\ walk' = [walk EXCEPT !.todo = @ \ {e}, !.sourced = TRUE]

(* After both loops an array element is connected to its signal, once.     *)
PortDone ==
  LET c == IF walk.node \in Element THEN CloseCalls ELSE << >>
  IN  /\ In("sources") /\ walk.todo = {}
      /\ CallsAllowed(c)
      /\ Cardinality(FreshIds(store)) >= Len(c)
      /\ \E once \in {LinkNth(store, c, 1)} : store' = LinkNth(once, c, 2)
      /\ rebind' = RememberAll(rebind, c)
      /\ walk' = [walk EXCEPT !.phase = "next"]
      /\ UNCHANGED <<dir, bound, user, walks, calls>>

WalkDone ==
  /\ In("next") /\ walk.ports = {} /\ walk.arrays = {}
  /\ walk' = Idle
  /\ UNCHANGED <<store, dir, rebind, bound, user, walks, calls>>

(* The steps inside a walk.                                                *)
RerouteStep ==
  \/ \E p \in Resolvable : Attach(p)
  \/ \E a \in ResolvableArray : AttachArray(a)
  \/ AttachSink
  \/ SinksDone
  \/ AttachSource
  \/ PortDone

SigNext ==
  \/ \E dst, src \in Wires : UserConnect(dst, src)
  \/ \E x \in Item, b \in Binding : UserBinds(x, b)
  \/ BeginWalk
  \/ RerouteStep
  \/ WalkThrows
  \/ WalkDone

SigSpec == SigInit /\ [][SigNext]_sigVars

-----------------------------------------------------------------------------
SigTypeOK ==
  /\ TypeOK
  /\ bound \in [Item -> Binding]
  /\ user \in [Generic -> SUBSET Use]
  /\ walks \in 0..MaxWalks
  /\ calls \in 0..MaxCalls
  /\ walk \in Walk \cup {Idle}

(* What drives a node, counting the connections CloseCalls has yet to make *)
(* for the array element whose edges are being moved.                      *)
Closing == walk # Idle /\ walk.phase \in {"sinks", "sources"} /\ walk.node \in Element
DriverToBe(n) ==
  IF Closing /\ walk.sank /\ n = walk.sig THEN walk.node
  ELSE IF Closing /\ walk.sourced /\ n = walk.node THEN walk.sig
  ELSE DriverOf(store, n)

DriverMap == [n \in Node |-> DriverToBe(n)]

(* The client's node a node is driven by, looking through the signals that *)
(* were inserted; NoNode also when they only drive each other.             *)
OriginIn(drv, n) ==
  LET back[x \in (Node \cup {NoNode}) \X (0..Cardinality(Signals))] ==
        IF x[1] \notin Signals THEN x[1]
        ELSE IF x[2] = 0 THEN NoNode ELSE back[<<drv[x[1]], x[2] - 1>>]
  IN  back[<<drv[n], Cardinality(Signals)>>]
Origin(n) == OriginIn(DriverMap, n)

(* Inserting signals moves edges but never changes what drives what, not   *)
(* even between two edges of a walk: "redirecting all edges through the    *)
(* new Signal" (edge.h:116).                                               *)
Net == INSTANCE Netlist WITH
  Wire <- Wires, Driveable <- Wires \cap NormalNode, NoWire <- NoNode,
  driver <- [n \in Wires |-> Origin(n)]
KeepsNetlist == Net!NetSpec

(* "We cannot have port-to-port connections of instances" (resolve.h:30):  *)
(* after a walk, all edges at an instance port lead to one and the same    *)
(* signal, which was made for it.                                          *)
EdgesAt(n) == Sinks(store, n) \cup Sources(store, n)
OtherEnd(e, n) == IF e.src = n THEN e.dst ELSE e.src
OneSignalPerPort ==
  [][WalkDone => \A p \in Resolvable : \E s \in Signals :
       \A e \in EdgesAt(p) : OtherEnd(e, p) = s]_sigVars
=============================================================================
