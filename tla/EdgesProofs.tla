----------------------------- MODULE EdgesProofs -----------------------------
(***************************************************************************)
(* Proofs about Connect for any design and any number of edges.  All rest  *)
(* on LinkEffect: whatever branches AddEdge takes, a connection puts one   *)
(* edge with a fresh identity among the outputs of the source and makes it *)
(* the input of the destination.                                           *)
(***************************************************************************)
EXTENDS Edges, TLAPS

NewEdge(s, dst, src) == [id |-> CHOOSE i \in FreshIds(s) : TRUE, src |-> src, dst |-> dst]

(* The new edge is an edge, and no node holds one with its identity.       *)
LEMMA NewEdgeIsFresh ==
  ASSUME NEW s, NEW dst \in Node, NEW src \in Node, FreshIds(s) # {}
  PROVE  /\ NewEdge(s, dst, src) \in Edge
         /\ NewEdge(s, dst, src) # NoEdge
         /\ \A f \in Held(s) : f.id # NewEdge(s, dst, src).id
<1>1. (CHOOSE i \in FreshIds(s) : TRUE) \in FreshIds(s)
  OBVIOUS
<1>2. NewEdge(s, dst, src).id \in EdgeId \ {e.id : e \in Held(s)}
  BY <1>1 DEF NewEdge, FreshIds
<1>3. NewEdge(s, dst, src) \in Edge
  BY <1>2 DEF NewEdge, Edge
<1> QED
  BY <1>2, <1>3, StoreAssumption

(* What the two AddEdge calls of Connect amount to, also when a node is    *)
(* connected to itself.                                                    *)
LEMMA LinkEffect ==
  ASSUME NEW s \in Store, NEW dst \in Node, NEW src \in Node, FreshIds(s) # {}
  PROVE  /\ Link(s, dst, src).outputs =
              [s.outputs EXCEPT ![src] = s.outputs[src] \cup {NewEdge(s, dst, src)}]
         /\ Link(s, dst, src).input =
              IF dst \in NormalNode THEN [s.input EXCEPT ![dst] = NewEdge(s, dst, src)]
                                    ELSE s.input
         /\ Link(s, dst, src) \in Store
<1> DEFINE e == NewEdge(s, dst, src)
           t == SetOutputs(s, src, s.outputs[src] \cup {e})
<1>1. e.src = src /\ e.dst = dst
  BY DEF NewEdge
<1>2. e \notin s.outputs[src]
  <2>1. \A f \in s.outputs[src] : f \in Held(s)
    BY DEF Held
  <2> QED
    BY <2>1, NewEdgeIsFresh
<1>3. AddEdge(s, src, e) = t
  BY <1>1, <1>2 DEF AddEdge
<1>4. t.outputs = [s.outputs EXCEPT ![src] = @ \cup {e}] /\ t.input = s.input
  BY DEF SetOutputs
<1>5. ~ (e.src = dst /\ e \notin t.outputs[dst])
  BY <1>1, <1>4 DEF Store
<1>6. AddEdge(t, dst, e) = IF dst \in NormalNode THEN SetInput(t, dst, e) ELSE t
  BY <1>1, <1>5 DEF AddEdge
<1>7. Link(s, dst, src) = AddEdge(AddEdge(s, src, e), dst, e)
  BY DEF Link, NewEdge
<1>8. e \in Edge
  BY NewEdgeIsFresh
<1>9. t \in Store
  BY <1>8 DEF SetOutputs, Store
<1>10. Link(s, dst, src) = IF dst \in NormalNode THEN SetInput(t, dst, e) ELSE t
  BY <1>3, <1>6, <1>7
<1>11. SetInput(t, dst, e) \in Store
  BY <1>8, <1>9 DEF SetInput, Store
<1>12. SetInput(t, dst, e).outputs = t.outputs /\ SetInput(t, dst, e).input = [s.input EXCEPT ![dst] = e]
  BY <1>4 DEF SetInput
<1> HIDE DEF t
<1>13. CASE dst \in NormalNode
  BY <1>4, <1>10, <1>11, <1>12, <1>13
<1>14. CASE dst \notin NormalNode
  BY <1>4, <1>9, <1>10, <1>14
<1> QED
  BY <1>13, <1>14
-----------------------------------------------------------------------------
(* The new edge is held by its own ends only, under an identity no held    *)
(* edge has.                                                               *)
LEMMA LinkKeepsConsistency ==
  ASSUME NEW s \in Store, NEW dst \in Node, NEW src \in Node, FreshIds(s) # {},
         EndsAgree(s), UniqueIds(s)
  PROVE  EndsAgree(Link(s, dst, src)) /\ UniqueIds(Link(s, dst, src))
<1> DEFINE e == NewEdge(s, dst, src)
           t == Link(s, dst, src)
<1>1. /\ t.outputs = [s.outputs EXCEPT ![src] = s.outputs[src] \cup {e}]
      /\ t.input = IF dst \in NormalNode THEN [s.input EXCEPT ![dst] = e] ELSE s.input
  BY LinkEffect
<1>2. e.src = src /\ e.dst = dst
  BY DEF NewEdge
<1>3. EndsAgree(t)
  BY <1>1, <1>2 DEF EndsAgree, Driven, Store
<1>4. Held(t) \subseteq Held(s) \cup {e}
  <2>1. \A n \in Node : t.outputs[n] \subseteq s.outputs[n] \cup {e}
    BY <1>1 DEF Store
  <2>2. \A n \in Node : t.input[n] \in {s.input[n], e}
    BY <1>1 DEF Store
  <2>3. (UNION {t.outputs[n] : n \in Node}) \subseteq (UNION {s.outputs[n] : n \in Node}) \cup {e}
    BY <2>1
  <2>4. Inputs(t) \subseteq Inputs(s) \cup {e}
    BY <2>2 DEF Inputs
  <2> QED
    BY <2>3, <2>4 DEF Held
<1>5. UniqueIds(t)
  BY <1>4, NewEdgeIsFresh DEF UniqueIds
<1> QED
  BY <1>3, <1>5

(* The source of a new input lists it, and no output is ever dropped.      *)
LEMMA LinkKeepsBacked ==
  ASSUME NEW s \in Store, NEW dst \in Node, NEW src \in Node, FreshIds(s) # {}, Backed(s)
  PROVE  Backed(Link(s, dst, src))
<1> DEFINE e == NewEdge(s, dst, src)
           t == Link(s, dst, src)
<1>1. /\ t.outputs = [s.outputs EXCEPT ![src] = s.outputs[src] \cup {e}]
      /\ t.input = IF dst \in NormalNode THEN [s.input EXCEPT ![dst] = e] ELSE s.input
  BY LinkEffect
<1>2. \A n \in Node : s.outputs[n] \subseteq t.outputs[n]
  BY <1>1 DEF Store
<1>3. e \in t.outputs[e.src]
  BY <1>1 DEF NewEdge, Store
<1>4. ASSUME NEW n \in Node, Driven(t, n)
      PROVE  t.input[n] \in t.outputs[t.input[n].src]
  <2>1. CASE t.input[n] = e
    BY <2>1, <1>3
  <2>2. CASE t.input[n] # e
    <3>1. t.input[n] = s.input[n]
      BY <2>2, <1>1 DEF Store
    <3>2. s.input[n] \in s.outputs[s.input[n].src] /\ s.input[n].src \in Node
      BY <3>1, <1>4 DEF Backed, Driven, Store, Edge
    <3> QED
      BY <3>1, <3>2, <1>2
  <2> QED
    BY <2>1, <2>2
<1> QED
  BY <1>4 DEF Backed
-----------------------------------------------------------------------------
(* Taking edges away: every node keeps some of the outputs it had, and its *)
(* input or none.                                                          *)
Shrinks(s, t) ==
  \A n \in Node : t.outputs[n] \subseteq s.outputs[n] /\ t.input[n] \in {s.input[n], NoEdge}

(* RemoveEdge takes an edge from one container of one node.                *)
LEMMA RemoveEffect ==
  ASSUME NEW s \in Store, NEW n \in Node, NEW e
  PROVE  /\ RemoveEdge(s, n, e) \in Store
         /\ RemoveEdge(s, n, e).outputs =
              IF e \in s.outputs[n] THEN [s.outputs EXCEPT ![n] = s.outputs[n] \ {e}] ELSE s.outputs
         /\ RemoveEdge(s, n, e).input =
              IF e \notin s.outputs[n] /\ n \in NormalNode /\ s.input[n] = e
              THEN [s.input EXCEPT ![n] = NoEdge] ELSE s.input
<1>1. CASE e \in s.outputs[n]
  BY <1>1 DEF RemoveEdge, SetOutputs, Store
<1>2. CASE e \notin s.outputs[n] /\ n \in NormalNode /\ s.input[n] = e
  BY <1>2 DEF RemoveEdge, SetInput, Store
<1>3. CASE e \notin s.outputs[n] /\ ~ (n \in NormalNode /\ s.input[n] = e)
  BY <1>3 DEF RemoveEdge
<1> QED
  BY <1>1, <1>2, <1>3

LEMMA RemoveShrinks ==
  ASSUME NEW s \in Store, NEW n \in Node, NEW e
  PROVE  RemoveEdge(s, n, e) \in Store /\ Shrinks(s, RemoveEdge(s, n, e))
<1> DEFINE t == RemoveEdge(s, n, e)
<1>1. /\ t \in Store
      /\ t.outputs = IF e \in s.outputs[n] THEN [s.outputs EXCEPT ![n] = s.outputs[n] \ {e}]
                                           ELSE s.outputs
      /\ t.input = IF e \notin s.outputs[n] /\ n \in NormalNode /\ s.input[n] = e
                     THEN [s.input EXCEPT ![n] = NoEdge] ELSE s.input
  BY RemoveEffect
<1> HIDE DEF t
<1>2. ASSUME NEW m \in Node
      PROVE  t.outputs[m] \subseteq s.outputs[m] /\ t.input[m] \in {s.input[m], NoEdge}
  <2>1. t.outputs[m] \subseteq s.outputs[m]
    BY <1>1 DEF Store
  <2>2. t.input[m] \in {s.input[m], NoEdge}
    BY <1>1 DEF Store
  <2> QED
    BY <2>1, <2>2
<1> QED
  BY <1>1, <1>2 DEF Shrinks, t

LEMMA RemoveLeavesOthers ==
  ASSUME NEW s \in Store, NEW n \in Node, NEW e, NEW m \in Node, m # n
  PROVE  /\ RemoveEdge(s, n, e).outputs[m] = s.outputs[m]
         /\ RemoveEdge(s, n, e).input[m] = s.input[m]
<1> DEFINE t == RemoveEdge(s, n, e)
<1>1. /\ t.outputs = IF e \in s.outputs[n] THEN [s.outputs EXCEPT ![n] = s.outputs[n] \ {e}]
                                           ELSE s.outputs
      /\ t.input = IF e \notin s.outputs[n] /\ n \in NormalNode /\ s.input[n] = e
                     THEN [s.input EXCEPT ![n] = NoEdge] ELSE s.input
  BY RemoveEffect
<1> HIDE DEF t
<1>2. t.outputs[m] = s.outputs[m]
  BY <1>1 DEF Store
<1>3. t.input[m] = s.input[m]
  BY <1>1 DEF Store
<1> QED
  BY <1>2, <1>3 DEF t

LEMMA UnlinkShrinks ==
  ASSUME NEW s \in Store, NEW first \in Node, NEW second \in Node, NEW e
  PROVE  Unlink(s, e, first, second) \in Store /\ Shrinks(s, Unlink(s, e, first, second))
<1> DEFINE t == RemoveEdge(s, first, e)
           u == RemoveEdge(t, second, e)
<1>1. t \in Store /\ Shrinks(s, t)
  BY RemoveShrinks
<1> HIDE DEF t
<1>2. u \in Store /\ Shrinks(t, u)
  BY <1>1, RemoveShrinks
<1>3. u = Unlink(s, e, first, second)
  BY DEF Unlink, t
<1> QED
  BY <1>1, <1>2, <1>3 DEF Shrinks

LEMMA ShrinkKeepsConsistency ==
  ASSUME NEW s \in Store, NEW t \in Store, Shrinks(s, t), EndsAgree(s), UniqueIds(s)
  PROVE  EndsAgree(t) /\ UniqueIds(t)
<1>1. EndsAgree(t)
  BY DEF EndsAgree, Shrinks, Driven
<1>2. Held(t) \subseteq Held(s)
  BY DEF Held, Inputs, Shrinks
<1> QED
  BY <1>1, <1>2 DEF UniqueIds
-----------------------------------------------------------------------------
(* The three steps share one shape.                                        *)
LEMMA StepShape ==
  ASSUME NEW dst \in Node, NEW src \in Node,
         ConnectNodes(dst, src) \/ ConnectThrowsLate(dst, src) \/ SetValue(dst, src)
  PROVE  /\ store' = store \/ (FreshIds(store) # {} /\ store' = Link(store, dst, src))
         /\ rebind' = Remember(rebind, dst, src)
         /\ dir' = dir
  BY DEF ConnectNodes, ConnectThrowsLate, SetValue

(* Every parameter is born with an edge of its own.                        *)
LEMMA DefaultEdgesAreEdges ==
  ASSUME NEW p \in Parameter
  PROVE  /\ DefaultEdge(p) \in Edge /\ DefaultEdge(p) # NoEdge
         /\ DefaultEdge(p).id = p /\ DefaultEdge(p).src = Default[p] /\ DefaultEdge(p).dst = p
         /\ Default[p] \in Node
<1>1. p \in Node /\ Default[p] \in Node
  BY EdgesAssumption DEF Parameter, Literal
<1>2. DefaultEdge(p) \in Edge
  BY <1>1 DEF DefaultEdge, Edge
<1> QED
  BY <1>1, <1>2, StoreAssumption DEF DefaultEdge

LEMMA TypeInit == Init => TypeOK
<1> SUFFICES ASSUME Init PROVE TypeOK
  OBVIOUS
<1>1. store.outputs \in [Node -> SUBSET Edge]
  BY DefaultEdgesAreEdges DEF Init
<1>2. store.input \in [Node -> Edge \cup {NoEdge}]
  BY DefaultEdgesAreEdges DEF Init
<1>3. store = [outputs |-> store.outputs, input |-> store.input]
  BY DEF Init
<1>4. store \in Store
  BY <1>1, <1>2, <1>3 DEF Store
<1>5. dir \in [Port -> Dirs]
  BY EdgesAssumption DEF Init
<1>6. rebind \in [Node -> Node \cup {NoNode}]
  BY DefaultEdgesAreEdges DEF Init
<1> QED
  BY <1>4, <1>5, <1>6 DEF TypeOK

LEMMA TypeStep == TypeOK /\ [Next]_vars => TypeOK'
<1> SUFFICES ASSUME TypeOK, [Next]_vars PROVE TypeOK'
  OBVIOUS
<1>1. ASSUME NEW dst \in Node, NEW src \in Node,
             ConnectNodes(dst, src) \/ ConnectThrowsLate(dst, src) \/ SetValue(dst, src)
      PROVE  TypeOK'
  <2> store \in Store
    BY DEF TypeOK
  <2>1. store' = store \/ (FreshIds(store) # {} /\ store' = Link(store, dst, src))
    BY <1>1, StepShape
  <2>2. FreshIds(store) # {} => Link(store, dst, src) \in Store
    BY LinkEffect
  <2>3. store' \in Store
    BY <2>1, <2>2
  <2>4. dir' \in [Port -> Dirs] /\ rebind' \in [Node -> Node \cup {NoNode}]
    BY <1>1, StepShape DEF TypeOK, Remember
  <2> QED
    BY <2>3, <2>4 DEF TypeOK
<1>2. CASE UNCHANGED vars
  BY <1>2 DEF TypeOK, vars
<1> QED
  BY <1>1, <1>2 DEF Next

(* The containers keep their types: no step leaves a node with an edge     *)
(* that is not one.                                                        *)
THEOREM TypeSafety == Spec => []TypeOK
BY TypeInit, TypeStep, PTL DEF Spec

(* At first the ends of the edges agree, no two of them are the same       *)
(* object, and the source of every input lists it.                         *)
LEMMA StoreInit == Init => HeldConsistently /\ InputBacked
<1> SUFFICES ASSUME Init PROVE HeldConsistently /\ InputBacked
  OBVIOUS
<1>1. \A n \in Node : store.outputs[n] = {DefaultEdge(p) : p \in {q \in Parameter : Default[q] = n}}
  BY DEF Init
<1>2. \A n \in Node : store.input[n] = IF n \in Parameter THEN DefaultEdge(n) ELSE NoEdge
  BY DEF Init
<1>3. EndsAgree(store)
  BY <1>1, <1>2, DefaultEdgesAreEdges DEF EndsAgree, Driven, Parameter, NormalNode
<1>4. UniqueIds(store)
  <2>1. \A n \in Node : \A e \in store.outputs[n] : \E p \in Parameter : e = DefaultEdge(p)
    BY <1>1
  <2>2. \A e \in Inputs(store) : \E p \in Parameter : e = DefaultEdge(p)
    BY <1>2 DEF Inputs
  <2>3. \A e \in Held(store) : \E p \in Parameter : e = DefaultEdge(p)
    BY <2>1, <2>2 DEF Held
  <2> QED
    BY <2>3, DefaultEdgesAreEdges DEF UniqueIds
<1>5. Backed(store)
  BY <1>1, <1>2, DefaultEdgesAreEdges DEF Backed, Driven
<1> QED
  BY <1>3, <1>4, <1>5 DEF HeldConsistently, InputBacked

LEMMA ConsistencyStep == TypeOK /\ HeldConsistently /\ [Next]_vars => HeldConsistently'
<1> SUFFICES ASSUME TypeOK, HeldConsistently, [Next]_vars PROVE HeldConsistently'
  OBVIOUS
<1>1. ASSUME NEW dst \in Node, NEW src \in Node,
             ConnectNodes(dst, src) \/ ConnectThrowsLate(dst, src) \/ SetValue(dst, src)
      PROVE  HeldConsistently'
  <2>1. FreshIds(store) # {} => EndsAgree(Link(store, dst, src)) /\ UniqueIds(Link(store, dst, src))
    BY LinkKeepsConsistency DEF TypeOK, HeldConsistently
  <2> QED
    BY <1>1, <2>1, StepShape DEF HeldConsistently
<1>2. CASE UNCHANGED vars
  BY <1>2 DEF HeldConsistently, vars
<1> QED
  BY <1>1, <1>2 DEF Next

LEMMA BackedStep == TypeOK /\ InputBacked /\ [Next]_vars => InputBacked'
<1> SUFFICES ASSUME TypeOK, InputBacked, [Next]_vars PROVE InputBacked'
  OBVIOUS
<1>1. ASSUME NEW dst \in Node, NEW src \in Node,
             ConnectNodes(dst, src) \/ ConnectThrowsLate(dst, src) \/ SetValue(dst, src)
      PROVE  InputBacked'
  <2>1. FreshIds(store) # {} => Backed(Link(store, dst, src))
    BY LinkKeepsBacked DEF TypeOK, InputBacked
  <2> QED
    BY <1>1, <2>1, StepShape DEF InputBacked
<1>2. CASE UNCHANGED vars
  BY <1>2 DEF InputBacked, vars
<1> QED
  BY <1>1, <1>2 DEF Next

(* However nodes are connected and reconnected, a node only holds edges it *)
(* is an end of and no two held edges share an identity.                   *)
THEOREM EndsStayConsistent == Spec => []HeldConsistently
BY StoreInit, ConsistencyStep, TypeSafety, PTL DEF Spec

(* Whatever drives a node can be asked for that node: following sinks()    *)
(* misses no driven node.                                                  *)
THEOREM DriversListTheirSinks == Spec => []InputBacked
BY StoreInit, BackedStep, TypeSafety, PTL DEF Spec
-----------------------------------------------------------------------------
(* A connection gives its destination the new edge and moves no other      *)
(* node's input.                                                           *)
LEMMA LinkDrives ==
  ASSUME NEW s \in Store, NEW dst \in Node, NEW src \in Node, FreshIds(s) # {}
  PROVE  /\ dst \in NormalNode => /\ Driven(Link(s, dst, src), dst)
                                  /\ DriverOf(Link(s, dst, src), dst) = src
         /\ \A n \in Node : n # dst \/ n \notin NormalNode =>
              /\ Driven(Link(s, dst, src), n) = Driven(s, n)
              /\ DriverOf(Link(s, dst, src), n) = DriverOf(s, n)
<1> DEFINE t == Link(s, dst, src)
           e == NewEdge(s, dst, src)
<1>1. t.input = IF dst \in NormalNode THEN [s.input EXCEPT ![dst] = e] ELSE s.input
  BY LinkEffect
<1>2. e # NoEdge /\ e.src = src
  BY NewEdgeIsFresh DEF NewEdge
<1>3. \A n \in Node : n # dst \/ n \notin NormalNode => t.input[n] = s.input[n]
  BY <1>1 DEF Store
<1>4. dst \in NormalNode => t.input[dst] = e
  BY <1>1 DEF Store
<1> HIDE DEF t, e
<1> QED
  BY <1>2, <1>3, <1>4 DEF Driven, DriverOf, t

(* Connecting a node that is driven already replaces its driver, and it    *)
(* never takes the driver of another node away.                            *)
THEOREM LastConnectDecides == Spec => LastConnectWins
<1>1. ASSUME TypeOK, NEW dst \in Node, NEW src \in Node, ConnectNodes(dst, src)
      PROVE  Driver(store') = IF dst \in NormalNode THEN [Driver(store) EXCEPT ![dst] = src]
                                                     ELSE Driver(store)
  <2>1. store \in Store /\ FreshIds(store) # {} /\ store' = Link(store, dst, src)
    BY <1>1 DEF TypeOK, ConnectNodes
  <2>2. dst \in NormalNode => DriverOf(store', dst) = src
    BY <2>1, LinkDrives
  <2>3. \A n \in Node : n # dst \/ n \notin NormalNode => DriverOf(store', n) = DriverOf(store, n)
    BY <2>1, LinkDrives
  <2> QED
    BY <2>2, <2>3 DEF Driver
<1>2. TypeOK /\ [Next]_vars =>
        [\A dst, src \in Node : ConnectNodes(dst, src) =>
           Driver(store') = IF dst \in NormalNode THEN [Driver(store) EXCEPT ![dst] = src]
                                                  ELSE Driver(store)]_vars
  BY <1>1
<1> QED
  BY <1>2, TypeSafety, PTL DEF Spec, LastConnectWins

(* No port or signal has a type that maps to the type of a parameter.      *)
ParametersApart ==
  \A p \in Parameter, n \in Node : Kind[n] \in {"port", "signal"} => <<n, p>> \notin Mappable

(* The map of a component follows the parameters of its instances, as long *)
(* as no connection to a parameter gets as far as the direction checks and *)
(* is refused there: by then the map names the refused node (edge.cc:119).   *)
THEOREM RebindFollowsParameters ==
  ASSUME ParametersApart PROVE Spec => []RebindTracksParameters
<1>1. Init => RebindTracksParameters
  BY DefaultEdgesAreEdges DEF Init, RebindTracksParameters, DriverOf, Driven, Parameter
<1>2. TypeOK /\ RebindTracksParameters /\ [Next]_vars => RebindTracksParameters'
  <2> SUFFICES ASSUME TypeOK, RebindTracksParameters, [Next]_vars PROVE RebindTracksParameters'
    OBVIOUS
  <2>1. ASSUME NEW dst \in Node, NEW src \in Node, NEW p \in Parameter, OnInstance(p),
               ConnectNodes(dst, src) \/ ConnectThrowsLate(dst, src) \/ SetValue(dst, src)
        PROVE  rebind'[p] = DriverOf(store', p)
    <3>1. rebind' = Remember(rebind, dst, src)
      BY <2>1, StepShape
    <3>2. rebind[p] = DriverOf(store, p) /\ p \in Node /\ p \in NormalNode /\ p \notin Port
      BY <2>1 DEF RebindTracksParameters, Parameter, NormalNode, Port
    <3>3. CASE ConnectNodes(dst, src) \/ SetValue(dst, src)
      <4>1. ConnectNodes(dst, src)
        BY <3>3 DEF SetValue
      <4>2. store \in Store /\ FreshIds(store) # {} /\ store' = Link(store, dst, src)
        BY <4>1 DEF TypeOK, ConnectNodes
      <4>3. DriverOf(store', p) = IF p = dst THEN src ELSE DriverOf(store, p)
        BY <3>2, <4>2, LinkDrives
      <4>4. rebind'[p] = IF p = dst THEN src ELSE rebind[p]
        BY <2>1, <3>1, <3>2 DEF TypeOK, Remember
      <4> QED
        BY <3>2, <4>3, <4>4
    <3>4. CASE ConnectThrowsLate(dst, src)
      <4>1. dst # p
        BY <3>2, <3>4 DEF ConnectThrowsLate, DirectionsAllow, MayDrive, MayRead, TypesMap,
                          ParametersApart, Port
      <4>2. rebind'[p] = rebind[p]
        BY <3>1, <3>2, <4>1 DEF TypeOK, Remember
      <4>3. store' = store
        BY <3>4 DEF ConnectThrowsLate
      <4> QED
        BY <3>2, <4>2, <4>3
    <3> QED
      BY <2>1, <3>3, <3>4
  <2>2. CASE UNCHANGED vars
    BY <2>2 DEF RebindTracksParameters, vars
  <2> QED
    BY <2>1, <2>2 DEF Next, RebindTracksParameters
<1> QED
  BY <1>1, <1>2, TypeSafety, PTL DEF Spec
=============================================================================
