-------------------------------- MODULE Edges --------------------------------
(***************************************************************************)
(* Connecting nodes: cerata::Connect (edge.cc) with its checks, the edge   *)
(* every parameter is born with (parameter.cc) and the map in which a      *)
(* component remembers what the nodes of its instances are connected to.   *)
(***************************************************************************)
EXTENDS EdgeStore

CONSTANTS
  Component, Instance,   \* the graphs
  NoGraph,               \* the parent of a node that is on no graph
  Parent,                \* the graph a node is on
  Owner,                 \* the component an instance is a child of
  Mappable,              \* <<src, dst>> with a mapper between their types
  Default,               \* the default value literal of a parameter
  InitDir,               \* direction a port is made with
  NoNode                 \* absent from inst_to_comp

Literal == {n \in Node : Kind[n] = "literal"}
Dirs    == {"in", "out"}

ASSUME EdgesAssumption ==
  /\ Parent \in [Node -> Component \cup Instance \cup {NoGraph}]
  /\ Owner \in [Instance -> Component]
  /\ Component \cap Instance = {}
  /\ NoGraph \notin Component \cup Instance
  /\ Mappable \subseteq Node \X Node
  /\ Default \in [Parameter -> Literal]
  /\ InitDir \in [Port -> Dirs]
  /\ NoNode \notin Node

VARIABLES
  store,   \* outputs_ and input_ of every node
  dir,     \* Term::dir_ of every port
  rebind   \* Component::inst_to_comp, for all components together

vars == <<store, dir, rebind>>

-----------------------------------------------------------------------------
OnComponent(n) == Parent[n] \in Component
OnInstance(n)  == Parent[n] \in Instance

(* The early checks of Connect, before it touches anything.                *)
TypesMap(dst, src) == Kind[src] \in {"port", "signal"} => <<src, dst>> \in Mappable

GraphsAllow(dst, src) ==
  OnComponent(dst) =>
    /\ ~ (OnComponent(src) /\ Parent[src] # Parent[dst])
    /\ ~ (OnInstance(src) /\ Owner[Parent[src]] = Parent[dst] /\ Kind[src] = "parameter")

(* The late checks: a port faces inward on a component, outward on an      *)
(* instance, and may not be driven or read against its direction.          *)
MayDrive(d, n) ==
  n \in Port => ~ \/ OnInstance(n)  /\ d[n] = "out"
                  \/ OnComponent(n) /\ d[n] = "in"
MayRead(d, n) ==
  n \in Port => ~ \/ OnInstance(n)  /\ d[n] = "in"
                  \/ OnComponent(n) /\ d[n] = "out"

DirectionsAllow(d, dst, src) == MayDrive(d, dst) /\ MayRead(d, src)

Allowed(d, dst, src) ==
  TypesMap(dst, src) /\ GraphsAllow(dst, src) /\ DirectionsAllow(d, dst, src)

(* Mutant of Remember: only the first connection is remembered.            *)
RememberFirst(r, dst, src) ==
  IF OnInstance(dst) /\ r[dst] = NoNode THEN [r EXCEPT ![dst] = src] ELSE r

(* The write to inst_to_comp sits between the early and the late checks.   *)
Remember(r, dst, src) == IF OnInstance(dst) THEN [r EXCEPT ![dst] = src] ELSE r

-----------------------------------------------------------------------------
DefaultEdge(p) == [id |-> p, src |-> Default[p], dst |-> p]

Init ==
  /\ store = [outputs |-> [n \in Node |-> {DefaultEdge(p) : p \in {q \in Parameter : Default[q] = n}}],
              input   |-> [n \in Node |-> IF n \in Parameter THEN DefaultEdge(n) ELSE NoEdge]]
  /\ dir = InitDir
  /\ rebind = [n \in Node |-> IF n \in Parameter /\ OnInstance(n) THEN Default[n] ELSE NoNode]

(* Connect(dst, src) that goes through.                                    *)
ConnectNodes(dst, src) ==
  /\ FreshIds(store) # {}
  /\ Allowed(dir, dst, src)
  /\ store' = Link(store, dst, src)
  /\ rebind' = Remember(rebind, dst, src)
  /\ UNCHANGED dir

(* Connect(dst, src) that passes the early checks and throws at a          *)
(* direction: the instance node is in the map by then.                     *)
ConnectThrowsLate(dst, src) ==
  /\ TypesMap(dst, src) /\ GraphsAllow(dst, src)
  /\ ~ DirectionsAllow(dir, dst, src)
  /\ rebind' = Remember(rebind, dst, src)
  /\ UNCHANGED <<store, dir>>

(* Parameter::SetValue refuses signals and ports, then connects.           *)
SetValue(p, value) ==
  /\ p \in Parameter
  /\ Kind[value] \notin {"signal", "port"}
  /\ ConnectNodes(p, value)

Next ==
  \E dst, src \in Node :
    \/ ConnectNodes(dst, src)
    \/ ConnectThrowsLate(dst, src)
    \/ SetValue(dst, src)

Spec == Init /\ [][Next]_vars

-----------------------------------------------------------------------------
DriverOf(s, n) == IF Driven(s, n) THEN s.input[n].src ELSE NoNode
Driver(s) == [n \in Node |-> DriverOf(s, n)]

TypeOK ==
  /\ store \in Store
  /\ dir \in [Port -> Dirs]
  /\ rebind \in [Node -> Node \cup {NoNode}]

(* A node only holds edges it is an end of, and two held edges are never   *)
(* the same object: what AddEdge and RemoveEdge rely on when they compare  *)
(* addresses.                                                              *)
EndsAgree(s) ==
  /\ \A n \in Node : \A e \in s.outputs[n] : e.src = n
  /\ \A n \in Node : Driven(s, n) => n \in NormalNode /\ s.input[n].dst = n
UniqueIds(s) == \A e, f \in Held(s) : e.id = f.id => e = f
HeldConsistently == EndsAgree(store) /\ UniqueIds(store)

(* The edge that drives a node is among the outputs of the node it comes   *)
(* from, so that a walk over the sinks of a node (AttachSignalToNode, the  *)
(* port maps) reaches everything it drives.  Nothing keeps the two ends in *)
(* step except that Connect always updates both.                           *)
Backed(s)   == \A n \in Node : Driven(s, n) => s.input[n] \in s.outputs[s.input[n].src]
InputBacked == Backed(store)

(* inst_to_comp sends a parameter of an instance to the node that sources  *)
(* it (the comment at edge.cc:114), however often it was reconnected.      *)
RebindTracksParameters ==
  \A p \in Parameter : OnInstance(p) => rebind[p] = DriverOf(store, p)

(* A connection that goes through decides the driver of its destination,   *)
(* also when that was driven before, and of no other node.                 *)
LastConnectWins ==
  [][\A dst, src \in Node : ConnectNodes(dst, src) =>
       Driver(store') = IF dst \in NormalNode THEN [Driver(store) EXCEPT ![dst] = src]
                                              ELSE Driver(store)]_vars
=============================================================================
