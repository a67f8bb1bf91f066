------------------------------ MODULE EdgeStore ------------------------------
(***************************************************************************)
(* The edges of a Cerata graph and the two ends that hold them.            *)
(*                                                                         *)
(* An Edge object (edge.h) is owned by nobody in particular: its source    *)
(* node keeps a shared pointer to it in outputs_, its destination keeps    *)
(* one in input_, and it lives as long as either end does.  The two ends   *)
(* are updated by separate calls, so they can come to disagree.  A store   *)
(* is the pair of these two containers for every node.                     *)
(*                                                                         *)
(* outputs_ is a vector in the code and a set here: no caller depends on   *)
(* the order of the edges of one node, and loops over it are modelled as   *)
(* taking the edges in any order.                                          *)
(***************************************************************************)
EXTENDS Naturals

CONSTANTS
  Node,      \* every node that can exist
  Kind,      \* Node::NodeID of a node
  EdgeId,    \* identities of edge objects; bounds how many live at once
  NoEdge     \* a null input_

Kinds == {"port", "signal", "parameter", "literal", "expression"}

(* Nodes with an input_; literals and expressions only have outputs_.      *)
NormalNode == {n \in Node : Kind[n] \in {"port", "signal", "parameter"}}
Parameter  == {n \in Node : Kind[n] = "parameter"}
Port       == {n \in Node : Kind[n] = "port"}

(* The edge a Parameter's constructor makes is named after the parameter,  *)
(* so that the initial store needs no choice of identities.                *)
Edge == [id : EdgeId \cup Parameter, src : Node, dst : Node]

Store == [outputs : [Node -> SUBSET Edge], input : [Node -> Edge \cup {NoEdge}]]

ASSUME StoreAssumption ==
  /\ Kind \in [Node -> Kinds]
  /\ NoEdge \notin Edge

-----------------------------------------------------------------------------
Inputs(s) == {s.input[n] : n \in Node} \ {NoEdge}
Held(s)   == (UNION {s.outputs[n] : n \in Node}) \cup Inputs(s)

FreshIds(s) == EdgeId \ {e.id : e \in Held(s)}

(* A store with the outputs, or the input, of one node changed.            *)
SetOutputs(s, n, es) == [outputs |-> [s.outputs EXCEPT ![n] = es], input |-> s.input]
SetInput(s, n, e)    == [outputs |-> s.outputs, input |-> [s.input EXCEPT ![n] = e]]

(* Mutants of AddEdge: one forgets to ask whether the node sources the     *)
(* edge, the other keeps the first input a node was given.                 *)
AddEdgeAnySource(s, n, e) ==
  IF e \notin s.outputs[n] THEN SetOutputs(s, n, s.outputs[n] \cup {e})
  ELSE IF n \in NormalNode /\ e.dst = n THEN SetInput(s, n, e)
  ELSE s
AddEdgeKeepsFirst(s, n, e) ==
  IF e.src = n /\ e \notin s.outputs[n] THEN SetOutputs(s, n, s.outputs[n] \cup {e})
  ELSE IF n \in NormalNode /\ e.dst = n /\ s.input[n] = NoEdge THEN SetInput(s, n, e)
  ELSE s

(* MultiOutputNode::AddEdge, then NormalNode::AddEdge: an edge is an       *)
(* output if this node sources it and does not have it yet, else it        *)
(* becomes the input, whatever input the node had before.                  *)
AddEdge(s, n, e) ==
  IF e.src = n /\ e \notin s.outputs[n] THEN SetOutputs(s, n, s.outputs[n] \cup {e})
  ELSE IF n \in NormalNode /\ e.dst = n THEN SetInput(s, n, e)
  ELSE s

(* MultiOutputNode::RemoveEdge, then NormalNode::RemoveEdge.  Edges are    *)
(* compared by address, and a removal that finds nothing is silent; that   *)
(* is also all that happens when the argument was freed a line earlier,    *)
(* since no live pointer equals it.                                        *)
RemoveEdge(s, n, e) ==
  IF e \in s.outputs[n] THEN SetOutputs(s, n, s.outputs[n] \ {e})
  ELSE IF n \in NormalNode /\ s.input[n] = e THEN SetInput(s, n, NoEdge)
  ELSE s

(* Mutant of Unlink: the node at hand keeps the edge.                      *)
UnlinkOtherEnd(s, e, first, second) == RemoveEdge(s, second, e)

(* Both calls of the loops that take an edge off its two ends.             *)
Unlink(s, e, first, second) == RemoveEdge(RemoveEdge(s, first, e), second, e)

(* Mutants of Link: the edge is only given to its destination; edges into  *)
(* a node are one object.                                                  *)
LinkDestinationOnly(s, dst, src) ==
  AddEdge(s, dst, [id |-> CHOOSE i \in FreshIds(s) : TRUE, src |-> src, dst |-> dst])
LinkSharedPerDestination(s, dst, src) ==
  LET e == [id |-> dst, src |-> src, dst |-> dst]
  IN  AddEdge(AddEdge(s, src, e), dst, e)

(* The last four lines of Connect: a new edge, given to the source first.  *)
Link(s, dst, src) ==
  LET e == [id |-> CHOOSE i \in FreshIds(s) : TRUE, src |-> src, dst |-> dst]
  IN  AddEdge(AddEdge(s, src, e), dst, e)

(* Node::sources() and NormalNode::input(): the node that drives n.        *)
Driven(s, n)  == s.input[n] # NoEdge
Sources(s, n) == {s.input[n]} \ {NoEdge}
Sinks(s, n)   == s.outputs[n]
=============================================================================
