------------------------------- MODULE MCEdges -------------------------------
(***************************************************************************)
(* A component top with a child instance inst of component leaf: the ports *)
(* of top and inst in both directions, a signal, a parameter with its      *)
(* default on inst, and a port of leaf that top may not reach.             *)
(***************************************************************************)
EXTENDS Edges

CONSTANTS top, leaf, inst, top_in, top_out, inst_in, inst_out, leaf_in, sig, par, lit

MCNode == {top_in, top_out, inst_in, inst_out, leaf_in, sig, par, lit}
MCKind == [n \in MCNode |->
  CASE n = sig -> "signal" [] n = par -> "parameter" [] n = lit -> "literal" [] OTHER -> "port"]
MCParent == [n \in MCNode |->
  CASE n \in {top_in, top_out, sig} -> top
    [] n \in {inst_in, inst_out, par} -> inst
    [] n = leaf_in -> leaf
    [] n = lit -> NoGraph]
MCOwner   == [i \in {inst} |-> top]
MCDefault == [p \in {par} |-> lit]
MCInitDir == [p \in {top_in, top_out, inst_in, inst_out, leaf_in} |->
  IF p \in {top_out, inst_out} THEN "out" ELSE "in"]

(* All ports and signals have one type; nothing maps to the parameter.     *)
Wires == {top_in, top_out, inst_in, inst_out, leaf_in, sig}
MCMappable == Wires \X Wires
=============================================================================
