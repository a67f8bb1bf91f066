----------------------------- MODULE MCEdgeEdits -----------------------------
(***************************************************************************)
(* A component top with two signals, a parameter with its default, and a   *)
(* child instance with an output.                                          *)
(***************************************************************************)
EXTENDS EdgeEdits

CONSTANTS top, inst, inst_out, sig1, sig2, par, lit

MCNode == {inst_out, sig1, sig2, par, lit}
MCKind == [n \in MCNode |->
  CASE n \in {sig1, sig2} -> "signal" [] n = par -> "parameter"
    [] n = lit -> "literal" [] OTHER -> "port"]
MCParent == [n \in MCNode |->
  CASE n = inst_out -> inst [] n = lit -> NoGraph [] OTHER -> top]
MCOwner   == [i \in {inst} |-> top]
MCDefault == [p \in {par} |-> lit]
MCInitDir == [p \in {inst_out} |-> "out"]
Wires     == {inst_out, sig1, sig2}
MCMappable == Wires \X Wires
=============================================================================
