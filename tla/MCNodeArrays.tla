---------------------------- MODULE MCNodeArrays ----------------------------
(***************************************************************************)
(* Two instances, each with a port array that is sized by a parameter of   *)
(* the instance, inside a component that has a parameter or two of its own *)
(* to connect them to.                                                     *)
(***************************************************************************)
EXTENDS NodeArrays

CONSTANTS a, b, size_a, size_b

MCInitSize == [x \in {a, b} |-> IF x = a THEN size_a ELSE size_b]
MCInitSizeLiteral == [x \in {a, b} |-> IF x = a THEN size_a ELSE Lit(0)]
=============================================================================
