------------------------- MODULE MCComponentGraphs --------------------------
(***************************************************************************)
(* Two components, two instances and the objects the client makes for      *)
(* them: a width parameter, a port of that width, a port array of that     *)
(* width and size, a signal of that width, and a port that has the name of *)
(* the parameter.                                                          *)
(***************************************************************************)
EXTENDS Declarations

CONSTANTS width, port, array, clash, wire

MCKind == [o \in Object |->
  CASE o = width -> "parameter" [] o \in {port, clash} -> "port"
    [] o = array -> "port_array" [] o = wire -> "signal"]
MCName == [o \in Object |-> IF o = clash THEN width ELSE o]
MCRefs == [o \in Object |-> IF o \in {port, array, wire} THEN {width} ELSE {}]
MCSize == [o \in Object |-> IF o = array THEN width ELSE None]

MCParts == [o \in Object |-> CASE o = port -> 2 [] o = clash -> 0 [] OTHER -> 1]
=============================================================================
