------------------------------- MODULE Netlist -------------------------------
(***************************************************************************)
(* What a design promises about its wires, whatever the library does to    *)
(* the edges underneath: every node has at most one driver, and a call of  *)
(* the client that connects a node sets the driver of that node, if it has *)
(* an input.  Nothing else does: every other step of the library leaves    *)
(* all drivers alone.                                                      *)
(***************************************************************************)
EXTENDS Naturals

CONSTANTS
  Wire,       \* the nodes the client made
  Driveable,  \* those among them that have an input
  NoWire      \* the driver of a node that is not driven

VARIABLES
  driver,   \* what drives each wire
  calls     \* connections made by the client

netVars == <<driver, calls>>

NetInit == driver \in [Wire -> Wire \cup {NoWire}] /\ calls = 0

Drive(dst, src) ==
  /\ calls' = calls + 1
  /\ driver' = IF dst \in Driveable THEN [driver EXCEPT ![dst] = src] ELSE driver

NetNext == \E dst, src \in Wire : Drive(dst, src)

NetSpec == NetInit /\ [][NetNext]_netVars
=============================================================================
