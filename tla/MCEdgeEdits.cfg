SPECIFICATION EditSpec
CONSTANTS
  top = top  inst = inst  inst_out = inst_out
  sig1 = sig1  sig2 = sig2  par = par  lit = lit
  Node <- MCNode
  Kind <- MCKind
  EdgeId = {1, 2}
  NoEdge = NoEdge
  Component = {top}
  Instance = {inst}
  NoGraph = NoGraph
  Parent <- MCParent
  Owner <- MCOwner
  Mappable <- MCMappable
  Default <- MCDefault
  InitDir <- MCInitDir
  NoNode = NoNode
  Idle = Idle
INVARIANTS EditTypeOK HeldConsistently ReplaceMovesInput
PROPERTY DriversAreHandedOn
CHECK_DEADLOCK FALSE
