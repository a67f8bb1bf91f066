SPECIFICATION Spec
CONSTANTS
  top = top  leaf = leaf  inst = inst
  top_in = top_in  top_out = top_out  inst_in = inst_in  inst_out = inst_out
  leaf_in = leaf_in  sig = sig  par = par  lit = lit
  Node <- MCNode
  Kind <- MCKind
  EdgeId = {1, 2}
  NoEdge = NoEdge
  Component = {top, leaf}
  Instance = {inst}
  NoGraph = NoGraph
  Parent <- MCParent
  Owner <- MCOwner
  Mappable <- MCMappable
  Default <- MCDefault
  InitDir <- MCInitDir
  NoNode = NoNode
INVARIANTS TypeOK HeldConsistently InputBacked RebindTracksParameters
PROPERTY LastConnectWins
