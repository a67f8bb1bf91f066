SPECIFICATION GenSpec
CONSTANTS
  top = top  inst = inst  top_in = top_in  top_out = top_out
  ti1 = ti1  ti2 = ti2  to1 = to1  to2 = to2
  inst_in = inst_in  inst_out = inst_out
  ao1 = ao1  ao2 = ao2  ai1 = ai1  no1 = no1  no2 = no2
  g = g
  ClientNode = {top_in, top_out, to1, to2, inst_in, inst_out, ao1, ao2}
  Node <- MCNode
  Kind <- MCKind
  EdgeId = {1, 2, 3, 4, 5, 6, 7, 8, 9, 10, 11, 12, 13, 14, 15, 16}
  NoEdge = NoEdge
  Component = {top}
  Instance = {inst}
  NoGraph = NoGraph
  Parent <- MCParent
  Owner <- MCOwner
  Mappable <- MCMappable
  Default <- MCDefault
  InitDir <- MCInitDir
  NoNode = NoNode
  Array = {"ti", "to", "ao", "ai", "no"}
  Elements <- MCElements
  NoInsert <- MCNoInsert
  ResolvableArray = {"ao", "ai"}
  NewSignal <- MCNewSignal
  Generic = {g}
  InUse <- MCInUse
  Bindings <- MCBindings
  Reconnect = FALSE
  MaxWalks = 1
  MaxCalls = 2
  Idle = Idle
INVARIANT AllPortsAssigned
CHECK_DEADLOCK FALSE
