SPECIFICATION FilesSpec
CONSTANTS
  compA = compA  compB = compB  compC = compC
  edge1 = edge1  edge2 = edge2  edge3 = edge3  litEdge = litEdge
  keyK = keyK  keyKK = keyKK  symX = symX  symY = symY
  Comp = {compA, compB, compC}
  FileName <- MCFileName
  Edge = {edge1, edge2, edge3, litEdge}
  NodeEdges <- MCNodeEdges
  HiddenEdge = {litEdge}
  NoComp = NoComp
  NoFile = NoFile
  MaxOutputs = 3
  MaxEdits = 2
  Key = {keyK, keyKK}
  Symbol = {symX, symY}
  KeyLen <- MCKeyLen
  Loadable <- MCLoadable
  Value <- MCValue
  NoValue = NoValue
  Document <- MCDocument
  NoName = NoName
  Absent = Absent
  parP = parP  parQ = parQ  graphG = graphG  graphH = graphH
  Param = {parP, parQ}
  Graph = {graphG, graphH}
  Literals = {0, 1}
  NoGraph = NoGraph
  MaxMade = 2
  MaxPrints = 1
  MaxClears = 0
SYMMETRY Swap
INVARIANT TextMeansExpression
CHECK_DEADLOCK FALSE
