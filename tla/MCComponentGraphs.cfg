SPECIFICATION GraphsSpec
CONSTANTS
  width = width  port = port  array = array  clash = clash  wire = wire
  Component = {leaf, top}
  Instance = {inst, inst2}
  Object = {width, port, array, clash, wire}
  Kind <- MCKind
  Name <- MCName
  Refs <- MCRefs
  Size <- MCSize
  Parts <- MCParts
  None = None
INVARIANTS GraphsTypeOK OwnedOnce InstanceRefsLocal ReferencesAreMapped DeclarationsSeparated MapsWhatIsDeclared
PROPERTY InterfaceKept
CHECK_DEADLOCK FALSE
