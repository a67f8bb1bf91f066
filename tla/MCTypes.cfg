SPECIFICATION MapsSpec
CONSTANTS
  FlatA = {1, 2}
  FlatB = {1, 2}
  MaxOrder = 2
  Types <- MCTypes
  Elements = 2
  b = b  v = v  s = s  t = t  r = r
  Type = {b, v, s, t, r}
  Stream = {s, t}
  ElementTypes = {b, v}
  Copies <- MCCopies
  InitId <- MCId
  InitFields <- MCFields
  Maps = {"x"}
  MaxStored = 4
  HabitSets <- MCHabitSets
INVARIANTS OrderIsDecided PairsPartition PairsConcatenate
           OneMapperPerTarget ConvertsBothWays MappersFit DirectionsAgree
CHECK_DEADLOCK FALSE
