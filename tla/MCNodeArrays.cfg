SPECIFICATION ArraysSpec
CONSTANTS
  a = a  b = b  size_a = size_a  size_b = size_b
  Array = {a, b}
  SigArray = {s, t}
  Parameter = {size_a, size_b, p, q}
  InstParam = {size_a, size_b, q}
  InitSize <- MCInitSize
  None = None
  MaxValue = 2
  Habits = {}
INVARIANTS ArraysTypeOK SizeIsNumNodes TracesEnd
CHECK_DEADLOCK FALSE
