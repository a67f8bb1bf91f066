SPECIFICATION ArraysSpec
CONSTANTS
  a = a  b = b  size_a = size_a  size_b = size_b
  Array = {a, b}
  SigArray = {s}
  Parameter = {size_a, p}
  InstParam = {size_a}
  InitSize <- MCInitSizeLiteral
  None = None
  MaxValue = 1
  Habits = {"share", "resize", "late", "replace"}
INVARIANTS SizeHasOneUser
CHECK_DEADLOCK FALSE
