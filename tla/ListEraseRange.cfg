SPECIFICATION SpecAnyRange
CONSTANTS
  Node = {n1, n2, n3}
  Null = Null
PROPERTY ClearEmpties
CHECK_DEADLOCK FALSE
