SPECIFICATION Spec
CONSTANTS
  Node = {n1, n2, n3, n4}
  Null = Null
INVARIANTS ListInv Linked SizeIsCount ReturnIsLive
PROPERTIES ClearEmpties
