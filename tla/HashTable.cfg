SPECIFICATION MCSpec
CONSTANTS
  Node = {n1, n2, n3}
  Null = Null
  k1 = k1  k2 = k2  k3 = k3  k4 = k4
  Key = {k1, k2, k3, k4}
  Slot = {0, 1}
  Value = {v1, v2}
  Hash <- MCHash
  Absent = Absent
  WordValues = 65536
SYMMETRY Symmetry
INVARIANTS Contiguous TableOK FindIsExact CountIsExact
PROPERTIES ImplementsMap
