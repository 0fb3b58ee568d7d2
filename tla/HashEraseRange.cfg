SPECIFICATION MCSpecAnyHashes
CONSTANTS
  Node = {n1, n2}
  Null = Null
  k1 = k1  k2 = k2  k3 = k3  k4 = k4
  Key = {k1, k2, k3}
  Slot = {0, 1}
  Value = {v1}
  Hash <- MCHash
  Absent = Absent
  WordValues = 65536
INVARIANT NoDanglingSlot
CHECK_DEADLOCK FALSE
