SPECIFICATION MCSpec
CHECK_DEADLOCK FALSE
CONSTANTS
  Null = Null
  Value = {x1, x2, x3}
  Optional = {o1, o2}
  Variant = {e1, e2}
  Scoped = {m1, m2}
  Object = {a, b}
  Reference = {r1, r2}
  Shared = {s1, s2}
  Unique = {u1, u2}
  Callback = {c1, c2}
  Weak = {w}
  OfUnique = {c1}
  MaxSlots = 3
  MaxCount = 2
  NotMade = NotMade
  Vector = {v1, v2}
  Buffer = {b1, b2, b3}
  Element = {e, d}
  Default = d
  MaxSize = 2
  Dead = Dead
  List = {l1, l2}
  Cell = {z1, z2, z3}
  Datum = {e, d}
  SizeValues = 5
INVARIANTS OwnedOnce VectorIsSequence ConstructedOnce StatusTellsType ListsKeepNodes
