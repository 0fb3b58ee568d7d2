SPECIFICATION MCSpec
CHECK_DEADLOCK FALSE
CONSTANTS
  Client = {c1, c2}
  Server = {s1}
  None = None
  MaxRuns = 2
  LocalThread = {t1, t2}
  Unknown = Unknown
  NULL = NULL
  MaxRequests = 3
  Lock = {l1, l2}
  Native = {n1, n2, n3}
  Guard = {g1, g2, g3}
  Undefined = Undefined
  Taken = Taken
  Gone = Gone
  Context = {k1, k2}
  Holder = {h1, h2, h3}
  Empty = Empty
  PageSize = 2
  MaxPages = 2
  Ranges <- MCRanges
  Protections = {0, 1, 2, 3, 4, 5, 6, 7, 8, 10}
  Thread = {t1, t2, t3}
  MaxClients = 2
  Hook = {w1, w2}
  MaxInits = 3
INVARIANTS AcceptsOneProposer AnsweredWasDone GuardsExclude NativeOwnedOnce
INVARIANTS MapsReleasedOnce GateReleasedOnce HookFound
