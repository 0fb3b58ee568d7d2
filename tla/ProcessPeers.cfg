SPECIFICATION Spec
CONSTANTS
  p1 = p1  p2 = p2
  t1 = t1  t2 = t2
  Peer = {p1, p2}
  Thread = {t1, t2}
  Hosts <- MCHosts
  Client = {c1}
  Iterator = {i1, i2, i3, i4}
  Null = Null
  MaxSent <- MCMaxSent
  MaxRepeats = 1
INVARIANTS RefCountExact CountCoversThreads ReadIsCurrent CrashNeedsDisorder GoodbyeReachesAll
PROPERTIES LockGivenBack
CHECK_DEADLOCK FALSE
