SPECIFICATION FairSpec
CHECK_DEADLOCK FALSE
CONSTANTS
  Client = {c1}
  Server = {s1}
  None = None
  MaxRuns = 1
PROPERTY LookupRetried
