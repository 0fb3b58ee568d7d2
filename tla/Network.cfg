SPECIFICATION MCSpec
CHECK_DEADLOCK FALSE
CONSTANTS
  MaxField = 4
  MaxSegment = 3
  MaxBytes = 9
  MaxQueue = 4
  ByteValues = 4
  WordValues = 65536
  AutoSendSizes = {0, 2, 100}
  Fields <- MCFields
  MaxVector = 9
  MaxSent = 3
  ThreadID = {1, 258}
  IDSize = 2
  MaxIDs = 2
  OsSocket = {o1, o2, o3}
  Holder = {h1, h2, h3}
  Invalid = Invalid
  NotMade = NotMade
  Host = {peer}
  NoAddress = NoAddress
  MaxPacket = 2
  MaxArrived = 3
  MaxReceives = 3
  DataSize = 4
  MaxSends = 4
INVARIANTS BytesInOrder CrashOnlyWhenDrained
INVARIANTS WritesInBounds SegmentHoldsWrites  NumbersRepeatAfterSync
INVARIANTS MessagesReadBack
INVARIANTS SocketsOwned PacketsWhole SendsAll
