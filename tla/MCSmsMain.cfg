SPECIFICATION Spec
CONSTANTS
  a = a  b1 = b1  b2 = b2  x = x  c1 = c1
  A = A  B = B  X = X
  MessageOf <- MCMessageOf
  Empty = Empty
  Notice = Notice
  Pdus = {a, x}
  Messages = {A, X}
  Direct = {X}
  Unparsable = {}
  Expirable = {}
  Calls = {c1}
  MESlots = {1}
  SMSlots = {2}
  MaxReady = 2
  MaxPending = 1
  MaxDeletions = 1
  MaxReads = 1
  MaxAttempts = 1
  BatchSize = 1
  Commands = {"pause", "resume", "block", "unblock", "at"}
CONSTRAINT OneReasonToDrop
INVARIANTS TypeOK OnlySettledDeleted NoSpuriousDuplicate QueuesBounded PlainLast
PROPERTIES UnrepeatableKept
