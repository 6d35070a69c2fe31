SPECIFICATION FairSpec
CONSTANTS
  a = a  b1 = b1  b2 = b2  x = x  c1 = c1
  A = A  B = B  X = X
  Pdus = {a, b1}
  Messages = {A, B}
  MessageOf <- MCMessageOf
  Direct = {}
  Unparsable = {}
  Expirable = {}
  Calls = {c1}
  MESlots = {1}
  SMSlots = {2}
  Empty = Empty
  Notice = Notice
  MaxReady = 1
  MaxPending = 1
  MaxDeletions = 1
  MaxReads = 1
  MaxAttempts = 1
  BatchSize = 1
  Commands = {}
PROPERTIES StoredIsSettled
