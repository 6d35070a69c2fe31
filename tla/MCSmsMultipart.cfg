SPECIFICATION Spec
CONSTANTS
  a = a  b1 = b1  b2 = b2  x = x  c1 = c1
  A = A  B = B  X = X
  Pdus = {a, b1, b2}
  Messages = {A, B}
  MessageOf <- MCMessageOf
  Direct = {}
  Unparsable = {}
  Expirable = {B}
  Calls = {}
  MESlots = {1, 2}
  SMSlots = {}
  Empty = Empty
  Notice = Notice
  MaxReady = 2
  MaxPending = 1
  MaxDeletions = 1
  MaxReads = 2
  MaxAttempts = 1
  BatchSize = 2
  Commands = {}
INVARIANTS NoLoss SlotsOwned
PROPERTIES MailboxSpec
