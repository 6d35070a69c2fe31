SPECIFICATION LiveSpec
CONSTANTS
  note = note
  s1 = s1
  n1 = n1
  Sms = {s1}
  Numbers = {n1}
  SenderOf <- MCSenderOf
  Notes = {note}
  Depth = 1
  MaxPending = 2
  SlotCount = 1
  MaxRequests = 2
  MaxResets = 1
  NoNumber = NoNumber
INVARIANTS AtMostOnce ReceiptsTrue ReplyGoesToSender
PROPERTIES AcceptedIsAnswered
