SPECIFICATION LiveSpec
CONSTANTS
  s = s  d = d  c1 = c1  e = e
  NoLine = NoLine
  Stored = {}
  Direct = {}
  Calls = {c1}
  Events = {}
  OwnCommands = {"storage", "query", "cmgs"}
  MaxUrc = 2
  MaxWire = 2
  Sluggish = FALSE
  MaxRings = 2
  MaxNoise = 0
  MaxCommands = 1
  LinesPerPass = 2
INVARIANTS AnswersMatch HungUpOnce
PROPERTIES CallsNotified
