SPECIFICATION Spec
CONSTANTS
  s = s  d = d  c1 = c1  e = e
  NoLine = NoLine
  Stored = {s}
  Direct = {d}
  Calls = {c1}
  Events = {e}
  OwnCommands = {}
  MaxUrc = 2
  MaxWire = 2
  Sluggish = FALSE
  MaxRings = 1
  MaxNoise = 1
  MaxCommands = 0
  LinesPerPass = 2
INVARIANTS CmtPaired
PROPERTIES NothingLostSilently
