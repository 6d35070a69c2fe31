SPECIFICATION LiveSpec
CONSTANTS
  m1 = m1  m2 = m2  m3 = m3  d = d
  k1 = k1  k2 = k2  k3 = k3
  Messages = {m1, m2, m3, d}
  KeyOf <- MCKeyOf
  Total <- MCTotal
  Direct = {d}
  Copies <- MCCopies
  SlotCount = 3
  MaxGroups = 2
  MaxSlots = 3
  MaxMishaps = 1
  GroupTtl = 2
  Empty = Empty
  NoSlot = NoSlot
INVARIANTS MixedOnlyIfMet
PROPERTIES StoredUntilForwarded CompleteIsForwarded
